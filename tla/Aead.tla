-------------------------------- MODULE Aead --------------------------------
(***************************************************************************)
(* The authenticated ciphers (Crypto/aead.py): how plaintext is divided    *)
(* into chunks, how the decryptor finds them again in a byte stream that   *)
(* arrives in segments of any length, and where each of the three libraries *)
(* (openssl.py, sodium.py, mbedtls.py) keeps the nonce.  The two proxies   *)
(* need not use the same library, so all must number alike: OpenSSL works  *)
(* under the nonce in its context, one step behind self._nonce, the others *)
(* under self._nonce itself.                                               *)
(*                                                                         *)
(* A chunk is two blocks, each sealed by one call of aead_encrypt under    *)
(* the next nonce: the payload's length, then the payload.  The library    *)
(* that seals is external: byte i of block b on the wire is <<b, i>>, and  *)
(* only exactly the bytes of a block, under its nonce, open to its text.   *)
(***************************************************************************)
EXTENDS Naturals, Sequences

CONSTANTS
    Mask,        \* AEAD_CHUNK_SIZE_MASK, 0x3FFF: the longest payload
    SizeLen,     \* AEAD_CHUNK_SIZE_LEN, 2
    TagLen,      \* the cipher's tag length, 16
    NonceBase,   \* what one byte of the nonce counts to, 256
    NonceLen,    \* the nonce's bytes, 12 or 24
    Backends     \* the libraries a side may use

ASSUME AeadConstants ==
    /\ Mask \in Nat \ {0}
    /\ SizeLen \in Nat \ {0} /\ TagLen \in Nat
    /\ NonceBase \in Nat \ {0, 1} /\ NonceLen \in Nat \ {0}
    /\ Backends \subseteq {"openssl", "sodium", "mbedtls"} /\ Backends # {}

HeaderLen == SizeLen + TagLen

Byte  == Nat \X Nat
Nonce == [1..NonceLen -> 0..(NonceBase - 1)]

ZeroNonce == [i \in 1..NonceLen |-> 0]

(* Mutation of NonceIncrement: no carry, no mask.                          *)
NonceIncrementPlain(nonce) == [nonce EXCEPT ![1] = nonce[1] + 1]

(* nonce_increment: add 1 in little endian, byte by byte with a carry; the *)
(* last carry is dropped.                                                  *)
NonceIncrement(nonce) ==
    LET carry[i \in 0..NonceLen] ==
            IF i = 0 THEN 1 ELSE (carry[i - 1] + nonce[i]) \div NonceBase
    IN  [i \in 1..NonceLen |-> (carry[i - 1] + nonce[i]) % NonceBase]

(* A cipher object: self._nonce, the nonce in OpenSSL's context, and is    *)
(* there a context?                                                        *)
Cipher == [backend : Backends, nonce : Nonce, ctx : Nonce, live : BOOLEAN]

(* Mutation of CtxInit: OpenSSL's context is not given the next nonce.     *)
CtxInitOnce(c) == [c EXCEPT !.nonce = NonceIncrement(c.nonce)]

(* cipher_ctx_init, after every block and, with OpenSSL, at the beginning. *)
CtxInit(c) == [c EXCEPT !.ctx = c.nonce, !.nonce = NonceIncrement(c.nonce)]

(* Mutation of New: the nonce is moved on for every backend.               *)
NewPrepared(b) == CtxInit([backend |-> b, nonce |-> ZeroNonce, ctx |-> ZeroNonce, live |-> TRUE])

New(b) ==
    LET c == [backend |-> b, nonce |-> ZeroNonce, ctx |-> ZeroNonce, live |-> TRUE]
    IN  IF b = "openssl" THEN CtxInit(c) ELSE c

(* The nonce the library works under.                                      *)
InUse(c) == IF c.backend = "openssl" THEN c.ctx ELSE c.nonce

-----------------------------------------------------------------------------
(* Encryption.                                                             *)

(* aead_encrypt: what one call seals.                                      *)
Block(c, text, len) == [nonce |-> InUse(c), text |-> text, size |-> len + TagLen]

BlockBytes(b, block) == [i \in 1..block.size |-> <<b, i>>]

(* encrypt_chunk: the blocks of one chunk.                                 *)
EncryptChunk(c, data) ==
    <<Block(c, <<Len(data) % (Mask + 1)>>, SizeLen), Block(CtxInit(c), data, Len(data))>>

(* Mutation of Pieces: a byte is lost where the data is cut.               *)
PiecesGap(data) ==
    IF Len(data) <= Mask THEN <<data>>
    ELSE <<SubSeq(data, 1, Mask), SubSeq(data, Mask + 2, Len(data))>>

(* encrypt: the loop cuts Mask bytes off until nothing is left.            *)
Pieces(data) ==
    IF Len(data) <= Mask THEN <<data>>
    ELSE [i \in 1..((Len(data) + Mask - 1) \div Mask) |->
             SubSeq(data, (i - 1) * Mask + 1,
                    IF i * Mask < Len(data) THEN i * Mask ELSE Len(data))]

(* The blocks made from data, and the cipher afterwards.                   *)
AeadEncrypt(c, data) ==
    LET pieces == Pieces(data)
        upto[i \in 0..Len(pieces)] ==
            IF i = 0 THEN [cipher |-> c, blocks |-> <<>>]
            ELSE [cipher |-> CtxInit(CtxInit(upto[i - 1].cipher)),
                  blocks |-> upto[i - 1].blocks \o EncryptChunk(upto[i - 1].cipher, pieces[i])]
    IN  upto[Len(pieces)]

-----------------------------------------------------------------------------
(* Decryption.  A decryptor's state within one call:                       *)
(*   mlen, data   self._chunk: the length of the payload waited for, or 0, *)
(*                and the bytes kept from earlier segments                 *)
(*   cipher       the cipher object                                        *)
(*   left, out    the rest of the segment, the plaintext found so far      *)
(*   ok           FALSE once an exception was raised                       *)
DecryptState ==
    [mlen : Nat, data : Seq(Byte), cipher : Cipher,
     left : Seq(Byte), out : Seq(Nat), ok : BOOLEAN]

(* aead_decrypt of bytes succeeds: they are one whole block, sealed under  *)
(* the nonce in use.  Without a context the library raises, or crashes.    *)
Opens(c, bytes, blocks) ==
    /\ c.live
    /\ \E b \in DOMAIN blocks :
           blocks[b].nonce = InUse(c) /\ bytes = BlockBytes(b, blocks[b])

TextOf(bytes, blocks) == blocks[bytes[1][1]].text

Drop(s, n) == SubSeq(s, n + 1, Len(s))

(* Mutation of Refuse: the nonce of a refused block is counted.            *)
RefuseCounting(s) ==
    [s EXCEPT !.mlen = 0, !.data = <<>>, !.ok = FALSE, !.cipher = CtxInit(s.cipher)]

(* aead_decrypt of any other bytes raises before cipher_ctx_init; OpenSSL's *)
(* final() has called clean() by then.  The buffer was emptied before.     *)
Refuse(s) ==
    [s EXCEPT !.mlen = 0, !.data = <<>>, !.ok = FALSE,
              !.cipher.live = s.cipher.live /\ s.cipher.backend # "openssl"]

(* Mutation of DecryptPayload: it waits for one byte too many.             *)
DecryptPayloadLate(s, plen, blocks) ==
    LET bytes == s.data \o s.left
        len   == plen + TagLen
        block == SubSeq(bytes, 1, len)
    IN  IF Len(bytes) <= len
        THEN [s EXCEPT !.mlen = plen, !.data = bytes, !.left = <<>>]
        ELSE IF Opens(s.cipher, block, blocks)
        THEN [s EXCEPT !.mlen = 0, !.data = <<>>, !.left = Drop(bytes, len),
                       !.cipher = CtxInit(s.cipher),
                       !.out = s.out \o TextOf(block, blocks)]
        ELSE Refuse(s)

(* decrypt_chunk_payload: wait for plen bytes and a tag, or take them.     *)
DecryptPayload(s, plen, blocks) ==
    LET bytes == s.data \o s.left
        len   == plen + TagLen
        block == SubSeq(bytes, 1, len)
    IN  IF Len(bytes) < len
        THEN [s EXCEPT !.mlen = plen, !.data = bytes, !.left = <<>>]
        ELSE IF Opens(s.cipher, block, blocks)
        THEN [s EXCEPT !.mlen = 0, !.data = <<>>, !.left = Drop(bytes, len),
                       !.cipher = CtxInit(s.cipher),
                       !.out = s.out \o TextOf(block, blocks)]
        ELSE Refuse(s)

(* decrypt_chunk: when no payload is waited for, decrypt_chunk_size waits  *)
(* for a header, or takes it and goes on to the payload.                   *)
DecryptChunk(s, blocks) ==
    LET bytes  == s.data \o s.left
        header == SubSeq(bytes, 1, HeaderLen)
        plen   == TextOf(header, blocks)[1]
        opened == [s EXCEPT !.data = <<>>, !.left = Drop(bytes, HeaderLen),
                            !.cipher = CtxInit(s.cipher)]
    IN  IF s.mlen > 0 THEN DecryptPayload(s, s.mlen, blocks)
        ELSE IF Len(bytes) < HeaderLen
        THEN [s EXCEPT !.data = bytes, !.left = <<>>]
        ELSE IF ~Opens(s.cipher, header, blocks) THEN Refuse(s)
        ELSE IF plen \in 1..Mask THEN DecryptPayload(opened, plen, blocks)
        ELSE [opened EXCEPT !.ok = FALSE,
                            !.cipher.live = s.cipher.live /\ s.cipher.backend = "sodium"]

(* Mutation of AeadDecrypt: only one chunk per call.                       *)
AeadDecryptOne(s, blocks) == DecryptChunk(s, blocks)

(* decrypt: one chunk, and further ones while bytes are left, of which     *)
(* each takes at least one.                                                *)
AeadDecrypt(s, blocks) ==
    LET chunks[i \in 0..Len(s.left)] ==
            IF i = 0 THEN DecryptChunk(s, blocks)
            ELSE LET t == chunks[i - 1]
                 IN  IF t.ok /\ t.left # <<>> THEN DecryptChunk(t, blocks) ELSE t
    IN  chunks[Len(s.left)]
=============================================================================
