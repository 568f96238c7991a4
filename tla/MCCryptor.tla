------------------------------ MODULE MCCryptor ------------------------------
(* Cryptor for TLC.                                                        *)
EXTENDS Cryptor
=============================================================================
