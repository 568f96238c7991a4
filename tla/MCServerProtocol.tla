-------------------------- MODULE MCServerProtocol --------------------------
(* ServerProtocol for TLC.                                                 *)
EXTENDS ServerProtocol
=============================================================================
