-------------------------- MODULE MCClientProtocol --------------------------
(* ClientProtocol for TLC.                                                 *)
EXTENDS ClientProtocol
=============================================================================
