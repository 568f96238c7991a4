--------------------------- MODULE MCSodiumStream ---------------------------
(* SodiumStream for TLC.                                                   *)
EXTENDS SodiumStream
=============================================================================
