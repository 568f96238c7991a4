------------------------------ MODULE MCUdpRelay ------------------------------
(* UdpRelay for TLC: the peers and targets are model values.               *)
EXTENDS UdpRelay

CONSTANTS p1, p2, t1, t2
=============================================================================
