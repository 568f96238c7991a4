---------------------------- MODULE MCDestination ----------------------------
(* Destination for TLC.  Bytes count to 10, so a port is at most 99 and a  *)
(* host at most 9 characters; "a" takes one byte, "e" two.  The name <<"e">> *)
(* is also what the server reads of <<"e", "a">>.  Of the first messages    *)
(* only one that names the empty host, of a cut request, is too short.     *)
EXTENDS Destination

CONSTANTS c1, c2, ip1, ip2, ip6

MCEncoding == [ch \in {"a", "e"} |-> IF ch = "a" THEN <<1>> ELSE <<2, 3>>]

MCAnswers ==
    [n \in {<<"a">>, <<"a", "a">>, <<"e">>, <<"e", "a">>} |->
        IF n = <<"a">> THEN {ip1, ip2} ELSE IF n = <<"a", "a">> THEN {ip2, ip6} ELSE {ip1}]

Req(via, atyp, host, port) == [via |-> via, atyp |-> atyp, host |-> host, port |-> port]

MCRequests ==
    {Req("socks5", 3, <<"a">>, 8),      Req("socks5", 3, <<"a", "a">>, 43),
     Req("socks5", 1, <<"a">>, 8),      Req("socks5", 4, <<"a">>, 8),
     Req("connect", 3, <<"a">>, 43),    Req("connect", 3, <<"a", "a">>, 120),
     Req("connect", 3, [i \in 1..10 |-> "a"], 43),
     Req("get", 3, <<"a", "a">>, 80),   Req("connect", 3, <<"e", "a">>, 43),
     Req("socks5", 3, <<"a", "e">>, 8)}
=============================================================================
