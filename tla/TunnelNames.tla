---------------------------- MODULE TunnelNames ----------------------------
(***************************************************************************)
(* getTunnelPortName (mechanisms/vxlan/common.go): the name of the OVS port *)
(* that leads to a remote forwarder.  An IPv4 address is the sequence of    *)
(* its four octets, a name the sequence of its digits: the leading "v" is   *)
(* left out, and so are the dots, as the code does.                         *)
(***************************************************************************)
EXTENDS Integers, Sequences

Octet == 0..255
IPv4 == [1..4 -> Octet]

\* The decimal digits that net.IP.String prints for an octet.
Digits(n) ==
  CASE n < 10      -> <<n>>
    [] n \in 10..99 -> <<n \div 10, n % 10>>
    [] OTHER       -> <<n \div 100, (n \div 10) % 10, n % 10>>

TunnelPortName(ip) == Digits(ip[1]) \o Digits(ip[2]) \o Digits(ip[3]) \o Digits(ip[4])
=============================================================================
