------------------------------ MODULE Subnets ------------------------------
(***************************************************************************)
(* IP addresses of AddrBits bits, and subnets of them: net.IPNet, given by *)
(* the first address and the length of the prefix.                         *)
(***************************************************************************)
EXTENDS Naturals

CONSTANT AddrBits     \* length of an address

ASSUME SubnetsAssumption == AddrBits \in Nat

Addresses == 0..(2^AddrBits - 1)
Nets == [ip : Addresses, len : 0..AddrBits]

AnyNet == [ip |-> 0, len |-> 0]
OneHost(a) == [ip |-> a, len |-> AddrBits]

Mask(a, len) == a - (a % 2^(AddrBits - len))
InNet(n, a) == Mask(a, n.len) = n.ip
=============================================================================
