--------------------------- MODULE MCDeviceRegistry ---------------------------
(***************************************************************************)
(* DeviceRegistry for TLC: one device with the addresses a1 and a2,        *)
(* another with b1, and room for two entries.                              *)
(***************************************************************************)
EXTENDS DeviceRegistry

CONSTANTS front, back, b1

MCOwnerOf == [a \in Addrs |-> IF a = b1 THEN back ELSE front]

\* Nothing tells the addresses of one device apart.
AddrSymmetry == Permutations(Addrs \ {b1})
=============================================================================
