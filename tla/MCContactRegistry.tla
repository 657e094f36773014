-------------------------- MODULE MCContactRegistry --------------------------
(***************************************************************************)
(* ContactRegistry for TLC: one sensor with the addresses a1 and a2,       *)
(* another with b1.                                                        *)
(***************************************************************************)
EXTENDS ContactRegistry

CONSTANTS front, back, b1

MCOwnerOf == [a \in Addrs |-> IF a = b1 THEN back ELSE front]
=============================================================================
