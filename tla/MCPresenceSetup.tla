--------------------------- MODULE MCPresenceSetup ---------------------------
(* PresenceSetup for TLC: a sensor with up to two addresses. *)
EXTENDS PresenceSetup

MCOwnerOf == [a \in Addrs |-> CHOOSE s \in Sensors : TRUE]
=============================================================================
