-------------------------- MODULE MCSreqTransport --------------------------
(* SreqTransport on a few threads and commands, for TLC. *)
EXTENDS SreqTransport, TLC

=============================================================================
