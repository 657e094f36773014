---------------------------- MODULE MCSirenAlarm ----------------------------
(***************************************************************************)
(* SirenAlarm for TLC: sirens are interchangeable.                         *)
(***************************************************************************)
EXTENDS SirenAlarm, TLC

SirenSymmetry == Permutations(Sirens)
=============================================================================
