---------------------------- MODULE MCNetworkQC ----------------------------
(***************************************************************************)
(* Model values for NetworkQC.  The days of the network are only compared  *)
(* with each other, so that renaming them changes nothing.                 *)
(***************************************************************************)
EXTENDS NetworkQC, TLC

DaySymmetry == Permutations(Day)
=============================================================================
