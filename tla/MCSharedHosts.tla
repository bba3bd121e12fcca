---------------------------- MODULE MCSharedHosts ----------------------------
(* Small instances of SharedHosts for TLC.                                 *)
EXTENDS SharedHosts, TLC

Symmetry == Permutations(Permit)
=============================================================================
