--------------------- MODULE MCProfileAccessController ----------------------
(* Small instances of ProfileAccessController for TLC. *)
EXTENDS ProfileAccessController, TLC

ThreadSymmetry == Permutations(Threads \ Rejected)
=============================================================================
