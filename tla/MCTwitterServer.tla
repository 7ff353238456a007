-------------------------- MODULE MCTwitterServer ---------------------------
(* Small instances of TwitterServer for TLC. *)
EXTENDS TwitterServer

ConnAndProfileSymmetry == Permutations(Conns) \cup Permutations(ProfileIds)
=============================================================================
