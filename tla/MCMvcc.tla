------------------------------- MODULE MCMvcc -------------------------------
(***************************************************************************)
(* Instances of Mvcc for TLC.                                              *)
(***************************************************************************)
EXTENDS Mvcc, TLC

Symm == Permutations(Sessions)
=============================================================================
