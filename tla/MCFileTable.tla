----------------------------- MODULE MCFileTable -----------------------------
(***************************************************************************)
(* Instance of FileTable for TLC.                                          *)
(***************************************************************************)
EXTENDS FileTable, TLC

Symm == Permutations(Tables) \cup Permutations(Users)
=============================================================================
