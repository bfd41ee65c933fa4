----------------------------- MODULE MCEditor -----------------------------
(***************************************************************************)
(* Addresses are interchangeable.                                          *)
(***************************************************************************)
EXTENDS Editor, TLC

Symmetry == Permutations(Addresses)
=============================================================================
