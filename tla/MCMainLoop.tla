----------------------------- MODULE MCMainLoop -----------------------------
(* Small instances of MainLoop.                                              *)
EXTENDS MainLoop, TLC

Symmetry == Permutations(Takes)
=============================================================================
