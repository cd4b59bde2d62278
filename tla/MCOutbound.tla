----------------------------- MODULE MCOutbound -----------------------------
(* Small instances of Outbound, and the mutants its properties must catch.   *)
EXTENDS Outbound, TLC

Symmetry == Permutations(Requests) \cup Permutations(Servers)
=============================================================================
