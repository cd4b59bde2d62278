----------------------------- MODULE MCInbound -----------------------------
(* Small instances of Inbound, and the mutants its properties must catch.    *)
EXTENDS Inbound, TLC

CONSTANTS n1, n2, p1, p2

\* Two notes of two senders.
TwoSenders == (n1 :> p1) @@ (n2 :> p2)

Symmetry == Permutations(Calls) \cup Permutations(Devices)
=============================================================================
