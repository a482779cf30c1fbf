------------------------------ MODULE MCRouter ------------------------------
(* Router for TLC: containers and requests are interchangeable.            *)
EXTENDS Router, TLC

Symmetry == Permutations(Container) \cup Permutations(Request)
=============================================================================
