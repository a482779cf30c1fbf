---------------------------- MODULE MCLabelStore ----------------------------
(* LabelStore for TLC: services and edits are interchangeable.             *)
EXTENDS LabelStore, TLC

Symmetry == Permutations(Service) \cup Permutations(Edit)
=============================================================================
