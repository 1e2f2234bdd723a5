---------------------------- MODULE MCLifecycle ----------------------------
(* The life cycle for TLC: objects of one kind are interchangeable. *)
EXTENDS Lifecycle, TLC

Symmetry == Permutations(Charts) \cup Permutations(Contexts)
=============================================================================
