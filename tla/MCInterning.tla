----------------------------- MODULE MCInterning -----------------------------
(* Instance for TLC: a grammar of a start and two rules, one with a symbol. *)
EXTENDS Interning, TLC

MCLayout == <<"start", "key", "symbol", "key">>

MCSymmetry == Permutations(Grammars) \cup Permutations(Names) \cup Permutations(Addresses)
=============================================================================
