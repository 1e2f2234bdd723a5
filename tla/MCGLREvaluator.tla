--------------------------- MODULE MCGLREvaluator ---------------------------
(* The GLR evaluator for TLC: the grammars with their LR(0) automata. *)
EXTENDS GLREvaluator, EvaluatorGrammars, LRAutomaton

WithAutomaton(g) ==
  [start |-> g.start, rules |-> g.rules, automaton |-> Automaton(g, MCTerminals)]

MCGrammars == {WithAutomaton(g) : g \in
  {Sums, Binary(1, 2, "left"), Binary(2, 1, "right"), Binary(1, 1, "left"),
   Star, Plus, Nullables, Twice(Null, 1), Twice(1, 2), Mixed(1, Null),
   Mixed(1, 1), Dropping, Undefined, NoStart}}

MCAlternatives == AlternativesOf(MCGrammars)
=============================================================================
