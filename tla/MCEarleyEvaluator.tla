------------------------- MODULE MCEarleyEvaluator -------------------------
(* The Earley evaluator for TLC. *)
EXTENDS EarleyEvaluator, EvaluatorGrammars

MCLongMin == -1

MCGrammars ==
  {Sums, Binary(1, 2, "left"), Binary(2, 1, "right"), Binary(1, 1, "left"),
   Binary(1, 1, "right"), Star, Plus, Nullables, Cycle,
   Twice(Null, 1), Twice(1, 2), Mixed(1, Null),
   Mixed(Null, 1), Mixed(1, 1), Dropping, Undefined, NoStart}

MCAlternatives == AlternativesOf(MCGrammars)
=============================================================================
