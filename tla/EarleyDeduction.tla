-------------------------- MODULE EarleyDeduction --------------------------
(***************************************************************************)
(* What an Earley chart promises, with no order of evaluation: items and   *)
(* the back pointers between them are deduced one at a time, in any order, *)
(* by the four rules of Earley's algorithm.  EarleyChart is shown to       *)
(* implement this specification.                                           *)
(***************************************************************************)
EXTENDS Grammar

VARIABLES
  grammar,  \* the grammar, chosen once
  tokens,   \* the tokens read so far
  items,    \* the items deduced so far
  edges     \* pairs <<item, back>>: the derivations found for each item

vars == <<grammar, tokens, items, edges>>

Init ==
  /\ grammar \in Grammars
  /\ tokens = << >>
  /\ items = {}
  /\ edges = {}

\* The scanner delivers one more token.
Read(t) ==
  /\ tokens' = Append(tokens, t)
  /\ UNCHANGED <<grammar, items, edges>>

Deduce(it) ==
  /\ items' = items \cup {it}
  /\ UNCHANGED <<grammar, tokens, edges>>

DeduceWith(it, b) ==
  /\ items' = items \cup {it}
  /\ edges' = edges \cup {<<it, b>>}
  /\ UNCHANGED <<grammar, tokens>>

Start ==
  /\ grammar.start \in DOMAIN grammar.rules
  /\ \E k \in 1..Len(grammar.rules[grammar.start]) :
       Deduce(Predicted(grammar.start, k, 0))

\* The dot of w stands before a name that has a rule.
Predicts(w) ==
  /\ Dotted(grammar, w) \in Names
  /\ Dotted(grammar, w) \in DOMAIN grammar.rules

Predict(w) ==
  /\ Predicts(w)
  /\ \E k \in 1..Len(grammar.rules[Dotted(grammar, w)]) :
       Deduce(Predicted(Dotted(grammar, w), k, w.pos))

\* w waits, where c begins, for the rule that c completes.
Joins(w, c) ==
  /\ Completed(grammar, c)
  /\ Dotted(grammar, w) = c.rule
  /\ w.pos = c.origin

Complete(w, c) ==
  /\ Joins(w, c)
  /\ DeduceWith(Advanced(w, c.pos), ChildBack(w, c))

\* The token after w is the terminal its dot stands before.
Shifts(w) ==
  /\ w.pos < Len(tokens)
  /\ Dotted(grammar, w) = tokens[w.pos + 1]

Scan(w) ==
  /\ Shifts(w)
  /\ DeduceWith(Advanced(w, w.pos + 1), TokenBack(w, w.pos))

Next ==
  \/ \E t \in Terminals : Read(t)
  \/ Start
  \/ \E w \in items : Predict(w)
  \/ \E w \in items : Scan(w)
  \/ \E w, c \in items : Complete(w, c)

Spec == Init /\ [][Next]_vars

-----------------------------------------------------------------------------
\* Nothing is left to deduce from the tokens read.
Saturated ==
  /\ grammar.start \in DOMAIN grammar.rules =>
       \A k \in 1..Len(grammar.rules[grammar.start]) :
         Predicted(grammar.start, k, 0) \in items
  /\ \A w \in items : Predicts(w) =>
       \A k \in 1..Len(grammar.rules[Dotted(grammar, w)]) :
         Predicted(Dotted(grammar, w), k, w.pos) \in items
  /\ \A w \in items : Shifts(w) =>
       <<Advanced(w, w.pos + 1), TokenBack(w, w.pos)>> \in edges
  /\ \A w, c \in items : Joins(w, c) =>
       <<Advanced(w, c.pos), ChildBack(w, c)>> \in edges
=============================================================================
