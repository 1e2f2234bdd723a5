--------------------------- MODULE GLRFixedPoint ---------------------------
(***************************************************************************)
(* For which grammars the reductions of the GLR chart have a fixed point,  *)
(* as the comment on reduce says they do.  No token is read between two    *)
(* reductions, so they go on for ever only through symbols that derive     *)
(* nothing, or through a name that derives itself.                         *)
(***************************************************************************)
EXTENDS GLRChart, Relation

DeriveNothing(g, symbols) ==
  \A x \in Range(symbols) : <<x, 0, 0>> \in Spans(g, << >>)

\* A name comes first in an alternative of a rule, behind symbols that derive
\* nothing (hidden, if there are any), and in front of others that do (alone).
Corner(g) == [of : DOMAIN g.rules, first : DOMAIN g.rules, hidden : BOOLEAN, alone : BOOLEAN]

Corners(g) ==
  {c \in Corner(g) : \E a \in Range(g.rules[c.of]) : \E d \in DOMAIN a.symbols :
     /\ a.symbols[d] = c.first
     /\ DeriveNothing(g, SubSeq(a.symbols, 1, d - 1))
     /\ c.hidden = (d > 1)
     /\ c.alone = DeriveNothing(g, SubSeq(a.symbols, d + 1, Len(a.symbols)))}

\* The corners as a relation between names.
LeadsTo(g, corners) ==
  [xy \in (DOMAIN g.rules) \X (DOMAIN g.rules) |->
     \E c \in corners : c.of = xy[1] /\ c.first = xy[2]]

Leads(g) == ReflexiveTransitiveClosure(LeadsTo(g, Corners(g)), DOMAIN g.rules)

\* The corners on a left recursion behind symbols that derive nothing: each time
\* round, the automaton puts those on the stack once more.
HiddenRecursion(g) ==
  {c \in Corners(g) : c.hidden /\ Leads(g)[c.first, c.of]}

\* A name derives itself.
Cyclic(g) ==
  LET alone == TransitiveClosure(LeadsTo(g, {c \in Corners(g) : c.alone}), DOMAIN g.rules)
  IN  \E x \in DOMAIN g.rules : alone[x, x]

\* Two nodes of a key can always be resolved, and in the same sense.
Ranked(g) ==
  LET all == UNION {Range(g.rules[r]) : r \in DOMAIN g.rules}
  IN  \A a, b \in all : a.priority # Null /\ a.associativity = b.associativity

HasFixedPoint(g) == HiddenRecursion(g) = {} /\ (Cyclic(g) => Ranked(g))

\* The start runs into a hidden recursion before the first token.
HasNoFixedPoint(g) ==
  /\ g.start \in DOMAIN g.rules
  /\ \E c \in HiddenRecursion(g) : Leads(g)[g.start, c.of]

Finite    == {g \in Grammars : HasFixedPoint(g)}
Unbounded == {g \in Grammars : HasNoFixedPoint(g)}

\* Reductions are applied to a fixed point, and the constructor returns, for every
\* input, where no left recursion is hidden and the names that derive themselves
\* have priorities.  It never does where the start hides a left recursion: what ends
\* the reductions is the assertion on the key, for every input.
Termination ==
  /\ grammar \in Finite => <>(pc = "done")
  /\ grammar \in Unbounded => <>(pc = "aborted")
=============================================================================
