------------------------- MODULE EvaluatorGrammars -------------------------
(***************************************************************************)
(* Grammars for TLC: each one makes a hard case of select, resolve, apply  *)
(* or the frame stack happen.                                              *)
(***************************************************************************)
EXTENDS Grammar

MCNames     == {"S", "A", "N"}
MCTerminals == {"a", "b", "c"}

Alternative(symbols, priority, associativity, synthetic, action) ==
  [symbols |-> symbols, priority |-> priority, associativity |-> associativity,
   synthetic |-> synthetic, action |-> action]

Plain(symbols)            == Alternative(symbols, Null, "none", "none", Null)
Action(symbols)           == Alternative(symbols, Null, "none", "none", "object")
Quantified(symbols, q)    == Alternative(symbols, Null, "none", q, Null)
Ranked(symbols, p, assoc) == Alternative(symbols, p, assoc, "none", "object")

Rules(rules) == [start |-> "S", rules |-> rules]

\* S -> S S | a, nothing to choose by
Sums == Rules([S |-> <<Action(<<"S", "S">>), Plain(<<"a">>)>>])

\* S -> S S | S b S | a, two operators, the first without a token
Binary(p, q, assoc) ==
  Rules([S |-> <<Ranked(<<"S", "S">>, p, assoc),
                 Ranked(<<"S", "b", "S">>, q, assoc),
                 Ranked(<<"a">>, 0, assoc)>>])

\* S -> A | N, A -> a, N -> a, two start items
Twice(p, q) ==
  Rules([S |-> <<Alternative(<<"A">>, p, "none", "none", Null),
                 Alternative(<<"N">>, q, "none", "none", Null)>>,
         A |-> <<Action(<<"a">>)>>,
         N |-> <<Action(<<"a">>)>>])

\* S -> A, A -> | A a, a list of any length
Star == Rules([S |-> <<Action(<<"A">>)>>,
               A |-> <<Quantified(<< >>, "star"), Quantified(<<"A", "a">>, "star")>>])

\* S -> A N, A -> a | A a, N -> | b, a list and an optional name
Plus == Rules([S |-> <<Action(<<"A", "N">>)>>,
               A |-> <<Quantified(<<"a">>, "plus"), Quantified(<<"A", "a">>, "plus")>>,
               N |-> <<Quantified(<< >>, "optional"), Quantified(<<"b">>, "optional")>>])

\* S -> A A | b S, A -> | a, ambiguous over nothing
Nullables ==
  Rules([S |-> <<Plain(<<"A", "A">>), Plain(<<"b", "S">>)>>,
         A |-> <<Plain(<< >>), Plain(<<"a">>)>>])

\* S -> A, A -> S | a | , a cycle without priorities
Cycle ==
  Rules([S |-> <<Plain(<<"A">>)>>,
         A |-> <<Plain(<<"S">>), Plain(<<"a">>), Plain(<< >>)>>])

\* S -> A b, A -> N | a, N -> a, one of them without a priority
Mixed(p, q) ==
  Rules([S |-> <<Action(<<"A", "b">>)>>,
         A |-> <<Alternative(<<"N">>, p, "none", "none", Null),
                 Alternative(<<"a">>, q, "none", "none", Null)>>,
         N |-> <<Action(<<"a">>)>>])

\* S -> A b N c, actions that keep one argument of several
Dropping ==
  Rules([S |-> <<Alternative(<<"A", "b", "N", "c">>, Null, "none", "none", "first")>>,
         A |-> <<Action(<<"a">>)>>,
         N |-> <<Plain(<<"A", "A">>), Action(<<"a">>)>>])

\* A name without a rule, and a start without a rule
Undefined == Rules([S |-> <<Plain(<<"a", "A">>), Plain(<<"a">>)>>])
NoStart   == Rules([A |-> <<Plain(<<"a">>)>>])

AlternativesOf(grammars) ==
  UNION {UNION {Range(g.rules[r]) : r \in DOMAIN g.rules} : g \in grammars}
=============================================================================
