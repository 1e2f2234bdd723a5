--------------------------- MODULE MCEarleyChart ---------------------------
(***************************************************************************)
(* Grammars for TLC: each one is the smallest that makes a hard case of    *)
(* the chart happen.                                                       *)
(***************************************************************************)
EXTENDS EarleyForest

MCNames     == {"S", "A", "N"}
MCTerminals == {"a", "b"}

Alt(symbols)  == [symbols |-> symbols]
Rules(rules)  == [start |-> "S", rules |-> rules]

\* Left recursion and ambiguity: S -> S S | a
Sums == Rules([S |-> <<Alt(<<"S", "S">>), Alt(<<"a">>)>>])

\* The same name twice over nothing: S -> A A | b S, A -> | a
Nullables ==
  Rules([S |-> <<Alt(<<"A", "A">>), Alt(<<"b", "S">>)>>,
         A |-> <<Alt(<< >>), Alt(<<"a">>)>>])

\* A cycle through rules: S -> A, A -> S | a |
Cycle ==
  Rules([S |-> <<Alt(<<"A">>)>>,
         A |-> <<Alt(<<"S">>), Alt(<<"a">>), Alt(<< >>)>>])

\* Left recursion hidden behind a name that derives nothing:
\* S -> N S b | a, N ->
HiddenLeft ==
  Rules([S |-> <<Alt(<<"N", "S", "b">>), Alt(<<"a">>)>>,
         N |-> <<Alt(<< >>)>>])

\* Right recursion, and two nullable rules that call each other:
\* S -> a S | N, N -> A | , A -> N
Right ==
  Rules([S |-> <<Alt(<<"a", "S">>), Alt(<<"N">>)>>,
         N |-> <<Alt(<<"A">>), Alt(<< >>)>>,
         A |-> <<Alt(<<"N">>)>>])

\* A name without a rule, and a start without a rule
Undefined == Rules([S |-> <<Alt(<<"a", "A">>), Alt(<<"a">>)>>])
NoStart   == Rules([A |-> <<Alt(<<"a">>)>>])

\* Five back pointers to one item: S -> A, A -> a | a | a | a | a
Wide ==
  Rules([S |-> <<Alt(<<"A">>)>>, A |-> [k \in 1..5 |-> Alt(<<"a">>)]])

Picked == {Sums, Nullables, Cycle, HiddenLeft, Right, Undefined, NoStart, Wide}

\* Every alternative of at most two symbols over two names and a terminal.
Small ==
  LET symbols == {"S", "A", "a"}
  IN  {Alt(l) : l \in {<< >>} \cup {<<x>> : x \in symbols} \cup (symbols \X symbols)}

\* Every grammar with one or two such alternatives of the start rule, and one of
\* the other rule where the start refers to it, which may also be missing.
SmallGrammars ==
  LET starts == {<<x>> : x \in Small} \cup (Small \X Small)
      refers == {s \in starts : \E k \in 1..Len(s) : "A" \in Range(s[k].symbols)}
  IN  {Rules([S |-> s]) : s \in starts} \cup
      {Rules([S |-> s, A |-> <<x>>]) : s \in refers, x \in Small}

MCGrammars == Picked \cup SmallGrammars

MCAlternatives ==
  Small \cup
  UNION {Range(g.rules[r]) : <<g, r>> \in
           {x \in Picked \X MCNames : x[2] \in DOMAIN x[1].rules}}
=============================================================================
