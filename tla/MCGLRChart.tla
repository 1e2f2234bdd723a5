---------------------------- MODULE MCGLRChart ----------------------------
(***************************************************************************)
(* Grammars for TLC, each with its LR(0) automaton.                        *)
(***************************************************************************)
EXTENDS GLRFixedPoint, LRAutomaton

MCNames     == {"S", "A", "B"}
MCTerminals == {"a", "b", "c"}

Alt(symbols) == [symbols |-> symbols, priority |-> Null, associativity |-> "none"]
AltOf(symbols, p, assoc) ==
  [symbols |-> symbols, priority |-> p, associativity |-> assoc]

Rules(rules) ==
  LET g == [start |-> "S", rules |-> rules]
  IN  [start |-> "S", rules |-> rules, automaton |-> Automaton(g, MCTerminals)]

\* Left recursion and ambiguity without priorities: S -> S b S | a
Sums == Rules([S |-> <<Alt(<<"S", "b", "S">>), Alt(<<"a">>)>>])

\* Two operators: S -> S b S | S c S | a
Binary(p, q, assoc) ==
  Rules([S |-> <<AltOf(<<"S", "b", "S">>, p, assoc),
                 AltOf(<<"S", "c", "S">>, q, assoc),
                 AltOf(<<"a">>, 0, assoc)>>])

\* The same name twice over nothing, and right recursion:
\* S -> A A | b S, A -> | a
Nullables ==
  Rules([S |-> <<Alt(<<"A", "A">>), Alt(<<"b", "S">>)>>,
         A |-> <<Alt(<< >>), Alt(<<"a">>)>>])

\* Two names for the same token, told apart two tokens later, when the threads
\* have the same top state over different stacks: S -> A A b | B A c, A -> a, B -> a
Lookalikes ==
  Rules([S |-> <<Alt(<<"A", "A", "b">>), Alt(<<"B", "A", "c">>)>>,
         A |-> <<Alt(<<"a">>)>>, B |-> <<Alt(<<"a">>)>>])

\* A name without a rule, and a start without a rule
Undefined == Rules([S |-> <<Alt(<<"a", "A">>), Alt(<<"a">>)>>])
NoStart   == Rules([A |-> <<Alt(<<"a">>)>>])

\* Right recursion: S -> a S | b
RightRecursive == Rules([S |-> <<Alt(<<"a", "S">>), Alt(<<"b">>)>>])

\* An ambiguity below a name, with a token behind it:
\* S -> B b, B -> A | a, A -> a
Layered(p, q) ==
  Rules([S |-> <<Alt(<<"B", "b">>)>>,
         B |-> <<AltOf(<<"A">>, p, "none"), AltOf(<<"a">>, q, "none")>>,
         A |-> <<Alt(<<"a">>)>>])

\* A rule that derives nothing in front of a recursion: the automaton reduces it
\* again and again, until the stack outgrows the key. S -> A S b | a, A ->
HiddenLeft == Rules([S |-> <<Alt(<<"A", "S", "b">>), Alt(<<"a">>)>>, A |-> <<Alt(<< >>)>>])

\* A name that derives itself: S -> S | a
SelfDeriving(p, q, assoc) ==
  Rules([S |-> <<AltOf(<<"S">>, p, assoc), AltOf(<<"a">>, q, assoc)>>])

\* A grammar without sentences, S -> A S, A -> a, and an automaton without the
\* goto row of its state 0 (a table an engine may leave out: the chart looks up
\* every row before it uses it).
Endless == Rules([S |-> <<Alt(<<"A", "S">>)>>, A |-> <<Alt(<<"a">>)>>])
Rowless == [Endless EXCEPT !.automaton.goto = [s \in DOMAIN @ \ {0} |-> @[s]]]

Picked == {Sums, Binary(2, 1, "left"), Binary(1, 2, "right"),
           Nullables, Lookalikes, Undefined, NoStart, RightRecursive, HiddenLeft,
           Endless, Rowless, Layered(1, 2), Layered(2, 1), Layered(Null, 1),
           SelfDeriving(1, 1, "right")}

\* Every alternative of at most two symbols over two names and a terminal, next to
\* S -> a and for the other name, where the first one refers to it; all with
\* priorities, the second one's the greater, or all without.
Short ==
  LET symbols == {"S", "A", "a"}
  IN  {<< >>} \cup {<<x>> : x \in symbols} \cup (symbols \X symbols)

Small(x, y, p, q) ==
  LET start == <<AltOf(x, p, "left"), AltOf(<<"a">>, q, "left")>>
  IN  IF "A" \in Range(x) THEN Rules([S |-> start, A |-> <<AltOf(y, p, "left")>>])
                          ELSE Rules([S |-> start])

\* Those of which neither is known are left out.
SmallGrammars ==
  {g \in {Small(x, y, r[1], r[2]) : x, y \in Short, r \in {<<1, 2>>, <<2, 1>>, <<Null, Null>>}} :
     HasFixedPoint(g) \/ HasNoFixedPoint(g)}

MCGrammars == Picked \cup SmallGrammars

\* HiddenLeft has no fixed point; nor is one promised for a name that derives
\* itself without priorities, when the worklist grows for ever.
ASSUME FixedPoints ==
  /\ {g \in Picked : ~ HasFixedPoint(g)} = {HiddenLeft}
  /\ HasNoFixedPoint(HiddenLeft)
  /\ ~ HasFixedPoint(SelfDeriving(Null, Null, "right"))

\* The automata of LRAutomaton have all their moves, that one excepted.
ASSUME WholeExceptRowless ==
  \A g \in MCGrammars : WholeAutomaton(g) <=> g # Rowless

-----------------------------------------------------------------------------
(* Grammars of the runs that show a disagreement.                          *)

\* Grammars whose ambiguities can be resolved; one operator that associates to the
\* right: S -> S b S | a
Resolvable ==
  {Layered(2, 1),
   Rules([S |-> <<AltOf(<<"S", "b", "S">>, 1, "right"), AltOf(<<"a">>, 0, "right")>>])}

Covered == {Layered(Null, Null)}

Deepening == {RightRecursive}

AlternativesOf(grammars) ==
  UNION {UNION {Range(g.rules[r]) : r \in DOMAIN g.rules} : g \in grammars}

MCAlternatives         == AlternativesOf(MCGrammars)
ResolvableAlternatives == AlternativesOf(Resolvable)
CoveredAlternatives    == AlternativesOf(Covered)
DeepeningAlternatives  == AlternativesOf(Deepening)
=============================================================================
