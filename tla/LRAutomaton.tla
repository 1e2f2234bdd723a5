---------------------------- MODULE LRAutomaton ----------------------------
(***************************************************************************)
(* The automaton a GLR engine attaches to a grammar.  The engine is        *)
(* userland code; the chart relies on the layout of its tables and on      *)
(* reductions that do not depend on the next token, which is what an LR(0) *)
(* automaton has.  A state is numbered; state 0 is the initial one.        *)
(***************************************************************************)
EXTENDS Integers, Sequences, FiniteSets, FiniteSetsExt

\* The elements of a set in some order.
Listing(S) == FoldSet(LAMBDA x, seq : Append(seq, x), << >>, S)

\* <<rule, alternative, dot>>, and the item of the rule that wraps the start.
Wrapped(g, dot) == <<"", 0, dot>>

NextSymbol(g, item) ==
  LET symbols == IF item[1] = "" THEN <<g.start>>
                 ELSE g.rules[item[1]][item[2]].symbols
  IN  IF item[3] < Len(symbols) THEN {symbols[item[3] + 1]} ELSE {}

NextSymbols(g, items) == UNION {NextSymbol(g, item) : item \in items}

RECURSIVE Closure(_, _)
Closure(g, items) ==
  LET more == items \cup
        {<<r, k, 0>> : <<r, k>> \in
           UNION {{r} \X (1..Len(g.rules[r])) :
                    r \in NextSymbols(g, items) \cap DOMAIN g.rules}}
  IN  IF more = items THEN items ELSE Closure(g, more)

Successor(g, items, symbol) ==
  Closure(g, {<<item[1], item[2], item[3] + 1>> :
                item \in {x \in items : symbol \in NextSymbol(g, x)}})

RECURSIVE Reachable(_, _)
Reachable(g, states) ==
  LET more == states \cup
        UNION {{Successor(g, s, x) : x \in NextSymbols(g, s)} : s \in states}
  IN  IF more = states THEN states ELSE Reachable(g, more)

\* The tables, and in items, which no table holds, what the states stand for.
Automaton(g, terminals) ==
  LET initial == Closure(g, {Wrapped(g, 0)})
      states  == <<initial>> \o Listing(Reachable(g, {initial}) \ {initial})
      number(s) == (CHOOSE n \in DOMAIN states : states[n] = s) - 1
      ids     == 0..(Len(states) - 1)
      completed(s) == {x \in s : x[1] # "" /\ NextSymbol(g, x) = {}}
      table(s, symbols) ==
        [x \in NextSymbols(g, s) \cap symbols |-> number(Successor(g, s, x))]
  IN  [accept  |-> number(Successor(g, initial, g.start)),
       items   |-> [id \in ids |->
                      {[rule |-> x[1], alt |-> x[2], dot |-> x[3]] :
                         x \in {y \in states[id + 1] : y[1] # ""}}],
       reduces |-> [id \in ids |->
                      LET done == Listing(completed(states[id + 1]))
                      IN  [k \in DOMAIN done |->
                             [rule |-> done[k][1], alt |-> done[k][2],
                              length |-> done[k][3]]]],
       shifts  |-> [id \in ids |-> table(states[id + 1], terminals)],
       goto    |-> [id \in ids |-> table(states[id + 1], DOMAIN g.rules \cup {g.start})]]
=============================================================================
