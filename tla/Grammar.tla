------------------------------ MODULE Grammar ------------------------------
(***************************************************************************)
(* The grammar objects the charts read: what pharos\phathom\Grammar        *)
(* (a userland class) holds once php_phathom_grammar_fetch has interned    *)
(* every name in it.  A symbol is identified with its interned name, which *)
(* is exactly what the charts do when they key tables by the address of a  *)
(* name; a symbol is a terminal when php_phathom_symbol_terminal # -1.     *)
(***************************************************************************)
EXTENDS Integers, Sequences, FiniteSets, Functions

CONSTANTS
  Names,         \* names a nonterminal symbol or a rule can have
  Terminals,     \* terminal ids
  Alternatives,  \* Alternative objects: records with a field symbols
  Grammars,      \* Grammar objects: records with the fields start and rules
  Null           \* the C NULL

Symbols == Names \cup Terminals

ASSUME GrammarAssumption ==
  /\ Names \cap Terminals = {}
  /\ Null \notin Symbols
  /\ \A a \in Alternatives : a.symbols \in Seq(Symbols)
  /\ \A g \in Grammars :
       /\ g.start \in Names
       /\ DOMAIN g.rules \subseteq Names /\ IsFiniteSet(DOMAIN g.rules)
       /\ \A r \in DOMAIN g.rules : g.rules[r] \in Seq(Alternatives)

-----------------------------------------------------------------------------
(***************************************************************************)
(* Earley items.  The five fields are the key of chart->index, so an item  *)
(* pointer is the record itself.  Alternatives are counted from 1.         *)
(***************************************************************************)
Item == [pos : Nat, rule : Names, alt : Nat, dot : Nat, origin : Nat]

ASSUME NullIsNoItem == Null \notin Item

\* A back pointer: how an item was advanced from prev, over the completed
\* item child or over the token with this index (-1 for none).
Back == [prev : Item, child : Item \cup {Null}, token : Nat \cup {-1}]

SymbolsOf(g, it) == g.rules[it.rule][it.alt].symbols

\* php_phathom_alternative_symbol(item->alternative, item->dot)
Dotted(g, it) ==
  LET symbols == SymbolsOf(g, it)
  IN  IF it.dot < Len(symbols) THEN symbols[it.dot + 1] ELSE Null

Completed(g, it) == Dotted(g, it) = Null

\* The item of alternative k of rule r predicted at position p.
Predicted(r, k, p) ==
  [pos |-> p, rule |-> r, alt |-> k, dot |-> 0, origin |-> p]

\* Item w moved past its dotted symbol, ending at position p.
Advanced(w, p) ==
  [pos |-> p, rule |-> w.rule, alt |-> w.alt, dot |-> w.dot + 1, origin |-> w.origin]

ChildBack(w, c)  == [prev |-> w, child |-> c,    token |-> -1]
TokenBack(w, ti) == [prev |-> w, child |-> Null, token |-> ti]
=============================================================================
