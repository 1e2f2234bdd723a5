---------------------------- MODULE Derivations ----------------------------
(***************************************************************************)
(* How many derivation trees a name has over a span of an input, counting  *)
(* the trees up to some height.  A leaf of a tree is a token; a node is an *)
(* alternative of a rule.                                                  *)
(***************************************************************************)
EXTENDS Language, FiniteSetsExt

\* How many trees a set of counts holds for a name over tokens p + 1 .. q.
CountOf(trees, r, p, q) ==
  MapThenSumSet(LAMBDA t : t.count,
                {t \in trees : t.name = r /\ t.from = p /\ t.to = q})

\* Trees of one symbol over tokens p + 1 .. q, given those of the names.
SymbolTrees(x, w, p, q, trees) ==
  IF q = p + 1 /\ w[q] = x THEN 1 ELSE CountOf(trees, x, p, q)

\* Trees of a list of symbols over tokens p + 1 .. q.
ListTrees(symbols, w, p, q, trees) ==
  LET upto[d \in 0..Len(symbols), m \in p..q] ==
        IF d = 0 THEN IF m = p THEN 1 ELSE 0
        ELSE MapThenSumSet(LAMBDA l : upto[d - 1, l] * SymbolTrees(symbols[d], w, l, m, trees),
                           p..m)
  IN  upto[Len(symbols), q]

\* Trees of every rule of g over every span of w, given the less high ones.
MoreTrees(g, w, trees) ==
  {[name |-> s[1], from |-> s[2], to |-> s[3],
    count |-> MapThenSumSet(
                LAMBDA k : ListTrees(g.rules[s[1]][k].symbols, w, s[2], s[3], trees),
                1..Len(g.rules[s[1]]))] :
     s \in {x \in (DOMAIN g.rules) \X (0..Len(w)) \X (0..Len(w)) : x[2] <= x[3]}}

\* The same, up to a height.
TreeCounts(g, w, height) ==
  LET counts[h \in 0..height] ==
        IF h = 0 THEN {} ELSE MoreTrees(g, w, counts[h - 1])
  IN  counts[height]

\* The input has more than one derivation of at most this height.
Ambiguous(g, w, height) ==
  /\ g.start \in DOMAIN g.rules
  /\ CountOf(TreeCounts(g, w, height), g.start, 0, Len(w)) > 1
=============================================================================
