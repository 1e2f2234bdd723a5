----------------------------- MODULE Language -----------------------------
(***************************************************************************)
(* The language of a grammar, defined with no chart and no parser: the     *)
(* reference the charts are compared with.  A span <<X, p, q>> says that   *)
(* the name X derives tokens p + 1 .. q of an input.                       *)
(***************************************************************************)
EXTENDS Integers, Sequences, FiniteSets

\* Where the symbols of an alternative can end in w when they begin at p and
\* names derive the given spans.
EndsOf(symbols, w, p, spans) ==
  LET ends[d \in 0..Len(symbols)] ==
        IF d = 0 THEN {p}
        ELSE {q \in 0..Len(w) :
                \E m \in ends[d - 1] :
                  \/ <<symbols[d], m, q>> \in spans
                  \/ q = m + 1 /\ w[q] = symbols[d]}
  IN  ends[Len(symbols)]

\* The spans one more level of derivation gives.
MoreSpans(g, w, spans) ==
  UNION {{<<X, p, q>> : q \in UNION {EndsOf(g.rules[X][k].symbols, w, p, spans) :
                                       k \in 1..Len(g.rules[X])}} :
           X \in DOMAIN g.rules, p \in 0..Len(w)}

\* The least set of spans closed under the rules of g.  The spans on a path of
\* a derivation tree are nested, so a tree that repeats none of them on a path
\* has at most one level for each rule and each length.
Spans(g, w) ==
  LET levels == Cardinality(DOMAIN g.rules) * (Len(w) + 1)
      spans[n \in 0..levels] ==
        IF n = 0 THEN {} ELSE MoreSpans(g, w, spans[n - 1])
  IN  spans[levels]

Sentence(g, w) == <<g.start, 0, Len(w)>> \in Spans(g, w)
=============================================================================
