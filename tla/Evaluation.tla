----------------------------- MODULE Evaluation -----------------------------
(***************************************************************************)
(* What an evaluator promises, with no chart: the input is read, and then  *)
(* either one of its derivations is evaluated, or the input has none, or   *)
(* it has several and an ambiguity is reported, or an action throws.  Both *)
(* evaluators are shown to implement this specification.                   *)
(***************************************************************************)
EXTENDS Derivations, Values

CONSTANT TreeHeight   \* bound of the comparison: height of a derivation tree

VARIABLES
  grammar,
  tokens,    \* what has been read
  outcome,   \* "pending", "value", "nomatch", "ambiguity" or "exception"
  term       \* the value, if that is the outcome

TokenTerm(ti) ==
  [kind |-> "token", rule |-> Null, alt |-> 0, token |-> ti, elems |-> << >>]
ListTerm(terms) ==
  [kind |-> "list", rule |-> Null, alt |-> 0, token |-> -1, elems |-> terms]
ObjectTerm(r, k, terms) ==
  [kind |-> "object", rule |-> r, alt |-> k, token |-> -1, elems |-> terms]

\* The value of a derivation by an alternative, from those of its symbols.
NodeTerm(a, r, k, terms) ==
  IF a.symbols = << >> THEN IF a.synthetic = "none" THEN NullTerm ELSE ListTerm(<< >>)
  ELSE CASE a.action = "object" -> ObjectTerm(r, k, terms)
         [] a.action = "first"  -> terms[1]
         [] a.action = Null /\ a.synthetic = "optional" -> terms[1]
         [] a.action = Null /\ a.synthetic = "none" ->
              IF Len(terms) = 1 THEN terms[1] ELSE ListTerm(terms)
         [] a.action = Null /\ a.synthetic \in {"star", "plus"} ->
              ListTerm(IF Len(terms) = 2 THEN Append(terms[1].elems, terms[2]) ELSE terms)

\* The ways to derive the symbols of an alternative from token p + 1 on, given
\* the values of the names: where each ends, and the values of the symbols.
Ways(symbols, w, p, values) ==
  LET ways[d \in 0..Len(symbols)] ==
        IF d = 0 THEN {[at |-> p, terms |-> << >>]}
        ELSE UNION {
          {[at |-> v.to, terms |-> Append(x.terms, v.term)] :
             v \in {u \in values : u.name = symbols[d] /\ u.from = x.at}} \cup
          {[at |-> q, terms |-> Append(x.terms, TokenTerm(x.at))] :
             q \in {m \in {x.at + 1} : m <= Len(w) /\ w[m] = symbols[d]}} :
          x \in ways[d - 1]}
  IN  ways[Len(symbols)]

MoreValues(g, w, values) ==
  UNION {UNION {{[name |-> r, from |-> p, to |-> x.at,
                  term |-> NodeTerm(g.rules[r][k], r, k, x.terms)] :
                   x \in Ways(g.rules[r][k].symbols, w, p, values)} :
                  k \in 1..Len(g.rules[r])} :
           r \in DOMAIN g.rules, p \in 0..Len(w)}

\* The values of the derivations of an input, up to a height.
ValuesOf(g, w) ==
  LET values[h \in 0..TreeHeight] ==
        IF h = 0 THEN {} ELSE MoreValues(g, w, values[h - 1])
  IN  {v.term : v \in {u \in values[TreeHeight] :
                         u.name = g.start /\ u.from = 0 /\ u.to = Len(w)}}

-----------------------------------------------------------------------------
Init == grammar \in Grammars /\ tokens = << >> /\ outcome = "pending" /\ term = NullTerm

Read(t) ==
  /\ outcome = "pending"
  /\ tokens' = Append(tokens, t)
  /\ UNCHANGED <<grammar, outcome, term>>

Decide(kind) ==
  /\ outcome = "pending"
  /\ outcome' = kind
  /\ UNCHANGED <<grammar, tokens>>

Evaluate ==
  /\ Decide("value")
  /\ term' \in ValuesOf(grammar, tokens)

NoMatch ==
  /\ Decide("nomatch")
  /\ ~ Sentence(grammar, tokens)
  /\ UNCHANGED term

Ambiguity ==
  /\ Decide("ambiguity")
  /\ Ambiguous(grammar, tokens, TreeHeight)
  /\ UNCHANGED term

Throw ==
  /\ Decide("exception")
  /\ Sentence(grammar, tokens)
  /\ \E r \in DOMAIN grammar.rules :
       \E k \in 1..Len(grammar.rules[r]) : grammar.rules[r][k].action # Null
  /\ UNCHANGED term

Next == (\E t \in Terminals : Read(t)) \/ Evaluate \/ NoMatch \/ Ambiguity \/ Throw

Spec == Init /\ [][Next]_<<grammar, tokens, outcome, term>>
=============================================================================
