------------------------------- MODULE Values -------------------------------
(***************************************************************************)
(* The values an evaluator computes: PHP values in reference-counted       *)
(* memory, and apply (src/earley/evaluator.c, repeated in                  *)
(* src/glr/evaluator.c), which makes the value of a node from the values   *)
(* of its symbols.                                                         *)
(*                                                                         *)
(* An alternative has, besides its symbols, the fields priority (Null for  *)
(* none), associativity, synthetic and action: Null for no action, or what *)
(* the action method returns, a new object that refers to its arguments,   *)
(* or its first argument.                                                  *)
(***************************************************************************)
EXTENDS Grammar, SequencesExt

\* The cases of the enum Quantifier.
ASSUME QuantifierAssumption ==
  \A a \in Alternatives : a.synthetic \in {"none", "star", "plus", "optional"}

Undef     == -1   \* IS_UNDEF: an entry of a partial array not yet filled
NullValue == 0    \* null, which is not counted

\* Memory: the values allocated, in the order of their allocation.  A value
\* refers to older ones only.  A count of 0 means freed.
Cell == [kind : {"token", "list", "object"}, rule : Names \cup {Null},
         alt : Nat, token : Int, elems : Seq(Nat), count : Int]

Occurrences(v, vs) == Cardinality({k \in DOMAIN vs : vs[k] = v})

\* Z_ADDREF of every value of a sequence.
AddRefs(mem, vs) ==
  [c \in DOMAIN mem |-> [mem[c] EXCEPT !.count = @ + Occurrences(c, vs)]]

\* The cells that refer to a value, and the references to it from some cells.
Referring(mem, v) == {n \in DOMAIN mem : v \in Range(mem[n].elems)}

Within(mem, cells, v) ==
  Cardinality(UNION {{n} \X {k \in DOMAIN mem[n].elems : mem[n].elems[k] = v} : n \in cells})

Alive(mem) == {m \in DOMAIN mem : mem[m].count > 0}

\* zval_ptr_dtor of every value of a sequence: a value that loses its last
\* reference is freed and gives up the references it holds.
Release(mem, vs) ==
  LET freed[m \in DOMAIN mem] ==
        /\ mem[m].count > 0
        /\ mem[m].count
             = Occurrences(m, vs) + Within(mem, {n \in Referring(mem, m) : freed[n]}, m)
  IN  [c \in DOMAIN mem |->
         [mem[c] EXCEPT !.count =
            @ - Occurrences(c, vs) - Within(mem, {n \in Referring(mem, c) : freed[n]}, c)]]

\* chart->tokens: the chart holds one reference to each token.
TokenCells(n) ==
  [k \in 1..n |-> [kind |-> "token", rule |-> Null, alt |-> 0, token |-> k - 1,
                   elems |-> << >>, count |-> 1]]

TokenValue(ti) == ti + 1

-----------------------------------------------------------------------------
(* A new reference to a value: the memory it leaves, and the value.        *)

Shared(mem, v) == [mem |-> AddRefs(mem, <<v>>), value |-> v]

Fresh(mem, kind, rule, alt, elems) ==
  [mem |-> Append(AddRefs(mem, elems),
                  [kind |-> kind, rule |-> rule, alt |-> alt, token |-> -1,
                   elems |-> elems, count |-> 1]),
   value |-> Len(mem) + 1]

FreshList(mem, elems) == Fresh(mem, "list", Null, 0, elems)

\* What the action method returns, if it returns.
Called(mem, rule, alt, action, args) ==
  IF action = "object" THEN Fresh(mem, "object", rule, alt, args)
                       ELSE Shared(mem, args[1])

\* An alternative without symbols: its action is not called.
EmptyValue(a, mem) ==
  IF a.synthetic # "none" THEN FreshList(mem, << >>)
                          ELSE [mem |-> mem, value |-> NullValue]

\* The values of a list; nothing, if it is not one.
Spread(mem, v) ==
  IF v > 0 /\ mem[v].kind = "list" THEN mem[v].elems ELSE << >>

\* Mutant of Applied: the elements taken over from a list are not retained.
AppliedBorrowing(a, rule, alt, mem, args) ==
  [mem |-> Append(AddRefs(mem, <<args[Len(args)]>>),
                  [kind |-> "list", rule |-> Null, alt |-> 0, token |-> -1,
                   elems |-> IF Len(args) = 2 THEN Spread(mem, args[1]) \o <<args[2]>>
                                              ELSE args,
                   count |-> 1]),
   value |-> Len(mem) + 1]

\* apply: the value of a node, from those of its symbols, which stay with the
\* caller.
Applied(a, rule, alt, mem, args) ==
  CASE a.action # Null -> Called(mem, rule, alt, a.action, args)
    [] a.action = Null /\ a.synthetic \in {"star", "plus"} ->
         FreshList(mem, IF Len(a.symbols) = 2
                        THEN Append(Spread(mem, args[1]), args[2])
                        ELSE <<args[1]>>)
    [] a.action = Null /\ a.synthetic = "optional" -> Shared(mem, args[1])
    [] a.action = Null /\ a.synthetic = "none" ->
         IF Len(args) = 1 THEN Shared(mem, args[1]) ELSE FreshList(mem, args)

-----------------------------------------------------------------------------
(* Values as terms, for comparison with the derivations of the grammar.    *)

NullTerm == [kind |-> "null", rule |-> Null, alt |-> 0, token |-> -1, elems |-> << >>]

TermOf(mem, v) ==
  LET terms[c \in DOMAIN mem] ==
        [kind |-> mem[c].kind, rule |-> mem[c].rule, alt |-> mem[c].alt,
         token |-> mem[c].token,
         elems |-> [k \in DOMAIN mem[c].elems |->
                      IF mem[c].elems[k] = NullValue THEN NullTerm
                                                     ELSE terms[mem[c].elems[k]]]]
  IN  IF v = NullValue THEN NullTerm ELSE terms[v]

\* The tokens in a value.
TokensIn(mem, v) ==
  LET inside[c \in DOMAIN mem] ==
        IF mem[c].kind = "token" THEN {mem[c].token}
        ELSE UNION {inside[e] : e \in Range(mem[c].elems) \ {NullValue}}
  IN  IF v = NullValue THEN {} ELSE inside[v]
=============================================================================
