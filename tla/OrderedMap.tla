----------------------------- MODULE OrderedMap -----------------------------
(***************************************************************************)
(* What the table of src/hash.h promises its callers: a map that remembers *)
(* the order its keys were inserted in, and two ways to loop over it, one  *)
(* to which later insertions are invisible and one to which they are not.  *)
(***************************************************************************)
EXTENDS Integers, Sequences

CONSTANTS Keys, Values, Null

VARIABLES
  pairs,     \* the keys and values, in order of insertion
  pending,   \* what PHP_PHATHOM_HASH_FOREACH_CURRENT has still to yield
  visited,   \* how many pairs PHP_PHATHOM_HASH_FOREACH_CONCURRENT has yielded
  result     \* the key the last call was for, and the value it returned

vars == <<pairs, pending, visited, result>>

Pair == [key : Keys, value : Values]

Nothing == [key |-> Null, value |-> Null]

\* A call for k returns v; a pass of a loop yields v.
Returns(k, v) == result' = [key |-> k, value |-> v]
Yields(v)     == result' = [key |-> Null, value |-> v]

Has(k) == \E n \in DOMAIN pairs : pairs[n].key = k

Init ==
  /\ pairs = << >>
  /\ pending = << >>
  /\ visited = 0
  /\ result = Nothing

Insert(k, v) ==
  /\ ~ Has(k)
  /\ pairs' = Append(pairs, [key |-> k, value |-> v])
  /\ Returns(k, v)
  /\ UNCHANGED <<pending, visited>>

\* The key is there; the caller leaves its value, or replaces it.
Found(k) ==
  /\ \E n \in DOMAIN pairs : pairs[n].key = k /\ Returns(k, pairs[n].value)
  /\ UNCHANGED <<pairs, pending, visited>>

Replace(k, v) ==
  /\ \E n \in DOMAIN pairs :
       /\ pairs[n].key = k
       /\ pairs' = [pairs EXCEPT ![n].value = v]
  /\ Returns(k, v)
  /\ UNCHANGED <<pending, visited>>

Missing(k) ==
  /\ ~ Has(k)
  /\ Returns(k, Null)
  /\ UNCHANGED <<pairs, pending, visited>>

\* A loop over the pairs there are now, and one of its passes.
Current ==
  /\ pending' = [n \in DOMAIN pairs |-> pairs[n].value]
  /\ UNCHANGED <<pairs, visited, result>>

CurrentNext ==
  /\ pending # << >>
  /\ Yields(Head(pending))
  /\ pending' = Tail(pending)
  /\ UNCHANGED <<pairs, visited>>

\* A loop over the pairs there are when it gets to them, and one of its passes.
Concurrent ==
  /\ visited' = 0
  /\ UNCHANGED <<pairs, pending, result>>

ConcurrentNext ==
  /\ visited < Len(pairs)
  /\ visited' = visited + 1
  /\ Yields(pairs[visited + 1].value)
  /\ UNCHANGED <<pairs, pending>>

Next ==
  \/ \E k \in Keys : Found(k) \/ Missing(k)
  \/ \E k \in Keys, v \in Values : Insert(k, v) \/ Replace(k, v)
  \/ Current \/ CurrentNext \/ Concurrent \/ ConcurrentNext

Spec == Init /\ [][Next]_vars
=============================================================================
