------------------------------- MODULE MCHash -------------------------------
(***************************************************************************)
(* Keys, hashes and sizes for TLC.  Sizes start at 2 instead of 8, so that *)
(* a few entries make both arrays grow more than once.                     *)
(***************************************************************************)
EXTENDS Hash

CONSTANTS u, v, x   \* values, and the contents of a binary key

MCValues == {u, v}

\* A map with index and binary keys, whose hashes collide in every way: in all
\* sizes, or until the table has eight buckets, and around their end.
Maps == {[as |-> "map", hash |-> h] :
           h \in [{Index(0), Index(1), <<"binary", x>>} -> {3, 7}]}

\* A list: its keys are the numbers of entries it has had.
Counts == {Index(n) : n \in 0..MaxUsed}
Lists  == {[as |-> "list", hash |-> h] :
             h \in {[k \in Counts |-> 2 * k[2] + 1], [k \in Counts |-> 7]}}

MCKeys == Counts \cup {<<"binary", x>>}
MCUses == Maps \cup Lists
=============================================================================
