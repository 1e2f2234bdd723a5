------------------------------- MODULE Backs -------------------------------
(***************************************************************************)
(* How an item stores its back pointers (php_phathom_earley_backs_t): the  *)
(* first one inline, more of them in an array, in the same bytes of the    *)
(* item.  EarleyChart takes them for a sequence.  data is a back pointer   *)
(* or an array; Null stands for an entry nothing was written to.           *)
(***************************************************************************)
EXTENDS Grammar

NoBacks == [used |-> 0, limit |-> 0, data |-> Null]

\* php_phathom_earley_chart_back_fetch; k counts from 0, as in C
Fetched(bs, k) == IF bs.limit > 1 THEN bs.data[k + 1] ELSE bs.data

NewLimit(bs) == IF bs.limit > 1 THEN bs.limit * 2 ELSE 4

\* The array is full, or there is none: the next one begins with what there is.
Grown(bs) ==
  [bs EXCEPT !.limit = NewLimit(bs),
             !.data  = [k \in 1..NewLimit(bs) |->
                          IF k <= bs.used THEN Fetched(bs, k - 1) ELSE Null]]

Written(bs, b) == [bs EXCEPT !.data[bs.used + 1] = b, !.used = @ + 1]

\* Mutant of Appended: the first array does not take the inline one over.
AppendedForgetting(bs, b) ==
  IF bs.limit = 0 THEN [used |-> 1, limit |-> 1, data |-> b]
  ELSE IF bs.used = bs.limit
       THEN LET grown == Grown(bs)
            IN  Written(IF bs.limit = 1 THEN [grown EXCEPT !.data[1] = Null] ELSE grown, b)
       ELSE Written(bs, b)

\* php_phathom_earley_chart_append
Appended(bs, b) ==
  IF bs.limit = 0 THEN [used |-> 1, limit |-> 1, data |-> b]
  ELSE Written(IF bs.used = bs.limit THEN Grown(bs) ELSE bs, b)

Stored(list) ==
  LET stored[k \in 0..Len(list)] ==
        IF k = 0 THEN NoBacks ELSE Appended(stored[k - 1], list[k])
  IN  stored[Len(list)]

Listed(bs) == [k \in 1..bs.used |-> Fetched(bs, k - 1)]
=============================================================================
