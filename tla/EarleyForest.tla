---------------------------- MODULE EarleyForest ----------------------------
(***************************************************************************)
(* The chart read as a forest: the trees its back pointers stand for,      *)
(* compared with the derivations of the grammar.  An evaluator walks one   *)
(* of these trees; it reports an ambiguity when there is another.          *)
(***************************************************************************)
EXTENDS EarleyChart, Derivations

CONSTANT TreeHeight   \* bound of the comparison: height of a tree

\* The trees below an item, given those of the items completed below it.
BackTrees(below) ==
  LET trees[it \in Items] ==
        IF it.dot = 0 THEN 1
        ELSE MapThenSumSet(
               LAMBDA n : LET b == backs[it][n]
                          IN  trees[b.prev]
                                * (IF b.child = Null THEN 1 ELSE below[b.child]),
               1..Len(backs[it]))
  IN  trees

ForestCounts ==
  LET counts[h \in 0..TreeHeight] ==
        IF h = 0 THEN [it \in Items |-> 0] ELSE BackTrees(counts[h - 1])
  IN  counts[TreeHeight]

\* The finished chart stands for every derivation of every rule over every span
\* it completed, each of them once: the backs that add, complete and drain
\* merge in any order lose none and repeat none.
ForestExact ==
  pc = "done" =>
    LET forest == ForestCounts
        trees  == TreeCounts(grammar, tokens, TreeHeight)
    IN  \A s \in {<<it.rule, it.origin, it.pos>> :
                    it \in {x \in Items : Completed(grammar, x)}} :
          CountOf(trees, s[1], s[2], s[3]) =
            MapThenSumSet(LAMBDA it : forest[it],
                          {it \in Items : /\ Completed(grammar, it)
                                          /\ <<it.rule, it.origin, it.pos>> = s})
=============================================================================
