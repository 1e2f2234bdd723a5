--------------------------- MODULE EarleyEvaluator ---------------------------
(***************************************************************************)
(* pharos\phathom\Earley\Evaluator over the chart of EarleyChart           *)
(* (src/earley/evaluator.c).  When the chart is done, __invoke picks a     *)
(* completed start item and execute walks the back pointers below it with  *)
(* a stack of frames and a heap of values.                                 *)
(*                                                                         *)
(* One action is one pass of a loop.  An action method of the context is   *)
(* userland code: it returns as its alternative says, or it throws.        *)
(***************************************************************************)
EXTENDS EarleyChart, Frames

CONSTANTS
  LongMin,      \* ZEND_LONG_MIN, which stands for no priority
  TreeHeight    \* bound of the comparison with Evaluation

ASSUME LongMinAssumption ==
  /\ LongMin \in Int
  /\ \A a \in Alternatives :
       a.priority = Null \/ (a.priority \in Int /\ a.priority > LongMin)

VARIABLES
  stage,     \* where __invoke is: "ready", "execute", "walk" or "returned"
  stack,     \* the frames of execute
  heap,      \* its values
  walk,      \* the select frame being walked
  mem,       \* the values allocated, the tokens of the chart first
  arrays,    \* the partial, slots and items arrays allocated and not freed
  outcome    \* what __invoke returned or threw

evaluation == <<stage, stack, heap, walk, mem, arrays, outcome>>

AlternativeOf(it) == grammar.rules[it.rule][it.alt]

-----------------------------------------------------------------------------
(* priority, resolve and select                                            *)

\* php_phathom_earley_evaluator_priority, and that of an alternative
Rank(it) ==
  IF it = Null \/ AlternativeOf(it).priority = Null THEN LongMin
                                                    ELSE AlternativeOf(it).priority

\* Mutant of Resolve: the associativity is not looked at.
ResolveRight(a, b) == IF a.origin <= b.origin THEN a ELSE b

Resolve(a, b) ==
  IF AlternativeOf(a).associativity = "left"
  THEN IF a.origin >= b.origin THEN a ELSE b
  ELSE IF a.origin <= b.origin THEN a ELSE b

Prefer(a, b) ==
  IF Rank(b) > Rank(a) THEN b
  ELSE IF Rank(b) = Rank(a) THEN Resolve(a, b) ELSE a

\* Mutant of Undecided: two can always be compared.
UndecidedOverTwo(its) == Len(its) > 2 /\ Rank(Head(its)) = LongMin

\* Without a priority the first of several cannot be compared.
Undecided(its) == Len(its) > 1 /\ Rank(Head(its)) = LongMin

\* The loop that keeps the one preferred so far.
Preferred(its) ==
  LET best[n \in DOMAIN its] ==
        IF n = 1 THEN its[1] ELSE Prefer(best[n - 1], its[n])
  IN  best[Len(its)]

ChildrenOf(bs) == [n \in DOMAIN bs |-> bs[n].child]

\* select, where it does not throw: the first back over the preferred child.
Selected(bs) ==
  LET child == Preferred(ChildrenOf(bs))
  IN  bs[Min({n \in DOMAIN bs : bs[n].child = child})]

-----------------------------------------------------------------------------
EvalInit ==
  /\ Init
  /\ stage = "ready"
  /\ stack = << >>
  /\ heap = << >>
  /\ walk = Null
  /\ mem = << >>
  /\ arrays = 0
  /\ outcome = [kind |-> "pending", value |-> NullValue]

Construct == Next /\ UNCHANGED evaluation

\* __invoke leaves.
Leaving(kind, v) ==
  /\ outcome' = [kind |-> kind, value |-> v]
  /\ stage' = "returned"

-----------------------------------------------------------------------------
(* __invoke                                                                *)

Invoking == pc = "done" /\ stage = "ready"

\* Mutant of StartItems: the origin is not compared.
StartItemsAnywhere ==
  SelectSeq(Lookup(path, limit),
            LAMBDA it : it.rule = grammar.start /\ Completed(grammar, it))

\* The completed start items over the whole input, in the order of the path.
Whole(it) ==
  it.rule = grammar.start /\ it.origin = 0 /\ Completed(grammar, it)

StartItems ==
  LET found[n \in 0..Len(Lookup(path, limit))] ==
        IF n = 0 THEN << >>
        ELSE LET it == Lookup(path, limit)[n]
             IN  IF Whole(it) THEN Append(found[n - 1], it) ELSE found[n - 1]
  IN  found[Len(Lookup(path, limit))]

InvokeNoMatch ==
  /\ Invoking /\ StartItems = << >>
  /\ Leaving("nomatch", NullValue)
  /\ UNCHANGED <<vars, stack, heap, walk, mem, arrays>>

InvokeAmbiguous ==
  /\ Invoking /\ StartItems # << >> /\ Undecided(StartItems)
  /\ Leaving("ambiguity", NullValue)
  /\ UNCHANGED <<vars, stack, heap, walk, mem, arrays>>

Invoke ==
  /\ Invoking /\ StartItems # << >> /\ ~ Undecided(StartItems)
  /\ stack' = <<SelectFrame(Preferred(StartItems))>>
  /\ mem' = TokenCells(Len(tokens))
  /\ stage' = "execute"
  /\ UNCHANGED <<vars, heap, walk, arrays, outcome>>

-----------------------------------------------------------------------------
(* execute: a select frame                                                 *)

Executing(kind) == stage = "execute" /\ stack # << >> /\ Last(stack).kind = kind

TopItem   == Last(stack).item
TopSymbols == AlternativeOf(TopItem).symbols

SelectEmpty ==
  /\ Executing("select") /\ TopSymbols = << >>
  /\ LET new == EmptyValue(AlternativeOf(TopItem), mem)
     IN  mem' = new.mem /\ heap' = Append(heap, new.value)
  /\ stack' = Front(stack)
  /\ UNCHANGED <<vars, stage, walk, arrays, outcome>>

\* The partial, slots and items arrays are allocated; the walk goes from the
\* last symbol to the first.
Select ==
  /\ Executing("select") /\ TopSymbols # << >>
  /\ walk' = [item |-> TopItem, cur |-> TopItem, pos |-> Len(TopSymbols),
              partial |-> [k \in DOMAIN TopSymbols |-> Undef],
              slots |-> << >>, items |-> << >>]
  /\ arrays' = arrays + 3
  /\ stack' = Front(stack)
  /\ stage' = "walk"
  /\ UNCHANGED <<vars, heap, mem, outcome>>

Walking == stage = "walk" /\ walk.pos > 0

WalkBacks == backs[walk.cur]

WalkToken ==
  /\ Walking /\ ~ Undecided(ChildrenOf(WalkBacks))
  /\ LET back == Selected(WalkBacks)
         new  == Shared(mem, TokenValue(back.token))
     IN  /\ back.token # -1
         /\ mem' = new.mem
         /\ walk' = [walk EXCEPT !.partial[walk.pos] = new.value,
                                 !.cur = back.prev, !.pos = @ - 1]
  /\ UNCHANGED <<vars, stage, stack, heap, arrays, outcome>>

\* Mutant of WalkChild: the walk stays at the item.
WalkChildStuck ==
  /\ Walking /\ ~ Undecided(ChildrenOf(WalkBacks))
  /\ Selected(WalkBacks).token = -1
  /\ UNCHANGED vars /\ UNCHANGED evaluation

WalkChild ==
  /\ Walking /\ ~ Undecided(ChildrenOf(WalkBacks))
  /\ LET back == Selected(WalkBacks)
     IN  /\ back.token = -1
         /\ walk' = [walk EXCEPT !.slots = Append(@, walk.pos),
                                 !.items = Append(@, back.child),
                                 !.cur = back.prev, !.pos = @ - 1]
  /\ UNCHANGED <<vars, stage, stack, heap, mem, arrays, outcome>>

\* execute returns false: what was being worked on is freed, then the frames of
\* a stack and the values of a heap.
Abandon(kind, partial, count, frames, values) ==
  /\ mem' = Release(mem, partial \o HeldBy(frames) \o values)
  /\ arrays' = arrays - count - ArraysOf(frames)
  /\ stack' = << >>
  /\ heap' = << >>
  /\ walk' = Null
  /\ Leaving(kind, NullValue)

\* Mutant of WalkAmbiguous: the frames below are not cleaned up.
WalkAmbiguousDropping ==
  /\ Walking /\ Undecided(ChildrenOf(WalkBacks))
  /\ Abandon("ambiguity", walk.partial, 3, << >>, heap)
  /\ UNCHANGED vars

WalkAmbiguous ==
  /\ Walking /\ Undecided(ChildrenOf(WalkBacks))
  /\ Abandon("ambiguity", walk.partial, 3, stack, heap)
  /\ UNCHANGED vars

Walked == stage = "walk" /\ walk.pos = 0

\* Mutant of Queue: the last child is on top of the stack.
QueueLastFirst ==
  /\ Walked /\ walk.slots # << >>
  /\ stack' = Append(stack, ApplyFrame(walk.item, walk.partial, walk.slots))
                \o [k \in DOMAIN walk.items |-> SelectFrame(Reverse(walk.items)[k])]
  /\ arrays' = arrays - 1
  /\ walk' = Null
  /\ stage' = "execute"
  /\ UNCHANGED <<vars, heap, mem, outcome>>

\* The apply frame, and above it the children, the first of them on top.
Queue ==
  /\ Walked /\ walk.slots # << >>
  /\ stack' = Append(stack, ApplyFrame(walk.item, walk.partial, walk.slots))
                \o [k \in DOMAIN walk.items |-> SelectFrame(walk.items[k])]
  /\ arrays' = arrays - 1
  /\ walk' = Null
  /\ stage' = "execute"
  /\ UNCHANGED <<vars, heap, mem, outcome>>

-----------------------------------------------------------------------------
(* apply                                                                   *)

AppliedTo(it, args) == Applied(AlternativeOf(it), it.rule, it.alt, mem, args)

\* Every symbol is a token: applied without a frame.
ApplyTokens ==
  /\ Walked /\ walk.slots = << >>
  /\ LET new == AppliedTo(walk.item, walk.partial)
     IN  /\ mem' = Release(new.mem, walk.partial)
         /\ heap' = Append(heap, new.value)
  /\ arrays' = arrays - 3
  /\ walk' = Null
  /\ stage' = "execute"
  /\ UNCHANGED <<vars, stack, outcome>>

ThrowAtTokens ==
  /\ Walked /\ walk.slots = << >>
  /\ AlternativeOf(walk.item).action # Null
  /\ Abandon("exception", walk.partial, 3, stack, heap)
  /\ UNCHANGED vars

TopArgs == Filled(Last(stack).partial, Last(stack).slots, heap)
HeapLeft == Popped(heap, Len(Last(stack).slots))

\* Mutant of Apply: the values are read off the heap and left on it.
ApplyPeeking ==
  /\ Executing("apply")
  /\ LET new == AppliedTo(TopItem, TopArgs)
     IN  /\ mem' = Release(new.mem, TopArgs)
         /\ heap' = Append(heap, new.value)
  /\ arrays' = arrays - 2
  /\ stack' = Front(stack)
  /\ UNCHANGED <<vars, stage, walk, outcome>>

Apply ==
  /\ Executing("apply")
  /\ LET new == AppliedTo(TopItem, TopArgs)
     IN  /\ mem' = Release(new.mem, TopArgs)
         /\ heap' = Append(HeapLeft, new.value)
  /\ arrays' = arrays - 2
  /\ stack' = Front(stack)
  /\ UNCHANGED <<vars, stage, walk, outcome>>

\* Mutant of Throw: the items array is freed again.
ThrowFreeingItems ==
  /\ Executing("apply")
  /\ AlternativeOf(TopItem).action # Null
  /\ Abandon("exception", TopArgs, 3, Front(stack), HeapLeft)
  /\ UNCHANGED vars

Throw ==
  /\ Executing("apply")
  /\ AlternativeOf(TopItem).action # Null
  /\ Abandon("exception", TopArgs, 2, Front(stack), HeapLeft)
  /\ UNCHANGED vars

\* Every frame has run: the top of the heap is the result.
Answer ==
  /\ stage = "execute" /\ stack = << >>
  /\ Leaving("value", Last(heap))
  /\ heap' = << >>
  /\ UNCHANGED <<vars, stack, walk, mem, arrays>>

-----------------------------------------------------------------------------

EvalStep ==
  \/ InvokeNoMatch \/ InvokeAmbiguous \/ Invoke
  \/ SelectEmpty \/ Select \/ WalkToken \/ WalkChild \/ WalkAmbiguous \/ Queue
  \/ ApplyTokens \/ ThrowAtTokens \/ Apply \/ Throw \/ Answer

EvalNext == Construct \/ EvalStep

\* One thread; the methods of the context return or throw.
EvalSpec == EvalInit /\ [][EvalNext]_<<vars, evaluation>>
                     /\ WF_<<vars, evaluation>>(EvalNext)

-----------------------------------------------------------------------------
(* Properties                                                              *)

Frame == [kind : {"select", "apply"}, item : Item, partial : Seq(Int), slots : Seq(Nat)]
Walk  == [item : Item, cur : Item, pos : Nat, partial : Seq(Int),
          slots : Seq(Nat), items : Seq(Item)]

ASSUME NullIsNoWalk == Null \notin Walk

\* The type invariant.
EvalTypeOK ==
  /\ stage \in {"ready", "execute", "walk", "returned"}
  /\ stack \in Seq(Frame)
  /\ heap \in Seq(Nat)
  /\ walk \in Walk \cup {Null}
  /\ stage = "walk" <=> walk # Null
  /\ mem \in Seq(Cell)
  /\ arrays \in Nat
  /\ outcome \in [kind : {"pending", "value", "nomatch", "ambiguity", "exception"},
                  value : Nat]

WalkPartial == IF walk = Null THEN << >> ELSE walk.partial

\* Who holds references: the chart, the frames, the walk, the heap, the caller.
Holders ==
  [k \in 1..Len(tokens) |-> k] \o HeldBy(stack) \o WalkPartial \o heap
    \o <<outcome.value>>

\* Every reference is released once, whatever path execute leaves by: in every
\* state the count of a value is the number of its holders, and the arrays
\* allocated are those of the frames and the walk.  So when __invoke has returned
\* or thrown only the tokens of the chart and the result are left.
OwnershipExact ==
  /\ Counted(mem, Holders)
  /\ arrays = ArraysOf(stack) + (IF walk = Null THEN 0 ELSE 3)

\* The frames still to run leave exactly one value on the heap, and an apply
\* frame never takes more values than there are.
OneResult ==
  stage = "execute" => Balanced(stack, heap)

\* Actions see their arguments in the order of the input: the values on the heap
\* are in that order while any frame is still to run.
LeftToRight == InOrder(mem, heap)

\* The items __invoke or select is choosing from.
Candidates ==
  IF Invoking THEN StartItems ELSE IF Walking THEN ChildrenOf(WalkBacks) ELSE << >>

\* What the chart has merged in some order is chosen from by rank: where an item
\* is chosen it has a priority, no other one has a higher priority, and of those
\* with the same priority it starts last, if all of them associate to the left,
\* or first, if none does.
ChoiceIsBest ==
  Len(Candidates) > 1 /\ ~ Undecided(Candidates) =>
    LET c     == Preferred(Candidates)
        peers == {it \in Range(Candidates) : Rank(it) = Rank(c)}
        lefts == {it \in peers : AlternativeOf(it).associativity = "left"}
    IN  /\ Rank(c) > LongMin
        /\ \A it \in Range(Candidates) : Rank(it) <= Rank(c)
        /\ lefts = peers => c.origin = Max({it.origin : it \in peers})
        /\ lefts = {} => c.origin = Min({it.origin : it \in peers})

Promise == INSTANCE Evaluation WITH
  outcome <- outcome.kind,
  term    <- IF outcome.kind = "value" THEN TermOf(mem, outcome.value) ELSE NullTerm

Unranked == \A r \in DOMAIN grammar.rules :
  \A k \in 1..Len(grammar.rules[r]) : grammar.rules[r][k].priority = Null

\* Where nothing has a priority, an input with several derivations is never
\* evaluated, wherever in it the ambiguity is.
AmbiguityReported ==
  outcome.kind = "value" /\ Unranked =>
    ~ Promise!Ambiguous(grammar, tokens, TreeHeight)

\* The evaluator returns the value of a derivation of the input, reports an
\* ambiguity only when there are several, and no match only when there is none,
\* whatever the chart merged and in whichever order.
ImplementsEvaluation == Promise!Spec

\* __invoke returns or throws, if no rule can derive itself alone.
Returns == <>(stage = "returned")
=============================================================================
