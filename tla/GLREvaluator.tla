---------------------------- MODULE GLREvaluator ----------------------------
(***************************************************************************)
(* pharos\phathom\GLR\Evaluator over the chart of GLRChart                 *)
(* (src/glr/evaluator.c).  The ambiguity of the input is decided by the    *)
(* number of accepting threads; the tree below the only one is walked with *)
(* the frames and values of the Earley evaluator.                          *)
(***************************************************************************)
EXTENDS GLRChart, Frames

VARIABLES
  stage,     \* where __invoke is: "ready", "execute" or "returned"
  stack,     \* the frames of execute; their items are places in the arena
  heap,      \* its values
  mem,       \* the values allocated, the tokens of the chart first
  arrays,    \* the partial, slots and items arrays allocated and not freed
  outcome    \* what __invoke returned or threw

evaluation == <<stage, stack, heap, mem, arrays, outcome>>

EvalInit ==
  /\ Init
  /\ stage = "ready"
  /\ stack = << >>
  /\ heap = << >>
  /\ mem = << >>
  /\ arrays = 0
  /\ outcome = [kind |-> "pending", value |-> NullValue]

Construct == Next /\ UNCHANGED evaluation

-----------------------------------------------------------------------------
(* __invoke                                                                *)

Invoking == pc = "done" /\ stage = "ready"

\* __invoke leaves.
Leaving(kind, v) ==
  /\ outcome' = [kind |-> kind, value |-> v]
  /\ stage' = "returned"

InvokeNoMatch ==
  /\ Invoking /\ accepted = << >>
  /\ Leaving("nomatch", NullValue)
  /\ UNCHANGED <<vars, stack, heap, mem, arrays>>

InvokeAmbiguous ==
  /\ Invoking /\ Len(accepted) > 1
  /\ Leaving("ambiguity", NullValue)
  /\ UNCHANGED <<vars, stack, heap, mem, arrays>>

Invoke ==
  /\ Invoking /\ Len(accepted) = 1
  /\ stack' = <<SelectFrame(Last(accepted[1].slots).of)>>
  /\ mem' = TokenCells(Len(tokens))
  /\ stage' = "execute"
  /\ UNCHANGED <<vars, heap, arrays, outcome>>

-----------------------------------------------------------------------------
(* execute                                                                 *)

Executing(kind) == stage = "execute" /\ stack # << >> /\ Last(stack).kind = kind

TopNode == nodes[Last(stack).item]

\* What is known of the values of a node before its children have run, and the
\* places of those that are not, the last one first.
Direct(node) ==
  [k \in DOMAIN node.children |->
     CASE node.children[k].kind = "token" -> TokenValue(node.children[k].of)
       [] node.children[k].kind = "node"  -> Undef
       [] node.children[k].kind = "null"  -> NullValue]

\* Mutant of Unknown: in the order of the symbols.
UnknownForward(node) ==
  LET found[k \in 0..Len(node.children)] ==
        IF k = 0 THEN << >>
        ELSE IF node.children[k].kind = "node" THEN Append(found[k - 1], k) ELSE found[k - 1]
  IN  found[Len(node.children)]

Unknown(node) ==
  LET found[k \in 1..(Len(node.children) + 1)] ==
        IF k > Len(node.children) THEN << >>
        ELSE IF node.children[k].kind = "node" THEN Append(found[k + 1], k) ELSE found[k + 1]
  IN  found[1]

AppliedTo(node, memory, args) ==
  Applied(AlternativeOf(node), node.rule, node.alt, memory, args)

\* execute returns false: the arguments, then the frames of a stack and the
\* values of a heap are freed.
Abandon(memory, args, count, frames, values) ==
  /\ mem' = Release(memory, args \o HeldBy(frames) \o values)
  /\ arrays' = arrays - count - ArraysOf(frames)
  /\ stack' = << >>
  /\ heap' = << >>
  /\ Leaving("exception", NullValue)

SelectEmpty ==
  /\ Executing("select") /\ TopNode.children = << >>
  /\ LET new == EmptyValue(AlternativeOf(TopNode), mem)
     IN  mem' = new.mem /\ heap' = Append(heap, new.value)
  /\ stack' = Front(stack)
  /\ UNCHANGED <<vars, stage, arrays, outcome>>

SelectingTokens ==
  Executing("select") /\ TopNode.children # << >> /\ Unknown(TopNode) = << >>

\* Every child is a token: the arrays are allocated, the alternative applied
\* without a frame, and the arrays freed.
SelectTokens ==
  /\ SelectingTokens
  /\ LET args == Direct(TopNode)
         new  == AppliedTo(TopNode, AddRefs(mem, args), args)
     IN  /\ mem' = Release(new.mem, args)
         /\ heap' = Append(heap, new.value)
  /\ stack' = Front(stack)
  /\ UNCHANGED <<vars, stage, arrays, outcome>>

ThrowAtTokens ==
  /\ SelectingTokens
  /\ AlternativeOf(TopNode).action # Null
  /\ LET args == Direct(TopNode)
     IN  Abandon(AddRefs(mem, args), args, 0, Front(stack), heap)
  /\ UNCHANGED vars

\* The apply frame, and above it the children, the first of them on top; of the
\* three arrays the frame keeps two.
SelectNodes ==
  /\ Executing("select") /\ Unknown(TopNode) # << >>
  /\ LET slots == Unknown(TopNode)
         items == [k \in DOMAIN slots |-> TopNode.children[slots[k]].of]
     IN  /\ stack' = Append(Front(stack),
                            ApplyFrame(Last(stack).item, Direct(TopNode), slots))
                       \o [k \in DOMAIN items |-> SelectFrame(items[k])]
         /\ mem' = AddRefs(mem, Direct(TopNode))
  /\ arrays' = arrays + 2
  /\ UNCHANGED <<vars, stage, heap, outcome>>

TopArgs  == Filled(Last(stack).partial, Last(stack).slots, heap)
HeapLeft == Popped(heap, Len(Last(stack).slots))

\* Mutant of Apply: a value is taken off the heap for every symbol.
ApplyOverPopping ==
  /\ Executing("apply")
  /\ LET new == AppliedTo(TopNode, mem, TopArgs)
     IN  /\ mem' = Release(new.mem, TopArgs)
         /\ heap' = Append(Popped(heap, Len(Last(stack).partial)), new.value)
  /\ arrays' = arrays - 2
  /\ stack' = Front(stack)
  /\ UNCHANGED <<vars, stage, outcome>>

\* Mutant of Apply: the frame stays.
ApplyAgain ==
  /\ Executing("apply")
  /\ UNCHANGED vars /\ UNCHANGED evaluation

Apply ==
  /\ Executing("apply")
  /\ LET new == AppliedTo(TopNode, mem, TopArgs)
     IN  /\ mem' = Release(new.mem, TopArgs)
         /\ heap' = Append(HeapLeft, new.value)
  /\ arrays' = arrays - 2
  /\ stack' = Front(stack)
  /\ UNCHANGED <<vars, stage, outcome>>

\* Mutant of Throw: the items array is freed again.
ThrowFreeingItems ==
  /\ Executing("apply")
  /\ AlternativeOf(TopNode).action # Null
  /\ Abandon(mem, TopArgs, 3, Front(stack), HeapLeft)
  /\ UNCHANGED vars

Throw ==
  /\ Executing("apply")
  /\ AlternativeOf(TopNode).action # Null
  /\ Abandon(mem, TopArgs, 2, Front(stack), HeapLeft)
  /\ UNCHANGED vars

Answer ==
  /\ stage = "execute" /\ stack = << >>
  /\ Leaving("value", Last(heap))
  /\ heap' = << >>
  /\ UNCHANGED <<vars, stack, mem, arrays>>

-----------------------------------------------------------------------------

EvalStep ==
  \/ InvokeNoMatch \/ InvokeAmbiguous \/ Invoke
  \/ SelectEmpty \/ SelectTokens \/ ThrowAtTokens \/ SelectNodes
  \/ Apply \/ Throw \/ Answer

EvalNext == Construct \/ EvalStep

\* One thread; the methods of the context return or throw.
EvalSpec == EvalInit /\ [][EvalNext]_<<vars, evaluation>>
                     /\ WF_<<vars, evaluation>>(EvalNext)

-----------------------------------------------------------------------------
(* Properties                                                              *)

Frame == [kind : {"select", "apply"}, item : Nat, partial : Seq(Int), slots : Seq(Nat)]

\* The type invariant; every frame is about a node of the arena.
EvalTypeOK ==
  /\ stage \in {"ready", "execute", "returned"}
  /\ stack \in Seq(Frame)
  /\ \A f \in Range(stack) : f.item \in DOMAIN nodes
  /\ heap \in Seq(Nat)
  /\ mem \in Seq(Cell)
  /\ arrays \in Nat
  /\ outcome \in [kind : {"pending", "value", "nomatch", "ambiguity", "exception"},
                  value : Nat]

\* Who holds references: the chart, the frames, the heap, the caller.
Holders ==
  [k \in 1..Len(tokens) |-> k] \o HeldBy(stack) \o heap \o <<outcome.value>>

\* Every reference is released once, whatever path execute leaves by: in every
\* state the count of a value is the number of its holders, and the arrays
\* allocated are those of the frames.
OwnershipExact ==
  /\ Counted(mem, Holders)
  /\ arrays = ArraysOf(stack)

\* The frames still to run leave exactly one value on the heap, and an apply
\* frame never takes more values than there are.
OneResult ==
  stage = "execute" => Balanced(stack, heap)

\* Actions see their arguments in the order of the input: the values on the heap
\* are in that order while any frame is still to run.
LeftToRight == InOrder(mem, heap)

Promise == INSTANCE Evaluation WITH
  outcome <- outcome.kind,
  term    <- IF outcome.kind = "value" THEN TermOf(mem, outcome.value) ELSE NullTerm

\* The evaluator returns the value of a derivation of the input, reports an
\* ambiguity only when there are several, and no match only when there is none,
\* although threads have been merged and superseded on the way.
ImplementsEvaluation == Promise!Spec

\* __invoke returns or throws, where the constructor returns.
Returns == <>(stage = "returned")
=============================================================================
