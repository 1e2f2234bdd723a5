------------------------------- MODULE Frames -------------------------------
(***************************************************************************)
(* The frame stack and the value heap of both evaluators (src/frame.h).    *)
(* The last element of either sequence is its top.  partial holds the      *)
(* values of a node's symbols as far as they are known; slots lists the    *)
(* places of those that are not, the last one first.                       *)
(***************************************************************************)
EXTENDS Values

SelectFrame(item) ==
  [kind |-> "select", item |-> item, partial |-> << >>, slots |-> << >>]

ApplyFrame(item, partial, slots) ==
  [kind |-> "apply", item |-> item, partial |-> partial, slots |-> slots]

\* The number of the slot for the value at place k.
SlotOf(slots, k) == CHOOSE s \in DOMAIN slots : slots[s] = k

\* Mutant of Filled: the values are taken from the bottom of the heap.
FilledFromBottom(partial, slots, heap) ==
  [k \in DOMAIN partial |->
     IF k \in Range(slots) THEN heap[SlotOf(slots, k)]
                           ELSE partial[k]]

\* The partial array once the values of its slots are popped off the heap.
Filled(partial, slots, heap) ==
  [k \in DOMAIN partial |->
     IF k \in Range(slots)
     THEN heap[(Len(heap) + 1) - SlotOf(slots, k)]
     ELSE partial[k]]

\* The heap after n values are popped.
Popped(heap, n) == SubSeq(heap, 1, Len(heap) - n)

\* The references held by the frames of a stack: what stack_cleanup gives up.
HeldBy(stack) == FlattenSeq([f \in DOMAIN stack |-> stack[f].partial])

\* The partial and slots arrays the frames of a stack own.
ArraysOf(stack) ==
  2 * Cardinality({f \in DOMAIN stack : stack[f].kind = "apply"})

-----------------------------------------------------------------------------
\* Running the frames of a stack, each node giving one value, leaves exactly
\* one value: an apply frame finds on the heap what the frames above it and the
\* values already there give, and takes as many as it has slots.
Balanced(stack, heap) ==
  LET size[f \in 1..(Len(stack) + 1)] ==
        IF f > Len(stack) THEN Len(heap)
        ELSE size[f + 1] + 1 - Len(stack[f].slots)
  IN  /\ size[1] = 1
      /\ \A f \in DOMAIN stack : size[f + 1] >= Len(stack[f].slots)

\* The tokens in the values of a heap are in the order of the input.
InOrder(mem, heap) ==
  \A m, n \in DOMAIN heap : m < n =>
    \A s \in TokensIn(mem, heap[m]), t \in TokensIn(mem, heap[n]) : s < t

\* Every count in memory is the number of references to the value: from an array
\* or an object that is alive, or from one of the holders.
Counted(mem, holders) ==
  \A c \in DOMAIN mem :
    mem[c].count = Occurrences(c, holders) + Within(mem, Alive(mem), c)
=============================================================================
