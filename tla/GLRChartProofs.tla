--------------------------- MODULE GLRChartProofs ---------------------------
(***************************************************************************)
(* The GLR chart, for every grammar, every input and every automaton that  *)
(* satisfies AutomatonAssumption: the nodes in the arena are derivations,  *)
(* the stacks of the threads are runs of the automaton, the threads given  *)
(* to the evaluator end in a tree of the start rule over the whole input,  *)
(* and, where the automaton is whole, there are such threads exactly for   *)
(* the sentences of the grammar.                                           *)
(*                                                                         *)
(* TreesSound is not inductive: that a reduction takes off the symbols of  *)
(* its alternative is what the items of the top state say of the slots     *)
(* below it.  Handle relates the two, for every state of every stack.      *)
(*                                                                         *)
(* Nor is AcceptsLanguage.  Reach has the stacks the automaton could have  *)
(* after so many tokens if no thread were left out; Lossless says that     *)
(* each of them is the stack of a thread, or will be: what reduce leaves   *)
(* out has the stack of the best node of its key, which the worklist has,  *)
(* and what shift drops has the stack of a thread it kept.                 *)
(*                                                                         *)
(* NoneOutranked rests on TablesRanked: the tables of reduce have every thread   *)
(* that can be ranked under its key, with a node that is not better than   *)
(* the best one recorded.                                                  *)
(***************************************************************************)
EXTENDS GLRChart, SharedProofs

Valid(slot) ==
  \/ slot.kind = "token" /\ slot.of < Len(tokens)
  \/ slot.kind = "node" /\ slot.of \in DOMAIN nodes

Moves(from, x) == IF x \in Terminals THEN ShiftsAt(from) ELSE GotosAt(from)

\* The automaton goes from one state to the other over the symbol in the slot.
Move(from, slot, to) ==
  /\ SymbolAt(slot) \in DOMAIN Moves(from, SymbolAt(slot))
  /\ to = Moves(from, SymbolAt(slot))[SymbolAt(slot)]

\* Where the tokens under the first k slots of a stack end.
EndAt(slots, k) == IF k = 1 THEN 0 ELSE End(slots[k])

\* The symbols in front of the dot of an item are those in the slots up to k.
Handle(slots, k, it) ==
  /\ it.dot < k
  /\ \A j \in 1..it.dot :
       SymbolsOf(grammar, it)[j] = SymbolAt(slots[k - it.dot + j])

StackType(states, slots) ==
  /\ states \in Seq(Nat) /\ slots \in Seq(Slot)
  /\ Len(slots) = Len(states) /\ Len(states) \in Nat \ {0}
  /\ states[1] = 0 /\ slots[1] = NullSlot

Run(states, slots) ==
  \A k \in 2..Len(states) :
    /\ Valid(slots[k])
    /\ Begin(slots[k]) = EndAt(slots, k - 1)
    /\ Move(states[k - 1], slots[k], states[k])

Handles(states, slots) ==
  \A k \in 1..Len(states) :
    /\ states[k] \in DOMAIN automaton.items
    /\ \A it \in automaton.items[states[k]] : Handle(slots, k, it)

Stack(states, slots) ==
  StackType(states, slots) /\ Run(states, slots) /\ Handles(states, slots)

ThreadOK(t) ==
  /\ t \in ThreadType
  /\ Stack(t.states, t.slots)
  /\ t.pos = EndAt(t.slots, Len(t.slots))

Sound(ts) == \A t \in ts : ThreadOK(t)

At(ts, p) == \A t \in ts : t.pos = p

\* The threads of the round in progress have consumed the tokens scanned so far.
Positions ==
  /\ At(Range(threads), IF pc = "shift" THEN Len(tokens) - 1 ELSE Len(tokens))
  /\ pc = "shift" => tokens # << >>
  /\ pc \in {"pop", "reduce"} => At(Range(worklist), Len(tokens))
  /\ pc \in {"pop", "reduce", "shift", "collect"} => At(Range(out), Len(tokens))

Cursors ==
  /\ cursor > 0 /\ reduction > 0
  /\ pc = "reduce" => cursor - 1 \in DOMAIN worklist

NodesValid ==
  \A n \in DOMAIN nodes : \A k \in DOMAIN nodes[n].children :
    Valid(nodes[n].children[k])

Final(ts) == \A t \in ts : Accepting(t)

\* The threads kept so far, and those given to the evaluator, are accepting.
Results ==
  /\ pc = "collect" => Final(Range(out))
  /\ Final(Range(accepted)) /\ At(Range(accepted), limit)

Inv ==
  /\ TypeOK
  /\ Sound(AllThreads)
  /\ NodesValid /\ TreesSound
  /\ Positions /\ Cursors /\ Results

-----------------------------------------------------------------------------
(* The automaton                                                           *)

\* A reduction at a state completes an item of that state.
LEMMA ReductionFacts ==
  ASSUME TypeOK, NEW s, NEW k \in 1..Len(ReductionsAt(s)), k \in Nat
  PROVE  /\ ReductionsAt(s)[k] \in Reductions
         /\ Completes(grammar, s, ReductionsAt(s)[k])
<1>1. CASE s \in DOMAIN automaton.reduces
  <2>1. ReductionsAt(s) = automaton.reduces[s]
    BY <1>1 DEF ReductionsAt
  <2>2. /\ automaton.reduces[s] \in Seq(Reductions)
        /\ \A r \in Range(automaton.reduces[s]) : Completes(grammar, s, r)
    BY <1>1, AutomatonAssumption DEF automaton, TypeOK
  <2>3. automaton.reduces[s][k] \in Range(automaton.reduces[s])
    BY <2>1, <2>2 DEF Range
  <2>4. QED
    BY <2>1, <2>2, <2>3
<1>2. CASE s \notin DOMAIN automaton.reduces
  <2>1. Len(ReductionsAt(s)) = 0
    BY <1>2 DEF ReductionsAt
  <2>2. QED
    BY <2>1
<1>3. QED
  BY <1>1, <1>2

\* Terminals are shifted and names are gone to.
LEMMA MoveSymbols ==
  ASSUME TypeOK, NEW s
  PROVE  /\ DOMAIN ShiftsAt(s) \subseteq Terminals
         /\ DOMAIN GotosAt(s) \subseteq Names
<1>1. /\ \A u \in DOMAIN automaton.shifts : DOMAIN automaton.shifts[u] \subseteq Terminals
      /\ \A u \in DOMAIN automaton.goto : DOMAIN automaton.goto[u] \subseteq Names
  BY AutomatonAssumption DEF automaton, TypeOK
<1>2. DOMAIN EmptyTable = {}
  BY DEF EmptyTable
<1>3. DOMAIN ShiftsAt(s) \subseteq Terminals
  BY <1>1, <1>2 DEF ShiftsAt
<1>4. DOMAIN GotosAt(s) \subseteq Names
  BY <1>1, <1>2 DEF GotosAt
<1>5. QED
  BY <1>3, <1>4

\* Where a move leads follows from the state before it.
LEMMA MoveFollows ==
  ASSUME TypeOK, NEW s, NEW x, x \in DOMAIN Moves(s, x)
  PROVE  Follows(grammar, s, x, Moves(s, x)[x])
<1>1. DOMAIN EmptyTable = {}
  BY DEF EmptyTable
<1>2. CASE x \in Terminals
  <2>1. s \in DOMAIN automaton.shifts /\ Moves(s, x) = automaton.shifts[s]
    BY <1>1, <1>2 DEF Moves, ShiftsAt
  <2>2. QED
    BY <2>1, AutomatonAssumption DEF automaton, TypeOK
<1>3. CASE x \notin Terminals
  <2>1. s \in DOMAIN automaton.goto /\ Moves(s, x) = automaton.goto[s]
    BY <1>1, <1>3 DEF Moves, GotosAt
  <2>2. QED
    BY <2>1, AutomatonAssumption DEF automaton, TypeOK
<1>4. QED
  BY <1>2, <1>3

\* States are numbers, and an item has its dot in its alternative.
LEMMA ItemFacts ==
  ASSUME TypeOK
  PROVE  /\ DOMAIN automaton.items \subseteq Nat
         /\ 0 \in DOMAIN automaton.items
         /\ \A it \in automaton.items[0] : it.dot = 0
         /\ \A s \in DOMAIN automaton.items : \A it \in automaton.items[s] :
              /\ it.rule \in DOMAIN grammar.rules
              /\ it.alt \in DOMAIN grammar.rules[it.rule]
              /\ it.dot \in 0..Len(SymbolsOf(grammar, it)) /\ it.dot \in Nat
              /\ SymbolsOf(grammar, it) \in Seq(Symbols)
<1>1. /\ DOMAIN automaton.items \subseteq Nat
      /\ 0 \in DOMAIN automaton.items
      /\ \A it \in automaton.items[0] : it.dot = 0
      /\ \A s \in DOMAIN automaton.items : \A it \in automaton.items[s] :
           /\ it.rule \in DOMAIN grammar.rules
           /\ it.alt \in DOMAIN grammar.rules[it.rule]
           /\ it.dot \in 0..Len(SymbolsOf(grammar, it))
  BY AutomatonAssumption DEF automaton, TypeOK
<1>2. ASSUME NEW s \in DOMAIN automaton.items, NEW it \in automaton.items[s]
      PROVE  SymbolsOf(grammar, it) \in Seq(Symbols)
  <2>1. grammar.rules[it.rule] \in Seq(Alternatives)
    BY <1>1, GrammarAssumption DEF TypeOK
  <2>2. grammar.rules[it.rule][it.alt] \in Alternatives
    BY <1>1, <2>1, ElementOfSeq
  <2>3. QED
    BY <2>2, GrammarAssumption DEF SymbolsOf
<1>3. \A s \in DOMAIN automaton.items : \A it \in automaton.items[s] : it.dot \in Nat
  BY <1>1
<1>4. QED
  BY <1>1, <1>2, <1>3

-----------------------------------------------------------------------------
(* Stacks                                                                  *)

\* Tokens and nodes are only appended.
Extends ==
  /\ grammar' = grammar
  /\ Len(tokens) <= Len(tokens')
  /\ \A i \in 1..Len(tokens) : tokens'[i] = tokens[i]
  /\ Len(nodes) <= Len(nodes')
  /\ \A i \in 1..Len(nodes) : nodes'[i] = nodes[i]

\* What a slot says stays true.
LEMMA SlotKept ==
  ASSUME TypeOK, TypeOK', Extends, NEW slot \in Slot, Valid(slot)
  PROVE  /\ Valid(slot)' /\ SymbolAt(slot)' = SymbolAt(slot)
         /\ Begin(slot)' = Begin(slot) /\ End(slot)' = End(slot)
<1>1. Len(tokens) \in Nat /\ Len(tokens') \in Nat
  BY DEF TypeOK
<1>2. /\ Len(nodes) \in Nat /\ Len(nodes') \in Nat
      /\ DOMAIN nodes = 1..Len(nodes) /\ DOMAIN nodes' = 1..Len(nodes')
  BY DEF TypeOK
<1>3. slot.of \in Nat
  BY DEF Slot
<1>4. CASE slot.kind = "token" /\ slot.of < Len(tokens)
  <2>1. slot.of + 1 \in 1..Len(tokens)
    BY <1>1, <1>3, <1>4
  <2>2. QED
    BY <1>1, <1>3, <1>4, <2>1 DEF Valid, SymbolAt, Begin, End, Extends
<1>5. CASE slot.kind = "node" /\ slot.of \in DOMAIN nodes
  BY <1>2, <1>3, <1>5 DEF Valid, SymbolAt, Begin, End, Extends
<1>6. QED
  BY <1>4, <1>5 DEF Valid

\* The slots of a handle lie in the stack, above the bottom.
LEMMA HandleSlots ==
  ASSUME TypeOK, NEW states, NEW slots, StackType(states, slots),
         Handles(states, slots), NEW k \in 1..Len(states),
         NEW it \in automaton.items[states[k]], NEW j \in 1..it.dot
  PROVE  k - it.dot + j \in 2..k /\ it.dot \in Nat /\ k \in Nat /\ j \in Nat
<1>1. it.dot \in Nat /\ it.dot < k
  BY ItemFacts DEF Handles, Handle
<1>2. k \in Nat /\ j \in Nat
  BY <1>1 DEF StackType
<1>3. QED
  BY <1>1, <1>2

\* A stack stays one when tokens and nodes are appended.
LEMMA StackKept ==
  ASSUME TypeOK, TypeOK', Extends, NEW states, NEW slots, Stack(states, slots)
  PROVE  Stack(states, slots)'
<1>1. StackType(states, slots)
  BY DEF Stack
<1>2. Len(states) \in Nat /\ \A k \in 1..Len(states) : slots[k] \in Slot
  BY <1>1 DEF StackType
<1>3. \A k \in 2..Len(states) : Valid(slots[k])
  BY DEF Stack, Run
<1>4. ASSUME NEW k \in 2..Len(states)
      PROVE  /\ Valid(slots[k])' /\ SymbolAt(slots[k])' = SymbolAt(slots[k])
             /\ Begin(slots[k])' = Begin(slots[k]) /\ End(slots[k])' = End(slots[k])
  <2>1. slots[k] \in Slot /\ Valid(slots[k])
    BY <1>2, <1>3
  <2>2. QED
    BY <2>1, SlotKept
<1>5. automaton' = automaton
  BY DEF Extends, automaton
<1>6. Run(states, slots)'
  <2>1. SUFFICES ASSUME NEW k \in 2..Len(states)
                 PROVE  /\ Valid(slots[k])'
                        /\ Begin(slots[k])' = EndAt(slots, k - 1)'
                        /\ Move(states[k - 1], slots[k], states[k])'
    BY DEF Run
  <2>2. EndAt(slots, k - 1)' = EndAt(slots, k - 1)
    BY <1>2, <1>4 DEF EndAt
  <2>3. \A from, x : Moves(from, x)' = Moves(from, x)
    BY <1>5 DEF Moves, ShiftsAt, GotosAt
  <2>4. Move(states[k - 1], slots[k], states[k])'
    BY <1>4, <2>3 DEF Move, Stack, Run
  <2>5. QED
    BY <1>4, <2>2, <2>4 DEF Stack, Run
<1>7. Handles(states, slots)'
  <2>1. SUFFICES ASSUME NEW k \in 1..Len(states), NEW it \in automaton.items[states[k]]
                 PROVE  Handle(slots, k, it)'
    BY <1>5 DEF Handles, Stack
  <2>2. Handle(slots, k, it)
    BY DEF Handles, Stack
  <2>3. \A j \in 1..it.dot : k - it.dot + j \in 2..Len(states)
    BY <1>1, <1>2, HandleSlots DEF Stack
  <2>4. grammar' = grammar
    BY DEF Extends
  <2>5. QED
    BY <1>4, <2>2, <2>3, <2>4 DEF Handle
<1>8. QED
  BY <1>1, <1>6, <1>7 DEF Stack, StackType

\* What is left of a stack when its top is taken off.
LEMMA StackBase ==
  ASSUME TypeOK, NEW states, NEW slots, Stack(states, slots),
         NEW m \in 1..Len(states)
  PROVE  /\ Stack(SubSeq(states, 1, m), SubSeq(slots, 1, m))
         /\ Len(SubSeq(states, 1, m)) = m /\ Len(SubSeq(slots, 1, m)) = m
         /\ SubSeq(states, 1, m)[m] = states[m]
         /\ EndAt(SubSeq(slots, 1, m), m) = EndAt(slots, m)
<1> DEFINE st == SubSeq(states, 1, m)
           sl == SubSeq(slots, 1, m)
<1>1. /\ states \in Seq(Nat) /\ slots \in Seq(Slot)
      /\ Len(slots) = Len(states) /\ Len(states) \in Nat \ {0}
      /\ states[1] = 0 /\ slots[1] = NullSlot /\ m \in Nat
  BY DEF Stack, StackType
<1>2. /\ st \in Seq(Nat) /\ sl \in Seq(Slot) /\ Len(st) = m /\ Len(sl) = m
      /\ \A k \in 1..m : st[k] = states[k] /\ sl[k] = slots[k]
  BY <1>1, SubSeqProperties
<1> HIDE DEF st, sl
<1>3. StackType(st, sl)
  BY <1>1, <1>2 DEF StackType
<1>4. Run(st, sl)
  <2>1. SUFFICES ASSUME NEW k \in 2..m
                 PROVE  /\ Valid(sl[k])
                        /\ Begin(sl[k]) = EndAt(sl, k - 1)
                        /\ Move(st[k - 1], sl[k], st[k])
    BY <1>2 DEF Run
  <2>2. k \in 2..Len(states) /\ k \in 1..m /\ k - 1 \in 1..m
    BY <1>1
  <2>3. EndAt(sl, k - 1) = EndAt(slots, k - 1)
    BY <1>2, <2>2 DEF EndAt
  <2>4. QED
    BY <1>2, <2>2, <2>3 DEF Stack, Run
<1>5. Handles(st, sl)
  <2>1. SUFFICES ASSUME NEW k \in 1..m
                 PROVE  /\ st[k] \in DOMAIN automaton.items
                        /\ \A it \in automaton.items[st[k]] : Handle(sl, k, it)
    BY <1>2 DEF Handles
  <2>2. k \in 1..Len(states) /\ st[k] = states[k]
    BY <1>1, <1>2
  <2>3. ASSUME NEW it \in automaton.items[states[k]]
        PROVE  Handle(sl, k, it)
    <3>1. Handle(slots, k, it)
      BY <2>2 DEF Handles, Stack
    <3>2. \A j \in 1..it.dot : k - it.dot + j \in 1..m
      <4>1. \A j \in 1..it.dot : k - it.dot + j \in 2..k
        BY <2>2, HandleSlots DEF Stack
      <4>2. 2..k \subseteq 1..m
        BY <1>1
      <4>3. QED
        BY ONLY <4>1, <4>2
    <3>3. QED
      BY <1>2, <3>1, <3>2 DEF Handle
  <2>4. QED
    BY <2>2, <2>3 DEF Handles, Stack
<1>6. EndAt(sl, m) = EndAt(slots, m) /\ st[m] = states[m]
  BY <1>1, <1>2 DEF EndAt
<1>7. QED
  BY <1>2, <1>3, <1>4, <1>5, <1>6 DEF Stack, st, sl

\* A move to a new state leaves a stack: an item of that state begins with the
\* dot, or its handle is the slot on top of a handle of the state before.
LEMMA StackMoved ==
  ASSUME TypeOK, NEW states, NEW slots, Stack(states, slots),
         NEW slot \in Slot, Valid(slot), Begin(slot) = EndAt(slots, Len(slots)),
         NEW to, Move(states[Len(states)], slot, to)
  PROVE  /\ Stack(Append(states, to), Append(slots, slot))
         /\ EndAt(Append(slots, slot), Len(slots) + 1) = End(slot)
<1> DEFINE st == Append(states, to)
           sl == Append(slots, slot)
           top == Len(states) + 1
<1>1. /\ states \in Seq(Nat) /\ slots \in Seq(Slot)
      /\ Len(slots) = Len(states) /\ Len(states) \in Nat \ {0}
      /\ states[1] = 0 /\ slots[1] = NullSlot
  BY DEF Stack, StackType
<1>2. Follows(grammar, states[Len(states)], SymbolAt(slot), to)
  BY MoveFollows DEF Move
<1>3. to \in DOMAIN automaton.items /\ to \in Nat
  BY <1>2, ItemFacts DEF Follows, automaton
<1>4. /\ st \in Seq(Nat) /\ sl \in Seq(Slot) /\ Len(st) = top /\ Len(sl) = top
      /\ \A k \in 1..Len(states) : st[k] = states[k] /\ sl[k] = slots[k]
      /\ st[top] = to /\ sl[top] = slot
  BY <1>1, <1>3, AppendProperties
<1>5. top \in Nat /\ top > 1 /\ top = Len(slots) + 1
  BY <1>1
<1> HIDE DEF st, sl, top
<1>6. StackType(st, sl)
  BY <1>1, <1>4, <1>5 DEF StackType
<1>7. EndAt(sl, top - 1) = EndAt(slots, Len(slots)) /\ top - 1 = Len(states)
  BY <1>1, <1>4 DEF EndAt, top
<1>8. Run(st, sl)
  <2>1. ASSUME NEW k \in 2..Len(states)
        PROVE  /\ Valid(sl[k]) /\ Begin(sl[k]) = EndAt(sl, k - 1)
               /\ Move(st[k - 1], sl[k], st[k])
    <3>1. k \in 1..Len(states) /\ k - 1 \in 1..Len(states)
      BY <1>1
    <3>2. EndAt(sl, k - 1) = EndAt(slots, k - 1)
      BY <1>4, <3>1 DEF EndAt
    <3>3. QED
      BY <1>4, <3>1, <3>2 DEF Stack, Run
  <2>2. /\ Valid(sl[top]) /\ Begin(sl[top]) = EndAt(sl, top - 1)
        /\ Move(st[top - 1], sl[top], st[top])
    BY <1>1, <1>4, <1>7
  <2>3. \A k \in 2..top : k = top \/ k \in 2..Len(states)
    BY <1>1 DEF top
  <2>4. QED
    BY <1>4, <2>1, <2>2, <2>3 DEF Run
<1>9. Handles(st, sl)
  <2>1. ASSUME NEW k \in 1..Len(states)
        PROVE  /\ st[k] \in DOMAIN automaton.items
               /\ \A it \in automaton.items[st[k]] : Handle(sl, k, it)
    <3>1. ASSUME NEW it \in automaton.items[states[k]]
          PROVE  Handle(sl, k, it)
      <4>1. Handle(slots, k, it)
        BY DEF Handles, Stack
      <4>2. \A j \in 1..it.dot : k - it.dot + j \in 2..k
        BY HandleSlots DEF Stack
      <4>3. \A j \in 1..it.dot : k - it.dot + j \in 1..Len(states)
        BY <1>1, <4>2
      <4>4. QED
        BY <1>4, <4>1, <4>3 DEF Handle
    <3>2. QED
      BY <1>4, <3>1 DEF Handles, Stack
  <2>2. ASSUME NEW it \in automaton.items[to]
        PROVE  Handle(sl, top, it)
    <3>1. it.dot \in Nat
      BY <1>3, ItemFacts
    <3>2. CASE it.dot = 0
      BY <1>5, <3>2 DEF Handle
    <3>3. CASE it.dot # 0
      <4>1. PICK before \in automaton.items[states[Len(states)]] :
              /\ before.rule = it.rule /\ before.alt = it.alt
              /\ before.dot = it.dot - 1
              /\ SymbolsOf(grammar, it)[it.dot] = SymbolAt(slot)
        BY <1>2, <3>3 DEF Follows, automaton
      <4>2. Handle(slots, Len(states), before)
        BY <1>1 DEF Handles, Stack
      <4>3. before.dot < Len(states)
        BY <4>2 DEF Handle
      <4>4. it.dot < top
        BY <1>1, <3>1, <4>1, <4>3 DEF top
      <4>5. SymbolsOf(grammar, before) = SymbolsOf(grammar, it)
        BY <4>1 DEF SymbolsOf
      <4>6. ASSUME NEW j \in 1..it.dot
            PROVE  SymbolsOf(grammar, it)[j] = SymbolAt(sl[top - it.dot + j])
        <5>1. CASE j = it.dot
          <6>1. top - it.dot + j = top
            BY <1>5, <3>1, <5>1
          <6>2. QED
            BY <1>4, <4>1, <5>1, <6>1
        <5>2. CASE j # it.dot
          <6>1. j \in 1..before.dot
            BY <3>1, <4>1, <5>2
          <6>2. top - it.dot + j = Len(states) - before.dot + j
            <7>1. Len(states) \in Int /\ it.dot \in Int /\ j \in Int
              BY <1>1, <3>1
            <7>2. before.dot = it.dot - 1
              BY <4>1
            <7>3. top = Len(states) + 1
              BY DEF top
            <7>4. QED
              BY ONLY <7>1, <7>2, <7>3
          <6>3. Len(states) - before.dot + j \in 1..Len(states)
            <7>1. Len(states) \in Int /\ before.dot \in Int /\ j \in Int
              BY <1>1, <3>1, <4>1
            <7>2. j >= 1 /\ j <= before.dot
              BY <3>1, <4>1, <6>1
            <7>3. QED
              BY ONLY <7>1, <7>2, <4>3
          <6>4. SymbolsOf(grammar, before)[j]
                  = SymbolAt(slots[Len(states) - before.dot + j])
            BY <4>2, <6>1 DEF Handle
          <6>5. QED
            BY <1>4, <4>5, <6>2, <6>3, <6>4
        <5>3. QED
          BY <5>1, <5>2
      <4>7. QED
        BY <4>4, <4>6 DEF Handle
    <3>4. QED
      BY <3>2, <3>3
  <2>3. \A k \in 1..top : k = top \/ k \in 1..Len(states)
    BY <1>1 DEF top
  <2>4. QED
    BY <1>3, <1>4, <2>1, <2>2, <2>3 DEF Handles
<1>10. EndAt(sl, top) = End(slot)
  BY <1>4, <1>5 DEF EndAt
<1>11. QED
  BY <1>5, <1>6, <1>8, <1>9, <1>10 DEF Stack, st, sl

-----------------------------------------------------------------------------
(* Threads and nodes                                                       *)

CanMove(states, slots, slot, to) ==
  /\ Stack(states, slots)
  /\ slot \in Slot /\ Valid(slot) /\ Begin(slot) = EndAt(slots, Len(slots))
  /\ Move(states[Len(states)], slot, to)

MovesSound ==
  \A states, slots, slot, to : CanMove(states, slots, slot, to) =>
    /\ Stack(Append(states, to), Append(slots, slot))
    /\ EndAt(Append(slots, slot), Len(slots) + 1) = End(slot)

LEMMA EveryMoveSound == TypeOK => MovesSound
<1>1. SUFFICES ASSUME TypeOK, NEW states, NEW slots, NEW slot, NEW to,
                      CanMove(states, slots, slot, to)
               PROVE  /\ Stack(Append(states, to), Append(slots, slot))
                      /\ EndAt(Append(slots, slot), Len(slots) + 1) = End(slot)
  BY DEF MovesSound
<1>2. QED
  BY <1>1, StackMoved DEF CanMove

\* StackMoved, of the state a step leads to.
LEMMA NextMoveSound ==
  ASSUME TypeOK' PROVE MovesSound'
<1>1. (TypeOK => MovesSound)'
  BY EveryMoveSound, PTL
<1>2. QED
  BY <1>1

\* Threads stay sound when tokens and nodes are appended.
LEMMA SoundKept ==
  ASSUME TypeOK, TypeOK', Extends, NEW ts, Sound(ts)
  PROVE  Sound(ts)'
<1>1. SUFFICES ASSUME NEW t \in ts PROVE ThreadOK(t)'
  BY DEF Sound
<1>2. ThreadOK(t)
  BY DEF Sound
<1>3. Stack(t.states, t.slots)'
  BY <1>2, StackKept DEF ThreadOK
<1>4. PICK d \in Nat \ {0} : d = Len(t.slots) /\ d = Len(t.states)
  BY <1>2 DEF ThreadOK, Stack, StackType
<1>5. EndAt(t.slots, d)' = EndAt(t.slots, d)
  <2>1. CASE d = 1
    BY <2>1 DEF EndAt
  <2>2. CASE d # 1
    <3>1. d \in 2..d /\ d \in 1..d
      BY <2>2
    <3>2. t.slots[d] \in Slot
      BY <1>2, <1>4, <3>1 DEF ThreadOK, Stack, StackType
    <3>3. Valid(t.slots[d])
      BY <1>2, <1>4, <3>1 DEF ThreadOK, Stack, Run
    <3>4. QED
      BY <2>2, <3>2, <3>3, SlotKept DEF EndAt
  <2>3. QED
    BY <2>1, <2>2
<1>6. t.pos = EndAt(t.slots, d)'
  BY <1>2, <1>4, <1>5 DEF ThreadOK
<1>7. QED
  BY <1>2, <1>3, <1>4, <1>6 DEF ThreadOK, ThreadType, Slot

\* A node is a derivation, and the n-th.
Derivation(node, n) ==
  /\ \A k \in DOMAIN node.children : Valid(node.children[k])
  /\ Covers(node.children, node.start, node.end)
  /\ AlternativeOf(node).symbols =
       [k \in DOMAIN node.children |-> SymbolAt(node.children[k])]
  /\ \A c \in Range(node.children) : c.kind = "node" => c.of < n

LEMMA DerivesAll ==
  NodesValid /\ TreesSound <=> \A n \in DOMAIN nodes : Derivation(nodes[n], n)
BY DEF NodesValid, TreesSound, Derivation

LEMMA NextDerivesAll ==
  (\A n \in DOMAIN nodes : Derivation(nodes[n], n))' => NodesValid' /\ TreesSound'
<1>1. (NodesValid /\ TreesSound <=> \A n \in DOMAIN nodes : Derivation(nodes[n], n))'
  BY DerivesAll, PTL
<1>2. QED
  BY <1>1

LEMMA DerivesKept ==
  ASSUME TypeOK, TypeOK', Extends, NEW node \in Node, NEW n, Derivation(node, n)
  PROVE  Derivation(node, n)'
<1>1. node.children \in Seq(Slot)
  BY DEF Node
<1>2. \A k \in DOMAIN node.children : node.children[k] \in Slot
  BY <1>1
<1>3. ASSUME NEW k \in DOMAIN node.children
      PROVE  /\ Valid(node.children[k])'
             /\ SymbolAt(node.children[k])' = SymbolAt(node.children[k])
             /\ Begin(node.children[k])' = Begin(node.children[k])
             /\ End(node.children[k])' = End(node.children[k])
  <2>1. node.children[k] \in Slot /\ Valid(node.children[k])
    BY <1>2 DEF Derivation
  <2>2. QED
    BY <2>1, SlotKept
<1>4. Covers(node.children, node.start, node.end)'
  <2>1. CASE node.children = << >>
    BY <2>1 DEF Derivation, Covers
  <2>2. CASE node.children # << >>
    <3>1. /\ Len(node.children) \in Nat \ {0}
          /\ DOMAIN node.children = 1..Len(node.children)
      BY <1>1, <2>2
    <3>2. /\ Head(node.children) = node.children[1]
          /\ Last(node.children) = node.children[Len(node.children)]
      BY <1>1, <2>2 DEF Last
    <3>3. /\ Begin(node.children[1]) = node.start
          /\ End(node.children[Len(node.children)]) = node.end
          /\ \A k \in 2..Len(node.children) :
               Begin(node.children[k]) = End(node.children[k - 1])
      BY <2>2, <3>2 DEF Derivation, Covers
    <3>4. /\ Begin(node.children[1])' = node.start
          /\ End(node.children[Len(node.children)])' = node.end
      BY <1>3, <3>1, <3>3
    <3>5. ASSUME NEW k \in 2..Len(node.children)
          PROVE  Begin(node.children[k])' = End(node.children[k - 1])'
      <4>1. k \in DOMAIN node.children /\ k - 1 \in DOMAIN node.children
        BY <3>1
      <4>2. QED
        BY <1>3, <3>3, <4>1
    <3>6. QED
      BY <2>2, <3>2, <3>4, <3>5 DEF Covers
  <2>3. QED
    BY <2>1, <2>2
<1>5. AlternativeOf(node)' = AlternativeOf(node)
  BY DEF AlternativeOf, Extends
<1>6. [k \in DOMAIN node.children |-> SymbolAt(node.children[k])]'
        = [k \in DOMAIN node.children |-> SymbolAt(node.children[k])]
  BY <1>3
<1>7. QED
  BY <1>3, <1>4, <1>5, <1>6 DEF Derivation

\* The derivations stay, when tokens are appended.
LEMMA TreesKept ==
  ASSUME TypeOK, TypeOK', NodesValid, TreesSound, Extends, nodes' = nodes
  PROVE  NodesValid' /\ TreesSound'
<1>1. \A n \in DOMAIN nodes : nodes[n] \in Node /\ Derivation(nodes[n], n)
  BY DerivesAll DEF TypeOK
<1>2. PICK arena : arena = nodes
  OBVIOUS
<1>3. \A n \in DOMAIN arena : Derivation(arena[n], n)'
  <2>1. SUFFICES ASSUME NEW n \in DOMAIN arena PROVE Derivation(arena[n], n)'
    OBVIOUS
  <2>2. arena[n] \in Node /\ Derivation(arena[n], n)
    BY <1>1, <1>2
  <2>3. QED
    BY <2>2, DerivesKept
<1>4. nodes' = arena
  BY <1>2
<1>5. (\A n \in DOMAIN nodes : Derivation(nodes[n], n))'
  BY <1>3, <1>4
<1>6. QED
  BY <1>5, NextDerivesAll

-----------------------------------------------------------------------------
(* One reduction, of a rigid thread                                        *)

\* The reduction takes off less than the stack, and what it takes off are the
\* symbols of its alternative, over the tokens from the end of what is left.
LEMMA HandleTaken ==
  ASSUME TypeOK, NEW th, ThreadOK(th),
         NEW r \in Reductions, Completes(grammar, Top(th), r)
  PROVE  /\ Depth(th) \in Nat /\ r.length \in Nat
         /\ Depth(th) - r.length \in 1..Depth(th)
         /\ r.rule \in DOMAIN grammar.rules
         /\ Children(th, r.length) \in Seq(Slot)
         /\ Len(Children(th, r.length)) = r.length
         /\ \A j \in 1..r.length :
              Children(th, r.length)[j] = th.slots[Depth(th) - r.length + j]
         /\ \A j \in 1..r.length : Valid(Children(th, r.length)[j])
         /\ grammar.rules[r.rule][r.alt].symbols =
              [j \in DOMAIN Children(th, r.length) |->
                 SymbolAt(Children(th, r.length)[j])]
<1> DEFINE c == Children(th, r.length)
<1>1. PICK it \in automaton.items[Top(th)] :
        /\ it.rule = r.rule /\ it.alt = r.alt /\ it.dot = r.length
        /\ it.dot = Len(SymbolsOf(grammar, it))
  BY DEF Completes, automaton
<1>2. /\ th.states \in Seq(Nat) /\ th.slots \in Seq(Slot)
      /\ Len(th.slots) = Len(th.states) /\ Len(th.states) \in Nat \ {0}
      /\ StackType(th.states, th.slots) /\ Handles(th.states, th.slots)
      /\ Run(th.states, th.slots)
  BY DEF ThreadOK, Stack, StackType
<1>3. PICK d \in Nat \ {0} : d = Len(th.states)
  BY <1>2
<1>4. Depth(th) = d /\ Top(th) = th.states[d] /\ d \in 1..d
  BY <1>3 DEF Depth, Top
<1>5. PICK n \in Nat : n = r.length
  BY DEF Reductions
<1>6. Top(th) \in DOMAIN automaton.items /\ Handle(th.slots, d, it)
  BY <1>1, <1>2, <1>3, <1>4 DEF Handles
<1>7. n < d
  BY <1>1, <1>5, <1>6 DEF Handle
<1>8. /\ it.rule \in DOMAIN grammar.rules
      /\ SymbolsOf(grammar, it) \in Seq(Symbols)
  BY <1>6, ItemFacts
<1>9. c = SubSeq(th.slots, d - n + 1, d)
  BY <1>4, <1>5 DEF Children
<1>10. Len(th.slots) = d /\ d - n + 1 \in 1..(d + 1) /\ d \in d..d
  BY <1>2, <1>3, <1>7
<1>11. /\ c \in Seq(Slot) /\ Len(c) = n
       /\ \A j \in 1..n : c[j] = th.slots[d - n + j]
  <2>1. PICK m \in Nat : m = d - n + 1
    BY <1>7
  <2>2. m \in 1..(d + 1) /\ d \in (m - 1)..d /\ d - m + 1 = n
    BY <1>7, <2>1
  <2>3. \A i \in m..d : th.slots[i] \in Slot
    <3>1. \A i \in m..d : i \in 1..d
      BY <2>2
    <3>2. QED
      BY <1>2, <1>10, <3>1
  <2>4. /\ SubSeq(th.slots, m, d) \in Seq(Slot)
        /\ Len(SubSeq(th.slots, m, d)) = IF m <= d THEN d - m + 1 ELSE 0
        /\ \A k \in 1..(d - m + 1) : SubSeq(th.slots, m, d)[k] = th.slots[m + k - 1]
    <3>1. m \in Int /\ d \in Int
      OBVIOUS
    <3>2. QED
      BY ONLY <2>3, <3>1, SubSeqProperties
  <2>5. \A k \in 1..n : m + k - 1 = d - n + k
    BY <1>7, <2>1
  <2>6. (IF m <= d THEN d - m + 1 ELSE 0) = n
    BY <1>7, <2>1, <2>2
  <2>7. c = SubSeq(th.slots, m, d)
    BY <1>9, <2>1
  <2>8. QED
    BY <2>2, <2>4, <2>5, <2>6, <2>7
<1> HIDE DEF c
<1>12. ASSUME NEW j \in 1..n
       PROVE  Valid(c[j]) /\ SymbolsOf(grammar, it)[j] = SymbolAt(c[j])
  <2>1. d - n + j \in 2..Len(th.states)
    BY <1>3, <1>7
  <2>2. Valid(th.slots[d - n + j])
    BY <1>2, <2>1 DEF Run
  <2>3. SymbolsOf(grammar, it)[j] = SymbolAt(th.slots[d - n + j])
    BY <1>1, <1>5, <1>6 DEF Handle
  <2>4. QED
    BY <1>11, <2>2, <2>3
<1>13. SymbolsOf(grammar, it) = [j \in DOMAIN c |-> SymbolAt(c[j])]
  <2>1. DOMAIN SymbolsOf(grammar, it) = 1..n /\ DOMAIN c = 1..n
    <3>1. Len(SymbolsOf(grammar, it)) = n
      BY <1>1, <1>5
    <3>2. QED
      BY <1>8, <1>11, <3>1
  <2>2. SymbolsOf(grammar, it) = [j \in 1..n |-> SymbolsOf(grammar, it)[j]]
    BY <1>8, <2>1
  <2>3. QED
    BY <1>12, <2>1, <2>2
<1>14. d - n \in 1..d
  BY <1>7
<1>15. /\ Depth(th) \in Nat /\ r.length \in Nat
       /\ Depth(th) - r.length \in 1..Depth(th)
       /\ r.rule \in DOMAIN grammar.rules
  BY <1>1, <1>4, <1>5, <1>8, <1>14
<1>16. grammar.rules[r.rule][r.alt].symbols = [j \in DOMAIN c |-> SymbolAt(c[j])]
  BY <1>1, <1>13 DEF SymbolsOf
<1>17. QED
  BY <1>4, <1>5, <1>11, <1>12, <1>15, <1>16 DEF c


\* The node reduce makes of a thread, and where it begins.
NodeOf(th, r) ==
  LET children == Children(th, r.length)
  IN  [rule |-> r.rule, alt |-> r.alt, children |-> children,
       start |-> StartOf(children, th.pos), end |-> th.pos]

LEMMA StartFound ==
  ASSUME TypeOK, NEW th, ThreadOK(th),
         NEW r \in Reductions, Completes(grammar, Top(th), r)
  PROVE  /\ StartOf(Children(th, r.length), th.pos)
              = EndAt(th.slots, Depth(th) - r.length)
         /\ Covers(Children(th, r.length),
                   StartOf(Children(th, r.length), th.pos), th.pos)
<1> DEFINE c == Children(th, r.length)
<1>1. PICK d \in Nat, n \in Nat : d = Depth(th) /\ n = r.length
  BY HandleTaken
<1>2. /\ d - n \in 1..d /\ c \in Seq(Slot) /\ Len(c) = n
      /\ \A j \in 1..n : c[j] = th.slots[d - n + j] /\ Valid(c[j])
  BY <1>1, HandleTaken
<1>3. /\ Len(th.states) = d /\ Len(th.slots) = d
      /\ th.pos = EndAt(th.slots, d) /\ Run(th.states, th.slots)
  BY <1>1 DEF ThreadOK, Stack, StackType, Depth
<1> HIDE DEF c
<1>4. CASE n = 0
  <2>1. c = << >>
    BY <1>2, <1>4
  <2>2. d - n = d
    BY <1>4
  <2>3. StartOf(c, th.pos) = th.pos
    BY <2>1 DEF StartOf
  <2>4. QED
    BY <1>1, <1>3, <2>1, <2>2, <2>3 DEF Covers, c
<1>5. CASE n # 0
  <2>1. c # << >> /\ Head(c) = c[1] /\ Last(c) = c[n]
    BY <1>2, <1>5 DEF Last
  <2>2. \A j \in 1..n : d - n + j \in 2..d
    BY <1>2
  <2>3. ASSUME NEW j \in 1..n
        PROVE  Begin(c[j]) = EndAt(th.slots, d - n + j - 1)
    <3>1. PICK k \in 2..d : k = d - n + j
      BY <2>2
    <3>2. Begin(th.slots[k]) = EndAt(th.slots, k - 1)
      BY <1>3 DEF Run
    <3>3. k - 1 = d - n + j - 1
      BY <3>1
    <3>4. QED
      BY <1>2, <3>1, <3>2, <3>3
  <2>4. 1 \in 1..n /\ n \in 1..n /\ d - n + 1 - 1 = d - n /\ d - n + n = d
    BY <1>5
  <2>5. Begin(c[1]) = EndAt(th.slots, d - n)
    BY <2>3, <2>4
  <2>6. StartOf(c, th.pos) = Begin(c[1])
    <3>1. Valid(c[1])
      BY <1>2, <2>4
    <3>2. QED
      BY <2>1, <3>1 DEF StartOf, Begin, Valid
  <2>7. End(c[n]) = th.pos
    <3>1. d # 1 /\ c[n] = th.slots[d]
      BY <1>2, <2>2, <2>4
    <3>2. QED
      BY <1>3, <3>1 DEF EndAt
  <2>8. ASSUME NEW j \in 2..n
        PROVE  Begin(c[j]) = End(c[j - 1])
    <3>1. PICK k \in 1..n : k = j - 1
      OBVIOUS
    <3>2. c[k] = th.slots[d - n + k] /\ d - n + k # 1
      BY <1>2, <2>2
    <3>3. EndAt(th.slots, d - n + k) = End(c[k])
      BY <3>2 DEF EndAt
    <3>4. d - n + k = d - n + j - 1 /\ j \in 1..n
      BY <3>1
    <3>5. Begin(c[j]) = EndAt(th.slots, d - n + j - 1)
      BY <2>3, <3>4
    <3>6. QED
      BY <3>1, <3>3, <3>4, <3>5
  <2>9. Covers(c, Begin(c[1]), th.pos)
    BY <1>2, <2>1, <2>7, <2>8 DEF Covers
  <2>10. QED
    BY <1>1, <2>5, <2>6, <2>9 DEF c
<1>6. QED
  BY <1>4, <1>5

\* Where the tokens under a stack end is a position.
LEMMA EndAtNat ==
  ASSUME TypeOK, NEW states, NEW slots, Stack(states, slots), NEW k \in 1..Len(states)
  PROVE  EndAt(slots, k) \in Nat
<1>1. CASE k = 1
  BY <1>1 DEF EndAt
<1>2. CASE k # 1
  <2>1. /\ slots \in Seq(Slot) /\ Len(slots) = Len(states) /\ Len(states) \in Nat
    BY DEF Stack, StackType
  <2>2. k \in 2..Len(states) /\ slots[k] \in Slot
    BY <1>2, <2>1
  <2>3. Valid(slots[k]) /\ slots[k].of \in Nat
    BY <2>2 DEF Stack, Run, Slot
  <2>4. \A n \in DOMAIN nodes : nodes[n].end \in Nat
    <3>1. \A n \in DOMAIN nodes : nodes[n] \in Node
      BY DEF TypeOK
    <3>2. QED
      BY <3>1 DEF Node
  <2>5. End(slots[k]) \in Nat
    BY <2>3, <2>4 DEF End, Valid
  <2>6. QED
    BY <1>2, <2>5 DEF EndAt
<1>3. QED
  BY <1>1, <1>2

LEMMA NodeMade ==
  ASSUME TypeOK, NEW th, ThreadOK(th),
         NEW r \in Reductions, Completes(grammar, Top(th), r)
  PROVE  /\ NodeOf(th, r) \in Node
         /\ Derivation(NodeOf(th, r), Len(nodes) + 1)
         /\ NodeOf(th, r).start = EndAt(th.slots, Depth(th) - r.length)
<1> DEFINE c == Children(th, r.length)
<1>1. /\ c \in Seq(Slot) /\ Len(c) = r.length /\ r.length \in Nat
      /\ \A j \in 1..r.length : Valid(c[j])
      /\ grammar.rules[r.rule][r.alt].symbols = [j \in DOMAIN c |-> SymbolAt(c[j])]
      /\ Depth(th) - r.length \in 1..Depth(th)
  BY HandleTaken
<1>2. /\ StartOf(c, th.pos) = EndAt(th.slots, Depth(th) - r.length)
      /\ Covers(c, StartOf(c, th.pos), th.pos)
  BY StartFound
<1>3. /\ NodeOf(th, r).rule = r.rule /\ NodeOf(th, r).alt = r.alt
      /\ NodeOf(th, r).children = c
      /\ NodeOf(th, r).start = StartOf(c, th.pos) /\ NodeOf(th, r).end = th.pos
  BY DEF NodeOf
<1> HIDE DEF c
<1>4. StartOf(c, th.pos) \in Nat
  <2>1. PICK m \in 1..Len(th.states) : m = Depth(th) - r.length
    BY <1>1 DEF Depth
  <2>2. QED
    BY <1>2, <2>1, EndAtNat DEF ThreadOK
<1>5. NodeOf(th, r) \in Node
  <2>1. NodeOf(th, r) = [rule |-> r.rule, alt |-> r.alt, children |-> c,
                         start |-> StartOf(c, th.pos), end |-> th.pos]
    BY DEF NodeOf, c
  <2>2. r.rule \in Names /\ r.alt \in Nat /\ th.pos \in Nat
    BY DEF Reductions, ThreadOK, ThreadType
  <2>3. QED
    BY <1>1, <1>4, <2>1, <2>2 DEF Node
<1>6. Derivation(NodeOf(th, r), Len(nodes) + 1)
  <2>1. AlternativeOf(NodeOf(th, r)).symbols = [j \in DOMAIN c |-> SymbolAt(c[j])]
    BY <1>1, <1>3 DEF AlternativeOf
  <2>2. \A k \in DOMAIN c : Valid(c[k])
    BY <1>1
  <2>3. ASSUME NEW s \in Range(c), s.kind = "node"
        PROVE  s.of < Len(nodes) + 1
    <3>1. PICK k \in DOMAIN c : s = c[k]
      BY DEF Range
    <3>2. Valid(s)
      BY <2>2, <3>1
    <3>3. s.of \in 1..Len(nodes) /\ Len(nodes) \in Nat
      BY <2>3, <3>2 DEF Valid, TypeOK
    <3>4. QED
      BY <3>3
  <2>4. QED
    BY <1>2, <1>3, <2>1, <2>2, <2>3 DEF Derivation
<1>7. QED
  BY <1>2, <1>3, <1>5, <1>6

-----------------------------------------------------------------------------
(* The initial state                                                       *)

LEMMA InitialStack ==
  ASSUME TypeOK PROVE ThreadOK(InitialThread)
<1>1. /\ InitialThread.states = << 0 >> /\ InitialThread.slots = <<NullSlot>>
      /\ InitialThread.pos = 0 /\ Len(<< 0 >>) = 1 /\ Len(<<NullSlot>>) = 1
      /\ NullSlot \in Slot
  BY DEF InitialThread, NullSlot, Slot
<1>2. InitialThread \in ThreadType
  BY <1>1 DEF InitialThread, ThreadType
<1>3. StackType(<< 0 >>, <<NullSlot>>)
  BY <1>1 DEF StackType
<1>4. Run(<< 0 >>, <<NullSlot>>)
  BY <1>1 DEF Run
<1>5. Handles(<< 0 >>, <<NullSlot>>)
  <2>1. 0 \in DOMAIN automaton.items /\ \A it \in automaton.items[0] : it.dot = 0
    BY ItemFacts
  <2>2. QED
    BY <1>1, <2>1 DEF Handles, Handle
<1>6. EndAt(<<NullSlot>>, 1) = 0
  BY DEF EndAt
<1>7. QED
  BY <1>1, <1>2, <1>3, <1>4, <1>5, <1>6 DEF ThreadOK, Stack

LEMMA InitInv == Init => Inv
<1> SUFFICES ASSUME Init PROVE Inv
  OBVIOUS
<1> USE DEF Init
<1>1. InitialThread \in ThreadType
  BY DEF InitialThread, ThreadType, NullSlot, Slot
<1>2. /\ Range(threads) = {InitialThread} /\ Range(worklist) = {}
      /\ Range(out) = {} /\ Range(accepted) = {}
      /\ Range(bestNode) = {} /\ Range(nodeKey) = {} /\ DOMAIN nodeKey = {}
  BY DEF Range, EmptyTable
<1>3. TypeOK
  <2>1. threads \in Seq(ThreadType)
    BY <1>1
  <2>2. QED
    BY <1>2, <2>1 DEF TypeOK, Labels
<1>4. Sound(AllThreads)
  BY <1>2, <1>3, InitialStack DEF Sound, AllThreads
<1>5. NodesValid /\ TreesSound
  BY DEF NodesValid, TreesSound
<1>6. Positions
  <2>1. InitialThread.pos = 0 /\ Len(tokens) = 0
    BY DEF InitialThread
  <2>2. QED
    BY <1>2, <2>1 DEF Positions, At
<1>7. Cursors
  BY DEF Cursors
<1>8. Results
  BY <1>2 DEF Results, Final, At
<1>9. QED
  BY <1>3, <1>4, <1>5, <1>6, <1>7, <1>8 DEF Inv

-----------------------------------------------------------------------------
(* Steps that leave tokens and nodes alone                                 *)

LEMMA RangeAppend ==
  ASSUME NEW T, NEW s \in Seq(T), NEW x
  PROVE  Range(Append(s, x)) = Range(s) \cup {x}
<1>1. /\ DOMAIN Append(s, x) = 1..(Len(s) + 1) /\ DOMAIN s = 1..Len(s)
      /\ Len(s) \in Nat
      /\ \A k \in 1..Len(s) : Append(s, x)[k] = s[k]
      /\ Append(s, x)[Len(s) + 1] = x
  OBVIOUS
<1>2. QED
  BY <1>1 DEF Range

\* A step that makes no thread keeps them sound.
LEMMA ThreadsKept ==
  ASSUME Inv, TypeOK', Extends, AllThreads' \subseteq AllThreads
  PROVE  Sound(AllThreads)'
<1>1. PICK ts : ts = AllThreads
  OBVIOUS
<1>2. Sound(ts)
  BY <1>1 DEF Inv
<1>3. Sound(ts)'
  BY <1>2, SoundKept DEF Inv
<1>4. AllThreads' \subseteq ts
  BY <1>1
<1>5. QED
  BY <1>3, <1>4 DEF Sound

LEMMA QuietKept ==
  ASSUME Inv, TypeOK', UNCHANGED <<grammar, tokens, nodes>>,
         AllThreads' \subseteq AllThreads
  PROVE  Sound(AllThreads)' /\ NodesValid' /\ TreesSound'
<1>1. Extends
  BY DEF Extends, Inv, TypeOK
<1>2. QED
  BY <1>1, ThreadsKept, TreesKept DEF Inv

LEMMA RoundInv ==
  ASSUME Inv, Round PROVE Inv'
<1> USE DEF Round
<1>1. /\ Range(bestNode') = {} /\ Range(nodeKey') = {} /\ DOMAIN nodeKey' = {}
      /\ Range(out') = {}
  BY DEF Range, EmptyTable
<1>2. TypeOK'
  BY <1>1 DEF Inv, TypeOK, Labels
<1>3. AllThreads' \subseteq AllThreads
  BY <1>1 DEF AllThreads
<1>4. Positions'
  BY <1>1 DEF Inv, Positions, At
<1>5. Cursors'
  BY DEF Inv, Cursors
<1>6. Results'
  BY DEF Inv, Results, Final, At, Accepting, automaton
<1>7. QED
  BY <1>2, <1>3, <1>4, <1>5, <1>6, QuietKept DEF Inv

LEMMA SupersedeInv ==
  ASSUME Inv, Supersede PROVE Inv'
<1> USE DEF Supersede, Popping
<1>1. TypeOK'
  BY DEF Inv, TypeOK
<1>2. AllThreads' \subseteq AllThreads
  BY DEF AllThreads
<1>3. Positions'
  BY DEF Inv, Positions, At
<1>4. Cursors'
  BY DEF Inv, Cursors, TypeOK
<1>5. Results'
  BY DEF Inv, Results, Final, At, Accepting, automaton
<1>6. QED
  BY <1>1, <1>2, <1>3, <1>4, <1>5, QuietKept DEF Inv

LEMMA PopInv ==
  ASSUME Inv, Pop PROVE Inv'
<1> USE DEF Pop, Popping
<1>1. /\ cursor \in 1..Len(worklist) /\ worklist[cursor] \in ThreadType
      /\ worklist \in Seq(ThreadType) /\ out \in Seq(ThreadType)
      /\ worklist[cursor] \in Range(worklist)
  BY DEF Inv, TypeOK, Cursors, Range
<1>2. Range(out') = Range(out) \cup {worklist[cursor]} /\ out' \in Seq(ThreadType)
  BY <1>1, RangeAppend
<1>3. TypeOK'
  BY <1>2 DEF Inv, TypeOK, Labels
<1>4. AllThreads' \subseteq AllThreads
  BY <1>1, <1>2 DEF AllThreads
<1>5. Positions'
  BY <1>1, <1>2 DEF Inv, Positions, At
<1>6. Cursors'
  BY <1>1 DEF Inv, Cursors, TypeOK
<1>7. Results'
  BY DEF Inv, Results, Final, At, Accepting, automaton
<1>8. QED
  BY <1>3, <1>4, <1>5, <1>6, <1>7, QuietKept DEF Inv

LEMMA NoGotoInv ==
  ASSUME Inv, NoGoto PROVE Inv'
<1> USE DEF NoGoto, Reducing, Reduced
<1>1. TypeOK'
  BY DEF Inv, TypeOK, Labels
<1>2. AllThreads' \subseteq AllThreads
  BY DEF AllThreads
<1>3. Positions'
  BY DEF Inv, Positions, At
<1>4. Cursors'
  BY DEF Inv, Cursors, TypeOK
<1>5. Results'
  BY DEF Inv, Results, Final, At, Accepting, automaton
<1>6. QED
  BY <1>1, <1>2, <1>3, <1>4, <1>5, QuietKept DEF Inv

LEMMA AbortInv ==
  ASSUME Inv, Abort PROVE Inv'
<1> USE DEF Abort, Reducing
<1>1. TypeOK'
  BY DEF Inv, TypeOK, Labels
<1>2. AllThreads' \subseteq AllThreads
  BY DEF AllThreads
<1>3. Positions'
  BY DEF Inv, Positions, At
<1>4. Cursors'
  BY DEF Inv, Cursors, TypeOK
<1>5. Results'
  BY DEF Inv, Results, Final, At, Accepting, automaton
<1>6. QED
  BY <1>1, <1>2, <1>3, <1>4, <1>5, QuietKept DEF Inv

LEMMA AllTriedInv ==
  ASSUME Inv, AllTried PROVE Inv'
<1> USE DEF AllTried
<1>1. TypeOK'
  BY DEF Inv, TypeOK, Labels
<1>2. AllThreads' \subseteq AllThreads
  BY DEF AllThreads
<1>3. Positions'
  BY DEF Inv, Positions, At
<1>4. Cursors'
  BY DEF Inv, Cursors, TypeOK
<1>5. Results'
  BY DEF Inv, Results, Final, At, Accepting, automaton
<1>6. QED
  BY <1>1, <1>2, <1>3, <1>4, <1>5, QuietKept DEF Inv

LEMMA FixedPointInv ==
  ASSUME Inv, FixedPoint PROVE Inv'
<1> USE DEF FixedPoint
<1>1. Expected(out) \subseteq Terminals
  BY MoveSymbols DEF Inv, Expected
<1>2. TypeOK'
  BY <1>1 DEF Inv, TypeOK, Labels
<1>3. AllThreads' \subseteq AllThreads
  BY DEF AllThreads
<1>4. Positions'
  BY DEF Inv, Positions, At
<1>5. Cursors'
  BY DEF Inv, Cursors, TypeOK
<1>6. Results'
  BY DEF Inv, Results, Final, At, Accepting, automaton
<1>7. QED
  BY <1>2, <1>3, <1>4, <1>5, <1>6, QuietKept DEF Inv

LEMMA ScanNothingInv ==
  ASSUME Inv, ScanNothing PROVE Inv'
<1> USE DEF ScanNothing
<1>1. TypeOK'
  BY DEF Inv, TypeOK, Labels
<1>2. AllThreads' \subseteq AllThreads
  BY DEF AllThreads
<1>3. Positions'
  BY DEF Inv, Positions, At
<1>4. Cursors'
  BY DEF Inv, Cursors, TypeOK
<1>5. Results'
  BY DEF Inv, Results, Final, At, Accepting, automaton
<1>6. QED
  BY <1>1, <1>2, <1>3, <1>4, <1>5, QuietKept DEF Inv

LEMMA DropInv ==
  ASSUME Inv, Drop PROVE Inv'
<1> USE DEF Drop, Shifting, NextThread
<1>1. TypeOK'
  BY DEF Inv, TypeOK, Labels
<1>2. AllThreads' \subseteq AllThreads
  BY DEF AllThreads
<1>3. Positions'
  BY DEF Inv, Positions, At
<1>4. Cursors'
  BY DEF Inv, Cursors, TypeOK
<1>5. Results'
  BY DEF Inv, Results, Final, At, Accepting, automaton
<1>6. QED
  BY <1>1, <1>2, <1>3, <1>4, <1>5, QuietKept DEF Inv

LEMMA AllShiftedInv ==
  ASSUME Inv, AllShifted PROVE Inv'
<1> USE DEF AllShifted
<1>1. TypeOK'
  BY DEF Inv, TypeOK, Labels
<1>2. AllThreads' \subseteq AllThreads
  BY DEF AllThreads
<1>3. Positions'
  BY DEF Inv, Positions, At
<1>4. Cursors'
  BY DEF Inv, Cursors, TypeOK
<1>5. Results'
  BY DEF Inv, Results, Final, At, Accepting, automaton
<1>6. QED
  BY <1>1, <1>2, <1>3, <1>4, <1>5, QuietKept DEF Inv

LEMMA FinishInv ==
  ASSUME Inv, Finish PROVE Inv'
<1> USE DEF Finish
<1>1. Range(out') = {}
  BY DEF Range
<1>2. TypeOK'
  BY DEF Inv, TypeOK, Labels
<1>3. AllThreads' \subseteq AllThreads
  BY <1>1 DEF AllThreads
<1>4. Positions'
  BY <1>1 DEF Inv, Positions, At
<1>5. Cursors'
  BY DEF Inv, Cursors, TypeOK
<1>6. Results'
  BY <1>1 DEF Inv, Results, Final, At, Accepting, automaton
<1>7. QED
  BY <1>2, <1>3, <1>4, <1>5, <1>6, QuietKept DEF Inv

LEMMA AcceptInv ==
  ASSUME Inv, Accept PROVE Inv'
<1> USE DEF Accept, Collecting, NextThread
<1>1. /\ cursor \in 1..Len(threads) /\ threads[cursor] \in ThreadType
      /\ threads \in Seq(ThreadType) /\ out \in Seq(ThreadType)
      /\ threads[cursor] \in Range(threads)
  BY DEF Inv, TypeOK, Cursors, Range
<1>2. Range(out') = Range(out) \cup {threads[cursor]} /\ out' \in Seq(ThreadType)
  BY <1>1, RangeAppend
<1>3. TypeOK'
  BY <1>2 DEF Inv, TypeOK, Labels
<1>4. AllThreads' \subseteq AllThreads
  BY <1>1, <1>2 DEF AllThreads
<1>5. Positions'
  BY <1>1, <1>2 DEF Inv, Positions, At
<1>6. Cursors'
  BY DEF Inv, Cursors, TypeOK
<1>7. Results'
  BY <1>2 DEF Inv, Results, Final, At, Accepting, automaton
<1>8. QED
  BY <1>3, <1>4, <1>5, <1>6, <1>7, QuietKept DEF Inv

LEMMA RejectInv ==
  ASSUME Inv, Reject PROVE Inv'
<1> USE DEF Reject, Collecting, NextThread
<1>1. TypeOK'
  BY DEF Inv, TypeOK, Labels
<1>2. AllThreads' \subseteq AllThreads
  BY DEF AllThreads
<1>3. Positions'
  BY DEF Inv, Positions, At
<1>4. Cursors'
  BY DEF Inv, Cursors, TypeOK
<1>5. Results'
  BY DEF Inv, Results, Final, At, Accepting, automaton
<1>6. QED
  BY <1>1, <1>2, <1>3, <1>4, <1>5, QuietKept DEF Inv

LEMMA CollectedInv ==
  ASSUME Inv, Collected PROVE Inv'
<1> USE DEF Collected
<1>1. TypeOK'
  BY DEF Inv, TypeOK, Labels
<1>2. AllThreads' \subseteq AllThreads
  BY DEF AllThreads
<1>3. Positions'
  BY DEF Inv, Positions, At
<1>4. Cursors'
  BY DEF Inv, Cursors, TypeOK
<1>5. Results'
  BY DEF Inv, Results, Positions, Final, At, Accepting, automaton
<1>6. QED
  BY <1>1, <1>2, <1>3, <1>4, <1>5, QuietKept DEF Inv

-----------------------------------------------------------------------------
(* The steps that scan and shift                                           *)

LEMMA ScanTokenInv ==
  ASSUME Inv, NEW type \in Terminals, ScanToken(type) PROVE Inv'
<1> USE DEF ScanToken
<1>1. /\ tokens' \in Seq(Terminals) /\ tokens' # << >>
      /\ Len(tokens) \in Nat /\ Len(tokens') = Len(tokens) + 1
      /\ \A i \in 1..Len(tokens) : tokens'[i] = tokens[i]
  BY DEF Inv, TypeOK
<1>2. Range(out') = {}
  BY DEF Range
<1>3. TypeOK'
  BY <1>1 DEF Inv, TypeOK, Labels
<1>4. Extends
  <2>1. Len(nodes) \in Nat
    BY DEF Inv, TypeOK
  <2>2. QED
    BY <1>1, <2>1 DEF Extends
<1>5. AllThreads' \subseteq AllThreads
  BY <1>2 DEF AllThreads
<1>6. Positions'
  <2>1. Len(tokens') - 1 = Len(tokens)
    BY <1>1
  <2>2. QED
    BY <1>1, <1>2, <2>1 DEF Inv, Positions, At
<1>7. Cursors'
  BY DEF Inv, Cursors
<1>8. Results'
  BY DEF Inv, Results, Final, At, Accepting, automaton
<1>9. QED
  BY <1>3, <1>4, <1>5, <1>6, <1>7, <1>8, ThreadsKept, TreesKept DEF Inv

\* A shift pushes the last token.
LEMMA ShiftedSound ==
  ASSUME TypeOK, NEW th, ThreadOK(th), tokens # << >>, th.pos = Len(tokens) - 1,
         CanShift(th)
  PROVE  ThreadOK(AfterShift(th)) /\ AfterShift(th).pos = Len(tokens)
<1>1. PICK n \in Nat \ {0} : n = Len(tokens)
  BY DEF TypeOK
<1>2. PICK x \in Terminals : x = tokens[n]
  BY <1>1 DEF TypeOK
<1>3. Last(tokens) = x
  BY <1>1, <1>2 DEF Last
<1>4. PICK slot \in Slot : slot = TokenSlot(n - 1)
  <2>1. n - 1 \in Nat
    BY <1>1
  <2>2. TokenSlot(n - 1) \in Slot
    BY <2>1 DEF Slot, TokenSlot
  <2>3. QED
    BY <2>2
<1>5. /\ Valid(slot) /\ SymbolAt(slot) = x
      /\ Begin(slot) = n - 1 /\ End(slot) = n
  BY <1>1, <1>2, <1>4 DEF TokenSlot, Valid, SymbolAt, Begin, End
<1>6. /\ Stack(th.states, th.slots) /\ th.pos = EndAt(th.slots, Len(th.slots))
      /\ Len(th.slots) = Len(th.states) /\ Len(th.states) \in Nat \ {0}
      /\ th.states \in Seq(Nat) /\ th.slots \in Seq(Slot)
  BY DEF ThreadOK, Stack, StackType
<1>7. PICK to : to = ShiftsAt(Top(th))[x]
  OBVIOUS
<1>8. Move(th.states[Len(th.states)], slot, to)
  BY <1>3, <1>5, <1>7 DEF Move, Moves, CanShift, Top, Depth
<1>9. /\ Stack(Append(th.states, to), Append(th.slots, slot))
      /\ EndAt(Append(th.slots, slot), Len(th.slots) + 1) = n
  <2>1. Begin(slot) = EndAt(th.slots, Len(th.slots))
    BY <1>1, <1>5, <1>6
  <2>2. PICK states, slots : states = th.states /\ slots = th.slots
    OBVIOUS
  <2>3. /\ Stack(states, slots) /\ Begin(slot) = EndAt(slots, Len(slots))
        /\ Valid(slot) /\ Move(states[Len(states)], slot, to)
    BY <1>5, <1>6, <1>8, <2>1, <2>2
  <2>4. /\ Stack(Append(states, to), Append(slots, slot))
        /\ EndAt(Append(slots, slot), Len(slots) + 1) = End(slot)
    BY <2>3, StackMoved
  <2>5. QED
    BY <1>5, <2>2, <2>4
<1>10. AfterShift(th) = [states |-> Append(th.states, to),
                         slots |-> Append(th.slots, slot), pos |-> n]
  BY <1>1, <1>3, <1>4, <1>7 DEF AfterShift, Shifted
<1>11. /\ Len(Append(th.slots, slot)) = Len(th.slots) + 1
       /\ Append(th.slots, slot) \in Seq(Slot)
       /\ Append(th.states, to) \in Seq(Nat)
  BY <1>6, <1>9 DEF Stack, StackType
<1>12. QED
  BY <1>1, <1>9, <1>10, <1>11 DEF ThreadOK, ThreadType

LEMMA ShiftInv ==
  ASSUME Inv, Shift PROVE Inv'
<1> USE DEF Shift, Shifting, NextThread
<1>1. PICK th \in Range(threads) : th = threads[cursor]
  BY DEF Inv, TypeOK, Cursors, Range
<1>2. PICK new : new = AfterShift(th)
  OBVIOUS
<1>3. ThreadOK(th) /\ tokens # << >> /\ th.pos = Len(tokens) - 1 /\ CanShift(th)
  BY <1>1 DEF Inv, Sound, AllThreads, Positions, At
<1>4. ThreadOK(new) /\ new.pos = Len(tokens)
  BY <1>2, <1>3, ShiftedSound DEF Inv
<1>5. out \in Seq(ThreadType) /\ out' = Append(out, new) /\ new \in ThreadType
  BY <1>1, <1>2, <1>4 DEF Inv, TypeOK, ThreadOK
<1>6. Range(out') = Range(out) \cup {new} /\ out' \in Seq(ThreadType)
  BY <1>5, RangeAppend
<1>7. TypeOK'
  BY <1>6 DEF Inv, TypeOK
<1>8. Extends
  BY DEF Extends, Inv, TypeOK
<1>9. Sound(AllThreads)'
  <2>1. PICK ts : ts = AllThreads \cup {new}
    OBVIOUS
  <2>2. Sound(ts)
    BY <1>4, <2>1 DEF Inv, Sound
  <2>3. Sound(ts)'
    BY <1>7, <1>8, <2>2, SoundKept DEF Inv
  <2>4. AllThreads' \subseteq ts
    BY <1>6, <2>1 DEF AllThreads
  <2>5. QED
    BY <2>3, <2>4 DEF Sound
<1>10. Positions'
  BY <1>4, <1>6 DEF Inv, Positions, At
<1>11. Cursors'
  BY DEF Inv, Cursors, TypeOK
<1>12. Results'
  BY DEF Inv, Results, Final, At, Accepting, automaton
<1>13. QED
  BY <1>7, <1>8, <1>9, <1>10, <1>11, <1>12, TreesKept DEF Inv

-----------------------------------------------------------------------------
(* The steps that reduce                                                   *)

\* The thread and the reduction of a step, rigid.
LEMMA ReducingFacts ==
  ASSUME Inv, Reducing
  PROVE  \E th \in Range(worklist), r \in Reductions :
           /\ th = Thread /\ r = Reduction
           /\ ThreadOK(th) /\ th.pos = Len(tokens)
           /\ Completes(grammar, Top(th), r)
           /\ NewNode = NodeOf(th, r) /\ Below = Base(th, r.length)
<1>1. PICK th \in Range(worklist) : th = Thread
  BY DEF Inv, Cursors, Reducing, Thread, Range
<1>2. PICK s : s = Top(th)
  OBVIOUS
<1>3. PICK k \in Nat : k = reduction
  BY DEF Inv, TypeOK
<1>4. k > 0 /\ k <= Len(ReductionsAt(s))
  BY <1>1, <1>2, <1>3 DEF Inv, Cursors, Reducing
<1>5. Len(ReductionsAt(s)) \in Nat
  <2>1. CASE s \in DOMAIN automaton.reduces
    <3>1. automaton.reduces[s] \in Seq(Reductions)
      BY <2>1, AutomatonAssumption DEF automaton, Inv, TypeOK
    <3>2. QED
      BY <2>1, <3>1 DEF ReductionsAt
  <2>2. CASE s \notin DOMAIN automaton.reduces
    BY <2>2 DEF ReductionsAt
  <2>3. QED
    BY <2>1, <2>2
<1>6. k \in 1..Len(ReductionsAt(s))
  BY <1>4, <1>5
<1>7. /\ ReductionsAt(s)[k] \in Reductions
      /\ Completes(grammar, s, ReductionsAt(s)[k])
  BY <1>6, ReductionFacts DEF Inv
<1>8. PICK r \in Reductions : r = ReductionsAt(s)[k]
  BY <1>7
<1>9. r = Reduction
  BY <1>1, <1>2, <1>3, <1>8 DEF Reduction
<1>10. ThreadOK(th)
  BY <1>1 DEF Inv, Sound, AllThreads
<1>11. th.pos = Len(tokens)
  BY <1>1 DEF Inv, Positions, At, Reducing
<1>12. NewNode = NodeOf(th, r) /\ Below = Base(th, r.length)
  BY <1>1, <1>9 DEF NewNode, NodeOf, Below
<1>13. QED
  BY <1>1, <1>2, <1>7, <1>8, <1>9, <1>10, <1>11, <1>12

\* What is left of the thread is a stack, over the tokens before the node.
LEMMA BaseSound ==
  ASSUME TypeOK, NEW th, ThreadOK(th),
         NEW r \in Reductions, Completes(grammar, Top(th), r)
  PROVE  /\ Stack(Base(th, r.length).states, Base(th, r.length).slots)
         /\ Base(th, r.length).pos = th.pos
         /\ EndAt(Base(th, r.length).slots, Len(Base(th, r.length).slots))
              = NodeOf(th, r).start
<1>1. PICK m \in 1..Len(th.states) : m = Depth(th) - r.length
  BY HandleTaken DEF Depth
<1>2. Stack(th.states, th.slots)
  BY DEF ThreadOK
<1>3. /\ Stack(SubSeq(th.states, 1, m), SubSeq(th.slots, 1, m))
      /\ Len(SubSeq(th.slots, 1, m)) = m
      /\ EndAt(SubSeq(th.slots, 1, m), m) = EndAt(th.slots, m)
  BY <1>2, StackBase
<1>4. Base(th, r.length) = [states |-> SubSeq(th.states, 1, m),
                            slots |-> SubSeq(th.slots, 1, m), pos |-> th.pos]
  BY <1>1 DEF Base
<1>5. NodeOf(th, r).start = EndAt(th.slots, m)
  BY <1>1, NodeMade
<1>6. QED
  BY <1>3, <1>4, <1>5

\* The end of a stack stays when nodes are appended.
LEMMA EndKept ==
  ASSUME TypeOK, TypeOK', Extends, NEW states, NEW slots, Stack(states, slots)
  PROVE  EndAt(slots, Len(slots))' = EndAt(slots, Len(slots))
<1>1. PICK d \in Nat \ {0} : d = Len(slots) /\ d = Len(states)
  BY DEF Stack, StackType
<1>2. CASE d = 1
  BY <1>1, <1>2 DEF EndAt
<1>3. CASE d # 1
  <2>1. d \in 2..d /\ d \in 1..d
    BY <1>3
  <2>2. slots[d] \in Slot /\ Valid(slots[d])
    BY <1>1, <2>1 DEF Stack, StackType, Run
  <2>3. End(slots[d])' = End(slots[d])
    BY <2>2, SlotKept
  <2>4. QED
    BY <1>1, <1>3, <2>3 DEF EndAt
<1>4. QED
  BY <1>2, <1>3

\* The state after a reduction is a number.
LEMMA GotoFollows ==
  ASSUME TypeOK, NEW s, NEW x, x \in DOMAIN GotosAt(s)
  PROVE  GotosAt(s)[x] \in Nat /\ x \in Names /\ Moves(s, x) = GotosAt(s)
<1>1. x \in Names
  BY MoveSymbols
<1>2. x \notin Terminals
  BY <1>1, GrammarAssumption
<1>3. Moves(s, x) = GotosAt(s)
  BY <1>2 DEF Moves
<1>4. Follows(grammar, s, x, GotosAt(s)[x])
  BY <1>3, MoveFollows
<1>5. QED
  BY <1>1, <1>3, <1>4, ItemFacts DEF Follows, automaton

\* A node is appended to the arena.
LEMMA ArenaExtended ==
  ASSUME Inv, NEW node \in Node, UNCHANGED <<grammar, tokens>>,
         nodes' = Append(nodes, node)
  PROVE  /\ Extends /\ nodes' \in Seq(Node) /\ DOMAIN nodes \subseteq DOMAIN nodes'
         /\ Len(nodes) \in Nat /\ Len(nodes') = Len(nodes) + 1
         /\ Len(nodes) + 1 \in DOMAIN nodes' /\ nodes'[Len(nodes) + 1] = node
<1>1. nodes \in Seq(Node) /\ Len(nodes) \in Nat /\ Len(tokens) \in Nat
  BY DEF Inv, TypeOK
<1>2. /\ nodes' \in Seq(Node) /\ Len(nodes') = Len(nodes) + 1
      /\ DOMAIN nodes' = 1..(Len(nodes) + 1) /\ DOMAIN nodes = 1..Len(nodes)
      /\ \A i \in 1..Len(nodes) : nodes'[i] = nodes[i]
      /\ nodes'[Len(nodes) + 1] = node
  BY <1>1
<1>3. QED
  BY <1>1, <1>2 DEF Extends

\* Thread th is reduced by r: it leaves b, which goes to a state with the node,
\* the n-th.
Reduces(th, r, b, node, to, n) ==
  /\ ThreadOK(th) /\ th.pos = Len(tokens)
  /\ r \in Reductions /\ Completes(grammar, Top(th), r)
  /\ b = Base(th, r.length)
  /\ node = NodeOf(th, r)
  /\ r.rule \in DOMAIN GotosAt(Top(b)) /\ to = GotosAt(Top(b))[r.rule]
  /\ n = Len(nodes) + 1

\* The thread pushed with the new node is a run, over the same tokens.
LEMMA PushedSound ==
  ASSUME Inv, TypeOK', NEW th, NEW r, NEW b, NEW node, NEW to, NEW n,
         Reduces(th, r, b, node, to, n),
         UNCHANGED <<grammar, tokens>>, nodes' = Append(nodes, node)
  PROVE  ThreadOK(Pushed(b, to, n))' /\ Pushed(b, to, n).pos = Len(tokens)
<1> USE DEF Reduces
<1>1. TypeOK
  BY DEF Inv
<1>2. node \in Node /\ node.rule = r.rule /\ node.end = th.pos
  BY <1>1, NodeMade DEF NodeOf
<1>3. /\ Extends /\ n \in DOMAIN nodes' /\ nodes'[n] = node /\ n \in Nat
  BY <1>2, ArenaExtended
<1>4. /\ Stack(b.states, b.slots) /\ b.pos = th.pos
      /\ EndAt(b.slots, Len(b.slots)) = node.start
  BY <1>1, BaseSound
<1>5. Stack(b.states, b.slots)'
  BY <1>1, <1>3, <1>4, StackKept
<1>6. EndAt(b.slots, Len(b.slots))' = node.start
  BY <1>1, <1>3, <1>4, EndKept
<1>7. PICK slot \in Slot : slot = NodeSlot(n)
  BY <1>3 DEF Slot, NodeSlot
<1>8. /\ Valid(slot)' /\ SymbolAt(slot)' = r.rule
      /\ Begin(slot)' = node.start /\ End(slot)' = th.pos
  BY <1>2, <1>3, <1>7 DEF NodeSlot, Valid, SymbolAt, Begin, End
<1>9. PICK s : s = Top(b)
  OBVIOUS
<1>10. s = b.states[Len(b.states)]
  BY <1>9 DEF Top, Depth
<1>11. /\ Moves(s, r.rule) = GotosAt(s) /\ r.rule \in DOMAIN GotosAt(s)
       /\ to = GotosAt(s)[r.rule]
  BY <1>1, <1>9, GotoFollows
<1>12. Moves(s, r.rule)' = Moves(s, r.rule)
  BY DEF Moves, ShiftsAt, GotosAt, automaton
<1>13. Move(s, slot, to)'
  BY <1>8, <1>11, <1>12 DEF Move
<1>14. CanMove(b.states, b.slots, slot, to)'
  BY <1>5, <1>6, <1>7, <1>8, <1>10, <1>13 DEF CanMove
<1>15. /\ Stack(Append(b.states, to), Append(b.slots, slot))'
       /\ EndAt(Append(b.slots, slot), Len(b.slots) + 1)' = End(slot)'
  BY <1>14, NextMoveSound DEF MovesSound
<1>16. PICK st \in Seq(Nat), sl \in Seq(Slot) :
         /\ st = Append(b.states, to) /\ sl = Append(b.slots, slot)
         /\ Len(sl) = Len(b.slots) + 1
  <2>1. b.slots \in Seq(Slot)
    BY <1>4 DEF Stack, StackType
  <2>2. Append(b.slots, slot) \in Seq(Slot) /\ Append(b.states, to) \in Seq(Nat)
    BY <1>15 DEF Stack, StackType
  <2>3. Len(Append(b.slots, slot)) = Len(b.slots) + 1
    BY <2>1
  <2>4. QED
    BY <2>2, <2>3
<1>17. PICK p \in ThreadType :
         /\ p = Pushed(b, to, n)
         /\ p.states = st /\ p.slots = sl /\ p.pos = th.pos
  <2>1. th.pos \in Nat
    BY DEF ThreadOK, ThreadType
  <2>2. [states |-> st, slots |-> sl, pos |-> th.pos] \in ThreadType
    BY <2>1 DEF ThreadType
  <2>3. Pushed(b, to, n) = [states |-> st, slots |-> sl, pos |-> th.pos]
    BY <1>4, <1>7, <1>16 DEF Pushed
  <2>4. QED
    BY <2>2, <2>3
<1>18. Stack(st, sl)' /\ EndAt(sl, Len(sl))' = th.pos
  BY <1>8, <1>15, <1>16
<1>19. ThreadOK(p)'
  BY <1>17, <1>18 DEF ThreadOK, ThreadType, Slot
<1>20. QED
  BY <1>17, <1>19

\* The derivations, with the new one.
LEMMA TreesGrown ==
  ASSUME Inv, TypeOK', NEW node \in Node, Derivation(node, Len(nodes) + 1),
         UNCHANGED <<grammar, tokens>>, nodes' = Append(nodes, node)
  PROVE  NodesValid' /\ TreesSound'
<1>1. PICK arena, n : arena = nodes /\ n = Len(nodes) + 1
  OBVIOUS
<1>2. Extends /\ n \in DOMAIN nodes' /\ nodes'[n] = node /\ TypeOK
  BY <1>1, ArenaExtended DEF Inv
<1>3. \A i \in DOMAIN arena : arena[i] \in Node /\ Derivation(arena[i], i)
  BY <1>1, DerivesAll DEF Inv, TypeOK
<1>4. ASSUME NEW i \in DOMAIN arena
      PROVE  Derivation(arena[i], i)'
  BY <1>2, <1>3, DerivesKept
<1>5. Derivation(node, n)'
  BY <1>1, <1>2, DerivesKept
<1>6. /\ DOMAIN nodes' = DOMAIN arena \cup {n}
      /\ \A i \in DOMAIN arena : nodes'[i] = arena[i]
  <2>1. PICK k \in Nat : k = Len(arena) /\ DOMAIN arena = 1..k
    BY <1>1, <1>2 DEF TypeOK
  <2>2. n = k + 1 /\ DOMAIN nodes' = 1..(k + 1)
    BY <1>1, <2>1 DEF Inv, TypeOK
  <2>3. \A i \in 1..k : nodes'[i] = arena[i]
    BY <1>1, <1>2, <2>1 DEF Extends
  <2>4. QED
    BY <2>1, <2>2, <2>3
<1>7. (\A i \in DOMAIN nodes : Derivation(nodes[i], i))'
  <2>1. SUFFICES ASSUME NEW i \in DOMAIN nodes'
                 PROVE  Derivation(nodes[i], i)'
    OBVIOUS
  <2>2. CASE i \in DOMAIN arena
    BY <1>4, <1>6, <2>2
  <2>3. CASE i = n
    BY <1>2, <1>5, <2>3
  <2>4. QED
    BY <1>6, <2>2, <2>3
<1>8. QED
  BY <1>7, NextDerivesAll

\* The node, the thread left of the reduction and the state it goes to, rigid.
LEMMA AllocateFacts ==
  ASSUME Inv, Allocate
  PROVE  \E th, r, b, node, to, n :
           /\ Reduces(th, r, b, node, to, n)
           /\ b = Below /\ to = Goto /\ nodes' = Append(nodes, node)
           /\ node \in Node /\ Derivation(node, n)
           /\ Pushed(b, to, n) \in ThreadType
<1>1. PICK th \in Range(worklist), r \in Reductions :
        /\ th = Thread /\ r = Reduction
        /\ ThreadOK(th) /\ th.pos = Len(tokens)
        /\ Completes(grammar, Top(th), r)
        /\ NewNode = NodeOf(th, r) /\ Below = Base(th, r.length)
  BY ReducingFacts DEF Allocate
<1>2. TypeOK
  BY DEF Inv
<1>3. PICK node \in Node : node = NodeOf(th, r)
  BY <1>1, <1>2, NodeMade
<1>4. PICK n \in Nat : n = Len(nodes) + 1
  BY <1>2 DEF TypeOK
<1>5. Derivation(node, n)
  BY <1>1, <1>2, <1>3, <1>4, NodeMade
<1>6. PICK b : b = Base(th, r.length)
  OBVIOUS
<1>7. PICK s : s = Top(b)
  OBVIOUS
<1>8. r.rule \in DOMAIN GotosAt(s)
  BY <1>1, <1>6, <1>7 DEF Allocate
<1>9. PICK to \in Nat : to = GotosAt(s)[r.rule]
  BY <1>2, <1>8, GotoFollows
<1>10. to = Goto
  BY <1>1, <1>6, <1>7, <1>9 DEF Goto
<1>11. nodes' = Append(nodes, node)
  BY <1>1, <1>3 DEF Allocate
<1>12. Pushed(b, to, n) \in ThreadType
  <2>1. /\ Stack(b.states, b.slots) /\ b.pos = th.pos
    BY <1>1, <1>2, <1>6, BaseSound
  <2>2. b.states \in Seq(Nat) /\ b.slots \in Seq(Slot)
    BY <2>1 DEF Stack, StackType
  <2>3. NodeSlot(n) \in Slot
    BY DEF NodeSlot, Slot
  <2>4. Append(b.states, to) \in Seq(Nat) /\ Append(b.slots, NodeSlot(n)) \in Seq(Slot)
    BY <2>2, <2>3
  <2>5. th.pos \in Nat
    BY <1>1 DEF ThreadOK, ThreadType
  <2>6. Pushed(b, to, n) = [states |-> Append(b.states, to),
                            slots |-> Append(b.slots, NodeSlot(n)), pos |-> th.pos]
    BY <2>1 DEF Pushed
  <2>7. QED
    BY <2>4, <2>5, <2>6 DEF ThreadType
<1>13. Reduces(th, r, b, node, to, n)
  BY <1>1, <1>3, <1>4, <1>6, <1>7, <1>8, <1>9 DEF Reduces
<1>14. QED
  BY <1>1, <1>3, <1>5, <1>6, <1>10, <1>11, <1>12, <1>13

\* The tables of reduce refer to nodes in the arena, with the new one or not.
LEMMA TablesKept ==
  ASSUME Inv, DOMAIN nodes \subseteq DOMAIN nodes', Len(nodes) + 1 \in DOMAIN nodes',
         Record \/ UNCHANGED <<bestNode, nodeKey>>
  PROVE  /\ Range(bestNode') \cup DOMAIN nodeKey' \subseteq DOMAIN nodes'
         /\ Range(nodeKey') \subseteq DOMAIN bestNode'
<1>1. /\ Range(bestNode) \cup DOMAIN nodeKey \subseteq DOMAIN nodes
      /\ Range(nodeKey) \subseteq DOMAIN bestNode
  BY DEF Inv, TypeOK
<1>2. ASSUME NEW table, NEW key, NEW value
      PROVE  /\ DOMAIN Put(table, key, value) = DOMAIN table \cup {key}
             /\ Range(Put(table, key, value)) \subseteq Range(table) \cup {value}
  BY DEF Put, Range
<1>3. CASE Record
  <2>1. PICK key, n : key = Key /\ n = Len(nodes) + 1
    OBVIOUS
  <2>2. bestNode' = Put(bestNode, key, n) /\ nodeKey' = Put(nodeKey, n, key)
    BY <1>3, <2>1 DEF Record
  <2>3. /\ DOMAIN bestNode' = DOMAIN bestNode \cup {key}
        /\ Range(bestNode') \subseteq Range(bestNode) \cup {n}
        /\ DOMAIN nodeKey' = DOMAIN nodeKey \cup {n}
        /\ Range(nodeKey') \subseteq Range(nodeKey) \cup {key}
    BY <1>2, <2>2
  <2>4. QED
    BY <1>1, <2>1, <2>3
<1>4. CASE UNCHANGED <<bestNode, nodeKey>>
  BY <1>1, <1>4
<1>5. QED
  BY <1>3, <1>4

\* A reduction whose node is recorded or not, and whose thread goes on or not.
LEMMA AllocateInv ==
  ASSUME Inv, Allocate, Record \/ UNCHANGED <<bestNode, nodeKey>>,
         Propagate \/ UNCHANGED worklist
  PROVE  Inv'
<1> USE DEF Allocate, Reducing, Reduced
<1>1. PICK th, r, b, node, to, n :
        /\ Reduces(th, r, b, node, to, n)
        /\ b = Below /\ to = Goto /\ nodes' = Append(nodes, node)
        /\ node \in Node /\ Derivation(node, n)
        /\ Pushed(b, to, n) \in ThreadType
  BY AllocateFacts
<1>2. PICK new \in ThreadType : new = Pushed(b, to, n)
  BY <1>1
<1>3. /\ Extends /\ nodes' \in Seq(Node) /\ DOMAIN nodes \subseteq DOMAIN nodes'
      /\ Len(nodes) + 1 \in DOMAIN nodes'
  BY <1>1, ArenaExtended
<1>4. /\ Range(bestNode') \cup DOMAIN nodeKey' \subseteq DOMAIN nodes'
      /\ Range(nodeKey') \subseteq DOMAIN bestNode'
  BY <1>3, TablesKept
<1>5. /\ worklist' \in Seq(ThreadType)
      /\ Range(worklist') \subseteq Range(worklist) \cup {new}
      /\ DOMAIN worklist \subseteq DOMAIN worklist'
  <2>1. worklist \in Seq(ThreadType)
    BY DEF Inv, TypeOK
  <2>2. CASE Propagate
    <3>1. worklist' = Append(worklist, new)
      BY <1>1, <1>2, <2>2 DEF Propagate, Reduces
    <3>2. QED
      BY <2>1, <3>1, RangeAppend
  <2>3. CASE UNCHANGED worklist
    BY <2>1, <2>3
  <2>4. QED
    BY <2>2, <2>3
<1>6. TypeOK'
  BY <1>3, <1>4, <1>5 DEF Inv, TypeOK
<1>7. NodesValid' /\ TreesSound'
  BY <1>1, <1>6, TreesGrown DEF Reduces
<1>8. ThreadOK(new)' /\ new.pos = Len(tokens)
  BY <1>1, <1>2, <1>6, PushedSound
<1>9. Sound(AllThreads)'
  <2>1. PICK ts : ts = AllThreads
    OBVIOUS
  <2>2. Sound(ts)
    BY <2>1 DEF Inv
  <2>3. Sound(ts)'
    BY <1>3, <1>6, <2>2, SoundKept DEF Inv
  <2>4. AllThreads' \subseteq ts \cup {new}
    BY <1>5, <2>1 DEF AllThreads
  <2>5. QED
    BY <1>8, <2>3, <2>4 DEF Sound
<1>10. Positions'
  BY <1>5, <1>8 DEF Inv, Positions, At
<1>11. Cursors'
  BY <1>5 DEF Inv, Cursors, TypeOK
<1>12. Results'
  BY DEF Inv, Results, Final, At, Accepting, automaton
<1>13. QED
  BY <1>6, <1>7, <1>9, <1>10, <1>11, <1>12 DEF Inv

-----------------------------------------------------------------------------
(* The theorems                                                            *)

LEMMA NextInv == Inv /\ [Next]_vars => Inv'
<1> SUFFICES ASSUME Inv, [Next]_vars PROVE Inv'
  OBVIOUS
<1>1. CASE Reduce
  <2>1. CASE ReduceFirst
    BY <2>1, AllocateInv DEF ReduceFirst
  <2>2. CASE ReduceLoses
    BY <2>2, AllocateInv DEF ReduceLoses
  <2>3. CASE ReduceTies
    BY <2>3, AllocateInv DEF ReduceTies
  <2>4. CASE ReduceWins
    BY <2>4, AllocateInv DEF ReduceWins
  <2>5. QED
    BY <1>1, <2>1, <2>2, <2>3, <2>4, NoGotoInv, AbortInv DEF Reduce
<1>2. CASE UNCHANGED vars
  <2>1. TypeOK'
    BY <1>2 DEF Inv, TypeOK, vars
  <2>2. AllThreads' \subseteq AllThreads
    BY <1>2 DEF AllThreads, vars
  <2>3. Sound(AllThreads)' /\ NodesValid' /\ TreesSound'
    BY <1>2, <2>1, <2>2, QuietKept DEF vars
  <2>4. Positions' /\ Cursors'
    BY <1>2 DEF Inv, Positions, Cursors, At, vars
  <2>5. Results'
    BY <1>2 DEF Inv, Results, Final, At, Accepting, automaton, vars
  <2>6. QED
    BY <2>1, <2>3, <2>4, <2>5 DEF Inv
<1>3. QED
  BY <1>1, <1>2, RoundInv, SupersedeInv, PopInv, AllTriedInv, FixedPointInv,
     ScanTokenInv, ScanNothingInv, ShiftInv, DropInv, AllShiftedInv, FinishInv,
     AcceptInv, RejectInv, CollectedInv DEF Next

\* Every reachable state of the constructor satisfies the inductive invariant.
THEOREM Invariance == Spec => []Inv
BY InitInv, NextInv, PTL DEF Spec


\* The slots above the bottom of a stack cover the tokens consumed.
LEMMA StackCovers ==
  ASSUME NEW states, NEW slots, Stack(states, slots)
  PROVE  Covers(Tail(slots), 0, EndAt(slots, Len(slots)))
<1>1. PICK d \in Nat \ {0} : d = Len(slots) /\ d = Len(states)
  BY DEF Stack, StackType
<1>2. slots \in Seq(Slot) /\ slots # << >> /\ Run(states, slots)
  BY <1>1 DEF Stack, StackType
<1>3. /\ Tail(slots) \in Seq(Slot) /\ Len(Tail(slots)) = d - 1
      /\ \A k \in 1..(d - 1) : Tail(slots)[k] = slots[k + 1]
  BY <1>1, <1>2, HeadTailProperties
<1>4. PICK c \in Seq(Slot) : c = Tail(slots)
  BY <1>3
<1>5. CASE d = 1
  <2>1. c = << >>
    BY <1>3, <1>4, <1>5
  <2>2. QED
    BY <1>1, <1>4, <1>5, <2>1 DEF Covers, EndAt
<1>6. CASE d # 1
  <2>1. PICK e \in Nat \ {0} : e = d - 1
    BY <1>6
  <2>2. /\ Len(c) = e /\ c # << >> /\ Head(c) = c[1] /\ Last(c) = c[e]
        /\ \A k \in 1..e : c[k] = slots[k + 1]
    BY <1>3, <1>4, <2>1 DEF Last
  <2>3. c[1] = slots[2] /\ c[e] = slots[d] /\ 2 \in 2..d
    <3>1. 1 \in 1..e /\ e \in 1..e /\ e + 1 = d /\ 1 + 1 = 2 /\ 2 \in 2..d
      BY <2>1
    <3>2. QED
      BY <2>2, <3>1
  <2>4. Begin(c[1]) = 0
    <3>1. Begin(slots[2]) = EndAt(slots, 2 - 1)
      BY <1>1, <1>2, <2>3 DEF Run
    <3>2. EndAt(slots, 2 - 1) = 0
      BY DEF EndAt
    <3>3. QED
      BY <2>3, <3>1, <3>2
  <2>5. End(c[e]) = EndAt(slots, d)
    BY <1>6, <2>3 DEF EndAt
  <2>6. ASSUME NEW k \in 2..e
        PROVE  Begin(c[k]) = End(c[k - 1])
    <3>1. PICK j \in 2..e : j = k
      OBVIOUS
    <3>2. /\ c[j] = slots[j + 1] /\ c[j - 1] = slots[j]
      <4>1. j \in 1..e /\ j - 1 \in 1..e /\ (j - 1) + 1 = j
        OBVIOUS
      <4>2. QED
        BY <2>2, <4>1
    <3>3. j + 1 \in 2..d /\ (j + 1) - 1 = j /\ j # 1
      BY <2>1
    <3>4. Begin(slots[j + 1]) = EndAt(slots, j)
      <4>1. Begin(slots[j + 1]) = EndAt(slots, (j + 1) - 1)
        BY <1>1, <1>2, <3>3 DEF Run
      <4>2. QED
        BY <3>3, <4>1
    <3>5. QED
      BY <3>1, <3>2, <3>3, <3>4 DEF EndAt
  <2>7. QED
    BY <1>1, <1>4, <2>2, <2>4, <2>5, <2>6 DEF Covers
<1>7. QED
  BY <1>5, <1>6

LEMMA InvThreads == Inv => ThreadsSound
<1> SUFFICES ASSUME Inv, NEW t \in AllThreads
             PROVE  /\ Len(t.slots) = Depth(t)
                    /\ t.slots[1] = NullSlot
                    /\ Covers(Tail(t.slots), 0, t.pos)
                    /\ \A k \in 2..Depth(t) :
                         LET from == t.states[k - 1]
                             x    == SymbolAt(t.slots[k])
                         IN  t.states[k] = IF x \in Terminals THEN ShiftsAt(from)[x]
                                                              ELSE GotosAt(from)[x]
  BY DEF ThreadsSound
<1>1. ThreadOK(t)
  BY DEF Inv, Sound
<1>2. Covers(Tail(t.slots), 0, t.pos)
  BY <1>1, StackCovers DEF ThreadOK
<1>3. Len(t.slots) = Depth(t) /\ t.slots[1] = NullSlot
  BY <1>1 DEF ThreadOK, Stack, StackType, Depth
<1>4. ASSUME NEW k \in 2..Depth(t)
      PROVE  LET from == t.states[k - 1]
                 x    == SymbolAt(t.slots[k])
             IN  t.states[k] = IF x \in Terminals THEN ShiftsAt(from)[x]
                                                  ELSE GotosAt(from)[x]
  <2>1. Move(t.states[k - 1], t.slots[k], t.states[k])
    BY <1>1 DEF ThreadOK, Stack, Run, Depth
  <2>2. QED
    BY <2>1 DEF Move, Moves
<1>5. QED
  BY <1>2, <1>3, <1>4

\* The accept state is on top of the initial state only, over the start rule.
LEMMA InvRoots == Inv => AcceptedRoots
<1> SUFFICES ASSUME Inv, NEW t \in Range(accepted)
             PROVE  /\ Depth(t) = 2
                    /\ t.slots[2].kind = "node"
                    /\ LET root == nodes[t.slots[2].of]
                       IN  /\ root.rule = grammar.start
                           /\ root.start = 0 /\ root.end = limit
  BY DEF AcceptedRoots
<1>1. ThreadOK(t) /\ Accepting(t) /\ t.pos = limit /\ TypeOK
  BY DEF Inv, Sound, AllThreads, Results, Final, At
<1>2. PICK d \in Nat \ {0} : d = Depth(t) /\ d = Len(t.slots) /\ d = Len(t.states)
  BY <1>1 DEF ThreadOK, Stack, StackType, Depth
<1>3. Run(t.states, t.slots) /\ t.states[1] = 0 /\ t.states[d] = automaton.accept
  BY <1>1, <1>2 DEF ThreadOK, Stack, StackType, Accepting, Top, Depth
<1>4. automaton.accept # 0 /\ grammar.start \in Names
  BY <1>1, AutomatonAssumption, GrammarAssumption DEF automaton, TypeOK
<1>5. ASSUME NEW k \in 2..d
      PROVE  Follows(grammar, t.states[k - 1], SymbolAt(t.slots[k]), t.states[k])
  <2>1. Move(t.states[k - 1], t.slots[k], t.states[k])
    BY <1>2, <1>3 DEF Run
  <2>2. QED
    BY <1>1, <2>1, MoveFollows DEF Move
<1>6. \A k \in 2..d : t.states[k] # 0
  BY <1>5 DEF Follows
<1>7. d # 1 /\ d \in 2..d
  <2>1. d # 1
    BY <1>3, <1>4
  <2>2. QED
    BY <2>1
<1>8. t.states[d - 1] = 0 /\ SymbolAt(t.slots[d]) = grammar.start
  BY <1>3, <1>5, <1>7 DEF Follows, automaton
<1>9. d = 2
  <2>1. ~ (d - 1 \in 2..d)
    BY <1>6, <1>8
  <2>2. QED
    BY <1>7, <2>1
<1>10. /\ Valid(t.slots[2]) /\ Begin(t.slots[2]) = 0
       /\ End(t.slots[2]) = limit /\ SymbolAt(t.slots[2]) = grammar.start
  <2>1. Valid(t.slots[2]) /\ Begin(t.slots[2]) = EndAt(t.slots, 2 - 1)
    BY <1>2, <1>3, <1>9 DEF Run
  <2>2. EndAt(t.slots, 2 - 1) = 0
    BY DEF EndAt
  <2>3. End(t.slots[2]) = limit
    BY <1>1, <1>2, <1>9 DEF ThreadOK, EndAt
  <2>4. QED
    BY <1>8, <1>9, <2>1, <2>2, <2>3
<1>11. t.slots[2].kind = "node"
  <2>1. CASE t.slots[2].kind = "token" /\ t.slots[2].of < Len(tokens)
    <3>1. t.slots[2] \in Slot
      BY <1>1, <1>2, <1>9 DEF ThreadOK, Stack, StackType
    <3>2. tokens[t.slots[2].of + 1] \in Terminals
      BY <1>1, <2>1, <3>1 DEF Slot, TypeOK
    <3>3. SymbolAt(t.slots[2]) \in Terminals
      BY <2>1, <3>2 DEF SymbolAt
    <3>4. QED
      BY <1>4, <1>10, <3>3, GrammarAssumption
  <2>2. QED
    BY <1>10, <2>1 DEF Valid
<1>12. QED
  BY <1>2, <1>9, <1>10, <1>11 DEF SymbolAt, Begin, End

\* Threads, nodes and tables have their types, and every node a slot or a table
\* of php_phathom_glr_chart_reduce refers to has been allocated.
THEOREM TypeCorrect == Spec => []TypeOK
BY Invariance, PTL DEF Inv

\* Every node php_phathom_glr_chart_reduce allocates is a derivation of the
\* tokens between its start and its end, by the alternative it was reduced with.
THEOREM TreesCorrect == Spec => []TreesSound
BY Invariance, PTL DEF Inv

\* The stack of every thread that reduce, shift and construct keep is a run of the
\* automaton over slots that derive the tokens consumed.
THEOREM ThreadsCorrect == Spec => []ThreadsSound
BY Invariance, InvThreads, PTL

\* Every thread construct gives to the evaluator has the root of a tree on top: a
\* node of the start rule over the whole input.
THEOREM RootsCorrect == Spec => []AcceptedRoots
BY Invariance, InvRoots, PTL

-----------------------------------------------------------------------------
(* The stacks an automaton can have over an input, merged or not           *)

ReduceRow(g, s) ==
  IF s \in DOMAIN g.automaton.reduces THEN g.automaton.reduces[s] ELSE << >>

ShiftRow(g, s) ==
  IF s \in DOMAIN g.automaton.shifts THEN g.automaton.shifts[s] ELSE EmptyTable

GotoRow(g, s) ==
  IF s \in DOMAIN g.automaton.goto THEN g.automaton.goto[s] ELSE EmptyTable

StateStacks(g) == {s \in Seq(DOMAIN g.automaton.items) : s # << >>}

TopOf(s) == s[Len(s)]

\* Stack s is reduced to t; symbol x is shifted on s and leaves t.
ReducesTo(g, s, t) ==
  \E r \in Range(ReduceRow(g, TopOf(s))), m \in 1..Len(s) :
    /\ m = Len(s) - r.length
    /\ r.rule \in DOMAIN GotoRow(g, s[m])
    /\ t = Append(SubSeq(s, 1, m), GotoRow(g, s[m])[r.rule])

ShiftsTo(g, s, x, t) ==
  x \in DOMAIN ShiftRow(g, TopOf(s)) /\ t = Append(s, ShiftRow(g, TopOf(s))[x])

ClosedUnder(g, T) == \A s \in T : \A t : ReducesTo(g, s, t) => t \in T

\* F has every stack the automaton can have after each token of w.
Runs(g, w, F) ==
  /\ F \in [0..Len(w) -> SUBSET StateStacks(g)]
  /\ << 0 >> \in F[0]
  /\ \A p \in 0..Len(w) : ClosedUnder(g, F[p])
  /\ \A p \in 1..Len(w) : \A s \in F[p - 1] : \A t : ShiftsTo(g, s, w[p], t) => t \in F[p]

InAllRuns(g, w, p, s) == \A F : Runs(g, w, F) => s \in F[p]

\* The stacks that every such F has.
Reach(g, w, p) == {s \in StateStacks(g) : InAllRuns(g, w, p, s)}

\* A move leads to a state.
LEMMA RowsLead ==
  ASSUME NEW g \in Grammars, NEW s
  PROVE  /\ \A x \in DOMAIN ShiftRow(g, s) : ShiftRow(g, s)[x] \in DOMAIN g.automaton.items
         /\ \A x \in DOMAIN GotoRow(g, s) : GotoRow(g, s)[x] \in DOMAIN g.automaton.items
<1>1. DOMAIN EmptyTable = {}
  BY DEF EmptyTable
<1>2. /\ \A u \in DOMAIN g.automaton.shifts : \A x \in DOMAIN g.automaton.shifts[u] :
           g.automaton.shifts[u][x] \in DOMAIN g.automaton.items
      /\ \A u \in DOMAIN g.automaton.goto : \A x \in DOMAIN g.automaton.goto[u] :
           g.automaton.goto[u][x] \in DOMAIN g.automaton.items
  BY AutomatonAssumption DEF Follows
<1> QED BY <1>1, <1>2 DEF ShiftRow, GotoRow

\* Reducing and shifting leave stacks.
LEMMA StacksLeft ==
  ASSUME NEW g \in Grammars, NEW s \in StateStacks(g), NEW t,
         ReducesTo(g, s, t) \/ \E x : ShiftsTo(g, s, x, t)
  PROVE  t \in StateStacks(g)
<1> DEFINE I == DOMAIN g.automaton.items
<1>1. s \in Seq(I) /\ s # << >>
  BY DEF StateStacks
<1> HIDE DEF I
<1>2. \A u \in Seq(I) : \A i \in I : Append(u, i) \in Seq(I) /\ Append(u, i) # << >>
  BY AppendProperties
<1>3. CASE ReducesTo(g, s, t)
  <2>1. PICK r \in Range(ReduceRow(g, TopOf(s))), m \in 1..Len(s) :
          /\ r.rule \in DOMAIN GotoRow(g, s[m])
          /\ t = Append(SubSeq(s, 1, m), GotoRow(g, s[m])[r.rule])
    BY <1>3 DEF ReducesTo
  <2>2. SubSeq(s, 1, m) \in Seq(I)
    BY <1>1, SubSeqProperties
  <2>3. GotoRow(g, s[m])[r.rule] \in I
    BY <2>1, RowsLead DEF I
  <2> QED BY <1>2, <2>1, <2>2, <2>3 DEF StateStacks, I
<1>4. CASE \E x : ShiftsTo(g, s, x, t)
  <2>1. PICK x : ShiftsTo(g, s, x, t)
    BY <1>4
  <2>2. ShiftRow(g, TopOf(s))[x] \in I /\ t = Append(s, ShiftRow(g, TopOf(s))[x])
    BY <2>1, RowsLead DEF ShiftsTo, I
  <2> QED BY <1>1, <1>2, <2>2 DEF StateStacks, I
<1> QED BY <1>3, <1>4

\* The stacks in all runs are a run.
LEMMA ReachRuns ==
  ASSUME NEW g \in Grammars, NEW w, Len(w) \in Nat
  PROVE  /\ << 0 >> \in Reach(g, w, 0)
         /\ \A p \in 0..Len(w) : ClosedUnder(g, Reach(g, w, p))
         /\ \A p \in 1..Len(w) : \A s \in Reach(g, w, p - 1) : \A t :
              ShiftsTo(g, s, w[p], t) => t \in Reach(g, w, p)
<1>1. << 0 >> \in StateStacks(g)
  <2>1. 0 \in DOMAIN g.automaton.items
    BY AutomatonAssumption
  <2>2. \A I : 0 \in I => << 0 >> \in Seq(I) /\ << 0 >> # << >>
    OBVIOUS
  <2> QED BY <2>1, <2>2 DEF StateStacks
<1>2. << 0 >> \in Reach(g, w, 0)
  BY <1>1 DEF Reach, InAllRuns, Runs
<1>3. ASSUME NEW p \in 0..Len(w), NEW s \in Reach(g, w, p), NEW t, ReducesTo(g, s, t)
      PROVE  t \in Reach(g, w, p)
  <2>1. s \in StateStacks(g) /\ InAllRuns(g, w, p, s)
    BY DEF Reach
  <2>2. t \in StateStacks(g)
    BY <1>3, <2>1, StacksLeft
  <2>3. ASSUME NEW F, Runs(g, w, F) PROVE t \in F[p]
    <3>1. s \in F[p]
      BY <2>1, <2>3 DEF InAllRuns
    <3> QED BY <1>3, <2>3, <3>1 DEF Runs, ClosedUnder
  <2> QED BY <2>2, <2>3 DEF Reach, InAllRuns
<1>4. ASSUME NEW p \in 1..Len(w), NEW s \in Reach(g, w, p - 1), NEW t,
             ShiftsTo(g, s, w[p], t)
      PROVE  t \in Reach(g, w, p)
  <2>1. s \in StateStacks(g) /\ InAllRuns(g, w, p - 1, s)
    BY DEF Reach
  <2>2. t \in StateStacks(g)
    BY <1>4, <2>1, StacksLeft
  <2>3. ASSUME NEW F, Runs(g, w, F) PROVE t \in F[p]
    <3>1. s \in F[p - 1]
      BY <2>1, <2>3 DEF InAllRuns
    <3> QED BY <1>4, <2>3, <3>1 DEF Runs
  <2> QED BY <2>2, <2>3 DEF Reach, InAllRuns
<1> QED BY <1>2, <1>3, <1>4 DEF ClosedUnder

\* Before the first token: what has the initial stack and is closed has them all.
LEMMA ReachStart ==
  ASSUME NEW g \in Grammars, NEW T \in SUBSET StateStacks(g),
         << 0 >> \in T, ClosedUnder(g, T)
  PROVE  Reach(g, << >>, 0) \subseteq T
<1> DEFINE F == [p \in 0..0 |-> T]
<1>1. Len(<< >>) = 0 /\ 0 \in 0..0 /\ \A p \in 0..0 : F[p] = T
  OBVIOUS
<1>2. F \in [0..0 -> SUBSET StateStacks(g)]
  OBVIOUS
<1> HIDE DEF F
<1>3. Runs(g, << >>, F)
  BY <1>1, <1>2 DEF Runs
<1> QED BY <1>1, <1>3 DEF Reach, InAllRuns

\* After one token more: what has the shifted stacks and is closed has them all.
LEMMA ReachNext ==
  ASSUME NEW g \in Grammars, NEW T \in SUBSET StateStacks(g), ClosedUnder(g, T),
         NEW w, NEW n \in Nat, n = Len(w), NEW v, Len(v) = n + 1,
         \A p \in 1..n : v[p] = w[p],
         \A s \in Reach(g, w, n) : \A t : ShiftsTo(g, s, v[n + 1], t) => t \in T
  PROVE  Reach(g, v, n + 1) \subseteq T
<1> DEFINE F == [p \in 0..(n + 1) |-> IF p = n + 1 THEN T ELSE Reach(g, w, p)]
<1>1. \A p \in 0..n : p \in 0..(n + 1) /\ p # n + 1
  OBVIOUS
<1>2. /\ F[n + 1] = T /\ n + 1 \in 0..(n + 1)
      /\ \A p \in 0..n : F[p] = Reach(g, w, p)
  BY <1>1
<1>3. F \in [0..(n + 1) -> SUBSET StateStacks(g)]
  <2>1. \A p : Reach(g, w, p) \in SUBSET StateStacks(g)
    BY DEF Reach
  <2> QED BY <2>1
<1> HIDE DEF F
<1>4. << 0 >> \in F[0]
  <2>1. 0 \in 0..n
    OBVIOUS
  <2> QED BY <1>2, <2>1, ReachRuns
<1>5. \A p \in 0..(n + 1) : ClosedUnder(g, F[p])
  <2>1. \A p \in 0..n : ClosedUnder(g, F[p])
    BY <1>2, ReachRuns
  <2>2. ClosedUnder(g, F[n + 1])
    BY <1>2
  <2>3. \A p \in 0..(n + 1) : p \in 0..n \/ p = n + 1
    OBVIOUS
  <2> QED BY <2>1, <2>2, <2>3
<1>6. ASSUME NEW p \in 1..(n + 1), NEW s \in F[p - 1], NEW t, ShiftsTo(g, s, v[p], t)
      PROVE  t \in F[p]
  <2>1. p - 1 \in 0..n /\ p - 1 \in Nat
    OBVIOUS
  <2>2. s \in Reach(g, w, p - 1)
    BY <1>2, <2>1
  <2>3. CASE p = n + 1
    <3>1. p - 1 = n
      BY <2>3
    <3> QED BY <1>2, <1>6, <2>2, <2>3, <3>1
  <2>4. CASE p # n + 1
    <3>1. p \in 1..n /\ p \in 0..n
      BY <2>4
    <3>2. ShiftsTo(g, s, w[p], t)
      BY <1>6, <3>1
    <3>3. t \in Reach(g, w, p)
      BY <2>2, <3>1, <3>2, ReachRuns
    <3> QED BY <1>2, <3>1, <3>3
  <2> QED BY <2>3, <2>4
<1>7. Runs(g, v, F)
  BY <1>3, <1>4, <1>5, <1>6 DEF Runs
<1>8. ASSUME NEW s \in Reach(g, v, n + 1) PROVE s \in T
  BY <1>2, <1>7 DEF Reach, InAllRuns
<1> QED BY <1>8

-----------------------------------------------------------------------------
(* What a grammar derives, a whole automaton goes over                     *)

\* State s has the item of alternative k of rule x with the dot behind d symbols.
ItemIn(g, s, x, k, d) ==
  \E it \in g.automaton.items[s] : it.rule = x /\ it.alt = k /\ it.dot = d

\* The moves such an item calls for.
LEMMA ItemMoves ==
  ASSUME NEW g \in Grammars, WholeAutomaton(g), NEW s \in DOMAIN g.automaton.items,
         NEW x, NEW k, NEW d \in Nat, ItemIn(g, s, x, k, d),
         NEW symbols, symbols = g.rules[x][k].symbols, Len(symbols) \in Nat, NEW y
  PROVE  /\ d < Len(symbols) /\ y = symbols[d + 1] /\ y \in Terminals =>
              /\ y \in DOMAIN ShiftRow(g, s)
              /\ ItemIn(g, ShiftRow(g, s)[y], x, k, d + 1)
         /\ d < Len(symbols) /\ y = symbols[d + 1] /\ y \in DOMAIN g.rules =>
              /\ y \in DOMAIN GotoRow(g, s)
              /\ ItemIn(g, GotoRow(g, s)[y], x, k, d + 1)
         /\ d = Len(symbols) =>
              \E r \in Range(ReduceRow(g, s)) : r.rule = x /\ r.length = d
<1>1. PICK it \in g.automaton.items[s] : it.rule = x /\ it.alt = k /\ it.dot = d
  BY DEF ItemIn
<1>2. HasMoves(g, s, it)
  BY DEF WholeAutomaton
<1>3. Dotted(g, it) = IF d < Len(symbols) THEN symbols[d + 1] ELSE Null
  BY <1>1 DEF Dotted, SymbolsOf
<1>4. \A row, to : (\E after \in g.automaton.items[to] :
        after.rule = it.rule /\ after.alt = it.alt /\ after.dot = it.dot + 1)
        => ItemIn(g, to, x, k, d + 1)
  BY <1>1 DEF ItemIn
<1>5. ASSUME d < Len(symbols), y = symbols[d + 1], y \in Terminals
      PROVE  y \in DOMAIN ShiftRow(g, s) /\ ItemIn(g, ShiftRow(g, s)[y], x, k, d + 1)
  <2>1. Advances(g, it, g.automaton.shifts, s, y)
    BY <1>2, <1>3, <1>5 DEF HasMoves
  <2> QED BY <1>4, <2>1 DEF Advances, ShiftRow
<1>6. ASSUME d < Len(symbols), y = symbols[d + 1], y \in DOMAIN g.rules
      PROVE  y \in DOMAIN GotoRow(g, s) /\ ItemIn(g, GotoRow(g, s)[y], x, k, d + 1)
  <2>1. Advances(g, it, g.automaton.goto, s, y)
    BY <1>2, <1>3, <1>6 DEF HasMoves
  <2> QED BY <1>4, <2>1 DEF Advances, GotoRow
<1>7. ASSUME d = Len(symbols)
      PROVE  \E r \in Range(ReduceRow(g, s)) : r.rule = x /\ r.length = d
  <2>1. Dotted(g, it) = Null
    BY ONLY <1>3, <1>7, Len(symbols) \in Nat
  <2>2. /\ s \in DOMAIN g.automaton.reduces
        /\ \E r \in Range(g.automaton.reduces[s]) :
             r.rule = it.rule /\ r.alt = it.alt /\ r.length = it.dot
    BY <1>2, <2>1 DEF HasMoves
  <2> QED BY <1>1, <2>2 DEF ReduceRow
<1> QED BY <1>5, <1>6, <1>7

\* Every stack at p that has a move over x makes it, and is at q.
Goes(g, w, x, p, q) ==
  \A s \in Reach(g, w, p) :
    x \in DOMAIN GotoRow(g, TopOf(s)) =>
      Append(s, GotoRow(g, TopOf(s))[x]) \in Reach(g, w, q)

GoneOver(g, w) ==
  {c \in (DOMAIN g.rules) \X (0..Len(w)) \X (0..Len(w)) : Goes(g, w, c[1], c[2], c[3])}

\* Stack t is stack s with d states on top.
Above(t, s, d) == Len(t) = Len(s) + d /\ \A i \in 1..Len(s) : t[i] = s[i]

LEMMA AboveOne ==
  ASSUME NEW T, NEW t \in Seq(T), NEW s \in Seq(T), NEW d \in Nat, Above(t, s, d), NEW u
  PROVE  /\ Above(Append(t, u), s, d + 1)
         /\ TopOf(Append(t, u)) = u
<1>1. /\ Len(Append(t, u)) = Len(t) + 1 /\ Append(t, u)[Len(t) + 1] = u
      /\ \A i \in 1..Len(t) : Append(t, u)[i] = t[i]
      /\ Len(t) \in Nat /\ Len(s) \in Nat
  BY LenProperties
<1>2. Len(t) = Len(s) + d /\ \A i \in 1..Len(s) : t[i] = s[i]
  BY DEF Above
<1> DEFINE v == Append(t, u)
<1> HIDE DEF v
<1>3. \A i \in 1..Len(s) : i \in 1..Len(t)
  BY <1>1, <1>2
<1>4. \A i \in 1..Len(s) : v[i] = s[i]
  BY <1>1, <1>2, <1>3 DEF v
<1>5. Len(v) = Len(s) + (d + 1) /\ v[Len(v)] = u
  BY <1>1, <1>2 DEF v
<1> QED BY <1>4, <1>5 DEF Above, TopOf, v

\* A stack has a state on top.
LEMMA StackTop ==
  ASSUME NEW g, NEW s \in StateStacks(g)
  PROVE  /\ s \in Seq(DOMAIN g.automaton.items) /\ Len(s) \in Nat \ {0}
         /\ TopOf(s) \in DOMAIN g.automaton.items
<1> DEFINE I == DOMAIN g.automaton.items
<1>1. s \in Seq(I) /\ s # << >>
  BY DEF StateStacks
<1> HIDE DEF I
<1>2. Len(s) \in Nat \ {0} /\ s[Len(s)] \in I
  BY <1>1
<1> QED BY <1>1, <1>2 DEF TopOf, I

\* The symbols of an alternative are pushed one by one.
LEMMA HandlePushed ==
  ASSUME NEW g \in Grammars, WholeAutomaton(g), NEW w \in Seq(Terminals),
         NEW x \in DOMAIN g.rules, NEW k \in 1..Len(g.rules[x]),
         NEW symbols, symbols = g.rules[x][k].symbols, Len(symbols) \in Nat,
         NEW p \in 0..Len(w), NEW s \in Reach(g, w, p),
         x \in DOMAIN GotoRow(g, TopOf(s)),
         NEW l, l = Len(symbols)
  PROVE  \A m \in EndsUpTo(symbols, w, p, GoneOver(g, w))[l] :
           \E t \in Reach(g, w, m) : Above(t, s, l) /\ ItemIn(g, TopOf(t), x, k, l)
<1> DEFINE C == GoneOver(g, w)
           ends == EndsUpTo(symbols, w, p, C)
           Pushed1(m, d) ==
             \E t \in Reach(g, w, m) : Above(t, s, d) /\ ItemIn(g, TopOf(t), x, k, d)
           Good == {d \in Nat : d <= l => \A m \in ends[d] : m \in 0..Len(w) /\ Pushed1(m, d)}
<1>1. Len(w) \in Nat /\ \A i \in 1..Len(w) : w[i] \in Terminals
  BY LenProperties, ElementOfSeq
<1>2. /\ ends[0] = {p}
      /\ \A d \in 1..l : ends[d] = EndsAfter(symbols[d], w, ends[d - 1], C)
  BY ONLY <1>1, EndsSteps, Len(symbols) \in Nat, l = Len(symbols), p \in 0..Len(w)
<1>3. \A m : \A t \in Reach(g, w, m) :
        /\ t \in StateStacks(g) /\ t \in Seq(DOMAIN g.automaton.items)
        /\ Len(t) \in Nat \ {0} /\ TopOf(t) \in DOMAIN g.automaton.items
  BY StackTop DEF Reach
<1>4. \A y, m, q : <<y, m, q>> \in C => y \in DOMAIN g.rules /\ Goes(g, w, y, m, q)
  BY DEF GoneOver
<1> HIDE DEF C, ends
<1>5. 0 \in Good
  <2>1. ItemIn(g, TopOf(s), x, k, 0)
    <3>1. TopOf(s) \in DOMAIN g.automaton.items
      BY <1>3
    <3>2. HasItems(g, TopOf(s))
      BY <3>1 DEF WholeAutomaton
    <3>3. TopOf(s) \in DOMAIN g.automaton.goto /\ x \in DOMAIN g.automaton.goto[TopOf(s)]
      BY DEF GotoRow, EmptyTable
    <3>4. k \in DOMAIN g.rules[x]
      BY GrammarAssumption
    <3> QED BY <3>2, <3>3, <3>4 DEF HasItems, ItemIn
  <2>2. Above(s, s, 0)
    BY <1>3 DEF Above
  <2> QED BY <1>2, <2>1, <2>2
<1>6. ASSUME NEW d \in Nat, d \in Good PROVE d + 1 \in Good
  <2> SUFFICES ASSUME d + 1 <= l, NEW q \in ends[d + 1]
               PROVE  q \in 0..Len(w) /\ Pushed1(q, d + 1)
    OBVIOUS
  <2>1. d + 1 \in 1..l /\ (d + 1) - 1 = d /\ d < l /\ d <= l
    OBVIOUS
  <2>2. PICK y : y = symbols[d + 1]
    OBVIOUS
  <2>3. ends[d + 1] = EndsAfter(y, w, ends[d], C)
    BY <1>2, <2>1, <2>2
  <2>4. PICK m \in ends[d] : q \in 0..Len(w) /\ Derives(y, w, m, q, C)
    BY <2>3 DEF EndsAfter
  <2>5. PICK t \in Reach(g, w, m) : Above(t, s, d) /\ ItemIn(g, TopOf(t), x, k, d)
    BY <1>6, <2>1
  <2>6. m \in 0..Len(w)
    BY <1>6, <2>1
  <2>7. /\ t \in StateStacks(g) /\ t \in Seq(DOMAIN g.automaton.items)
        /\ s \in Seq(DOMAIN g.automaton.items) /\ TopOf(t) \in DOMAIN g.automaton.items
    BY <1>3
  <2>11. PICK top \in DOMAIN g.automaton.items : top = TopOf(t) /\ ItemIn(g, top, x, k, d)
    BY <2>5, <2>7
  <2>12. /\ y \in Terminals =>
              y \in DOMAIN ShiftRow(g, top) /\ ItemIn(g, ShiftRow(g, top)[y], x, k, d + 1)
         /\ y \in DOMAIN g.rules =>
              y \in DOMAIN GotoRow(g, top) /\ ItemIn(g, GotoRow(g, top)[y], x, k, d + 1)
    <3>1. d < Len(symbols)
      BY <2>1
    <3>2. ItemIn(g, top, x, k, d)
      BY <2>11
    <3>3. ASSUME y \in Terminals
          PROVE  y \in DOMAIN ShiftRow(g, top)
                 /\ ItemIn(g, ShiftRow(g, top)[y], x, k, d + 1)
      BY ONLY <3>1, <3>2, <3>3, <2>2, ItemMoves, g \in Grammars, WholeAutomaton(g),
         d \in Nat, symbols = g.rules[x][k].symbols, Len(symbols) \in Nat, SMTT(30)
    <3>4. ASSUME y \in DOMAIN g.rules
          PROVE  y \in DOMAIN GotoRow(g, top)
                 /\ ItemIn(g, GotoRow(g, top)[y], x, k, d + 1)
      BY ONLY <3>1, <3>2, <3>4, <2>2, ItemMoves, g \in Grammars, WholeAutomaton(g),
         d \in Nat, symbols = g.rules[x][k].symbols, Len(symbols) \in Nat, SMTT(30)
    <3> QED
      BY <3>3, <3>4
  <2>8. \A to : Above(Append(t, to), s, d + 1) /\ TopOf(Append(t, to)) = to
    BY <2>5, <2>7, AboveOne
  <2>9. CASE <<y, m, q>> \in C
    <3>1. y \in DOMAIN g.rules /\ Goes(g, w, y, m, q)
      BY <1>4, <2>9
    <3>2. /\ y \in DOMAIN GotoRow(g, TopOf(t))
          /\ ItemIn(g, GotoRow(g, TopOf(t))[y], x, k, d + 1)
      BY <2>11, <2>12, <3>1
    <3>3. Append(t, GotoRow(g, TopOf(t))[y]) \in Reach(g, w, q)
      BY <3>1, <3>2 DEF Goes
    <3> QED BY <2>4, <2>8, <3>2, <3>3
  <2>10. CASE q = m + 1 /\ w[q] = y
    <3>1. q \in 1..Len(w) /\ q - 1 = m
      BY <1>1, <2>4, <2>6, <2>10
    <3>2. y \in Terminals
      BY <1>1, <2>10, <3>1
    <3>3. /\ y \in DOMAIN ShiftRow(g, TopOf(t))
          /\ ItemIn(g, ShiftRow(g, TopOf(t))[y], x, k, d + 1)
      BY <2>11, <2>12, <3>2
    <3>4. Append(t, ShiftRow(g, TopOf(t))[y]) \in Reach(g, w, q)
      <4>1. ShiftsTo(g, t, w[q], Append(t, ShiftRow(g, TopOf(t))[y]))
        BY <2>10, <3>3 DEF ShiftsTo
      <4> QED BY <1>1, <3>1, <4>1, ReachRuns
    <3> QED BY <2>4, <2>8, <3>3, <3>4
  <2> QED BY <2>4, <2>9, <2>10 DEF Derives
<1>7. Nat \subseteq Good
  <2> HIDE DEF Good
  <2> QED BY <1>5, <1>6, Induction
<1>8. l \in Good
  BY <1>7
<1> QED BY <1>8 DEF C, ends

\* Every such stack is reduced to the one below it and the state the rule goes to.
LEMMA HandleReduced ==
  ASSUME NEW g \in Grammars, WholeAutomaton(g), NEW x \in DOMAIN g.rules, NEW k,
         NEW l \in Nat, l = Len(g.rules[x][k].symbols),
         NEW s \in StateStacks(g), x \in DOMAIN GotoRow(g, TopOf(s)),
         NEW t \in StateStacks(g), Above(t, s, l), ItemIn(g, TopOf(t), x, k, l)
  PROVE  ReducesTo(g, t, Append(s, GotoRow(g, TopOf(s))[x]))
<1> DEFINE I == DOMAIN g.automaton.items
<1>1. /\ s \in Seq(I) /\ Len(s) \in Nat \ {0} /\ t \in Seq(I) /\ TopOf(t) \in I
      /\ Len(t) \in Nat
  BY StackTop
<1>2. PICK n \in Nat \ {0} : n = Len(s)
  BY <1>1
<1>3. Len(t) = n + l /\ \A i \in 1..n : t[i] = s[i]
  BY <1>2 DEF Above
<1>4. n \in 1..Len(t) /\ n = Len(t) - l /\ n \in 1..n
  BY <1>3
<1>5. PICK r \in Range(ReduceRow(g, TopOf(t))) : r.rule = x /\ r.length = l
  BY <1>1, ItemMoves DEF I
<1> HIDE DEF I
<1>6. SubSeq(t, 1, n) = s
  <2>1. /\ SubSeq(t, 1, n) \in Seq(I) /\ Len(SubSeq(t, 1, n)) = n
        /\ \A i \in 1..n : SubSeq(t, 1, n)[i] = t[i]
    <3>1. 1 \in 1..(Len(t) + 1) /\ n \in (1 - 1)..Len(t) /\ (n - 1) + 1 = n
      BY <1>1, <1>4
    <3>2. \A i \in 1..n : (1 + i) - 1 = i
      OBVIOUS
    <3> QED BY <1>1, <3>1, <3>2, SubSeqProperties
  <2> QED BY <1>1, <1>2, <1>3, <2>1, SeqEqual
<1>7. t[n] = TopOf(s)
  BY <1>2, <1>3, <1>4 DEF TopOf
<1> QED BY <1>4, <1>5, <1>6, <1>7 DEF ReducesTo

\* So the spans the stacks go over are closed under the rules.
LEMMA SpansGone ==
  ASSUME NEW g \in Grammars, WholeAutomaton(g), NEW w \in Seq(Terminals)
  PROVE  MoreSpans(g, w, GoneOver(g, w)) \subseteq GoneOver(g, w)
<1>1. Len(w) \in Nat
  BY LenProperties
<1> SUFFICES ASSUME NEW c \in MoreSpans(g, w, GoneOver(g, w)) PROVE c \in GoneOver(g, w)
  OBVIOUS
<1>2. PICK x, p, q : c = <<x, p, q>>
  BY MoreSpansAre
<1>3. /\ x \in DOMAIN g.rules /\ p \in 0..Len(w)
      /\ \E k \in 1..Len(g.rules[x]) :
           q \in EndsOf(g.rules[x][k].symbols, w, p, GoneOver(g, w))
  BY <1>2, MoreSpansAre
<1>4. PICK k \in 1..Len(g.rules[x]) :
        q \in EndsOf(g.rules[x][k].symbols, w, p, GoneOver(g, w))
  BY <1>3
<1>5. PICK symbols : symbols = g.rules[x][k].symbols
  OBVIOUS
<1>6. PICK l \in Nat : l = Len(symbols)
  BY <1>3, <1>5, RulesFinite DEF FiniteRules
<1>7. q \in 0..Len(w) /\ q \in EndsUpTo(symbols, w, p, GoneOver(g, w))[l]
  <2>1. p \in Nat
    BY <1>3
  <2> QED BY <1>1, <1>3, <1>4, <1>5, <1>6, <2>1, EndsInput, EndsSteps
<1>8. Goes(g, w, x, p, q)
  <2>1. SUFFICES ASSUME NEW s \in Reach(g, w, p), x \in DOMAIN GotoRow(g, TopOf(s))
                 PROVE  Append(s, GotoRow(g, TopOf(s))[x]) \in Reach(g, w, q)
    BY DEF Goes
  <2>2. PICK t \in Reach(g, w, q) : Above(t, s, l) /\ ItemIn(g, TopOf(t), x, k, l)
    BY <1>3, <1>5, <1>6, <1>7, <2>1, HandlePushed
  <2>3. s \in StateStacks(g) /\ t \in StateStacks(g)
    BY DEF Reach
  <2>4. ReducesTo(g, t, Append(s, GotoRow(g, TopOf(s))[x]))
    BY <1>3, <1>5, <1>6, <2>1, <2>2, <2>3, HandleReduced
  <2> QED BY <1>1, <1>7, <2>2, <2>4, ReachRuns DEF ClosedUnder
<1> QED BY <1>2, <1>3, <1>7, <1>8 DEF GoneOver

\* A whole automaton can accept every sentence.
LEMMA SentenceReached ==
  ASSUME NEW g \in Grammars, WholeAutomaton(g), NEW w \in Seq(Terminals), Sentence(g, w)
  PROVE  \E s \in Reach(g, w, Len(w)) : TopOf(s) = g.automaton.accept
<1>1. Len(w) \in Nat
  BY LenProperties
<1>2. Spans(g, w) \subseteq GoneOver(g, w)
  BY <1>1, RulesFinite, SpansGone, SpansLeast
<1>3. g.start \in DOMAIN g.rules /\ Goes(g, w, g.start, 0, Len(w))
  BY <1>2 DEF Sentence, GoneOver
<1>4. /\ 0 \in DOMAIN g.automaton.goto /\ g.start \in DOMAIN g.automaton.goto[0]
      /\ g.automaton.goto[0][g.start] = g.automaton.accept
  BY <1>3 DEF WholeAutomaton
<1>5. TopOf(<< 0 >>) = 0 /\ TopOf(Append(<< 0 >>, g.automaton.accept)) = g.automaton.accept
  BY DEF TopOf
<1>6. /\ g.start \in DOMAIN GotoRow(g, TopOf(<< 0 >>))
      /\ GotoRow(g, TopOf(<< 0 >>))[g.start] = g.automaton.accept
  BY <1>4, <1>5 DEF GotoRow
<1>7. << 0 >> \in Reach(g, w, 0)
  BY <1>1, ReachRuns
<1>8. Append(<< 0 >>, g.automaton.accept) \in Reach(g, w, Len(w))
  BY <1>3, <1>6, <1>7 DEF Goes
<1> QED BY <1>5, <1>8

-----------------------------------------------------------------------------
(* What the chart accepts, the grammar derives                             *)

\* A node is of an alternative of the grammar, over tokens scanned.
Placed ==
  \A n \in DOMAIN nodes :
    /\ nodes[n].rule \in DOMAIN grammar.rules
    /\ nodes[n].alt \in 1..Len(grammar.rules[nodes[n].rule])
    /\ nodes[n].end \in 0..Len(tokens)

\* A node is made, or tokens at most are appended.
LEMMA ArenaSteps ==
  ASSUME [Next]_vars
  PROVE  \/ Allocate
         \/ /\ UNCHANGED <<grammar, nodes>>
            /\ UNCHANGED tokens \/ \E type \in Terminals : tokens' = Append(tokens, type)
<1>1. CASE Reduce
  BY <1>1 DEF Reduce, NoGoto, Reduced, ReduceFirst, ReduceLoses, ReduceTies, ReduceWins, Abort
<1>2. CASE UNCHANGED vars
  BY <1>2 DEF vars
<1>3. CASE \E type \in Terminals : ScanToken(type)
  BY <1>3 DEF ScanToken
<1>4. CASE \/ Round \/ Supersede \/ Pop \/ AllTried \/ FixedPoint \/ ScanNothing
           \/ Shift \/ Drop \/ AllShifted \/ Finish \/ Accept \/ Reject \/ Collected
  BY <1>4 DEF Round, Supersede, Pop, AllTried, FixedPoint, ScanNothing, Shift, Drop,
     AllShifted, Finish, Accept, Reject, Collected, NextThread
<1> QED BY <1>1, <1>2, <1>3, <1>4 DEF Next

LEMMA PlacedKept == Inv /\ Placed /\ [Next]_vars => Placed'
<1> SUFFICES ASSUME Inv, Placed, [Next]_vars PROVE Placed'
  OBVIOUS
<1>1. Len(tokens) \in Nat /\ nodes \in Seq(Node) /\ tokens \in Seq(Terminals)
  BY DEF Inv, TypeOK
<1>2. CASE Allocate
  <2>1. PICK th, r, b, node, to, n :
          /\ Reduces(th, r, b, node, to, n) /\ nodes' = Append(nodes, node)
          /\ node \in Node
    BY <1>2, AllocateFacts
  <2>2. UNCHANGED <<grammar, tokens>>
    BY <1>2 DEF Allocate, Reduced
  <2>3. /\ node.rule = r.rule /\ node.alt = r.alt /\ node.end = Len(tokens)
    BY <2>1 DEF Reduces, NodeOf
  <2>4. PICK s : s = Top(th)
    OBVIOUS
  <2>5. s \in DOMAIN automaton.items
    <3>1. Stack(th.states, th.slots)
      BY <2>1 DEF Reduces, ThreadOK
    <3>2. Len(th.states) \in 1..Len(th.states)
      BY <3>1 DEF Stack, StackType
    <3> QED BY <2>4, <3>1, <3>2 DEF Stack, Handles, Top, Depth
  <2>6. PICK it \in automaton.items[s] : it.rule = r.rule /\ it.alt = r.alt
    BY <2>1, <2>4 DEF Reduces, Completes, automaton
  <2>7. it.rule \in DOMAIN grammar.rules /\ it.alt \in DOMAIN grammar.rules[it.rule]
    BY <2>5, ItemFacts DEF Inv
  <2>8. grammar.rules[it.rule] \in Seq(Alternatives)
    BY <2>7, GrammarAssumption DEF Inv, TypeOK
  <2>9. DOMAIN grammar.rules[it.rule] = 1..Len(grammar.rules[it.rule])
    BY <2>8
  <2>10. /\ DOMAIN nodes' = 1..(Len(nodes) + 1) /\ DOMAIN nodes = 1..Len(nodes)
         /\ \A i \in 1..Len(nodes) : nodes'[i] = nodes[i]
         /\ nodes'[Len(nodes) + 1] = node
    BY <1>1, <2>1
  <2> QED BY <1>1, <2>2, <2>3, <2>6, <2>7, <2>9, <2>10 DEF Placed
<1>3. CASE UNCHANGED <<grammar, nodes, tokens>>
  BY <1>3 DEF Placed
<1>4. CASE UNCHANGED <<grammar, nodes>> /\ \E type \in Terminals : tokens' = Append(tokens, type)
  <2>1. Len(tokens') = Len(tokens) + 1
    BY <1>1, <1>4
  <2>2. \A e \in 0..Len(tokens) : e \in 0..(Len(tokens) + 1)
    BY <1>1
  <2> QED BY <1>4, <2>1, <2>2 DEF Placed
<1> QED BY <1>2, <1>3, <1>4, ArenaSteps

\* The span of a node.
SpanOf(n) == <<nodes[n].rule, nodes[n].start, nodes[n].end>>

\* The symbols of slots that derive the tokens from p to q can end at q.
LEMMA ChildrenEnd ==
  ASSUME TypeOK, NEW c \in Seq(Slot), NEW p \in 0..Len(tokens), NEW q, Covers(c, p, q),
         NEW spans, Proper(tokens, spans),
         \A k \in 1..Len(c) : Valid(c[k]) /\ (c[k].kind = "node" => SpanOf(c[k].of) \in spans),
         NEW symbols, Len(symbols) = Len(c),
         \A k \in 1..Len(c) : symbols[k] = SymbolAt(c[k])
  PROVE  q \in EndsOf(symbols, tokens, p, spans)
<1> DEFINE l == Len(c)
           ends == EndsUpTo(symbols, tokens, p, spans)
           edge(d) == IF d = 0 THEN p ELSE End(c[d])
           Good == {d \in Nat : d <= l => edge(d) \in ends[d]}
<1>1. /\ l \in Nat /\ Len(tokens) \in Nat /\ p \in Nat
      /\ \A k \in 1..l : c[k] \in Slot
  BY LenProperties, ElementOfSeq DEF TypeOK
<1>2. /\ EndsOf(symbols, tokens, p, spans) = ends[l] /\ ends[0] = {p}
      /\ \A d \in 1..l : ends[d] = EndsAfter(symbols[d], tokens, ends[d - 1], spans)
  BY <1>1, EndsSteps
<1>3. /\ l = 0 => p = q
      /\ l # 0 => Begin(c[1]) = p /\ q = End(c[l])
      /\ \A k \in 2..l : Begin(c[k]) = End(c[k - 1])
  <2>1. CASE c = << >>
    BY <2>1 DEF Covers
  <2>2. CASE c # << >>
    <3>1. Head(c) = c[1] /\ Last(c) = c[l] /\ l # 0
      BY <1>1, <2>2 DEF Last
    <3> QED BY <2>2, <3>1 DEF Covers
  <2> QED BY <2>1, <2>2
<1> HIDE DEF l, ends
<1>4. ASSUME NEW k \in 1..l
      PROVE  /\ Derives(symbols[k], tokens, Begin(c[k]), End(c[k]), spans)
             /\ End(c[k]) \in 0..Len(tokens)
  <2>1. PICK slot \in Slot : slot = c[k]
    BY <1>1
  <2>2. /\ Valid(slot) /\ symbols[k] = SymbolAt(slot) /\ slot.of \in Nat
        /\ slot.kind = "node" => SpanOf(slot.of) \in spans
    BY <2>1 DEF l, Slot
  <2>3. CASE slot.kind = "token" /\ slot.of < Len(tokens)
    <3>1. Begin(slot) = slot.of /\ End(slot) = slot.of + 1 /\ SymbolAt(slot) = tokens[slot.of + 1]
      BY <2>3 DEF Begin, End, SymbolAt
    <3>2. slot.of + 1 \in 0..Len(tokens)
      BY <1>1, <2>2, <2>3
    <3> QED BY <2>1, <2>2, <3>1, <3>2 DEF Derives
  <2>4. CASE slot.kind = "node"
    <3>1. /\ Begin(slot) = nodes[slot.of].start /\ End(slot) = nodes[slot.of].end
          /\ SymbolAt(slot) = nodes[slot.of].rule
      BY <2>4 DEF Begin, End, SymbolAt
    <3>2. <<symbols[k], Begin(slot), End(slot)>> \in spans
      BY <2>2, <2>4, <3>1 DEF SpanOf
    <3> QED BY <2>1, <3>2 DEF Derives, Proper
  <2> QED BY <2>2, <2>3, <2>4 DEF Valid
<1>5. 0 \in Good
  BY <1>2
<1>6. ASSUME NEW d \in Nat, d \in Good PROVE d + 1 \in Good
  <2> SUFFICES ASSUME d + 1 <= l PROVE edge(d + 1) \in ends[d + 1]
    OBVIOUS
  <2>1. d + 1 \in 1..l /\ (d + 1) - 1 = d /\ d <= l /\ d + 1 # 0 /\ l # 0
    BY <1>1
  <2>2. edge(d + 1) = End(c[d + 1])
    BY <2>1
  <2>3. Begin(c[d + 1]) = edge(d)
    <3>1. CASE d = 0
      BY <1>3, <2>1, <3>1
    <3>2. CASE d # 0
      <4>1. d + 1 \in 2..l
        BY <2>1, <3>2
      <4>2. Begin(c[d + 1]) = End(c[(d + 1) - 1])
        BY <1>3, <4>1
      <4> QED BY <2>1, <3>2, <4>2
    <3> QED BY <3>1, <3>2
  <2>4. edge(d) \in ends[d]
    BY <1>6, <2>1
  <2>5. ends[d + 1] = EndsAfter(symbols[d + 1], tokens, ends[d], spans)
    BY <1>2, <2>1
  <2>6. /\ Derives(symbols[d + 1], tokens, Begin(c[d + 1]), End(c[d + 1]), spans)
        /\ End(c[d + 1]) \in 0..Len(tokens)
    BY <1>4, <2>1
  <2> HIDE DEF edge
  <2> QED BY <2>2, <2>3, <2>4, <2>5, <2>6 DEF EndsAfter
<1>7. l \in Good
  <2> HIDE DEF Good
  <2> QED BY <1>1, <1>5, <1>6, Induction
<1> QED BY <1>1, <1>2, <1>3, <1>7

\* A node whose children derive their spans derives its own.
LEMMA NodeSpan ==
  ASSUME Inv, Placed, NEW n \in DOMAIN nodes,
         NEW spans, spans = Spans(grammar, tokens),
         \A m \in DOMAIN nodes : m < n => SpanOf(m) \in spans
  PROVE  SpanOf(n) \in spans
<1>1. grammar \in Grammars /\ Len(tokens) \in Nat /\ DOMAIN nodes = 1..Len(nodes)
      /\ \A m \in DOMAIN nodes : nodes[m] \in Node
  BY DEF Inv, TypeOK
<1>2. PICK node \in Node : node = nodes[n]
  BY <1>1
<1>3. PICK c \in Seq(Slot) : c = node.children
  BY DEF Node
<1>4. /\ Covers(c, node.start, node.end)
      /\ AlternativeOf(node).symbols = [k \in DOMAIN c |-> SymbolAt(c[k])]
      /\ \A s \in Range(c) : s.kind = "node" => s.of < n
      /\ \A k \in DOMAIN c : Valid(c[k])
  BY <1>2, <1>3, DerivesAll DEF Inv, Derivation
<1>5. Proper(tokens, spans) /\ MoreSpans(grammar, tokens, spans) \subseteq spans
  BY <1>1, RulesFinite, SpansClosed
<1>6. DOMAIN c = 1..Len(c) /\ Len(c) \in Nat
  BY LenProperties
<1>7. ASSUME NEW k \in 1..Len(c)
      PROVE  Valid(c[k]) /\ (c[k].kind = "node" => SpanOf(c[k].of) \in spans)
  <2>1. Valid(c[k]) /\ c[k] \in Range(c)
    BY <1>4, <1>6 DEF Range
  <2>2. ASSUME c[k].kind = "node" PROVE SpanOf(c[k].of) \in spans
    <3>1. c[k].of \in DOMAIN nodes /\ c[k].of < n
      BY <1>4, <2>1, <2>2 DEF Valid
    <3> QED BY <3>1
  <2> QED BY <2>1, <2>2
<1>8. node.end \in 0..Len(tokens) /\ node.rule \in DOMAIN grammar.rules
      /\ node.alt \in 1..Len(grammar.rules[node.rule])
  BY <1>2 DEF Placed
<1>9. node.start \in 0..Len(tokens)
  <2>1. CASE c = << >>
    BY <1>4, <1>8, <2>1 DEF Covers
  <2>2. CASE c # << >>
    <3>1. 1 \in 1..Len(c) /\ Head(c) = c[1]
      BY <2>2
    <3>2. PICK slot \in Slot : slot = c[1]
      BY <3>1, ElementOfSeq
    <3>3. Begin(slot) = node.start /\ Valid(slot) /\ slot.of \in Nat
          /\ (slot.kind = "node" => SpanOf(slot.of) \in spans)
      BY <1>4, <1>7, <2>2, <3>1, <3>2 DEF Covers, Slot
    <3>4. CASE slot.kind = "token" /\ slot.of < Len(tokens)
      BY <1>1, <3>3, <3>4 DEF Begin
    <3>5. CASE slot.kind = "node"
      <4>1. SpanOf(slot.of) = <<nodes[slot.of].rule, node.start, nodes[slot.of].end>>
        BY <3>3, <3>5 DEF Begin, SpanOf
      <4>2. /\ node.start \in Nat /\ nodes[slot.of].end \in 0..Len(tokens)
            /\ node.start <= nodes[slot.of].end
        BY <1>5, <3>3, <3>5, <4>1 DEF Proper
      <4> QED BY <1>1, <4>2
    <3> QED BY <3>3, <3>4, <3>5 DEF Valid
  <2> QED BY <2>1, <2>2
<1>10. PICK symbols : symbols = AlternativeOf(node).symbols
  OBVIOUS
<1>11. Len(symbols) = Len(c) /\ \A k \in 1..Len(c) : symbols[k] = SymbolAt(c[k])
  <2>1. symbols \in Seq(Symbols)
    BY <1>1, <1>8, <1>10, RulesFinite DEF AlternativeOf
  <2>2. DOMAIN symbols = 1..Len(symbols) /\ Len(symbols) \in Nat
    BY <2>1, LenProperties
  <2>3. DOMAIN symbols = 1..Len(c)
    BY <1>4, <1>6, <1>10
  <2> QED BY <1>4, <1>6, <1>10, <2>2, <2>3
<1>12. node.end \in EndsOf(symbols, tokens, node.start, spans)
  BY <1>4, <1>5, <1>7, <1>9, <1>11, ChildrenEnd DEF Inv
<1>13. SpanOf(n) \in MoreSpans(grammar, tokens, spans)
  BY <1>2, <1>8, <1>9, <1>10, <1>12, MoreSpansAre DEF SpanOf, AlternativeOf
<1> QED BY <1>5, <1>13

\* Every node of the arena derives its span.
LEMMA NodeSpans ==
  ASSUME Inv, Placed
  PROVE  \A n \in DOMAIN nodes : SpanOf(n) \in Spans(grammar, tokens)
<1> DEFINE Good == {n \in Nat : \A m \in DOMAIN nodes : m <= n => SpanOf(m) \in Spans(grammar, tokens)}
<1>1. DOMAIN nodes = 1..Len(nodes) /\ Len(nodes) \in Nat
  BY DEF Inv, TypeOK
<1>2. 0 \in Good
  BY <1>1
<1>3. ASSUME NEW n \in Nat, n \in Good PROVE n + 1 \in Good
  <2>1. SUFFICES ASSUME NEW m \in DOMAIN nodes, m <= n + 1
                 PROVE  SpanOf(m) \in Spans(grammar, tokens)
    OBVIOUS
  <2>2. \A k \in DOMAIN nodes : k < m => SpanOf(k) \in Spans(grammar, tokens)
    <3>1. ASSUME NEW k \in DOMAIN nodes, k < m PROVE k <= n
      BY <1>1, <2>1, <3>1
    <3> QED BY <1>3, <3>1
  <2> QED BY <2>2, NodeSpan
<1>4. Nat \subseteq Good
  <2> HIDE DEF Good
  <2> QED BY <1>2, <1>3, Induction
<1> QED BY <1>1, <1>4

-----------------------------------------------------------------------------
(* The worklist of reduce                                                  *)

Stacks(ts) == {t.states : t \in ts}

\* Stack s is that of a thread still to be popped from worklist ts.
PendingAt(ts, c, s) == \E j \in DOMAIN ts : j >= c /\ ts[j].states = s

\* Every stack of the worklist has been kept, or one equal to it will be.
Settled(ts, c, kept) ==
  \A j \in DOMAIN ts : ts[j].states \in Stacks(Range(kept)) \/ PendingAt(ts, c, ts[j].states)

\* The thread with the best node of a key has been kept, if it has been popped.
BestKept(ts, c, kept, best, keys) ==
  \A key \in DOMAIN best :
    /\ best[key] \in DOMAIN keys /\ keys[best[key]] = key
    /\ \E j \in DOMAIN ts :
         /\ ts[j].states = Append(key[1], key[2])
         /\ Last(ts[j].slots) = NodeSlot(best[key])
         /\ j < c => ts[j].states \in Stacks(Range(kept))

\* A thread whose top node has been the best of a key has the stack the key says.
Keyed(ts, keys) ==
  \A j \in DOMAIN ts :
    LET top == Last(ts[j].slots)
    IN  top.kind = "node" /\ top.of \in DOMAIN keys =>
          ts[j].states = Append(keys[top.of][1], keys[top.of][2])

\* What the k-th reduction of a stack leaves is in the worklist.
Tried(g, ts, s, k) ==
  \A m \in 1..Len(s) :
    LET r == ReduceRow(g, TopOf(s))[k]
    IN  m = Len(s) - r.length /\ r.rule \in DOMAIN GotoRow(g, s[m]) =>
          Append(SubSeq(s, 1, m), GotoRow(g, s[m])[r.rule]) \in Stacks(Range(ts))

\* The reductions of every stack kept have been tried, those still owed excepted.
AllReduced(g, ts, kept, owed) ==
  \A s \in Stacks(Range(kept)) : \A k \in DOMAIN ReduceRow(g, TopOf(s)) :
    <<s, k>> \in owed \/ Tried(g, ts, s, k)

Work(g, ts, c, kept, best, keys, owed) ==
  /\ Settled(ts, c, kept) /\ BestKept(ts, c, kept, best, keys)
  /\ Keyed(ts, keys) /\ AllReduced(g, ts, kept, owed)

LEMMA WorkRound ==
  ASSUME NEW g, NEW ts
  PROVE  Work(g, ts, 1, << >>, EmptyTable, EmptyTable, {})
  
<1>1. DOMAIN EmptyTable = {} /\ Stacks(Range(<< >>)) = {}
  BY DEF EmptyTable, Stacks, Range
<1> QED BY <1>1 DEF Work, Settled, PendingAt, BestKept, Keyed, AllReduced

\* A superseded thread is left out: the one with the best node of its key has its stack.
LEMMA WorkSuperseded ==
  ASSUME NEW g, NEW ts \in Seq(ThreadType), NEW c \in 1..Len(ts), NEW kept,
         NEW best, NEW keys, Work(g, ts, c, kept, best, keys, {}),
         NEW n, Last(ts[c].slots).kind = "node", Last(ts[c].slots).of = n,
         n \in DOMAIN keys, keys[n] \in DOMAIN best, best[keys[n]] # n
  PROVE  Work(g, ts, c + 1, kept, best, keys, {})
<1>1. DOMAIN ts = 1..Len(ts) /\ Len(ts) \in Nat /\ c \in Nat
  OBVIOUS
<1>2. PICK key \in DOMAIN best : key = keys[n]
  OBVIOUS
<1>3. ts[c].states = Append(key[1], key[2])
  BY <1>1, <1>2 DEF Work, Keyed
<1>4. PICK j \in DOMAIN ts :
        /\ ts[j].states = Append(key[1], key[2])
        /\ Last(ts[j].slots) = NodeSlot(best[key])
        /\ j < c => ts[j].states \in Stacks(Range(kept))
  BY <1>2 DEF Work, BestKept
<1>5. j # c
  BY <1>2, <1>4 DEF NodeSlot
<1>6. ts[c].states \in Stacks(Range(kept)) \/ PendingAt(ts, c + 1, ts[c].states)
  <2>1. j \in Nat /\ (j < c \/ j >= c + 1)
    BY <1>1, <1>4, <1>5
  <2> QED BY <1>3, <1>4, <2>1 DEF PendingAt
<1>7. Settled(ts, c + 1, kept)
  <2>1. SUFFICES ASSUME NEW i \in DOMAIN ts, PendingAt(ts, c, ts[i].states)
                 PROVE  ts[i].states \in Stacks(Range(kept)) \/ PendingAt(ts, c + 1, ts[i].states)
    BY DEF Work, Settled
  <2>2. PICK h \in DOMAIN ts : h >= c /\ ts[h].states = ts[i].states
    BY <2>1 DEF PendingAt
  <2>3. CASE h = c
    BY <1>6, <2>2, <2>3
  <2>4. CASE h # c
    <3>1. h >= c + 1
      BY <1>1, <2>2, <2>4
    <3> QED BY <2>2, <3>1 DEF PendingAt
  <2> QED BY <2>3, <2>4
<1>8. BestKept(ts, c + 1, kept, best, keys)
  <2>1. SUFFICES ASSUME NEW other \in DOMAIN best
                 PROVE  \E i \in DOMAIN ts :
                          /\ ts[i].states = Append(other[1], other[2])
                          /\ Last(ts[i].slots) = NodeSlot(best[other])
                          /\ i < c + 1 => ts[i].states \in Stacks(Range(kept))
    BY DEF Work, BestKept
  <2>2. keys[best[other]] = other
    BY DEF Work, BestKept
  <2>3. PICK i \in DOMAIN ts :
          /\ ts[i].states = Append(other[1], other[2])
          /\ Last(ts[i].slots) = NodeSlot(best[other])
          /\ i < c => ts[i].states \in Stacks(Range(kept))
    BY DEF Work, BestKept
  <2>4. i # c
    <3>1. SUFFICES ASSUME i = c PROVE FALSE
      OBVIOUS
    <3>2. best[other] = n
      BY <2>3, <3>1 DEF NodeSlot
    <3> QED BY <2>2, <3>2
  <2>5. i < c + 1 => i < c
    BY <1>1, <2>4
  <2> QED BY <2>3, <2>5
<1> QED BY <1>7, <1>8 DEF Work

\* A thread is popped and kept; its reductions are owed.
LEMMA WorkPopped ==
  ASSUME NEW g, NEW ts \in Seq(ThreadType), NEW c \in 1..Len(ts),
         NEW kept \in Seq(ThreadType), NEW best, NEW keys,
         Work(g, ts, c, kept, best, keys, {}),
         NEW s, s = ts[c].states,
         NEW more, more = Append(kept, ts[c]), NEW next, next = c + 1,
         NEW owed, \A k \in DOMAIN ReduceRow(g, TopOf(s)) : <<s, k>> \in owed
  PROVE  Work(g, ts, next, more, best, keys, owed)
<1>1. DOMAIN ts = 1..Len(ts) /\ Len(ts) \in Nat /\ c \in Nat /\ ts[c] \in ThreadType
  OBVIOUS
<1>2. Stacks(Range(more)) = Stacks(Range(kept)) \cup {s}
  <2>1. Range(more) = Range(kept) \cup {ts[c]}
    BY <1>1, RangeAppend
  <2> QED BY <2>1 DEF Stacks
<1>3. \A i \in DOMAIN ts : i < c + 1 <=> i < c \/ i = c
  BY <1>1
<1>4. Settled(ts, c + 1, more)
  <2>1. SUFFICES ASSUME NEW i \in DOMAIN ts, PendingAt(ts, c, ts[i].states)
                 PROVE  ts[i].states \in Stacks(Range(more)) \/ PendingAt(ts, c + 1, ts[i].states)
    BY <1>2 DEF Work, Settled
  <2>2. PICK h \in DOMAIN ts : h >= c /\ ts[h].states = ts[i].states
    BY <2>1 DEF PendingAt
  <2>3. CASE h = c
    BY <1>2, <2>2, <2>3
  <2>4. CASE h # c
    <3>1. h >= c + 1
      BY <1>1, <2>2, <2>4
    <3> QED BY <2>2, <3>1 DEF PendingAt
  <2> QED BY <2>3, <2>4
<1>5. BestKept(ts, c + 1, more, best, keys)
  <2>1. SUFFICES ASSUME NEW other \in DOMAIN best
                 PROVE  \E i \in DOMAIN ts :
                          /\ ts[i].states = Append(other[1], other[2])
                          /\ Last(ts[i].slots) = NodeSlot(best[other])
                          /\ i < c + 1 => ts[i].states \in Stacks(Range(more))
    BY DEF Work, BestKept
  <2>2. PICK i \in DOMAIN ts :
          /\ ts[i].states = Append(other[1], other[2])
          /\ Last(ts[i].slots) = NodeSlot(best[other])
          /\ i < c => ts[i].states \in Stacks(Range(kept))
    BY DEF Work, BestKept
  <2> QED BY <1>2, <1>3, <2>2
<1>6. AllReduced(g, ts, more, owed)
  <2>1. SUFFICES ASSUME NEW u \in Stacks(Range(more)), NEW k \in DOMAIN ReduceRow(g, TopOf(u))
                 PROVE  <<u, k>> \in owed \/ Tried(g, ts, u, k)
    BY DEF AllReduced
  <2>2. CASE u = s
    BY <2>2
  <2>3. CASE u # s
    BY <1>2, <2>3 DEF Work, AllReduced
  <2> QED BY <2>2, <2>3
<1> QED BY <1>4, <1>5, <1>6 DEF Work

\* A reduction has been tried and is owed no more.
LEMMA WorkTried ==
  ASSUME NEW g, NEW ts, NEW c, NEW kept, NEW best, NEW keys, NEW owed,
         Work(g, ts, c, kept, best, keys, owed),
         NEW s, NEW i, Tried(g, ts, s, i),
         NEW rest, \A u, k : <<u, k>> \in owed => <<u, k>> \in rest \/ (u = s /\ k = i)
  PROVE  Work(g, ts, c, kept, best, keys, rest)
<1>1. SUFFICES ASSUME NEW u \in Stacks(Range(kept)), NEW k \in DOMAIN ReduceRow(g, TopOf(u))
               PROVE  <<u, k>> \in rest \/ Tried(g, ts, u, k)
  BY DEF Work, AllReduced
<1>2. <<u, k>> \in owed \/ Tried(g, ts, u, k)
  BY DEF Work, AllReduced
<1> QED BY <1>2

\* What the worklist of reduce has, it has when a thread is appended.
LEMMA WorkGrows ==
  ASSUME NEW g, NEW ts \in Seq(ThreadType), NEW t, NEW more, more = Append(ts, t)
  PROVE  /\ DOMAIN more = 1..(Len(ts) + 1) /\ DOMAIN ts = 1..Len(ts) /\ Len(ts) \in Nat
         /\ \A j \in DOMAIN ts : j \in DOMAIN more /\ more[j] = ts[j]
         /\ more[Len(ts) + 1] = t
         /\ t.states \in Stacks(Range(more))
         /\ \A s, k : Tried(g, ts, s, k) => Tried(g, more, s, k)
<1>1. /\ DOMAIN more = 1..(Len(ts) + 1) /\ DOMAIN ts = 1..Len(ts) /\ Len(ts) \in Nat
      /\ \A j \in 1..Len(ts) : more[j] = ts[j]
      /\ more[Len(ts) + 1] = t
  OBVIOUS
<1>2. \A j \in DOMAIN ts : j \in DOMAIN more
  BY <1>1
<1>3. Range(more) = Range(ts) \cup {t}
  BY RangeAppend
<1>4. t.states \in Stacks(Range(more)) /\ Stacks(Range(ts)) \subseteq Stacks(Range(more))
  BY <1>3 DEF Stacks
<1>5. \A s, k : Tried(g, ts, s, k) => Tried(g, more, s, k)
  BY <1>4 DEF Tried
<1> QED BY <1>1, <1>2, <1>4, <1>5

\* A thread with a new node is pushed; the tables do not know the node.
LEMMA WorkPushed ==
  ASSUME NEW g, NEW ts \in Seq(ThreadType), NEW c \in Nat, c <= Len(ts) + 1,
         NEW kept, NEW best, NEW keys, NEW owed,
         Work(g, ts, c, kept, best, keys, owed),
         NEW t, NEW n, Last(t.slots) = NodeSlot(n), n \notin DOMAIN keys
  PROVE  Work(g, Append(ts, t), c, kept, best, keys, owed)
<1>1. PICK more : more = Append(ts, t)
  OBVIOUS
<1>2. /\ DOMAIN more = 1..(Len(ts) + 1) /\ DOMAIN ts = 1..Len(ts) /\ Len(ts) \in Nat
      /\ \A j \in DOMAIN ts : j \in DOMAIN more /\ more[j] = ts[j]
      /\ more[Len(ts) + 1] = t
  BY <1>1, WorkGrows
<1>3. PICK d : d = Len(ts) + 1
  OBVIOUS
<1>4. /\ d \in DOMAIN more /\ d >= c /\ more[d] = t
      /\ \A j \in DOMAIN more : j = d \/ j \in DOMAIN ts
  BY <1>2, <1>3
<1>5. Settled(more, c, kept)
  <2>1. SUFFICES ASSUME NEW j \in DOMAIN more
                 PROVE  more[j].states \in Stacks(Range(kept)) \/ PendingAt(more, c, more[j].states)
    BY DEF Settled
  <2>2. CASE j = d
    BY <1>4, <2>2 DEF PendingAt
  <2>3. CASE j \in DOMAIN ts
    <3>1. more[j] = ts[j]
      BY <1>2, <2>3
    <3>2. ts[j].states \in Stacks(Range(kept)) \/ PendingAt(ts, c, ts[j].states)
      BY <2>3 DEF Work, Settled
    <3>3. PendingAt(ts, c, ts[j].states) => PendingAt(more, c, ts[j].states)
      BY <1>2 DEF PendingAt
    <3> QED BY <3>1, <3>2, <3>3
  <2> QED BY <1>4, <2>2, <2>3
<1>6. BestKept(more, c, kept, best, keys)
  <2>1. SUFFICES ASSUME NEW key \in DOMAIN best
                 PROVE  /\ best[key] \in DOMAIN keys /\ keys[best[key]] = key
                        /\ \E j \in DOMAIN more :
                             /\ more[j].states = Append(key[1], key[2])
                             /\ Last(more[j].slots) = NodeSlot(best[key])
                             /\ j < c => more[j].states \in Stacks(Range(kept))
    BY DEF BestKept
  <2>2. best[key] \in DOMAIN keys /\ keys[best[key]] = key
    BY DEF Work, BestKept
  <2>3. PICK j \in DOMAIN ts :
          /\ ts[j].states = Append(key[1], key[2])
          /\ Last(ts[j].slots) = NodeSlot(best[key])
          /\ j < c => ts[j].states \in Stacks(Range(kept))
    BY DEF Work, BestKept
  <2> QED BY <1>2, <2>2, <2>3
<1>7. Keyed(more, keys)
  <2>1. SUFFICES ASSUME NEW j \in DOMAIN more, Last(more[j].slots).kind = "node",
                        Last(more[j].slots).of \in DOMAIN keys
                 PROVE  more[j].states = Append(keys[Last(more[j].slots).of][1],
                                                keys[Last(more[j].slots).of][2])
    BY DEF Keyed
  <2>2. j # d
    BY <1>4, <2>1 DEF NodeSlot
  <2>3. j \in DOMAIN ts /\ more[j] = ts[j]
    BY <1>2, <1>4, <2>2
  <2> QED BY <2>1, <2>3 DEF Work, Keyed
<1>8. AllReduced(g, more, kept, owed)
  <2>1. \A s, k : Tried(g, ts, s, k) => Tried(g, more, s, k)
    BY <1>1, WorkGrows, Zenon
  <2> QED BY <2>1 DEF Work, AllReduced
<1> QED BY <1>1, <1>5, <1>6, <1>7, <1>8 DEF Work

\* A thread with a new node is pushed; the node is the best of its key.
LEMMA WorkRecorded ==
  ASSUME NEW g, NEW ts \in Seq(ThreadType), NEW c \in Nat, c <= Len(ts) + 1,
         NEW kept, NEW best, NEW keys, NEW owed,
         Work(g, ts, c, kept, best, keys, owed),
         NEW t, NEW n, Last(t.slots) = NodeSlot(n), n \notin DOMAIN keys,
         \A j \in DOMAIN ts : Last(ts[j].slots).kind = "node" => Last(ts[j].slots).of # n,
         NEW key, t.states = Append(key[1], key[2])
  PROVE  Work(g, Append(ts, t), c, kept, Put(best, key, n), Put(keys, n, key), owed)
<1>1. PICK more : more = Append(ts, t)
  OBVIOUS
<1>2. Work(g, more, c, kept, best, keys, owed)
  BY <1>1, WorkPushed
<1>3. /\ DOMAIN more = 1..(Len(ts) + 1) /\ DOMAIN ts = 1..Len(ts) /\ Len(ts) \in Nat
      /\ \A j \in DOMAIN ts : j \in DOMAIN more /\ more[j] = ts[j]
      /\ more[Len(ts) + 1] = t
  BY <1>1, WorkGrows
<1>4. PICK d : d = Len(ts) + 1
  OBVIOUS
<1>5. /\ d \in DOMAIN more /\ ~ (d < c) /\ more[d] = t
      /\ \A j \in DOMAIN more : j = d \/ j \in DOMAIN ts
  BY <1>3, <1>4
<1>6. PICK b, k : b = Put(best, key, n) /\ k = Put(keys, n, key)
  OBVIOUS
<1>7. /\ DOMAIN b = DOMAIN best \cup {key} /\ b[key] = n
      /\ \A other \in DOMAIN best : other # key => b[other] = best[other]
  BY <1>6, Zenon DEF Put
<1>8. /\ DOMAIN k = DOMAIN keys \cup {n} /\ k[n] = key
      /\ \A m \in DOMAIN keys : k[m] = keys[m]
  BY <1>6, Zenon DEF Put
<1>9. BestKept(more, c, kept, b, k)
  <2>1. SUFFICES ASSUME NEW other \in DOMAIN b
                 PROVE  /\ b[other] \in DOMAIN k /\ k[b[other]] = other
                        /\ \E j \in DOMAIN more :
                             /\ more[j].states = Append(other[1], other[2])
                             /\ Last(more[j].slots) = NodeSlot(b[other])
                             /\ j < c => more[j].states \in Stacks(Range(kept))
    BY DEF BestKept
  <2>2. CASE other = key
    <3>1. b[other] = n /\ k[n] = other /\ n \in DOMAIN k
      BY <1>7, <1>8, <2>2
    <3> QED BY <1>5, <2>2, <3>1
  <2>3. CASE other # key
    <3>1. other \in DOMAIN best /\ b[other] = best[other]
      BY <1>7, <2>3
    <3>2. /\ best[other] \in DOMAIN keys /\ keys[best[other]] = other
          /\ \E j \in DOMAIN more :
               /\ more[j].states = Append(other[1], other[2])
               /\ Last(more[j].slots) = NodeSlot(best[other])
               /\ j < c => more[j].states \in Stacks(Range(kept))
      BY <1>2, <3>1 DEF Work, BestKept
    <3> QED BY <1>8, <3>1, <3>2
  <2> QED BY <2>2, <2>3
<1>10. Keyed(more, k)
  <2>1. SUFFICES ASSUME NEW j \in DOMAIN more, NEW top, top = Last(more[j].slots),
                        top.kind = "node", top.of \in DOMAIN k
                 PROVE  more[j].states = Append(k[top.of][1], k[top.of][2])
    BY DEF Keyed
  <2>2. CASE j = d
    <3>1. top.of = n
      BY <1>5, <2>1, <2>2 DEF NodeSlot
    <3> QED BY <1>5, <1>8, <2>2, <3>1
  <2>3. CASE j \in DOMAIN ts /\ top.of \in DOMAIN keys
    <3>1. more[j].states = Append(keys[top.of][1], keys[top.of][2])
      BY <1>2, <2>1, <2>3 DEF Work, Keyed
    <3> QED BY <1>8, <2>3, <3>1
  <2>4. CASE j \in DOMAIN ts /\ top.of = n
    BY <1>3, <2>1, <2>4
  <2> QED BY <1>5, <1>8, <2>1, <2>2, <2>3, <2>4
<1> QED BY <1>1, <1>2, <1>6, <1>9, <1>10 DEF Work

-----------------------------------------------------------------------------
(* The constructor loses no stack but those another thread has             *)

Now == Reach(grammar, tokens, Len(tokens))

Earlier == Reach(grammar, SubSeq(tokens, 1, Len(tokens) - 1), Len(tokens) - 1)

\* The shifts of stack s over the last token are in T.
ShiftsIn(s, T) == \A t : ShiftsTo(grammar, s, Last(tokens), t) => t \in T

\* T has the stacks the reductions after the last token begin with.
StartsIn(T) ==
  IF tokens = << >> THEN << 0 >> \in T ELSE \A s \in Earlier : ShiftsIn(s, T)

\* The reductions of the thread popped last that have not been tried.
Owed ==
  IF pc = "reduce"
  THEN {<<Thread.states, k>> : k \in reduction..Len(ReductionsAt(Top(Thread)))}
  ELSE {}

Lossless ==
  /\ pc = "round" => StartsIn(Stacks(Range(threads)))
  /\ pc \in {"pop", "reduce"} =>
       /\ StartsIn(Stacks(Range(worklist)))
       /\ Work(grammar, worklist, cursor, out, bestNode, nodeKey, Owed)
  /\ pc \in {"scan", "finish", "collect", "done"} => Now \subseteq Stacks(Range(threads))
  /\ pc = "shift" =>
       /\ Earlier \subseteq Stacks(Range(threads))
       /\ \A i \in DOMAIN threads :
            i < cursor => ShiftsIn(threads[i].states, Stacks(Range(out)))
  /\ pc = "collect" =>
       \A i \in DOMAIN threads : i < cursor /\ Accepting(threads[i]) => out # << >>
  /\ pc = "done" =>
       /\ limit = Len(tokens)
       /\ \A t \in Range(threads) : Accepting(t) => accepted # << >>

\* The rows of the automaton.
LEMMA RowsAre ==
  /\ \A s : ReductionsAt(s) = ReduceRow(grammar, s)
  /\ \A s : ShiftsAt(s) = ShiftRow(grammar, s)
  /\ \A s : GotosAt(s) = GotoRow(grammar, s)
BY DEF ReductionsAt, ReduceRow, ShiftsAt, ShiftRow, GotosAt, GotoRow, automaton

\* The states of a sound thread are a stack of the automaton.
LEMMA ThreadStack ==
  ASSUME NEW t, ThreadOK(t)
  PROVE  /\ t.states \in StateStacks(grammar) /\ Len(t.states) \in Nat \ {0}
         /\ TopOf(t.states) = Top(t)
<1>1. /\ t.states \in Seq(Nat) /\ Len(t.states) \in Nat \ {0}
      /\ \A k \in 1..Len(t.states) : t.states[k] \in DOMAIN automaton.items
  BY DEF ThreadOK, Stack, StackType, Handles
<1>2. PICK s \in Seq(Nat) : s = t.states
  BY <1>1
<1>3. \A I : (\A k \in 1..Len(s) : s[k] \in I) => s \in Seq(I)
  OBVIOUS
<1>4. s \in Seq(DOMAIN automaton.items)
  BY <1>1, <1>2, <1>3
<1>5. s # << >>
  BY <1>1, <1>2
<1> QED BY <1>1, <1>2, <1>4, <1>5 DEF StateStacks, automaton, TopOf, Top, Depth

LEMMA InitLossless == Init => Lossless
<1> SUFFICES ASSUME Init PROVE Lossless
  OBVIOUS
<1>1. Range(threads) = {InitialThread} /\ tokens = << >> /\ pc = "round"
  BY DEF Init, Range
<1>2. << 0 >> \in Stacks(Range(threads))
  BY <1>1 DEF Stacks, InitialThread
<1> QED BY <1>1, <1>2 DEF Lossless, StartsIn

\* Steps that leave the input alone leave what the stacks of the input are.
LEMMA InputKept ==
  ASSUME UNCHANGED <<grammar, tokens>>
  PROVE  /\ Now' = Now /\ Earlier' = Earlier
         /\ \A T : StartsIn(T)' = StartsIn(T)
         /\ \A s, T : ShiftsIn(s, T)' = ShiftsIn(s, T)
BY DEF Now, Earlier, StartsIn, ShiftsIn

LEMMA RoundLossless ==
  ASSUME Inv, Lossless, Round
  PROVE  Lossless'
<1>1. UNCHANGED <<grammar, tokens>> /\ worklist' = threads /\ pc' = "pop" /\ pc = "round"
      /\ cursor' = 1 /\ out' = << >> /\ bestNode' = EmptyTable /\ nodeKey' = EmptyTable
  BY DEF Round
<1>2. StartsIn(Stacks(Range(worklist)))'
  <2>1. StartsIn(Stacks(Range(threads)))
    BY <1>1 DEF Lossless
  <2>2. PICK T : T = Stacks(Range(threads))
    OBVIOUS
  <2>3. Stacks(Range(worklist))' = T
    BY <1>1, <2>2
  <2>4. StartsIn(T)'
    BY <1>1, <2>1, <2>2, InputKept
  <2> QED BY <2>3, <2>4 DEF StartsIn, ShiftsIn
<1>3. Work(grammar, worklist, cursor, out, bestNode, nodeKey, {})'
  BY <1>1, WorkRound
<1>4. Owed' = {}
  BY <1>1 DEF Owed
<1> QED BY <1>1, <1>2, <1>3, <1>4 DEF Lossless

\* What has the starting stacks has them still, and so has more.
LEMMA StartsKept ==
  ASSUME UNCHANGED <<grammar, tokens>>, NEW T, StartsIn(T), NEW U, T \subseteq U
  PROVE  StartsIn(U)'
<1>1. StartsIn(U)
  BY DEF StartsIn, ShiftsIn
<1> QED BY <1>1, InputKept

\* A step of reduce that keeps the worklist, or appends to it.
LEMMA WorkStarts ==
  ASSUME UNCHANGED <<grammar, tokens>>, StartsIn(Stacks(Range(worklist))),
         Range(worklist) \subseteq Range(worklist')
  PROVE  StartsIn(Stacks(Range(worklist)))'
<1>1. PICK T, U : T = Stacks(Range(worklist)) /\ U = Stacks(Range(worklist'))
  OBVIOUS
<1>2. T \subseteq U
  BY <1>1 DEF Stacks
<1>3. StartsIn(U)'
  BY <1>1, <1>2, StartsKept
<1> QED BY <1>1, <1>3 DEF StartsIn, ShiftsIn

LEMMA SupersedeLossless ==
  ASSUME Inv, Lossless, Supersede
  PROVE  Lossless'
<1>1. /\ UNCHANGED <<grammar, tokens, worklist, out, bestNode, nodeKey>>
      /\ pc = "pop" /\ pc' = "pop" /\ cursor' = cursor + 1 /\ cursor <= Len(worklist)
  BY DEF Supersede, Popping
<1>2. StartsIn(Stacks(Range(worklist)))'
  BY <1>1, WorkStarts DEF Lossless
<1>3. Owed = {} /\ Owed' = {}
  BY <1>1 DEF Owed
<1>4. PICK c : c = cursor
  OBVIOUS
<1>5. worklist \in Seq(ThreadType) /\ c \in 1..Len(worklist)
  BY <1>1, <1>4 DEF Inv, TypeOK, Cursors
<1>6. PICK n : n = Last(worklist[c].slots).of
  OBVIOUS
<1>7. /\ Last(worklist[c].slots).kind = "node"
      /\ n \in DOMAIN nodeKey /\ nodeKey[n] \in DOMAIN bestNode
      /\ bestNode[nodeKey[n]] # n
  <2>1. /\ Last(worklist[c].slots).kind = "node"
        /\ n \in DOMAIN nodeKey /\ bestNode[nodeKey[n]] # n
    BY <1>4, <1>6 DEF Supersede, Superseded
  <2>2. nodeKey[n] \in Range(nodeKey)
    BY <2>1 DEF Range
  <2> QED BY <2>1, <2>2 DEF Inv, TypeOK
<1>8. Work(grammar, worklist, c, out, bestNode, nodeKey, {})
  BY <1>1, <1>3, <1>4 DEF Lossless
<1>9. Work(grammar, worklist, c + 1, out, bestNode, nodeKey, {})
  BY <1>5, <1>6, <1>7, <1>8, WorkSuperseded
<1> QED BY <1>1, <1>2, <1>3, <1>4, <1>9 DEF Lossless

LEMMA PopLossless ==
  ASSUME Inv, Lossless, Pop
  PROVE  Lossless'
<1>1. /\ UNCHANGED <<grammar, tokens, worklist, bestNode, nodeKey>>
      /\ pc = "pop" /\ pc' = "reduce" /\ cursor' = cursor + 1 /\ cursor <= Len(worklist)
      /\ out' = Append(out, worklist[cursor]) /\ reduction' = 1
  BY DEF Pop, Popping
<1>2. StartsIn(Stacks(Range(worklist)))'
  BY <1>1, WorkStarts DEF Lossless
<1>3. Owed = {}
  BY <1>1 DEF Owed
<1>4. PICK c : c = cursor
  OBVIOUS
<1>5. worklist \in Seq(ThreadType) /\ out \in Seq(ThreadType) /\ c \in 1..Len(worklist)
  BY <1>1, <1>4 DEF Inv, TypeOK, Cursors
<1>6. PICK s : s = worklist[c].states
  OBVIOUS
<1>7. PICK l : l = Len(ReduceRow(grammar, TopOf(s)))
  OBVIOUS
<1>8. DOMAIN ReduceRow(grammar, TopOf(s)) = 1..l
  <2>1. ReduceRow(grammar, TopOf(s)) \in Seq(Reductions)
    BY AutomatonAssumption DEF ReduceRow, Inv, TypeOK
  <2> QED BY <1>7, <2>1
<1>9. Work(grammar, worklist, c, out, bestNode, nodeKey, {})
  BY <1>1, <1>3, <1>4 DEF Lossless
<1>10. PICK more, next, owed :
         /\ more = Append(out, worklist[c]) /\ next = c + 1
         /\ owed = {<<s, k>> : k \in 1..l}
  OBVIOUS
<1>11. Work(grammar, worklist, next, more, bestNode, nodeKey, owed)
  BY <1>5, <1>6, <1>8, <1>9, <1>10, WorkPopped
<1>12. Thread' = worklist[c]
  BY <1>1, <1>4, <1>5 DEF Thread
<1>13. Owed' = {<<s, k>> : k \in 1..l}
  <2>1. (Top(Thread))' = TopOf(s)
    BY <1>6, <1>12 DEF Top, Depth, TopOf
  <2>2. (Len(ReductionsAt(Top(Thread))))' = l
    BY <1>1, <1>7, <2>1 DEF ReductionsAt, ReduceRow, automaton
  <2> QED BY <1>1, <1>6, <1>12, <2>2 DEF Owed
<1> QED BY <1>1, <1>2, <1>4, <1>10, <1>13, <1>11 DEF Lossless

LEMMA AllTriedLossless ==
  ASSUME Inv, Lossless, AllTried
  PROVE  Lossless'
<1>1. /\ UNCHANGED <<grammar, tokens, worklist, cursor, out, bestNode, nodeKey>>
      /\ pc = "reduce" /\ pc' = "pop" /\ reduction > Len(ReductionsAt(Top(Thread)))
  BY DEF AllTried
<1>2. StartsIn(Stacks(Range(worklist)))'
  BY <1>1, WorkStarts DEF Lossless
<1>3. Owed' = {}
  BY <1>1 DEF Owed
<1>4. Owed = {}
  <2>1. PICK l : l = Len(ReductionsAt(Top(Thread)))
    OBVIOUS
  <2>2. reduction \in Nat /\ reduction > l
    BY <1>1, <2>1 DEF Inv, TypeOK
  <2>3. ReductionsAt(Top(Thread)) \in Seq(Reductions)
    BY AutomatonAssumption DEF ReductionsAt, automaton, Inv, TypeOK
  <2>4. reduction..l = {}
    BY <2>1, <2>2, <2>3
  <2> QED BY <1>1, <2>1, <2>4 DEF Owed
<1> QED BY <1>1, <1>2, <1>3, <1>4 DEF Lossless

\* What a reduction leaves is in ts: the reduction has been tried.
LEMMA ReductionTried ==
  ASSUME Inv, Reducing, NEW ts, NEW s, s = Thread.states, NEW i, i = reduction,
         Reduction.rule \in DOMAIN GotosAt(Top(Below)) =>
           Append(Below.states, Goto) \in Stacks(Range(ts))
  PROVE  Tried(grammar, ts, s, i)
<1>1. PICK th \in Range(worklist), r \in Reductions :
        th = Thread /\ r = Reduction /\ ThreadOK(th) /\ Below = Base(th, r.length)
  BY ReducingFacts
<1>2. s = th.states /\ TopOf(s) = Top(th) /\ Len(s) = Depth(th)
  BY <1>1, ThreadStack DEF Depth
<1>3. ReduceRow(grammar, TopOf(s))[i] = r
  BY <1>1, <1>2, RowsAre DEF Reduction
<1>4. SUFFICES ASSUME NEW m \in 1..Len(s), m = Len(s) - r.length,
                      r.rule \in DOMAIN GotoRow(grammar, s[m])
               PROVE  Append(SubSeq(s, 1, m), GotoRow(grammar, s[m])[r.rule]) \in Stacks(Range(ts))
  BY <1>3 DEF Tried
<1>5. Below.states = SubSeq(s, 1, m)
  BY <1>1, <1>2, <1>4 DEF Base
<1>6. Top(Below) = s[m]
  <2>1. s \in Seq(Nat) /\ m \in Nat
    BY <1>1, <1>2 DEF ThreadOK, Stack, StackType
  <2>2. Len(SubSeq(s, 1, m)) = m /\ SubSeq(s, 1, m)[m] = s[m]
    BY <2>1
  <2> QED BY <1>5, <2>2 DEF Top, Depth
<1>7. GotosAt(Top(Below)) = GotoRow(grammar, s[m])
  BY <1>6, RowsAre
<1> QED BY <1>1, <1>4, <1>5, <1>7 DEF Goto

\* A reduction is owed no more.
LEMMA OwedLess ==
  ASSUME TypeOK, pc = "reduce", UNCHANGED <<pc, grammar>>, Thread' = Thread,
         reduction' = reduction + 1, NEW s, s = Thread.states, NEW i, i = reduction
  PROVE  \A u, k : <<u, k>> \in Owed => <<u, k>> \in Owed' \/ (u = s /\ k = i)
<1>1. PICK l : l = Len(ReductionsAt(Top(Thread)))
  OBVIOUS
<1>2. l \in Nat /\ i \in Nat
  <2>1. ReductionsAt(Top(Thread)) \in Seq(Reductions)
    BY AutomatonAssumption DEF ReductionsAt, automaton, TypeOK
  <2> QED BY <1>1, <2>1 DEF TypeOK
<1>3. (Len(ReductionsAt(Top(Thread))))' = l
  <2>1. PICK th : th = Thread
    OBVIOUS
  <2>2. Thread' = th
    BY <2>1
  <2> QED BY <1>1, <2>1, <2>2 DEF Top, Depth, ReductionsAt, automaton
<1>4. Owed = {<<s, k>> : k \in i..l}
  BY <1>1 DEF Owed
<1>5. Owed' = {<<s, k>> : k \in (i + 1)..l}
  BY <1>3 DEF Owed
<1>6. \A k \in i..l : k = i \/ k \in (i + 1)..l
  BY <1>2
<1> QED BY <1>4, <1>5, <1>6

\* A reduction whose outcome the worklist has.
LEMMA ReducedLossless ==
  ASSUME Inv, Lossless, Reducing, UNCHANGED <<grammar, tokens, cursor, out, pc>>,
         reduction' = reduction + 1, Thread' = Thread,
         Range(worklist) \subseteq Range(worklist'),
         Work(grammar, worklist', cursor, out, bestNode', nodeKey', Owed),
         Reduction.rule \in DOMAIN GotosAt(Top(Below)) =>
           Append(Below.states, Goto) \in Stacks(Range(worklist'))
  PROVE  Lossless'
<1>1. PICK ts, s, i, owed, rest :
        /\ ts = worklist' /\ s = Thread.states /\ i = reduction
        /\ owed = Owed /\ rest = Owed'
  OBVIOUS
<1>2. Tried(grammar, ts, s, i)
  BY <1>1, ReductionTried
<1>3. \A u, k : <<u, k>> \in owed => <<u, k>> \in rest \/ (u = s /\ k = i)
  BY <1>1, OwedLess DEF Reducing, Inv
<1>4. PICK best, keys : best = bestNode' /\ keys = nodeKey'
  OBVIOUS
<1>5. Work(grammar, ts, cursor, out, best, keys, owed)
  BY <1>1, <1>4
<1>6. Work(grammar, ts, cursor, out, best, keys, rest)
  BY <1>2, <1>3, <1>5, WorkTried
<1>7. StartsIn(Stacks(Range(worklist)))'
  BY WorkStarts DEF Lossless, Reducing
<1>8. Work(grammar, worklist, cursor, out, bestNode, nodeKey, Owed)'
  BY <1>1, <1>4, <1>6
<1> QED BY <1>7, <1>8 DEF Lossless, Reducing

LEMMA NoGotoLossless ==
  ASSUME Inv, Lossless, NoGoto
  PROVE  Lossless'
<1>1. /\ UNCHANGED <<grammar, tokens, cursor, out, pc, worklist, bestNode, nodeKey>>
      /\ reduction' = reduction + 1 /\ Reducing /\ pc = "reduce"
      /\ Reduction.rule \notin DOMAIN GotosAt(Top(Below))
  BY DEF NoGoto, Reduced, Reducing
<1>2. Thread' = Thread
  BY <1>1 DEF Thread
<1>3. Work(grammar, worklist', cursor, out, bestNode', nodeKey', Owed)
  BY <1>1 DEF Lossless
<1> QED BY <1>1, <1>2, <1>3, ReducedLossless

\* The best node of the key is in the worklist already.
LEMMA LosesLossless ==
  ASSUME Inv, Lossless, ReduceLoses
  PROVE  Lossless'
<1>1. /\ UNCHANGED <<grammar, tokens, cursor, out, pc, worklist, bestNode, nodeKey>>
      /\ reduction' = reduction + 1 /\ Reducing /\ pc = "reduce" /\ Key \in DOMAIN bestNode
  BY DEF ReduceLoses, Allocate, Reduced, Reducing
<1>2. Thread' = Thread
  BY <1>1 DEF Thread
<1>3. Work(grammar, worklist, cursor, out, bestNode, nodeKey, Owed)
  BY <1>1 DEF Lossless
<1>4. Append(Below.states, Goto) \in Stacks(Range(worklist))
  <2>1. PICK key : key = Key
    OBVIOUS
  <2>2. key[1] = Below.states /\ key[2] = Goto
    BY <2>1 DEF Key
  <2>3. PICK j \in DOMAIN worklist : worklist[j].states = Append(key[1], key[2])
    BY <1>1, <1>3, <2>1 DEF Work, BestKept
  <2> QED BY <2>2, <2>3 DEF Stacks, Range
<1> QED BY <1>1, <1>2, <1>3, <1>4, ReducedLossless

\* The thread pushed, and what the worklist and the tables know of its node.
LEMMA PushFacts ==
  ASSUME Inv, Reducing, Propagate, UNCHANGED cursor
  PROVE  \E t, n, key, c :
           /\ worklist' = Append(worklist, t) /\ n = Len(nodes) + 1 /\ key = Key /\ c = cursor
           /\ Last(t.slots) = NodeSlot(n) /\ t.states = Append(key[1], key[2])
           /\ t.states = Append(Below.states, Goto)
           /\ n \notin DOMAIN nodeKey
           /\ \A j \in DOMAIN worklist :
                Last(worklist[j].slots).kind = "node" => Last(worklist[j].slots).of # n
           /\ worklist \in Seq(ThreadType) /\ c \in Nat /\ c <= Len(worklist) + 1
           /\ Range(worklist) \subseteq Range(worklist') /\ Thread' = Thread
           /\ t.states \in Stacks(Range(worklist'))
<1>1. PICK t, n, key, c :
        /\ t = Pushed(Below, Goto, Len(nodes) + 1) /\ n = Len(nodes) + 1
        /\ key = Key /\ c = cursor
  OBVIOUS
<1>2. /\ worklist \in Seq(ThreadType) /\ c \in Nat /\ c - 1 \in DOMAIN worklist
      /\ worklist' = Append(worklist, t)
  BY <1>1 DEF Inv, TypeOK, Cursors, Reducing, Propagate
<1>3. c <= Len(worklist) + 1 /\ Thread' = Thread
  BY <1>1, <1>2 DEF Thread
<1>4. Range(worklist') = Range(worklist) \cup {t}
  BY <1>2, RangeAppend
<1>5. t.states \in Stacks(Range(worklist'))
  BY <1>4 DEF Stacks
<1>6. /\ t.states = Append(Below.states, Goto) /\ t.slots = Append(Below.slots, NodeSlot(n))
      /\ t.states = Append(key[1], key[2])
  BY <1>1 DEF Pushed, Key
<1>7. Last(t.slots) = NodeSlot(n)
  <2>1. PICK th \in Range(worklist), r \in Reductions :
          /\ th = Thread /\ r = Reduction /\ ThreadOK(th)
          /\ Completes(grammar, Top(th), r) /\ Below = Base(th, r.length)
    BY ReducingFacts
  <2>2. Stack(Below.states, Below.slots)
    BY <2>1, BaseSound DEF Inv
  <2>3. Below.slots \in Seq(Slot)
    BY <2>2 DEF Stack, StackType
  <2>4. PICK slots \in Seq(Slot) : slots = Below.slots
    BY <2>3
  <2>5. Append(slots, NodeSlot(n))[Len(Append(slots, NodeSlot(n)))] = NodeSlot(n)
    OBVIOUS
  <2> QED BY <1>6, <2>4, <2>5 DEF Last
<1>8. DOMAIN nodes = 1..Len(nodes) /\ Len(nodes) \in Nat
  BY DEF Inv, TypeOK
<1>9. n \notin DOMAIN nodes
  BY <1>1, <1>8
<1>10. n \notin DOMAIN nodeKey
  BY <1>9 DEF Inv, TypeOK
<1>11. ASSUME NEW j \in DOMAIN worklist, Last(worklist[j].slots).kind = "node"
       PROVE  Last(worklist[j].slots).of # n
  <2>1. PICK th : th = worklist[j]
    OBVIOUS
  <2>2. ThreadOK(th)
    BY <2>1 DEF Inv, Sound, AllThreads, Range
  <2>3. /\ StackType(th.states, th.slots) /\ Run(th.states, th.slots)
    BY <2>2 DEF ThreadOK, Stack
  <2>4. PICK d \in Nat \ {0} : d = Len(th.slots) /\ d = Len(th.states)
    BY <2>3 DEF StackType
  <2>5. Last(th.slots) = th.slots[d]
    BY <2>4 DEF Last
  <2>6. d # 1
    BY <1>11, <2>1, <2>3, <2>5 DEF StackType, NullSlot
  <2>7. Valid(th.slots[d])
    <3>1. d \in 2..d
      BY <2>6
    <3> QED BY <2>3, <2>4, <3>1 DEF Run
  <2> QED BY <1>9, <1>11, <2>1, <2>5, <2>7 DEF Valid
<1> QED BY <1>1, <1>2, <1>3, <1>4, <1>5, <1>6, <1>7, <1>10, <1>11

LEMMA TiesLossless ==
  ASSUME Inv, Lossless, ReduceTies
  PROVE  Lossless'
<1>1. /\ UNCHANGED <<grammar, tokens, cursor, out, pc, bestNode, nodeKey>>
      /\ reduction' = reduction + 1 /\ Reducing /\ pc = "reduce" /\ Propagate
  BY DEF ReduceTies, Allocate, Reduced, Reducing
<1>2. PICK t, n, key, c :
        /\ worklist' = Append(worklist, t) /\ c = cursor
        /\ Last(t.slots) = NodeSlot(n)
        /\ t.states = Append(Below.states, Goto)
        /\ n \notin DOMAIN nodeKey
        /\ worklist \in Seq(ThreadType) /\ c \in Nat /\ c <= Len(worklist) + 1
        /\ Range(worklist) \subseteq Range(worklist') /\ Thread' = Thread
        /\ t.states \in Stacks(Range(worklist'))
  BY <1>1, PushFacts
<1>3. Work(grammar, worklist, c, out, bestNode, nodeKey, Owed)
  BY <1>1, <1>2 DEF Lossless
<1>4. PICK owed : owed = Owed
  OBVIOUS
<1>5. Work(grammar, Append(worklist, t), c, out, bestNode, nodeKey, owed)
  BY <1>2, <1>3, <1>4, WorkPushed
<1>6. Work(grammar, worklist', cursor, out, bestNode', nodeKey', Owed)
  BY <1>1, <1>2, <1>4, <1>5
<1> QED BY <1>1, <1>2, <1>6, ReducedLossless

LEMMA RecordedLossless ==
  ASSUME Inv, Lossless, Allocate, Record, Propagate
  PROVE  Lossless'
<1>1. /\ UNCHANGED <<grammar, tokens, cursor, out, pc>>
      /\ reduction' = reduction + 1 /\ Reducing /\ pc = "reduce" /\ Propagate
  BY DEF Allocate, Reduced, Reducing
<1>2. PICK t, n, key, c :
        /\ worklist' = Append(worklist, t) /\ n = Len(nodes) + 1 /\ key = Key /\ c = cursor
        /\ Last(t.slots) = NodeSlot(n) /\ t.states = Append(key[1], key[2])
        /\ t.states = Append(Below.states, Goto)
        /\ n \notin DOMAIN nodeKey
        /\ \A j \in DOMAIN worklist :
             Last(worklist[j].slots).kind = "node" => Last(worklist[j].slots).of # n
        /\ worklist \in Seq(ThreadType) /\ c \in Nat /\ c <= Len(worklist) + 1
        /\ Range(worklist) \subseteq Range(worklist') /\ Thread' = Thread
        /\ t.states \in Stacks(Range(worklist'))
  BY <1>1, PushFacts
<1>3. Work(grammar, worklist, c, out, bestNode, nodeKey, Owed)
  BY <1>1, <1>2 DEF Lossless
<1>4. PICK owed : owed = Owed
  OBVIOUS
<1>5. Work(grammar, Append(worklist, t), c, out, Put(bestNode, key, n), Put(nodeKey, n, key), owed)
  BY <1>2, <1>3, <1>4, WorkRecorded
<1>6. bestNode' = Put(bestNode, key, n) /\ nodeKey' = Put(nodeKey, n, key)
  BY <1>2 DEF Record
<1>7. Work(grammar, worklist', cursor, out, bestNode', nodeKey', Owed)
  BY <1>1, <1>2, <1>4, <1>5, <1>6
<1> QED BY <1>1, <1>2, <1>7, ReducedLossless

\* Steps outside reduce keep the stacks the threads have.
LEMMA AbortLossless ==
  ASSUME Abort
  PROVE  Lossless'
BY DEF Abort, Lossless

\* Nothing is pending: the stacks kept are those of the worklist, and closed.
LEMMA KeptClosed ==
  ASSUME NEW g, NEW ts \in Seq(ThreadType), NEW c \in Nat, c > Len(ts),
         NEW kept, NEW best, NEW keys, Work(g, ts, c, kept, best, keys, {}),
         \A s : ReduceRow(g, s) \in Seq(Reductions)
  PROVE  /\ Stacks(Range(ts)) \subseteq Stacks(Range(kept))
         /\ ClosedUnder(g, Stacks(Range(kept)))
<1>1. \A j \in DOMAIN ts : j \in Nat /\ ~ (j >= c)
  OBVIOUS
<1>2. \A s : ~ PendingAt(ts, c, s)
  BY <1>1 DEF PendingAt
<1>3. \A j \in DOMAIN ts : ts[j].states \in Stacks(Range(kept))
  BY <1>2 DEF Work, Settled
<1>4. Stacks(Range(ts)) \subseteq Stacks(Range(kept))
  BY <1>3 DEF Stacks, Range
<1>5. ASSUME NEW s \in Stacks(Range(kept)), NEW t, ReducesTo(g, s, t)
      PROVE  t \in Stacks(Range(kept))
  <2>1. PICK r \in Range(ReduceRow(g, TopOf(s))), m \in 1..Len(s) :
          /\ m = Len(s) - r.length
          /\ r.rule \in DOMAIN GotoRow(g, s[m])
          /\ t = Append(SubSeq(s, 1, m), GotoRow(g, s[m])[r.rule])
    BY <1>5 DEF ReducesTo
  <2>2. PICK k \in DOMAIN ReduceRow(g, TopOf(s)) : ReduceRow(g, TopOf(s))[k] = r
    BY DEF Range
  <2>3. Tried(g, ts, s, k)
    BY DEF Work, AllReduced
  <2>4. t \in Stacks(Range(ts))
    BY <2>1, <2>2, <2>3 DEF Tried
  <2> QED BY <1>4, <2>4
<1> QED BY <1>4, <1>5 DEF ClosedUnder

\* What has the starting stacks and is closed has all the stacks of the input.
LEMMA NowIn ==
  ASSUME Inv, NEW T \in SUBSET StateStacks(grammar), StartsIn(T), ClosedUnder(grammar, T)
  PROVE  Now \subseteq T
<1>1. grammar \in Grammars /\ tokens \in Seq(Terminals)
  BY DEF Inv, TypeOK
<1>2. CASE tokens = << >>
  <2>1. Len(tokens) = 0
    BY <1>2
  <2> QED BY <1>1, <1>2, <2>1, ReachStart DEF StartsIn, Now
<1>3. CASE tokens # << >>
  <2>1. PICK v \in Seq(Terminals) : v = tokens
    BY <1>1
  <2>2. PICK n \in Nat : n = Len(v) - 1 /\ Len(v) = n + 1
    BY <1>3, <2>1
  <2>3. PICK w : w = SubSeq(v, 1, n)
    OBVIOUS
  <2>4. Len(w) = n /\ \A p \in 1..n : v[p] = w[p]
    BY <2>2, <2>3
  <2>5. Last(tokens) = v[n + 1] /\ Earlier = Reach(grammar, w, n)
    BY <2>1, <2>2, <2>3 DEF Last, Earlier
  <2>6. \A s \in Reach(grammar, w, n) : \A t : ShiftsTo(grammar, s, v[n + 1], t) => t \in T
    BY <1>3, <2>5 DEF StartsIn, ShiftsIn
  <2>7. Reach(grammar, v, n + 1) \subseteq T
    BY <1>1, <2>2, <2>4, <2>6, ReachNext
  <2> QED BY <2>1, <2>2, <2>7 DEF Now
<1> QED BY <1>2, <1>3

LEMMA FixedPointLossless ==
  ASSUME Inv, Lossless, FixedPoint
  PROVE  Lossless'
<1>1. /\ UNCHANGED <<grammar, tokens>> /\ threads' = out /\ pc = "pop"
      /\ pc' \in {"finish", "scan"} /\ cursor > Len(worklist)
  BY DEF FixedPoint
<1>2. PICK T : T = Stacks(Range(out))
  OBVIOUS
<1>3. Work(grammar, worklist, cursor, out, bestNode, nodeKey, {})
  BY <1>1 DEF Lossless, Owed
<1>4. \A s : ReduceRow(grammar, s) \in Seq(Reductions)
  BY AutomatonAssumption DEF ReduceRow, Inv, TypeOK
<1>5. worklist \in Seq(ThreadType) /\ cursor \in Nat
  BY DEF Inv, TypeOK
<1>6. Stacks(Range(worklist)) \subseteq T /\ ClosedUnder(grammar, T)
  BY <1>1, <1>2, <1>3, <1>4, <1>5, KeptClosed
<1>7. T \in SUBSET StateStacks(grammar)
  <2>1. \A t \in Range(out) : t.states \in StateStacks(grammar)
    BY ThreadStack DEF Inv, Sound, AllThreads
  <2> QED BY <1>2, <2>1 DEF Stacks
<1>8. StartsIn(T)
  BY <1>1, <1>6 DEF Lossless, StartsIn, ShiftsIn
<1>9. Now \subseteq T
  BY <1>6, <1>7, <1>8, NowIn
<1>10. Now' \subseteq Stacks(Range(threads'))
  BY <1>1, <1>2, <1>9, InputKept
<1> QED BY <1>1, <1>10 DEF Lossless

LEMMA ScanTokenLossless ==
  ASSUME Inv, Lossless, NEW type \in Terminals, ScanToken(type)
  PROVE  Lossless'
<1>1. /\ UNCHANGED <<grammar, threads>> /\ tokens' = Append(tokens, type)
      /\ cursor' = 1 /\ pc = "scan" /\ pc' = "shift"
  BY DEF ScanToken
<1>2. PICK n \in Nat : n = Len(tokens) /\ tokens \in Seq(Terminals)
  BY DEF Inv, TypeOK
<1>3. Len(tokens') - 1 = n /\ SubSeq(tokens', 1, n) = tokens
  <2>1. Len(tokens') = n + 1 /\ tokens' \in Seq(Terminals)
    BY <1>1, <1>2
  <2>2. PICK v \in Seq(Terminals), w \in Seq(Terminals) : v = tokens' /\ w = tokens
    BY <1>2, <2>1
  <2>3. v = Append(w, type) /\ Len(w) = n
    BY <1>1, <1>2, <2>2
  <2>4. SubSeq(v, 1, n) \in Seq(Terminals) /\ Len(SubSeq(v, 1, n)) = n
        /\ \A i \in 1..n : SubSeq(v, 1, n)[i] = w[i]
    BY <1>2, <2>3
  <2>5. SubSeq(v, 1, n) = w
    BY <2>3, <2>4, SeqEqual
  <2> QED BY <2>1, <2>2, <2>5
<1>4. Earlier' = Now
  BY <1>1, <1>2, <1>3 DEF Earlier, Now
<1>5. DOMAIN threads = 1..Len(threads)
  BY DEF Inv, TypeOK
<1>6. \A i \in DOMAIN threads' : ~ (i < cursor')
  BY <1>1, <1>5
<1> QED BY <1>1, <1>4, <1>6 DEF Lossless

LEMMA ScanNothingLossless ==
  ASSUME Lossless, ScanNothing
  PROVE  Lossless'
BY DEF ScanNothing, Lossless, Now

\* What a thread shifted to keeps the stack of, the threads before it keep too.
LEMMA ShiftedIn ==
  ASSUME Inv, Lossless, pc = "shift", pc' = "shift", UNCHANGED <<grammar, tokens, threads>>,
         cursor' = cursor + 1, Range(out) \subseteq Range(out'),
         ShiftsIn(threads[cursor].states, Stacks(Range(out')))
  PROVE  Lossless'
<1>1. PICK T, U : T = Stacks(Range(out)) /\ U = Stacks(Range(out'))
  OBVIOUS
<1>2. T \subseteq U
  BY <1>1 DEF Stacks
<1>3. cursor \in Nat /\ DOMAIN threads = 1..Len(threads)
  BY DEF Inv, TypeOK
<1>4. ASSUME NEW i \in DOMAIN threads, i < cursor + 1
      PROVE  ShiftsIn(threads[i].states, U)
  <2>1. CASE i = cursor
    BY <1>1, <2>1
  <2>2. CASE i # cursor
    <3>1. i < cursor
      BY <1>3, <1>4, <2>2
    <3>2. ShiftsIn(threads[i].states, T)
      BY <1>1, <3>1 DEF Lossless
    <3> QED BY <1>2, <3>2 DEF ShiftsIn
  <2> QED BY <2>1, <2>2
<1>5. (\A i \in DOMAIN threads : i < cursor => ShiftsIn(threads[i].states, Stacks(Range(out))))'
  BY <1>1, <1>4 DEF ShiftsIn
<1>6. (Earlier \subseteq Stacks(Range(threads)))'
  BY DEF Lossless, Earlier
<1> QED BY <1>5, <1>6 DEF Lossless

\* Where a thread goes over the last token.
LEMMA ShiftOf ==
  ASSUME Inv, Shifting, NEW t, ShiftsTo(grammar, threads[cursor].states, Last(tokens), t)
  PROVE  CanShift(threads[cursor]) /\ t = AfterShift(threads[cursor]).states
<1>1. PICK th : th = threads[cursor]
  OBVIOUS
<1>2. cursor \in DOMAIN threads
  BY DEF Inv, TypeOK, Cursors, Shifting
<1>3. ThreadOK(th)
  BY <1>1, <1>2 DEF Inv, Sound, AllThreads, Range
<1>4. TopOf(th.states) = Top(th)
  BY <1>3, ThreadStack
<1>5. ShiftRow(grammar, TopOf(th.states)) = ShiftsAt(Top(th))
  BY <1>4, RowsAre
<1> QED BY <1>1, <1>5 DEF ShiftsTo, CanShift, AfterShift, Shifted

LEMMA ShiftLossless ==
  ASSUME Inv, Lossless, Shift
  PROVE  Lossless'
<1>1. /\ pc = "shift" /\ UNCHANGED <<pc, grammar, tokens, threads>> /\ cursor' = cursor + 1
      /\ Shifting /\ out' = Append(out, AfterShift(threads[cursor]))
  BY DEF Shift, Shifting, NextThread
<1>2. PICK th : th = AfterShift(threads[cursor])
  OBVIOUS
<1>3. Range(out') = Range(out) \cup {th}
  <2>1. out \in Seq(ThreadType) /\ out' = Append(out, th)
    BY <1>1, <1>2 DEF Inv, TypeOK
  <2> QED BY <2>1, RangeAppend
<1>4. th.states \in Stacks(Range(out'))
  BY <1>3 DEF Stacks
<1>5. ShiftsIn(threads[cursor].states, Stacks(Range(out')))
  BY <1>1, <1>2, <1>4, ShiftOf DEF ShiftsIn
<1> QED BY <1>1, <1>3, <1>5, ShiftedIn

LEMMA DropLossless ==
  ASSUME Inv, Lossless, Drop
  PROVE  Lossless'
<1>1. /\ pc = "shift" /\ UNCHANGED <<pc, grammar, tokens, threads, out>> /\ cursor' = cursor + 1
      /\ Shifting /\ (CanShift(threads[cursor]) => Seen(AfterShift(threads[cursor])))
  BY DEF Drop, Shifting, NextThread
<1>2. ASSUME NEW t, ShiftsTo(grammar, threads[cursor].states, Last(tokens), t)
      PROVE  t \in Stacks(Range(out))
  <2>1. CanShift(threads[cursor]) /\ t = AfterShift(threads[cursor]).states
    BY <1>1, <1>2, ShiftOf
  <2> QED BY <1>1, <2>1 DEF Seen, Stacks
<1>3. ShiftsIn(threads[cursor].states, Stacks(Range(out')))
  BY <1>1, <1>2 DEF ShiftsIn
<1> QED BY <1>1, <1>3, ShiftedIn

LEMMA AllShiftedLossless ==
  ASSUME Inv, Lossless, AllShifted
  PROVE  Lossless'
<1>1. /\ UNCHANGED <<grammar, tokens>> /\ threads' = out /\ pc = "shift" /\ pc' = "round"
      /\ cursor > Len(threads)
  BY DEF AllShifted
<1>2. PICK T : T = Stacks(Range(out))
  OBVIOUS
<1>3. \A i \in DOMAIN threads : i < cursor
  BY <1>1 DEF Inv, TypeOK
<1>4. \A s \in Earlier : ShiftsIn(s, T)
  <2>1. SUFFICES ASSUME NEW s \in Earlier PROVE ShiftsIn(s, T)
    OBVIOUS
  <2>2. PICK i \in DOMAIN threads : s = threads[i].states
    BY <1>1 DEF Lossless, Stacks, Range
  <2> QED BY <1>1, <1>2, <1>3, <2>2 DEF Lossless
<1>5. StartsIn(T)
  BY <1>1, <1>4 DEF StartsIn, Inv, Positions
<1>6. StartsIn(T)'
  BY <1>1, <1>5, InputKept
<1>7. StartsIn(Stacks(Range(threads)))'
  BY <1>1, <1>2, <1>6 DEF StartsIn, ShiftsIn
<1> QED BY <1>1, <1>7 DEF Lossless

LEMMA FinishLossless ==
  ASSUME Inv, Lossless, Finish
  PROVE  Lossless'
<1>1. /\ UNCHANGED <<grammar, tokens, threads>> /\ pc = "finish" /\ pc' = "collect" /\ cursor' = 1
  BY DEF Finish
<1>2. \A i \in DOMAIN threads' : ~ (i < cursor')
  BY <1>1 DEF Inv, TypeOK
<1>3. (Now \subseteq Stacks(Range(threads)))'
  BY <1>1 DEF Lossless, Now
<1> QED BY <1>1, <1>2, <1>3 DEF Lossless

\* The thread is kept if it is accepting.
LEMMA CollectLossless ==
  ASSUME Inv, Lossless, Accept \/ Reject
  PROVE  Lossless'
<1>1. /\ UNCHANGED <<pc, grammar, tokens, threads>> /\ pc = "collect" /\ cursor' = cursor + 1
      /\ Collecting
  BY DEF Accept, Reject, Collecting, NextThread
<1>2. (Now \subseteq Stacks(Range(threads)))'
  BY <1>1 DEF Lossless, Now
<1>3. \A t : Accepting(t)' <=> Accepting(t)
  BY <1>1 DEF Accepting, automaton
<1>4. ASSUME NEW i \in DOMAIN threads, i < cursor + 1, Accepting(threads[i])
      PROVE  out' # << >>
  <2>1. out \in Seq(ThreadType) /\ cursor \in Nat /\ i \in Nat
    BY DEF Inv, TypeOK
  <2>2. CASE Accept
    <3>1. out' = Append(out, threads[cursor])
      BY <2>2 DEF Accept
    <3> QED BY <2>1, <3>1
  <2>3. CASE Reject
    <3>1. i < cursor /\ out' = out
      BY <1>4, <2>1, <2>3 DEF Reject
    <3> QED BY <1>1, <1>4, <3>1 DEF Lossless
  <2> QED BY <2>2, <2>3
<1>5. (\A i \in DOMAIN threads : i < cursor /\ Accepting(threads[i]) => out # << >>)'
  BY <1>1, <1>3, <1>4
<1> QED BY <1>1, <1>2, <1>5 DEF Lossless

LEMMA CollectedLossless ==
  ASSUME Inv, Lossless, Collected
  PROVE  Lossless'
<1>1. /\ UNCHANGED <<grammar, tokens, threads, out>> /\ pc = "collect" /\ pc' = "done"
      /\ cursor > Len(threads) /\ accepted' = out /\ limit' = Len(tokens)
  BY DEF Collected
<1>2. (Now \subseteq Stacks(Range(threads)))'
  BY <1>1 DEF Lossless, Now
<1>3. \A t : Accepting(t)' <=> Accepting(t)
  BY <1>1 DEF Accepting, automaton
<1>4. ASSUME NEW t \in Range(threads), Accepting(t)
      PROVE  accepted' # << >>
  <2>1. PICK i \in DOMAIN threads : t = threads[i]
    BY DEF Range
  <2>2. i < cursor
    BY <1>1 DEF Inv, TypeOK
  <2> QED BY <1>1, <1>4, <2>1, <2>2 DEF Lossless
<1> QED BY <1>1, <1>2, <1>3, <1>4 DEF Lossless

LEMMA NextLossless == Inv /\ Lossless /\ [Next]_vars => Lossless'
<1> SUFFICES ASSUME Inv, Lossless, [Next]_vars PROVE Lossless'
  OBVIOUS
<1>1. CASE Reduce
  <2>1. CASE ReduceFirst
    BY <2>1, RecordedLossless DEF ReduceFirst
  <2>2. CASE ReduceWins
    BY <2>2, RecordedLossless DEF ReduceWins
  <2> QED
    BY <1>1, <2>1, <2>2, NoGotoLossless, LosesLossless, TiesLossless, AbortLossless DEF Reduce
<1>2. CASE UNCHANGED vars
  <2>1. /\ Owed' = Owed /\ Now' = Now /\ Earlier' = Earlier
        /\ \A T : StartsIn(T)' = StartsIn(T)
        /\ \A s, T : ShiftsIn(s, T)' = ShiftsIn(s, T)
    BY <1>2 DEF vars, Owed, Now, Earlier, StartsIn, ShiftsIn, Thread, Top, Depth, ReductionsAt,
       automaton
  <2> QED BY <1>2, <2>1 DEF vars, Lossless, StartsIn, ShiftsIn, Accepting, automaton, Top, Depth
<1> QED
  BY <1>1, <1>2, RoundLossless, SupersedeLossless, PopLossless, AllTriedLossless,
     FixedPointLossless, ScanTokenLossless, ScanNothingLossless, ShiftLossless, DropLossless,
     AllShiftedLossless, FinishLossless, CollectLossless, CollectedLossless DEF Next

-----------------------------------------------------------------------------
(* The language of the chart                                               *)

\* The root of an accepted thread is a derivation of the input.
LEMMA AcceptedDerived ==
  ASSUME Inv, Placed, Lossless, pc = "done", accepted # << >>
  PROVE  Sentence(grammar, tokens)
<1>1. accepted \in Seq(ThreadType) /\ limit = Len(tokens)
  BY DEF Inv, TypeOK, Lossless
<1>2. PICK t : t \in Range(accepted)
  BY <1>1 DEF Range
<1>3. /\ Depth(t) = 2 /\ t.slots[2].kind = "node"
      /\ nodes[t.slots[2].of].rule = grammar.start
      /\ nodes[t.slots[2].of].start = 0 /\ nodes[t.slots[2].of].end = limit
  BY <1>2, InvRoots DEF AcceptedRoots
<1>4. Run(t.states, t.slots) /\ Len(t.states) = 2
  BY <1>2, <1>3 DEF Inv, Sound, AllThreads, ThreadOK, Stack, Depth
<1>5. t.slots[2].of \in DOMAIN nodes
  BY <1>3, <1>4 DEF Run, Valid
<1>6. SpanOf(t.slots[2].of) = <<grammar.start, 0, Len(tokens)>>
  BY <1>1, <1>3 DEF SpanOf
<1> QED BY <1>5, <1>6, NodeSpans DEF Sentence

\* A thread for the stack a derivation leads to is among those collected.
LEMMA DerivedAccepted ==
  ASSUME Inv, Lossless, pc = "done", WholeAutomaton(grammar), Sentence(grammar, tokens)
  PROVE  accepted # << >>
<1>1. PICK s \in Now : TopOf(s) = grammar.automaton.accept
  BY SentenceReached DEF Inv, TypeOK, Now
<1>2. PICK t \in Range(threads) : s = t.states
  BY DEF Lossless, Stacks
<1>3. TopOf(t.states) = Top(t)
  BY ThreadStack DEF Inv, Sound, AllThreads
<1>4. Accepting(t)
  BY <1>1, <1>2, <1>3 DEF Accepting, automaton
<1> QED BY <1>4 DEF Lossless

LEMMA InitPlaced == Init => Placed
BY DEF Init, Placed

LEMMA LanguageInvariance == Spec => [](Inv /\ Placed /\ Lossless)
<1>1. Init => Inv /\ Placed /\ Lossless
  BY InitInv, InitPlaced, InitLossless
<1>2. Inv /\ Placed /\ Lossless /\ [Next]_vars => (Inv /\ Placed /\ Lossless)'
  BY NextInv, PlacedKept, NextLossless
<1> QED BY <1>1, <1>2, PTL DEF Spec

\* An input construct accepts, with whatever automaton, is a sentence of the grammar.
THEOREM AcceptedIsSentence ==
  Spec => [](pc = "done" /\ accepted # << >> => Sentence(grammar, tokens))
<1>1. Inv /\ Placed /\ Lossless => (pc = "done" /\ accepted # << >> => Sentence(grammar, tokens))
  BY AcceptedDerived
<1> QED BY <1>1, LanguageInvariance, PTL

\* With an automaton that has all the moves its items call for, construct accepts
\* an input exactly when the grammar derives it: the threads that reduce leaves
\* out and shift drops lose no sentence.
THEOREM LanguageCorrect == Spec => [](WholeAutomaton(grammar) => AcceptsLanguage)
<1>1. Inv /\ Placed /\ Lossless => (WholeAutomaton(grammar) => AcceptsLanguage)
  BY AcceptedDerived, DerivedAccepted DEF AcceptsLanguage
<1> QED BY <1>1, LanguageInvariance, PTL
-----------------------------------------------------------------------------
(***************************************************************************)
(* Which of the competing threads go on.  The tables know the best node of *)
(* a key; that it is the best of all threads made for that key, and that   *)
(* every thread is in the tables or cannot be ranked, is what the check in *)
(* front of Pop relies on.                                                 *)
(***************************************************************************)

HasNode(t) == Last(t.slots).kind = "node"
NodeOn(t) == Last(t.slots).of

\* The key a thread was made for.
KeyFor(t) ==
  <<SubSeq(t.states, 1, Depth(t) - 1), Top(t), nodes[NodeOn(t)].rule, t.pos>>

Priority(n) == AlternativeOf(nodes[n]).priority

\* A thread is known by its key, and is not better than the best node of it.
Filed(t) ==
  LET n == NodeOn(t)
      best == bestNode[KeyFor(t)]
  IN  /\ n \in DOMAIN nodes /\ KeyFor(t) \in DOMAIN bestNode
      /\ n \in DOMAIN nodeKey => nodeKey[n] = KeyFor(t)
      /\ Priority(n) # Null /\ Priority(best) # Null =>
           n \in DOMAIN nodeKey /\ Priority(n) <= Priority(best)

\* The best node of a key is that of a thread.
Backed(key) ==
  \E t \in Range(worklist) :
    HasNode(t) /\ KeyFor(t) = key /\ NodeOn(t) = bestNode[key]

TablesRanked ==
  /\ pc = "round" => \A t \in Range(threads) : ~ HasNode(t)
  /\ pc = "shift" => \A t \in Range(out) : ~ HasNode(t)
  /\ \A t \in Range(worklist) : HasNode(t) => Filed(t)
  /\ \A key \in DOMAIN bestNode : Backed(key)

\* Where a node has a priority, it is a number.
LEMMA PrioritiesAre ==
  ASSUME Placed, grammar \in Grammars, NEW n \in DOMAIN nodes
  PROVE  Priority(n) = Null \/ Priority(n) \in Int
<1>1. /\ nodes[n].rule \in DOMAIN grammar.rules
      /\ nodes[n].alt \in 1..Len(grammar.rules[nodes[n].rule])
  BY DEF Placed
<1>2. grammar.rules[nodes[n].rule] \in Seq(Alternatives)
  BY <1>1, GrammarAssumption
<1>3. AlternativeOf(nodes[n]) \in Alternatives
  BY <1>1, <1>2 DEF AlternativeOf
<1> QED BY <1>3, PriorityAssumption DEF Priority

\* The same of the nodes there are next.
LEMMA NextPrioritiesAre ==
  ASSUME Placed', (grammar \in Grammars)', NEW n \in DOMAIN nodes'
  PROVE  Priority(n)' = Null \/ Priority(n)' \in Int
<1>1. /\ nodes'[n].rule \in DOMAIN grammar'.rules
      /\ nodes'[n].alt \in 1..Len(grammar'.rules[nodes'[n].rule])
  BY DEF Placed
<1>2. grammar'.rules[nodes'[n].rule] \in Seq(Alternatives)
  BY <1>1, GrammarAssumption
<1>3. AlternativeOf(nodes[n])' \in Alternatives
  BY <1>1, <1>2 DEF AlternativeOf
<1> QED BY <1>3, PriorityAssumption DEF Priority

\* Sequences are equal when their last elements are and what is in front of them.
LEMMA FrontAndLast ==
  ASSUME NEW T, NEW a \in Seq(T), NEW b \in Seq(T), Len(a) # 0, Len(b) # 0,
         SubSeq(a, 1, Len(a) - 1) = SubSeq(b, 1, Len(b) - 1), a[Len(a)] = b[Len(b)]
  PROVE  a = b
<1>1. Len(a) \in Nat /\ Len(b) \in Nat
  OBVIOUS
<1>2. Len(a) - 1 \in Nat /\ Len(b) - 1 \in Nat
  BY <1>1
<1> PICK m \in Nat : m = Len(a) - 1
  BY <1>2
<1> PICK n \in Nat : n = Len(b) - 1
  BY <1>2
<1>3. /\ Len(SubSeq(a, 1, m)) = m /\ Len(SubSeq(b, 1, n)) = n
      /\ \A k \in 1..m : SubSeq(a, 1, m)[k] = a[k]
      /\ \A k \in 1..n : SubSeq(b, 1, n)[k] = b[k]
  BY <1>1, SubSeqProperties
<1>4. m = n
  BY <1>1, <1>3
<1>5. \A k \in 1..Len(a) : k = Len(a) \/ k \in 1..m
  BY <1>1
<1>6. \A k \in 1..Len(a) : a[k] = b[k]
  BY <1>1, <1>3, <1>4, <1>5
<1> QED BY <1>1, <1>4, <1>6

LEMMA InitRanked == Init => TablesRanked
<1> SUFFICES ASSUME Init PROVE TablesRanked
  OBVIOUS
<1>1. Range(threads) = {InitialThread} /\ Range(worklist) = {} /\ DOMAIN bestNode = {}
  BY DEF Init, Range, EmptyTable
<1>2. Last(InitialThread.slots) = NullSlot
  BY DEF InitialThread, Last
<1>3. ~ HasNode(InitialThread)
  BY <1>2 DEF HasNode, NullSlot
<1> QED BY <1>1, <1>3 DEF Init, TablesRanked

\* The threads a round begins with have a token on top, or nothing.
LEMMA RoundRanked ==
  ASSUME TablesRanked, Round
  PROVE  TablesRanked'
<1>1. worklist' = threads /\ bestNode' = EmptyTable /\ pc = "round" /\ pc' = "pop"
  BY DEF Round
<1>2. \A t \in Range(worklist') : ~ HasNode(t)
  BY <1>1 DEF TablesRanked
<1>3. DOMAIN bestNode' = {}
  BY <1>1 DEF EmptyTable
<1> QED BY <1>1, <1>2, <1>3 DEF TablesRanked, HasNode

Tables == <<grammar, nodes, worklist, bestNode, nodeKey>>

\* Other loops than that of the reductions leave the tables alone.
LEMMA QuietRanked ==
  ASSUME TablesRanked, UNCHANGED Tables,
         pc' = "round" => \A t \in Range(threads') : ~ HasNode(t),
         pc' = "shift" => \A t \in Range(out') : ~ HasNode(t)
  PROVE  TablesRanked'
<1>1. \A t : KeyFor(t)' = KeyFor(t)
  BY DEF Tables, KeyFor
<1>2. \A n : Priority(n)' = Priority(n)
  BY DEF Tables, Priority, AlternativeOf
<1>3. \A t : Filed(t) => Filed(t)'
  BY <1>1, <1>2 DEF Tables, Filed
<1>4. \A key : Backed(key) => Backed(key)'
  BY <1>1 DEF Tables, Backed
<1> QED BY <1>3, <1>4 DEF Tables, TablesRanked

\* A shift puts a token on top.
LEMMA ShiftRanked ==
  ASSUME Inv, TablesRanked, Shift
  PROVE  TablesRanked'
<1>1. PICK t : t = AfterShift(threads[cursor])
  OBVIOUS
<1>2. threads[cursor] \in Range(threads) /\ threads[cursor] \in ThreadType
  BY DEF Inv, TypeOK, Cursors, Shift, Shifting, Range
<1>3. PICK slots \in Seq(Slot) : slots = threads[cursor].slots
  BY <1>2 DEF ThreadType
<1>4. PICK slot : slot = TokenSlot(Len(tokens) - 1)
  OBVIOUS
<1>5. t.slots = Append(slots, slot)
  BY <1>1, <1>3, <1>4 DEF AfterShift, Shifted
<1>6. Append(slots, slot)[Len(Append(slots, slot))] = slot
  OBVIOUS
<1>7. Last(t.slots) = slot
  BY <1>5, <1>6 DEF Last
<1>8. ~ HasNode(t)
  BY <1>4, <1>7 DEF HasNode, TokenSlot
<1>9. Range(out') = Range(out) \cup {t} /\ pc = "shift" /\ pc' = "shift"
  BY <1>1, RangeAppend DEF Inv, TypeOK, Shift, Shifting, NextThread
<1>10. UNCHANGED Tables
  BY DEF Tables, Shift, NextThread
<1> QED BY <1>8, <1>9, <1>10, QuietRanked DEF TablesRanked

\* The steps of the other loops.
LEMMA LoopsRanked ==
  ASSUME TablesRanked,
         \/ Supersede \/ Pop \/ NoGoto \/ Abort \/ AllTried \/ FixedPoint
         \/ (\E type \in Terminals : ScanToken(type)) \/ ScanNothing \/ Drop
         \/ AllShifted \/ Finish \/ Accept \/ Reject \/ Collected \/ UNCHANGED vars
  PROVE  TablesRanked'
<1>1. UNCHANGED Tables
  BY DEF Tables, Supersede, Pop, NoGoto, Reduced, Abort, AllTried, FixedPoint, ScanToken,
     ScanNothing, Drop, AllShifted, Finish, Accept, Reject, NextThread, Collected, vars
<1>2. Range(<< >>) = {}
  BY DEF Range
<1>3. CASE \E type \in Terminals : ScanToken(type)
  <2>1. pc' = "shift" /\ out' = << >>
    BY <1>3 DEF ScanToken
  <2> QED BY <1>1, <1>2, <2>1, QuietRanked
<1>4. CASE AllShifted
  <2>1. pc = "shift" /\ pc' = "round" /\ threads' = out
    BY <1>4 DEF AllShifted
  <2> QED BY <1>1, <2>1, QuietRanked DEF TablesRanked
<1>5. CASE Drop \/ UNCHANGED vars
  <2>1. UNCHANGED <<pc, threads, out>>
    BY <1>5 DEF Drop, NextThread, vars
  <2> QED BY <1>1, <2>1, QuietRanked DEF TablesRanked
<1>6. CASE \/ Supersede \/ Pop \/ NoGoto \/ Abort \/ AllTried \/ FixedPoint
           \/ ScanNothing \/ Finish \/ Accept \/ Reject \/ Collected
  <2>1. pc' \notin {"round", "shift"}
    BY <1>6 DEF Supersede, Pop, Popping, NoGoto, Reducing, Reduced, Abort, AllTried,
       FixedPoint, ScanNothing, Finish, Accept, Reject, Collecting, NextThread, Collected
  <2> QED BY <1>1, <2>1, QuietRanked
<1> QED BY <1>3, <1>4, <1>5, <1>6

\* A new node leaves the old ones, their keys and their priorities as they were.
LEMMA OldNodesStay ==
  ASSUME Inv, Allocate
  PROVE  /\ Len(nodes) + 1 \notin DOMAIN nodes /\ Len(nodes) + 1 \in DOMAIN nodes'
         /\ \A n \in DOMAIN nodes : n \in DOMAIN nodes' /\ Priority(n)' = Priority(n)
         /\ \A t : NodeOn(t) \in DOMAIN nodes => KeyFor(t)' = KeyFor(t)
         /\ \A key \in DOMAIN bestNode : bestNode[key] \in DOMAIN nodes
         /\ DOMAIN nodeKey \subseteq DOMAIN nodes
         /\ pc' = "reduce"
<1>1. nodes' = Append(nodes, NewNode) /\ grammar' = grammar /\ pc' = "reduce"
  BY DEF Allocate, Reduced, Reducing
<1>2. nodes \in Seq(Node)
  BY DEF Inv, TypeOK
<1>3. PICK node : node = NewNode
  OBVIOUS
<1>4. /\ DOMAIN nodes = 1..Len(nodes) /\ Len(nodes) \in Nat
      /\ DOMAIN nodes' = 1..(Len(nodes) + 1)
      /\ \A n \in 1..Len(nodes) : nodes'[n] = nodes[n]
  <2>1. nodes' = Append(nodes, node)
    BY <1>1, <1>3
  <2> QED BY <1>2, <2>1
<1>5. \A n \in DOMAIN nodes : Priority(n)' = Priority(n)
  BY <1>1, <1>4 DEF Priority, AlternativeOf
<1>6. \A t : NodeOn(t) \in DOMAIN nodes => KeyFor(t)' = KeyFor(t)
  BY <1>4 DEF KeyFor
<1>7. Range(bestNode) \cup DOMAIN nodeKey \subseteq DOMAIN nodes
  BY DEF Inv, TypeOK
<1>8. \A key \in DOMAIN bestNode : bestNode[key] \in DOMAIN nodes
  BY <1>7 DEF Range
<1> QED BY <1>1, <1>4, <1>5, <1>6, <1>7, <1>8

\* The thread that is pushed was made for the key of the reduction.
LEMMA PushedKey ==
  ASSUME Inv, Allocate, Propagate
  PROVE  \E t, n :
           /\ Range(worklist') = Range(worklist) \cup {t} /\ n = Len(nodes) + 1
           /\ HasNode(t) /\ NodeOn(t) = n /\ KeyFor(t)' = Key
           /\ Priority(n)' = AlternativeOf(NewNode).priority
<1>1. PICK th, r, b, node, to, n :
        /\ Reduces(th, r, b, node, to, n)
        /\ b = Below /\ to = Goto /\ nodes' = Append(nodes, node)
        /\ node \in Node /\ Pushed(b, to, n) \in ThreadType
  BY AllocateFacts
<1>2. PICK t \in ThreadType : t = Pushed(b, to, n)
  BY <1>1
<1>3. n = Len(nodes) + 1 /\ worklist' = Append(worklist, t)
  BY <1>1, <1>2 DEF Reduces, Propagate
<1>4. Range(worklist') = Range(worklist) \cup {t}
  BY <1>3, RangeAppend DEF Inv, TypeOK
<1>5. /\ b.states \in Seq(Nat) /\ b.slots \in Seq(Slot)
  <2>1. Stack(b.states, b.slots)
    BY <1>1, BaseSound DEF Reduces, Inv
  <2> QED BY <2>1 DEF Stack, StackType
<1>6. t.states = Append(b.states, to) /\ t.slots = Append(b.slots, NodeSlot(n)) /\ t.pos = b.pos
  BY <1>2 DEF Pushed
<1>7. Last(t.slots) = NodeSlot(n)
  <2>1. PICK slots \in Seq(Slot) : slots = b.slots
    BY <1>5
  <2>2. Append(slots, NodeSlot(n))[Len(Append(slots, NodeSlot(n)))] = NodeSlot(n)
    OBVIOUS
  <2> QED BY <1>6, <2>1, <2>2 DEF Last
<1>8. HasNode(t) /\ NodeOn(t) = n
  BY <1>7 DEF HasNode, NodeOn, NodeSlot
<1>9. nodes'[n] = node /\ nodes'[n].rule = r.rule
  <2>1. nodes'[n] = node
    BY <1>1, <1>3 DEF Inv, TypeOK
  <2> QED BY <1>1, <2>1 DEF Reduces, NodeOf
<1>10. SubSeq(t.states, 1, Depth(t) - 1) = b.states /\ Top(t) = to
  <2>1. PICK states \in Seq(Nat) : states = b.states
    BY <1>5
  <2>2. PICK more : more = Append(states, to)
    OBVIOUS
  <2>3. /\ more = t.states /\ Len(states) \in Nat /\ Len(more) = Len(states) + 1
        /\ more[Len(more)] = to /\ \A k \in 1..Len(states) : more[k] = states[k]
    BY <1>6, <2>1, <2>2
  <2>4. SubSeq(more, 1, Len(states)) = states
    BY <2>2
  <2>5. Len(more) - 1 = Len(states)
    BY <2>3
  <2> QED BY <2>1, <2>3, <2>4, <2>5 DEF Depth, Top
<1>11. Reduction.rule = r.rule /\ Thread.pos = b.pos /\ NewNode = node
  <2>1. nodes' = Append(nodes, NewNode)
    BY DEF Allocate
  <2>2. NewNode = nodes'[Len(nodes) + 1]
    BY <2>1 DEF Inv, TypeOK
  <2>3. NewNode = node
    BY <1>3, <1>9, <2>2
  <2>4. NewNode.rule = Reduction.rule
    BY DEF NewNode
  <2>5. Below.pos = Thread.pos
    BY DEF Below, Base
  <2> QED BY <1>1, <1>9, <2>3, <2>4, <2>5
<1>12. KeyFor(t)' = Key
  BY <1>1, <1>6, <1>8, <1>9, <1>10, <1>11 DEF KeyFor, Key, Depth, Top
<1>13. Priority(n)' = AlternativeOf(NewNode).priority
  <2>1. grammar' = grammar
    BY DEF Allocate, Reduced
  <2> QED BY <1>9, <1>11, <2>1 DEF Priority, AlternativeOf
<1> QED BY <1>3, <1>4, <1>8, <1>12, <1>13

\* A node that loses is in no thread.
LEMMA LosesRanked ==
  ASSUME Inv, TablesRanked, ReduceLoses
  PROVE  TablesRanked'
<1>1. Allocate /\ UNCHANGED <<worklist, bestNode, nodeKey>>
  BY DEF ReduceLoses
<1>2. /\ \A n \in DOMAIN nodes : n \in DOMAIN nodes' /\ Priority(n)' = Priority(n)
      /\ \A t : NodeOn(t) \in DOMAIN nodes => KeyFor(t)' = KeyFor(t)
      /\ \A key \in DOMAIN bestNode : bestNode[key] \in DOMAIN nodes
      /\ pc' = "reduce"
  BY <1>1, OldNodesStay
<1>3. ASSUME NEW t, Filed(t) PROVE Filed(t)'
  BY <1>1, <1>2, <1>3 DEF Filed
<1>4. ASSUME NEW key \in DOMAIN bestNode PROVE Backed(key)'
  <2>1. PICK t \in Range(worklist) :
          HasNode(t) /\ KeyFor(t) = key /\ NodeOn(t) = bestNode[key]
    BY DEF TablesRanked, Backed
  <2>2. KeyFor(t)' = key
    BY <1>2, <2>1
  <2> QED BY <1>1, <2>1, <2>2 DEF Backed, HasNode, NodeOn
<1> QED BY <1>1, <1>2, <1>3, <1>4 DEF TablesRanked, HasNode

\* A node that cannot be compared with the best one goes on beside it.
LEMMA TiesRanked ==
  ASSUME Inv, TablesRanked, ReduceTies
  PROVE  TablesRanked'
<1>1. /\ Allocate /\ Propagate /\ UNCHANGED <<bestNode, nodeKey>>
      /\ Key \in DOMAIN bestNode /\ Unresolvable(Existing, NewNode)
  BY DEF ReduceTies
<1>2. /\ Len(nodes) + 1 \notin DOMAIN nodes /\ Len(nodes) + 1 \in DOMAIN nodes'
      /\ \A n \in DOMAIN nodes : n \in DOMAIN nodes' /\ Priority(n)' = Priority(n)
      /\ \A t : NodeOn(t) \in DOMAIN nodes => KeyFor(t)' = KeyFor(t)
      /\ \A key \in DOMAIN bestNode : bestNode[key] \in DOMAIN nodes
      /\ DOMAIN nodeKey \subseteq DOMAIN nodes
      /\ pc' = "reduce"
  BY <1>1, OldNodesStay
<1>3. PICK new, n :
        /\ Range(worklist') = Range(worklist) \cup {new} /\ n = Len(nodes) + 1
        /\ HasNode(new) /\ NodeOn(new) = n /\ KeyFor(new)' = Key
        /\ Priority(n)' = AlternativeOf(NewNode).priority
  BY <1>1, PushedKey
<1>4. ASSUME NEW t, Filed(t) PROVE Filed(t)'
  BY <1>1, <1>2, <1>4 DEF Filed
<1>5. Filed(new)'
  <2>1. PICK key, best : key = Key /\ best = bestNode[key]
    OBVIOUS
  <2>2. KeyFor(new)' = key /\ key \in DOMAIN bestNode
    BY <1>1, <1>3, <2>1
  <2>3. Priority(best) = Null \/ Priority(n)' = Null
    BY <1>1, <1>3, <2>1 DEF Unresolvable, Existing, Priority
  <2>4. Priority(best)' = Priority(best)
    BY <1>2, <2>1, <2>2
  <2>5. NodeOn(new)' = n /\ n \in DOMAIN nodes' /\ n \notin DOMAIN nodeKey
    BY <1>2, <1>3 DEF NodeOn
  <2>6. bestNode' = bestNode /\ nodeKey' = nodeKey
    BY <1>1
  <2>7. Priority(n)' = Null \/ Priority(best)' = Null
    BY <2>3, <2>4
  <2> QED BY <2>1, <2>2, <2>5, <2>6, <2>7 DEF Filed
<1>6. ASSUME NEW key \in DOMAIN bestNode PROVE Backed(key)'
  <2>1. PICK t \in Range(worklist) :
          HasNode(t) /\ KeyFor(t) = key /\ NodeOn(t) = bestNode[key]
    BY DEF TablesRanked, Backed
  <2>2. KeyFor(t)' = key /\ t \in Range(worklist')
    BY <1>2, <1>3, <2>1
  <2> QED BY <1>1, <2>1, <2>2 DEF Backed, HasNode, NodeOn
<1>7. ASSUME NEW t \in Range(worklist'), HasNode(t) PROVE Filed(t)'
  BY <1>3, <1>4, <1>5, <1>7 DEF TablesRanked
<1> QED BY <1>1, <1>2, <1>6, <1>7 DEF TablesRanked, HasNode

\* A node that is recorded is the first of its key or not worse than the best one,
\* and so than all that one was not worse than.
LEMMA RecordedRanked ==
  ASSUME Inv, Placed, Inv', Placed', TablesRanked, ReduceFirst \/ ReduceWins
  PROVE  TablesRanked'
<1>1. /\ Allocate /\ Propagate /\ Record
      /\ Key \in DOMAIN bestNode =>
           ~ Unresolvable(Existing, NewNode) /\ ~ FirstWins(Existing, NewNode)
  BY DEF ReduceFirst, ReduceWins
<1>2. /\ Len(nodes) + 1 \notin DOMAIN nodes /\ Len(nodes) + 1 \in DOMAIN nodes'
      /\ \A m \in DOMAIN nodes : m \in DOMAIN nodes' /\ Priority(m)' = Priority(m)
      /\ \A t : NodeOn(t) \in DOMAIN nodes => KeyFor(t)' = KeyFor(t)
      /\ \A k \in DOMAIN bestNode : bestNode[k] \in DOMAIN nodes
      /\ DOMAIN nodeKey \subseteq DOMAIN nodes
      /\ pc' = "reduce"
  BY <1>1, OldNodesStay
<1> PICK new, n :
      /\ Range(worklist') = Range(worklist) \cup {new} /\ n = Len(nodes) + 1
      /\ HasNode(new) /\ NodeOn(new) = n /\ KeyFor(new)' = Key
      /\ Priority(n)' = AlternativeOf(NewNode).priority
  BY <1>1, PushedKey
<1> PICK key : key = Key
  OBVIOUS
<1>3. /\ Range(worklist') = Range(worklist) \cup {new} /\ n = Len(nodes) + 1 /\ key = Key
      /\ HasNode(new) /\ NodeOn(new) = n /\ KeyFor(new)' = key
      /\ Priority(n)' = AlternativeOf(NewNode).priority
  OBVIOUS
<1>4. /\ DOMAIN bestNode' = DOMAIN bestNode \cup {key} /\ bestNode'[key] = n
      /\ \A k \in DOMAIN bestNode : k # key => bestNode'[k] = bestNode[k]
      /\ DOMAIN nodeKey' = DOMAIN nodeKey \cup {n} /\ nodeKey'[n] = key
      /\ \A m \in DOMAIN nodeKey : m # n => nodeKey'[m] = nodeKey[m]
  <2>1. bestNode' = Put(bestNode, key, n) /\ nodeKey' = Put(nodeKey, n, key)
    BY <1>1, <1>3 DEF Record
  <2> QED BY <2>1 DEF Put
<1>5. /\ \A m \in DOMAIN nodes : Priority(m) = Null \/ Priority(m) \in Int
      /\ Priority(n)' = Null \/ Priority(n)' \in Int
  BY <1>2, <1>3, PrioritiesAre, NextPrioritiesAre DEF Inv, TypeOK
<1>6. ASSUME key \in DOMAIN bestNode
      PROVE  /\ Priority(bestNode[key]) # Null /\ Priority(n)' # Null
             /\ Priority(bestNode[key]) <= Priority(n)'
  <2>1. /\ Priority(bestNode[key]) = AlternativeOf(Existing).priority
        /\ Priority(n)' = AlternativeOf(NewNode).priority
    BY <1>3 DEF Existing, Priority
  <2>2. Priority(bestNode[key]) # Null /\ Priority(n)' # Null
    BY <1>1, <1>3, <1>6, <2>1 DEF Unresolvable
  <2>3. ~ (Priority(bestNode[key]) > Priority(n)')
    BY <1>1, <1>3, <1>6, <2>1 DEF FirstWins
  <2>4. Priority(bestNode[key]) \in Int /\ Priority(n)' \in Int
    BY <1>2, <1>5, <1>6, <2>2
  <2> QED BY <2>2, <2>3, <2>4
<1>7. ASSUME NEW t, Filed(t) PROVE Filed(t)'
  <2>1. PICK m, k, best : m = NodeOn(t) /\ k = KeyFor(t) /\ best = bestNode[k]
    OBVIOUS
  <2>2. /\ m \in DOMAIN nodes /\ k \in DOMAIN bestNode /\ best \in DOMAIN nodes /\ m # n
        /\ m \in DOMAIN nodeKey => nodeKey[m] = k
        /\ Priority(m) # Null /\ Priority(best) # Null =>
             m \in DOMAIN nodeKey /\ Priority(m) <= Priority(best)
    BY <1>2, <1>3, <1>7, <2>1 DEF Filed
  <2>3. KeyFor(t)' = k /\ NodeOn(t)' = m /\ Priority(m)' = Priority(m)
    BY <1>2, <2>1, <2>2 DEF NodeOn
  <2>4. m \in DOMAIN nodes' /\ k \in DOMAIN bestNode' /\ (m \in DOMAIN nodeKey' => nodeKey'[m] = k)
    BY <1>2, <1>4, <2>2
  <2>5. CASE k = key
    <3>1. Priority(best) # Null /\ Priority(best) <= Priority(n)'
      BY <1>6, <2>1, <2>2, <2>5
    <3>2. Priority(m) # Null => m \in DOMAIN nodeKey' /\ Priority(m)' <= Priority(n)'
      <4>1. SUFFICES ASSUME Priority(m) # Null
                     PROVE  m \in DOMAIN nodeKey /\ Priority(m) <= Priority(n)'
        BY <1>4, <2>3
      <4>2. Priority(m) \in Int /\ Priority(best) \in Int /\ Priority(n)' \in Int
        BY <1>5, <1>6, <2>1, <2>2, <2>5, <3>1, <4>1
      <4> QED BY <2>2, <3>1, <4>1, <4>2
    <3>3. bestNode'[k] = n
      BY <1>4, <2>5
    <3> QED BY <2>3, <2>4, <3>2, <3>3 DEF Filed
  <2>6. CASE k # key
    <3>1. bestNode'[k] = best /\ Priority(best)' = Priority(best)
      BY <1>2, <1>4, <2>1, <2>2, <2>6
    <3>2. Priority(m)' # Null /\ Priority(best)' # Null =>
            m \in DOMAIN nodeKey' /\ Priority(m)' <= Priority(best)'
      BY <1>4, <2>2, <2>3, <3>1
    <3> QED BY <2>3, <2>4, <3>1, <3>2 DEF Filed
  <2> QED BY <2>5, <2>6
<1>8. Filed(new)'
  <2>1. NodeOn(new)' = n /\ n \in DOMAIN nodes'
    BY <1>2, <1>3 DEF NodeOn
  <2>2. Priority(n)' # Null => Priority(n)' <= Priority(n)'
    BY <1>5
  <2> QED BY <1>3, <1>4, <2>1, <2>2 DEF Filed
<1>9. ASSUME NEW k \in DOMAIN bestNode' PROVE Backed(k)'
  <2>1. CASE k = key
    <3>1. new \in Range(worklist') /\ HasNode(new)' /\ NodeOn(new)' = bestNode'[k]
      BY <1>3, <1>4, <2>1 DEF HasNode, NodeOn
    <3> QED BY <1>3, <2>1, <3>1 DEF Backed
  <2>2. CASE k # key
    <3>1. k \in DOMAIN bestNode /\ bestNode'[k] = bestNode[k]
      BY <1>4, <2>2
    <3>2. PICK t \in Range(worklist) :
            HasNode(t) /\ KeyFor(t) = k /\ NodeOn(t) = bestNode[k]
      BY <3>1 DEF TablesRanked, Backed
    <3>3. KeyFor(t)' = k /\ t \in Range(worklist')
      BY <1>2, <1>3, <3>1, <3>2
    <3> QED BY <3>1, <3>2, <3>3 DEF Backed, HasNode, NodeOn
  <2> QED BY <2>1, <2>2
<1>10. ASSUME NEW t \in Range(worklist'), HasNode(t) PROVE Filed(t)'
  BY <1>3, <1>7, <1>8, <1>10 DEF TablesRanked
<1> QED BY <1>2, <1>9, <1>10 DEF TablesRanked, HasNode

LEMMA NextRanked == Inv /\ Placed /\ TablesRanked /\ [Next]_vars => TablesRanked'
<1> SUFFICES ASSUME Inv, Placed, TablesRanked, [Next]_vars PROVE TablesRanked'
  OBVIOUS
<1>1. Inv' /\ Placed'
  BY NextInv, PlacedKept
<1>2. CASE Reduce
  BY <1>1, <1>2, LoopsRanked, LosesRanked, TiesRanked, RecordedRanked DEF Reduce
<1>3. CASE ~ Reduce
  BY <1>3, RoundRanked, ShiftRanked, LoopsRanked DEF Next
<1> QED BY <1>2, <1>3

\* A thread that is not superseded is not outranked by a rival: either its node is
\* the best of the key, or it could not be ranked against the best one.
LEMMA RivalsRanked ==
  ASSUME Inv, Placed, TablesRanked, NEW t \in Range(worklist), HasNode(t), ~ Superseded(t)
  PROVE  \/ \E u \in Rivals(t) : PriorityOf(u) = Null
         \/ \A u \in Rivals(t) : PriorityOf(u) <= PriorityOf(t)
<1>1. PICK n, key, best : n = NodeOn(t) /\ key = KeyFor(t) /\ best = bestNode[key]
  OBVIOUS
<1>2. /\ n \in DOMAIN nodes /\ key \in DOMAIN bestNode
      /\ n \in DOMAIN nodeKey => nodeKey[n] = key
      /\ Priority(n) # Null /\ Priority(best) # Null => n \in DOMAIN nodeKey
  BY <1>1 DEF TablesRanked, Filed
<1>3. ASSUME NEW u \in Range(worklist), HasNode(u), KeyFor(u) = key
      PROVE  u \in Rivals(t)
  <2>1. KeyFor(u) = KeyFor(t)
    BY <1>1, <1>3
  <2>2. /\ SubSeq(u.states, 1, Depth(u) - 1) = SubSeq(t.states, 1, Depth(t) - 1)
        /\ Top(u) = Top(t) /\ u.pos = t.pos
        /\ nodes[NodeOn(u)].rule = nodes[NodeOn(t)].rule
    BY ONLY <2>1 DEF KeyFor
  <2>3. u \in ThreadType /\ t \in ThreadType /\ Depth(u) > 0 /\ Depth(t) > 0
    BY DEF Inv, Sound, AllThreads, ThreadOK, Stack, StackType, Depth
  <2>4. PICK a \in Seq(Nat), b \in Seq(Nat) : a = u.states /\ b = t.states
    BY <2>3 DEF ThreadType
  <2>5. a = b
    <3>1. Len(a) \in Nat \ {0} /\ Len(b) \in Nat \ {0} /\ a[Len(a)] = b[Len(b)]
      BY <2>2, <2>3, <2>4 DEF Top, Depth
    <3>2. SubSeq(a, 1, Len(a) - 1) = SubSeq(b, 1, Len(b) - 1)
      BY <2>2, <2>4 DEF Depth
    <3> QED BY <3>1, <3>2, FrontAndLast
  <2> QED BY <1>3, <2>2, <2>4, <2>5 DEF Rivals, HasNode, NodeOn
<1>4. ASSUME NEW u \in Rivals(t)
      PROVE  u \in Range(worklist) /\ HasNode(u) /\ KeyFor(u) = key
  BY <1>1 DEF Rivals, HasNode, NodeOn, KeyFor, Top, Depth
<1>5. \A u : PriorityOf(u) = Priority(NodeOn(u))
  BY DEF PriorityOf, Priority, NodeOn
<1>6. CASE Priority(best) = Null
  <2>1. PICK u \in Range(worklist) : HasNode(u) /\ KeyFor(u) = key /\ NodeOn(u) = best
    BY <1>1, <1>2 DEF TablesRanked, Backed
  <2> QED BY <1>3, <1>5, <1>6, <2>1
<1>7. CASE Priority(n) = Null
  BY <1>1, <1>3, <1>5, <1>7
<1>8. CASE Priority(n) # Null /\ Priority(best) # Null
  <2>1. n \in DOMAIN nodeKey /\ nodeKey[n] = key
    BY <1>2, <1>8
  <2>2. best = n
    BY <1>1, <2>1 DEF Superseded, HasNode, NodeOn
  <2>3. ASSUME NEW u \in Rivals(t), PriorityOf(u) # Null
        PROVE  PriorityOf(u) <= PriorityOf(t)
    <3>1. Filed(u) /\ KeyFor(u) = key
      BY <1>4 DEF TablesRanked
    <3> QED BY <1>1, <1>5, <1>8, <2>2, <2>3, <3>1 DEF Filed
  <2> QED BY <2>3
<1> QED BY <1>6, <1>7, <1>8

\* Only Pop passes a thread on.
LEMMA OnlyPopPasses ==
  ASSUME [Next]_vars, NEW t, PassesOn(t)
  PROVE  ~ Superseded(t)
<1>1. ~ UNCHANGED vars
  BY DEF PassesOn, vars
<1>2. ~ Reduce
  BY DEF PassesOn, Reduce, NoGoto, ReduceFirst, ReduceLoses, ReduceTies, ReduceWins, Abort,
     Allocate, Reducing
<1>3. /\ ~ Supersede /\ ~ FixedPoint /\ ~ Round /\ ~ AllTried /\ ~ ScanNothing
      /\ ~ Shift /\ ~ Drop /\ ~ AllShifted /\ ~ Finish /\ ~ Accept /\ ~ Reject /\ ~ Collected
      /\ ~ \E type \in Terminals : ScanToken(type)
  BY DEF PassesOn, Supersede, FixedPoint, Round, AllTried, ScanNothing, ScanToken,
     Shift, Shifting, Drop, AllShifted, Finish, Accept, Reject, Collecting, Collected
<1> QED BY <1>1, <1>2, <1>3 DEF Next, Pop, PassesOn

LEMMA RankedInvariance == Spec => [](Inv /\ Placed /\ TablesRanked)
<1>1. Init => Inv /\ Placed /\ TablesRanked
  BY InitInv, InitPlaced, InitRanked
<1>2. Inv /\ Placed /\ TablesRanked /\ [Next]_vars => (Inv /\ Placed /\ TablesRanked)'
  BY NextInv, PlacedKept, NextRanked
<1> QED BY <1>1, <1>2, PTL DEF Spec

\* Whatever the order in which reduce makes the nodes of a key, it goes on with
\* none that has been outranked by then.
THEOREM RivalsCorrect == Spec => NoneOutranked
<1>1. Inv /\ Placed /\ TablesRanked /\ [Next]_vars => [BestPassedOn]_vars
  <2>1. SUFFICES ASSUME Inv, Placed, TablesRanked, [Next]_vars,
                        NEW t \in Range(worklist), PassesOn(t), HasNode(t)
                 PROVE  \/ \E u \in Rivals(t) : PriorityOf(u) = Null
                        \/ \A u \in Rivals(t) : PriorityOf(u) <= PriorityOf(t)
    BY DEF BestPassedOn, HasNode
  <2> QED BY <2>1, OnlyPopPasses, RivalsRanked
<1> QED BY <1>1, RankedInvariance, PTL DEF Spec, NoneOutranked
=============================================================================
