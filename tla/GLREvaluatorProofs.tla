------------------------- MODULE GLREvaluatorProofs -------------------------
(***************************************************************************)
(* What is proved of GLREvaluator, for every grammar, automaton, input and *)
(* bound, and whatever the actions of the context do: the counts of        *)
(* references, the one result of the stack and the order of the arguments. *)
(*                                                                         *)
(* As for the Earley evaluator, the invariant (EvalInv) joins that of the  *)
(* chart to what is true of the frames, the heap and the memory together   *)
(* (StateOK), and each action is shown to lead to a state for which        *)
(* StateOK holds again.  OrderInv adds the spans of the input the values   *)
(* of the heap lie in.                                                     *)
(***************************************************************************)
EXTENDS GLREvaluator, GLRChartProofs

-----------------------------------------------------------------------------
(* The chart                                                               *)

ChartInv == Inv /\ Placed

LEMMA InitChart == Init => ChartInv
  BY InitInv, InitPlaced DEF ChartInv

LEMMA NextChart == ASSUME ChartInv, [Next]_vars PROVE ChartInv'
  BY NextInv, PlacedKept DEF ChartInv

\* When the chart is done construct does nothing more.
LEMMA DoneStays == pc = "done" => ~ Next
  BY DEF Next, Round, Popping, Supersede, Pop, Reduce, NoGoto, ReduceLoses, ReduceTies, ReduceFirst,
         ReduceWins, Allocate, Reducing, Abort, AllTried, FixedPoint, ScanToken, ScanNothing,
         Shift, Drop, Shifting, AllShifted, Finish, Accept, Reject, Collecting, Collected

Arity(n) == Len(nodes[n].children)

\* A node of the arena is of an alternative of the grammar, with a child for
\* each symbol.
LEMMA NodeFacts ==
  ASSUME ChartInv, NEW n \in DOMAIN nodes
  PROVE  /\ n \in Nat /\ nodes[n] \in Node
         /\ nodes[n].rule \in Names /\ nodes[n].alt \in Nat
         /\ AlternativeOf(nodes[n]) \in Alternatives
         /\ nodes[n].children \in Seq(Slot) /\ Arity(n) \in Nat
         /\ DOMAIN nodes[n].children = 1..Arity(n)
         /\ Len(AlternativeOf(nodes[n]).symbols) = Arity(n)
         /\ \A k \in 1..Arity(n) :
              LET c == nodes[n].children[k] IN
              \/ c.kind = "token" /\ c.of \in 0..(Len(tokens) - 1)
              \/ c.kind = "node" /\ c.of \in DOMAIN nodes
<1>1. TypeOK /\ NodesValid /\ TreesSound /\ Placed
  BY DEF ChartInv, Inv
<1>2. nodes \in Seq(Node) /\ tokens \in Seq(Terminals) /\ grammar \in Grammars
  BY <1>1 DEF TypeOK
<1>3. nodes[n] \in Node /\ n \in Nat
  BY <1>2
<1>4. /\ nodes[n].rule \in Names /\ nodes[n].alt \in Nat /\ nodes[n].children \in Seq(Slot)
      /\ DOMAIN nodes[n].children = 1..Arity(n) /\ Arity(n) \in Nat
  BY <1>3 DEF Node, Arity
<1>5. AlternativeOf(nodes[n]) \in Alternatives
  <2>1. /\ nodes[n].rule \in DOMAIN grammar.rules
        /\ nodes[n].alt \in 1..Len(grammar.rules[nodes[n].rule])
    BY <1>1 DEF Placed
  <2>2. grammar.rules[nodes[n].rule] \in Seq(Alternatives)
    BY <1>2, <2>1, GrammarAssumption
  <2> QED BY <2>1, <2>2 DEF AlternativeOf
<1>6. Len(AlternativeOf(nodes[n]).symbols) = Arity(n)
  <2>1. AlternativeOf(nodes[n]).symbols
          = [k \in DOMAIN nodes[n].children |-> SymbolAt(nodes[n].children[k])]
    BY <1>1 DEF TreesSound
  <2>2. AlternativeOf(nodes[n]).symbols \in Seq(Symbols)
    BY <1>5, GrammarAssumption
  <2>3. DOMAIN AlternativeOf(nodes[n]).symbols = 1..Arity(n)
    BY <1>4, <2>1
  <2> QED BY <1>4, <2>2, <2>3
<1>7. ASSUME NEW k \in 1..Arity(n)
      PROVE  LET c == nodes[n].children[k] IN
             \/ c.kind = "token" /\ c.of \in 0..(Len(tokens) - 1)
             \/ c.kind = "node" /\ c.of \in DOMAIN nodes
  <2>1. Valid(nodes[n].children[k]) /\ nodes[n].children[k] \in Slot
    BY <1>1, <1>4 DEF NodesValid
  <2>2. nodes[n].children[k].of \in Nat /\ Len(tokens) \in Nat
    BY <1>2, <2>1 DEF Slot
  <2> QED BY <2>1, <2>2 DEF Valid
<1> QED BY <1>3, <1>4, <1>5, <1>6, <1>7

-----------------------------------------------------------------------------
(* The values of the children                                              *)

\* The places found to be those of nodes, from the last child down.
FoundOf(node) ==
  CHOOSE found : found = [k \in 1..(Len(node.children) + 1) |->
    IF k > Len(node.children) THEN << >>
    ELSE IF node.children[k].kind = "node" THEN Append(found[k + 1], k) ELSE found[k + 1]]

LEMMA FoundSteps ==
  ASSUME NEW node, NEW l \in Nat, l = Len(node.children)
  PROVE  /\ Unknown(node) = FoundOf(node)[1]
         /\ FoundOf(node)[l + 1] = << >>
         /\ \A k \in 1..l :
              FoundOf(node)[k] = IF node.children[k].kind = "node"
                                 THEN Append(FoundOf(node)[k + 1], k)
                                 ELSE FoundOf(node)[k + 1]
<1> DEFINE V == Seq(Nat)
           F == [p \in (1..l) \X V |->
                   IF node.children[p[1]].kind = "node" THEN Append(p[2], p[1]) ELSE p[2]]
           Step(h) == [k \in 1..(l + 1) |->
             IF k > l THEN << >>
             ELSE IF node.children[k].kind = "node" THEN Append(h[k + 1], k) ELSE h[k + 1]]
<1>1. F \in [(1..l) \X V -> V] /\ << >> \in V
  OBVIOUS
<1>2. PICK g : Descends(g, l, V, << >>, F)
  <2> HIDE DEF F, V
  <2> QED BY <1>1, Recursion
<1>3. g = Step(g)
  <2>1. ASSUME NEW k \in 1..(l + 1)
        PROVE  g[k] = IF k > l THEN << >>
                      ELSE IF node.children[k].kind = "node" THEN Append(g[k + 1], k)
                                                             ELSE g[k + 1]
    <3>1. CASE k > l
      <4>1. k = l + 1
        BY <3>1
      <4> QED BY <1>2, <3>1, <4>1 DEF Descends
    <3>2. CASE ~ (k > l)
      <4>1. k \in 1..l /\ k + 1 \in 1..(l + 1)
        BY <3>2
      <4>2. g[k] = F[<<k, g[k + 1]>>] /\ g[k + 1] \in V
        BY <1>2, <4>1 DEF Descends
      <4> QED BY <3>2, <4>1, <4>2
    <3> QED BY <3>1, <3>2
  <2>2. DOMAIN g = 1..(l + 1) /\ g = [k \in 1..(l + 1) |-> g[k]]
    BY <1>2 DEF Descends
  <2> HIDE DEF F, V
  <2> QED BY <2>1, <2>2, Zenon
<1>4. FoundOf(node) = Step(FoundOf(node))
  <2>1. FoundOf(node) = CHOOSE h : h = Step(h)
    BY DEF FoundOf
  <2> HIDE DEF Step
  <2> QED BY <1>3, <2>1
<1>5. Unknown(node) = FoundOf(node)[1]
  BY DEF Unknown, FoundOf
<1> DEFINE found == FoundOf(node)
<1>6. found = Step(found)
  BY <1>4
<1> HIDE DEF found
<1>7. found[l + 1] = << >>
  <2>1. l + 1 \in 1..(l + 1) /\ l + 1 > l
    OBVIOUS
  <2> QED BY <1>6, <2>1
<1>8. ASSUME NEW k \in 1..l
      PROVE  found[k] = IF node.children[k].kind = "node" THEN Append(found[k + 1], k)
                                                          ELSE found[k + 1]
  <2>1. k \in 1..(l + 1) /\ ~ (k > l)
    OBVIOUS
  <2> QED BY <1>6, <2>1
<1> QED BY <1>5, <1>7, <1>8 DEF found

\* The places of slots from k on, the last one first.
PlacedFrom(node, k, l, slots) ==
  /\ slots \in Seq(Nat)
  /\ \A s \in DOMAIN slots : slots[s] \in k..l /\ node.children[slots[s]].kind = "node"
  /\ \A s, t \in DOMAIN slots : s < t => slots[s] > slots[t]
  /\ \A j \in k..l : node.children[j].kind = "node" => \E s \in DOMAIN slots : slots[s] = j

LEMMA UnknownIs ==
  ASSUME NEW node, NEW l \in Nat, l = Len(node.children)
  PROVE  PlacedFrom(node, 1, l, Unknown(node))
<1> DEFINE found == FoundOf(node)
           S == {k \in 1..(l + 1) : PlacedFrom(node, k, l, found[k])}
<1>1. /\ Unknown(node) = found[1] /\ found[l + 1] = << >>
      /\ \A k \in 1..l : found[k] = IF node.children[k].kind = "node"
                                    THEN Append(found[k + 1], k) ELSE found[k + 1]
  BY FoundSteps
<1> HIDE DEF found
<1>2. l + 1 \in S
  <2>1. \A j \in (l + 1)..l : FALSE
    OBVIOUS
  <2>2. PlacedFrom(node, l + 1, l, << >>)
    BY <2>1 DEF PlacedFrom
  <2> QED BY <1>1, <2>2
<1>3. ASSUME NEW k \in 1..l, k + 1 \in S PROVE k \in S
  <2> DEFINE old == found[k + 1]
  <2>1. PlacedFrom(node, k + 1, l, old) /\ k \in 1..(l + 1)
    BY <1>3
  <2>2. \A j \in k..l : j = k \/ j \in (k + 1)..l
    OBVIOUS
  <2>3. \A j \in (k + 1)..l : j \in k..l /\ j > k
    OBVIOUS
  <2> HIDE DEF old
  <2>4. CASE node.children[k].kind # "node"
    <3>1. found[k] = old
      BY <1>1, <2>4 DEF old
    <3>2. PlacedFrom(node, k, l, old)
      BY <2>1, <2>2, <2>3, <2>4 DEF PlacedFrom
    <3> QED BY <2>1, <3>1, <3>2
  <2>5. CASE node.children[k].kind = "node"
    <3> DEFINE new == Append(old, k)
    <3>1. found[k] = new
      BY <1>1, <2>5 DEF old
    <3>2. PICK m \in Nat : Len(old) = m
      BY <2>1 DEF PlacedFrom
    <3>3. /\ new \in Seq(Nat) /\ DOMAIN new = 1..(m + 1) /\ DOMAIN old = 1..m
          /\ new[m + 1] = k /\ \A s \in 1..m : new[s] = old[s]
      BY <2>1, <3>2 DEF PlacedFrom
    <3> HIDE DEF new
    <3>4. \A s \in 1..(m + 1) : s = m + 1 \/ s \in 1..m
      OBVIOUS
    <3>5. k \in k..l
      OBVIOUS
    <3>6. \A s \in 1..m : new[s] \in (k + 1)..l /\ node.children[new[s]].kind = "node"
      BY <2>1, <3>3 DEF PlacedFrom
    <3>7. \A s \in DOMAIN new : new[s] \in k..l /\ node.children[new[s]].kind = "node"
      BY <2>3, <2>5, <3>3, <3>4, <3>5, <3>6
    <3>8. ASSUME NEW s \in DOMAIN new, NEW t \in DOMAIN new, s < t PROVE new[s] > new[t]
      <4>1. s \in 1..m
        BY <3>3, <3>4, <3>8
      <4>2. CASE t = m + 1
        BY <2>3, <3>3, <3>6, <4>1, <4>2
      <4>3. CASE t \in 1..m
        BY <2>1, <3>3, <3>8, <4>1, <4>3 DEF PlacedFrom
      <4> QED BY <3>3, <3>4, <4>2, <4>3
    <3>9. ASSUME NEW j \in k..l, node.children[j].kind = "node"
          PROVE  \E s \in DOMAIN new : new[s] = j
      <4>1. CASE j = k
        <5>1. m + 1 \in DOMAIN new
          BY <3>3
        <5> QED BY <3>3, <4>1, <5>1
      <4>2. CASE j \in (k + 1)..l
        <5>1. PICK s \in DOMAIN old : old[s] = j
          BY <2>1, <3>9, <4>2 DEF PlacedFrom
        <5>2. s \in DOMAIN new /\ new[s] = j
          BY <3>3, <5>1
        <5> QED BY <5>2
      <4> QED BY <2>2, <4>1, <4>2
    <3>10. PlacedFrom(node, k, l, new)
      BY <3>3, <3>7, <3>8, <3>9 DEF PlacedFrom
    <3> QED BY <2>1, <3>1, <3>10
  <2> QED BY <2>4, <2>5
<1>4. 1..(l + 1) \subseteq S
  <2> HIDE DEF S
  <2> QED BY <1>2, <1>3, DownInduction
<1>5. 1 \in S
  BY <1>4
<1> QED BY <1>1, <1>5

-----------------------------------------------------------------------------
(* The inductive invariant                                                 *)

\* The frames execute pushes.
GoodFrames ==
  {f \in Frame :
     /\ f.item \in DOMAIN nodes
     /\ f.kind = "select" => f.partial = << >> /\ f.slots = << >>
     /\ f.kind = "apply" => /\ Open(f.partial, f.slots) /\ f.partial # << >>
                            /\ Len(f.partial) = Arity(f.item)}

\* The holders, arr being an array that is no frame's yet.
Held(stk, arr, hp, x) == AllHolders(Len(tokens), stk, arr, hp, x)

NoOutcome == [kind |-> "pending", value |-> NullValue]

Outcomes ==
  [kind : {"pending", "value", "nomatch", "ambiguity", "exception"}, value : Nat]

\* The state of the evaluator, for the chart as it is.
StateOK(stg, stk, hp, m, ar, outc) ==
  /\ stg \in {"ready", "execute", "returned"}
  /\ stg = "ready" => stk = << >> /\ hp = << >> /\ m = << >>
  /\ stg = "returned" => stk = << >> /\ hp = << >>
  /\ outc \in Outcomes
  /\ stg # "returned" => outc = NoOutcome
  /\ stk \in Seq(GoodFrames)
  /\ hp \in Seq(Nat)
  /\ ar = ArraysOf(stk)
  /\ stg = "execute" => BalancedAt(stk, Len(hp))
  /\ Exact(m, Held(stk, << >>, hp, outc.value))
  /\ stg = "execute" =>
       /\ MemSound(m, Held(stk, << >>, hp, outc.value))
       /\ Len(m) >= Len(tokens)

EvalInv ==
  /\ ChartInv
  /\ stage # "ready" => pc = "done"
  /\ StateOK(stage, stack, heap, mem, arrays, outcome)

\* The frames the lemmas about stacks are for.
LEMMA GoodFrameSet ==
  /\ FrameSet(GoodFrames)
  /\ \A n \in DOMAIN nodes : ChartInv => SelectFrame(n) \in GoodFrames
<1>1. ASSUME NEW x \in GoodFrames
      PROVE  /\ x.partial \in Seq(Int) /\ x.slots \in Seq(Nat)
             /\ x.kind \in {"select", "apply"}
  BY DEF GoodFrames, Frame
<1>2. ASSUME NEW n \in DOMAIN nodes, ChartInv PROVE SelectFrame(n) \in GoodFrames
  <2>1. n \in Nat
    BY <1>2, NodeFacts
  <2>2. SelectFrame(n) \in Frame
    BY <2>1 DEF SelectFrame, Frame
  <2> QED BY <2>2, SelectFields DEF GoodFrames
<1> QED BY <1>1, <1>2 DEF FrameSet

LEMMA TokenCount == ChartInv => Len(tokens) \in Nat
  BY DEF ChartInv, Inv, TypeOK

LEMMA NullIs == NullValue = 0 /\ NullValue \in Nat /\ NullValue \in Int
  BY DEF NullValue

LEMMA Nothing ==
  /\ << >> \in Seq(GoodFrames) /\ << >> \in Seq(Nat) /\ << >> \in Seq(Int)
  /\ HeldBy(<< >>) = << >> /\ ArraysOf(<< >>) = 0
  /\ \A v : Occurrences(v, << >>) = 0
  BY HeldEmpty, OccurrencesNone, FS_EmptySet DEF ArraysOf

\* What the parts of the invariant say while execute runs.
LEMMA Running ==
  ASSUME EvalInv, stage = "execute"
  PROVE  /\ ChartInv /\ pc = "done" /\ outcome = NoOutcome
         /\ stack \in Seq(GoodFrames) /\ heap \in Seq(Nat) /\ heap \in Seq(Int)
         /\ HeldBy(stack) \in Seq(Int)
         /\ arrays = ArraysOf(stack) /\ BalancedAt(stack, Len(heap))
         /\ Len(tokens) \in Nat /\ Len(mem) \in Nat /\ Len(mem) >= Len(tokens)
         /\ MemSound(mem, Held(stack, << >>, heap, NullValue))
<1>1. StateOK(stage, stack, heap, mem, arrays, outcome) /\ ChartInv /\ pc = "done"
  BY DEF EvalInv
<1>2. stack \in Seq(GoodFrames) /\ heap \in Seq(Nat) /\ outcome = NoOutcome
      /\ arrays = ArraysOf(stack) /\ BalancedAt(stack, Len(heap))
      /\ MemSound(mem, Held(stack, << >>, heap, outcome.value)) /\ Len(mem) >= Len(tokens)
  BY <1>1 DEF StateOK
<1>3. HeldBy(stack) \in Seq(Int)
  BY <1>2, GoodFrameSet, HeldTypes
<1>4. heap \in Seq(Int)
  BY <1>2, SeqMonotonic, Nat \subseteq Int
<1>5. Len(tokens) \in Nat
  BY <1>1, TokenCount
<1>6. Len(mem) \in Nat
  BY <1>2, SoundFacts
<1>7. outcome.value = NullValue
  BY <1>2 DEF NoOutcome
<1> QED BY <1>1, <1>2, <1>3, <1>4, <1>5, <1>6, <1>7

\* Counting the references held.
LEMMA HeldCount ==
  ASSUME ChartInv, NEW stk \in Seq(GoodFrames), NEW arr \in Seq(Int),
         NEW hp \in Seq(Nat), NEW x \in Nat, NEW v
  PROVE  /\ Held(stk, arr, hp, x) \in Seq(Int)
         /\ Occurrences(v, Held(stk, arr, hp, x))
              = (((Occurrences(v, TokensOf(Len(tokens))) + Occurrences(v, HeldBy(stk)))
                  + Occurrences(v, arr)) + Occurrences(v, hp))
                + Occurrences(v, <<x>>)
         /\ Occurrences(v, TokensOf(Len(tokens))) \in Nat
         /\ Occurrences(v, HeldBy(stk)) \in Nat
         /\ Occurrences(v, arr) \in Nat
         /\ Occurrences(v, hp) \in Nat
         /\ Occurrences(v, <<x>>) \in Nat
<1> DEFINE n == Len(tokens)
<1>1. n \in Nat
  BY TokenCount
<1>2. HeldBy(stk) \in Seq(Int)
  BY GoodFrameSet, HeldTypes
<1>3. hp \in Seq(Int)
  BY SeqMonotonic, Nat \subseteq Int
<1> HIDE DEF n
<1>4. x \in Int
  OBVIOUS
<1>5. /\ AllHolders(n, stk, arr, hp, x) \in Seq(Int)
      /\ Occurrences(v, AllHolders(n, stk, arr, hp, x))
           = (((Occurrences(v, TokensOf(n)) + Occurrences(v, HeldBy(stk)))
               + Occurrences(v, arr)) + Occurrences(v, hp)) + Occurrences(v, <<x>>)
      /\ Occurrences(v, TokensOf(n)) \in Nat
      /\ Occurrences(v, HeldBy(stk)) \in Nat
      /\ Occurrences(v, arr) \in Nat
      /\ Occurrences(v, hp) \in Nat
      /\ Occurrences(v, <<x>>) \in Nat
  BY <1>1, <1>2, <1>3, <1>4, HoldersCount
<1> QED BY <1>5 DEF Held, n

\* How often the evaluator itself holds a value.
Own(stk, arr, hp, v) ==
  (Occurrences(v, HeldBy(stk)) + Occurrences(v, arr)) + Occurrences(v, hp)

LEMMA OwnType ==
  ASSUME ChartInv, NEW stk \in Seq(GoodFrames), NEW arr \in Seq(Int), NEW hp \in Seq(Nat), NEW v
  PROVE  /\ Occurrences(v, HeldBy(stk)) \in Nat /\ Occurrences(v, arr) \in Nat
         /\ Occurrences(v, hp) \in Nat /\ Own(stk, arr, hp, v) \in Nat
<1>1. /\ Occurrences(v, HeldBy(stk)) \in Nat /\ Occurrences(v, arr) \in Nat
      /\ Occurrences(v, hp) \in Nat
  BY 0 \in Nat, HeldCount
<1> QED BY <1>1 DEF Own

\* What the evaluator gives up and takes as it goes from one state to another.
Changes(stk, arr, hp, stk2, arr2, hp2, given, taken) ==
  \A v \in Nat : Own(stk2, arr2, hp2, v) + Occurrences(v, given)
                 = Own(stk, arr, hp, v) + Occurrences(v, taken)

\* The same for all the holders.
Traded(old, new, given, taken) ==
  /\ old \in Seq(Int) /\ new \in Seq(Int)
  /\ \A v \in Nat :
       /\ Occurrences(v, new) \in Nat /\ Occurrences(v, old) \in Nat
       /\ Occurrences(v, given) \in Nat /\ Occurrences(v, taken) \in Nat
       /\ Occurrences(v, new) + Occurrences(v, given)
            = Occurrences(v, old) + Occurrences(v, taken)

LEMMA HeldChanges ==
  ASSUME ChartInv,
         NEW stk \in Seq(GoodFrames), NEW arr \in Seq(Int), NEW hp \in Seq(Nat),
         NEW stk2 \in Seq(GoodFrames), NEW arr2 \in Seq(Int), NEW hp2 \in Seq(Nat),
         NEW given \in Seq(Int), NEW taken \in Seq(Int),
         Changes(stk, arr, hp, stk2, arr2, hp2, given, taken)
  PROVE  Traded(Held(stk, arr, hp, NullValue), Held(stk2, arr2, hp2, NullValue),
                given, taken)
<1> DEFINE old == Held(stk, arr, hp, NullValue)
           new == Held(stk2, arr2, hp2, NullValue)
<1>1. NullValue \in Nat
  BY NullIs
<1>2. old \in Seq(Int) /\ new \in Seq(Int)
  BY <1>1, HeldCount
<1>3. ASSUME NEW v \in Nat
      PROVE  /\ Occurrences(v, new) \in Nat /\ Occurrences(v, old) \in Nat
             /\ Occurrences(v, given) \in Nat /\ Occurrences(v, taken) \in Nat
             /\ Occurrences(v, new) + Occurrences(v, given)
                  = Occurrences(v, old) + Occurrences(v, taken)
  <2> DEFINE t == Occurrences(v, TokensOf(Len(tokens)))
             z == Occurrences(v, <<NullValue>>)
             a == Occurrences(v, HeldBy(stk))
             b == Occurrences(v, arr)
             c == Occurrences(v, hp)
             a2 == Occurrences(v, HeldBy(stk2))
             b2 == Occurrences(v, arr2)
             c2 == Occurrences(v, hp2)
             d == Occurrences(v, given)
             e == Occurrences(v, taken)
  <2>1. /\ Occurrences(v, old) = (((t + a) + b) + c) + z
        /\ t \in Nat /\ a \in Nat /\ b \in Nat /\ c \in Nat /\ z \in Nat
    BY <1>1, HeldCount
  <2>2. /\ Occurrences(v, new) = (((t + a2) + b2) + c2) + z
        /\ a2 \in Nat /\ b2 \in Nat /\ c2 \in Nat
    BY <1>1, HeldCount
  <2>3. d \in Nat /\ e \in Nat
    BY OccurrencesType
  <2>4. ((a2 + b2) + c2) + d = ((a + b) + c) + e
    BY DEF Own, Changes
  <2> HIDE DEF old, new, t, z, a, b, c, a2, b2, c2, d, e
  <2>5. /\ Occurrences(v, new) \in Nat /\ Occurrences(v, old) \in Nat
        /\ Occurrences(v, new) + d = Occurrences(v, old) + e
    BY ONLY <2>1, <2>2, <2>3, <2>4
  <2> QED BY <2>3, <2>5 DEF d, e
<1> QED BY <1>2, <1>3 DEF Traded

-----------------------------------------------------------------------------
(* The states a step can lead to                                           *)

\* What has to be shown of a step to execute,
LEMMA ExecuteOK ==
  ASSUME NEW stk \in Seq(GoodFrames), NEW hp \in Seq(Nat), NEW m,
         MemSound(m, Held(stk, << >>, hp, NullValue)), Len(m) >= Len(tokens),
         BalancedAt(stk, Len(hp)), NEW ar, ar = ArraysOf(stk)
  PROVE  StateOK("execute", stk, hp, m, ar, NoOutcome)
<1>1. NoOutcome \in Outcomes /\ NoOutcome.value = NullValue
  BY DEF NoOutcome, Outcomes, NullValue
<1>2. Exact(m, Held(stk, << >>, hp, NullValue))
  BY SoundFacts
<1> QED BY <1>1, <1>2 DEF StateOK

\* and of one that leaves.
LEMMA ReturnedOK ==
  ASSUME NEW m, NEW outc \in Outcomes, Exact(m, Held(<< >>, << >>, << >>, outc.value))
  PROVE  StateOK("returned", << >>, << >>, m, 0, outc)
  BY Nothing DEF StateOK

\* A value pushed on the heap.
LEMMA HeapPush ==
  ASSUME NEW hp \in Seq(Nat), NEW x \in Nat, NEW v
  PROVE  /\ Append(hp, x) \in Seq(Nat) /\ Len(Append(hp, x)) = Len(hp) + 1
         /\ Occurrences(v, Append(hp, x)) = Occurrences(v, hp) + Occurrences(v, <<x>>)
<1>1. Occurrences(v, Append(hp, x)) = Occurrences(v, hp) + IF x = v THEN 1 ELSE 0
  BY OccurrencesAppend
<1>2. Occurrences(v, <<x>>) = IF x = v THEN 1 ELSE 0
  BY OccurrencesOne
<1> QED BY <1>1, <1>2

\* When everything held is released, what is left is exact.
LEMMA AbandonOK ==
  ASSUME ChartInv, NEW stk \in Seq(GoodFrames), NEW arr \in Seq(Int), NEW hp \in Seq(Nat),
         NEW m, MemSound(m, Held(stk, arr, hp, NullValue)), NEW vs \in Seq(Int),
         \A v \in Nat : Occurrences(v, vs) = Own(stk, arr, hp, v)
  PROVE  StateOK("returned", << >>, << >>, Release(m, vs), 0,
                 [kind |-> "exception", value |-> NullValue])
<1> DEFINE none == << >>
           H == Held(stk, arr, hp, NullValue)
           O == Held(none, none, none, NullValue)
           outc == [kind |-> "exception", value |-> NullValue]
<1>1. /\ none \in Seq(GoodFrames) /\ none \in Seq(Nat) /\ none \in Seq(Int)
      /\ HeldBy(none) = none /\ \A v : Occurrences(v, none) = 0
  BY Nothing
<1> HIDE DEF none
<1>2. Changes(stk, arr, hp, none, none, none, vs, none)
  <2>1. SUFFICES ASSUME NEW v \in Nat
        PROVE  Own(none, none, none, v) + Occurrences(v, vs)
                 = Own(stk, arr, hp, v) + Occurrences(v, none)
    BY DEF Changes
  <2>2. Own(stk, arr, hp, v) \in Nat
    BY OwnType
  <2>3. Own(none, none, none, v) = 0 /\ Occurrences(v, none) = 0
        /\ Occurrences(v, vs) = Own(stk, arr, hp, v)
    BY <1>1 DEF Own
  <2> QED BY ONLY <2>2, <2>3
<1>3. /\ O \in Seq(Int)
      /\ \A v \in Nat : /\ Occurrences(v, O) \in Nat /\ Occurrences(v, H) \in Nat
                        /\ Occurrences(v, O) + Occurrences(v, vs)
                             = Occurrences(v, H) + Occurrences(v, none)
  <2>1. Traded(H, O, vs, none)
    BY <1>1, <1>2, HeldChanges
  <2> QED BY ONLY <2>1 DEF Traded
<1>4. MemSound(Release(m, vs), O)
  <2> HIDE DEF H, O
  <2>1. \A v \in Nat : Occurrences(v, H) = Occurrences(v, O) + Occurrences(v, vs)
    BY <1>1, <1>3
  <2>2. MemSound(m, H)
    BY DEF H
  <2> QED BY <1>3, <2>1, <2>2, ReleaseSound
<1>5. outc \in Outcomes /\ outc.value = NullValue
  BY DEF Outcomes, NullValue
<1>6. Exact(Release(m, vs), O)
  BY <1>4, SoundFacts
<1> QED BY <1>5, <1>6, ReturnedOK DEF none

\* apply: the arguments given up are what the evaluator held, and the value goes
\* on the heap.
LEMMA AppliedOK ==
  ASSUME ChartInv, NEW stk0 \in Seq(GoodFrames), NEW arr0 \in Seq(Int), NEW hp0 \in Seq(Nat),
         NEW m0, MemSound(m0, Held(stk0, arr0, hp0, NullValue)), Len(m0) >= Len(tokens),
         NEW n \in DOMAIN nodes,
         NEW args \in Seq(Nat), args # << >>, Len(args) = Arity(n),
         NEW stk \in Seq(GoodFrames), NEW hp \in Seq(Nat),
         \A v \in Nat : Own(stk, << >>, hp, v) + Occurrences(v, args)
                        = Own(stk0, arr0, hp0, v),
         BalancedAt(stk, Len(hp) + 1), NEW ar, ar = ArraysOf(stk)
  PROVE  LET new == AppliedTo(nodes[n], m0, args) IN
         StateOK("execute", stk, Append(hp, new.value), Release(new.mem, args), ar, NoOutcome)
<1> DEFINE a == AlternativeOf(nodes[n])
           r == nodes[n].rule
           k == nodes[n].alt
           new == Applied(a, r, k, m0, args)
           x == new.value
           hp2 == Append(hp, x)
           none == << >>
           one == <<x>>
           H == Held(stk0, arr0, hp0, NullValue)
           O == Held(stk, none, hp2, NullValue)
           left == Release(new.mem, args)
<1>1. MemSound(m0, H) /\ Len(tokens) \in Nat /\ Len(m0) \in Nat /\ Len(m0) >= Len(tokens)
  BY TokenCount, SoundFacts
<1>2. /\ a \in Alternatives /\ r \in Names /\ k \in Nat
      /\ Len(args) = Len(a.symbols) /\ args \in Seq(Int)
  BY NodeFacts
<1>3. none \in Seq(Int)
  OBVIOUS
<1> HIDE DEF none
<1>4. ASSUME NEW v \in Nat
      PROVE  /\ Occurrences(v, args) \in Nat /\ Own(stk, none, hp, v) \in Nat
             /\ Own(stk0, arr0, hp0, v) \in Nat
             /\ Own(stk, none, hp, v) + Occurrences(v, args) = Own(stk0, arr0, hp0, v)
  BY <1>2, <1>3, OccurrencesType, OwnType DEF none
<1>5. HeldToo(args, H)
  <2>1. /\ NullValue \in Nat /\ ChartInv /\ stk0 \in Seq(GoodFrames) /\ hp0 \in Seq(Nat)
        /\ arr0 \in Seq(Int)
    BY NullIs
  <2>2. ASSUME NEW v \in Nat, Occurrences(v, args) # 0
        PROVE  Occurrences(v, H) # 0
    <3> DEFINE t == Occurrences(v, TokensOf(Len(tokens)))
               b == Occurrences(v, HeldBy(stk0))
               c == Occurrences(v, arr0)
               d == Occurrences(v, hp0)
               z == Occurrences(v, <<NullValue>>)
    <3>1. /\ Occurrences(v, H) = (((t + b) + c) + d) + z
          /\ t \in Nat /\ b \in Nat /\ c \in Nat /\ d \in Nat /\ z \in Nat
      BY ONLY <2>1, HeldCount
    <3>2. Own(stk0, arr0, hp0, v) = (b + c) + d
      BY DEF Own
    <3>3. /\ Occurrences(v, args) \in Nat /\ Own(stk, none, hp, v) \in Nat
          /\ Own(stk, none, hp, v) + Occurrences(v, args) = Own(stk0, arr0, hp0, v)
      BY <1>4
    <3>4. (b + c) + d # 0
      BY ONLY <2>2, <3>2, <3>3
    <3> HIDE DEF t, b, c, d, z, H
    <3>5. (((t + b) + c) + d) + z # 0
      BY ONLY <3>1, <3>4
    <3> QED BY ONLY <3>1, <3>5
  <2> QED BY <2>2 DEF HeldToo
<1> HIDE DEF a, r, k
<1>6. /\ x \in Nat /\ Len(new.mem) \in Nat /\ Len(new.mem) >= Len(m0)
  <2> HIDE DEF H
  <2> QED BY <1>1, <1>2, <1>5, ArgsGrown
<1>7. new = AppliedTo(nodes[n], m0, args)
  BY DEF AppliedTo, a, r, k
<1> HIDE DEF new
<1>8. hp2 \in Seq(Nat) /\ Len(hp2) = Len(hp) + 1
      /\ \A v : Occurrences(v, hp2) = Occurrences(v, hp) + Occurrences(v, one)
  <2> HIDE DEF x
  <2> QED BY <1>6, HeapPush
<1>9. one \in Seq(Int)
  BY <1>6
<1>10. Changes(stk0, arr0, hp0, stk, none, hp2, args, one)
  <2>1. SUFFICES ASSUME NEW v \in Nat
        PROVE  Own(stk, none, hp2, v) + Occurrences(v, args)
                 = Own(stk0, arr0, hp0, v) + Occurrences(v, one)
    BY DEF Changes
  <2> HIDE DEF one, hp2
  <2>2. /\ Occurrences(v, HeldBy(stk)) \in Nat /\ Occurrences(v, none) \in Nat
        /\ Occurrences(v, hp) \in Nat
    BY <1>3, OwnType
  <2>3. Occurrences(v, one) \in Nat
    BY <1>9, OccurrencesType
  <2>4. /\ Occurrences(v, args) \in Nat /\ Own(stk0, arr0, hp0, v) \in Nat
        /\ Own(stk, none, hp, v) \in Nat
        /\ Own(stk, none, hp, v) + Occurrences(v, args) = Own(stk0, arr0, hp0, v)
    BY <1>4
  <2>5. Occurrences(v, hp2) = Occurrences(v, hp) + Occurrences(v, one)
    BY <1>8
  <2>6. Own(stk, none, hp2, v) = Own(stk, none, hp, v) + Occurrences(v, one)
    BY ONLY <2>2, <2>3, <2>5 DEF Own
  <2> QED BY ONLY <2>3, <2>4, <2>6
<1> HIDE DEF one, hp2
<1>11. /\ O \in Seq(Int)
       /\ \A v \in Nat : /\ Occurrences(v, O) \in Nat /\ Occurrences(v, H) \in Nat
                         /\ Occurrences(v, O) + Occurrences(v, args)
                              = Occurrences(v, H) + Occurrences(v, one)
  <2>1. /\ ChartInv /\ stk0 \in Seq(GoodFrames) /\ hp0 \in Seq(Nat) /\ arr0 \in Seq(Int)
        /\ stk \in Seq(GoodFrames) /\ hp2 \in Seq(Nat) /\ none \in Seq(Int)
        /\ args \in Seq(Int) /\ one \in Seq(Int)
    BY <1>2, <1>3, <1>8, <1>9
  <2>2. Traded(H, O, args, one)
    BY ONLY <1>10, <2>1, HeldChanges
  <2> QED BY ONLY <2>2 DEF Traded
<1>12. MemSound(left, O) /\ Len(left) \in Nat /\ Len(left) >= Len(m0)
  <2> HIDE DEF H, O
  <2>1. Exchanged(H, O, args, x)
    BY <1>11 DEF Exchanged, one
  <2>2. Exchanged(H, O, args, Applied(a, r, k, m0, args).value)
    BY <2>1 DEF new
  <2>3. LET nw == Applied(a, r, k, m0, args)
            lf == Release(nw.mem, args)
        IN  MemSound(lf, O) /\ Len(lf) \in Nat /\ Len(lf) >= Len(m0)
    BY <1>1, <1>2, <1>5, <1>11, <2>2, ApplySound
  <2> QED BY <2>3 DEF new
<1> HIDE DEF left
<1>13. Len(left) >= Len(tokens)
  BY <1>1, <1>12
<1>14. StateOK("execute", stk, hp2, left, ar, NoOutcome)
  BY <1>8, <1>12, <1>13, ExecuteOK DEF none
<1> QED BY <1>7, <1>14 DEF hp2, left

-----------------------------------------------------------------------------
(* The frame on top                                                        *)

\* What is known of the values of a node's children: the tokens.
LEMMA DirectFacts ==
  ASSUME ChartInv, NEW n \in DOMAIN nodes
  PROVE  LET d == Direct(nodes[n])
             u == Unknown(nodes[n])
         IN  /\ d \in Seq(Int) /\ Len(d) = Arity(n)
             /\ u \in Seq(Nat) /\ Open(d, u)
             /\ u = << >> => d \in Seq(Nat)
             /\ \A s \in 1..Len(u) : nodes[n].children[u[s]].of \in DOMAIN nodes
             /\ \A v \in Nat : Occurrences(v, d) # 0 => v \in 1..Len(tokens)
<1> DEFINE c == nodes[n].children
           d == Direct(nodes[n])
           u == Unknown(nodes[n])
<1>1. PICK l \in Nat : l = Arity(n)
  BY NodeFacts
<1>2. /\ DOMAIN c = 1..l /\ l = Len(c)
      /\ \A k \in 1..l : \/ c[k].kind = "token" /\ c[k].of \in 0..(Len(tokens) - 1)
                         \/ c[k].kind = "node" /\ c[k].of \in DOMAIN nodes
  BY <1>1, NodeFacts DEF Arity
<1>3. Len(tokens) \in Nat
  BY TokenCount
<1>4. PlacedFrom(nodes[n], 1, l, u)
  BY <1>2, UnknownIs
<1> HIDE DEF u
<1>5. DOMAIN d = 1..l /\ \A k \in 1..l :
        d[k] = CASE c[k].kind = "token" -> TokenValue(c[k].of)
                 [] c[k].kind = "node"  -> Undef
                 [] c[k].kind = "null"  -> NullValue
  BY <1>2 DEF Direct
<1>6. d = [k \in 1..l |-> d[k]]
  BY <1>2 DEF Direct
<1> HIDE DEF c, d
<1>7. \A k \in 1..l : IF c[k].kind = "node" THEN d[k] = Undef ELSE d[k] \in 1..Len(tokens)
  <2>1. SUFFICES ASSUME NEW k \in 1..l
        PROVE IF c[k].kind = "node" THEN d[k] = Undef ELSE d[k] \in 1..Len(tokens)
    OBVIOUS
  <2>2. CASE c[k].kind = "token" /\ c[k].of \in 0..(Len(tokens) - 1)
    <3>1. d[k] = c[k].of + 1 /\ c[k].kind # "node"
      BY <1>5, <2>2 DEF TokenValue
    <3> QED BY <1>3, <2>2, <3>1
  <2>3. CASE c[k].kind = "node" /\ c[k].of \in DOMAIN nodes
    BY <1>5, <2>3
  <2> QED BY <1>2, <2>2, <2>3
<1>8. \A k \in 1..l : d[k] \in Int
  BY <1>3, <1>7 DEF Undef
<1>9. d \in Seq(Int) /\ Len(d) = l
  BY <1>6, <1>8
<1>10. /\ u \in Seq(Nat) /\ DOMAIN u = 1..Len(u) /\ Len(u) \in Nat
       /\ \A s \in DOMAIN u : u[s] \in 1..l /\ c[u[s]].kind = "node"
       /\ \A s, t \in DOMAIN u : s < t => u[s] > u[t]
       /\ \A j \in 1..l : c[j].kind = "node" => \E s \in DOMAIN u : u[s] = j
  BY <1>4 DEF PlacedFrom, c
<1>11. \A s, t \in DOMAIN u : u[s] = u[t] => s = t
  <2>1. SUFFICES ASSUME NEW s \in DOMAIN u, NEW t \in DOMAIN u, u[s] = u[t], s # t PROVE FALSE
    OBVIOUS
  <2>2. s \in Nat /\ t \in Nat /\ u[s] \in Nat
    BY <1>10
  <2>3. s < t \/ t < s
    BY <2>1, <2>2
  <2> QED BY <1>10, <2>1, <2>2, <2>3
<1>12. \A k : k \in Range(u) <=> k \in 1..l /\ c[k].kind = "node"
  BY <1>10 DEF Range
<1>13. Range(u) \subseteq DOMAIN d
  BY <1>5, <1>12
<1>14. \A k \in 1..l : IF k \in Range(u) THEN d[k] = Undef ELSE d[k] \in Nat
  BY <1>3, <1>7, <1>12
<1>15. Open(d, u)
  BY <1>5, <1>9, <1>10, <1>11, <1>13, <1>14 DEF Open
<1>16. ASSUME u = << >> PROVE d \in Seq(Nat)
  <2>1. Range(u) = {}
    BY <1>16 DEF Range
  <2>2. \A k \in 1..l : d[k] \in Nat
    BY <1>14, <2>1
  <2> QED BY <1>6, <2>2
<1>17. \A s \in 1..Len(u) : c[u[s]].of \in DOMAIN nodes
  <2>1. SUFFICES ASSUME NEW s \in 1..Len(u) PROVE c[u[s]].of \in DOMAIN nodes
    OBVIOUS
  <2>2. u[s] \in 1..l /\ c[u[s]].kind = "node"
    BY <1>10
  <2> QED BY <1>2, <2>2
<1>18. ASSUME NEW v \in Nat, Occurrences(v, d) # 0 PROVE v \in 1..Len(tokens)
  <2>1. v \in Range(d)
    BY <1>9, <1>18, InRange
  <2>2. PICK k \in 1..l : v = d[k]
    BY <1>5, <2>1 DEF Range
  <2> QED BY <1>7, <2>2 DEF Undef
<1>19. d \in Seq(Int) /\ Len(d) = Arity(n)
  BY <1>1, <1>9
<1> QED BY <1>10, <1>15, <1>16, <1>17, <1>18, <1>19 DEF c, d, u

LEMMA SelectPopped ==
  ASSUME EvalInv, Executing("select")
  PROVE  /\ Front(stack) \in Seq(GoodFrames)
         /\ Last(stack).item \in DOMAIN nodes /\ TopNode = nodes[Last(stack).item]
         /\ \A v : Occurrences(v, HeldBy(Front(stack))) = Occurrences(v, HeldBy(stack))
         /\ ArraysOf(Front(stack)) = ArraysOf(stack)
         /\ BalancedAt(Front(stack), Len(heap) + 1)
<1>1. stage = "execute" /\ stack # << >> /\ Last(stack).kind = "select"
  BY DEF Executing
<1>2. stack \in Seq(GoodFrames) /\ heap \in Seq(Nat) /\ BalancedAt(stack, Len(heap))
  BY <1>1, Running
<1>3. Front(stack) \in Seq(GoodFrames) /\ Last(stack) \in GoodFrames
  BY <1>1, <1>2, LastFront
<1>4. Last(stack).item \in DOMAIN nodes /\ Last(stack).partial = << >> /\ Last(stack).slots = << >>
  BY <1>1, <1>3 DEF GoodFrames
<1>5. /\ HeldBy(stack) = HeldBy(Front(stack)) \o << >>
      /\ HeldBy(Front(stack)) \in Seq(Int)
  BY <1>1, <1>2, <1>4, GoodFrameSet, HeldPop
<1>6. HeldBy(stack) = HeldBy(Front(stack))
  BY <1>5
<1>7. ArraysOf(Front(stack)) = ArraysOf(stack)
  <2>1. ArraysOf(stack) = ArraysOf(Front(stack)) + 0
    BY <1>1, <1>2, ArraysPop
  <2>2. ArraysOf(Front(stack)) \in Nat
    BY <1>3, ArraysType
  <2> QED BY <2>1, <2>2
<1>8. BalancedAt(Front(stack), Len(heap) + 1)
  <2>1. Len(heap) \in Int /\ Len(<< >>) = 0
    BY <1>2
  <2>2. BalancedAt(Front(stack), (Len(heap) + 1) - Len(<< >>))
    BY <1>1, <1>2, <1>4, <2>1, GoodFrameSet, BalancedPop
  <2>3. (Len(heap) + 1) - Len(<< >>) = Len(heap) + 1
    BY <2>1
  <2> QED BY <2>2, <2>3
<1> QED BY <1>3, <1>4, <1>6, <1>7, <1>8 DEF TopNode

\* The references taken to the tokens are those of the array.
LEMMA TokensTaken ==
  ASSUME EvalInv, Executing("select")
  PROVE  LET d == Direct(TopNode) IN
         /\ d \in Seq(Int)
         /\ MemSound(AddRefs(mem, d), Held(Front(stack), d, heap, NullValue))
         /\ Len(AddRefs(mem, d)) = Len(mem)
<1> DEFINE d == Direct(TopNode)
           none == << >>
           H == Held(stack, none, heap, NullValue)
           O == Held(Front(stack), d, heap, NullValue)
<1>1. stage = "execute"
  BY DEF Executing
<1>2. /\ ChartInv /\ stack \in Seq(GoodFrames) /\ heap \in Seq(Nat)
      /\ MemSound(mem, H) /\ Len(tokens) \in Nat
  BY <1>1, Running
<1>3. /\ Front(stack) \in Seq(GoodFrames)
      /\ \A v : Occurrences(v, HeldBy(Front(stack))) = Occurrences(v, HeldBy(stack))
      /\ Last(stack).item \in DOMAIN nodes /\ TopNode = nodes[Last(stack).item]
  BY SelectPopped
<1>4. d \in Seq(Int) /\ \A v \in Nat : Occurrences(v, d) # 0 => v \in 1..Len(tokens)
  BY <1>2, <1>3, DirectFacts
<1>5. none \in Seq(Int) /\ \A v : Occurrences(v, none) = 0
  BY Nothing
<1> HIDE DEF d, none
<1>6. Changes(stack, none, heap, Front(stack), d, heap, none, d)
  <2>1. SUFFICES ASSUME NEW v \in Nat
        PROVE  Own(Front(stack), d, heap, v) + Occurrences(v, none)
                 = Own(stack, none, heap, v) + Occurrences(v, d)
    BY DEF Changes
  <2>2. /\ Occurrences(v, HeldBy(Front(stack))) = Occurrences(v, HeldBy(stack))
        /\ Occurrences(v, none) = 0
    BY <1>3, <1>5
  <2>3. Occurrences(v, HeldBy(stack)) \in Nat /\ Occurrences(v, heap) \in Nat
    BY <1>2, <1>5, OwnType
  <2>4. Occurrences(v, d) \in Nat
    BY <1>4, OccurrencesType
  <2> QED BY ONLY <2>2, <2>3, <2>4 DEF Own
<1>7. Traded(H, O, none, d)
  BY <1>2, <1>3, <1>4, <1>5, <1>6, HeldChanges
<1>8. ASSUME NEW v \in Nat, Occurrences(v, d) # 0 PROVE Occurrences(v, H) # 0
  <2> DEFINE t == Occurrences(v, TokensOf(Len(tokens)))
             a == Occurrences(v, HeldBy(stack))
             b == Occurrences(v, none)
             c == Occurrences(v, heap)
             z == Occurrences(v, <<NullValue>>)
  <2>1. NullValue \in Nat
    BY NullIs
  <2>2. /\ Occurrences(v, H) = (((t + a) + b) + c) + z
        /\ t \in Nat /\ a \in Nat /\ b \in Nat /\ c \in Nat /\ z \in Nat
    BY <1>2, <1>5, <2>1, HeldCount
  <2>3. t = 1
    BY <1>2, <1>4, <1>8, ChartTokens
  <2> HIDE DEF t, a, b, c, z, H
  <2> QED BY ONLY <2>2, <2>3
<1>9. /\ MemSound(AddRefs(mem, d), O) /\ Len(AddRefs(mem, d)) = Len(mem)
  <2> HIDE DEF H, O
  <2>1. O \in Seq(Int) /\ \A v \in Nat : Occurrences(v, O) = Occurrences(v, H) + Occurrences(v, d)
    <3>1. ASSUME NEW v \in Nat PROVE Occurrences(v, O) = Occurrences(v, H) + Occurrences(v, d)
      <4>1. /\ Occurrences(v, O) + Occurrences(v, none) = Occurrences(v, H) + Occurrences(v, d)
            /\ Occurrences(v, O) \in Nat /\ Occurrences(v, none) = 0
        BY <1>5, <1>7 DEF Traded
      <4> QED BY ONLY <4>1
    <3> QED BY <1>7, <3>1 DEF Traded
  <2> QED BY <1>2, <1>4, <1>8, <2>1, AddRefsSound
<1> QED BY <1>4, <1>9 DEF d

\* An apply frame on top: its arguments come from its array and from the heap.
LEMMA ApplyPopped ==
  ASSUME EvalInv, Executing("apply")
  PROVE  /\ Front(stack) \in Seq(GoodFrames)
         /\ Last(stack).item \in DOMAIN nodes /\ TopNode = nodes[Last(stack).item]
         /\ TopArgs \in Seq(Nat) /\ TopArgs \in Seq(Int) /\ TopArgs # << >>
         /\ Len(TopArgs) = Arity(Last(stack).item)
         /\ HeapLeft \in Seq(Nat) /\ HeapLeft \in Seq(Int)
         /\ \A v \in Nat :
              /\ Occurrences(v, TopArgs) \in Nat /\ Occurrences(v, HeapLeft) \in Nat
              /\ Occurrences(v, HeldBy(Front(stack))) \in Nat
              /\ (Occurrences(v, TopArgs) + Occurrences(v, HeapLeft))
                   + Occurrences(v, HeldBy(Front(stack)))
                 = Occurrences(v, HeldBy(stack)) + Occurrences(v, heap)
         /\ ArraysOf(stack) = ArraysOf(Front(stack)) + 2
         /\ BalancedAt(Front(stack), Len(HeapLeft) + 1)
<1> DEFINE partial == Last(stack).partial
           slots == Last(stack).slots
<1>1. stage = "execute" /\ stack # << >> /\ Last(stack).kind = "apply"
  BY DEF Executing
<1>2. stack \in Seq(GoodFrames) /\ heap \in Seq(Nat) /\ ChartInv /\ BalancedAt(stack, Len(heap))
  BY <1>1, Running
<1>3. Front(stack) \in Seq(GoodFrames) /\ Last(stack) \in GoodFrames
  BY <1>1, <1>2, LastFront
<1>4. /\ Last(stack).item \in DOMAIN nodes /\ Open(partial, slots) /\ partial # << >>
      /\ Len(partial) = Arity(Last(stack).item)
  BY <1>1, <1>3 DEF GoodFrames
<1>5. /\ HeldBy(stack) = HeldBy(Front(stack)) \o partial
      /\ HeldBy(Front(stack)) \in Seq(Int)
  BY <1>1, <1>2, GoodFrameSet, HeldPop
<1>6. ArraysOf(stack) = ArraysOf(Front(stack)) + 2
  BY <1>1, <1>2, ArraysPop
<1>7. BalancedAt(stack, Len(heap))
        <=> BalancedAt(Front(stack), (Len(heap) + 1) - Len(slots)) /\ Len(heap) >= Len(slots)
  <2>1. Len(heap) \in Int
    BY <1>2
  <2> QED BY <1>1, <1>2, <2>1, GoodFrameSet, BalancedPop
<1> HIDE DEF partial, slots
<1>8. partial \in Seq(Int) /\ slots \in Seq(Nat) /\ Len(slots) \in Nat /\ Len(heap) \in Nat
  BY <1>2, <1>4 DEF Open
<1>9. BalancedAt(Front(stack), (Len(heap) + 1) - Len(slots)) /\ Len(heap) >= Len(slots)
  BY <1>2, <1>7
<1>10. TopArgs = Filled(partial, slots, heap) /\ HeapLeft = Popped(heap, Len(slots))
  BY DEF TopArgs, HeapLeft, partial, slots
<1>11. TopArgs \in Seq(Nat) /\ Len(TopArgs) = Len(partial)
  BY <1>2, <1>4, <1>8, <1>9, <1>10, FilledEntries
<1>12. HeapLeft \in Seq(Nat) /\ Len(HeapLeft) = Len(heap) - Len(slots)
  <2>1. Len(slots) \in 0..Len(heap)
    BY <1>8, <1>9
  <2> QED BY <1>2, <1>10, <2>1, OccurrencesPopped
<1>13. BalancedAt(Front(stack), Len(HeapLeft) + 1)
  <2>1. (Len(heap) + 1) - Len(slots) = Len(HeapLeft) + 1
    BY <1>8, <1>12
  <2> QED BY <1>9, <2>1
<1>14. TopArgs # << >>
  BY <1>4, <1>8, <1>11
<1>15. TopArgs \in Seq(Int) /\ HeapLeft \in Seq(Int)
  BY <1>11, <1>12, SeqMonotonic, Nat \subseteq Int
<1>16. ASSUME NEW v \in Nat
       PROVE  /\ Occurrences(v, TopArgs) \in Nat /\ Occurrences(v, HeapLeft) \in Nat
              /\ Occurrences(v, HeldBy(Front(stack))) \in Nat
              /\ (Occurrences(v, TopArgs) + Occurrences(v, HeapLeft))
                   + Occurrences(v, HeldBy(Front(stack)))
                 = Occurrences(v, HeldBy(stack)) + Occurrences(v, heap)
  <2>1. Occurrences(v, TopArgs) + Occurrences(v, HeapLeft)
          = Occurrences(v, partial) + Occurrences(v, heap)
    BY <1>2, <1>4, <1>9, <1>10, FilledOccurrences
  <2>2. Occurrences(v, HeldBy(stack))
          = Occurrences(v, HeldBy(Front(stack))) + Occurrences(v, partial)
    BY <1>5, <1>8, OccurrencesConcat
  <2>3. /\ Occurrences(v, TopArgs) \in Nat /\ Occurrences(v, HeapLeft) \in Nat
        /\ Occurrences(v, HeldBy(Front(stack))) \in Nat /\ Occurrences(v, partial) \in Nat
        /\ Occurrences(v, heap) \in Nat
    BY <1>2, <1>5, <1>8, <1>15, OccurrencesType
  <2> QED BY ONLY <2>1, <2>2, <2>3
<1> QED BY <1>3, <1>4, <1>6, <1>11, <1>12, <1>13, <1>14, <1>15, <1>16 DEF TopNode

-----------------------------------------------------------------------------
(* The steps                                                               *)

\* An alternative without symbols leaves one value.
LEMMA SelectEmptyStep ==
  ASSUME EvalInv, SelectEmpty
  PROVE  StateOK(stage', stack', heap', mem', arrays', outcome')
<1> DEFINE new == EmptyValue(AlternativeOf(TopNode), mem)
           none == << >>
           H == Held(stack, none, heap, NullValue)
           hp == Append(heap, new.value)
           O == Held(Front(stack), none, hp, NullValue)
<1>1. /\ Executing("select") /\ stage = "execute" /\ stage' = stage
      /\ arrays' = arrays /\ outcome' = outcome
      /\ mem' = new.mem /\ heap' = hp /\ stack' = Front(stack)
  BY DEF SelectEmpty, Executing
<1>2. /\ ChartInv /\ outcome = NoOutcome
      /\ stack \in Seq(GoodFrames) /\ heap \in Seq(Nat) /\ arrays = ArraysOf(stack)
      /\ Len(mem) \in Nat /\ Len(mem) >= Len(tokens) /\ Len(tokens) \in Nat
      /\ MemSound(mem, H)
  BY <1>1, Running
<1>3. /\ Front(stack) \in Seq(GoodFrames)
      /\ \A v : Occurrences(v, HeldBy(Front(stack))) = Occurrences(v, HeldBy(stack))
      /\ ArraysOf(Front(stack)) = ArraysOf(stack)
      /\ BalancedAt(Front(stack), Len(heap) + 1)
  BY <1>1, SelectPopped
<1> HIDE DEF new
<1>4. GrownBy(mem, H, new)
  <2> HIDE DEF H
  <2>1. Exact(mem, H) /\ \A v \in Range(H) : v <= Len(mem)
    BY <1>2 DEF MemSound
  <2> QED BY <2>1, EmptyGrown DEF new
<1>5. new.value \in Nat /\ Len(new.mem) \in Nat /\ Len(new.mem) >= Len(mem)
  BY <1>4 DEF GrownBy
<1>6. /\ hp \in Seq(Nat) /\ Len(hp) = Len(heap) + 1
      /\ \A v : Occurrences(v, hp) = Occurrences(v, heap) + Occurrences(v, <<new.value>>)
  BY <1>2, <1>5, HeapPush
<1> HIDE DEF hp
<1> DEFINE one == <<new.value>>
<1>7. none \in Seq(Int) /\ one \in Seq(Int) /\ \A v : Occurrences(v, none) = 0
  BY <1>5, Nothing
<1> HIDE DEF one, none
<1>8. Changes(stack, none, heap, Front(stack), none, hp, none, one)
  <2>1. SUFFICES ASSUME NEW v \in Nat
        PROVE  Own(Front(stack), none, hp, v) + Occurrences(v, none)
                 = Own(stack, none, heap, v) + Occurrences(v, one)
    BY DEF Changes
  <2>2. /\ Occurrences(v, HeldBy(Front(stack))) = Occurrences(v, HeldBy(stack))
        /\ Occurrences(v, hp) = Occurrences(v, heap) + Occurrences(v, one)
        /\ Occurrences(v, none) = 0
    BY <1>3, <1>6, <1>7 DEF one
  <2>3. Occurrences(v, one) \in Nat
    BY <1>7, OccurrencesType
  <2>4. Occurrences(v, HeldBy(stack)) \in Nat /\ Occurrences(v, heap) \in Nat
    BY <1>2, <1>7, OwnType
  <2> QED BY ONLY <2>2, <2>3, <2>4 DEF Own
<1>9. Traded(H, O, none, one)
  BY <1>2, <1>3, <1>6, <1>7, <1>8, HeldChanges
<1>10. MemSound(new.mem, O)
  <2> HIDE DEF H, O
  <2>1. O \in Seq(Int) /\ OneMore(H, O, new.value)
    <3>1. ASSUME NEW v \in Nat PROVE Occurrences(v, O) = Occurrences(v, H) + Occurrences(v, one)
      <4>1. /\ Occurrences(v, O) + Occurrences(v, none) = Occurrences(v, H) + Occurrences(v, one)
            /\ Occurrences(v, O) \in Nat /\ Occurrences(v, none) = 0
        BY <1>7, <1>9 DEF Traded
      <4> QED BY ONLY <4>1
    <3> QED BY <1>9, <3>1 DEF Traded, OneMore, one
  <2> QED BY <1>2, <1>4, <2>1, GrownSound
<1>11. Len(new.mem) >= Len(tokens)
  BY <1>2, <1>5
<1>12. StateOK("execute", Front(stack), hp, new.mem, arrays, NoOutcome)
  BY <1>2, <1>3, <1>6, <1>10, <1>11, ExecuteOK DEF none
<1> QED BY <1>1, <1>2, <1>12

\* The array of tokens is given up for the value.
LEMMA SelectTokensStep ==
  ASSUME EvalInv, SelectTokens
  PROVE  StateOK(stage', stack', heap', mem', arrays', outcome')
<1> DEFINE n == Last(stack).item
           args == Direct(TopNode)
           m == AddRefs(mem, args)
           new == AppliedTo(nodes[n], m, args)
           front == Front(stack)
           none == << >>
<1>1. /\ Executing("select") /\ stage = "execute" /\ stage' = stage
      /\ TopNode.children # << >> /\ Unknown(TopNode) = << >>
      /\ mem' = Release(new.mem, args) /\ heap' = Append(heap, new.value)
      /\ arrays' = arrays /\ stack' = front /\ outcome' = outcome
  BY DEF SelectTokens, SelectingTokens, Executing, TopNode
<1>2. /\ ChartInv /\ outcome = NoOutcome
      /\ stack \in Seq(GoodFrames) /\ heap \in Seq(Nat) /\ arrays = ArraysOf(stack)
      /\ Len(mem) >= Len(tokens)
  BY <1>1, Running
<1>3. /\ front \in Seq(GoodFrames) /\ n \in DOMAIN nodes /\ TopNode = nodes[n]
      /\ ArraysOf(front) = ArraysOf(stack) /\ BalancedAt(front, Len(heap) + 1)
  BY <1>1, SelectPopped
<1>4. args \in Seq(Nat) /\ Len(args) = Arity(n) /\ args \in Seq(Int)
  BY <1>1, <1>2, <1>3, DirectFacts
<1>5. args # << >>
  <2>1. Len(TopNode.children) # 0
    <3>1. nodes[n].children \in Seq(Slot)
      BY <1>2, <1>3, NodeFacts
    <3> QED BY <1>1, <1>3, <3>1
  <2> QED BY <1>3, <1>4, <2>1 DEF Arity
<1>6. MemSound(m, Held(front, args, heap, NullValue)) /\ Len(m) = Len(mem)
  BY <1>1, TokensTaken
<1>7. none \in Seq(Int) /\ \A v : Occurrences(v, none) = 0
  BY Nothing
<1> HIDE DEF front, args, n, m, none
<1>8. ASSUME NEW v \in Nat
      PROVE  Own(front, none, heap, v) + Occurrences(v, args) = Own(front, args, heap, v)
  <2>1. /\ Occurrences(v, HeldBy(front)) \in Nat /\ Occurrences(v, args) \in Nat
        /\ Occurrences(v, heap) \in Nat
    BY <1>2, <1>3, <1>4, OwnType
  <2>2. Occurrences(v, none) = 0
    BY <1>7
  <2> QED BY ONLY <2>1, <2>2 DEF Own
<1>9. Len(m) >= Len(tokens) /\ arrays = ArraysOf(front)
  BY <1>2, <1>3, <1>6
<1>10. StateOK("execute", front, Append(heap, new.value), Release(new.mem, args),
               arrays, NoOutcome)
  BY <1>2, <1>3, <1>4, <1>5, <1>6, <1>8, <1>9, AppliedOK DEF none
<1> QED BY <1>1, <1>2, <1>10

\* The references of the array, the frames and the heap are given up.
LEMMA ThrowAtTokensStep ==
  ASSUME EvalInv, ThrowAtTokens
  PROVE  StateOK(stage', stack', heap', mem', arrays', outcome')
<1> DEFINE args == Direct(TopNode)
           m == AddRefs(mem, args)
           front == Front(stack)
           held == HeldBy(front)
           vs == args \o held \o heap
<1>1. /\ Executing("select") /\ stage = "execute"
      /\ mem' = Release(m, vs) /\ arrays' = arrays - 0 - ArraysOf(front)
      /\ stack' = << >> /\ heap' = << >> /\ stage' = "returned"
      /\ outcome' = [kind |-> "exception", value |-> NullValue]
  BY DEF ThrowAtTokens, SelectingTokens, Executing, Abandon, Leaving
<1>2. /\ ChartInv /\ stack \in Seq(GoodFrames) /\ heap \in Seq(Nat) /\ heap \in Seq(Int)
      /\ arrays = ArraysOf(stack)
  BY <1>1, Running
<1>3. front \in Seq(GoodFrames) /\ ArraysOf(front) = ArraysOf(stack)
  BY <1>1, SelectPopped
<1>4. /\ args \in Seq(Int) /\ MemSound(m, Held(front, args, heap, NullValue))
  BY <1>1, TokensTaken
<1>5. held \in Seq(Int)
  BY <1>3, GoodFrameSet, HeldTypes
<1> DEFINE first == args \o held
<1> HIDE DEF held, args, m
<1>6. first \in Seq(Int) /\ \A v : Occurrences(v, first)
                                    = Occurrences(v, args) + Occurrences(v, held)
  BY <1>4, <1>5, OccurrencesConcat
<1> HIDE DEF first
<1>7. /\ first \o heap \in Seq(Int)
      /\ \A v : Occurrences(v, first \o heap) = Occurrences(v, first) + Occurrences(v, heap)
  BY <1>2, <1>6, OccurrencesConcat
<1>8. vs = first \o heap
  BY DEF first
<1>9. ASSUME NEW v \in Nat PROVE Occurrences(v, vs) = Own(front, args, heap, v)
  <2>1. /\ Occurrences(v, held) \in Nat /\ Occurrences(v, args) \in Nat
        /\ Occurrences(v, heap) \in Nat
    BY <1>2, <1>4, <1>5, OccurrencesType
  <2>2. Own(front, args, heap, v)
          = (Occurrences(v, held) + Occurrences(v, args)) + Occurrences(v, heap)
    BY DEF Own, held
  <2>3. Occurrences(v, vs)
          = (Occurrences(v, args) + Occurrences(v, held)) + Occurrences(v, heap)
    BY <1>6, <1>7, <1>8
  <2> HIDE DEF vs
  <2> QED BY ONLY <2>1, <2>2, <2>3
<1>10. vs \in Seq(Int)
  BY <1>7, <1>8
<1> HIDE DEF vs, front
<1>11. arrays - 0 - ArraysOf(front) = 0
  <2>1. ArraysOf(front) \in Nat
    BY <1>3, ArraysType
  <2> QED BY <1>2, <1>3, <2>1
<1>12. StateOK("returned", << >>, << >>, Release(m, vs), 0,
               [kind |-> "exception", value |-> NullValue])
  BY <1>2, <1>3, <1>4, <1>9, <1>10, AbandonOK
<1> QED BY <1>1, <1>11, <1>12

\* The children's frames hold nothing; the apply frame holds the array.
LEMMA SelectNodesStep ==
  ASSUME EvalInv, SelectNodes
  PROVE  StateOK(stage', stack', heap', mem', arrays', outcome')
<1> DEFINE t == Last(stack).item
           args == Direct(TopNode)
           slots == Unknown(TopNode)
           items == [k \in DOMAIN slots |-> TopNode.children[slots[k]].of]
           front == Front(stack)
           f == ApplyFrame(t, args, slots)
           st1 == Append(front, f)
           new == st1 \o SelectsOf(items)
           m == AddRefs(mem, args)
           n == Len(heap) + Len(slots)
           none == << >>
           H == Held(front, args, heap, NullValue)
           O == Held(new, none, heap, NullValue)
<1>1. /\ Executing("select") /\ stage = "execute" /\ stage' = stage /\ slots # << >>
      /\ stack' = new /\ mem' = m /\ arrays' = arrays + 2
      /\ heap' = heap /\ outcome' = outcome
  BY DEF SelectNodes, SelectsOf, Executing
<1>2. /\ ChartInv /\ outcome = NoOutcome
      /\ stack \in Seq(GoodFrames) /\ heap \in Seq(Nat) /\ arrays = ArraysOf(stack)
      /\ Len(mem) >= Len(tokens)
  BY <1>1, Running
<1>3. /\ front \in Seq(GoodFrames) /\ t \in DOMAIN nodes /\ TopNode = nodes[t]
      /\ ArraysOf(front) = ArraysOf(stack) /\ BalancedAt(front, Len(heap) + 1)
  BY <1>1, SelectPopped
<1>4. /\ args \in Seq(Int) /\ Len(args) = Arity(t) /\ slots \in Seq(Nat) /\ Open(args, slots)
      /\ \A s \in 1..Len(slots) : TopNode.children[slots[s]].of \in DOMAIN nodes
  BY <1>2, <1>3, DirectFacts
<1>5. items \in Seq(DOMAIN nodes) /\ Len(items) = Len(slots) /\ Len(slots) \in Nat
  <2>1. DOMAIN slots = 1..Len(slots) /\ Len(slots) \in Nat
    BY <1>4
  <2> HIDE DEF slots
  <2>2. items = [k \in 1..Len(slots) |-> TopNode.children[slots[k]].of]
    BY <2>1
  <2> QED BY <1>4, <2>1, <2>2
<1>6. args # << >>
  <2>1. 1 \in DOMAIN slots
    BY <1>1, <1>4
  <2>2. Range(slots) # {}
    BY <2>1 DEF Range
  <2>3. DOMAIN args # {}
    BY <1>4, <2>2 DEF Open
  <2> QED BY <2>3
<1>7. MemSound(m, H) /\ Len(m) = Len(mem)
  BY <1>1, TokensTaken
<1> HIDE DEF args, slots, items, front, m, t
<1>8. f.kind = "apply" /\ f.item = t /\ f.partial = args /\ f.slots = slots
  BY ApplyFields
<1>9. f \in GoodFrames
  <2>1. t \in Nat
    BY <1>2, <1>3, NodeFacts
  <2>2. f \in Frame
    BY <1>4, <2>1 DEF ApplyFrame, Frame
  <2> HIDE DEF f
  <2> QED BY <1>3, <1>4, <1>6, <1>8, <2>2 DEF GoodFrames
<1> HIDE DEF f
<1>10. FrameSet(GoodFrames) /\ \A i \in DOMAIN nodes : SelectFrame(i) \in GoodFrames
  BY <1>2, GoodFrameSet
<1>11. /\ st1 \in Seq(GoodFrames)
       /\ HeldBy(front) \in Seq(Int) /\ HeldBy(st1) = HeldBy(front) \o args
  <2>1. st1 \in Seq(GoodFrames)
    BY <1>3, <1>9
  <2>2. HeldBy(front) \in Seq(Int) /\ HeldBy(st1) = HeldBy(front) \o f.partial
    BY <1>3, <1>9, <1>10, HeldPush
  <2> QED BY <1>8, <2>1, <2>2
<1>12. ArraysOf(st1) = ArraysOf(front) + 2
  BY <1>3, <1>8, <1>9, ArraysPush
<1>13. n \in Nat /\ n >= Len(slots) /\ (n + 1) - Len(slots) = Len(heap) + 1
       /\ Len(heap) \in Nat
  <2>1. Len(heap) \in Nat /\ Len(slots) \in Nat
    BY <1>2, <1>5
  <2>2. \A a, b \in Nat : a + b \in Nat /\ a + b >= b /\ ((a + b) + 1) - b = a + 1
    OBVIOUS
  <2> QED BY ONLY <2>1, <2>2
<1>14. BalancedAt(st1, n)
  <2> HIDE DEF n
  <2>1. n \in Int
    BY <1>13
  <2>2. BalancedAt(st1, n) <=> BalancedAt(front, (n + 1) - Len(f.slots)) /\ n >= Len(f.slots)
    BY <1>3, <1>9, <1>10, <2>1, BalancedPush
  <2> QED BY <1>3, <1>8, <1>13, <2>2
<1> HIDE DEF st1
<1>15. /\ new \in Seq(GoodFrames) /\ HeldBy(new) = HeldBy(st1)
       /\ ArraysOf(new) = ArraysOf(st1)
       /\ BalancedAt(new, Len(heap)) <=> BalancedAt(st1, n)
  <2>1. st1 \in Seq(GoodFrames) /\ Len(heap) \in Nat
    BY <1>11, <1>13
  <2>2. \A its \in Seq(DOMAIN nodes) :
          LET added == st1 \o SelectsOf(its) IN
          /\ added \in Seq(GoodFrames)
          /\ HeldBy(added) = HeldBy(st1)
          /\ ArraysOf(added) = ArraysOf(st1)
          /\ \A k \in Nat : BalancedAt(added, k) <=> BalancedAt(st1, k + Len(its))
    BY <1>10, <2>1, SelectsPushed
  <2> QED BY <1>5, <2>1, <2>2
<1> HIDE DEF new, n
<1>16. none \in Seq(Int) /\ \A v : Occurrences(v, none) = 0
  BY Nothing
<1> HIDE DEF none
<1>17. Changes(front, args, heap, new, none, heap, none, none)
  <2>1. SUFFICES ASSUME NEW v \in Nat
        PROVE  Own(new, none, heap, v) + Occurrences(v, none)
                 = Own(front, args, heap, v) + Occurrences(v, none)
    BY DEF Changes
  <2>2. Occurrences(v, HeldBy(new)) = Occurrences(v, HeldBy(front)) + Occurrences(v, args)
    BY <1>4, <1>11, <1>15, OccurrencesConcat
  <2>3. Occurrences(v, none) = 0
    BY <1>16
  <2>4. /\ Occurrences(v, HeldBy(front)) \in Nat /\ Occurrences(v, args) \in Nat
        /\ Occurrences(v, heap) \in Nat
    BY <1>2, <1>3, <1>4, OwnType
  <2> QED BY ONLY <2>2, <2>3, <2>4 DEF Own
<1>18. Traded(H, O, none, none)
  BY <1>2, <1>3, <1>4, <1>15, <1>16, <1>17, HeldChanges
<1>19. MemSound(m, O)
  <2> HIDE DEF H, O
  <2>1. O \in Seq(Int) /\ SameHeld(H, O)
    <3>1. ASSUME NEW v \in Nat PROVE Occurrences(v, O) = Occurrences(v, H)
      <4>1. /\ Occurrences(v, O) + Occurrences(v, none) = Occurrences(v, H) + Occurrences(v, none)
            /\ Occurrences(v, O) \in Nat /\ Occurrences(v, H) \in Nat
            /\ Occurrences(v, none) = 0
        BY <1>16, <1>18 DEF Traded
      <4> QED BY ONLY <4>1
    <3> QED BY <1>18, <3>1 DEF Traded, SameHeld
  <2> QED BY <1>7, <2>1, SameSound
<1>20. arrays + 2 = ArraysOf(new) /\ Len(m) >= Len(tokens)
  BY <1>2, <1>3, <1>7, <1>12, <1>15
<1>21. StateOK("execute", new, heap, m, arrays + 2, NoOutcome)
  BY <1>2, <1>14, <1>15, <1>19, <1>20, ExecuteOK DEF none
<1> QED BY <1>1, <1>2, <1>21

\* The filled array is given up for the value.
LEMMA ApplyStep ==
  ASSUME EvalInv, Apply
  PROVE  StateOK(stage', stack', heap', mem', arrays', outcome')
<1> DEFINE n == Last(stack).item
           new == AppliedTo(nodes[n], mem, TopArgs)
           front == Front(stack)
           none == << >>
<1>1. /\ Executing("apply") /\ stage = "execute" /\ stage' = stage
      /\ mem' = Release(new.mem, TopArgs) /\ heap' = Append(HeapLeft, new.value)
      /\ arrays' = arrays - 2 /\ stack' = front /\ outcome' = outcome
  BY DEF Apply, Executing, TopNode
<1>2. /\ ChartInv /\ outcome = NoOutcome
      /\ stack \in Seq(GoodFrames) /\ heap \in Seq(Nat) /\ arrays = ArraysOf(stack)
      /\ Len(mem) >= Len(tokens) /\ MemSound(mem, Held(stack, << >>, heap, NullValue))
  BY <1>1, Running
<1>3. /\ front \in Seq(GoodFrames) /\ n \in DOMAIN nodes
      /\ TopArgs \in Seq(Nat) /\ TopArgs # << >> /\ Len(TopArgs) = Arity(n)
      /\ HeapLeft \in Seq(Nat)
      /\ \A v \in Nat :
           /\ Occurrences(v, TopArgs) \in Nat /\ Occurrences(v, HeapLeft) \in Nat
           /\ Occurrences(v, HeldBy(front)) \in Nat
           /\ (Occurrences(v, TopArgs) + Occurrences(v, HeapLeft))
                + Occurrences(v, HeldBy(front))
              = Occurrences(v, HeldBy(stack)) + Occurrences(v, heap)
      /\ ArraysOf(stack) = ArraysOf(front) + 2
      /\ BalancedAt(front, Len(HeapLeft) + 1)
  BY <1>1, ApplyPopped
<1>4. none \in Seq(Int) /\ \A v : Occurrences(v, none) = 0
  BY Nothing
<1> HIDE DEF front, n, none
<1>5. ASSUME NEW v \in Nat
      PROVE  Own(front, none, HeapLeft, v) + Occurrences(v, TopArgs)
               = Own(stack, none, heap, v)
  <2>1. /\ Occurrences(v, TopArgs) \in Nat /\ Occurrences(v, HeapLeft) \in Nat
        /\ Occurrences(v, HeldBy(front)) \in Nat
        /\ (Occurrences(v, TopArgs) + Occurrences(v, HeapLeft)) + Occurrences(v, HeldBy(front))
             = Occurrences(v, HeldBy(stack)) + Occurrences(v, heap)
    BY <1>3
  <2>2. Occurrences(v, none) = 0
    BY <1>4
  <2>3. Occurrences(v, HeldBy(stack)) \in Nat /\ Occurrences(v, heap) \in Nat
    BY <1>2, <1>4, OwnType
  <2> QED BY ONLY <2>1, <2>2, <2>3 DEF Own
<1>6. arrays - 2 = ArraysOf(front)
  <2>1. ArraysOf(front) \in Nat
    BY <1>3, ArraysType
  <2> QED BY <1>2, <1>3, <2>1
<1>7. StateOK("execute", front, Append(HeapLeft, new.value), Release(new.mem, TopArgs),
              arrays - 2, NoOutcome)
  BY <1>2, <1>3, <1>4, <1>5, <1>6, AppliedOK DEF none
<1> QED BY <1>1, <1>2, <1>7

LEMMA ThrowStep ==
  ASSUME EvalInv, Throw
  PROVE  StateOK(stage', stack', heap', mem', arrays', outcome')
<1> DEFINE front == Front(stack)
           held == HeldBy(front)
           vs == TopArgs \o held \o HeapLeft
           none == << >>
<1>1. /\ Executing("apply") /\ stage = "execute"
      /\ mem' = Release(mem, vs) /\ arrays' = arrays - 2 - ArraysOf(front)
      /\ stack' = << >> /\ heap' = << >> /\ stage' = "returned"
      /\ outcome' = [kind |-> "exception", value |-> NullValue]
  BY DEF Throw, Executing, Abandon, Leaving
<1>2. /\ ChartInv /\ stack \in Seq(GoodFrames) /\ heap \in Seq(Nat)
      /\ arrays = ArraysOf(stack) /\ MemSound(mem, Held(stack, << >>, heap, NullValue))
  BY <1>1, Running
<1>3. /\ front \in Seq(GoodFrames)
      /\ TopArgs \in Seq(Int) /\ HeapLeft \in Seq(Int)
      /\ \A v \in Nat :
           (Occurrences(v, TopArgs) + Occurrences(v, HeapLeft)) + Occurrences(v, held)
             = Occurrences(v, HeldBy(stack)) + Occurrences(v, heap)
      /\ ArraysOf(stack) = ArraysOf(front) + 2
  BY <1>1, ApplyPopped
<1>4. held \in Seq(Int)
  BY <1>3, GoodFrameSet, HeldTypes
<1>5. none \in Seq(Int) /\ \A v : Occurrences(v, none) = 0
  BY Nothing
<1> DEFINE first == TopArgs \o held
<1> HIDE DEF held, none
<1>6. first \in Seq(Int) /\ \A v : Occurrences(v, first)
                                    = Occurrences(v, TopArgs) + Occurrences(v, held)
  BY <1>3, <1>4, OccurrencesConcat
<1> HIDE DEF first
<1>7. /\ first \o HeapLeft \in Seq(Int)
      /\ \A v : Occurrences(v, first \o HeapLeft)
                  = Occurrences(v, first) + Occurrences(v, HeapLeft)
  BY <1>3, <1>6, OccurrencesConcat
<1>8. vs = first \o HeapLeft
  BY DEF first
<1>9. ASSUME NEW v \in Nat PROVE Occurrences(v, vs) = Own(stack, none, heap, v)
  <2>1. /\ Occurrences(v, held) \in Nat /\ Occurrences(v, TopArgs) \in Nat
        /\ Occurrences(v, HeapLeft) \in Nat
    BY <1>3, <1>4, OccurrencesType
  <2>2. Occurrences(v, HeldBy(stack)) \in Nat /\ Occurrences(v, heap) \in Nat
        /\ Occurrences(v, none) = 0
    BY <1>2, <1>5, OwnType
  <2>3. Occurrences(v, vs)
          = (Occurrences(v, TopArgs) + Occurrences(v, held)) + Occurrences(v, HeapLeft)
    BY <1>6, <1>7, <1>8
  <2>4. (Occurrences(v, TopArgs) + Occurrences(v, HeapLeft)) + Occurrences(v, held)
          = Occurrences(v, HeldBy(stack)) + Occurrences(v, heap)
    BY <1>3
  <2> HIDE DEF vs
  <2> QED BY ONLY <2>1, <2>2, <2>3, <2>4 DEF Own
<1>10. vs \in Seq(Int)
  BY <1>7, <1>8
<1> HIDE DEF vs, front
<1>11. arrays - 2 - ArraysOf(front) = 0
  <2>1. ArraysOf(front) \in Nat
    BY <1>3, ArraysType
  <2> QED BY <1>2, <1>3, <2>1
<1>12. StateOK("returned", << >>, << >>, Release(mem, vs), 0,
               [kind |-> "exception", value |-> NullValue])
  BY <1>2, <1>5, <1>9, <1>10, AbandonOK DEF none
<1> QED BY <1>1, <1>11, <1>12

\* The one value left is the caller's now.
LEMMA AnswerStep ==
  ASSUME EvalInv, Answer
  PROVE  StateOK(stage', stack', heap', mem', arrays', outcome')
<1> DEFINE x == Last(heap)
           outc == [kind |-> "value", value |-> x]
           none == << >>
           H == Held(none, none, heap, NullValue)
           O == Held(none, none, none, x)
<1>1. /\ stage = "execute" /\ stack = << >> /\ stage' = "returned" /\ outcome' = outc
      /\ heap' = << >> /\ stack' = stack /\ mem' = mem /\ arrays' = arrays
  BY DEF Answer, Leaving
<1>2. /\ ChartInv /\ heap \in Seq(Nat) /\ arrays = ArraysOf(<< >>)
      /\ MemSound(mem, H) /\ BalancedAt(<< >>, Len(heap))
  BY <1>1, Running
<1>3. Len(heap) = 1
  <2>1. Len(heap) \in Int
    BY <1>2
  <2> QED BY <1>2, <2>1, BalancedEmpty
<1>4. heap = <<x>> /\ x \in Nat
  <2>1. x = heap[1]
    BY <1>3 DEF Last
  <2>2. heap \in [1..Len(heap) -> Nat] /\ 1 \in 1..1
    BY <1>2
  <2>3. heap[1] \in Nat
    BY <1>3, <2>2
  <2> HIDE DEF x
  <2> QED BY <1>2, <1>3, <2>1, <2>3
<1> HIDE DEF x
<1>5. /\ none \in Seq(Nat) /\ none \in Seq(Int) /\ none \in Seq(GoodFrames)
      /\ NullValue \in Nat /\ NullValue = 0
      /\ \A v : Occurrences(v, none) = 0
  BY NullIs, Nothing
<1>6. \A v : Occurrences(v, heap) = Occurrences(v, <<x>>)
  BY <1>4
<1> HIDE DEF none
<1>7. O \in Seq(Int)
  BY <1>2, <1>4, <1>5, HeldCount
<1>8. ASSUME NEW v \in Nat, v > 0 PROVE Occurrences(v, O) = Occurrences(v, H)
  <2> DEFINE t == Occurrences(v, TokensOf(Len(tokens)))
             a == Occurrences(v, HeldBy(none))
             b == Occurrences(v, none)
             c == Occurrences(v, heap)
             y == Occurrences(v, <<x>>)
             z == Occurrences(v, <<NullValue>>)
  <2>1. /\ Occurrences(v, H) = (((t + a) + b) + c) + z
        /\ t \in Nat /\ a \in Nat /\ b \in Nat /\ c \in Nat
    BY <1>2, <1>5, HeldCount
  <2>2. Occurrences(v, O) = (((t + a) + b) + b) + y
    BY <1>2, <1>4, <1>5, HeldCount
  <2>3. z = 0
    <3>1. z = IF NullValue = v THEN 1 ELSE 0
      BY OccurrencesOne
    <3> QED BY <1>5, <1>8, <3>1
  <2>4. c = y /\ b = 0
    BY <1>5, <1>6
  <2> HIDE DEF H, O, t, a, b, c, y, z
  <2> QED BY ONLY <2>1, <2>2, <2>3, <2>4
<1>9. Exact(mem, O)
  <2>1. Exact(mem, H)
    BY <1>2, SoundFacts
  <2> HIDE DEF H, O
  <2> QED BY <1>7, <1>8, <2>1, SameExact
<1>10. outc \in Outcomes /\ outc.value = x
  BY <1>4 DEF Outcomes
<1>11. StateOK("returned", << >>, << >>, mem, 0, outc)
  BY <1>9, <1>10, ReturnedOK DEF none
<1> QED BY <1>1, <1>2, <1>11, Nothing

\* Without values there is nothing to count.
LEMMA EmptyExact == \A holders \in Seq(Int) : Exact(<< >>, holders)
<1>1. << >> \in Seq(Cell) /\ DOMAIN << >> = {}
  OBVIOUS
<1> QED BY <1>1 DEF Exact, MemOK, Counted

\* Before __invoke nothing is held.
LEMMA Ready ==
  ASSUME EvalInv, stage = "ready"
  PROVE  /\ ChartInv /\ stack = << >> /\ heap = << >> /\ mem = << >>
         /\ arrays = 0 /\ outcome = NoOutcome
  BY Nothing DEF EvalInv, StateOK

LEMMA NothingExact ==
  ASSUME ChartInv PROVE Exact(<< >>, Held(<< >>, << >>, << >>, NullValue))
<1>1. Held(<< >>, << >>, << >>, NullValue) \in Seq(Int)
  BY Nothing, NullIs, HeldCount
<1> QED BY <1>1, EmptyExact

\* __invoke leaves with nothing but an exception.
LEMMA NothingStep ==
  ASSUME EvalInv, InvokeNoMatch \/ InvokeAmbiguous
  PROVE  StateOK(stage', stack', heap', mem', arrays', outcome')
<1>1. PICK kind \in {"nomatch", "ambiguity"} :
         /\ stage = "ready" /\ stage' = "returned" /\ stack' = stack /\ heap' = heap
         /\ mem' = mem /\ arrays' = arrays
         /\ outcome' = [kind |-> kind, value |-> NullValue]
  BY DEF InvokeNoMatch, InvokeAmbiguous, Invoking, Leaving
<1> DEFINE outc == [kind |-> kind, value |-> NullValue]
<1>2. outc \in Outcomes /\ outc.value = NullValue
  BY NullIs DEF Outcomes
<1>3. Exact(<< >>, Held(<< >>, << >>, << >>, NullValue))
  BY <1>1, Ready, NothingExact
<1>4. StateOK("returned", << >>, << >>, << >>, 0, outc)
  BY <1>2, <1>3, ReturnedOK
<1> QED BY <1>1, <1>4, Ready

\* The root of the tree is a node of the arena.
LEMMA RootPlaced ==
  ASSUME ChartInv, Len(accepted) = 1
  PROVE  Last(accepted[1].slots).of \in DOMAIN nodes
<1> DEFINE th == accepted[1]
<1>1. Inv /\ accepted \in Seq(ThreadType)
  BY DEF ChartInv, Inv, TypeOK
<1>2. th \in Range(accepted)
  BY <1>1 DEF Range
<1> HIDE DEF th
<1>3. Depth(th) = 2 /\ th.slots[2].kind = "node"
  BY <1>1, <1>2, InvRoots DEF AcceptedRoots
<1>4. Run(th.states, th.slots) /\ StackType(th.states, th.slots)
  BY <1>1, <1>2 DEF Inv, Sound, AllThreads, ThreadOK, Stack
<1>5. Len(th.states) = 2 /\ Len(th.slots) = 2
  BY <1>3, <1>4 DEF Depth, StackType
<1>6. th.slots[2].of \in DOMAIN nodes
  BY <1>3, <1>4, <1>5 DEF Run, Valid
<1>7. Last(th.slots) = th.slots[2]
  BY <1>5 DEF Last
<1> QED BY <1>6, <1>7 DEF th

\* Execute begins with the tokens the chart holds and one frame.
LEMMA InvokeStep ==
  ASSUME EvalInv, Invoke
  PROVE  StateOK(stage', stack', heap', mem', arrays', outcome')
<1> DEFINE root == Last(accepted[1].slots).of
           f == SelectFrame(root)
           none == << >>
           stk == Append(none, f)
           m == TokenCells(Len(tokens))
           O == Held(stk, none, none, NullValue)
<1>1. /\ stage = "ready" /\ stage' = "execute" /\ Len(accepted) = 1
      /\ stack' = <<f>> /\ mem' = m
      /\ heap' = heap /\ arrays' = arrays /\ outcome' = outcome
  BY DEF Invoke, Invoking
<1>2. /\ ChartInv /\ none \in Seq(GoodFrames) /\ none \in Seq(Nat) /\ none \in Seq(Int)
      /\ HeldBy(none) = none /\ ArraysOf(none) = 0 /\ \A v : Occurrences(v, none) = 0
  BY <1>1, Ready, Nothing
<1>3. f \in GoodFrames /\ FrameSet(GoodFrames)
  BY <1>1, <1>2, RootPlaced, GoodFrameSet
<1>4. f.kind = "select" /\ f.partial = << >> /\ f.slots = << >>
  BY SelectFields
<1>5. stk = <<f>>
  OBVIOUS
<1> HIDE DEF f
<1>6. Len(tokens) \in Nat /\ NullValue = 0 /\ NullValue \in Nat
  BY <1>2, TokenCount, NullIs
<1>7. Len(none) = 0 /\ BalancedAt(none, 1)
  BY BalancedEmpty
<1>8. HeldBy(stk) = none
  <2> HIDE DEF none
  <2>1. HeldBy(stk) = HeldBy(none) \o f.partial
    BY <1>2, <1>3, HeldPush
  <2> QED BY <1>2, <1>4, <2>1 DEF none
<1>9. ArraysOf(stk) = 0
  <2> HIDE DEF none
  <2>1. ArraysOf(stk) = ArraysOf(none) + 0
    BY <1>2, <1>3, <1>4, ArraysPush
  <2> QED BY <1>2, <2>1
<1>10. BalancedAt(stk, 0)
  <2> HIDE DEF none
  <2>1. \A n \in Int : BalancedAt(stk, n)
          <=> BalancedAt(none, (n + 1) - Len(f.slots)) /\ n >= Len(f.slots)
    BY <1>2, <1>3, BalancedPush
  <2>2. Len(f.slots) = 0
    BY <1>4
  <2> HIDE DEF stk
  <2>3. \A n \in Int : BalancedAt(stk, n) <=> BalancedAt(none, (n + 1) - 0) /\ n >= 0
    BY <2>1, <2>2
  <2>4. ASSUME NEW n \in Int, n = 0 PROVE BalancedAt(stk, n)
    <3>1. (n + 1) - 0 = 1 /\ n >= 0
      BY <2>4
    <3> QED BY <1>7, <2>3, <3>1
  <2> QED BY <2>4
<1> HIDE DEF none
<1>11. stk \in Seq(GoodFrames)
  BY <1>2, <1>3
<1> HIDE DEF stk
<1>12. O \in Seq(Int)
  BY <1>2, <1>6, <1>11, HeldCount
<1>13. ASSUME NEW v \in Nat, v > 0
       PROVE  Occurrences(v, O) = IF v \in 1..Len(tokens) THEN 1 ELSE 0
  <2> DEFINE t == Occurrences(v, TokensOf(Len(tokens)))
             a == Occurrences(v, HeldBy(stk))
             b == Occurrences(v, none)
             z == Occurrences(v, <<NullValue>>)
  <2>1. Occurrences(v, O) = (((t + a) + b) + b) + z /\ t \in Nat
    BY <1>2, <1>6, <1>11, HeldCount
  <2>2. z = 0
    <3>1. z = IF NullValue = v THEN 1 ELSE 0
      BY OccurrencesOne
    <3> QED BY <1>6, <1>13, <3>1
  <2>3. a = 0 /\ b = 0
    BY <1>2, <1>8
  <2>4. t = IF v \in 1..Len(tokens) THEN 1 ELSE 0
    BY <1>6, ChartTokens
  <2> HIDE DEF O, t, a, b, z
  <2>5. Occurrences(v, O) = t
    BY ONLY <2>1, <2>2, <2>3
  <2> QED BY <2>4, <2>5
<1>14. MemSound(m, O) /\ Len(m) = Len(tokens)
  <2> HIDE DEF O
  <2> QED BY <1>6, <1>12, <1>13, TokensExact
<1>15. Len(m) >= Len(tokens)
  BY <1>6, <1>14
<1> HIDE DEF m
<1>16. StateOK("execute", stk, none, m, 0, NoOutcome)
  <2>1. MemSound(m, Held(stk, << >>, none, NullValue)) /\ BalancedAt(stk, Len(none))
    BY <1>7, <1>10, <1>14 DEF none
  <2>2. 0 = ArraysOf(stk)
    BY <1>9
  <2> QED BY <1>2, <1>11, <1>15, <2>1, <2>2, ExecuteOK
<1> QED BY <1>1, <1>5, <1>16, Ready DEF none

LEMMA EvalInitial == EvalInit => EvalInv
<1> SUFFICES ASSUME EvalInit PROVE EvalInv
  OBVIOUS
<1>1. ChartInv
  BY InitChart DEF EvalInit
<1>2. /\ stage = "ready" /\ stack = << >> /\ heap = << >> /\ mem = << >>
      /\ arrays = 0 /\ outcome = NoOutcome
  BY DEF EvalInit, NoOutcome
<1>3. /\ << >> \in Seq(GoodFrames) /\ << >> \in Seq(Nat) /\ ArraysOf(<< >>) = 0
      /\ NoOutcome \in Outcomes /\ NoOutcome.value = NullValue
  BY Nothing, NullIs DEF NoOutcome, Outcomes
<1>4. StateOK("ready", << >>, << >>, << >>, 0, NoOutcome)
  BY <1>1, <1>3, NothingExact DEF StateOK
<1> QED BY <1>1, <1>2, <1>4 DEF EvalInv

\* The chart is left alone once it is done: the state is read over the same one.
LEMMA SameChart ==
  ASSUME EvalInv, UNCHANGED vars, stage' # "ready" => pc = "done",
         StateOK(stage', stack', heap', mem', arrays', outcome')
  PROVE  EvalInv'
<1>1. [Next]_vars
  OBVIOUS
<1>2. ChartInv'
  BY <1>1, NextChart DEF EvalInv
<1>3. grammar' = grammar /\ tokens' = tokens /\ nodes' = nodes /\ pc' = pc
  BY DEF vars
<1>4. StateOK(stage, stack, heap, mem, arrays, outcome)'
  BY <1>3 DEF StateOK, GoodFrames, Arity, Held
<1> QED BY <1>2, <1>3, <1>4 DEF EvalInv

\* The chart is built before __invoke has made anything.
LEMMA ConstructStep == ASSUME EvalInv, Construct PROVE EvalInv'
<1>1. Next /\ UNCHANGED evaluation
  BY DEF Construct
<1>2. pc # "done"
  BY <1>1, DoneStays
<1>3. stage = "ready"
  BY <1>2 DEF EvalInv
<1>4. ChartInv'
  BY <1>1, NextChart DEF EvalInv
<1>5. /\ stage' = "ready" /\ stack' = << >> /\ heap' = << >>
      /\ mem' = << >> /\ arrays' = 0 /\ outcome' = NoOutcome
  BY <1>1, <1>3, Ready DEF evaluation
<1>6. /\ << >> \in Seq(GoodFrames)' /\ << >> \in Seq(Nat) /\ ArraysOf(<< >>) = 0
      /\ NoOutcome \in Outcomes /\ NoOutcome.value = NullValue
  BY Nothing, NullIs DEF NoOutcome, Outcomes
<1> DEFINE none == << >>
<1>7. (Held(none, none, none, NullValue) \in Seq(Int))'
  <2>1. (Len(tokens) \in Nat)'
    BY <1>4, TokenCount DEF ChartInv, Inv, TypeOK
  <2>2. none \in Seq(Int) /\ NullValue \in Int /\ HeldBy(none) \in Seq(Int)
    BY Nothing, NullIs
  <2> HIDE DEF none
  <2>3. AllHolders(Len(tokens'), none, none, none, NullValue) \in Seq(Int)
    BY <2>1, <2>2, HoldersCount
  <2> QED BY <2>3 DEF Held
<1>8. Exact(<< >>, Held(none, none, none, NullValue)')
  BY <1>7, EmptyExact
<1>9. StateOK(stage, stack, heap, mem, arrays, outcome)'
  BY <1>5, <1>6, <1>8 DEF StateOK
<1> QED BY <1>4, <1>5, <1>9 DEF EvalInv

\* Every step keeps the inductive invariant.
LEMMA NextEval == EvalInv /\ [EvalNext]_<<vars, evaluation>> => EvalInv'
<1> SUFFICES ASSUME EvalInv, [EvalNext]_<<vars, evaluation>> PROVE EvalInv'
  OBVIOUS
<1> DEFINE After == StateOK(stage', stack', heap', mem', arrays', outcome')
<1>1. CASE UNCHANGED <<vars, evaluation>>
  <2>1. After /\ (stage' # "ready" => pc = "done")
    BY <1>1 DEF EvalInv, evaluation
  <2> QED BY <1>1, <2>1, SameChart
<1>2. CASE Construct
  BY <1>2, ConstructStep
<1>3. CASE EvalStep
  <2>1. pc = "done"
    BY <1>3 DEF EvalInv, EvalStep, InvokeNoMatch, InvokeAmbiguous, Invoke, Invoking,
       SelectEmpty, SelectTokens, SelectingTokens, ThrowAtTokens, SelectNodes, Apply, Throw,
       Answer, Executing
  <2>2. UNCHANGED vars
    BY <1>3 DEF EvalStep, InvokeNoMatch, InvokeAmbiguous, Invoke, SelectEmpty, SelectTokens,
       ThrowAtTokens, SelectNodes, Apply, Throw, Answer
  <2>3. After
    <3> HIDE DEF After
    <3>1. CASE InvokeNoMatch \/ InvokeAmbiguous
      BY <3>1, NothingStep DEF After
    <3>2. CASE Invoke
      BY <3>2, InvokeStep DEF After
    <3>3. CASE SelectEmpty
      BY <3>3, SelectEmptyStep DEF After
    <3>4. CASE SelectTokens
      BY <3>4, SelectTokensStep DEF After
    <3>5. CASE ThrowAtTokens
      BY <3>5, ThrowAtTokensStep DEF After
    <3>6. CASE SelectNodes
      BY <3>6, SelectNodesStep DEF After
    <3>7. CASE Apply
      BY <3>7, ApplyStep DEF After
    <3>8. CASE Throw
      BY <3>8, ThrowStep DEF After
    <3>9. CASE Answer
      BY <3>9, AnswerStep DEF After
    <3> QED BY <1>3, <3>1, <3>2, <3>3, <3>4, <3>5, <3>6, <3>7, <3>8, <3>9 DEF EvalStep
  <2> QED BY <2>1, <2>2, <2>3, SameChart
<1> QED BY <1>1, <1>2, <1>3 DEF EvalNext

-----------------------------------------------------------------------------
(* The invariant holds, and what follows from it                           *)

LEMMA Always == EvalSpec => []EvalInv
<1>1. EvalInit => EvalInv
  BY EvalInitial
<1>2. EvalInv /\ [EvalNext]_<<vars, evaluation>> => EvalInv'
  BY NextEval
<1> QED BY <1>1, <1>2, PTL DEF EvalSpec

LEMMA InvType == EvalInv => EvalTypeOK
<1> SUFFICES ASSUME EvalInv PROVE EvalTypeOK
  OBVIOUS
<1>1. /\ stage \in {"ready", "execute", "returned"}
      /\ stack \in Seq(GoodFrames) /\ heap \in Seq(Nat) /\ outcome \in Outcomes
      /\ arrays = ArraysOf(stack)
      /\ Exact(mem, Held(stack, << >>, heap, outcome.value))
  BY DEF EvalInv, StateOK
<1>2. stack \in Seq(Frame)
  <2>1. GoodFrames \subseteq Frame
    BY DEF GoodFrames
  <2> QED BY <1>1, <2>1
<1>3. \A f \in Range(stack) : f.item \in DOMAIN nodes
  <2>1. \A f \in GoodFrames : f.item \in DOMAIN nodes
    BY DEF GoodFrames
  <2>2. \A f \in Range(stack) : f \in GoodFrames
    <3> HIDE DEF GoodFrames
    <3> QED BY <1>1 DEF Range
  <2> QED BY <2>1, <2>2
<1>4. mem \in Seq(Cell)
  BY <1>1 DEF Exact, MemOK
<1>5. arrays \in Nat
  BY <1>1, ArraysType
<1> QED BY <1>1, <1>2, <1>3, <1>4, <1>5 DEF EvalTypeOK, Outcomes

LEMMA InvOwnership == EvalInv => OwnershipExact
<1> SUFFICES ASSUME EvalInv PROVE OwnershipExact
  OBVIOUS
<1>1. /\ Exact(mem, Held(stack, << >>, heap, outcome.value)) /\ arrays = ArraysOf(stack)
      /\ stack \in Seq(GoodFrames) /\ heap \in Seq(Nat) /\ ChartInv
  BY DEF EvalInv, StateOK
<1> DEFINE first == TokensOf(Len(tokens)) \o HeldBy(stack)
<1>2. first \in Seq(Int)
  <2>1. TokensOf(Len(tokens)) \in Seq(Int)
    BY <1>1, TokenCount, ChartTokens
  <2>2. HeldBy(stack) \in Seq(Int)
    BY <1>1, GoodFrameSet, HeldTypes
  <2> QED BY <2>1, <2>2
<1>3. first \o << >> = first
  <2> HIDE DEF first
  <2> QED BY <1>2
<1>4. Holders = Held(stack, << >>, heap, outcome.value)
  <2>1. Held(stack, << >>, heap, outcome.value)
          = ((first \o << >>) \o heap) \o <<outcome.value>>
    BY DEF Held, AllHolders
  <2>2. Holders = (first \o heap) \o <<outcome.value>>
    BY DEF Holders, TokensOf
  <2> HIDE DEF first
  <2> QED BY <1>3, <2>1, <2>2
<1>5. Counted(mem, Holders)
  BY <1>1, <1>4 DEF Exact
<1> QED BY <1>1, <1>5 DEF OwnershipExact

LEMMA InvOneResult == EvalInv => OneResult
  BY BalancedIs DEF EvalInv, StateOK, OneResult

-----------------------------------------------------------------------------
(* The theorems                                                            *)

\* Whatever the chart is made of and the actions of the context return, every
\* variable of the evaluator keeps to its type, and every frame is of a node of
\* the arena.
THEOREM EvaluatorTypeCorrect == EvalSpec => []EvalTypeOK
<1>1. EvalInv => EvalTypeOK
  BY InvType
<1> QED BY <1>1, Always, PTL

\* The references of execute: in every state the count of every value is the
\* number of its holders, and the arrays allocated are those of the frames, on
\* every path by which execute leaves.
THEOREM OwnershipCorrect == EvalSpec => []OwnershipExact
<1>1. EvalInv => OwnershipExact
  BY InvOwnership
<1> QED BY <1>1, Always, PTL

\* The stack and the heap of execute: the frames still to run find their values
\* on the heap and leave one.
THEOREM ResultCorrect == EvalSpec => []OneResult
<1>1. EvalInv => OneResult
  BY InvOneResult
<1> QED BY <1>1, Always, PTL

-----------------------------------------------------------------------------
(* The order of the values on the heap                                     *)

\* The span of every node.
Extents == [n \in DOMAIN nodes |-> <<nodes[n].start, nodes[n].end>>]

\* It begins no later than it ends.
LEMMA ExtentIs ==
  ASSUME ChartInv, NEW n \in DOMAIN nodes
  PROVE  /\ Extents[n] \in Span /\ Extents[n][1] = nodes[n].start
         /\ Extents[n][2] = nodes[n].end
         /\ nodes[n].start \in Nat /\ nodes[n].end \in Nat
         /\ nodes[n].start <= nodes[n].end
<1>1. SpanOf(n) \in Spans(grammar, tokens)
  BY NodeSpans DEF ChartInv
<1>2. Proper(tokens, Spans(grammar, tokens))
  <2>1. grammar \in Grammars /\ Len(tokens) \in Nat
    BY DEF ChartInv, Inv, TypeOK
  <2>2. QED
    BY <2>1, RulesFinite, SpansClosed
<1>3. nodes[n].start \in Nat /\ nodes[n].end \in Nat
  BY NodeFacts DEF Node
<1>4. nodes[n].start <= nodes[n].end
  BY <1>1, <1>2 DEF Proper, SpanOf
<1>5. Extents[n] = <<nodes[n].start, nodes[n].end>>
  BY DEF Extents
<1>6. QED
  BY <1>3, <1>4, <1>5 DEF Span

\* The children of a node lie in its span, one behind the other.
LEMMA ChildrenPlaced ==
  ASSUME ChartInv, NEW n \in DOMAIN nodes
  PROVE  LET c == nodes[n].children IN
         /\ \A k \in 1..Arity(n) :
              /\ Begin(c[k]) \in Nat /\ End(c[k]) \in Nat
              /\ nodes[n].start <= Begin(c[k]) /\ Begin(c[k]) <= End(c[k])
              /\ End(c[k]) <= nodes[n].end
         /\ \A j, k \in 1..Arity(n) : j < k => End(c[j]) <= Begin(c[k])
<1> DEFINE c == nodes[n].children
           p == nodes[n].start
           q == nodes[n].end
<1>1. PICK l \in Nat : l = Arity(n)
  BY NodeFacts
<1>2. c \in Seq(Slot) /\ DOMAIN c = 1..l /\ Len(c) = l
  BY <1>1, NodeFacts DEF Arity
<1>3. p \in Nat /\ q \in Nat /\ Covers(c, p, q)
  BY ExtentIs DEF ChartInv, Inv, TreesSound
<1>4. ASSUME NEW k \in 1..l
      PROVE  Begin(c[k]) \in Nat /\ End(c[k]) \in Nat /\ Begin(c[k]) <= End(c[k])
  <2>1. PICK slot \in Slot : slot = c[k]
    BY <1>2, ElementOfSeq
  <2>2. slot.of \in Nat
    BY DEF Slot
  <2>3. \/ slot.kind = "token"
        \/ slot.kind = "node" /\ slot.of \in DOMAIN nodes
    BY <1>1, <2>1, NodeFacts
  <2>4. CASE slot.kind = "token"
    BY <2>1, <2>2, <2>4 DEF Begin, End
  <2>5. CASE slot.kind = "node" /\ slot.of \in DOMAIN nodes
    <3>1. Begin(slot) = nodes[slot.of].start /\ End(slot) = nodes[slot.of].end
      BY <2>5 DEF Begin, End
    <3>2. QED
      BY <2>1, <2>5, <3>1, ExtentIs
  <2>6. QED
    BY <2>3, <2>4, <2>5
<1>5. l # 0 => Begin(c[1]) = p /\ End(c[l]) = q
               /\ \A k \in 2..l : Begin(c[k]) = End(c[k - 1])
  <2>1. SUFFICES ASSUME l # 0
                 PROVE  /\ Begin(c[1]) = p /\ End(c[l]) = q
                        /\ \A k \in 2..l : Begin(c[k]) = End(c[k - 1])
    OBVIOUS
  <2>2. c # << >> /\ Head(c) = c[1] /\ Last(c) = c[l]
    BY <1>2, <2>1 DEF Last
  <2> HIDE DEF c, p, q
  <2>3. QED
    BY <1>2, <1>3, <2>2 DEF Covers
<1> HIDE DEF c, p, q
<1> DEFINE D == {k \in Nat : k \in 1..l =>
                   p <= Begin(c[k]) /\ \A j \in 1..l : j < k => End(c[j]) <= Begin(c[k])}
<1>6. 0 \in D
  OBVIOUS
<1>7. ASSUME NEW k \in Nat, k \in D PROVE k + 1 \in D
  <2>1. SUFFICES ASSUME k + 1 \in 1..l
                 PROVE  /\ p <= Begin(c[k + 1])
                        /\ \A j \in 1..l : j < k + 1 => End(c[j]) <= Begin(c[k + 1])
    OBVIOUS
  <2>2. CASE k = 0
    <3>1. Begin(c[k + 1]) = p /\ \A j \in 1..l : ~ j < k + 1
      BY <1>5, <2>1, <2>2
    <3>2. QED
      BY <1>3, <3>1 DEF p
  <2>3. CASE k # 0
    <3>1. k \in 1..l /\ k + 1 \in 2..l /\ (k + 1) - 1 = k /\ l # 0
      BY <2>1, <2>3
    <3>2. Begin(c[k + 1]) = End(c[k])
      BY <1>5, <3>1
    <3>3. p <= Begin(c[k]) /\ \A j \in 1..l : j < k => End(c[j]) <= Begin(c[k])
      BY <1>7, <3>1
    <3>4. p \in Nat /\ Begin(c[k]) \in Nat /\ End(c[k]) \in Nat /\ Begin(c[k]) <= End(c[k])
      BY <1>3, <1>4, <3>1
    <3>5. ASSUME NEW j \in 1..l, j < k + 1 PROVE End(c[j]) <= End(c[k])
      <4>1. CASE j = k
        BY <3>4, <4>1
      <4>2. CASE j # k
        <5>1. j < k
          BY <3>5, <4>2
        <5>2. End(c[j]) <= Begin(c[k]) /\ End(c[j]) \in Nat
          BY <1>4, <3>3, <5>1
        <5>3. QED
          BY <3>4, <5>2
      <4>3. QED
        BY <4>1, <4>2
    <3>6. p <= End(c[k])
      BY <3>3, <3>4
    <3>7. QED
      BY <3>2, <3>5, <3>6
  <2>4. QED
    BY <2>2, <2>3
<1>8. Nat \subseteq D
  <2> HIDE DEF D
  <2> QED BY <1>6, <1>7, Induction
<1>9. ASSUME NEW k \in 1..l
      PROVE  p <= Begin(c[k]) /\ \A j \in 1..l : j < k => End(c[j]) <= Begin(c[k])
  <2>1. k \in D
    BY <1>8
  <2>2. QED
    BY <2>1
<1>10. ASSUME NEW k \in 1..l PROVE End(c[k]) <= q
  <2>1. l \in 1..l /\ End(c[l]) = q
    BY <1>5
  <2>2. CASE k = l
    BY <1>3, <2>1, <2>2
  <2>3. CASE k # l
    <3>1. k < l
      BY <2>3
    <3>2. End(c[k]) <= Begin(c[l]) /\ Begin(c[l]) <= End(c[l])
      BY <1>4, <1>9, <2>1, <3>1
    <3>3. End(c[k]) \in Nat /\ Begin(c[l]) \in Nat /\ End(c[l]) \in Nat
      BY <1>4, <2>1
    <3>4. QED
      BY <2>1, <3>2, <3>3
  <2>4. QED
    BY <2>2, <2>3
<1>11. QED
  BY <1>1, <1>4, <1>9, <1>10 DEF c, p, q

\* The tokens come first in memory, and the heap is laid over spans the frames of the
\* stack, run one after another, take off and leave.
OrderedIn(stk, hp, m) ==
  /\ TokensFirst(m, Len(tokens))
  /\ \E h : Laid(m, hp, h) /\ RunsOver(m, Extents, stk, h)

\* The invariant.
OrderInv == EvalInv /\ (stage = "execute" => OrderedIn(stack, heap, mem))

\* The frame on top gives a value in the span of its node.
LEMMA FrameDone ==
  ASSUME EvalInv, stage = "execute", stack # << >>, OrderedIn(stack, heap, mem),
         NEW new, Kept(mem, new),
         NEW v \in Nat, Lies(new, v, Extents[Last(stack).item])
  PROVE  OrderedIn(Front(stack), Append(Popped(heap, Len(Last(stack).slots)), v), new)
<1> DEFINE f == Last(stack)
           s == Extents[f.item]
           low == Front(stack)
<1>1. ChartInv /\ stack \in Seq(GoodFrames) /\ heap \in Seq(Nat)
  BY Running
<1>2. f \in GoodFrames /\ low \in Seq(GoodFrames)
  BY <1>1, LastFront
<1>3. f.item \in DOMAIN nodes /\ f.slots \in Seq(Nat)
  BY <1>2 DEF GoodFrames, Frame
<1>4. s \in Span
  BY <1>1, <1>3, ExtentIs
<1>5. PICK h : Laid(mem, heap, h) /\ RunsOver(mem, Extents, stack, h)
  BY DEF OrderedIn
<1>6. /\ Finds(mem, f, s, h) /\ RunsOver(mem, Extents, low, Leaves(f, s, h))
  BY <1>1, <1>5, RunsPop
<1> HIDE DEF f, s, low
<1>7. RunsOver(new, Extents, low, Leaves(f, s, h))
  BY <1>6, RunsKept
<1>8. Laid(new, Append(Popped(heap, Len(f.slots)), v), Leaves(f, s, h))
  <2>1. Lies(new, v, s)
    BY DEF s, f
  <2>2. QED
    BY <1>1, <1>3, <1>4, <1>5, <1>6, <2>1, LaidOn
<1>9. TokensFirst(new, Len(tokens))
  BY TokensFirstKept DEF OrderedIn
<1>10. QED
  BY <1>7, <1>8, <1>9 DEF OrderedIn, f, low

\* The tokens among the children lie in the span of the node.
LEMMA DirectLies ==
  ASSUME ChartInv, NEW n \in DOMAIN nodes, NEW m, TokensFirst(m, Len(tokens))
  PROVE  LET d == Direct(nodes[n]) IN
         \A k \in DOMAIN d : d[k] # Undef => Lies(m, d[k], Extents[n])
<1> DEFINE c == nodes[n].children
           d == Direct(nodes[n])
           s == Extents[n]
<1>1. PICK l \in Nat : l = Arity(n)
  BY NodeFacts
<1>2. DOMAIN c = 1..l
  BY <1>1, NodeFacts
<1>3. DOMAIN d = 1..l /\ \A k \in 1..l :
        d[k] = CASE c[k].kind = "token" -> TokenValue(c[k].of)
                 [] c[k].kind = "node"  -> Undef
                 [] c[k].kind = "null"  -> NullValue
  BY <1>2 DEF Direct
<1>4. s[1] = nodes[n].start /\ s[2] = nodes[n].end /\ s[1] \in Nat /\ s[2] \in Nat
  BY ExtentIs
<1>5. \A k \in 1..l : \/ c[k].kind = "token" /\ c[k].of \in 0..(Len(tokens) - 1)
                      \/ c[k].kind = "node"
  BY <1>1, NodeFacts
<1>6. \A k \in 1..l : nodes[n].start <= Begin(c[k]) /\ End(c[k]) <= nodes[n].end
  BY <1>1, ChildrenPlaced
<1> HIDE DEF c, d, s
<1>7. ASSUME NEW k \in DOMAIN d, d[k] # Undef PROVE Lies(m, d[k], s)
  <2>1. k \in 1..l
    BY <1>3
  <2>2. CASE c[k].kind = "token" /\ c[k].of \in 0..(Len(tokens) - 1)
    <3>1. d[k] = TokenValue(c[k].of)
      BY <1>3, <2>1, <2>2
    <3>2. Begin(c[k]) = c[k].of /\ End(c[k]) = c[k].of + 1
      BY <2>2 DEF Begin, End
    <3>3. PICK t \in 0..(Len(tokens) - 1) : t = c[k].of
      BY <2>2
    <3>4. s[1] <= t /\ t + 1 <= s[2]
      BY <1>4, <1>6, <2>1, <3>2, <3>3
    <3>5. Len(tokens) \in Nat
      BY TokenCount
    <3>6. t \in Int
      BY <3>3, <3>5
    <3>7. t \in s[1]..(s[2] - 1)
      BY <1>4, <3>4, <3>6
    <3>8. Lies(m, TokenValue(t), s)
      BY <3>3, <3>7, TokenLies
    <3>9. QED
      BY <3>1, <3>3, <3>8
  <2>3. CASE c[k].kind = "node"
    BY <1>3, <1>7, <2>1, <2>3
  <2>4. QED
    BY <1>5, <2>1, <2>2, <2>3
<1>8. QED
  BY <1>7 DEF d, s

\* What is applied to values in the span of a node leaves a value there.
LEMMA AppliedOrder ==
  ASSUME EvalInv, stage = "execute", stack # << >>, OrderedIn(stack, heap, mem),
         NEW m, Kept(mem, m), Last(stack).item \in DOMAIN nodes,
         NEW args \in Seq(Nat), args # << >>, Len(args) = Arity(Last(stack).item),
         \A k \in DOMAIN args : Lies(m, args[k], Extents[Last(stack).item]),
         NEW new, new = AppliedTo(nodes[Last(stack).item], m, args),
         MemOK(Release(new.mem, args)), new.value \in Nat
  PROVE  OrderedIn(Front(stack), Append(Popped(heap, Len(Last(stack).slots)), new.value),
                   Release(new.mem, args))
<1> DEFINE n == Last(stack).item
           a == AlternativeOf(nodes[n])
           s == Extents[n]
           left == Release(new.mem, args)
<1>1. ChartInv
  BY Running
<1>2. /\ a \in Alternatives /\ nodes[n].rule \in Names /\ nodes[n].alt \in Nat
      /\ Len(args) = Len(a.symbols)
  BY <1>1, NodeFacts
<1>3. new = Applied(a, nodes[n].rule, nodes[n].alt, m, args)
  BY DEF AppliedTo
<1>4. MemOK(m) /\ \A k \in DOMAIN args : Lies(m, args[k], s)
  BY DEF Kept
<1> HIDE DEF n, a, s
<1>5. Kept(m, new.mem) /\ Lies(new.mem, new.value, s)
  BY <1>2, <1>3, <1>4, AppliedLies
<1>6. Kept(new.mem, left)
  <2>1. MemOK(new.mem)
    BY <1>5 DEF Kept
  <2>2. QED
    BY <2>1, ReleaseKept
<1>7. Kept(mem, left)
  <2>1. Kept(mem, new.mem)
    BY <1>5, KeptOn
  <2>2. QED
    BY <1>6, <2>1, KeptOn
<1>8. Lies(left, new.value, s)
  BY <1>5, <1>6, LiesKept
<1> HIDE DEF left
<1>9. OrderedIn(Front(stack), Append(Popped(heap, Len(Last(stack).slots)), new.value), left)
  BY <1>7, <1>8, FrameDone DEF s, n
<1>10. QED
  BY <1>9 DEF left

\* A select frame takes nothing off the heap.
LEMMA SelectSlots ==
  ASSUME EvalInv, Executing("select")
  PROVE  /\ stage = "execute" /\ stack # << >> /\ ChartInv
         /\ Last(stack).slots = << >> /\ Popped(heap, Len(Last(stack).slots)) = heap
<1>1. stage = "execute" /\ stack # << >> /\ Last(stack).kind = "select"
  BY DEF Executing
<1>2. ChartInv /\ stack \in Seq(GoodFrames) /\ heap \in Seq(Nat)
  BY <1>1, Running
<1>3. Last(stack) \in GoodFrames
  BY <1>1, <1>2, LastFront
<1>4. Last(stack).slots = << >>
  BY <1>1, <1>3 DEF GoodFrames
<1>5. Len(Last(stack).slots) = 0 /\ Len(heap) - 0 = Len(heap) /\ SubSeq(heap, 1, Len(heap)) = heap
  BY <1>2, <1>4
<1>6. QED
  BY <1>1, <1>2, <1>4, <1>5 DEF Popped

\* Memory as the invariant has it after a step.
LEMMA MemoryAfter ==
  ASSUME EvalInv' PROVE MemOK(mem') /\ heap' \in Seq(Nat)
  BY DEF EvalInv, StateOK, Exact

\* The value of an empty node has no tokens.
LEMMA SelectEmptyOrder ==
  ASSUME OrderInv, SelectEmpty, EvalInv' PROVE OrderedIn(stack, heap, mem)'
<1> DEFINE new == EmptyValue(AlternativeOf(TopNode), mem)
           s == Extents[Last(stack).item]
<1>1. /\ EvalInv /\ Executing("select") /\ mem' = new.mem
      /\ heap' = Append(heap, new.value) /\ stack' = Front(stack) /\ UNCHANGED vars
  BY DEF SelectEmpty, OrderInv
<1>2. /\ stage = "execute" /\ stack # << >> /\ Popped(heap, Len(Last(stack).slots)) = heap
  BY <1>1, SelectSlots
<1>3. OrderedIn(stack, heap, mem)
  BY <1>2 DEF OrderInv
<1>4. MemOK(mem)
  BY <1>3 DEF OrderedIn, TokensFirst
<1> HIDE DEF s
<1>5. Kept(mem, new.mem) /\ Lies(new.mem, new.value, s)
  BY <1>4, EmptyLies
<1> HIDE DEF new
<1>6. new.value \in Nat
  BY <1>5 DEF Lies, Kept, MemOK
<1>7. OrderedIn(Front(stack), Append(heap, new.value), new.mem)
  <2>1. OrderedIn(Front(stack), Append(Popped(heap, Len(Last(stack).slots)), new.value), new.mem)
    BY <1>1, <1>2, <1>3, <1>5, <1>6, FrameDone DEF s
  <2>2. QED
    BY <1>2, <2>1
<1>8. QED
  BY <1>1, <1>7 DEF OrderedIn, Extents, vars

\* A node of tokens leaves its value on the heap.
LEMMA SelectTokensOrder ==
  ASSUME OrderInv, SelectTokens, EvalInv' PROVE OrderedIn(stack, heap, mem)'
<1> DEFINE n == Last(stack).item
           args == Direct(TopNode)
           m == AddRefs(mem, args)
           new == AppliedTo(nodes[n], m, args)
           s == Extents[n]
<1>1. /\ EvalInv /\ Executing("select") /\ Unknown(TopNode) = << >> /\ TopNode.children # << >>
      /\ mem' = Release(new.mem, args)
      /\ heap' = Append(heap, new.value) /\ stack' = Front(stack) /\ UNCHANGED vars
  BY DEF SelectTokens, SelectingTokens, OrderInv, TopNode
<1>2. /\ stage = "execute" /\ stack # << >> /\ Popped(heap, Len(Last(stack).slots)) = heap
      /\ ChartInv
  BY <1>1, SelectSlots
<1>3. OrderedIn(stack, heap, mem)
  BY <1>2 DEF OrderInv
<1>4. n \in DOMAIN nodes /\ TopNode = nodes[n]
  BY <1>1, SelectPopped
<1>5. args \in Seq(Nat) /\ args \in Seq(Int) /\ Len(args) = Arity(n)
  BY <1>1, <1>2, <1>4, DirectFacts
<1>6. args # << >>
  <2>1. Len(nodes[n].children) # 0
    <3>1. nodes[n].children \in Seq(Slot)
      BY <1>2, <1>4, NodeFacts
    <3>2. QED
      BY <1>1, <1>4, <3>1
  <2>2. QED
    BY <1>5, <2>1 DEF Arity
<1>7. MemOK(mem) /\ TokensFirst(mem, Len(tokens))
  BY <1>3 DEF OrderedIn, TokensFirst
<1>8. \A k \in DOMAIN args : Lies(mem, args[k], s)
  <2>1. \A k \in DOMAIN args : args[k] # Undef => Lies(mem, args[k], s)
    BY <1>2, <1>4, <1>7, DirectLies
  <2> HIDE DEF args, s
  <2>2. \A k \in DOMAIN args : args[k] # Undef
    BY <1>5 DEF Undef
  <2>3. QED
    BY <2>1, <2>2
<1> HIDE DEF args, s
<1>9. Kept(mem, m)
  BY <1>5, <1>7, AddRefsKept
<1> HIDE DEF m
<1>10. \A k \in DOMAIN args : Lies(m, args[k], s)
  BY <1>8, <1>9, LiesKept
<1>11. MemOK(Release(new.mem, args)) /\ Append(heap, new.value) \in Seq(Nat)
  BY <1>1, MemoryAfter
<1>12. new.value \in Nat
  <2>1. heap \in Seq(Nat)
    BY <1>1, <1>2, Running
  <2> DEFINE v == new.value
  <2> HIDE DEF v, new
  <2>2. Append(heap, v)[Len(heap) + 1] = v /\ Len(heap) + 1 \in DOMAIN Append(heap, v)
    BY <2>1
  <2>3. Append(heap, v) \in Seq(Nat)
    BY <1>11 DEF v
  <2>4. v \in Nat
    BY <2>2, <2>3, ElementOfSeq
  <2>5. QED
    BY <2>4 DEF v
<1>13. OrderedIn(Front(stack), Append(Popped(heap, Len(Last(stack).slots)), new.value),
                 Release(new.mem, args))
  BY <1>1, <1>2, <1>3, <1>4, <1>5, <1>6, <1>9, <1>10, <1>11, <1>12, AppliedOrder DEF s
<1>14. OrderedIn(Front(stack), Append(heap, new.value), Release(new.mem, args))
  BY <1>2, <1>13
<1> HIDE DEF new
<1>15. QED
  BY <1>1, <1>14 DEF OrderedIn, Extents, vars

\* The arguments of an apply frame lie in its node, and so does what it makes of them.
LEMMA ApplyOrder ==
  ASSUME OrderInv, Apply, EvalInv' PROVE OrderedIn(stack, heap, mem)'
<1> DEFINE f == Last(stack)
           n == f.item
           new == AppliedTo(nodes[n], mem, TopArgs)
           s == Extents[n]
<1>1. /\ EvalInv /\ Executing("apply") /\ stage = "execute" /\ stack # << >>
      /\ f.kind = "apply"
      /\ mem' = Release(new.mem, TopArgs)
      /\ heap' = Append(HeapLeft, new.value) /\ stack' = Front(stack) /\ UNCHANGED vars
  BY DEF Apply, Executing, OrderInv, TopNode
<1>2. OrderedIn(stack, heap, mem)
  BY <1>1 DEF OrderInv
<1>3. ChartInv /\ stack \in Seq(GoodFrames) /\ heap \in Seq(Nat)
  BY <1>1, Running
<1>4. /\ n \in DOMAIN nodes /\ TopArgs \in Seq(Nat) /\ TopArgs # << >>
      /\ Len(TopArgs) = Arity(n) /\ HeapLeft \in Seq(Nat)
  BY <1>1, ApplyPopped
<1>5. f \in GoodFrames
  BY <1>1, <1>3, LastFront
<1>6. Open(f.partial, f.slots)
  BY <1>1, <1>5 DEF GoodFrames
<1>7. MemOK(mem)
  BY <1>2 DEF OrderedIn, TokensFirst
<1>8. \A k \in DOMAIN TopArgs : Lies(mem, TopArgs[k], s)
  <2>1. PICK h : Laid(mem, heap, h) /\ RunsOver(mem, Extents, stack, h)
    BY <1>2 DEF OrderedIn
  <2>2. Finds(mem, f, s, h)
    BY <1>1, <1>3, <2>1, RunsPop
  <2>3. s \in Span
    BY <1>3, <1>4, ExtentIs
  <2>4. TopArgs = Filled(f.partial, f.slots, heap)
    BY DEF TopArgs
  <2> HIDE DEF f, s
  <2>5. QED
    BY <1>3, <1>6, <1>7, <2>1, <2>2, <2>3, <2>4, ArgsLie
<1>9. Kept(mem, mem)
  BY <1>7 DEF Kept, MemOK
<1>10. MemOK(Release(new.mem, TopArgs)) /\ Append(HeapLeft, new.value) \in Seq(Nat)
  BY <1>1, MemoryAfter
<1>11. new.value \in Nat
  <2> DEFINE v == new.value
  <2> HIDE DEF v, new
  <2>1. Append(HeapLeft, v)[Len(HeapLeft) + 1] = v
        /\ Len(HeapLeft) + 1 \in DOMAIN Append(HeapLeft, v)
    BY <1>4
  <2>2. Append(HeapLeft, v) \in Seq(Nat)
    BY <1>10 DEF v
  <2>3. v \in Nat
    BY <2>1, <2>2, ElementOfSeq
  <2>4. QED
    BY <2>3 DEF v
<1>12. OrderedIn(Front(stack), Append(Popped(heap, Len(f.slots)), new.value),
                 Release(new.mem, TopArgs))
  BY <1>1, <1>2, <1>4, <1>8, <1>9, <1>10, <1>11, AppliedOrder
<1>13. OrderedIn(Front(stack), Append(HeapLeft, new.value), Release(new.mem, TopArgs))
  BY <1>12 DEF HeapLeft
<1> HIDE DEF new
<1>14. QED
  BY <1>1, <1>13 DEF OrderedIn, Extents, vars

\* The children a node waits for lie in its span, the last one first.
LEMMA UnknownPlaced ==
  ASSUME ChartInv, NEW n \in DOMAIN nodes, NEW slots, slots = Unknown(nodes[n]),
         NEW items, items = [k \in DOMAIN slots |-> nodes[n].children[slots[k]].of]
  PROVE  /\ slots \in Seq(Nat) /\ items \in Seq(DOMAIN nodes) /\ Len(items) = Len(slots)
         /\ ChildrenIn(Extents, items, Extents[n])
<1> DEFINE c == nodes[n].children
<1>1. PICK l \in Nat : l = Arity(n)
  BY NodeFacts
<1>2. PlacedFrom(nodes[n], 1, l, slots)
  BY <1>1, UnknownIs DEF Arity
<1>3. /\ slots \in Seq(Nat)
      /\ \A t \in DOMAIN slots : slots[t] \in 1..l /\ c[slots[t]].kind = "node"
      /\ \A t, u \in DOMAIN slots : t < u => slots[t] > slots[u]
  BY <1>2 DEF PlacedFrom
<1>4. \A k \in 1..l : \/ c[k].kind = "token"
                      \/ c[k].kind = "node" /\ c[k].of \in DOMAIN nodes
  BY <1>1, NodeFacts
<1>5. /\ \A k \in 1..l : nodes[n].start <= Begin(c[k]) /\ End(c[k]) <= nodes[n].end
      /\ \A j, k \in 1..l : j < k => End(c[j]) <= Begin(c[k])
  BY <1>1, ChildrenPlaced
<1>6. Extents[n][1] = nodes[n].start /\ Extents[n][2] = nodes[n].end
  BY ExtentIs
<1> HIDE DEF c
<1>7. DOMAIN slots = 1..Len(slots) /\ Len(slots) \in Nat
  BY <1>3
<1>8. ASSUME NEW t \in DOMAIN slots
      PROVE  /\ items[t] \in DOMAIN nodes
             /\ Extents[items[t]][1] = Begin(c[slots[t]])
             /\ Extents[items[t]][2] = End(c[slots[t]])
  <2>1. items[t] = c[slots[t]].of
    BY DEF c
  <2>2. c[slots[t]].kind = "node" /\ slots[t] \in 1..l
    BY <1>3
  <2>3. items[t] \in DOMAIN nodes
    BY <1>4, <2>1, <2>2
  <2>4. Begin(c[slots[t]]) = nodes[items[t]].start /\ End(c[slots[t]]) = nodes[items[t]].end
    BY <2>1, <2>2 DEF Begin, End
  <2>5. QED
    BY <2>3, <2>4, ExtentIs
<1>9. items \in Seq(DOMAIN nodes) /\ Len(items) = Len(slots) /\ DOMAIN items = DOMAIN slots
  <2>1. items = [k \in 1..Len(slots) |-> items[k]]
    BY <1>7
  <2>2. QED
    BY <1>7, <1>8, <2>1
<1>10. ASSUME NEW t \in DOMAIN items
       PROVE  Extents[n][1] <= Extents[items[t]][1] /\ Extents[items[t]][2] <= Extents[n][2]
  BY <1>3, <1>5, <1>6, <1>8, <1>9
<1>11. ASSUME NEW t \in DOMAIN items, NEW u \in DOMAIN items, t < u
       PROVE  Extents[items[u]][2] <= Extents[items[t]][1]
  <2>1. slots[u] < slots[t]
    <3>1. slots[t] > slots[u] /\ slots[t] \in Nat /\ slots[u] \in Nat
      BY <1>3, <1>9, <1>11
    <3>2. QED
      BY <3>1
  <2>2. End(c[slots[u]]) <= Begin(c[slots[t]])
    BY <1>3, <1>5, <1>9, <2>1
  <2>3. QED
    BY <1>8, <1>9, <2>2
<1>12. QED
  BY <1>3, <1>9, <1>10, <1>11 DEF ChildrenIn

\* The apply frame and those of the children give way to one value in the node.
LEMMA SelectNodesOrder ==
  ASSUME OrderInv, SelectNodes, EvalInv' PROVE OrderedIn(stack, heap, mem)'
<1> DEFINE n == Last(stack).item
           args == Direct(TopNode)
           slots == Unknown(TopNode)
           items == [k \in DOMAIN slots |-> TopNode.children[slots[k]].of]
           front == Front(stack)
           f == ApplyFrame(n, args, slots)
           new == Append(front, f) \o SelectsOf(items)
           m == AddRefs(mem, args)
           s == Extents[n]
<1>1. /\ EvalInv /\ Executing("select") /\ slots # << >>
      /\ stack' = new /\ mem' = m /\ heap' = heap /\ UNCHANGED vars
  BY DEF SelectNodes, SelectsOf, OrderInv
<1>2. /\ stage = "execute" /\ stack # << >> /\ ChartInv
      /\ Last(stack).slots = << >>
  BY <1>1, SelectSlots
<1>3. OrderedIn(stack, heap, mem)
  BY <1>2 DEF OrderInv
<1>4. stack \in Seq(GoodFrames) /\ heap \in Seq(Nat)
  BY <1>2, <1>1, Running
<1>5. n \in DOMAIN nodes /\ TopNode = nodes[n] /\ front \in Seq(GoodFrames)
  BY <1>1, SelectPopped
<1>6. /\ args \in Seq(Int) /\ Len(args) = Arity(n) /\ Open(args, slots)
  BY <1>2, <1>5, DirectFacts
<1>7. /\ slots \in Seq(Nat) /\ items \in Seq(DOMAIN nodes) /\ Len(items) = Len(slots)
      /\ ChildrenIn(Extents, items, s)
  BY <1>2, <1>5, UnknownPlaced
<1>8. MemOK(mem) /\ TokensFirst(mem, Len(tokens))
  BY <1>3 DEF OrderedIn, TokensFirst
<1>9. \A k \in DOMAIN args : args[k] # Undef => Lies(mem, args[k], s)
  BY <1>2, <1>5, <1>8, DirectLies
<1>10. s \in Span
  BY <1>2, <1>5, ExtentIs
<1>11. args # << >>
  <2>1. 1 \in DOMAIN slots
    BY <1>1, <1>7
  <2>2. Range(slots) # {}
    BY <2>1 DEF Range
  <2>3. DOMAIN args # {}
    BY <1>6, <2>2 DEF Open
  <2>4. QED
    BY <2>3
<1> HIDE DEF args, slots, items, m
<1>12. Kept(mem, m)
  BY <1>6, <1>8, AddRefsKept DEF m
<1>13. f.kind = "apply" /\ f.item = n /\ f.partial = args /\ f.slots = slots
  BY ApplyFields
<1>14. f \in GoodFrames
  <2>1. n \in Nat
    BY <1>2, <1>5, NodeFacts
  <2>2. f \in Frame
    BY <1>6, <1>7, <2>1 DEF ApplyFrame, Frame
  <2> HIDE DEF f
  <2>3. QED
    BY <1>5, <1>6, <1>11, <1>13, <2>2 DEF GoodFrames
<1>15. PICK h : Laid(mem, heap, h) /\ RunsOver(mem, Extents, stack, h)
  BY <1>3 DEF OrderedIn
<1> DEFINE g == Last(stack)
<1>16. /\ h \in Seq(Span) /\ Finds(mem, g, s, h)
       /\ RunsOver(mem, Extents, front, Leaves(g, s, h))
  BY <1>2, <1>4, <1>15, RunsPop
<1>17. Len(g.slots) = 0 /\ Leaves(g, s, h) = Append(h, s)
       /\ \A k \in 1..Len(h) : h[k][2] <= s[1]
  <2>1. Len(g.slots) = 0
    BY <1>2
  <2>2. Len(h) - 0 = Len(h) /\ SubSeq(h, 1, Len(h)) = h
    BY <1>16
  <2> HIDE DEF g, s
  <2>3. QED
    BY <1>16, <2>1, <2>2 DEF Leaves, Popped, Finds
<1> HIDE DEF g, front, f
<1>18. /\ \A i \in DOMAIN nodes : SelectFrame(i) \in GoodFrames
       /\ \A i \in DOMAIN nodes : Extents[i] \in Span
  BY <1>2, GoodFrameSet, ExtentIs
<1>19. RunsOver(mem, Extents, new, h)
  <2>1. /\ f.item \in DOMAIN nodes /\ f.slots \in Seq(Nat) /\ Len(items) = Len(f.slots)
        /\ ChildrenIn(Extents, items, Extents[f.item])
        /\ \A k \in DOMAIN f.partial :
             f.partial[k] # Undef => Lies(mem, f.partial[k], Extents[f.item])
        /\ \A k \in 1..Len(h) : h[k][2] <= Extents[f.item][1]
        /\ RunsOver(mem, Extents, front, Append(h, Extents[f.item]))
    BY <1>5, <1>7, <1>9, <1>13, <1>16, <1>17
  <2> HIDE DEF n, s
  <2>2. QED
    BY <1>5, <1>7, <1>14, <1>16, <1>18, <2>1, ExpandedRuns
<1> HIDE DEF new
<1>20. OrderedIn(new, heap, m)
  <2>1. Laid(m, heap, h)
    BY <1>12, <1>15, LaidKept
  <2>2. RunsOver(m, Extents, new, h)
    BY <1>12, <1>19, RunsKept
  <2>3. TokensFirst(m, Len(tokens))
    BY <1>8, <1>12, TokensFirstKept
  <2>4. QED
    BY <2>1, <2>2, <2>3 DEF OrderedIn
<1>21. QED
  BY <1>1, <1>20 DEF OrderedIn, Extents, vars

\* The root finds the heap empty.
LEMMA InvokeOrder ==
  ASSUME OrderInv, Invoke, EvalInv' PROVE OrderedIn(stack, heap, mem)'
<1> DEFINE root == Last(accepted[1].slots).of
           none == << >>
           stk == Append(none, SelectFrame(root))
           m == TokenCells(Len(tokens))
<1>1. /\ EvalInv /\ stage = "ready" /\ Len(accepted) = 1
      /\ stack' = <<SelectFrame(root)>> /\ mem' = m /\ heap' = heap /\ UNCHANGED vars
  BY DEF Invoke, Invoking, OrderInv
<1>2. ChartInv /\ heap = << >> /\ Len(tokens) \in Nat
  BY <1>1, Ready, TokenCount
<1>3. root \in DOMAIN nodes
  BY <1>1, <1>2, RootPlaced
<1>4. SelectFrame(root) \in GoodFrames /\ Extents[root] \in Span
  BY <1>2, <1>3, GoodFrameSet, ExtentIs
<1>5. stk = <<SelectFrame(root)>>
  OBVIOUS
<1>6. none \in Seq(GoodFrames) /\ none \in Seq(Span) /\ Len(none) = 0 /\ DOMAIN none = {}
      /\ \A k \in 1..Len(none) : none[k][2] <= Extents[root][1]
  OBVIOUS
<1>7. MemOK(m)
  BY <1>1, MemoryAfter
<1>8. RunsOver(m, Extents, none, Append(none, Extents[root]))
  <2>1. Append(none, Extents[root]) \in Seq(Span)
    BY <1>4, <1>6
  <2>2. QED
    BY <2>1, RunsEmpty
<1>9. RunsOver(m, Extents, stk, none)
  <2> HIDE DEF none, m, root
  <2>1. QED
    BY <1>4, <1>6, <1>8, SelectRuns
<1>10. Laid(m, none, none)
  BY <1>6 DEF Laid
<1>11. TokensFirst(m, Len(tokens))
  <2>1. Len(m) = Len(tokens) /\ \A k \in 1..Len(tokens) : m[k].kind = "token" /\ m[k].token = k - 1
    BY <1>2 DEF TokenCells
  <2> HIDE DEF m
  <2>2. QED
    BY <1>2, <1>7, <2>1 DEF TokensFirst
<1>12. OrderedIn(stk, none, m)
  <2> HIDE DEF stk, none, m
  <2>1. QED
    BY <1>9, <1>10, <1>11 DEF OrderedIn
<1> HIDE DEF stk, none, m
<1>13. stack' = stk /\ heap' = none /\ mem' = m
  BY <1>1, <1>2, <1>5 DEF none
<1>14. QED
  BY <1>1, <1>12, <1>13 DEF OrderedIn, Extents, vars

LEMMA OrderInitial == EvalInit => OrderInv
<1>1. EvalInit => EvalInv
  BY EvalInitial
<1>2. QED
  BY <1>1 DEF OrderInv, EvalInit

\* No step of the evaluator, and none of the chart, disturbs the order.
LEMMA NextOrder == OrderInv /\ [EvalNext]_<<vars, evaluation>> => OrderInv'
<1> SUFFICES ASSUME OrderInv, [EvalNext]_<<vars, evaluation>> PROVE OrderInv'
  OBVIOUS
<1>1. EvalInv /\ EvalInv'
  BY NextEval DEF OrderInv
<1> DEFINE After == (stage' = "execute" => OrderedIn(stack, heap, mem)')
<1>2. CASE UNCHANGED <<vars, evaluation>>
  <2>1. After
    BY <1>2 DEF OrderInv, OrderedIn, Extents, vars, evaluation
  <2>2. QED
    BY <1>1, <2>1 DEF OrderInv
<1>3. CASE Construct
  <2>1. stage # "execute"
    <3>1. stage = "execute" => pc = "done"
      BY <1>1 DEF EvalInv
    <3>2. QED
      BY <1>3, <3>1, DoneStays DEF Construct
  <2>2. stage' = stage
    BY <1>3 DEF Construct, evaluation
  <2>3. QED
    BY <1>1, <2>1, <2>2 DEF OrderInv
<1>4. CASE EvalStep
  <2>1. CASE InvokeNoMatch \/ InvokeAmbiguous \/ ThrowAtTokens \/ Throw \/ Answer
    <3>1. stage' = "returned"
      BY <2>1 DEF InvokeNoMatch, InvokeAmbiguous, ThrowAtTokens, Throw, Answer, Abandon, Leaving
    <3>2. QED
      BY <1>1, <3>1 DEF OrderInv
  <2>2. CASE Invoke
    BY <1>1, <2>2, InvokeOrder DEF OrderInv
  <2>3. CASE SelectEmpty
    BY <1>1, <2>3, SelectEmptyOrder DEF OrderInv
  <2>4. CASE SelectTokens
    BY <1>1, <2>4, SelectTokensOrder DEF OrderInv
  <2>5. CASE SelectNodes
    BY <1>1, <2>5, SelectNodesOrder DEF OrderInv
  <2>6. CASE Apply
    BY <1>1, <2>6, ApplyOrder DEF OrderInv
  <2>7. QED
    BY <1>4, <2>1, <2>2, <2>3, <2>4, <2>5, <2>6 DEF EvalStep
<1>5. QED
  BY <1>2, <1>3, <1>4 DEF EvalNext

LEMMA InvOrder == OrderInv => LeftToRight
<1> SUFFICES ASSUME OrderInv PROVE LeftToRight
  OBVIOUS
<1>1. CASE stage = "execute"
  <2>1. heap \in Seq(Nat)
    BY <1>1, Running DEF OrderInv
  <2>2. PICK h : Laid(mem, heap, h)
    BY <1>1 DEF OrderInv, OrderedIn
  <2>3. QED
    BY <2>1, <2>2, LaidOrder DEF LeftToRight
<1>2. CASE stage # "execute"
  <2>1. heap = << >>
    BY <1>2 DEF OrderInv, EvalInv, StateOK
  <2>2. QED
    BY <2>1 DEF LeftToRight, InOrder
<1>3. QED
  BY <1>1, <1>2

\* The order of the arguments: the values on the heap have their tokens in the order of
\* the input, whatever the tree evaluated and whatever the actions return, so that the
\* values an apply frame takes are those of its children from left to right.
THEOREM OrderCorrect == EvalSpec => []LeftToRight
<1>1. EvalInit => OrderInv
  BY OrderInitial
<1>2. OrderInv /\ [EvalNext]_<<vars, evaluation>> => OrderInv'
  BY NextOrder
<1>3. OrderInv => LeftToRight
  BY InvOrder
<1>4. QED
  BY <1>1, <1>2, <1>3, PTL DEF EvalSpec
=============================================================================
