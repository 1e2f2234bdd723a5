------------------------------ MODULE GLRChart ------------------------------
(***************************************************************************)
(* pharos\phathom\GLR\Chart: the constructor that runs the generalised LR  *)
(* automaton of a grammar over a buffer (src/glr/chart.c).                 *)
(*                                                                         *)
(* One action is one pass of one loop.  Threads are immutable values; a    *)
(* node is referred to by its place in the arena, since the tables of      *)
(* reduce tell nodes apart by address.                                     *)
(*                                                                         *)
(* The automaton is computed by the engine, which is not part of the       *)
(* extension; here it is a field of the grammar.                           *)
(***************************************************************************)
EXTENDS Grammar, Derivations, SequencesExt

CONSTANTS
  MaxTokens,     \* bound of the model: tokens in the input
  TreeHeight,    \* bound of the comparison with Derivations: height of a tree
  KeyMaxDepth    \* PHP_PHATHOM_GLR_KEY_MAX_DEPTH

Reductions == [rule : Names, alt : Nat, length : Nat]

(***************************************************************************)
(* What the chart takes for granted of the automaton an engine builds; its *)
(* items[s] are the items of state s, those of the wrapped start excepted. *)
(* Rows may be missing.                                                    *)
(***************************************************************************)

\* A state reduces the alternatives it has a completed item of.
Completes(g, s, r) ==
  \E it \in g.automaton.items[s] :
    /\ it.rule = r.rule /\ it.alt = r.alt /\ it.dot = r.length
    /\ it.dot = Len(SymbolsOf(g, it))

\* The items of a state are those of the state before it, with the dot moved
\* over the symbol, or begin with the dot; the accept state is entered over the
\* start, from the initial state.
Follows(g, s, x, target) ==
  /\ target \in DOMAIN g.automaton.items \ {0}
  /\ target = g.automaton.accept => s = 0 /\ x = g.start
  /\ \A it \in g.automaton.items[target] : it.dot = 0 \/
       \E before \in g.automaton.items[s] :
         /\ before.rule = it.rule /\ before.alt = it.alt
         /\ before.dot = it.dot - 1
         /\ SymbolsOf(g, it)[it.dot] = x

ASSUME AutomatonAssumption ==
  \A g \in Grammars :
    LET a == g.automaton IN
    /\ a.accept \in Nat \ {0}
    /\ 0 \in DOMAIN a.items /\ DOMAIN a.items \subseteq Nat
    /\ \A it \in a.items[0] : it.dot = 0
    /\ \A s \in DOMAIN a.items : \A it \in a.items[s] :
         /\ it.rule \in DOMAIN g.rules /\ it.alt \in DOMAIN g.rules[it.rule]
         /\ it.dot \in 0..Len(SymbolsOf(g, it))
    /\ \A s \in DOMAIN a.reduces :
         /\ a.reduces[s] \in Seq(Reductions)
         /\ \A r \in Range(a.reduces[s]) : Completes(g, s, r)
    /\ \A s \in DOMAIN a.shifts :
         /\ DOMAIN a.shifts[s] \subseteq Terminals
         /\ \A x \in DOMAIN a.shifts[s] : Follows(g, s, x, a.shifts[s][x])
    /\ \A s \in DOMAIN a.goto :
         /\ DOMAIN a.goto[s] \subseteq Names
         /\ \A x \in DOMAIN a.goto[s] : Follows(g, s, x, a.goto[s][x])

(***************************************************************************)
(* An LR automaton has all the moves its items call for as well.  The      *)
(* chart loses no sentence where this holds; it does not rely on it.       *)
(***************************************************************************)
Advances(g, it, table, s, x) ==
  /\ s \in DOMAIN table /\ x \in DOMAIN table[s]
  /\ \E after \in g.automaton.items[table[s][x]] :
       after.rule = it.rule /\ after.alt = it.alt /\ after.dot = it.dot + 1

HasMoves(g, s, it) ==
  LET x == Dotted(g, it)
      a == g.automaton
  IN  /\ x \in Terminals => Advances(g, it, a.shifts, s, x)
      /\ x \in DOMAIN g.rules => Advances(g, it, a.goto, s, x)
      /\ x = Null => /\ s \in DOMAIN a.reduces
                     /\ \E r \in Range(a.reduces[s]) :
                          r.rule = it.rule /\ r.alt = it.alt /\ r.length = it.dot

\* A state goes over a name only if it has the items that begin one.
HasItems(g, s) ==
  s \in DOMAIN g.automaton.goto =>
    \A x \in DOMAIN g.automaton.goto[s] \cap DOMAIN g.rules :
      \A k \in DOMAIN g.rules[x] :
        \E it \in g.automaton.items[s] : it.rule = x /\ it.alt = k /\ it.dot = 0

WholeAutomaton(g) ==
  LET a == g.automaton IN
  /\ g.start \in DOMAIN g.rules =>
       /\ 0 \in DOMAIN a.goto /\ g.start \in DOMAIN a.goto[0]
       /\ a.goto[0][g.start] = a.accept
  /\ \A s \in DOMAIN a.items :
       HasItems(g, s) /\ \A it \in a.items[s] : HasMoves(g, s, it)

\* A priority is a zend_long.
ASSUME PriorityAssumption ==
  \A a \in Alternatives : a.priority # Null => a.priority \in Int

VARIABLES
  grammar,    \* chart->grammar
  tokens,     \* chart->tokens: the types of the tokens scanned
  nodes,      \* the nodes allocated in chart->arena
  threads,    \* cur: the threads of this round
  worklist,   \* wl: the threads reduce has to look at
  cursor,     \* the next thread of a loop over worklist or threads
  reduction,  \* the next reduction of the thread before cursor
  bestNode,   \* best_node: reduction key -> node
  nodeKey,    \* node_key: node -> the key it was the best of
  out,        \* result of reduce, shifted of shift, accepting: threads for later
  expected,   \* the terminals given to the scanner
  accepted,   \* chart->threads
  limit,      \* chart->limit
  pc          \* the loop the constructor is in

vars == <<grammar, tokens, nodes, threads, worklist, cursor, reduction,
          bestNode, nodeKey, out, expected, accepted, limit, pc>>

Labels == {"round", "pop", "reduce", "scan", "shift", "finish", "collect",
           "done", "aborted"}

automaton == grammar.automaton

-----------------------------------------------------------------------------
(* Slots, threads and nodes                                                *)

NullSlot == [kind |-> "null", of |-> 0]
TokenSlot(ti) == [kind |-> "token", of |-> ti]
NodeSlot(n)   == [kind |-> "node", of |-> n]

InitialThread == [states |-> <<0>>, slots |-> <<NullSlot>>, pos |-> 0]

Depth(t) == Len(t.states)
Top(t)   == t.states[Depth(t)]

\* Mutant of Shifted: the position stays.
ShiftedInPlace(t, s, ti) ==
  [states |-> Append(t.states, s), slots |-> Append(t.slots, TokenSlot(ti)),
   pos |-> t.pos]

Shifted(t, s, ti) ==
  [states |-> Append(t.states, s), slots |-> Append(t.slots, TokenSlot(ti)),
   pos |-> t.pos + 1]

Pushed(t, s, n) ==
  [states |-> Append(t.states, s), slots |-> Append(t.slots, NodeSlot(n)),
   pos |-> t.pos]

\* php_phathom_glr_thread_pop: what is left, and the children taken off
Base(t, n) ==
  [states |-> SubSeq(t.states, 1, Depth(t) - n),
   slots |-> SubSeq(t.slots, 1, Depth(t) - n), pos |-> t.pos]

Children(t, n) == SubSeq(t.slots, Depth(t) - n + 1, Depth(t))

\* php_phathom_glr_node_compute_start
StartOf(children, pos) ==
  IF children = << >> THEN pos
  ELSE IF Head(children).kind = "node" THEN nodes[Head(children).of].start
       ELSE Head(children).of

\* php_phathom_glr_node_left_end
LeftEnd(node) ==
  LET inner == SelectSeq(node.children, LAMBDA c : c.kind = "node")
  IN  IF inner = << >> THEN node.end ELSE nodes[Head(inner).of].end

AlternativeOf(node) == grammar.rules[node.rule][node.alt]

\* php_phathom_glr_chart_resolve: whether it returns NULL, and whether it
\* returns its first argument.  A priority of Null is no priority.
Unresolvable(a, b) ==
  AlternativeOf(a).priority = Null \/ AlternativeOf(b).priority = Null

FirstWins(a, b) ==
  LET p == AlternativeOf(a).priority
      q == AlternativeOf(b).priority
  IN  /\ ~ Unresolvable(a, b)
      /\ \/ p > q
         \/ /\ p = q
            /\ IF AlternativeOf(a).associativity = "left"
               THEN LeftEnd(a) >= LeftEnd(b)
               ELSE LeftEnd(a) <= LeftEnd(b)

EmptyTable == [k \in {} |-> 0]

Put(table, key, value) ==
  [k \in DOMAIN table \cup {key} |-> IF k = key THEN value ELSE table[k]]

-----------------------------------------------------------------------------
(* The tables of the automaton.  A missing row reads as an empty one.      *)

ReductionsAt(s) ==
  IF s \in DOMAIN automaton.reduces THEN automaton.reduces[s] ELSE << >>

ShiftsAt(s) ==
  IF s \in DOMAIN automaton.shifts THEN automaton.shifts[s] ELSE EmptyTable

GotosAt(s) ==
  IF s \in DOMAIN automaton.goto THEN automaton.goto[s] ELSE EmptyTable

Expected(ts) == UNION {DOMAIN ShiftsAt(Top(t)) : t \in Range(ts)}

-----------------------------------------------------------------------------
Init ==
  /\ grammar \in Grammars
  /\ tokens = << >>
  /\ nodes = << >>
  /\ threads = <<InitialThread>>
  /\ worklist = << >>
  /\ cursor = 1
  /\ reduction = 1
  /\ bestNode = EmptyTable
  /\ nodeKey = EmptyTable
  /\ out = << >>
  /\ expected = {}
  /\ accepted = << >>
  /\ limit = 0
  /\ pc = "round"

-----------------------------------------------------------------------------
(* php_phathom_glr_chart_reduce                                            *)

\* Mutant of Round: node_key is not cleared.
RoundKeepingKeys ==
  /\ pc = "round"
  /\ worklist' = threads
  /\ cursor' = 1
  /\ bestNode' = EmptyTable
  /\ out' = << >>
  /\ pc' = "pop"
  /\ UNCHANGED <<grammar, tokens, nodes, nodeKey, threads, reduction, expected,
                 accepted, limit>>

Round ==
  /\ pc = "round"
  /\ worklist' = threads
  /\ cursor' = 1
  /\ bestNode' = EmptyTable
  /\ nodeKey' = EmptyTable
  /\ out' = << >>
  /\ pc' = "pop"
  /\ UNCHANGED <<grammar, tokens, nodes, threads, reduction, expected, accepted, limit>>

Popping == pc = "pop" /\ cursor <= Len(worklist)

\* Mutant of Superseded: the tables are not looked at.
SupersededNever(t) == FALSE

\* The top node was the best of its key, and is no longer.
Superseded(t) ==
  LET top == Last(t.slots)
  IN  /\ top.kind = "node"
      /\ top.of \in DOMAIN nodeKey
      /\ bestNode[nodeKey[top.of]] # top.of


Supersede ==
  /\ Popping /\ Superseded(worklist[cursor])
  /\ cursor' = cursor + 1
  /\ UNCHANGED <<grammar, tokens, nodes, threads, worklist, reduction, bestNode,
                 nodeKey, out, expected, accepted, limit, pc>>

Pop ==
  /\ Popping /\ ~ Superseded(worklist[cursor])
  /\ out' = Append(out, worklist[cursor])
  /\ cursor' = cursor + 1
  /\ reduction' = 1
  /\ pc' = "reduce"
  /\ UNCHANGED <<grammar, tokens, nodes, threads, worklist, bestNode, nodeKey,
                 expected, accepted, limit>>

Thread == worklist[cursor - 1]

Reducing == pc = "reduce" /\ reduction <= Len(ReductionsAt(Top(Thread)))

Reduction == ReductionsAt(Top(Thread))[reduction]
Below     == Base(Thread, Reduction.length)
Goto      == GotosAt(Top(Below))[Reduction.rule]

\* Mutant of NewNode: the start counts symbols, not tokens.
NewNodeByLength ==
  [rule |-> Reduction.rule, alt |-> Reduction.alt,
   children |-> Children(Thread, Reduction.length),
   start |-> Thread.pos - Reduction.length, end |-> Thread.pos]

NewNode ==
  LET children == Children(Thread, Reduction.length)
  IN  [rule |-> Reduction.rule, alt |-> Reduction.alt, children |-> children,
       start |-> StartOf(children, Thread.pos), end |-> Thread.pos]

Key == <<Below.states, Goto, Reduction.rule, Thread.pos>>

Reduced ==
  /\ reduction' = reduction + 1
  /\ UNCHANGED <<grammar, tokens, threads, cursor, out, expected, accepted, limit, pc>>

NoGoto ==
  /\ Reducing
  /\ Reduction.rule \notin DOMAIN GotosAt(Top(Below))
  /\ Reduced
  /\ UNCHANGED <<nodes, worklist, bestNode, nodeKey>>

\* A node is allocated; its key fits the buffer.
Allocate ==
  /\ Reducing
  /\ Reduction.rule \in DOMAIN GotosAt(Top(Below))
  /\ Depth(Below) <= KeyMaxDepth
  /\ nodes' = Append(nodes, NewNode)
  /\ Reduced

Propagate == worklist' = Append(worklist, Pushed(Below, Goto, Len(nodes) + 1))

Record ==
  /\ bestNode' = Put(bestNode, Key, Len(nodes) + 1)
  /\ nodeKey' = Put(nodeKey, Len(nodes) + 1, Key)

ReduceFirst == Allocate /\ Key \notin DOMAIN bestNode /\ Record /\ Propagate

Existing == nodes[bestNode[Key]]

ReduceLoses ==
  /\ Allocate
  /\ Key \in DOMAIN bestNode
  /\ FirstWins(Existing, NewNode)
  /\ UNCHANGED <<worklist, bestNode, nodeKey>>

\* Unresolvable: both propagate.
ReduceTies ==
  /\ Allocate
  /\ Key \in DOMAIN bestNode
  /\ Unresolvable(Existing, NewNode)
  /\ Propagate
  /\ UNCHANGED <<bestNode, nodeKey>>

ReduceWins ==
  /\ Allocate
  /\ Key \in DOMAIN bestNode
  /\ ~ Unresolvable(Existing, NewNode) /\ ~ FirstWins(Existing, NewNode)
  /\ Record
  /\ Propagate

\* ZEND_ASSERT(base->depth <= PHP_PHATHOM_GLR_KEY_MAX_DEPTH) does not hold.
Abort ==
  /\ Reducing
  /\ Reduction.rule \in DOMAIN GotosAt(Top(Below))
  /\ Depth(Below) > KeyMaxDepth
  /\ pc' = "aborted"
  /\ UNCHANGED <<grammar, tokens, nodes, threads, worklist, cursor, reduction,
                 bestNode, nodeKey, out, expected, accepted, limit>>

\* Every reduction of the thread has been tried.
AllTried ==
  /\ pc = "reduce" /\ reduction > Len(ReductionsAt(Top(Thread)))
  /\ pc' = "pop"
  /\ UNCHANGED <<grammar, tokens, nodes, threads, worklist, cursor, reduction,
                 bestNode, nodeKey, out, expected, accepted, limit>>

\* The fixed point: construct goes on with the threads reduce kept.
FixedPoint ==
  /\ pc = "pop" /\ cursor > Len(worklist)
  /\ threads' = out
  /\ expected' = Expected(out)
  /\ pc' = IF Expected(out) = {} THEN "finish" ELSE "scan"
  /\ UNCHANGED <<grammar, tokens, nodes, worklist, cursor, reduction, bestNode,
                 nodeKey, out, accepted, limit>>

-----------------------------------------------------------------------------
(* php_phathom_glr_chart_scan and php_phathom_glr_chart_shift              *)

\* The scanner returns a token; the chart checks nothing of its type.
ScanToken(type) ==
  /\ pc = "scan" /\ Len(tokens) < MaxTokens
  /\ tokens' = Append(tokens, type)
  /\ cursor' = 1
  /\ out' = << >>
  /\ pc' = "shift"
  /\ UNCHANGED <<grammar, nodes, threads, worklist, reduction, bestNode, nodeKey,
                 expected, accepted, limit>>

\* The scanner returns null, or throws.
ScanNothing ==
  /\ pc = "scan"
  /\ pc' = "finish"
  /\ UNCHANGED <<grammar, tokens, nodes, threads, worklist, cursor, reduction,
                 bestNode, nodeKey, out, expected, accepted, limit>>

Shifting == pc = "shift" /\ cursor <= Len(threads)

CanShift(t) == Last(tokens) \in DOMAIN ShiftsAt(Top(t))

AfterShift(t) == Shifted(t, ShiftsAt(Top(t))[Last(tokens)], Len(tokens) - 1)

\* Mutant of Seen: compares the top states only.
SeenTop(t) == \E u \in Range(out) : Top(u) = Top(t)

Seen(t) == \E u \in Range(out) : u.states = t.states

NextThread ==
  /\ cursor' = cursor + 1
  /\ UNCHANGED <<grammar, tokens, nodes, threads, worklist, reduction, bestNode,
                 nodeKey, expected, accepted, limit, pc>>

Shift ==
  /\ Shifting
  /\ CanShift(threads[cursor]) /\ ~ Seen(AfterShift(threads[cursor]))
  /\ out' = Append(out, AfterShift(threads[cursor]))
  /\ NextThread

\* No shift from here, or to a stack another thread already has.
Drop ==
  /\ Shifting
  /\ CanShift(threads[cursor]) => Seen(AfterShift(threads[cursor]))
  /\ NextThread
  /\ UNCHANGED out

AllShifted ==
  /\ pc = "shift" /\ cursor > Len(threads)
  /\ threads' = out
  /\ pc' = "round"
  /\ UNCHANGED <<grammar, tokens, nodes, worklist, cursor, reduction, bestNode,
                 nodeKey, out, expected, accepted, limit>>

\* The scanner is called once more, expecting nothing.
Finish ==
  /\ pc = "finish"
  /\ cursor' = 1
  /\ out' = << >>
  /\ pc' = "collect"
  /\ UNCHANGED <<grammar, tokens, nodes, threads, worklist, reduction, bestNode,
                 nodeKey, expected, accepted, limit>>

\* Mutant of Accepting: every thread is.
AcceptingAny(t) == TRUE

Accepting(t) == Top(t) = automaton.accept

Collecting == pc = "collect" /\ cursor <= Len(threads)

Accept ==
  /\ Collecting /\ Accepting(threads[cursor])
  /\ out' = Append(out, threads[cursor])
  /\ NextThread

Reject ==
  /\ Collecting /\ ~ Accepting(threads[cursor])
  /\ NextThread
  /\ UNCHANGED out

Collected ==
  /\ pc = "collect" /\ cursor > Len(threads)
  /\ accepted' = out
  /\ limit' = Len(tokens)
  /\ pc' = "done"
  /\ UNCHANGED <<grammar, tokens, nodes, threads, worklist, cursor, reduction,
                 bestNode, nodeKey, out, expected>>

-----------------------------------------------------------------------------
Reduce == NoGoto \/ ReduceFirst \/ ReduceLoses \/ ReduceTies \/ ReduceWins \/ Abort

Next ==
  \/ Round \/ Supersede \/ Pop \/ Reduce \/ AllTried \/ FixedPoint
  \/ \E type \in Terminals : ScanToken(type)
  \/ ScanNothing \/ Shift \/ Drop \/ AllShifted
  \/ Finish \/ Accept \/ Reject \/ Collected

\* The constructor runs to its end in one thread: a step that can be taken is.
Fairness == WF_vars(Next)

Spec == Init /\ [][Next]_vars /\ Fairness

-----------------------------------------------------------------------------
(* Properties                                                              *)

Slot   == [kind : {"null", "token", "node"}, of : Nat]
ThreadType == [states : Seq(Nat), slots : Seq(Slot), pos : Nat]
Node   == [rule : Names, alt : Nat, children : Seq(Slot), start : Nat, end : Nat]

\* The type invariant; every node a slot or a table refers to is in the arena.
TypeOK ==
  /\ grammar \in Grammars
  /\ tokens \in Seq(Terminals)
  /\ nodes \in Seq(Node)
  /\ \A ts \in {threads, worklist, out, accepted} : ts \in Seq(ThreadType)
  /\ cursor \in Nat /\ reduction \in Nat /\ limit \in Nat
  /\ Range(bestNode) \cup DOMAIN nodeKey \subseteq DOMAIN nodes
  /\ Range(nodeKey) \subseteq DOMAIN bestNode
  /\ expected \subseteq Terminals
  /\ pc \in Labels

AllThreads == Range(threads) \cup Range(worklist) \cup Range(out) \cup Range(accepted)

SymbolAt(slot) ==
  IF slot.kind = "token" THEN tokens[slot.of + 1] ELSE nodes[slot.of].rule

Begin(slot) == IF slot.kind = "token" THEN slot.of ELSE nodes[slot.of].start
End(slot)   == IF slot.kind = "token" THEN slot.of + 1 ELSE nodes[slot.of].end

\* The slots derive the tokens from p to q, one after the other.
Covers(slots, p, q) ==
  IF slots = << >> THEN p = q
  ELSE /\ Begin(Head(slots)) = p
       /\ End(Last(slots)) = q
       /\ \A k \in 2..Len(slots) : Begin(slots[k]) = End(slots[k - 1])

\* Every node is a derivation of the tokens between its start and its end by
\* the alternative it was reduced with, from children made before it: popping a
\* thread takes off exactly the symbols of the alternative.
TreesSound ==
  \A n \in DOMAIN nodes :
    LET node == nodes[n]
    IN  /\ Covers(node.children, node.start, node.end)
        /\ AlternativeOf(node).symbols =
             [k \in DOMAIN node.children |-> SymbolAt(node.children[k])]
        /\ \A c \in Range(node.children) : c.kind = "node" => c.of < n

\* The stack of every thread is a run of the automaton over the symbols in its
\* slots, and those derive all the tokens the thread has consumed.
ThreadsSound ==
  \A t \in AllThreads :
    /\ Len(t.slots) = Depth(t)
    /\ t.slots[1] = NullSlot
    /\ Covers(Tail(t.slots), 0, t.pos)
    /\ \A k \in 2..Depth(t) :
         LET from == t.states[k - 1]
             x    == SymbolAt(t.slots[k])
         IN  t.states[k] = IF x \in Terminals THEN ShiftsAt(from)[x]
                                              ELSE GotosAt(from)[x]

\* What the evaluator takes for granted of the chart it is given: the top slot
\* of an accepting thread is a node of the start rule over the whole input.
AcceptedRoots ==
  \A t \in Range(accepted) :
    /\ Depth(t) = 2
    /\ t.slots[2].kind = "node"
    /\ LET root == nodes[t.slots[2].of]
       IN  root.rule = grammar.start /\ root.start = 0 /\ root.end = limit

\* Dropping superseded threads, and all but one of the threads shifted to the
\* same stack, loses no sentence: an input is accepted exactly when the grammar
\* derives it.
AcceptsLanguage ==
  pc = "done" => (accepted # << >> <=> Sentence(grammar, tokens))

\* The assertion on the depth of the stack under a reduction holds.
KeyFits == pc # "aborted"

\* The threads made so far in this round, of those reduce has to look at, that
\* compete with a thread: the same rule reduced on the same stack, over the same
\* tokens.
Rivals(t) ==
  {u \in Range(worklist) :
     /\ Last(u.slots).kind = "node" /\ u.states = t.states /\ u.pos = t.pos
     /\ nodes[Last(u.slots).of].rule = nodes[Last(t.slots).of].rule}

PriorityOf(t) == AlternativeOf(nodes[Last(t.slots).of]).priority

PassesOn(t) == pc = "pop" /\ pc' = "reduce" /\ t = worklist[cursor]

\* Local ambiguity is resolved as far as it is known: reduce goes on with a thread
\* only if none of its rivals so far has priority over it, however often the best
\* node of the key was replaced after the thread was made; or if one of them has
\* no priority, when resolve leaves them all.
BestPassedOn ==
  \A t \in Range(worklist) : PassesOn(t) /\ Last(t.slots).kind = "node" =>
    \/ \E u \in Rivals(t) : PriorityOf(u) = Null
    \/ \A u \in Rivals(t) : PriorityOf(u) <= PriorityOf(t)

NoneOutranked == [][BestPassedOn]_vars

\* Local ambiguity is resolved by reduce: of the threads it returns, no two reduced
\* the same rule on the same stack, over the same tokens, although one of the nodes
\* has priority over the other.
ResolvedOnce ==
  pc \in {"scan", "finish"} =>
    \A t, u \in Range(threads) :
      t # u /\ Last(t.slots).kind = "node" /\ u \in Rivals(t) =>
        Unresolvable(nodes[Last(t.slots).of], nodes[Last(u.slots).of])

\* An ambiguity that resolve cannot decide reaches the root: where no alternative
\* has a priority, an input with several derivations is not accepted by one
\* thread alone.
AmbiguityKept ==
  /\ pc = "done" /\ Ambiguous(grammar, tokens, TreeHeight)
  /\ \A a \in Alternatives : a.priority = Null
  => Len(accepted) # 1

=============================================================================
