# Verification of the phathom extension

`phathom` is a PHP extension that replaces four classes of the userland parser
`pharos\phathom`: the Earley chart and evaluator (`src/earley/`), and the GLR chart
and evaluator (`src/glr/`).  A chart is built entirely by its constructor, from a
grammar and a buffer; an evaluator walks the finished chart and calls the action
methods of a context object.  Everything a chart holds lives in one arena and in
the hash table of `src/hash.h`.

These modules model the charts, the evaluators, the table and the objects' life
cycle.  What they say holds for the code in `src/`; the userland half (grammar
compiler, scanner, automaton, contexts) is external and appears as input.

Run anything from this directory: `tlc -config MCEarleyChart.cfg MCEarleyChart`,
`tlapm EarleyChartProofs.tla`.

## The parts of the system

| Part | State | Operations | Hard behaviour |
|---|---|---|---|
| Hash table, `src/hash.h` | entries in order of insertion; open-addressed buckets; both arrays in an arena | init, slot, find, append; FOREACH_CURRENT, FOREACH_CONCURRENT | arrays are replaced while loops over them run; probing needs an empty bucket |
| Earley chart, `src/earley/chart.c` | index (item to back pointers), path, waiting, nullable, tokens | add, complete, drain, predict, scan, start, construct | add, complete and drain call each other while they iterate over the tables they extend |
| GLR chart, `src/glr/chart.c`, `thread.h`, `node.h` | threads (stacks), nodes, worklist, best_node, node_key, tokens | reduce, resolve, expected, scan, shift, construct | worklist grows while read; a node may be superseded after its thread was processed; merging of equal stacks |
| Automaton, `src/glr/automaton.h`, `reduction.h` | tables of shifts, gotos, reductions | read only | built in userland |
| Grammar, `src/grammar.h`, `alternative.h`, `symbol.h`, `token.h` | rules, alternatives, symbols, interned names | fetch (interns names), accessors | names are compared by address |
| Earley evaluator, `src/earley/evaluator.c` | stack of frames, heap of values, cached actions | select, resolve, apply, execute, invoke | ambiguity depends on the order of back pointers; cyclic forests |
| GLR evaluator, `src/glr/evaluator.c` | the same | apply, execute, invoke | trusts the top slot of an accepting thread |
| Frames, `src/frame.h` | frames and values, reference counted | push, pop, cleanup | ownership when an action throws |
| Object life cycle, `phathom.c` and the `create`/`free` functions | reference counts; classes cached per thread | create, construct, free, fetch | constructor that fails halfway or is called twice; a cache older than its request |
| Exceptions, `src/exceptions.h`; buffer, `src/buffer.h` | none of their own | construct an exception; call the scanner | the scanner is arbitrary code |

The charts call the scanner of the grammar and use the hash table for every
collection; the GLR chart also reads the automaton.  The evaluators read a chart
and call the context.  Nothing runs concurrently: the difficulty is in loops whose
bodies change what they iterate over, in mutual recursion, and in tables that must
agree.

What makes each part correct:

- *Hash table*: it is a map in insertion order; a snapshot loop does not see later
  insertions and a concurrent one sees them all; a search ends.
- *Earley chart*: the tables hold what Earley's rules deduce, all of it and each
  derivation once; the constructor ends; an input is accepted exactly when the
  grammar derives it.
- *GLR chart*: nodes derive their span, stacks are runs of the automaton, accepted
  inputs are the sentences; what resolve can rank is resolved, what it cannot is
  kept (neither holds to the end: see the violated runs); the constructor ends.
- *Evaluators*: the value returned is that of one derivation, in the Earley evaluator of
  the best ranked one where ranks decide; actions see their arguments in the order of the input; an ambiguity is
  reported only where there is one; every value is released once on every path.
- *Back pointers, names*: what the charts take for a list and for addresses that
  compare like strings is one.
- *Life cycle*: every reference taken is released once; what is used is alive and
  belongs to the current request.

## Modules

| Module | What it is |
|---|---|
| `Grammar` | grammar objects as the charts see them, Earley items and back pointers |
| `EarleyDeduction` | abstract specification: Earley's rules as a deduction system, in any order |
| `EarleyChart` | the constructor of `pharos\phathom\Earley\Chart` |
| `Language`, `Derivations` | reference definitions: the spans a rule derives; the number of derivation trees |
| `Backs` | how an item stores its back pointers |
| `EarleyForest` | `EarleyChart` compared with `Derivations` |
| `SharedProofs` | lemmas of both engines: induction over numbers, recursive functions, the spans of a grammar; counts, frees and what the frames of a stack hold |
| `EarleyChartProofs` | theorems about `EarleyChart`: soundness, completeness, language |
| `GLRChart` | the constructor of `pharos\phathom\GLR\Chart` |
| `GLRFixedPoint` | the grammars whose reductions have a fixed point, and termination of `GLRChart` |
| `GLRChartProofs` | theorems about `GLRChart`: trees, stacks, roots, language, rivals |
| `LRAutomaton` | the LR(0) construction that stands for the userland automaton (external) |
| `OrderedMap` | abstract specification of the table |
| `Hash`, `HashProofs` | the table of `src/hash.h`; its invariants and the refinement of `OrderedMap`, proved |
| `Values` | reference-counted values, and `apply` |
| `Frames` | the frame stack and value heap of `frame.h` |
| `Evaluation` | abstract specification of an evaluator: a derivation of the input is evaluated, or an error reported |
| `EarleyEvaluator` | `pharos\phathom\Earley\Evaluator`, composed with `EarleyChart` |
| `EarleyEvaluatorProofs` | theorems about `EarleyEvaluator`: types, ownership, one result, choice |
| `GLREvaluator` | `pharos\phathom\GLR\Evaluator`, composed with `GLRChart` |
| `GLREvaluatorProofs` | theorems about `GLREvaluator`: types, ownership, one result |
| `Interning`, `InterningProofs` | `grammar_fetch`: names replaced by interned strings; names and addresses, proved |
| `Lifecycle`, `LifecycleProofs` | who holds a reference to what; the classes cached per thread; exact counts, proved |
| `EvaluatorGrammars` | grammars with priorities, quantifiers and actions for both evaluators |
| `MC...` | grammars, keys and hashes for TLC |

### EarleyChart

`path`, `backs`, `waiting`, `nullable` are the four tables of the chart struct; an item
is identified with its key in `chart->index`, and `backs` is the index itself.
`work` is the C call stack: each running loop of `predict`, `complete` or `drain` is a
sequence of the `add` calls it has still to make.  The loops iterate over a snapshot,
so the sequence is known when the loop starts.  `add` is the actions `AddMerge`
(the item exists), `AddCompleted`, `AddNullable` and `AddWaiting` (it is new: each of them
enters all the tables the code enters, then starts the loop the code calls).
`construct` is the program counter `pc`, with `i` and `cursor` its two loops; `cursor`
compares with the current length of `path[i]`, which is what FOREACH_CONCURRENT does.
The scanner is any function: `ScanToken` takes any terminal, expected or not.

The buffer offset and pending exceptions are not represented: neither is read by
the constructor.  The back pointers of an item are a sequence here.  `Backs` is
the union of `one` and `many` that stores it (`chart.h:32-39`): `used`, `limit` and `data` are
the fields of the struct, `data` the bytes of the union, `Appended` writes them and `Fetched`
reads them as `limit` says.  `BacksStored` compares the two for every item of a finished chart.

### GLRChart

Threads are values `[states, slots, pos]`, since the code never changes one; nodes
are places in an arena, since `best_node` and `node_key` tell them apart by address.
`reduce` is one action per pass: `Supersede` or `Pop` for a thread of the worklist, then
for each reduction one of `NoGoto`, `ReduceFirst`, `ReduceLoses`, `ReduceTies`,
`ReduceWins`; `Abort` is the failed assertion.  A build without assertions would
overrun the buffer at that point, which the model does not follow.  `bestNode` is keyed
by the states below, the goto, the rule and the position, as `kbuf` is.  Rule names
are their interned address (`chart.c:222` compares addresses).  The loop of `construct` that
keeps the accepting threads is `Accept` and `Reject`, a pass each, between `Finish` (the last
call of the scanner) and `Collected`.

The automaton is a field of the grammar.  Its `items` are not in the PHP object: they are what
the engine built each state from, and `AutomatonAssumption` says that the tables agree with
them (a state reduces what it has completed, a move leads to items of the state before it).  A
row, a shift or a goto may be missing.  `WholeAutomaton` says that none is: the chart does not
rely on it, but an input is sure to be accepted only then.

### Hash

`arrays` is the arena: an array of entries keeps its address and its content after it
has been replaced, and a `snapshot` loop goes on reading it.  A slot call that has to
grow the table is several actions (`ExtendBuckets`, one `Reindex` per entry,
`ExtendEntries`); the write of the caller through the returned pointer is part of
`Insert` and `Update`, because every caller writes before its next call.  Hash
functions are arbitrary functions to odd numbers (`php_phathom_hash_key` sets the lowest
bit).  A table is used as a list or as a map, never as both (`use`); `grep` for the
callers of `append` and `slot` shows it.

### The evaluators

Both modules extend their chart and act when it is done, so every chart they walk is
one the constructor built.  `stack` and `heap` are those of `execute`, `mem` is memory: a
sequence of values with their counts, the tokens of the chart first.  `Applied` is
`apply`, and the same for both evaluators; `Release` frees what no holder is left of, the
values inside it included.  In the Earley evaluator the walk over the
back pointers is one action per symbol (`WalkToken`, `WalkChild`, `WalkAmbiguous`), `Queue` and
`ApplyTokens` end it.  In the GLR evaluator nothing can fail in that loop, and a select
frame is one action.  `arrays` counts the partial, slots and items arrays that have been
allocated and not freed.  An action method is userland code; an alternative says what its
method returns, a new object that refers to the arguments or the first argument, and it
may throw instead (`Throw`, `ThrowAtTokens`).

`Evaluation` promises an outcome with no chart at all: the tokens are read, then one of
`Evaluate`, `NoMatch`, `Ambiguity`, `Throw` happens, each with a condition on the grammar
and the input.  The mapping takes the value returned to the term it stands for
(`TermOf`).  The specification does not say *which* derivation is evaluated: the GLR chart
merges threads whose derivations cannot be ranked (`AmbiguityKept` below) and some whose
derivations can (`ResolvedOnce`), so only `ChoiceIsBest` and `AmbiguityReported` say more, of
the Earley evaluator, and `NoneOutranked` of the GLR chart.

### Interning

`grammar_fetch` visits the start, the keys of the rules and the names of the symbols,
and replaces each by the interned string that spells it.  A string is its address.
Userland builds grammars before and after, from computed, literal and shared strings.
`Intern` and `Keep` are the two sides of the test for an interned string, in the three
places the code has it.

### Lifecycle

`count` is what GC_ADDREF and OBJ_RELEASE have left, `grammar`, `buffer`, `chart` and
`context` the pointers in charts and evaluators, `held` the variables of the program.  A
constructor call is one of `ConstructChart`, `RefuseGrammar`, `RefuseBuffer` (and
`ConstructEvaluator`, `RefuseEvaluator`), by how far the parameters are accepted; charts of
both engines count alike, and so do evaluators.  An object is constructed once, as `new`
does.  `cached` is the request whose classes `php_phathom_fetch` keeps, `fetched` what the last
method got.  The arguments may be of any class, and a class cached in an earlier request is
taken for the one of the current request or not (`Matches`): it may be at the same address.
`CountsExact` holds until a buffer is refused; `HeldAlive` below is what happens then.

## Runs

| Run | Shows | Bounds |
|---|---|---|
| `MCEarleyChart` | type and table invariants, completeness of every position, one back pointer per child and how they are stored, language, exact forest, refinement of `EarleyDeduction`, frozen past, termination | 8 grammars chosen for nullable, cyclic, left- and right-recursive and ambiguous rules and many back pointers, and *every* grammar over two names and one terminal with up to two symbols in an alternative; up to 3 tokens; trees up to height 4 |
| `MCGLRChart` | sound trees and stacks, accepted roots, language, no thread passed on that a rival has outranked, a fixed point where the grammar has one, and the assertion where a left recursion is hidden | 15 grammars picked (two operators with priorities, the same operator without, a name with two alternatives of the same tokens, nullable, look-alike and missing rules, right recursion, a name that derives itself; a missing goto row; a hidden left recursion) and 246 small ones: every alternative of at most two symbols next to `S -> a`, and for a second name, with priorities either way or without, those known to have a fixed point or none (three of them); up to 5 tokens; a key of 8 states |
| `MCHash` | refinement of `OrderedMap`, agreement of buckets and entries, an empty bucket; the assertion in append | maps of 3 keys with all ways to collide, lists of 5 entries; sizes from 2, so buckets and entries grow more than once |
| `MCEarleyEvaluator` | ownership of values and arrays, one result, order of arguments, best choice, ambiguities reported, refinement of `Evaluation`, the call returns | 17 grammars; up to 4 tokens; derivations up to height 6, which a list of 4 tokens reaches |
| `MCGLREvaluator` | the same, but for what only the Earley evaluator decides (choice and ambiguities) | 14 grammars, the cyclic one left out (the chart does not end); up to 4 tokens |
| `MCInterning` | equal names are equal addresses; references to strings | 2 grammars of 4 names, 2 spellings, 4 addresses |
| `MCLifecycle` | exact counts until a buffer is refused; nothing outlives the program's use of it | 2 charts, 1 evaluator, 2 contexts, 2 requests |
| `MCGLRResolved`, `MCGLRAmbiguity`, `MCGLRKey` | the disagreements below | one grammar each, two in `MCGLRResolved` |
| `MCRefused`, `MCRequests` | the disagreements below | one chart, one evaluator |

Tokens are any terminals, so all inputs up to the bound occur, wrong ones included.
Everything the Earley chart does at a position depends on the tables of at most two
positions, and every nesting of `add`, `complete` and `drain` that two names allow
occurs in `MCEarleyChart`; longer inputs repeat it.  Tree heights bound only the
comparison with `Derivations`, which counts trees on both sides up to the same
height.  `MinSize` is 8 in the code and 2 in the runs: growth does not depend on it.
The chart and evaluator configurations switch the deadlock check off because a finished
call has stopped, the life cycle because its last request may end with everything dropped; a hash table can always be used again, and so
can a name.  The evaluators' runs hold every order of back pointers that a chart of those
grammars gives, not every order there could be.  Two charts and two contexts suffice for
sharing and for replacing; the counts of one object do not depend on how many others there
are.  `LongMin` stands for ZEND_LONG_MIN, below every priority.

Every property is shown to bite by a mutant of the code's definition (an operator
named in a comment "Mutant of ...").

Fairness is weak fairness of the whole next-state relation: a constructor is one
thread that runs to its end, and each call of the scanner returns (a scanner that
does not return is not the chart's doing).  An evaluator is the same thread later on;
its fairness says in addition that action methods return or throw.  `Hash`, `Interning`
and `Lifecycle` are driven by their callers, who may stop, and claim no liveness.

### Where reductions have no fixed point

The comment on `reduce` (`glr/chart.c:99`) promises a fixed point.  There is none for every
grammar, so `Termination` of `GLRFixedPoint` says for which.  No token is read between two
reductions: they go on for ever only if symbols that derive nothing pile up on the stack, in
front of a left recursion, or if a name derives itself.  `HasFixedPoint` excludes the first,
and the second unless all alternatives have priorities and the same associativity: then a node
takes the place of another only if it outranks it, which cannot go on, and the worklist ends.  Then the constructor
returns (`pc = "done"`; an assertion that fails is not a return).

`HasNoFixedPoint` is a hidden left recursion at the start.  The grammar
`S -> A S b | a, A ->` is one: `reduce` puts `A` on the stack before the first token, and again,
each time under a new key, which nothing supersedes.  The second conjunct of `Termination` says
that the assertion on the key is what ends this, for every input: what the comment promises
does not hold of this grammar.
A name that derives itself without priorities (`S -> S | a`) has no fixed point either; no
bound of the code ends that, the state space is infinite, and no run has such a grammar.

### What the violated runs show

- `ResolvedOnce`: `reduce` looks whether a thread was superseded when it pops it.  A
  thread that was popped before the better node was reduced stays among the results.
  Where a name has two alternatives and the better one takes a reduction more, `reduce`
  returns a thread for each, and the next token keeps the first one: the tree that is
  evaluated has the *lower* priority.  With one right-associative operator and four
  operands, the other grammar of the run, two resolvable roots are accepted and the input
  is reported ambiguous.  What does hold is `NoneOutranked`: a thread goes on only if no
  rival made before it is popped has priority over it.
- `AmbiguityKept`: `shift` keeps one thread per state stack.  An ambiguity below a name
  that is followed by a token disappears, and one of its derivations is evaluated.
- `KeyFits`: the stack of a right recursion grows with the input, and the reduction
  key does not fit its buffer of 1024 states.
- `HeldAlive`: parameter parsing stores the grammar in the chart before the buffer is
  refused; the chart, when it is freed, releases a grammar it never retained.
- `ClassesCurrent`: the classes and enum cases of the first request are used in all later
  requests of the thread.

## Proofs

The theorems hold for all grammars, inputs, keys, objects and bounds that satisfy the named
assumptions of the modules: `GrammarAssumption` (names and terminals are apart, a grammar has
finitely many rules, made of its alternatives), `NullIsNoItem`, `NullIsNoWalk`,
`MaxTokensAssumption`, `AutomatonAssumption` (above), `PriorityAssumption` (a priority is a
number), `QuantifierAssumption`,
`LongMinAssumption`, `HashAssumption` (hashes are odd numbers), `InterningAssumption` (names
and addresses are finite in number) and `LifecycleAssumption` (an object is of one class).
TLC evaluates each of them in the runs.

### EarleyChartProofs

- `TypeCorrect`, `InvariantCorrect` (`ChartInvariant`), `PastIsFrozen` (`PastFrozen`).
- `ChartImplementsDeduction`: every item and back pointer is deduced from the tokens.
- `ChartIsComplete` (`ChartComplete`): nothing that can be deduced is missing.
- `BacksAreSelectable` (`BacksSelectable`): no child repeats among the back pointers of an
  item, and an item with several has none over a token.
- `LanguageCorrect` (`AcceptsLanguage`): accepted inputs are the sentences.
- `BacksAreStored` (`BacksStored`): the union of `one` and `many` loses no back pointer.

`ChartInvariant` is inductive as it stands.  Soundness of a step that adds an item needs
to know that the call which adds it was justified when its loop started and still is:
`CallsDue` says so of every call on the stack (a justification is an item in the
chart, and items are never removed); `TablesAgree` says that what a loop looks up under
a key belongs there, which makes the calls of a new loop justified; `ControlOK` ties
the position being filled to the number of tokens.

`ChartComplete` holds only between positions, and is not inductive.  `FullInv` says
what holds while the loops run: a consequence of two items is in the chart or is one of the
calls still to make (`Drawn`), as soon as it is due, which depends on how far `construct` has
come (`Settled`, `Compared`), and not before, which is why none is recorded twice
(`DrawnOnce`, `EdgesDue`).  When the stack of calls is empty this is completeness.

The language follows.  Soundness: the symbols before the dot of every item derive the tokens
it spans (`EveryDerived`).  Completeness: the spans the finished chart has completed are
closed under the rules (`SpannedSpans`), and `Spans` is the least such set.

`BacksAreStored` is about one list: `Stores` says what the union looks like when the first k
elements have been appended (inline for one, an array with room for the rest for more), and
`Appended` leads from k to k + 1, through the growth that reads the old bytes before it writes.

### SharedProofs

`Spans` is defined by so many levels, one for each rule and each length a span can have.
`SpansClosed` shows that these are enough: a span that n levels do not derive and one more
does has, nested in it, a span for each level, and no two of them have both name and length in
common (`LevelsNested`), so it is derived before the levels run out.  `SpansLeast`: they are the
least set closed under the rules.  What holds of a recursive function is
shown for the set of numbers it holds for (`Induction`, from the well-foundedness of <): the
library's induction theorems cannot be used, since they take an operator as a parameter.

To free a value releases others.  `ReleaseSound` shows that the recursive release leaves exactly
the counts of what is still held, for every memory in which values refer to older ones, by
induction over its length; `ApplySound`, `AddRefsSound` and the lemmas about `Sizes` say the
same of the other things an evaluator does with memory, stack and heap.

The order of the arguments is a matter of spans too.  `Lies` says of a value that its tokens
are in a span of the input; memory only grows and counts change, so it goes on lying there
(`LiesKept`), and what an alternative makes of values in a span lies in it, whatever the action
(`AppliedLies`).  A heap is laid over a sequence of spans that do not overlap (`Laid`), and a
stack runs over one (`RunsOver`) if each frame, when those above it have run, finds the values
of its slots in its own span on top of the heap, and everything below them before it.
`ExpandedRuns`: an apply frame and the frames of the children above it may take the place of
one frame, if the children lie in its span one before the other.

### GLRChartProofs

- `TypeCorrect`, `TreesCorrect` (`TreesSound`), `ThreadsCorrect` (`ThreadsSound`),
  `RootsCorrect` (`AcceptedRoots`).
- `AcceptedIsSentence`: with whatever automaton, what is accepted is a sentence.
- `LanguageCorrect`: `Spec => [](WholeAutomaton(grammar) => AcceptsLanguage)`.
- `RivalsCorrect` (`NoneOutranked`): no thread goes on that has been outranked by then.

That a reduction takes off exactly the symbols of its alternative is a fact about the items of
the top state and the slots below it; `Handles` relates the two for every state of every
stack, and is preserved because a move leads to items of the state before it.

For the language, `Reach` has all the stacks the automaton could have after so many tokens if
no thread were merged.  By the definition of `Spans`, one of them ends in the accept state if
the input is a sentence (`SentenceReached`).  `Lossless` says that the loops keep a thread for
every stack of `Reach`.  Its core is `Work`, about the worklist of `reduce`: every stack in it
has been kept or is still to be popped (`Settled`), the reductions of what has been kept have
left their stacks in it (`AllReduced`), and for each key the thread with the best node is
there, and kept if it has been popped (`BestKept`).  The last is what makes it safe to leave
out a thread that was superseded and not to push one that lost: the best node of the key has
the same stack.  It is a statement about stacks, not about trees; `AmbiguityKept`
and `ResolvedOnce` show that trees do get lost.

What `reduce` does promise of trees is `NoneOutranked`.  `TablesRanked` is why: a thread made in
the round is known by the key it was made for, the best node of that key is the node of some
thread and not worse than any it can be compared with, and a thread whose node is not in
`node_key` cannot be compared (`Filed`, `Backed`).  The step that needs an argument is the one
that replaces the best node: the new one is not worse than the old one, so not worse than all
the old one was not worse than.  A rival without a priority is compared with nothing; where it
is the first of its key, `reduce` ranks none of the others either, and the property says so.

### HashProofs

- `TypeCorrect`, `InvariantCorrect` (`HashInvariant`), `EmptyBucketLeft` (`EmptyBucket`),
  `AppendsInsert` (`AppendInserts`), `ImplementsMap` (`ImplementsOrderedMap`).
- `SearchTerminates`: in every state a search for any key ends, at a bucket that is empty or
  holds the key.

`HashInvariant` is inductive with the sizes of the arrays (`SizesOK`: after the growth of the
buckets there is room for the entry being inserted), with the keys of a list (`ListOK`) and
with what a snapshot loop still reads (`SnapshotOK`).  An empty bucket is left because the
limit is seven tenths of the size and every entry has one bucket; that the probes reach it is
arithmetic modulo the size.  The refinement maps the entries to the pairs of the map and each
step of a growing `slot` call to a stutter.

### InterningProofs and LifecycleProofs

- `InterningCorrect` (`InterningInvariant`): names are equal exactly when addresses are, and
  the references of a string are the places it is held at (`Places`), so none is freed
  early; needs that there is one interned string of a name (`OnePerName`).
- `TypeCorrect`, `CountsCorrect` (`CountsExact`), `NothingKept` (`NothingOutlives`) of
  `Lifecycle`.  `CountsExact` speaks of runs in which no buffer is refused.  The invariant
  `Exact` covers the others: a count is the number of holders less the number of charts that
  store a grammar they never retained (`Borrowers`).

### EarleyEvaluatorProofs

- `EvaluatorTypeCorrect` (`EvalTypeOK`), `OwnershipCorrect` (`OwnershipExact`),
  `ResultCorrect` (`OneResult`), `ChoiceCorrect` (`ChoiceIsBest`), `OrderCorrect`
  (`LeftToRight`).

`EvalInv` is the invariant of the chart, which does not change any more, and `StateOK`:
the frames and the walk are of the shape `execute` gives them (`GoodFrames`, `GoodWalks`), the
heap has as many values as the apply frames below will take (`BalancedAt`), and the count of
every value is the number of its holders (`Exact`).

`LeftToRight` is not inductive: the values on the heap say nothing of where the next one will
be put.  `OrderInv` adds `Ordered`: the heap is laid over spans that the stack runs over, the
span of a frame being that of its item.  While `select` walks, the children it has found lie
between where it is and the end of the item, each before the ones found earlier (`WalkIn`),
because a back pointer leads from an item to one that ends where the symbol passed begins
(`BackPlaced`); the item being walked counts as a frame on top of the stack.

### GLREvaluatorProofs

- `EvaluatorTypeCorrect` (`EvalTypeOK`), `OwnershipCorrect` (`OwnershipExact`),
  `ResultCorrect` (`OneResult`), `OrderCorrect` (`LeftToRight`).

`EvalInv` is built alike, on what `GLRChartProofs` shows: the slots of a node are tokens and
nodes made before it that spell its alternative (`TreesSound`), so a select frame queues one
frame for every node below it and an apply frame finds as many values as it has slots left; and
the evaluator may take the top slot of an accepting thread for a node (`AcceptedRoots`).
`OrderInv` is that of the Earley evaluator with the spans of the nodes; that the children of a
node lie one behind the other is `Covers`, a conjunct of `TreesSound`.

### Only model-checked

- `ForestExact`, `ImplementsEvaluation`: equalities with `Derivations`, which counts trees by
  recursive definitions over data.
- `AmbiguityReported`: another equality with a number of trees.
- Both `Termination` and both `Returns`: liveness is out of the prover's reach.  (`SearchTerminates` is
  a safety property: it says of a state that a search in it has where to stop.)

## Not modelled

- Exception objects: the factory methods are userland code.  The evaluators model where
  they are called, not that the exception may refer to a table inside the chart
  (`exceptions.h:38`), which is listed as a hazard.
- An exception pending while the chart calls the scanner once more (`chart.c:523`), an
  action its context has no method for, an action that constructs the evaluator that is
  calling it, an object constructed a second time: each is listed as a hazard with its line.
- A buffer whose `contents` is a hook that throws (`buffer.h:25`), and an evaluator invoked
  without its constructor (`earley/evaluator.c:460`, `glr/evaluator.c:327`).
- Cyclic rules with priorities in the Earley evaluator, which may select such a derivation
  for ever; cyclic rules without priorities in the GLR chart, whose worklist then grows
  without bound.  Both are listed as hazards.
- `php_phathom_hash_reset`, which nothing calls; overflow of table sizes (2^32 entries);
  the doubling of the arrays below stack and heap; build files and generated stubs.

## Plan

Done: every module of the table above; the proofs of the charts, the table, the names, the
life cycle and both evaluators.  Next, in this order:

1. Exceptions in the chart constructors.
