----------------------------- MODULE Lifecycle -----------------------------
(***************************************************************************)
(* The objects of the extension and those it is given, while a program     *)
(* creates, constructs, uses and drops them: who holds a reference to what *)
(* (the create, free and __construct functions of the charts and the       *)
(* evaluators, src/grammar.h and src/buffer.h), and the classes the        *)
(* extension remembers (src/phathom.c).                                    *)
(*                                                                         *)
(* Both engines keep their objects in the same way; Charts and Evaluators  *)
(* stand for those of either.  A constructor is one step: it runs userland *)
(* code, the scanner, but holds all it needs when it does.                 *)
(***************************************************************************)
EXTENDS Integers, FiniteSets

CONSTANTS
  Grammars, Buffers, Contexts,   \* userland objects, by class
  Charts, Evaluators,            \* objects of the extension
  Null,
  MaxRequests    \* bound of the model: requests served by the thread

Userland == Grammars \cup Buffers \cup Contexts
Objects  == Userland \cup Charts \cup Evaluators

ASSUME LifecycleAssumption ==
  /\ Null \notin Objects
  /\ Grammars \cap Buffers = {} /\ Contexts \cap (Grammars \cup Buffers) = {}
  /\ Charts \cap Userland = {} /\ Evaluators \cap (Userland \cup Charts) = {}
  /\ MaxRequests \in Nat \ {0}

VARIABLES
  count,     \* references to each object that have been counted
  made,      \* the objects made in this request
  held,      \* the objects variables of the program refer to
  grammar,   \* chart->grammar.object
  buffer,    \* chart->buffer.object
  chart,     \* evaluator->chart
  context,   \* evaluator->context
  request,   \* the request being served
  cached,    \* the request whose classes php_phathom_fetch keeps, 0 if not ready
  fetched    \* what the last method of the extension got from it

vars == <<count, made, held, grammar, buffer, chart, context,
          request, cached, fetched>>

pointers == <<grammar, buffer, chart, context>>
engine   == <<request, cached, fetched>>

Alive == {o \in made : count[o] > 0}

-----------------------------------------------------------------------------
(* GC_ADDREF and OBJ_RELEASE: the counts they leave.  The last reference   *)
(* to a chart or an evaluator gives up what its free function gives up.    *)

AddRef(n, o) == [n EXCEPT ![o] = @ + 1]

DelRef(n, o) == IF o = Null THEN n ELSE [n EXCEPT ![o] = @ - 1]

\* Mutant of ReleaseChart: the buffer is not released.
ReleaseChartOnly(n, c) ==
  LET m == DelRef(n, c)
  IN  IF c \in Charts /\ m[c] = 0 THEN DelRef(m, grammar[c]) ELSE m

\* php_phathom_earley_chart_free and php_phathom_glr_chart_free
ReleaseChart(n, c) ==
  LET m == DelRef(n, c)
  IN  IF c \in Charts /\ m[c] = 0 THEN DelRef(DelRef(m, grammar[c]), buffer[c]) ELSE m

\* php_phathom_earley_evaluator_free and php_phathom_glr_evaluator_free
ReleaseEvaluator(n, e) ==
  LET m == DelRef(n, e)
  IN  IF m[e] = 0 THEN DelRef(ReleaseChart(m, chart[e]), context[e]) ELSE m

Released(n, o) ==
  IF o \in Evaluators THEN ReleaseEvaluator(n, o) ELSE ReleaseChart(n, o)

-----------------------------------------------------------------------------
Unset(set) == [o \in set |-> Null]

\* The objects of a request, before it starts.
Blank ==
  /\ count' = [o \in Objects |-> 0]
  /\ made' = {}
  /\ held' = {}
  /\ grammar' = Unset(Charts)
  /\ buffer' = Unset(Charts)
  /\ chart' = Unset(Evaluators)
  /\ context' = Unset(Evaluators)

Init ==
  /\ count = [o \in Objects |-> 0]
  /\ made = {}
  /\ held = {}
  /\ grammar = Unset(Charts)
  /\ buffer = Unset(Charts)
  /\ chart = Unset(Evaluators)
  /\ context = Unset(Evaluators)
  /\ request = 1
  /\ cached = 0
  /\ fetched = 0

\* php_phathom_fetch, the first thing every method does.  Only the constructors are
\* modelled: __invoke finds the cache as the constructor of its evaluator left it.
Fetch ==
  /\ cached' = IF cached = 0 THEN request ELSE cached
  /\ fetched' = cached'
  /\ UNCHANGED request

\* Whether Z_PARAM_OBJ_OF_CLASS accepts an object of a set, by the class of the
\* cache: a class of an earlier request is the one of the object only if it
\* happens to be at the same address.
Matches(o, set) ==
  IF o \notin set THEN {FALSE} ELSE IF cached' = request THEN {TRUE} ELSE BOOLEAN

-----------------------------------------------------------------------------
(* The program                                                             *)

\* An object is created, with the reference its variable holds; the pointers in
\* a chart or an evaluator are null.
Create(o) ==
  /\ o \notin made
  /\ made' = made \cup {o}
  /\ held' = held \cup {o}
  /\ count' = [count EXCEPT ![o] = 1]
  /\ UNCHANGED <<pointers, engine>>

\* Its variable is unset.
Drop(o) ==
  /\ o \in held
  /\ held' = held \ {o}
  /\ count' = Released(count, o)
  /\ UNCHANGED <<made, pointers, engine>>

\* Chart::__construct($grammar, $buffer), with objects the program holds.  The
\* program does not call it again on a chart that has a grammar.
CallChart(c, a, b) ==
  /\ {c, a, b} \subseteq held \cap Alive
  /\ grammar[c] = Null
  /\ Fetch
  /\ UNCHANGED <<made, held, chart, context>>

\* Mutant of ConstructChart: the arguments are stored the other way round.
ConstructSwapped(c, a, b) ==
  /\ CallChart(c, a, b)
  /\ TRUE \in Matches(a, Grammars) /\ TRUE \in Matches(b, Buffers)
  /\ grammar' = [grammar EXCEPT ![c] = b]
  /\ buffer' = [buffer EXCEPT ![c] = a]
  /\ count' = AddRef(AddRef(count, a), b)

\* Both accepted: grammar_fetch and buffer_fetch count a reference each.
ConstructChart(c, a, b) ==
  /\ CallChart(c, a, b)
  /\ TRUE \in Matches(a, Grammars) /\ TRUE \in Matches(b, Buffers)
  /\ grammar' = [grammar EXCEPT ![c] = a]
  /\ buffer' = [buffer EXCEPT ![c] = b]
  /\ count' = AddRef(AddRef(count, a), b)

RefuseGrammar(c, a, b) ==
  /\ CallChart(c, a, b)
  /\ FALSE \in Matches(a, Grammars)
  /\ UNCHANGED <<grammar, buffer, count>>

\* The grammar has been stored in the chart, and nothing counted.
RefuseBuffer(c, a, b) ==
  /\ CallChart(c, a, b)
  /\ TRUE \in Matches(a, Grammars) /\ FALSE \in Matches(b, Buffers)
  /\ grammar' = [grammar EXCEPT ![c] = a]
  /\ UNCHANGED <<buffer, count>>

\* Evaluator::__construct($chart, $context); charts are of an internal class,
\* which is not cached.
CallEvaluator(e, a, b) ==
  /\ {e, a, b} \subseteq held \cap Alive
  /\ chart[e] = Null
  /\ Fetch
  /\ UNCHANGED <<made, held, grammar, buffer>>

\* Mutant of ConstructEvaluator: the context is not retained.
ConstructBorrowing(e, a, b) ==
  /\ CallEvaluator(e, a, b)
  /\ a \in Charts /\ TRUE \in Matches(b, Contexts)
  /\ chart' = [chart EXCEPT ![e] = a]
  /\ context' = [context EXCEPT ![e] = b]
  /\ count' = AddRef(count, a)

ConstructEvaluator(e, a, b) ==
  /\ CallEvaluator(e, a, b)
  /\ a \in Charts /\ TRUE \in Matches(b, Contexts)
  /\ chart' = [chart EXCEPT ![e] = a]
  /\ context' = [context EXCEPT ![e] = b]
  /\ count' = AddRef(AddRef(count, a), b)

\* The chart is parsed into a local variable, the context last.
RefuseEvaluator(e, a, b) ==
  /\ CallEvaluator(e, a, b)
  /\ a \notin Charts \/ FALSE \in Matches(b, Contexts)
  /\ UNCHANGED <<chart, context, count>>

\* The request ends: what is left of its objects goes, and with them its
\* userland classes.  RSHUTDOWN does nothing.
NextRequest ==
  /\ request < MaxRequests
  /\ request' = request + 1
  /\ fetched' = 0
  /\ Blank
  /\ UNCHANGED cached

Next ==
  \/ \E o \in Objects : Create(o) \/ Drop(o)
  \/ \E c \in Charts, a \in Objects, b \in Objects :
       ConstructChart(c, a, b) \/ RefuseGrammar(c, a, b) \/ RefuseBuffer(c, a, b)
  \/ \E e \in Evaluators, a \in Objects, b \in Objects :
       ConstructEvaluator(e, a, b) \/ RefuseEvaluator(e, a, b)
  \/ NextRequest

Spec == Init /\ [][Next]_vars

-----------------------------------------------------------------------------
(* Properties                                                              *)

\* The type invariant: pointers lead to objects of the declared classes.
TypeOK ==
  /\ count \in [Objects -> Int]
  /\ held \subseteq made /\ made \subseteq Objects
  /\ grammar \in [Charts -> Grammars \cup {Null}]
  /\ buffer \in [Charts -> Buffers \cup {Null}]
  /\ chart \in [Evaluators -> Charts \cup {Null}]
  /\ context \in [Evaluators -> Contexts \cup {Null}]
  /\ request \in 1..MaxRequests
  /\ {cached, fetched} \subseteq 0..MaxRequests

\* The number of references to an object: the program's and those in the charts
\* and evaluators that are alive.
Holders(o) ==
  Cardinality({"variable"} \cap {IF o \in held THEN "variable" ELSE "none"})
    + Cardinality({c \in Charts \cap Alive : grammar[c] = o})
    + Cardinality({c \in Charts \cap Alive : buffer[c] = o})
    + Cardinality({e \in Evaluators \cap Alive : chart[e] = o})
    + Cardinality({e \in Evaluators \cap Alive : context[e] = o})

\* A chart whose constructor took the grammar and refused the buffer.
Refused(c) == grammar[c] # Null /\ buffer[c] = Null

\* create, __construct and free agree about the references they count: whatever
\* is shared between charts and evaluators, and whichever goes first, the count of
\* an object is the number of references to it, until a buffer is refused.
CountsExact ==
  (\A c \in Charts : ~ Refused(c)) => \A o \in made : count[o] = Holders(o)

\* The objects an object refers to.
Inside(o) ==
  IF o \in Charts THEN {grammar[o], buffer[o]} \ {Null}
  ELSE IF o \in Evaluators THEN {chart[o], context[o]} \ {Null} ELSE {}

Within(set) == set \cup UNION {Inside(o) : o \in set}

\* Whatever is refused, nothing outlives the program's use of it: no object is
\* counted more often than it is referred to, and none is alive that the program
\* cannot reach.
NothingOutlives ==
  /\ \A o \in made : count[o] <= Holders(o)
  /\ Alive \subseteq Within(Within(held))

\* An object the program has a variable for is alive.
HeldAlive == \A o \in held : count[o] > 0

\* A method of the extension sees the classes of the request it is called in.
ClassesCurrent == fetched # 0 => fetched = request
=============================================================================
