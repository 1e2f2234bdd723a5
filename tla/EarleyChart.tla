---------------------------- MODULE EarleyChart ----------------------------
(***************************************************************************)
(* pharos\phathom\Earley\Chart: the constructor that builds the whole      *)
(* chart (src/earley/chart.c).                                             *)
(*                                                                         *)
(* One action is one pass of one loop.  php_phathom_earley_chart_add calls *)
(* complete and drain, which loop over a table and call add again while    *)
(* that same table grows; the C call stack is the variable work.  A frame  *)
(* of work is the list of add calls one such loop has still to make: the   *)
(* loop iterates over a snapshot (PHP_PHATHOM_HASH_FOREACH_CURRENT), so    *)
(* the list is fixed when the loop starts.                                 *)
(*                                                                         *)
(* Not represented: the buffer offset carried from one scan to the next,   *)
(* and the exception a scan may leave pending, which construct does not    *)
(* look at (it takes the same path as a scan that matches nothing).        *)
(***************************************************************************)
EXTENDS Grammar, Language, Backs

CONSTANT MaxTokens   \* bound of the model: tokens in the input

ASSUME MaxTokensAssumption == MaxTokens \in Nat

VARIABLES
  grammar,   \* chart->grammar
  path,      \* chart->path: position -> items, in the order they were added
  backs,     \* chart->index: item -> the sequence item->backs
  waiting,   \* chart->waiting: <<position, name>> -> items dotted at name
  nullable,  \* chart->nullable: <<position, rule>> -> items that span nothing
  tokens,    \* chart->tokens: the types of the tokens scanned
  work,      \* the loops now running, innermost first: add calls to make
  i,         \* the position construct is at
  cursor,    \* the index of the loop over path[i]
  expected,  \* the terminals collected for the next scan
  limit,     \* chart->limit
  pc         \* the loop construct is in

vars == <<grammar, path, backs, waiting, nullable, tokens,
          work, i, cursor, expected, limit, pc>>

tables == <<path, backs, waiting, nullable>>

Labels == {"start", "loop", "visit", "scan", "advance", "finish", "done"}

-----------------------------------------------------------------------------
(* Tables of lists.  A table that was never created reads as an empty one. *)

Lookup(table, key) == IF key \in DOMAIN table THEN table[key] ELSE << >>

Ensure(table, key) == [k \in DOMAIN table \cup {key} |-> Lookup(table, k)]

Push(table, key, item) ==
  [k \in DOMAIN table \cup {key} |->
     IF k = key THEN Append(Lookup(table, k), item) ELSE table[k]]

EmptyTable == [k \in {} |-> << >>]

-----------------------------------------------------------------------------
(* The add calls the loops make.                                           *)

AddCall == [item : Item, backs : Seq(Back)]

AddPredicted(r, k, p) == [item |-> Predicted(r, k, p), backs |-> << >>]

\* Mutant of AddJoined: the item is added where its child begins.
AddJoinedAtOrigin(w, c) ==
  [item |-> Advanced(w, c.origin), backs |-> <<ChildBack(w, c)>>]

AddJoined(w, c)   == [item |-> Advanced(w, c.pos), backs |-> <<ChildBack(w, c)>>]
AddScanned(w, ti) == [item |-> Advanced(w, w.pos + 1), backs |-> <<TokenBack(w, ti)>>]

\* predict, and the loop of start: every alternative of rule r, if r exists
Predictions(r, p) ==
  IF r \in DOMAIN grammar.rules
  THEN [k \in 1..Len(grammar.rules[r]) |-> AddPredicted(r, k, p)]
  ELSE << >>

\* Mutant of Completions: looks where the item ends.
CompletionsAtEnd(c, table) ==
  LET ws == Lookup(table, <<c.pos, c.rule>>)
  IN  [k \in 1..Len(ws) |-> AddJoined(ws[k], c)]

\* complete: every item that waits where c begins for the rule of c
Completions(c, table) ==
  LET ws == Lookup(table, <<c.origin, c.rule>>)
  IN  [k \in 1..Len(ws) |-> AddJoined(ws[k], c)]

\* drain: every item already completed, spanning nothing, that w waits for
Drained(w, table) ==
  LET cs == Lookup(table, <<w.pos, Dotted(grammar, w)>>)
  IN  [k \in 1..Len(cs) |-> AddJoined(w, cs[k])]

-----------------------------------------------------------------------------
Init ==
  /\ grammar \in Grammars
  /\ path = EmptyTable
  /\ backs = EmptyTable
  /\ waiting = EmptyTable
  /\ nullable = EmptyTable
  /\ tokens = << >>
  /\ work = << >>
  /\ i = 0
  /\ cursor = 1
  /\ expected = {}
  /\ limit = 0
  /\ pc = "start"

-----------------------------------------------------------------------------
(* php_phathom_earley_chart_add, called by the innermost loop.             *)

Call == Head(Head(work))
Rest == <<Tail(Head(work))>> \o Tail(work)

Calling == work # << >> /\ Head(work) # << >>

Unmoved == UNCHANGED <<grammar, tokens, i, cursor, expected, limit, pc>>

\* Mutant of AddMerge: the new back pointer is dropped.
AddMergeNothing ==
  /\ Calling
  /\ Call.item \in DOMAIN backs
  /\ work' = Rest
  /\ UNCHANGED tables
  /\ Unmoved

\* The item is in the chart: only its new back pointer is kept.
AddMerge ==
  /\ Calling
  /\ Call.item \in DOMAIN backs
  /\ backs' = [backs EXCEPT ![Call.item] = @ \o Call.backs]
  /\ work' = Rest
  /\ UNCHANGED <<path, waiting, nullable>>
  /\ Unmoved

AddNew ==
  /\ Calling
  /\ Call.item \notin DOMAIN backs
  /\ backs' = [x \in DOMAIN backs \cup {Call.item} |->
                 IF x = Call.item THEN Call.backs ELSE backs[x]]
  /\ path' = Push(path, Call.item.pos, Call.item)
  /\ Unmoved

\* Completed over at least one token: left to the loop of construct.
AddCompleted ==
  /\ AddNew
  /\ Completed(grammar, Call.item)
  /\ Call.item.origin # Call.item.pos
  /\ work' = Rest
  /\ UNCHANGED <<waiting, nullable>>

\* Mutant of AddNullable: completion is left to the loop of construct.
AddNullableLater ==
  /\ AddNew
  /\ Completed(grammar, Call.item)
  /\ Call.item.origin = Call.item.pos
  /\ nullable' = Push(nullable, <<Call.item.pos, Call.item.rule>>, Call.item)
  /\ work' = Rest
  /\ UNCHANGED waiting

\* Completed over nothing: recorded as nullable and completed at once.
AddNullable ==
  /\ AddNew
  /\ Completed(grammar, Call.item)
  /\ Call.item.origin = Call.item.pos
  /\ nullable' = Push(nullable, <<Call.item.pos, Call.item.rule>>, Call.item)
  /\ work' = <<Completions(Call.item, waiting)>> \o Rest
  /\ UNCHANGED waiting

\* Mutant of AddWaiting: the nullable items are not drained.
AddWaitingOnly ==
  /\ AddNew
  /\ ~ Completed(grammar, Call.item)
  /\ waiting' = Push(waiting, <<Call.item.pos, Dotted(grammar, Call.item)>>, Call.item)
  /\ work' = Rest
  /\ UNCHANGED nullable

\* Dotted at a symbol: recorded as waiting, then advanced over what is
\* already known to span nothing here.
AddWaiting ==
  /\ AddNew
  /\ ~ Completed(grammar, Call.item)
  /\ waiting' = Push(waiting, <<Call.item.pos, Dotted(grammar, Call.item)>>, Call.item)
  /\ work' = <<Drained(Call.item, nullable)>> \o Rest
  /\ UNCHANGED nullable

\* The innermost loop has made all its calls.
Return ==
  /\ work # << >>
  /\ Head(work) = << >>
  /\ work' = Tail(work)
  /\ UNCHANGED tables
  /\ Unmoved

-----------------------------------------------------------------------------
(* php_phathom_earley_chart_construct                                      *)

Start ==
  /\ pc = "start"
  /\ work' = <<Predictions(grammar.start, 0)>>
  /\ pc' = "loop"
  /\ UNCHANGED <<grammar, tokens, i, cursor, expected, limit>>
  /\ UNCHANGED tables

\* The head of the loop over positions.
Loop ==
  /\ pc = "loop" /\ work = << >>
  /\ IF i \in DOMAIN path
     THEN pc' = "visit" /\ cursor' = 1 /\ expected' = {}
     ELSE pc' = "finish" /\ UNCHANGED <<cursor, expected>>
  /\ UNCHANGED <<grammar, tokens, work, i, limit>>
  /\ UNCHANGED tables

Visiting == pc = "visit" /\ work = << >> /\ cursor <= Len(path[i])

Current == path[i][cursor]

Visited ==
  /\ cursor' = cursor + 1
  /\ UNCHANGED <<grammar, tokens, i, limit, pc>>
  /\ UNCHANGED tables

\* Mutant of SkipNullable: the item is completed a second time.
CompleteNullable ==
  /\ Visiting
  /\ Completed(grammar, Current) /\ Current.origin = i
  /\ Visited
  /\ work' = <<Completions(Current, waiting)>>
  /\ UNCHANGED expected

\* Completed here over nothing: add has dealt with it.
SkipNullable ==
  /\ Visiting
  /\ Completed(grammar, Current) /\ Current.origin = i
  /\ Visited
  /\ UNCHANGED <<work, expected>>

Complete ==
  /\ Visiting
  /\ Completed(grammar, Current) /\ Current.origin # i
  /\ Visited
  /\ work' = <<Completions(Current, waiting)>>
  /\ UNCHANGED expected

Expect ==
  /\ Visiting
  /\ Dotted(grammar, Current) \in Terminals
  /\ Visited
  /\ expected' = expected \cup {Dotted(grammar, Current)}
  /\ UNCHANGED work

Predict ==
  /\ Visiting
  /\ Dotted(grammar, Current) \in Names
  /\ Visited
  /\ work' = <<Predictions(Dotted(grammar, Current), i)>>
  /\ UNCHANGED expected

\* Every item of path[i] has been visited, those added meanwhile included.
Leave ==
  /\ pc = "visit" /\ work = << >> /\ cursor > Len(path[i])
  /\ pc' = IF expected = {} THEN "finish" ELSE "scan"
  /\ UNCHANGED <<grammar, tokens, work, i, cursor, expected, limit>>
  /\ UNCHANGED tables

\* The scanner returns a token.  It is given the expected terminals, but the
\* chart checks nothing: the type may be any terminal.
ScanToken(t) ==
  /\ pc = "scan" /\ Len(tokens) < MaxTokens
  /\ tokens' = Append(tokens, t)
  /\ path' = Ensure(path, i + 1)
  /\ pc' = "advance"
  /\ cursor' = 1
  /\ UNCHANGED <<grammar, backs, waiting, nullable, work, i, expected, limit>>

\* The scanner returns null, or throws.
ScanNothing ==
  /\ pc = "scan"
  /\ pc' = "finish"
  /\ UNCHANGED <<grammar, tokens, work, i, cursor, expected, limit>>
  /\ UNCHANGED tables

\* Mutants of Advance: the token is not compared; the loop stays at an item
\* the token does not match.
AdvanceAny ==
  /\ pc = "advance" /\ work = << >> /\ cursor <= Len(path[i])
  /\ work' = IF Dotted(grammar, Current) \in Terminals
             THEN << <<AddScanned(Current, Len(tokens) - 1)>> >>
             ELSE << >>
  /\ cursor' = cursor + 1
  /\ UNCHANGED <<grammar, tokens, i, expected, limit, pc>>
  /\ UNCHANGED tables

AdvanceStuck ==
  /\ pc = "advance" /\ work = << >> /\ cursor <= Len(path[i])
  /\ LET match == Dotted(grammar, Current) = tokens[Len(tokens)]
     IN  /\ work' = IF match THEN << <<AddScanned(Current, Len(tokens) - 1)>> >>
                             ELSE << >>
         /\ cursor' = IF match THEN cursor + 1 ELSE cursor
  /\ UNCHANGED <<grammar, tokens, i, expected, limit, pc>>
  /\ UNCHANGED tables

\* The loop over path[position] in scan; its calls add at position + 1 only.
Advance ==
  /\ pc = "advance" /\ work = << >> /\ cursor <= Len(path[i])
  /\ LET ti == Len(tokens) - 1
     IN  work' = IF Dotted(grammar, Current) = tokens[ti + 1]
                 THEN << <<AddScanned(Current, ti)>> >>
                 ELSE << >>
  /\ cursor' = cursor + 1
  /\ UNCHANGED <<grammar, tokens, i, expected, limit, pc>>
  /\ UNCHANGED tables

NextPosition ==
  /\ pc = "advance" /\ work = << >> /\ cursor > Len(path[i])
  /\ i' = i + 1
  /\ pc' = "loop"
  /\ UNCHANGED <<grammar, tokens, work, cursor, expected, limit>>
  /\ UNCHANGED tables

\* Mutant of Finish: the index of the last token.
FinishAtLast ==
  /\ pc = "finish"
  /\ limit' = Len(tokens) - 1
  /\ pc' = "done"
  /\ UNCHANGED <<grammar, tokens, work, i, cursor, expected>>
  /\ UNCHANGED tables

\* The scanner is called once more, expecting nothing, and its result dropped.
Finish ==
  /\ pc = "finish"
  /\ limit' = Len(tokens)
  /\ pc' = "done"
  /\ UNCHANGED <<grammar, tokens, work, i, cursor, expected>>
  /\ UNCHANGED tables

-----------------------------------------------------------------------------
Add == AddMerge \/ AddCompleted \/ AddNullable \/ AddWaiting

Next ==
  \/ Add \/ Return
  \/ Start \/ Loop \/ SkipNullable \/ Complete \/ Expect \/ Predict \/ Leave
  \/ \E t \in Terminals : ScanToken(t)
  \/ ScanNothing \/ Advance \/ NextPosition \/ Finish

\* The constructor runs to its end in one thread: a step that can be taken is.
Fairness == WF_vars(Next)

Spec == Init /\ [][Next]_vars /\ Fairness

-----------------------------------------------------------------------------
(* Properties                                                              *)

IsTable(table, Keys) ==
  /\ DOMAIN table \subseteq Keys
  /\ table \in [DOMAIN table -> Seq(Item)]

\* The type invariant: the shape of every table of the chart, and of the
\* calls the running loops have still to make.
TypeOK ==
  /\ grammar \in Grammars
  /\ IsTable(path, Nat)
  /\ DOMAIN backs \subseteq Item /\ backs \in [DOMAIN backs -> Seq(Back)]
  /\ IsTable(waiting, Nat \X Symbols)
  /\ IsTable(nullable, Nat \X Names)
  /\ tokens \in Seq(Terminals)
  /\ work \in Seq(Seq(AddCall))
  /\ i \in Nat
  /\ cursor \in Nat
  /\ expected \subseteq Terminals
  /\ limit \in Nat
  /\ pc \in Labels

Items == DOMAIN backs
Edges == UNION {{it} \X Range(backs[it]) : it \in Items}

Abs == INSTANCE EarleyDeduction WITH items <- Items, edges <- Edges

(***************************************************************************)
(* The inductive invariant that soundness rests on.                        *)
(***************************************************************************)

\* The item has an alternative of a rule of the grammar, dotted within it.
Legal(g, it) ==
  /\ it.rule \in DOMAIN g.rules
  /\ it.alt \in 1..Len(g.rules[it.rule])
  /\ it.dot \in 0..Len(SymbolsOf(g, it))

\* The position items are being added at.
Here == IF pc = "advance" THEN i + 1 ELSE i

DueToPredict(g, its, c) ==
  /\ c = AddPredicted(c.item.rule, c.item.alt, c.item.pos)
  /\ \/ c.item.rule = g.start /\ c.item.pos = 0
     \/ \E w \in its : w.pos = c.item.pos /\ Dotted(g, w) = c.item.rule

DueToJoin(g, its, c) ==
  \E w, d \in its :
    /\ Completed(g, d) /\ Dotted(g, w) = d.rule /\ w.pos = d.origin
    /\ c = AddJoined(w, d)

DueToScan(g, ts, its, c) ==
  \E w \in its :
    /\ w.pos < Len(ts) /\ Dotted(g, w) = ts[w.pos + 1]
    /\ c = AddScanned(w, w.pos)

\* The add calls at position p that Earley's rules justify.
Due(g, ts, its, p) ==
  {c \in AddCall :
     /\ Legal(g, c.item) /\ c.item.pos = p
     /\ \/ DueToPredict(g, its, c)
        \/ DueToJoin(g, its, c)
        \/ DueToScan(g, ts, its, c)}

PathItems(its, p)        == {it \in its : it.pos = p}
WaitingItems(g, its, key) == {it \in its : it.pos = key[1] /\ Dotted(g, it) = key[2]}
NullableItems(g, its, key) ==
  {it \in its : /\ it.pos = key[1] /\ it.origin = key[1]
                /\ it.rule = key[2] /\ Completed(g, it)}

TablesAgree ==
  /\ \A it \in Items : Legal(grammar, it)
  /\ \A p \in DOMAIN path : path[p] \in Seq(PathItems(Items, p))
  /\ \A key \in DOMAIN waiting :
       waiting[key] \in Seq(WaitingItems(grammar, Items, key))
  /\ \A key \in DOMAIN nullable :
       nullable[key] \in Seq(NullableItems(grammar, Items, key))

CallsDue == work \in Seq(Seq(Due(grammar, tokens, Items, Here)))

ControlOK ==
  /\ cursor >= 1
  /\ pc = "start" => i = 0
  /\ pc \in {"start", "scan", "finish", "done"} => work = << >>
  /\ pc \in {"visit", "scan", "advance"} => i \in DOMAIN path
  /\ pc \in {"start", "loop", "visit", "scan"} => Len(tokens) = i
  /\ pc = "advance" => Len(tokens) = i + 1

\* The index, the path and the waiting and nullable tables describe the same
\* items, each under the key a lookup expects, and every add call the running
\* loops have still to make is justified by items that are in the chart, at
\* the position construct is filling.
ChartInvariant == TablesAgree /\ CallsDue /\ ControlOK

\* Every item and every back pointer the nested add, complete and drain calls
\* leave in the chart is one that Earley's rules deduce from the tokens: the
\* chart implements the deduction system, whatever order the loops run in.
ImplementsDeduction == Abs!Spec

\* Between positions every consequence has been drawn: although complete and
\* drain iterate over snapshots of tables that grow under them, nothing that
\* can be predicted, completed or scanned has been missed, and the scanner is
\* given exactly the terminals that can come next.
ChartComplete ==
  /\ pc \in {"scan", "finish"} => Abs!Saturated
  /\ pc = "scan" =>
       expected = {Dotted(grammar, it) : it \in Range(path[i])} \cap Terminals

\* What the evaluator needs to choose among the derivations of an item by the
\* child it picks: one back pointer per child, so that a derivation found by
\* two loops (drain and complete) is recorded once, and no token pointer among
\* several, since the evaluator reads the rule of each child.
BacksSelectable ==
  \A it \in DOMAIN backs : \A m, n \in 1..Len(backs[it]) :
    m # n => /\ backs[it][m].child # Null
             /\ backs[it][m].child # backs[it][n].child

\* An evaluator that fetches the back pointers of an item by their index reads
\* those add gave it, in that order: growing from the inline one to an array,
\* and from one array to the next, loses none and leaves no entry unwritten.
BacksStored ==
  pc = "done" =>
    \A it \in DOMAIN backs : Listed(Stored(backs[it])) = backs[it]

PastKept ==
  /\ \A p \in DOMAIN path :
       p < i \/ (p = i /\ pc = "advance") => path'[p] = path[p]
  /\ \A key \in DOMAIN waiting : key[1] < i => waiting'[key] = waiting[key]
  /\ \A key \in DOMAIN nullable : key[1] < i => nullable'[key] = nullable[key]
  /\ \A it \in DOMAIN backs : it.pos < i => backs'[it] = backs[it]

\* The tables of the positions before i never change again, and neither does
\* path[i] once scan loops over it: what a completion reads of an earlier
\* position is the same whenever it is read.
PastFrozen == [][PastKept]_vars

\* Whether the chart holds a completed start rule that spans the whole input.
Accepts ==
  \E it \in Range(Lookup(path, limit)) :
    it.rule = grammar.start /\ it.origin = 0 /\ Completed(grammar, it)

\* The constructor accepts an input exactly when the grammar derives it, and
\* completes a rule over a span only when the rule derives that span.
AcceptsLanguage ==
  pc = "done" =>
    /\ Accepts <=> Sentence(grammar, tokens)
    /\ \A it \in DOMAIN backs : Completed(grammar, it) =>
         <<it.rule, it.origin, it.pos>> \in Spans(grammar, tokens)

\* The constructor returns: left recursion, cycles among rules and rules that
\* derive nothing do not make complete and drain call each other for ever.
Termination == <>(pc = "done")
=============================================================================
