------------------------- MODULE EarleyChartProofs -------------------------
(***************************************************************************)
(* What is proved of EarleyChart, for every grammar, input and bound.      *)
(***************************************************************************)
EXTENDS EarleyChart, SharedProofs

Inv == TypeOK /\ ChartInvariant

-----------------------------------------------------------------------------
(* Items                                                                   *)

\* A legal item has a dot before a symbol of the grammar, or behind the last.
LEMMA DottedType ==
  ASSUME NEW g \in Grammars, NEW it \in Item, Legal(g, it)
  PROVE  /\ Dotted(g, it) \in Symbols \cup {Null}
         /\ Dotted(g, it) # Null => it.dot < Len(SymbolsOf(g, it))
         /\ Completed(g, it) <=> it.dot = Len(SymbolsOf(g, it))
<1>1. g.rules[it.rule] \in Seq(Alternatives)
  BY GrammarAssumption DEF Legal
<1>2. g.rules[it.rule][it.alt] \in Alternatives
  BY <1>1, ElementOfSeq DEF Legal
<1>3. SymbolsOf(g, it) \in Seq(Symbols)
  BY <1>2, GrammarAssumption DEF SymbolsOf
<1>4. it.dot < Len(SymbolsOf(g, it)) => SymbolsOf(g, it)[it.dot + 1] \in Symbols
  <2>1. SUFFICES ASSUME it.dot < Len(SymbolsOf(g, it))
                 PROVE  it.dot + 1 \in 1..Len(SymbolsOf(g, it))
    BY <1>3, ElementOfSeq
  <2>2. Len(SymbolsOf(g, it)) \in Nat
    BY <1>3, LenProperties
  <2> QED BY <2>1, <2>2 DEF Item
<1>5. Len(SymbolsOf(g, it)) \in Nat
  BY <1>3, LenProperties
<1>6. Null \notin Symbols
  BY GrammarAssumption
<1> QED BY <1>4, <1>5, <1>6 DEF Dotted, Completed, Item, Legal

\* Moving the dot of a legal item over its dotted symbol keeps it legal.
LEMMA AdvancedLegal ==
  ASSUME NEW g \in Grammars, NEW w \in Item, Legal(g, w), ~ Completed(g, w),
         NEW p \in Nat
  PROVE  /\ Advanced(w, p) \in Item
         /\ Legal(g, Advanced(w, p))
         /\ Advanced(w, p).pos = p
<1>1. w.dot < Len(SymbolsOf(g, w))
  BY DottedType DEF Completed
<1>2. /\ Advanced(w, p) \in Item
      /\ Advanced(w, p).pos = p
      /\ Advanced(w, p).rule = w.rule
      /\ Advanced(w, p).alt = w.alt
      /\ Advanced(w, p).dot = w.dot + 1
  BY DEF Advanced, Item
<1>3. SymbolsOf(g, Advanced(w, p)) = SymbolsOf(g, w)
  BY <1>2 DEF SymbolsOf
<1> QED BY <1>1, <1>2, <1>3 DEF Legal, Item

\* Calls stay due while items are added to the chart.
LEMMA DueMonotonic ==
  ASSUME NEW g, NEW ts, NEW p, NEW its, NEW its2, its \subseteq its2
  PROVE  Due(g, ts, its, p) \subseteq Due(g, ts, its2, p)
BY DEF Due, DueToPredict, DueToJoin, DueToScan

\* A list of lists over a set is one over any larger set.
LEMMA Seq2Monotonic ==
  ASSUME NEW S, NEW T, S \subseteq T, NEW s \in Seq(Seq(S))
  PROVE  s \in Seq(Seq(T))
<1>1. Seq(S) \subseteq Seq(T)
  BY SeqMonotonic
<1> QED BY <1>1, SeqMonotonic

-----------------------------------------------------------------------------
(* The calls of the loops are due                                          *)

\* A list over n entries, each in S.
LEMMA ListIsSeq ==
  ASSUME NEW S, NEW n \in Nat, NEW s, s = [k \in 1..n |-> s[k]],
         \A k \in 1..n : s[k] \in S
  PROVE  s \in Seq(S)
<1>1. s \in [1..n -> S]
  OBVIOUS
<1> QED BY <1>1, SeqDef

\* What complete calls: every waiting item joined with the completed one.
LEMMA CompletionsDue ==
  ASSUME NEW g \in Grammars, NEW ts, NEW its \in SUBSET Item,
         \A it \in its : Legal(g, it),
         NEW c \in its, Completed(g, c), NEW table,
         Lookup(table, <<c.origin, c.rule>>)
           \in Seq(WaitingItems(g, its, <<c.origin, c.rule>>))
  PROVE  Completions(c, table) \in Seq(Due(g, ts, its, c.pos))
<1> DEFINE ws == Lookup(table, <<c.origin, c.rule>>)
           cs == Completions(c, table)
<1>1. /\ Len(ws) \in Nat
      /\ \A k \in 1..Len(ws) : ws[k] \in WaitingItems(g, its, <<c.origin, c.rule>>)
  BY ElementOfSeq, LenProperties
<1>2. cs = [k \in 1..Len(ws) |-> AddJoined(ws[k], c)]
  BY DEF Completions
<1>3. ASSUME NEW w \in its, w.pos = c.origin, Dotted(g, w) = c.rule
      PROVE  AddJoined(w, c) \in Due(g, ts, its, c.pos)
  <2>1. c \in Item /\ w \in Item /\ c.rule \in Names /\ c.pos \in Nat
    BY DEF Item
  <2>2. ~ Completed(g, w)
    BY <1>3, <2>1, GrammarAssumption DEF Completed, Symbols
  <2>3. /\ Advanced(w, c.pos) \in Item
        /\ Legal(g, Advanced(w, c.pos))
        /\ Advanced(w, c.pos).pos = c.pos
    BY <2>1, <2>2, AdvancedLegal
  <2>4. ChildBack(w, c) \in Back
    BY <2>1 DEF ChildBack, Back
  <2>5. <<ChildBack(w, c)>> \in Seq(Back)
    BY <2>4
  <2>6. AddJoined(w, c) \in AddCall /\ AddJoined(w, c).item = Advanced(w, c.pos)
    BY <2>3, <2>5 DEF AddJoined, AddCall
  <2>7. DueToJoin(g, its, AddJoined(w, c))
    BY <1>3 DEF DueToJoin
  <2> QED BY <2>3, <2>6, <2>7 DEF Due
<1>4. \A k \in 1..Len(ws) : cs[k] \in Due(g, ts, its, c.pos)
  BY <1>1, <1>2, <1>3 DEF WaitingItems
<1> HIDE DEF ws, cs
<1>5. cs \in Seq(Due(g, ts, its, c.pos))
  BY <1>1, <1>2, <1>4, ListIsSeq
<1> QED BY <1>5 DEF cs

\* What drain calls: the new item joined with every item completed over
\* nothing where it stands.
LEMMA DrainedDue ==
  ASSUME grammar \in Grammars, NEW ts, NEW its \in SUBSET Item,
         \A it \in its : Legal(grammar, it),
         NEW w \in its, ~ Completed(grammar, w), NEW table,
         Lookup(table, <<w.pos, Dotted(grammar, w)>>)
           \in Seq(NullableItems(grammar, its, <<w.pos, Dotted(grammar, w)>>))
  PROVE  Drained(w, table) \in Seq(Due(grammar, ts, its, w.pos))
<1> DEFINE ds == Lookup(table, <<w.pos, Dotted(grammar, w)>>)
           cs == Drained(w, table)
<1>1. /\ Len(ds) \in Nat
      /\ \A k \in 1..Len(ds) :
           ds[k] \in NullableItems(grammar, its, <<w.pos, Dotted(grammar, w)>>)
  BY ElementOfSeq, LenProperties
<1>2. cs = [k \in 1..Len(ds) |-> AddJoined(w, ds[k])]
  BY DEF Drained
<1>3. ASSUME NEW d \in its, d.pos = w.pos, d.origin = w.pos,
             d.rule = Dotted(grammar, w), Completed(grammar, d)
      PROVE  AddJoined(w, d) \in Due(grammar, ts, its, w.pos)
  <2>1. d \in Item /\ w \in Item /\ w.pos \in Nat
    BY DEF Item
  <2>2. /\ Advanced(w, d.pos) \in Item
        /\ Legal(grammar, Advanced(w, d.pos))
        /\ Advanced(w, d.pos).pos = w.pos
    BY <1>3, <2>1, AdvancedLegal
  <2>3. ChildBack(w, d) \in Back
    BY <2>1 DEF ChildBack, Back
  <2>4. <<ChildBack(w, d)>> \in Seq(Back)
    BY <2>3
  <2>5. AddJoined(w, d) \in AddCall /\ AddJoined(w, d).item = Advanced(w, d.pos)
    BY <2>2, <2>4 DEF AddJoined, AddCall
  <2>6. DueToJoin(grammar, its, AddJoined(w, d))
    BY <1>3 DEF DueToJoin
  <2> QED BY <2>2, <2>5, <2>6 DEF Due
<1>4. \A k \in 1..Len(ds) : cs[k] \in Due(grammar, ts, its, w.pos)
  BY <1>1, <1>2, <1>3 DEF NullableItems
<1> HIDE DEF ds, cs
<1>5. cs \in Seq(Due(grammar, ts, its, w.pos))
  BY <1>1, <1>2, <1>4, ListIsSeq
<1> QED BY <1>5 DEF cs

\* What predict and start call: every alternative of a rule that is wanted.
LEMMA PredictionsDue ==
  ASSUME grammar \in Grammars, NEW ts, NEW its \in SUBSET Item,
         NEW r \in Names, NEW p \in Nat,
         \/ r = grammar.start /\ p = 0
         \/ \E w \in its : w.pos = p /\ Dotted(grammar, w) = r
  PROVE  Predictions(r, p) \in Seq(Due(grammar, ts, its, p))
<1>1. CASE r \notin DOMAIN grammar.rules
  BY <1>1, EmptySeq DEF Predictions
<1>2. CASE r \in DOMAIN grammar.rules
  <2> DEFINE n  == Len(grammar.rules[r])
             cs == Predictions(r, p)
  <2>1. n \in Nat /\ grammar.rules[r] \in Seq(Alternatives)
    BY <1>2, GrammarAssumption, LenProperties
  <2>2. cs = [k \in 1..n |-> AddPredicted(r, k, p)]
    BY <1>2 DEF Predictions
  <2>3. ASSUME NEW k \in 1..n
        PROVE  AddPredicted(r, k, p) \in Due(grammar, ts, its, p)
    <3> DEFINE c == AddPredicted(r, k, p)
    <3>1. /\ c.item \in Item /\ c.backs = << >>
          /\ c.item.rule = r /\ c.item.alt = k /\ c.item.pos = p /\ c.item.dot = 0
      BY <2>1 DEF AddPredicted, Predicted, Item
    <3>2. c \in AddCall
      BY <3>1, EmptySeq DEF AddPredicted, AddCall
    <3>3. Len(SymbolsOf(grammar, c.item)) \in Nat
      <4>1. grammar.rules[r][k] \in Alternatives
        BY <2>1, ElementOfSeq
      <4> QED BY <4>1, <3>1, GrammarAssumption, LenProperties DEF SymbolsOf
    <3>4. Legal(grammar, c.item)
      BY <1>2, <3>1, <3>3 DEF Legal
    <3>5. DueToPredict(grammar, its, c)
      <4>1. c = AddPredicted(c.item.rule, c.item.alt, c.item.pos)
        BY <3>1
      <4> HIDE DEF c
      <4> QED BY <3>1, <4>1 DEF DueToPredict
    <3> HIDE DEF c
    <3>6. c \in Due(grammar, ts, its, p)
      BY <3>1, <3>2, <3>4, <3>5 DEF Due
    <3> QED BY <3>6 DEF c
  <2>4. \A k \in 1..n : cs[k] \in Due(grammar, ts, its, p)
    BY <2>2, <2>3
  <2> HIDE DEF n, cs
  <2>5. cs \in Seq(Due(grammar, ts, its, p))
    BY <2>1, <2>2, <2>4, ListIsSeq
  <2> QED BY <2>5 DEF cs
<1> QED BY <1>1, <1>2

-----------------------------------------------------------------------------
(* The invariant                                                           *)

LEMMA InitInv == Init => Inv
<1> SUFFICES ASSUME Init PROVE Inv
  OBVIOUS
<1>1. /\ DOMAIN path = {} /\ DOMAIN backs = {}
      /\ DOMAIN waiting = {} /\ DOMAIN nullable = {}
      /\ path = [k \in {} |-> << >>] /\ backs = [k \in {} |-> << >>]
      /\ waiting = [k \in {} |-> << >>] /\ nullable = [k \in {} |-> << >>]
  BY DEF Init, EmptyTable
<1>2. TypeOK
  BY <1>1 DEF Init, TypeOK, IsTable, Labels
<1>3. TablesAgree
  BY <1>1 DEF TablesAgree, Items
<1>4. CallsDue /\ ControlOK
  BY DEF Init, CallsDue, ControlOK
<1> QED BY <1>2, <1>3, <1>4 DEF Inv, ChartInvariant

\* What a list under any key of a table holds, once item is pushed under key.
LEMMA PushSeq ==
  ASSUME NEW table, NEW key, NEW item, NEW S, item \in S,
         key \in DOMAIN table => table[key] \in Seq(S)
  PROVE  Push(table, key, item)[key] \in Seq(S)
<1>1. Lookup(table, key) \in Seq(S)
  BY EmptySeq DEF Lookup
<1>2. Append(Lookup(table, key), item) \in Seq(S)
  BY <1>1, AppendProperties
<1> QED BY <1>2 DEF Push

\* A call about to be made is due, and so are the calls that remain.
LEMMA CallingDue ==
  ASSUME Inv, Calling
  PROVE  /\ Call \in Due(grammar, tokens, Items, Here)
         /\ Rest \in Seq(Seq(Due(grammar, tokens, Items, Here)))
         /\ Call.item \in Item /\ Call.backs \in Seq(Back)
         /\ Legal(grammar, Call.item) /\ Call.item.pos = Here
<1> DEFINE D == Due(grammar, tokens, Items, Here)
<1>1. work \in Seq(Seq(D)) /\ work # << >> /\ Head(work) # << >>
  BY DEF Inv, ChartInvariant, CallsDue, Calling
<1>2. Head(work) \in Seq(D) /\ Tail(work) \in Seq(Seq(D))
  BY <1>1, HeadTailProperties
<1>3. Head(Head(work)) \in D /\ Tail(Head(work)) \in Seq(D)
  BY <1>1, <1>2, HeadTailProperties
<1>4. <<Tail(Head(work))>> \in Seq(Seq(D))
  BY <1>3
<1>5. <<Tail(Head(work))>> \o Tail(work) \in Seq(Seq(D))
  BY <1>2, <1>4, ConcatProperties
<1> QED BY <1>3, <1>5 DEF Call, Rest, Due, AddCall

\* The index is a set of typed items, whose calls are legal.
LEMMA InvItems ==
  ASSUME Inv
  PROVE  /\ Items \in SUBSET Item
         /\ \A it \in Items : Legal(grammar, it)
         /\ grammar \in Grammars
         /\ Here \in Nat
BY DEF Inv, TypeOK, ChartInvariant, TablesAgree, Items, Here

\* Calls still to be made stay due when the chart grows and nothing else moves.
LEMMA CallsStayDue ==
  ASSUME Items \subseteq Items', UNCHANGED <<grammar, tokens, i, pc>>,
         NEW ws \in Seq(Seq(Due(grammar, tokens, Items, Here)))
  PROVE  ws \in Seq(Seq(Due(grammar', tokens', Items', Here')))
<1>1. Here' = Here
  BY DEF Here
<1>2. Due(grammar, tokens, Items, Here) \subseteq Due(grammar', tokens', Items', Here')
  BY <1>1, DueMonotonic
<1> QED BY <1>2, Seq2Monotonic

LEMMA AddMergeInv == ASSUME Inv, AddMerge PROVE Inv'
<1>1. /\ Call.item \in Items /\ Call.backs \in Seq(Back)
      /\ Rest \in Seq(Seq(Due(grammar, tokens, Items, Here)))
  BY CallingDue DEF AddMerge, Items
<1>2. backs[Call.item] \in Seq(Back)
  BY <1>1 DEF Inv, TypeOK, Items
<1>3. backs[Call.item] \o Call.backs \in Seq(Back)
  BY <1>1, <1>2, ConcatProperties
<1>4. /\ DOMAIN backs' = DOMAIN backs
      /\ backs' \in [DOMAIN backs -> Seq(Back)]
  BY <1>3 DEF AddMerge, Inv, TypeOK
<1>5. Items' = Items
  BY <1>4 DEF Items
<1>6. work' \in Seq(Seq(Due(grammar', tokens', Items', Here')))
  BY <1>1, <1>5, CallsStayDue DEF AddMerge, Unmoved
<1>7. work' \in Seq(Seq(AddCall))
  BY <1>6, Seq2Monotonic DEF Due
<1>8. TypeOK'
  BY <1>4, <1>7 DEF Inv, TypeOK, AddMerge, Unmoved, IsTable
<1>9. TablesAgree'
  BY <1>5 DEF Inv, ChartInvariant, TablesAgree, AddMerge, Unmoved
<1>10. ControlOK'
  BY DEF Inv, ChartInvariant, ControlOK, AddMerge, Unmoved, Calling
<1> QED BY <1>6, <1>8, <1>9, <1>10 DEF Inv, ChartInvariant, CallsDue

\* What the three ways of adding a new item have in common.
LEMMA AddNewItem ==
  ASSUME Inv, AddNew
  PROVE  /\ Items' = Items \cup {Call.item}
         /\ Items' \in SUBSET Item
         /\ \A it \in Items' : Legal(grammar, it)
         /\ backs' \in [Items' -> Seq(Back)]
         /\ IsTable(path', Nat)
         /\ DOMAIN path \subseteq DOMAIN path'
         /\ \A p \in DOMAIN path' : path'[p] \in Seq(PathItems(Items', p))
         /\ ControlOK'
<1>1. /\ Call.item \in Item /\ Call.backs \in Seq(Back)
      /\ Legal(grammar, Call.item)
  BY CallingDue DEF AddNew
<1>2. /\ Items' = Items \cup {Call.item}
      /\ backs' \in [Items' -> Seq(Back)]
  BY <1>1 DEF Items, AddNew, Inv, TypeOK
<1>3. path' = Push(path, Call.item.pos, Call.item) /\ Call.item.pos \in Nat
  BY <1>1 DEF AddNew, Item
<1>4. DOMAIN path' = DOMAIN path \cup {Call.item.pos}
  BY <1>3 DEF Push
<1>5. ASSUME NEW p \in DOMAIN path'
      PROVE  path'[p] \in Seq(PathItems(Items', p))
  <2>1. p \in DOMAIN path => path[p] \in Seq(PathItems(Items', p))
    <3>1. PathItems(Items, p) \subseteq PathItems(Items', p)
      BY <1>2 DEF PathItems
    <3> QED BY <3>1, SeqMonotonic DEF Inv, ChartInvariant, TablesAgree
  <2>2. CASE p = Call.item.pos
    <3>1. Call.item \in PathItems(Items', p)
      BY <1>2, <2>2 DEF PathItems
    <3> QED BY <1>3, <2>1, <2>2, <3>1, PushSeq
  <2>3. CASE p # Call.item.pos
    <3>1. p \in DOMAIN path
      BY <1>4, <2>3
    <3>2. path'[p] = path[p]
      BY <1>3, <2>3, <3>1 DEF Push
    <3> QED BY <2>1, <3>1, <3>2
  <2> QED BY <2>2, <2>3
<1>6. Items' \in SUBSET Item
  BY <1>1, <1>2, InvItems
<1>7. \A p \in DOMAIN path' : path'[p] \in Seq(Item)
  <2> SUFFICES ASSUME NEW p \in DOMAIN path' PROVE path'[p] \in Seq(Item)
    OBVIOUS
  <2>1. PathItems(Items', p) \subseteq Item
    BY <1>6 DEF PathItems
  <2> QED BY <1>5, <2>1, SeqMonotonic
<1>8. IsTable(path', Nat)
  <2>1. DOMAIN path' \subseteq Nat
    BY <1>3, <1>4 DEF Inv, TypeOK, IsTable
  <2>2. path' = [p \in DOMAIN path' |-> path'[p]]
    BY <1>3, <1>4 DEF Push
  <2> QED BY <1>7, <2>1, <2>2 DEF IsTable
<1>9. ControlOK'
  BY <1>4 DEF Inv, ChartInvariant, ControlOK, AddNew, Unmoved, Calling
<1>10. \A it \in Items' : Legal(grammar, it)
  BY <1>1, <1>2, InvItems
<1> QED BY <1>2, <1>4, <1>5, <1>6, <1>8, <1>9, <1>10

\* The lists of a table that does not change hold items that stay in the chart.
LEMMA WaitingStays ==
  ASSUME Inv, Items \subseteq Items', UNCHANGED <<grammar, waiting>>,
         NEW key \in DOMAIN waiting'
  PROVE  waiting'[key] \in Seq(WaitingItems(grammar', Items', key))
<1>1. WaitingItems(grammar, Items, key) \subseteq WaitingItems(grammar', Items', key)
  BY DEF WaitingItems
<1>2. waiting[key] \in Seq(WaitingItems(grammar, Items, key))
  BY DEF Inv, ChartInvariant, TablesAgree
<1> QED BY <1>1, <1>2, SeqMonotonic

LEMMA NullableStays ==
  ASSUME Inv, Items \subseteq Items', UNCHANGED <<grammar, nullable>>,
         NEW key \in DOMAIN nullable'
  PROVE  nullable'[key] \in Seq(NullableItems(grammar', Items', key))
<1>1. NullableItems(grammar, Items, key) \subseteq NullableItems(grammar', Items', key)
  BY DEF NullableItems
<1>2. nullable[key] \in Seq(NullableItems(grammar, Items, key))
  BY DEF Inv, ChartInvariant, TablesAgree
<1> QED BY <1>1, <1>2, SeqMonotonic

LEMMA AddCompletedInv == ASSUME Inv, AddCompleted PROVE Inv'
<1>1. /\ AddNew /\ UNCHANGED <<grammar, tokens, i, pc>>
      /\ work' = Rest /\ UNCHANGED <<waiting, nullable>>
  BY DEF AddCompleted, AddNew, Unmoved
<1>2. Items \subseteq Items'
  BY <1>1, AddNewItem
<1>3. CallsDue'
  BY <1>1, <1>2, CallingDue, CallsStayDue DEF CallsDue, AddNew
<1>4. work' \in Seq(Seq(AddCall))
  BY <1>3, Seq2Monotonic DEF Due, CallsDue
<1>5. TypeOK'
  BY <1>1, <1>4, AddNewItem
     DEF Inv, TypeOK, AddCompleted, AddNew, Unmoved, IsTable, Items
<1>6. TablesAgree'
  BY <1>1, <1>2, AddNewItem, WaitingStays, NullableStays DEF TablesAgree
<1> QED BY <1>1, <1>3, <1>5, <1>6, AddNewItem DEF Inv, ChartInvariant

LEMMA AddNullableInv == ASSUME Inv, AddNullable PROVE Inv'
<1> DEFINE key == <<Call.item.pos, Call.item.rule>>
           table == nullable'
<1>1. /\ AddNew /\ UNCHANGED <<grammar, tokens, i, pc, waiting>>
      /\ work' = <<Completions(Call.item, waiting)>> \o Rest
      /\ Completed(grammar, Call.item) /\ Call.item.origin = Call.item.pos
      /\ nullable' = Push(nullable, key, Call.item)
  BY DEF AddNullable, AddNew, Unmoved
<1>2. /\ Items \subseteq Items' /\ Call.item \in Items'
      /\ Items' \in SUBSET Item
      /\ \A it \in Items' : Legal(grammar, it)
      /\ grammar \in Grammars /\ Call.item \in Item
      /\ Call.item.pos = Here /\ Here' = Here
  BY <1>1, AddNewItem, InvItems, CallingDue DEF AddNew, Here
<1>3. Completions(Call.item, waiting) \in Seq(Due(grammar, tokens, Items', Call.item.pos))
  <2>1. Lookup(waiting, <<Call.item.origin, Call.item.rule>>)
          \in Seq(WaitingItems(grammar, Items', <<Call.item.origin, Call.item.rule>>))
    BY <1>1, <1>2, WaitingStays, EmptySeq DEF Lookup
  <2> QED BY <1>1, <1>2, <2>1, CompletionsDue
<1>4. CallsDue'
  <2>1. Rest \in Seq(Seq(Due(grammar', tokens', Items', Here')))
    BY <1>1, <1>2, CallingDue, CallsStayDue DEF AddNew
  <2>2. <<Completions(Call.item, waiting)>> \in Seq(Seq(Due(grammar', tokens', Items', Here')))
    BY <1>1, <1>2, <1>3
  <2> QED BY <1>1, <2>1, <2>2, ConcatProperties DEF CallsDue
<1>5. work' \in Seq(Seq(AddCall))
  BY <1>4, Seq2Monotonic DEF Due, CallsDue
<1>6. /\ DOMAIN nullable' = DOMAIN nullable \cup {key}
      /\ nullable' = [k \in DOMAIN nullable' |-> nullable'[k]]
      /\ \A k \in DOMAIN nullable : k # key => nullable'[k] = nullable[k]
  BY <1>1 DEF Push
<1>7. ASSUME NEW k \in DOMAIN nullable'
      PROVE  nullable'[k] \in Seq(NullableItems(grammar', Items', k))
  <2>1. k \in DOMAIN nullable => nullable[k] \in Seq(NullableItems(grammar', Items', k))
    <3>1. NullableItems(grammar, Items, k) \subseteq NullableItems(grammar', Items', k)
      BY <1>1, <1>2 DEF NullableItems
    <3> QED BY <3>1, SeqMonotonic DEF Inv, ChartInvariant, TablesAgree
  <2>2. CASE k = key
    <3>1. Call.item \in NullableItems(grammar', Items', key)
      BY <1>1, <1>2 DEF NullableItems
    <3> HIDE DEF key
    <3> QED BY <1>1, <2>1, <2>2, <3>1, PushSeq
  <2>3. CASE k # key
    BY <1>6, <2>1, <2>3
  <2> QED BY <2>2, <2>3
<1>8. IsTable(nullable', Nat \X Names)
  <2>1. DOMAIN nullable' \subseteq Nat \X Names
    BY <1>2, <1>6 DEF Inv, TypeOK, IsTable, Item
  <2>2. \A k \in DOMAIN nullable' : nullable'[k] \in Seq(Item)
    <3> SUFFICES ASSUME NEW k \in DOMAIN nullable' PROVE nullable'[k] \in Seq(Item)
      OBVIOUS
    <3>1. NullableItems(grammar', Items', k) \subseteq Item
      BY <1>2 DEF NullableItems
    <3> QED BY <1>7, <3>1, SeqMonotonic
  <2> QED BY <1>6, <2>1, <2>2 DEF IsTable
<1>9. TypeOK'
  BY <1>1, <1>5, <1>8, AddNewItem
     DEF Inv, TypeOK, AddNullable, AddNew, Unmoved, IsTable, Items
<1>10. TablesAgree'
  BY <1>1, <1>2, <1>7, AddNewItem, WaitingStays DEF TablesAgree
<1> QED BY <1>1, <1>4, <1>9, <1>10, AddNewItem DEF Inv, ChartInvariant

LEMMA AddWaitingInv == ASSUME Inv, AddWaiting PROVE Inv'
<1> DEFINE key == <<Call.item.pos, Dotted(grammar, Call.item)>>
<1>1. /\ AddNew /\ UNCHANGED <<grammar, tokens, i, pc, nullable>>
      /\ work' = <<Drained(Call.item, nullable)>> \o Rest
      /\ ~ Completed(grammar, Call.item)
      /\ waiting' = Push(waiting, key, Call.item)
  BY DEF AddWaiting, AddNew, Unmoved
<1>2. /\ Items \subseteq Items' /\ Call.item \in Items'
      /\ Items' \in SUBSET Item
      /\ \A it \in Items' : Legal(grammar, it)
      /\ grammar \in Grammars /\ Call.item \in Item
      /\ Call.item.pos = Here /\ Here' = Here
  BY <1>1, AddNewItem, InvItems, CallingDue DEF AddNew, Here
<1>3. Drained(Call.item, nullable) \in Seq(Due(grammar, tokens, Items', Call.item.pos))
  <2>1. Lookup(nullable, key) \in Seq(NullableItems(grammar, Items', key))
    BY <1>1, <1>2, NullableStays, EmptySeq DEF Lookup
  <2> QED BY <1>1, <1>2, <2>1, DrainedDue
<1>4. CallsDue'
  <2>1. Rest \in Seq(Seq(Due(grammar', tokens', Items', Here')))
    BY <1>1, <1>2, CallingDue, CallsStayDue DEF AddNew
  <2>2. <<Drained(Call.item, nullable)>> \in Seq(Seq(Due(grammar', tokens', Items', Here')))
    BY <1>1, <1>2, <1>3
  <2> QED BY <1>1, <2>1, <2>2, ConcatProperties DEF CallsDue
<1>5. work' \in Seq(Seq(AddCall))
  BY <1>4, Seq2Monotonic DEF Due, CallsDue
<1>6. /\ DOMAIN waiting' = DOMAIN waiting \cup {key}
      /\ waiting' = [k \in DOMAIN waiting' |-> waiting'[k]]
      /\ \A k \in DOMAIN waiting : k # key => waiting'[k] = waiting[k]
  BY <1>1 DEF Push
<1>7. ASSUME NEW k \in DOMAIN waiting'
      PROVE  waiting'[k] \in Seq(WaitingItems(grammar', Items', k))
  <2>1. k \in DOMAIN waiting => waiting[k] \in Seq(WaitingItems(grammar', Items', k))
    <3>1. WaitingItems(grammar, Items, k) \subseteq WaitingItems(grammar', Items', k)
      BY <1>1, <1>2 DEF WaitingItems
    <3> QED BY <3>1, SeqMonotonic DEF Inv, ChartInvariant, TablesAgree
  <2>2. CASE k = key
    <3>1. Call.item \in WaitingItems(grammar', Items', key)
      BY <1>1, <1>2 DEF WaitingItems
    <3> HIDE DEF key
    <3> QED BY <1>1, <2>1, <2>2, <3>1, PushSeq
  <2>3. CASE k # key
    BY <1>6, <2>1, <2>3
  <2> QED BY <2>2, <2>3
<1>8. IsTable(waiting', Nat \X Symbols)
  <2>1. Dotted(grammar, Call.item) \in Symbols
    BY <1>1, <1>2, DottedType DEF Completed
  <2>2. DOMAIN waiting' \subseteq Nat \X Symbols
    BY <1>2, <1>6, <2>1 DEF Inv, TypeOK, IsTable, Item
  <2>3. \A k \in DOMAIN waiting' : waiting'[k] \in Seq(Item)
    <3> SUFFICES ASSUME NEW k \in DOMAIN waiting' PROVE waiting'[k] \in Seq(Item)
      OBVIOUS
    <3>1. WaitingItems(grammar', Items', k) \subseteq Item
      BY <1>2 DEF WaitingItems
    <3> QED BY <1>7, <3>1, SeqMonotonic
  <2> QED BY <1>6, <2>2, <2>3 DEF IsTable
<1>9. TypeOK'
  BY <1>1, <1>5, <1>8, AddNewItem
     DEF Inv, TypeOK, AddWaiting, AddNew, Unmoved, IsTable, Items
<1>10. TablesAgree'
  BY <1>1, <1>2, <1>7, AddNewItem, NullableStays DEF TablesAgree
<1> QED BY <1>1, <1>4, <1>9, <1>10, AddNewItem DEF Inv, ChartInvariant

-----------------------------------------------------------------------------
(* The steps of construct leave the tables alone                           *)

LEMMA TablesStay ==
  ASSUME Inv, UNCHANGED <<grammar, path, backs, waiting, nullable>>
  PROVE  /\ Items' = Items
         /\ TablesAgree'
         /\ IsTable(path', Nat)
         /\ DOMAIN backs' \subseteq Item /\ backs' \in [DOMAIN backs' -> Seq(Back)]
         /\ IsTable(waiting', Nat \X Symbols)
         /\ IsTable(nullable', Nat \X Names)
BY DEF Inv, ChartInvariant, TypeOK, TablesAgree, Items, IsTable

\* A step that makes no call, and leaves none to make, keeps the calls due.
LEMMA NoCalls ==
  ASSUME work' = << >>
  PROVE  CallsDue' /\ work' \in Seq(Seq(AddCall))
BY EmptySeq DEF CallsDue

\* A loop that starts with a list of due calls.
LEMMA FirstCalls ==
  ASSUME NEW cs \in Seq(Due(grammar', tokens', Items', Here')), work' = <<cs>>
  PROVE  CallsDue' /\ work' \in Seq(Seq(AddCall))
<1>1. work' \in Seq(Seq(Due(grammar', tokens', Items', Here')))
  OBVIOUS
<1> QED BY <1>1, Seq2Monotonic DEF CallsDue, Due

\* The item a loop over path[i] looks at.
LEMMA CurrentItem ==
  ASSUME Inv, pc \in {"visit", "advance"}, cursor <= Len(path[i])
  PROVE  /\ Current \in Items /\ Current \in Item /\ Current.pos = i
         /\ Legal(grammar, Current) /\ i \in Nat
<1>1. i \in DOMAIN path /\ path[i] \in Seq(PathItems(Items, i)) /\ i \in Nat
  BY DEF Inv, ChartInvariant, ControlOK, TablesAgree, TypeOK
<1>2. cursor \in 1..Len(path[i])
  BY <1>1, LenProperties DEF Inv, ChartInvariant, ControlOK, TypeOK
<1>3. Current \in PathItems(Items, i)
  BY <1>1, <1>2, ElementOfSeq DEF Current
<1> QED BY <1>1, <1>3, InvItems DEF PathItems

LEMMA ReturnInv == ASSUME Inv, Return PROVE Inv'
<1>1. /\ work # << >> /\ work' = Tail(work)
      /\ UNCHANGED <<grammar, path, backs, waiting, nullable>>
      /\ UNCHANGED <<tokens, i, cursor, expected, limit, pc>>
  BY DEF Return, tables, Unmoved
<1>2. /\ work' \in Seq(Seq(Due(grammar, tokens, Items, Here)))
      /\ work' \in Seq(Seq(AddCall))
  BY <1>1, HeadTailProperties DEF Inv, ChartInvariant, CallsDue, TypeOK
<1>3. CallsDue'
  BY <1>1, <1>2, TablesStay DEF CallsDue, Here
<1>4. TypeOK'
  BY <1>1, <1>2, TablesStay DEF Inv, TypeOK
<1>5. ControlOK'
  BY <1>1, HeadTailProperties DEF Inv, ChartInvariant, ControlOK
<1> QED BY <1>1, <1>3, <1>4, <1>5, TablesStay DEF Inv, ChartInvariant

LEMMA StartInv == ASSUME Inv, Start PROVE Inv'
<1>1. /\ pc = "start" /\ pc' = "loop" /\ work' = <<Predictions(grammar.start, 0)>>
      /\ UNCHANGED <<grammar, path, backs, waiting, nullable>>
      /\ UNCHANGED <<tokens, i, cursor, expected, limit>>
  BY DEF Start, tables
<1>2. i = 0 /\ Here' = 0 /\ Items' = Items
  BY <1>1, TablesStay DEF Inv, ChartInvariant, ControlOK, Here
<1>3. Predictions(grammar.start, 0) \in Seq(Due(grammar', tokens', Items', Here'))
  <2>1. grammar.start \in Names
    BY InvItems, GrammarAssumption
  <2> QED BY <1>1, <1>2, <2>1, InvItems, PredictionsDue
<1>4. CallsDue' /\ work' \in Seq(Seq(AddCall))
  BY <1>1, <1>3, FirstCalls
<1>5. TypeOK'
  BY <1>1, <1>4, TablesStay DEF Inv, TypeOK, Labels
<1>6. ControlOK'
  BY <1>1 DEF Inv, ChartInvariant, ControlOK
<1> QED BY <1>1, <1>4, <1>5, <1>6, TablesStay DEF Inv, ChartInvariant

LEMMA LoopInv == ASSUME Inv, Loop PROVE Inv'
<1>1. /\ UNCHANGED <<grammar, path, backs, waiting, nullable>>
      /\ UNCHANGED <<tokens, work, i, limit>> /\ work' = << >>
  BY DEF Loop, tables
<1>2. TypeOK'
  BY <1>1, TablesStay DEF Loop, Inv, TypeOK, Labels
<1>3. ControlOK'
  BY <1>1 DEF Loop, Inv, TypeOK, ChartInvariant, ControlOK
<1> QED BY <1>1, <1>2, <1>3, TablesStay, NoCalls DEF Inv, ChartInvariant

LEMMA SkipNullableInv == ASSUME Inv, SkipNullable PROVE Inv'
<1>1. /\ UNCHANGED <<grammar, path, backs, waiting, nullable>>
      /\ UNCHANGED <<tokens, work, i, expected, limit, pc>> /\ work' = << >>
      /\ cursor' = cursor + 1
  BY DEF SkipNullable, Visiting, Visited, tables
<1>2. TypeOK'
  BY <1>1, TablesStay DEF Inv, TypeOK
<1>3. ControlOK'
  BY <1>1 DEF Inv, TypeOK, ChartInvariant, ControlOK
<1> QED BY <1>1, <1>2, <1>3, TablesStay, NoCalls DEF Inv, ChartInvariant

LEMMA CompleteInv == ASSUME Inv, Complete PROVE Inv'
<1>1. /\ UNCHANGED <<grammar, path, backs, waiting, nullable>>
      /\ UNCHANGED <<tokens, i, expected, limit, pc>>
      /\ work' = <<Completions(Current, waiting)>>
      /\ cursor' = cursor + 1 /\ pc = "visit"
  BY DEF Complete, Visiting, Visited, tables
<1>2. /\ Current \in Items /\ Current.pos = i /\ Completed(grammar, Current)
      /\ Here' = i /\ Items' = Items
  BY <1>1, CurrentItem, TablesStay DEF Complete, Visiting, Here
<1>3. Completions(Current, waiting) \in Seq(Due(grammar', tokens', Items', Here'))
  <2>1. Lookup(waiting, <<Current.origin, Current.rule>>)
          \in Seq(WaitingItems(grammar, Items, <<Current.origin, Current.rule>>))
    BY EmptySeq DEF Lookup, Inv, ChartInvariant, TablesAgree
  <2> QED BY <1>1, <1>2, <2>1, InvItems, CompletionsDue
<1>4. CallsDue' /\ work' \in Seq(Seq(AddCall))
  BY <1>1, <1>3, FirstCalls
<1>5. TypeOK'
  BY <1>1, <1>4, TablesStay DEF Inv, TypeOK
<1>6. ControlOK'
  BY <1>1 DEF Inv, TypeOK, ChartInvariant, ControlOK
<1> QED BY <1>1, <1>4, <1>5, <1>6, TablesStay DEF Inv, ChartInvariant

LEMMA ExpectInv == ASSUME Inv, Expect PROVE Inv'
<1>1. /\ UNCHANGED <<grammar, path, backs, waiting, nullable>>
      /\ UNCHANGED <<tokens, work, i, limit, pc>> /\ work' = << >>
      /\ cursor' = cursor + 1
  BY DEF Expect, Visiting, Visited, tables
<1>2. TypeOK'
  BY <1>1, TablesStay DEF Expect, Inv, TypeOK
<1>3. ControlOK'
  BY <1>1 DEF Inv, TypeOK, ChartInvariant, ControlOK
<1> QED BY <1>1, <1>2, <1>3, TablesStay, NoCalls DEF Inv, ChartInvariant

LEMMA PredictInv == ASSUME Inv, Predict PROVE Inv'
<1>1. /\ UNCHANGED <<grammar, path, backs, waiting, nullable>>
      /\ UNCHANGED <<tokens, i, expected, limit, pc>>
      /\ work' = <<Predictions(Dotted(grammar, Current), i)>>
      /\ cursor' = cursor + 1 /\ pc = "visit"
  BY DEF Predict, Visiting, Visited, tables
<1>2. /\ Current \in Items /\ Current.pos = i /\ i \in Nat
      /\ Dotted(grammar, Current) \in Names
      /\ Here' = i /\ Items' = Items
  BY <1>1, CurrentItem, TablesStay DEF Predict, Visiting, Here
<1>3. Predictions(Dotted(grammar, Current), i) \in Seq(Due(grammar', tokens', Items', Here'))
  BY <1>1, <1>2, InvItems, PredictionsDue
<1>4. CallsDue' /\ work' \in Seq(Seq(AddCall))
  BY <1>1, <1>3, FirstCalls
<1>5. TypeOK'
  BY <1>1, <1>4, TablesStay DEF Inv, TypeOK
<1>6. ControlOK'
  BY <1>1 DEF Inv, TypeOK, ChartInvariant, ControlOK
<1> QED BY <1>1, <1>4, <1>5, <1>6, TablesStay DEF Inv, ChartInvariant

LEMMA LeaveInv == ASSUME Inv, Leave PROVE Inv'
<1>1. /\ UNCHANGED <<grammar, path, backs, waiting, nullable>>
      /\ UNCHANGED <<tokens, work, i, cursor, expected, limit>> /\ work' = << >>
      /\ pc = "visit" /\ pc' \in {"finish", "scan"}
  BY DEF Leave, tables
<1>2. TypeOK'
  BY <1>1, TablesStay DEF Inv, TypeOK, Labels
<1>3. ControlOK'
  BY <1>1 DEF Inv, ChartInvariant, ControlOK
<1> QED BY <1>1, <1>2, <1>3, TablesStay, NoCalls DEF Inv, ChartInvariant

LEMMA ScanTokenInv == ASSUME Inv, NEW t \in Terminals, ScanToken(t) PROVE Inv'
<1>1. /\ UNCHANGED <<grammar, backs, waiting, nullable, work, i, expected, limit>>
      /\ tokens' = Append(tokens, t) /\ path' = Ensure(path, i + 1)
      /\ pc = "scan" /\ pc' = "advance" /\ cursor' = 1
  BY DEF ScanToken
<1>2. /\ tokens \in Seq(Terminals) /\ i \in Nat
      /\ i \in DOMAIN path /\ Len(tokens) = i /\ work = << >>
  BY <1>1 DEF Inv, TypeOK, ChartInvariant, ControlOK
<1>3. Len(tokens') = i + 1 /\ tokens' \in Seq(Terminals)
  BY <1>1, <1>2, AppendProperties
<1>4. /\ DOMAIN path' = DOMAIN path \cup {i + 1}
      /\ path' = [k \in DOMAIN path' |-> Lookup(path, k)]
  BY <1>1 DEF Ensure
<1>5. Items' = Items
  BY <1>1 DEF Items
<1>6. TablesAgree'
  <2>1. ASSUME NEW p \in DOMAIN path'
        PROVE  path'[p] \in Seq(PathItems(Items', p))
    BY <1>4, <1>5, EmptySeq DEF Lookup, Inv, ChartInvariant, TablesAgree
  <2>2. /\ \A key \in DOMAIN waiting' :
             waiting'[key] \in Seq(WaitingItems(grammar', Items', key))
        /\ \A key \in DOMAIN nullable' :
             nullable'[key] \in Seq(NullableItems(grammar', Items', key))
        /\ \A it \in Items' : Legal(grammar', it)
    BY <1>1, <1>5 DEF Inv, ChartInvariant, TablesAgree
  <2> QED BY <2>1, <2>2 DEF TablesAgree
<1>7. IsTable(path', Nat)
  <2>1. \A k \in DOMAIN path' : path'[k] \in Seq(Item)
    BY <1>4, EmptySeq DEF Lookup, Inv, TypeOK, IsTable
  <2> QED BY <1>2, <1>4, <2>1 DEF IsTable, Inv, TypeOK
<1>8. TypeOK'
  BY <1>1, <1>3, <1>7 DEF Inv, TypeOK, IsTable, Labels
<1>9. ControlOK'
  BY <1>1, <1>2, <1>3, <1>4 DEF ControlOK
<1> QED BY <1>1, <1>2, <1>6, <1>8, <1>9, NoCalls DEF Inv, ChartInvariant

LEMMA ScanNothingInv == ASSUME Inv, ScanNothing PROVE Inv'
<1>1. /\ UNCHANGED <<grammar, path, backs, waiting, nullable>>
      /\ UNCHANGED <<tokens, work, i, cursor, expected, limit>> /\ work' = << >>
      /\ pc' = "finish"
  BY DEF ScanNothing, tables, Inv, ChartInvariant, ControlOK
<1>2. TypeOK'
  BY <1>1, TablesStay DEF Inv, TypeOK, Labels
<1>3. ControlOK'
  BY <1>1 DEF Inv, ChartInvariant, ControlOK
<1> QED BY <1>1, <1>2, <1>3, TablesStay, NoCalls DEF Inv, ChartInvariant

LEMMA AdvanceInv == ASSUME Inv, Advance PROVE Inv'
<1> DEFINE c == AddScanned(Current, Len(tokens) - 1)
<1>1. /\ UNCHANGED <<grammar, path, backs, waiting, nullable>>
      /\ UNCHANGED <<tokens, i, expected, limit, pc>>
      /\ pc = "advance" /\ cursor' = cursor + 1 /\ cursor <= Len(path[i])
      /\ \/ work' = << <<c>> >> /\ Dotted(grammar, Current) = tokens[Len(tokens) - 1 + 1]
         \/ work' = << >>
  BY DEF Advance, tables
<1>2. /\ Current \in Items /\ Current \in Item /\ Current.pos = i
      /\ Legal(grammar, Current) /\ i \in Nat
      /\ Len(tokens) = i + 1 /\ tokens \in Seq(Terminals)
      /\ Items' = Items /\ Here' = i + 1
  BY <1>1, CurrentItem, TablesStay DEF Inv, TypeOK, ChartInvariant, ControlOK, Here
<1>3. CallsDue' /\ work' \in Seq(Seq(AddCall))
  <2>1. CASE work' = << >>
    BY <2>1, NoCalls
  <2>2. CASE /\ work' = << <<c>> >>
             /\ Dotted(grammar, Current) = tokens[Len(tokens) - 1 + 1]
    <3>1. Dotted(grammar, Current) = tokens[Current.pos + 1] /\ Current.pos < Len(tokens)
      BY <1>2, <2>2
    <3>2. ~ Completed(grammar, Current)
      <4>1. tokens[Current.pos + 1] \in Terminals
        BY <1>2, ElementOfSeq
      <4> QED BY <3>1, <4>1, GrammarAssumption DEF Completed, Symbols
    <3>3. /\ Advanced(Current, i + 1) \in Item
          /\ Legal(grammar, Advanced(Current, i + 1))
          /\ Advanced(Current, i + 1).pos = i + 1
      BY <1>2, <3>2, InvItems, AdvancedLegal
    <3>4. TokenBack(Current, i) \in Back
      BY <1>2 DEF TokenBack, Back
    <3>5. <<TokenBack(Current, i)>> \in Seq(Back)
      BY <3>4
    <3>6. c = AddScanned(Current, Current.pos)
      BY <1>2
    <3>7. c \in AddCall /\ c.item = Advanced(Current, i + 1)
      BY <1>2, <3>3, <3>5, <3>6 DEF AddScanned, AddCall
    <3>8. DueToScan(grammar, tokens, Items, c)
      BY <1>2, <3>1, <3>6 DEF DueToScan
    <3> HIDE DEF c
    <3>9. c \in Due(grammar', tokens', Items', Here')
      BY <1>1, <1>2, <3>3, <3>7, <3>8 DEF Due
    <3>10. <<c>> \in Seq(Due(grammar', tokens', Items', Here'))
      BY <3>9
    <3> QED BY <2>2, <3>10, FirstCalls
  <2> QED BY <1>1, <2>1, <2>2
<1> HIDE DEF c
<1>4. TypeOK'
  BY <1>1, <1>3, TablesStay DEF Inv, TypeOK
<1>5. ControlOK'
  BY <1>1 DEF Inv, TypeOK, ChartInvariant, ControlOK
<1> QED BY <1>1, <1>3, <1>4, <1>5, TablesStay DEF Inv, ChartInvariant

LEMMA NextPositionInv == ASSUME Inv, NextPosition PROVE Inv'
<1>1. /\ UNCHANGED <<grammar, path, backs, waiting, nullable>>
      /\ UNCHANGED <<tokens, work, cursor, expected, limit>> /\ work' = << >>
      /\ pc = "advance" /\ i' = i + 1 /\ pc' = "loop"
  BY DEF NextPosition, tables
<1>2. TypeOK'
  BY <1>1, TablesStay DEF Inv, TypeOK, Labels
<1>3. ControlOK'
  BY <1>1 DEF Inv, ChartInvariant, ControlOK
<1> QED BY <1>1, <1>2, <1>3, TablesStay, NoCalls DEF Inv, ChartInvariant

LEMMA FinishInv == ASSUME Inv, Finish PROVE Inv'
<1>1. /\ UNCHANGED <<grammar, path, backs, waiting, nullable>>
      /\ UNCHANGED <<tokens, work, i, cursor, expected>> /\ work' = << >>
      /\ limit' = Len(tokens) /\ pc' = "done"
  BY DEF Finish, tables, Inv, ChartInvariant, ControlOK
<1>2. limit' \in Nat
  BY <1>1, LenProperties DEF Inv, TypeOK
<1>3. TypeOK'
  BY <1>1, <1>2, TablesStay DEF Inv, TypeOK, Labels
<1>4. ControlOK'
  BY <1>1 DEF Inv, ChartInvariant, ControlOK
<1> QED BY <1>1, <1>3, <1>4, TablesStay, NoCalls DEF Inv, ChartInvariant

LEMMA NextInv == ASSUME Inv, [Next]_vars PROVE Inv'
<1>1. CASE UNCHANGED vars
  BY <1>1 DEF vars, Inv, TypeOK, IsTable, ChartInvariant, TablesAgree, CallsDue,
              ControlOK, Items, Here
<1>2. CASE Next
  BY <1>2, AddMergeInv, AddCompletedInv, AddNullableInv, AddWaitingInv, ReturnInv,
     StartInv, LoopInv, SkipNullableInv, CompleteInv, ExpectInv, PredictInv,
     LeaveInv, ScanTokenInv, ScanNothingInv, AdvanceInv, NextPositionInv, FinishInv
     DEF Next, Add
<1> QED BY <1>1, <1>2

\* The tables of the chart keep their shape, and all of their lists hold typed
\* items, whatever the grammar and the input (src/earley/chart.c, add).
THEOREM TypeCorrect == Spec => []TypeOK
<1>1. Inv => TypeOK
  BY DEF Inv
<1> QED BY <1>1, InitInv, NextInv, PTL DEF Spec

\* The index, the path and the waiting and nullable tables agree, and every
\* call a running loop has still to make is justified by items in the chart.
THEOREM InvariantCorrect == Spec => []ChartInvariant
<1>1. Inv => ChartInvariant
  BY DEF Inv
<1> QED BY <1>1, InitInv, NextInv, PTL DEF Spec

-----------------------------------------------------------------------------
(* The chart implements the deduction system                               *)

\* The deduction system speaks of the same grammars, items and back pointers.
LEMMA SameItems ==
  /\ \A g, it : Abs!Dotted(g, it) = Dotted(g, it)
  /\ \A g, it : Abs!Completed(g, it) = Completed(g, it)
  /\ \A r, k, p : Abs!Predicted(r, k, p) = Predicted(r, k, p)
  /\ \A w, p : Abs!Advanced(w, p) = Advanced(w, p)
  /\ \A w, c : Abs!ChildBack(w, c) = ChildBack(w, c)
  /\ \A w, ti : Abs!TokenBack(w, ti) = TokenBack(w, ti)
BY DEF Abs!Dotted, Dotted, Abs!SymbolsOf, SymbolsOf, Abs!Completed, Completed,
       Abs!Predicted, Predicted, Abs!Advanced, Advanced,
       Abs!ChildBack, ChildBack, Abs!TokenBack, TokenBack

\* A call that is due adds what one deduction adds.
LEMMA CallDeduces ==
  ASSUME grammar \in Grammars, UNCHANGED <<grammar, tokens>>,
         NEW p, NEW c \in Due(grammar, tokens, Items, p),
         Items' = Items \cup {c.item},
         Edges' = Edges \cup ({c.item} \X Range(c.backs))
  PROVE  Abs!Next
<1>1. /\ c \in AddCall /\ Legal(grammar, c.item)
      /\ \/ DueToPredict(grammar, Items, c)
         \/ DueToJoin(grammar, Items, c)
         \/ DueToScan(grammar, tokens, Items, c)
  BY DEF Due
<1>2. CASE DueToPredict(grammar, Items, c)
  <2>1. c.backs = << >> /\ c.item = Predicted(c.item.rule, c.item.alt, c.item.pos)
    BY <1>2 DEF DueToPredict, AddPredicted
  <2>2. Abs!Deduce(c.item)
    <3>1. Range(c.backs) = {}
      BY <2>1 DEF Range
    <3>2. Edges' = Edges
      BY <3>1
    <3> QED BY <3>2 DEF Abs!Deduce
  <2>3. CASE c.item.rule = grammar.start /\ c.item.pos = 0
    BY <1>1, <2>1, <2>2, <2>3, SameItems DEF Abs!Start, Legal, Abs!Next
  <2>4. CASE \E w \in Items : w.pos = c.item.pos /\ Dotted(grammar, w) = c.item.rule
    <3>1. PICK w \in Items : w.pos = c.item.pos /\ Dotted(grammar, w) = c.item.rule
      BY <2>4
    <3>2. c.item.rule \in Names
      BY <1>1 DEF AddCall, Item
    <3>3. Abs!Predict(w)
      BY <1>1, <2>1, <2>2, <3>1, <3>2, SameItems DEF Abs!Predict, Abs!Predicts, Legal
    <3> QED BY <3>3 DEF Abs!Next
  <2> QED BY <1>2, <2>3, <2>4 DEF DueToPredict
<1>3. CASE DueToJoin(grammar, Items, c)
  <2>1. PICK w, d \in Items :
          /\ Completed(grammar, d) /\ Dotted(grammar, w) = d.rule /\ w.pos = d.origin
          /\ c = AddJoined(w, d)
    BY <1>3 DEF DueToJoin
  <2>2. c.item = Advanced(w, d.pos) /\ c.backs = <<ChildBack(w, d)>>
    BY <2>1 DEF AddJoined
  <2>3. Range(c.backs) = {ChildBack(w, d)}
    BY <2>2 DEF Range
  <2>4. Edges' = Edges \cup {<<c.item, ChildBack(w, d)>>}
    BY <2>3
  <2>5. Abs!Complete(w, d)
    BY <2>1, <2>2, <2>4, SameItems DEF Abs!Complete, Abs!Joins, Abs!DeduceWith
  <2> QED BY <2>5 DEF Abs!Next
<1>4. CASE DueToScan(grammar, tokens, Items, c)
  <2>1. PICK w \in Items :
          /\ w.pos < Len(tokens) /\ Dotted(grammar, w) = tokens[w.pos + 1]
          /\ c = AddScanned(w, w.pos)
    BY <1>4 DEF DueToScan
  <2>2. c.item = Advanced(w, w.pos + 1) /\ c.backs = <<TokenBack(w, w.pos)>>
    BY <2>1 DEF AddScanned
  <2>3. Range(c.backs) = {TokenBack(w, w.pos)}
    BY <2>2 DEF Range
  <2>4. Edges' = Edges \cup {<<c.item, TokenBack(w, w.pos)>>}
    BY <2>3
  <2>5. Abs!Scan(w)
    BY <2>1, <2>2, <2>4, SameItems DEF Abs!Scan, Abs!Shifts, Abs!DeduceWith
  <2> QED BY <2>5 DEF Abs!Next
<1> QED BY <1>1, <1>2, <1>3, <1>4

LEMMA RangeOfConcat ==
  ASSUME NEW s \in Seq(Back), NEW t \in Seq(Back)
  PROVE  Range(s \o t) = Range(s) \cup Range(t)
<1>1. /\ s \o t \in Seq(Back) /\ Len(s \o t) = Len(s) + Len(t)
      /\ Len(s) \in Nat /\ Len(t) \in Nat
      /\ DOMAIN s = 1..Len(s) /\ DOMAIN t = 1..Len(t)
      /\ DOMAIN (s \o t) = 1..(Len(s) + Len(t))
      /\ \A n \in 1..(Len(s) + Len(t)) :
           (s \o t)[n] = IF n <= Len(s) THEN s[n] ELSE t[n - Len(s)]
  BY ConcatProperties, LenProperties
<1>2. Range(s) \subseteq Range(s \o t)
  BY <1>1 DEF Range
<1>3. Range(t) \subseteq Range(s \o t)
  <2>1. ASSUME NEW n \in 1..Len(t) PROVE t[n] \in Range(s \o t)
    <3>1. n + Len(s) \in 1..(Len(s) + Len(t)) /\ ~ (n + Len(s) <= Len(s))
      BY <1>1
    <3>2. (s \o t)[n + Len(s)] = t[n]
      BY <1>1, <3>1
    <3> QED BY <1>1, <3>1, <3>2 DEF Range
  <2> QED BY <1>1, <2>1 DEF Range
<1>4. Range(s \o t) \subseteq Range(s) \cup Range(t)
  BY <1>1 DEF Range
<1> QED BY <1>2, <1>3, <1>4

\* What an add call brings into the chart: its item, and its back pointers.
LEMMA AddBrings ==
  ASSUME Inv, Add
  PROVE  /\ Items' = Items \cup {Call.item}
         /\ Edges' = Edges \cup ({Call.item} \X Range(Call.backs))
<1>1. Calling
  BY DEF Add, AddMerge, AddCompleted, AddNullable, AddWaiting, AddNew
<1>2. Call.backs \in Seq(Back) /\ Call.item \in Item
  BY <1>1, CallingDue
<1>3. /\ Items' = Items \cup {Call.item}
      /\ \A it \in Items : it # Call.item => backs'[it] = backs[it]
      /\ Range(backs'[Call.item]) =
           IF Call.item \in Items THEN Range(backs[Call.item]) \cup Range(Call.backs)
                                  ELSE Range(Call.backs)
  <2>1. CASE AddMerge
    <3>1. backs[Call.item] \in Seq(Back) /\ Call.item \in Items
      BY <2>1 DEF Inv, TypeOK, AddMerge, Items
    <3>2. Range(backs[Call.item] \o Call.backs) = Range(backs[Call.item]) \cup Range(Call.backs)
      BY <1>2, <3>1, RangeOfConcat
    <3> QED BY <2>1, <3>1, <3>2 DEF AddMerge, Items
  <2>2. CASE AddNew
    BY <2>2 DEF AddNew, Items
  <2> QED BY <2>1, <2>2 DEF Add, AddCompleted, AddNullable, AddWaiting
<1>4. Edges' = Edges \cup ({Call.item} \X Range(Call.backs))
  <2>1. Edges' = UNION {{it} \X Range(backs'[it]) : it \in Items'}
    BY DEF Edges
  <2>2. Edges = UNION {{it} \X Range(backs[it]) : it \in Items}
    BY DEF Edges
  <2>3. \A it \in Items : it # Call.item => Range(backs'[it]) = Range(backs[it])
    BY <1>3
  <2>4. Edges' \subseteq Edges \cup ({Call.item} \X Range(Call.backs))
    <3> SUFFICES ASSUME NEW it \in Items', NEW b \in Range(backs'[it])
                 PROVE  <<it, b>> \in Edges \cup ({Call.item} \X Range(Call.backs))
      BY <2>1
    <3>1. CASE it # Call.item
      BY <1>3, <2>2, <2>3, <3>1
    <3>2. CASE it = Call.item
      BY <1>3, <2>2, <3>2
    <3> QED BY <3>1, <3>2
  <2>5. Edges \cup ({Call.item} \X Range(Call.backs)) \subseteq Edges'
    <3>1. ASSUME NEW it \in Items, NEW b \in Range(backs[it])
          PROVE  <<it, b>> \in Edges'
      BY <1>3, <2>1, <2>3, <3>1
    <3>2. ASSUME NEW b \in Range(Call.backs)
          PROVE  <<Call.item, b>> \in Edges'
      BY <1>3, <2>1, <3>2
    <3> QED BY <2>2, <3>1, <3>2
  <2> QED BY <2>4, <2>5
<1> QED BY <1>3, <1>4

LEMMA AddDeduces == ASSUME Inv, Add PROVE [Abs!Next]_(Abs!vars)
<1>1. /\ grammar \in Grammars /\ UNCHANGED <<grammar, tokens>> /\ Calling
  BY InvItems DEF Add, AddMerge, AddCompleted, AddNullable, AddWaiting, AddNew, Unmoved
<1>2. /\ Call \in Due(grammar, tokens, Items, Here)
      /\ Call.backs \in Seq(Back) /\ Call.item \in Item
  BY <1>1, CallingDue
<1> QED BY <1>1, <1>2, AddBrings, CallDeduces

\* The initial chart is the empty deduction.
LEMMA InitDeduces == Init => Abs!Init
<1> SUFFICES ASSUME Init PROVE Abs!Init
  OBVIOUS
<1>1. DOMAIN backs = {}
  BY DEF Init, EmptyTable
<1>2. Items = {} /\ Edges = {}
  BY <1>1 DEF Items, Edges
<1> QED BY <1>2 DEF Init, Abs!Init

\* Every step of the chart is a deduction, a token read, or a stutter.
LEMMA NextDeduces == ASSUME Inv, [Next]_vars PROVE [Abs!Next]_(Abs!vars)
<1>1. CASE Add
  BY <1>1, AddDeduces
<1>2. CASE \E t \in Terminals : ScanToken(t)
  <2>1. PICK t \in Terminals : ScanToken(t)
    BY <1>2
  <2>2. Items' = Items /\ Edges' = Edges
    BY <2>1 DEF ScanToken, Items, Edges
  <2>3. Abs!Read(t)
    BY <2>1, <2>2 DEF ScanToken, Abs!Read
  <2> QED BY <2>3 DEF Abs!Next
<1>3. CASE UNCHANGED <<grammar, tokens, backs>>
  <2>1. Items' = Items /\ Edges' = Edges
    BY <1>3 DEF Items, Edges
  <2> QED BY <1>3, <2>1 DEF Abs!vars
<1>4. \/ Add \/ \E t \in Terminals : ScanToken(t)
      \/ UNCHANGED <<grammar, tokens, backs>>
  BY DEF Next, vars, Return, Unmoved, tables, Start, Loop, SkipNullable, Complete,
         Expect, Predict, Visited, Leave, ScanNothing, Advance, NextPosition, Finish
<1> QED BY <1>1, <1>2, <1>3, <1>4

\* The chart the nested loops build is sound: its items and back pointers are
\* those of a deduction by Earley's rules, for every grammar and input.
THEOREM ChartImplementsDeduction == Spec => ImplementsDeduction
<1>1. Inv /\ [Next]_vars => [Abs!Next]_(Abs!vars)
  BY NextDeduces
<1> QED BY <1>1, InitInv, NextInv, InitDeduces, PTL DEF Spec, Abs!Spec, ImplementsDeduction

-----------------------------------------------------------------------------
(* Earlier positions are frozen                                            *)

LEMMA AddKeepsPast == ASSUME Inv, Add PROVE PastKept
<1>1. /\ Calling /\ Call.item.pos = Here /\ i \in Nat
      /\ Call.item \in Item
      /\ IsTable(path, Nat) /\ IsTable(waiting, Nat \X Symbols)
      /\ IsTable(nullable, Nat \X Names)
  BY CallingDue DEF Add, AddMerge, AddCompleted, AddNullable, AddWaiting, AddNew,
                    Inv, TypeOK
<1>2. Call.item.pos >= i /\ (pc = "advance" => Call.item.pos > i)
  BY <1>1 DEF Here
<1>3. CASE AddMerge
  <2>1. /\ backs' = [backs EXCEPT ![Call.item] = @ \o Call.backs]
        /\ path' = path /\ waiting' = waiting /\ nullable' = nullable
    BY <1>3 DEF AddMerge
  <2>2. \A it \in DOMAIN backs : it # Call.item => backs'[it] = backs[it]
    BY <2>1
  <2>3. \A it \in DOMAIN backs : it.pos < i => it # Call.item
    BY <1>1, <1>2 DEF Item
  <2> QED BY <2>1, <2>2, <2>3 DEF PastKept
<1>4. CASE AddNew /\ ~ AddMerge
  <2>1. \A p \in DOMAIN path :
          p < i \/ (p = i /\ pc = "advance") => path'[p] = path[p]
    BY <1>1, <1>2, <1>4 DEF AddNew, Push, IsTable
  <2>2. \A it \in DOMAIN backs : it.pos < i => backs'[it] = backs[it]
    BY <1>4 DEF AddNew
  <2>3. \/ waiting' = waiting
        \/ waiting' = Push(waiting, <<Call.item.pos, Dotted(grammar, Call.item)>>, Call.item)
    BY <1>4 DEF Add, AddCompleted, AddNullable, AddWaiting
  <2>4. \/ nullable' = nullable
        \/ nullable' = Push(nullable, <<Call.item.pos, Call.item.rule>>, Call.item)
    BY <1>4 DEF Add, AddCompleted, AddNullable, AddWaiting
  <2>5. ASSUME NEW key \in DOMAIN waiting, key[1] < i
        PROVE  waiting'[key] = waiting[key]
    <3>1. key # <<Call.item.pos, Dotted(grammar, Call.item)>>
      BY <1>1, <1>2, <2>5 DEF Item
    <3> QED BY <2>3, <3>1 DEF Push
  <2>6. ASSUME NEW key \in DOMAIN nullable, key[1] < i
        PROVE  nullable'[key] = nullable[key]
    <3>1. key # <<Call.item.pos, Call.item.rule>>
      BY <1>1, <1>2, <2>6 DEF Item
    <3> QED BY <2>4, <3>1 DEF Push
  <2> QED BY <2>1, <2>2, <2>5, <2>6 DEF PastKept
<1> QED BY <1>3, <1>4 DEF Add, AddCompleted, AddNullable, AddWaiting

LEMMA NextKeepsPast == ASSUME Inv, [Next]_vars PROVE PastKept \/ UNCHANGED vars
<1>1. CASE Add
  BY <1>1, AddKeepsPast
<1>2. CASE \E t \in Terminals : ScanToken(t)
  <2>1. path' = Ensure(path, i + 1) /\ UNCHANGED <<backs, waiting, nullable>>
    BY <1>2 DEF ScanToken
  <2> QED BY <2>1 DEF Ensure, Lookup, PastKept
<1>3. CASE UNCHANGED <<path, backs, waiting, nullable>>
  BY <1>3 DEF PastKept
<1>4. \/ Add \/ \E t \in Terminals : ScanToken(t)
      \/ UNCHANGED <<path, backs, waiting, nullable>>
  BY DEF Next, vars, Return, Unmoved, tables, Start, Loop, SkipNullable, Complete,
         Expect, Predict, Visited, Leave, ScanNothing, Advance, NextPosition, Finish
<1> QED BY <1>1, <1>2, <1>3, <1>4

\* What completions read of earlier positions never changes under them.
THEOREM PastIsFrozen == Spec => PastFrozen
<1>1. Inv /\ [Next]_vars => [PastKept]_vars
  BY NextKeepsPast
<1> QED BY <1>1, InitInv, NextInv, PTL DEF Spec, PastFrozen

-----------------------------------------------------------------------------
(***************************************************************************)
(* That the chart is complete, and that no derivation is in it twice.      *)
(*                                                                         *)
(* Completeness holds between positions only.  While the loops run, every  *)
(* consequence of what is in the chart is drawn already or is one of the   *)
(* add calls they have still to make; which consequences are due by then   *)
(* depends on how far construct has come.                                  *)
(***************************************************************************)

-----------------------------------------------------------------------------
(* The calls still to be made                                              *)

Calls(ws) == UNION {Range(ws[f]) : f \in DOMAIN ws}

Brings(c) == c.backs # << >>
EdgeOf(c) == <<c.item, c.backs[1]>>

\* No two calls in ws that bring a back pointer are the same.
NoneTwice(ws) ==
  \A f, g \in DOMAIN ws : \A k \in DOMAIN ws[f], l \in DOMAIN ws[g] :
    (f # g \/ k # l) /\ Brings(ws[f][k]) => ws[f][k] # ws[g][l]

Pending == Calls(work)

\* The items and the edges that are in the chart or will be.
Coming == Items \cup {c.item : c \in Pending}

Promised == {EdgeOf(c) : c \in {d \in Pending : Brings(d)}}

Drawn == Edges \cup Promised

-----------------------------------------------------------------------------
(* How far construct has come                                              *)

\* What the loop over path[i] has left behind.
Passed == {path[i][n] : n \in 1..(cursor - 1)}

\* construct has visited the item.
Settled(it) ==
  \/ it.pos < i
  \/ it.pos = i /\ pc \in {"scan", "advance", "finish", "done"}
  \/ it.pos = i /\ pc = "visit" /\ it \in Passed

\* scan has compared the item with the token behind it.
Compared(it) ==
  \/ it.pos < i
  \/ it.pos = i /\ pc = "advance" /\ it \in Passed

-----------------------------------------------------------------------------
(* The inductive invariant                                                 *)

\* Every item is in the lists it belongs in.
EveryListed ==
  \A it \in Items :
    /\ it.pos \in DOMAIN path /\ it \in Range(path[it.pos])
    /\ ~ Completed(grammar, it) =>
         it \in Range(Lookup(waiting, <<it.pos, Dotted(grammar, it)>>))
    /\ Completed(grammar, it) /\ it.origin = it.pos =>
         it \in Range(Lookup(nullable, <<it.pos, it.rule>>))

NoDuplicate(list) == \A m, n \in DOMAIN list : m # n => list[m] # list[n]

\* No list of the chart holds an item twice.
ListedOnce ==
  /\ \A p \in DOMAIN path : NoDuplicate(path[p])
  /\ \A key \in DOMAIN waiting : NoDuplicate(waiting[key])
  /\ \A key \in DOMAIN nullable : NoDuplicate(nullable[key])

\* An item begins no later than it ends.
Forward == \A it \in Items : it.origin <= it.pos

Progress ==
  /\ DOMAIN path \subseteq 0..Here
  /\ pc \in {"finish", "done"} => Len(tokens) = i
  /\ pc \in {"visit", "advance"} => cursor <= Len(path[i]) + 1

Wanted(r, p) ==
  IF r \in DOMAIN grammar.rules
  THEN {Predicted(r, k, p) : k \in 1..Len(grammar.rules[r])}
  ELSE {}

PredictionsDrawn ==
  /\ pc # "start" => Wanted(grammar.start, 0) \subseteq Coming
  /\ \A w \in Items : Settled(w) /\ Dotted(grammar, w) \in Names =>
       Wanted(Dotted(grammar, w), w.pos) \subseteq Coming

Shifted(w) == <<Advanced(w, w.pos + 1), TokenBack(w, w.pos)>>

ScansDrawn ==
  \A w \in Items : Compared(w) /\ Abs!Shifts(w) => Shifted(w) \in Drawn

Joined(w, c) == <<Advanced(w, c.pos), ChildBack(w, c)>>

\* An item that spans nothing is joined at once, by complete or drain; the
\* others when construct comes to them.
JoinsDrawn ==
  \A w, c \in Items :
    Abs!Joins(w, c) /\ (c.origin = c.pos \/ Settled(c)) => Joined(w, c) \in Drawn

\* The terminals collected so far.
ExpectedDrawn ==
  /\ pc = "visit" =>
       expected = {Dotted(grammar, it) : it \in Passed} \cap Terminals
  /\ pc = "scan" =>
       expected = {Dotted(grammar, it) : it \in Range(path[i])} \cap Terminals

\* A call brings one edge at most.
CallsSingle == \A c \in Pending : Brings(c) => c.backs = <<c.backs[1]>>

\* The edge e is a join or a shift of items in the chart.
DrawnBy(e) ==
  \/ \E w, c \in Items : Abs!Joins(w, c) /\ e = Joined(w, c)
  \/ \E w \in Items : Abs!Shifts(w) /\ e = Shifted(w)

\* An edge is drawn when it is due and not before.
EdgesDue ==
  \A e \in Drawn :
    /\ DrawnBy(e)
    /\ e[2].child # Null /\ e[2].child.origin # e[2].child.pos => Settled(e[2].child)
    /\ e[2].child = Null => Compared(e[2].prev)

\* No edge is recorded twice, and none that is recorded is drawn again.
DrawnOnce ==
  /\ \A it \in Items : NoDuplicate(backs[it])
  /\ NoneTwice(work)
  /\ Edges \cap Promised = {}

FullInv ==
  /\ Inv /\ Forward /\ EveryListed /\ ListedOnce /\ Progress
  /\ PredictionsDrawn /\ ScansDrawn /\ JoinsDrawn
  /\ CallsSingle /\ EdgesDue /\ DrawnOnce
  /\ ExpectedDrawn

-----------------------------------------------------------------------------
(* Pushing and popping frames                                              *)

\* The frames of a work list with one more on it.
LEMMA PushedFrames ==
  ASSUME NEW S, NEW cs \in Seq(S), NEW ws \in Seq(Seq(S))
  PROVE  /\ <<cs>> \o ws \in Seq(Seq(S))
         /\ Len(ws) \in Nat /\ DOMAIN ws = 1..Len(ws)
         /\ DOMAIN (<<cs>> \o ws) = 1..(Len(ws) + 1)
         /\ Len(<<cs>> \o ws) = Len(ws) + 1
         /\ (<<cs>> \o ws)[1] = cs
         /\ \A f \in 1..Len(ws) : (<<cs>> \o ws)[f + 1] = ws[f]
<1>1. /\ <<cs>> \in Seq(Seq(S)) /\ Len(<<cs>>) = 1 /\ <<cs>>[1] = cs
  OBVIOUS
<1>2. /\ Len(ws) \in Nat /\ DOMAIN ws = 1..Len(ws)
  BY LenProperties
<1>3. /\ <<cs>> \o ws \in Seq(Seq(S))
      /\ Len(<<cs>> \o ws) = 1 + Len(ws)
      /\ \A f \in 1..(1 + Len(ws)) :
           (<<cs>> \o ws)[f] = IF f <= 1 THEN <<cs>>[f] ELSE ws[f - 1]
  BY <1>1, ConcatProperties
<1>4. DOMAIN (<<cs>> \o ws) = 1..Len(<<cs>> \o ws)
  BY <1>3, LenProperties
<1>5. \A f \in 1..Len(ws) : (<<cs>> \o ws)[f + 1] = ws[f]
  BY <1>2, <1>3
<1> QED BY <1>1, <1>2, <1>3, <1>4, <1>5

LEMMA PushedCalls ==
  ASSUME NEW S, NEW cs \in Seq(S), NEW ws \in Seq(Seq(S))
  PROVE  Calls(<<cs>> \o ws) = Range(cs) \cup Calls(ws)
<1> DEFINE v == <<cs>> \o ws
<1>1. /\ Len(ws) \in Nat /\ DOMAIN ws = 1..Len(ws) /\ DOMAIN v = 1..(Len(ws) + 1)
      /\ v[1] = cs /\ \A f \in 1..Len(ws) : v[f + 1] = ws[f]
  BY PushedFrames
<1> HIDE DEF v
<1>2. ASSUME NEW f \in DOMAIN v, f # 1
      PROVE  f - 1 \in DOMAIN ws /\ v[f] = ws[f - 1]
  <2>1. f - 1 \in 1..Len(ws) /\ (f - 1) + 1 = f
    BY <1>1, <1>2
  <2> QED BY <1>1, <2>1
<1>3. Calls(v) \subseteq Range(cs) \cup Calls(ws)
  BY <1>1, <1>2 DEF Calls
<1>4. Range(cs) \subseteq Calls(v)
  <2>1. 1 \in DOMAIN v
    BY <1>1
  <2> QED BY <1>1, <2>1 DEF Calls
<1>5. Calls(ws) \subseteq Calls(v)
  <2>1. \A f \in DOMAIN ws : f + 1 \in DOMAIN v /\ v[f + 1] = ws[f]
    BY <1>1
  <2> QED BY <2>1 DEF Calls
<1>6. Calls(v) = Range(cs) \cup Calls(ws)
  BY <1>3, <1>4, <1>5
<1> QED BY <1>6 DEF v

\* No two calls of the list that bring an edge are the same.
Once(cs) == \A k, l \in DOMAIN cs : k # l /\ Brings(cs[k]) => cs[k] # cs[l]

LEMMA PushedOnce ==
  ASSUME NEW S, NEW cs \in Seq(S), NEW ws \in Seq(Seq(S)),
         NoneTwice(ws), Once(cs),
         \A c \in Range(cs) : Brings(c) => c \notin Calls(ws)
  PROVE  NoneTwice(<<cs>> \o ws)
<1> DEFINE v == <<cs>> \o ws
<1>1. /\ Len(ws) \in Nat /\ DOMAIN ws = 1..Len(ws) /\ DOMAIN v = 1..(Len(ws) + 1)
      /\ v[1] = cs /\ \A f \in 1..Len(ws) : v[f + 1] = ws[f]
  BY PushedFrames
<1> HIDE DEF v
<1>2. ASSUME NEW f \in DOMAIN v, f # 1
      PROVE  f - 1 \in DOMAIN ws /\ v[f] = ws[f - 1]
  <2>1. f - 1 \in 1..Len(ws) /\ (f - 1) + 1 = f
    BY <1>1, <1>2
  <2> QED BY <1>1, <2>1
<1>3. ASSUME NEW f \in DOMAIN v, NEW g \in DOMAIN v,
             NEW k \in DOMAIN v[f], NEW l \in DOMAIN v[g],
             f # g \/ k # l, Brings(v[f][k]), v[f][k] = v[g][l]
      PROVE  FALSE
  <2>1. CASE f = 1 /\ g = 1
    BY <1>1, <1>3, <2>1 DEF Once
  <2>2. CASE f = 1 /\ g # 1
    <3>1. v[f][k] \in Range(cs) /\ v[g][l] \in Calls(ws)
      BY <1>1, <1>2, <2>2 DEF Range, Calls
    <3> QED BY <1>3, <3>1
  <2>3. CASE f # 1 /\ g = 1
    <3>1. v[g][l] \in Range(cs) /\ v[f][k] \in Calls(ws)
      BY <1>1, <1>2, <2>3 DEF Range, Calls
    <3> QED BY <1>3, <3>1
  <2>4. CASE f # 1 /\ g # 1
    <3>1. /\ f - 1 \in DOMAIN ws /\ v[f] = ws[f - 1]
          /\ g - 1 \in DOMAIN ws /\ v[g] = ws[g - 1]
      BY <1>2, <2>4
    <3>2. f - 1 # g - 1 \/ k # l
      BY <1>1, <1>3
    <3> QED BY <1>3, <3>1, <3>2 DEF NoneTwice
  <2> QED BY <2>1, <2>2, <2>3, <2>4
<1>4. NoneTwice(v)
  BY <1>3 DEF NoneTwice
<1> QED BY <1>4 DEF v

\* The frames that are left once the innermost loop has made a call.
LEMMA RestFrames ==
  ASSUME NEW S, work \in Seq(Seq(S)), Calling
  PROVE  /\ Rest \in Seq(Seq(S))
         /\ Len(work) \in Nat \ {0} /\ DOMAIN work = 1..Len(work)
         /\ DOMAIN Rest = DOMAIN work
         /\ work[1] \in Seq(S) /\ Call = work[1][1] /\ 1 \in DOMAIN work[1]
         /\ \A k \in DOMAIN Rest[1] :
              k + 1 \in DOMAIN work[1] /\ Rest[1][k] = work[1][k + 1]
         /\ \A k \in DOMAIN work[1] \ {1} :
              k - 1 \in DOMAIN Rest[1] /\ Rest[1][k - 1] = work[1][k]
         /\ \A f \in DOMAIN work \ {1} : Rest[f] = work[f]
<1> DEFINE h == Head(work)  t == Tail(work)
<1>1. work # << >> /\ h # << >>
  BY DEF Calling
<1>2. h \in Seq(S) /\ t \in Seq(Seq(S)) /\ h = work[1]
      /\ Len(t) = Len(work) - 1 /\ \A f \in 1..Len(t) : t[f] = work[f + 1]
  BY <1>1, HeadTailProperties
<1>3. Len(work) \in Nat \ {0} /\ DOMAIN work = 1..Len(work)
  BY <1>1, EmptySeq, LenProperties
<1>4. /\ Tail(h) \in Seq(S) /\ Len(Tail(h)) = Len(h) - 1
      /\ \A k \in 1..Len(Tail(h)) : Tail(h)[k] = h[k + 1]
      /\ Call = h[1]
  BY <1>1, <1>2, HeadTailProperties DEF Call
<1>5. Len(h) \in Nat \ {0} /\ DOMAIN h = 1..Len(h) /\ DOMAIN Tail(h) = 1..Len(Tail(h))
  BY <1>1, <1>2, <1>4, EmptySeq, LenProperties
<1>6. Rest = <<Tail(h)>> \o t
  BY DEF Rest
<1> HIDE DEF h, t
<1>7. /\ Rest \in Seq(Seq(S))
      /\ DOMAIN Rest = 1..(Len(t) + 1)
      /\ Rest[1] = Tail(h)
      /\ \A f \in 1..Len(t) : Rest[f + 1] = t[f]
  BY <1>2, <1>4, <1>6, PushedFrames
<1>8. DOMAIN Rest = DOMAIN work
  BY <1>2, <1>3, <1>7
<1>9. \A f \in DOMAIN work \ {1} : Rest[f] = work[f]
  <2> SUFFICES ASSUME NEW f \in DOMAIN work \ {1} PROVE Rest[f] = work[f]
    OBVIOUS
  <2>1. Len(work) \in Nat /\ Len(t) = Len(work) - 1 /\ f \in 1..Len(work) /\ f # 1
    BY <1>2, <1>3
  <2>2. f - 1 \in 1..Len(t) /\ (f - 1) + 1 = f
    BY ONLY <2>1
  <2> QED BY <1>2, <1>7, <2>2
<1>10. \A k \in DOMAIN Rest[1] : k + 1 \in DOMAIN h /\ Rest[1][k] = h[k + 1]
  BY <1>4, <1>5, <1>7
<1>11. \A k \in DOMAIN h \ {1} : k - 1 \in DOMAIN Rest[1] /\ Rest[1][k - 1] = h[k]
  <2> SUFFICES ASSUME NEW k \in DOMAIN h \ {1}
               PROVE  k - 1 \in DOMAIN Rest[1] /\ Rest[1][k - 1] = h[k]
    OBVIOUS
  <2>1. k - 1 \in 1..Len(Tail(h)) /\ (k - 1) + 1 = k
    BY <1>4, <1>5
  <2> QED BY <1>4, <1>5, <1>7, <2>1
<1>12. 1 \in DOMAIN h
  BY <1>5
<1> QED BY <1>2, <1>3, <1>4, <1>7, <1>8, <1>9, <1>10, <1>11, <1>12

LEMMA RestCalls ==
  ASSUME NEW S, work \in Seq(Seq(S)), Calling
  PROVE  Pending = Calls(Rest) \cup {Call}
<1>1. /\ DOMAIN Rest = DOMAIN work /\ 1 \in DOMAIN work
      /\ Call = work[1][1] /\ 1 \in DOMAIN work[1]
      /\ \A k \in DOMAIN Rest[1] :
           k + 1 \in DOMAIN work[1] /\ Rest[1][k] = work[1][k + 1]
      /\ \A k \in DOMAIN work[1] \ {1} :
           k - 1 \in DOMAIN Rest[1] /\ Rest[1][k - 1] = work[1][k]
      /\ \A f \in DOMAIN work \ {1} : Rest[f] = work[f]
  BY RestFrames
<1>2. Range(work[1]) = Range(Rest[1]) \cup {Call}
  BY <1>1 DEF Range
<1>3. \A f \in DOMAIN work \ {1} : Range(Rest[f]) = Range(work[f])
  BY <1>1
<1>4. Calls(work) \subseteq Calls(Rest) \cup {Call}
  <2> SUFFICES ASSUME NEW f \in DOMAIN work, NEW c \in Range(work[f])
               PROVE  c \in Calls(Rest) \cup {Call}
    BY DEF Calls
  <2>1. c \in Range(Rest[f]) \cup {Call}
    BY <1>2, <1>3
  <2> QED BY <1>1, <2>1 DEF Calls
<1>5. Calls(Rest) \subseteq Calls(work)
  <2> SUFFICES ASSUME NEW f \in DOMAIN Rest, NEW c \in Range(Rest[f])
               PROVE  c \in Calls(work)
    BY DEF Calls
  <2>1. c \in Range(work[f])
    BY <1>1, <1>2, <1>3
  <2> QED BY <1>1, <2>1 DEF Calls
<1>6. Call \in Calls(work)
  BY <1>1, <1>2 DEF Calls
<1> QED BY <1>4, <1>5, <1>6 DEF Pending

LEMMA RestOnce ==
  ASSUME NEW S, work \in Seq(Seq(S)), Calling, NoneTwice(work)
  PROVE  NoneTwice(Rest) /\ (Brings(Call) => Call \notin Calls(Rest))
<1>1. /\ DOMAIN Rest = DOMAIN work /\ 1 \in DOMAIN work
      /\ Call = work[1][1] /\ 1 \in DOMAIN work[1] /\ DOMAIN work[1] \subseteq Nat
      /\ \A k \in DOMAIN Rest[1] :
           k + 1 \in DOMAIN work[1] /\ Rest[1][k] = work[1][k + 1]
      /\ \A f \in DOMAIN work \ {1} : Rest[f] = work[f]
  BY RestFrames, LenProperties
<1>2. DOMAIN Rest[1] \subseteq Nat \ {0}
  <2>1. Rest[1] \in Seq(S)
    BY <1>1, RestFrames, ElementOfSeq, LenProperties
  <2>2. DOMAIN Rest[1] = 1..Len(Rest[1]) /\ Len(Rest[1]) \in Nat
    BY <2>1, LenProperties
  <2> QED BY <2>2
\* Where the call at a place of the rest stands in work.
<1> DEFINE At(f, k) == IF f = 1 THEN k + 1 ELSE k
<1>3. \A f \in DOMAIN Rest : \A k \in DOMAIN Rest[f] :
        At(f, k) \in DOMAIN work[f] /\ Rest[f][k] = work[f][At(f, k)]
  BY <1>1
<1>4. \A k, l \in DOMAIN Rest[1] : k # l => k + 1 # l + 1
  BY <1>2
<1>5. \A f, g \in DOMAIN Rest : \A k \in DOMAIN Rest[f], l \in DOMAIN Rest[g] :
        (f # g \/ k # l) => (f # g \/ At(f, k) # At(g, l))
  BY <1>4
<1>6. NoneTwice(Rest)
  <2> SUFFICES ASSUME NEW f \in DOMAIN Rest, NEW g \in DOMAIN Rest,
                      NEW k \in DOMAIN Rest[f], NEW l \in DOMAIN Rest[g],
                      f # g \/ k # l, Brings(Rest[f][k])
               PROVE  Rest[f][k] # Rest[g][l]
    BY DEF NoneTwice
  <2>1. /\ At(f, k) \in DOMAIN work[f] /\ Rest[f][k] = work[f][At(f, k)]
        /\ At(g, l) \in DOMAIN work[g] /\ Rest[g][l] = work[g][At(g, l)]
    BY <1>3
  <2>2. f # g \/ At(f, k) # At(g, l)
    BY <1>5
  <2> HIDE DEF At
  <2>3. Brings(work[f][At(f, k)])
    BY <2>1
  <2>4. work[f][At(f, k)] # work[g][At(g, l)]
    BY <1>1, <2>1, <2>2, <2>3 DEF NoneTwice
  <2> QED BY <2>1, <2>4
<1>7. \A f \in DOMAIN Rest : \A k \in DOMAIN Rest[f] : 1 # f \/ 1 # At(f, k)
  BY <1>2
<1>8. Brings(Call) => \A f \in DOMAIN Rest : \A k \in DOMAIN Rest[f] : Call # Rest[f][k]
  BY <1>1, <1>3, <1>7 DEF NoneTwice
<1> QED BY <1>6, <1>8 DEF Calls, Range

\* A loop that has made all its calls leaves none behind.
LEMMA ReturnCalls ==
  ASSUME NEW S, NEW ws \in Seq(Seq(S)), ws # << >>, Range(Head(ws)) = {}
  PROVE  /\ Calls(Tail(ws)) = Calls(ws)
         /\ NoneTwice(ws) => NoneTwice(Tail(ws))
<1> DEFINE t == Tail(ws)
<1>1. /\ t \in Seq(Seq(S)) /\ Len(t) = Len(ws) - 1
      /\ \A f \in 1..Len(t) : t[f] = ws[f + 1]
  BY HeadTailProperties
<1>2. /\ Len(ws) \in Nat /\ DOMAIN ws = 1..Len(ws)
      /\ Len(t) \in Nat /\ DOMAIN t = 1..(Len(ws) - 1)
  BY <1>1, LenProperties
<1> HIDE DEF t
<1>3. \A f \in DOMAIN t : f + 1 \in DOMAIN ws /\ t[f] = ws[f + 1]
  BY <1>1, <1>2
<1>4. ASSUME NEW f \in DOMAIN ws, f # 1
      PROVE  f - 1 \in DOMAIN t /\ t[f - 1] = ws[f]
  <2>1. Len(ws) \in Nat /\ Len(t) = Len(ws) - 1 /\ f \in 1..Len(ws) /\ f # 1
    BY <1>1, <1>2, <1>4
  <2>2. f - 1 \in 1..Len(t) /\ (f - 1) + 1 = f
    BY ONLY <2>1
  <2> QED BY <1>1, <1>2, <2>2
<1>5. Range(ws[1]) = {}
  BY HeadTailProperties
<1>6. Calls(ws) \subseteq Calls(t)
  BY <1>4, <1>5 DEF Calls
<1>7. Calls(t) \subseteq Calls(ws)
  BY <1>3 DEF Calls
<1>8. ASSUME NoneTwice(ws)
      PROVE  NoneTwice(t)
  <2>1. \A f, g \in DOMAIN t : f # g => f + 1 # g + 1
    BY <1>2
  <2> QED BY <1>3, <1>8, <2>1 DEF NoneTwice
<1> QED BY <1>6, <1>7, <1>8 DEF t

LEMMA OneFrame ==
  ASSUME NEW cs
  PROVE  /\ Calls(<<cs>>) = Range(cs)
         /\ Once(cs) => NoneTwice(<<cs>>)
<1>1. DOMAIN <<cs>> = {1} /\ <<cs>>[1] = cs
  OBVIOUS
<1>2. Calls(<<cs>>) = Range(cs)
  BY <1>1 DEF Calls
<1>3. Once(cs) => NoneTwice(<<cs>>)
  BY <1>1 DEF NoneTwice, Once
<1> QED BY <1>2, <1>3

LEMMA NoFrame == Calls(<< >>) = {} /\ NoneTwice(<< >>) /\ Range(<< >>) = {}
BY DEF Calls, NoneTwice, Range

-----------------------------------------------------------------------------
(* What the loops call                                                     *)

\* The fields of the back pointers that the edges carry.
LEMMA EdgeFields ==
  ASSUME NEW w, NEW c
  PROVE  /\ Joined(w, c)[1] = Advanced(w, c.pos)
         /\ Joined(w, c)[2].prev = w /\ Joined(w, c)[2].child = c
         /\ Shifted(w)[1] = Advanced(w, w.pos + 1)
         /\ Shifted(w)[2].prev = w /\ Shifted(w)[2].child = Null
         /\ Shifted(w)[2].token = w.pos
BY DEF Joined, Shifted, ChildBack, TokenBack

LEMMA JoinCall ==
  ASSUME NEW w \in Item, NEW c \in Item
  PROVE  /\ AddJoined(w, c) \in AddCall
         /\ AddJoined(w, c).item = Advanced(w, c.pos)
         /\ Brings(AddJoined(w, c))
         /\ AddJoined(w, c).backs = <<AddJoined(w, c).backs[1]>>
         /\ EdgeOf(AddJoined(w, c)) = Joined(w, c)
<1>1. ChildBack(w, c) \in Back
  BY DEF ChildBack, Back
<1>2. <<ChildBack(w, c)>> \in Seq(Back) /\ <<ChildBack(w, c)>>[1] = ChildBack(w, c)
      /\ <<ChildBack(w, c)>> # << >>
  BY <1>1
<1>3. Advanced(w, c.pos) \in Item
  BY DEF Advanced, Item
<1> QED BY <1>2, <1>3 DEF AddJoined, AddCall, Brings, EdgeOf, Joined

LEMMA ScanCall ==
  ASSUME NEW w \in Item
  PROVE  /\ AddScanned(w, w.pos) \in AddCall
         /\ AddScanned(w, w.pos).item = Advanced(w, w.pos + 1)
         /\ Brings(AddScanned(w, w.pos))
         /\ AddScanned(w, w.pos).backs = <<AddScanned(w, w.pos).backs[1]>>
         /\ EdgeOf(AddScanned(w, w.pos)) = Shifted(w)
<1>1. TokenBack(w, w.pos) \in Back
  BY DEF TokenBack, Back, Item
<1>2. <<TokenBack(w, w.pos)>> \in Seq(Back)
      /\ <<TokenBack(w, w.pos)>>[1] = TokenBack(w, w.pos)
      /\ <<TokenBack(w, w.pos)>> # << >>
  BY <1>1
<1>3. Advanced(w, w.pos + 1) \in Item
  BY DEF Advanced, Item
<1> QED BY <1>2, <1>3 DEF AddScanned, AddCall, Brings, EdgeOf, Shifted

\* The items that wait at p for the symbol r, and those that are the rule r
\* completed over nothing at p.
Waits(p, r) == {w \in Items : w.pos = p /\ Dotted(grammar, w) = r}
Empties(p, r) ==
  {c \in Items : c.pos = p /\ c.origin = p /\ c.rule = r /\ Completed(grammar, c)}

\* The tables hold these items, each one once.
LEMMA WaitingHolds ==
  ASSUME Inv, EveryListed, ListedOnce, NEW p, NEW r \in Symbols
  PROVE  /\ Lookup(waiting, <<p, r>>) \in Seq(Item)
         /\ Range(Lookup(waiting, <<p, r>>)) = Waits(p, r)
         /\ NoDuplicate(Lookup(waiting, <<p, r>>))
<1> DEFINE ws == Lookup(waiting, <<p, r>>)
<1>1. ws \in Seq(WaitingItems(grammar, Items, <<p, r>>))
  BY EmptySeq DEF Lookup, Inv, ChartInvariant, TablesAgree
<1>2. WaitingItems(grammar, Items, <<p, r>>) = Waits(p, r) /\ Waits(p, r) \subseteq Item
  BY InvItems DEF WaitingItems, Waits
<1>3. Range(ws) \subseteq Waits(p, r)
  BY <1>1, <1>2, LenProperties, ElementOfSeq DEF Range
<1>4. Waits(p, r) \subseteq Range(ws)
  BY GrammarAssumption DEF Waits, EveryListed, Completed
<1>5. NoDuplicate(ws)
  BY DEF ListedOnce, NoDuplicate, Lookup
<1> QED BY <1>1, <1>2, <1>3, <1>4, <1>5, SeqMonotonic

LEMMA NullableHolds ==
  ASSUME Inv, EveryListed, ListedOnce, NEW p, NEW r
  PROVE  /\ Lookup(nullable, <<p, r>>) \in Seq(Item)
         /\ Range(Lookup(nullable, <<p, r>>)) = Empties(p, r)
         /\ NoDuplicate(Lookup(nullable, <<p, r>>))
<1> DEFINE cs == Lookup(nullable, <<p, r>>)
<1>1. cs \in Seq(NullableItems(grammar, Items, <<p, r>>))
  BY EmptySeq DEF Lookup, Inv, ChartInvariant, TablesAgree
<1>2. NullableItems(grammar, Items, <<p, r>>) = Empties(p, r)
      /\ Empties(p, r) \subseteq Item
  BY InvItems DEF NullableItems, Empties
<1>3. Range(cs) \subseteq Empties(p, r)
  BY <1>1, <1>2, LenProperties, ElementOfSeq DEF Range
<1>4. Empties(p, r) \subseteq Range(cs)
  BY DEF Empties, EveryListed
<1>5. NoDuplicate(cs)
  BY DEF ListedOnce, NoDuplicate, Lookup
<1> QED BY <1>1, <1>2, <1>3, <1>4, <1>5, SeqMonotonic

\* What complete calls for c: every item that waits for it, and each one once.
LEMMA CompletionsCalls ==
  ASSUME Inv, EveryListed, ListedOnce, NEW c \in Item
  PROVE  /\ Completions(c, waiting) \in Seq(AddCall)
         /\ Range(Completions(c, waiting)) =
              {AddJoined(w, c) : w \in Waits(c.origin, c.rule)}
         /\ Once(Completions(c, waiting))
<1> DEFINE ws == Lookup(waiting, <<c.origin, c.rule>>)
           cs == Completions(c, waiting)
<1>1. /\ ws \in Seq(Item) /\ Range(ws) = Waits(c.origin, c.rule) /\ NoDuplicate(ws)
  BY WaitingHolds DEF Item, Symbols
<1>2. /\ Len(ws) \in Nat /\ DOMAIN ws = 1..Len(ws)
      /\ \A k \in 1..Len(ws) : ws[k] \in Item
  BY <1>1, LenProperties, ElementOfSeq
<1>3. cs = [k \in 1..Len(ws) |-> AddJoined(ws[k], c)]
  BY DEF Completions
<1> HIDE DEF ws, cs
<1>4. /\ DOMAIN cs = 1..Len(ws) /\ \A k \in 1..Len(ws) : cs[k] = AddJoined(ws[k], c)
  BY <1>3
<1>5. \A k \in 1..Len(ws) : cs[k] \in AddCall
  BY <1>2, <1>4, JoinCall
<1>6. cs \in Seq(AddCall)
  BY <1>2, <1>3, <1>4, <1>5, ListIsSeq
<1>7. Range(cs) = {AddJoined(w, c) : w \in Range(ws)}
  BY <1>2, <1>4 DEF Range
<1>8. ASSUME NEW k \in DOMAIN cs, NEW l \in DOMAIN cs, k # l
      PROVE  cs[k] # cs[l]
  <2>1. ws[k] # ws[l] /\ ws[k] \in Item /\ ws[l] \in Item
    BY <1>1, <1>2, <1>4, <1>8 DEF NoDuplicate
  <2>2. Joined(ws[k], c) # Joined(ws[l], c)
    BY <2>1, EdgeFields
  <2> QED BY <1>4, <2>1, <2>2, JoinCall
<1> QED BY <1>1, <1>6, <1>7, <1>8 DEF cs, Once

\* What drain calls for w: every rule it waits for that is completed over
\* nothing where w ends, and each one once.
LEMMA DrainedCalls ==
  ASSUME Inv, EveryListed, ListedOnce, NEW w \in Item
  PROVE  /\ Drained(w, nullable) \in Seq(AddCall)
         /\ Range(Drained(w, nullable)) =
              {AddJoined(w, c) : c \in Empties(w.pos, Dotted(grammar, w))}
         /\ Once(Drained(w, nullable))
<1> DEFINE ds == Lookup(nullable, <<w.pos, Dotted(grammar, w)>>)
           cs == Drained(w, nullable)
<1>1. /\ ds \in Seq(Item) /\ Range(ds) = Empties(w.pos, Dotted(grammar, w))
      /\ NoDuplicate(ds)
  BY NullableHolds
<1>2. /\ Len(ds) \in Nat /\ DOMAIN ds = 1..Len(ds)
      /\ \A k \in 1..Len(ds) : ds[k] \in Item
  BY <1>1, LenProperties, ElementOfSeq
<1>3. cs = [k \in 1..Len(ds) |-> AddJoined(w, ds[k])]
  BY DEF Drained
<1> HIDE DEF ds, cs
<1>4. /\ DOMAIN cs = 1..Len(ds) /\ \A k \in 1..Len(ds) : cs[k] = AddJoined(w, ds[k])
  BY <1>3
<1>5. \A k \in 1..Len(ds) : cs[k] \in AddCall
  BY <1>2, <1>4, JoinCall
<1>6. cs \in Seq(AddCall)
  BY <1>2, <1>3, <1>4, <1>5, ListIsSeq
<1>7. Range(cs) = {AddJoined(w, c) : c \in Range(ds)}
  BY <1>2, <1>4 DEF Range
<1>8. ASSUME NEW k \in DOMAIN cs, NEW l \in DOMAIN cs, k # l
      PROVE  cs[k] # cs[l]
  <2>1. ds[k] # ds[l] /\ ds[k] \in Item /\ ds[l] \in Item
    BY <1>1, <1>2, <1>4, <1>8 DEF NoDuplicate
  <2>2. Joined(w, ds[k]) # Joined(w, ds[l])
    BY <2>1, EdgeFields
  <2> QED BY <1>4, <2>1, <2>2, JoinCall
<1> QED BY <1>1, <1>6, <1>7, <1>8 DEF cs, Once

\* What predict and start call: every alternative of the rule, with no edge.
LEMMA PredictionsCalls ==
  ASSUME grammar \in Grammars, NEW r, NEW p
  PROVE  /\ {c.item : c \in Range(Predictions(r, p))} = Wanted(r, p)
         /\ \A c \in Range(Predictions(r, p)) : ~ Brings(c)
<1>1. CASE r \notin DOMAIN grammar.rules
  BY <1>1, NoFrame DEF Predictions, Wanted
<1>2. CASE r \in DOMAIN grammar.rules
  <2> DEFINE n  == Len(grammar.rules[r])
             cs == Predictions(r, p)
  <2>1. cs = [k \in 1..n |-> AddPredicted(r, k, p)]
    BY <1>2 DEF Predictions
  <2>2. Wanted(r, p) = {Predicted(r, k, p) : k \in 1..n}
    BY <1>2 DEF Wanted
  <2> HIDE DEF n, cs
  <2>3. DOMAIN cs = 1..n /\ \A k \in 1..n : cs[k] = AddPredicted(r, k, p)
    BY <2>1
  <2>4. Range(cs) = {AddPredicted(r, k, p) : k \in 1..n}
    BY <2>3 DEF Range
  <2>5. \A k \in 1..n : /\ AddPredicted(r, k, p).item = Predicted(r, k, p)
                        /\ ~ Brings(AddPredicted(r, k, p))
    BY DEF AddPredicted, Brings
  <2> QED BY <2>2, <2>4, <2>5 DEF cs
<1> QED BY <1>1, <1>2

-----------------------------------------------------------------------------
(* Lists that grow                                                         *)

LEMMA AppendOnce ==
  ASSUME NEW S, NEW list \in Seq(S), NEW x \in S
  PROVE  /\ Range(Append(list, x)) = Range(list) \cup {x}
         /\ NoDuplicate(list) /\ x \notin Range(list) => NoDuplicate(Append(list, x))
<1> DEFINE a == Append(list, x)
<1>1. /\ a \in Seq(S) /\ Len(a) = Len(list) + 1 /\ a[Len(list) + 1] = x
      /\ \A n \in 1..Len(list) : a[n] = list[n]
  BY AppendProperties
<1>2. /\ Len(list) \in Nat /\ DOMAIN list = 1..Len(list)
      /\ DOMAIN a = 1..(Len(list) + 1)
  BY <1>1, LenProperties
<1> HIDE DEF a
<1>3. Range(a) = Range(list) \cup {x}
  <2>1. DOMAIN a = DOMAIN list \cup {Len(list) + 1}
    BY <1>2
  <2> QED BY <1>1, <1>2, <2>1 DEF Range
<1>4. ASSUME NoDuplicate(list), x \notin Range(list)
      PROVE  NoDuplicate(a)
  <2>1. \A n \in DOMAIN a : n \in DOMAIN list \/ n = Len(list) + 1
    BY <1>2
  <2>2. \A n \in DOMAIN list : a[n] = list[n] /\ a[n] # x
    BY <1>1, <1>2, <1>4 DEF Range
  <2> QED BY <1>1, <1>4, <2>1, <2>2 DEF NoDuplicate
<1> QED BY <1>3, <1>4 DEF a

\* The list under a key, once an item is pushed under some key.
LEMMA PushLookup ==
  ASSUME NEW table, NEW key, NEW item, NEW k
  PROVE  Lookup(Push(table, key, item), k) =
           IF k = key THEN Append(Lookup(table, key), item) ELSE Lookup(table, k)
BY DEF Lookup, Push

\* A table whose lists hold no item twice stays one when an item is pushed that
\* none of them holds.
LEMMA PushOnce ==
  ASSUME NEW S, NEW table, NEW key, NEW item \in S,
         Lookup(table, key) \in Seq(S), item \notin Range(Lookup(table, key)),
         \A k \in DOMAIN table : NoDuplicate(table[k])
  PROVE  /\ \A k \in DOMAIN Push(table, key, item) :
              NoDuplicate(Push(table, key, item)[k])
         /\ \A k : Range(Lookup(table, k))
                     \subseteq Range(Lookup(Push(table, key, item), k))
         /\ item \in Range(Lookup(Push(table, key, item), key))
<1>1. NoDuplicate(Lookup(table, key))
  BY DEF Lookup, NoDuplicate
<1>2. /\ NoDuplicate(Append(Lookup(table, key), item))
      /\ Range(Append(Lookup(table, key), item)) =
           Range(Lookup(table, key)) \cup {item}
  BY <1>1, AppendOnce
<1>3. ASSUME NEW k \in DOMAIN Push(table, key, item)
      PROVE  NoDuplicate(Push(table, key, item)[k])
  BY <1>2, <1>3 DEF Push
<1>4. ASSUME NEW k
      PROVE  Range(Lookup(table, k)) \subseteq Range(Lookup(Push(table, key, item), k))
  <2>1. CASE k = key
    <3>1. Lookup(Push(table, key, item), k) = Append(Lookup(table, key), item)
      BY <2>1, PushLookup
    <3> QED BY <1>2, <2>1, <3>1
  <2>2. CASE k # key
    <3>1. Lookup(Push(table, key, item), k) = Lookup(table, k)
      BY <2>2, PushLookup
    <3> QED BY <3>1
  <2> QED BY <2>1, <2>2
<1>5. item \in Range(Lookup(Push(table, key, item), key))
  <2>1. Lookup(Push(table, key, item), key) = Append(Lookup(table, key), item)
    BY PushLookup
  <2> QED BY <1>2, <2>1
<1> QED BY <1>3, <1>4, <1>5

-----------------------------------------------------------------------------
(* An add call                                                             *)

LEMMA Adding ==
  ASSUME FullInv, Add
  PROVE  /\ Calling /\ UNCHANGED <<grammar, tokens, i, cursor, expected, pc>>
         /\ pc \in {"loop", "visit", "advance"} /\ Here' = Here
         /\ Call \in Due(grammar, tokens, Items, Here)
         /\ Call \in AddCall /\ Call \in Pending
         /\ Call.item \in Item /\ Call.item.pos = Here
         /\ Brings(Call) => Call.backs = <<Call.backs[1]>>
         /\ Pending = Calls(Rest) \cup {Call}
         /\ Rest \in Seq(Seq(AddCall))
         /\ NoneTwice(Rest) /\ (Brings(Call) => Call \notin Calls(Rest))
         /\ Items' = Items \cup {Call.item}
         /\ Edges' = Edges \cup (IF Brings(Call) THEN {EdgeOf(Call)} ELSE {})
<1>1. Calling /\ UNCHANGED <<grammar, tokens, i, cursor, expected, pc>>
  BY DEF Add, AddMerge, AddCompleted, AddNullable, AddWaiting, AddNew, Unmoved
<1>2. pc \in {"loop", "visit", "advance"} /\ Here' = Here
  BY <1>1 DEF Calling, FullInv, Inv, ChartInvariant, ControlOK, TypeOK, Labels, Here
<1>3. /\ Call \in Due(grammar, tokens, Items, Here) /\ Call \in AddCall
      /\ Call.item \in Item /\ Call.item.pos = Here
  BY <1>1, CallingDue DEF FullInv, Due
<1>4. work \in Seq(Seq(AddCall))
  BY DEF FullInv, Inv, TypeOK
<1>5. Pending = Calls(Rest) \cup {Call} /\ Rest \in Seq(Seq(AddCall))
  BY <1>1, <1>4, RestCalls, RestFrames
<1>6. Brings(Call) => Call.backs = <<Call.backs[1]>>
  BY <1>5 DEF FullInv, CallsSingle
<1>7. NoneTwice(Rest) /\ (Brings(Call) => Call \notin Calls(Rest))
  BY <1>1, <1>4, RestOnce DEF FullInv, DrawnOnce
<1>8. {Call.item} \X Range(Call.backs) = IF Brings(Call) THEN {EdgeOf(Call)} ELSE {}
  <2>1. CASE Brings(Call)
    <3> DEFINE b == Call.backs[1]
    <3>1. Call.backs = <<b>>
      BY <1>6, <2>1
    <3> HIDE DEF b
    <3>2. Range(Call.backs) = {b}
      BY <3>1 DEF Range
    <3> QED BY <2>1, <3>2 DEF EdgeOf, b
  <2>2. CASE ~ Brings(Call)
    BY <2>2, NoFrame DEF Brings
  <2> QED BY <2>1, <2>2
<1>9. /\ Items' = Items \cup {Call.item}
      /\ Edges' = Edges \cup (IF Brings(Call) THEN {EdgeOf(Call)} ELSE {})
  BY <1>8, AddBrings DEF FullInv
<1> QED BY <1>1, <1>2, <1>3, <1>5, <1>6, <1>7, <1>9

\* The items of a list of the path are those that end there.
LEMMA PathHolds ==
  ASSUME Inv, EveryListed, NEW p \in DOMAIN path
  PROVE  /\ path[p] \in Seq(Item)
         /\ Range(path[p]) = PathItems(Items, p)
         /\ DOMAIN path[p] = 1..Len(path[p]) /\ Len(path[p]) \in Nat
<1>1. path[p] \in Seq(PathItems(Items, p)) /\ PathItems(Items, p) \subseteq Item
  BY InvItems DEF Inv, ChartInvariant, TablesAgree, PathItems
<1>2. path[p] \in Seq(Item)
  BY <1>1, SeqMonotonic
<1>3. Range(path[p]) \subseteq PathItems(Items, p)
  BY <1>1, LenProperties, ElementOfSeq DEF Range
<1>4. PathItems(Items, p) \subseteq Range(path[p])
  BY DEF PathItems, EveryListed
<1> QED BY <1>2, <1>3, <1>4, LenProperties

\* What a loop has passed are items of path[i].
LEMMA PassedItems ==
  ASSUME FullInv, pc \in {"visit", "advance"}
  PROVE  /\ i \in DOMAIN path
         /\ 1..(cursor - 1) \subseteq DOMAIN path[i]
         /\ Passed \subseteq PathItems(Items, i)
<1>1. /\ i \in DOMAIN path /\ cursor \in Nat /\ cursor >= 1
      /\ cursor <= Len(path[i]) + 1
  BY DEF FullInv, Inv, TypeOK, ChartInvariant, ControlOK, Progress
<1>2. /\ DOMAIN path[i] = 1..Len(path[i]) /\ Len(path[i]) \in Nat
      /\ Range(path[i]) = PathItems(Items, i)
  BY <1>1, PathHolds DEF FullInv
<1>3. 1..(cursor - 1) \subseteq DOMAIN path[i]
  BY <1>1, <1>2
<1>4. Passed \subseteq Range(path[i])
  BY <1>3 DEF Passed, Range
<1> QED BY <1>1, <1>2, <1>3, <1>4

\* An add call moves nothing construct has come past: the item it adds is new
\* where construct is, or where the scan puts it.
LEMMA AddKeepsPassed ==
  ASSUME FullInv, Add
  PROVE  /\ pc \in {"visit", "advance"} => Passed' = Passed
         /\ \A it : Settled(it)' <=> Settled(it)
         /\ \A it : Compared(it)' <=> Compared(it)
         /\ Call.item \notin Items => ~ Settled(Call.item) /\ ~ Compared(Call.item)
         /\ pc \in {"visit", "advance"} => Len(path[i]) <= Len(path[i])'
<1>1. /\ UNCHANGED <<i, cursor, pc>> /\ Call.item.pos = Here /\ Call.item \in Item
      /\ pc \in {"loop", "visit", "advance"} /\ i \in Nat
  BY Adding DEF FullInv, Inv, TypeOK
<1>2. CASE pc = "loop"
  BY <1>1, <1>2 DEF Settled, Compared, Here
<1>3. CASE pc \in {"visit", "advance"}
  <2>1. /\ i \in DOMAIN path /\ 1..(cursor - 1) \subseteq DOMAIN path[i]
        /\ Passed \subseteq PathItems(Items, i)
        /\ path[i] \in Seq(Item) /\ DOMAIN path[i] = 1..Len(path[i])
        /\ Len(path[i]) \in Nat
    BY <1>3, PassedItems, PathHolds DEF FullInv
  <2>2. \/ path'[i] = path[i]
        \/ path'[i] = Append(path[i], Call.item) /\ pc = "visit" /\ Call.item \notin Items
    <3>1. CASE AddMerge
      BY <3>1 DEF AddMerge
    <3>2. CASE AddNew
      <4>1. path' = Push(path, Here, Call.item) /\ Call.item \notin Items
        BY <1>1, <3>2 DEF AddNew, Items
      <4>2. Here = IF pc = "advance" THEN i + 1 ELSE i
        BY DEF Here
      <4>3. CASE pc = "visit"
        BY <1>1, <2>1, <4>1, <4>2, <4>3 DEF Push, Lookup
      <4>4. CASE pc = "advance"
        <5>1. i # Here
          BY <1>1, <4>2, <4>4
        <5> QED BY <2>1, <4>1, <5>1 DEF Push
      <4> QED BY <1>3, <4>3, <4>4
    <3> QED BY <3>1, <3>2 DEF Add, AddCompleted, AddNullable, AddWaiting
  <2>3. /\ \A n \in DOMAIN path[i] : path'[i][n] = path[i][n]
        /\ Len(path[i]) <= Len(path'[i])
    <3>1. CASE path'[i] = path[i]
      BY <2>1, <3>1
    <3>2. CASE path'[i] = Append(path[i], Call.item)
      BY <1>1, <2>1, <3>2, AppendProperties
    <3> QED BY <2>2, <3>1, <3>2
  <2>4. Passed' = {path'[i][n] : n \in 1..(cursor - 1)}
    BY <1>1 DEF Passed
  <2>5. Passed' = Passed
    BY <2>1, <2>3, <2>4 DEF Passed
  <2>6. \A it : (Settled(it)' <=> Settled(it)) /\ (Compared(it)' <=> Compared(it))
    BY <1>1, <2>5 DEF Settled, Compared
  <2>7. ASSUME Call.item \notin Items
        PROVE  ~ Settled(Call.item) /\ ~ Compared(Call.item)
    <3>1. Call.item \notin Passed
      BY <2>1, <2>7 DEF PathItems
    <3> QED BY <1>1, <1>3, <3>1 DEF Settled, Compared, Here
  <2>8. Len(path[i])' = Len(path'[i])
    BY <1>1
  <2> QED BY <2>3, <2>5, <2>6, <2>7, <2>8
<1> QED BY <1>1, <1>2, <1>3

\* An item begins no later than it ends.
LEMMA DueForward ==
  ASSUME Inv, Forward, NEW c \in Due(grammar, tokens, Items, Here)
  PROVE  c.item.origin <= c.item.pos
<1>1. c.item \in Item /\ Items \subseteq Item
  BY InvItems DEF Due, AddCall
<1>2. CASE DueToPredict(grammar, Items, c)
  BY <1>1, <1>2 DEF DueToPredict, AddPredicted, Predicted, Item
<1>3. CASE DueToJoin(grammar, Items, c)
  <2>1. PICK w, d \in Items : w.pos = d.origin /\ c = AddJoined(w, d)
    BY <1>3 DEF DueToJoin
  <2>2. c.item.origin = w.origin /\ c.item.pos = d.pos
    BY <2>1 DEF AddJoined, Advanced
  <2>3. w.origin <= w.pos /\ d.origin <= d.pos
    BY DEF Forward
  <2> QED BY <1>1, <2>1, <2>2, <2>3 DEF Item
<1>4. CASE DueToScan(grammar, tokens, Items, c)
  <2>1. PICK w \in Items : c = AddScanned(w, w.pos)
    BY <1>4 DEF DueToScan
  <2>2. c.item.origin = w.origin /\ c.item.pos = w.pos + 1
    BY <2>1 DEF AddScanned, Advanced
  <2>3. w.origin <= w.pos
    BY DEF Forward
  <2> QED BY <1>1, <2>1, <2>2, <2>3 DEF Item
<1> QED BY <1>2, <1>3, <1>4 DEF Due

LEMMA AddMergeLists ==
  ASSUME FullInv, AddMerge
  PROVE  EveryListed' /\ ListedOnce' /\ (DOMAIN path \subseteq 0..Here)'
<1>1. Add /\ UNCHANGED <<path, waiting, nullable>> /\ Call.item \in Items
  BY DEF Add, AddMerge, Items
<1>2. Items' = Items /\ grammar' = grammar /\ Here' = Here
  BY <1>1, Adding
<1> QED BY <1>1, <1>2 DEF FullInv, EveryListed, ListedOnce, Progress

\* The new item is put on the path, and nothing is lost from it.
LEMMA AddNewPath ==
  ASSUME FullInv, Add, AddNew
  PROVE  /\ Call.item \notin Items
         /\ \A p \in DOMAIN path' : NoDuplicate(path'[p])
         /\ (DOMAIN path \subseteq 0..Here)'
         /\ \A it \in Items' : it.pos \in DOMAIN path' /\ it \in Range(path'[it.pos])
<1>1. /\ Call.item \in Item /\ Call.item.pos = Here /\ Here' = Here /\ Here \in Nat
      /\ Items' = Items \cup {Call.item}
  BY Adding, InvItems DEF FullInv
<1>2. Call.item \notin Items /\ path' = Push(path, Here, Call.item)
  BY <1>1 DEF AddNew, Items
<1>3. /\ Lookup(path, Here) \in Seq(Item)
      /\ Call.item \notin Range(Lookup(path, Here))
  <2>1. CASE Here \in DOMAIN path
    BY <1>2, <2>1, PathHolds DEF Lookup, PathItems, FullInv
  <2>2. CASE Here \notin DOMAIN path
    BY <2>2, EmptySeq, NoFrame DEF Lookup
  <2> QED BY <2>1, <2>2
<1>4. \A p \in DOMAIN path : NoDuplicate(path[p])
  BY DEF FullInv, ListedOnce
<1>5. /\ \A p \in DOMAIN path' : NoDuplicate(path'[p])
      /\ \A p : Range(Lookup(path, p)) \subseteq Range(Lookup(path', p))
      /\ Call.item \in Range(Lookup(path', Here))
  BY <1>1, <1>2, <1>3, <1>4, PushOnce
<1>6. DOMAIN path' = DOMAIN path \cup {Here}
  BY <1>2 DEF Push
<1>7. (DOMAIN path \subseteq 0..Here)'
  BY <1>1, <1>6 DEF FullInv, Progress
<1>8. ASSUME NEW it \in Items'
      PROVE  it.pos \in DOMAIN path' /\ it \in Range(path'[it.pos])
  <2>1. CASE it \in Items
    <3>1. it.pos \in DOMAIN path /\ it \in Range(path[it.pos])
      BY <2>1 DEF FullInv, EveryListed
    <3>2. it \in Range(Lookup(path, it.pos))
      BY <3>1 DEF Lookup
    <3>3. it \in Range(Lookup(path', it.pos)) /\ it.pos \in DOMAIN path'
      BY <1>5, <1>6, <3>1, <3>2
    <3> QED BY <3>3 DEF Lookup
  <2>2. CASE it = Call.item
    BY <1>1, <1>5, <1>6, <2>2 DEF Lookup
  <2> QED BY <1>1, <2>1, <2>2
<1> QED BY <1>2, <1>5, <1>7, <1>8

\* The items known before stay where they are listed.
LEMMA ListedStays ==
  ASSUME FullInv, grammar' = grammar, NEW it \in Items,
         \A k : Range(Lookup(waiting, k)) \subseteq Range(Lookup(waiting', k)),
         \A k : Range(Lookup(nullable, k)) \subseteq Range(Lookup(nullable', k))
  PROVE  /\ ~ Completed(grammar', it) =>
              it \in Range(Lookup(waiting', <<it.pos, Dotted(grammar', it)>>))
         /\ Completed(grammar', it) /\ it.origin = it.pos =>
              it \in Range(Lookup(nullable', <<it.pos, it.rule>>))
BY DEF FullInv, EveryListed

LEMMA AddCompletedLists ==
  ASSUME FullInv, AddCompleted
  PROVE  EveryListed' /\ ListedOnce' /\ (DOMAIN path \subseteq 0..Here)'
<1>1. /\ Add /\ AddNew /\ UNCHANGED <<waiting, nullable>>
      /\ Completed(grammar, Call.item) /\ Call.item.origin # Call.item.pos
  BY DEF Add, AddCompleted
<1>2. Items' = Items \cup {Call.item} /\ grammar' = grammar
  BY <1>1, Adding
<1>3. \A it \in Items :
        /\ ~ Completed(grammar', it) =>
             it \in Range(Lookup(waiting', <<it.pos, Dotted(grammar', it)>>))
        /\ Completed(grammar', it) /\ it.origin = it.pos =>
             it \in Range(Lookup(nullable', <<it.pos, it.rule>>))
  BY <1>1, <1>2, ListedStays
<1>4. EveryListed'
  BY <1>1, <1>2, <1>3, AddNewPath DEF EveryListed
<1>5. ListedOnce'
  BY <1>1, AddNewPath DEF FullInv, ListedOnce
<1> QED BY <1>1, <1>4, <1>5, AddNewPath

LEMMA AddNullableLists ==
  ASSUME FullInv, AddNullable
  PROVE  EveryListed' /\ ListedOnce' /\ (DOMAIN path \subseteq 0..Here)'
<1> DEFINE key == <<Call.item.pos, Call.item.rule>>
<1>1. /\ Add /\ AddNew /\ UNCHANGED waiting
      /\ nullable' = Push(nullable, key, Call.item)
      /\ Completed(grammar, Call.item)
  BY DEF Add, AddNullable
<1>2. /\ Items' = Items \cup {Call.item} /\ grammar' = grammar
      /\ Call.item \in Item
  BY <1>1, Adding
<1>3. /\ Lookup(nullable, key) \in Seq(Item)
      /\ Call.item \notin Range(Lookup(nullable, key))
      /\ \A k \in DOMAIN nullable : NoDuplicate(nullable[k])
  BY <1>1, NullableHolds, AddNewPath DEF FullInv, Empties, ListedOnce
<1> HIDE DEF key
<1>4. /\ \A k \in DOMAIN nullable' : NoDuplicate(nullable'[k])
      /\ \A k : Range(Lookup(nullable, k)) \subseteq Range(Lookup(nullable', k))
      /\ Call.item \in Range(Lookup(nullable', key))
  BY <1>1, <1>2, <1>3, PushOnce
<1>5. \A it \in Items :
        /\ ~ Completed(grammar', it) =>
             it \in Range(Lookup(waiting', <<it.pos, Dotted(grammar', it)>>))
        /\ Completed(grammar', it) /\ it.origin = it.pos =>
             it \in Range(Lookup(nullable', <<it.pos, it.rule>>))
  BY <1>1, <1>2, <1>4, ListedStays
<1>6. EveryListed'
  BY <1>1, <1>2, <1>4, <1>5, AddNewPath DEF EveryListed, key
<1>7. ListedOnce'
  BY <1>1, <1>4, AddNewPath DEF FullInv, ListedOnce
<1> QED BY <1>1, <1>6, <1>7, AddNewPath

LEMMA AddWaitingLists ==
  ASSUME FullInv, AddWaiting
  PROVE  EveryListed' /\ ListedOnce' /\ (DOMAIN path \subseteq 0..Here)'
<1> DEFINE r == Dotted(grammar, Call.item)
           key == <<Call.item.pos, r>>
<1>1. /\ Add /\ AddNew /\ UNCHANGED nullable
      /\ waiting' = Push(waiting, key, Call.item)
      /\ ~ Completed(grammar, Call.item)
  BY DEF Add, AddWaiting
<1>2. /\ Items' = Items \cup {Call.item} /\ grammar' = grammar
      /\ Call.item \in Item /\ r \in Symbols
  <2>1. /\ Items' = Items \cup {Call.item} /\ grammar' = grammar
        /\ Call \in Due(grammar, tokens, Items, Here) /\ Call.item \in Item
    BY <1>1, Adding
  <2>2. Legal(grammar, Call.item) /\ grammar \in Grammars
    BY <2>1, InvItems DEF Due, FullInv
  <2>3. r \in Symbols
    BY <1>1, <2>1, <2>2, DottedType DEF Completed
  <2> QED BY <2>1, <2>3
<1> HIDE DEF r
<1>3. /\ Lookup(waiting, key) \in Seq(Item)
      /\ Call.item \notin Range(Lookup(waiting, key))
      /\ \A k \in DOMAIN waiting : NoDuplicate(waiting[k])
  BY <1>1, <1>2, WaitingHolds, AddNewPath DEF FullInv, Waits, ListedOnce
<1> HIDE DEF key
<1>4. /\ \A k \in DOMAIN waiting' : NoDuplicate(waiting'[k])
      /\ \A k : Range(Lookup(waiting, k)) \subseteq Range(Lookup(waiting', k))
      /\ Call.item \in Range(Lookup(waiting', key))
  BY <1>1, <1>2, <1>3, PushOnce
<1>5. \A it \in Items :
        /\ ~ Completed(grammar', it) =>
             it \in Range(Lookup(waiting', <<it.pos, Dotted(grammar', it)>>))
        /\ Completed(grammar', it) /\ it.origin = it.pos =>
             it \in Range(Lookup(nullable', <<it.pos, it.rule>>))
  BY <1>1, <1>2, <1>4, ListedStays
<1>6. EveryListed'
  BY <1>1, <1>2, <1>4, <1>5, AddNewPath DEF EveryListed, key, r
<1>7. ListedOnce'
  BY <1>1, <1>4, AddNewPath DEF FullInv, ListedOnce
<1> QED BY <1>1, <1>6, <1>7, AddNewPath

\* The part of the invariant about lists and progress.
Order == Forward /\ EveryListed /\ ListedOnce /\ Progress /\ ExpectedDrawn

LEMMA AddKeepsOrder == ASSUME FullInv, Add PROVE Order'
<1>1. EveryListed' /\ ListedOnce' /\ (DOMAIN path \subseteq 0..Here)'
  BY AddMergeLists, AddCompletedLists, AddNullableLists, AddWaitingLists DEF Add
<1>2. /\ Items' = Items \cup {Call.item} /\ pc \in {"loop", "visit", "advance"}
      /\ UNCHANGED <<grammar, cursor, expected, pc>>
      /\ Call \in Due(grammar, tokens, Items, Here)
  BY Adding
<1>3. Forward'
  BY <1>2, DueForward DEF FullInv, Forward
<1>4. pc \in {"visit", "advance"} => (cursor <= Len(path[i]) + 1)'
  <2> SUFFICES ASSUME pc \in {"visit", "advance"}
               PROVE  (cursor <= Len(path[i]) + 1)'
    OBVIOUS
  <2>1. Len(path[i]) <= Len(path[i])' /\ i \in DOMAIN path
    BY AddKeepsPassed, PassedItems
  <2>2. Len(path[i]) \in Nat /\ cursor \in Nat /\ cursor <= Len(path[i]) + 1
    BY <2>1, PathHolds DEF FullInv, Inv, TypeOK, Progress
  <2>3. Len(path[i])' \in Int
    <3>1. IsTable(path', Nat) /\ i' \in DOMAIN path'
      BY <1>1, <1>2, NextInv DEF FullInv, Inv, TypeOK, ChartInvariant, ControlOK, Next
    <3>2. path'[i'] \in Seq(Item)
      BY <3>1 DEF IsTable
    <3> QED BY <3>2, LenProperties
  <2> QED BY <1>2, <2>1, <2>2, <2>3
<1>5. Progress'
  BY <1>1, <1>2, <1>4 DEF Progress
<1>6. ExpectedDrawn'
  BY <1>2, AddKeepsPassed DEF FullInv, ExpectedDrawn
<1> QED BY <1>1, <1>3, <1>5, <1>6 DEF Order

-----------------------------------------------------------------------------
(* The edges an add call draws                                             *)

\* The rules of the deduction system, in terms of the chart.
LEMMA SameRules ==
  /\ \A w, c : Abs!Joins(w, c) <=>
       Completed(grammar, c) /\ Dotted(grammar, w) = c.rule /\ w.pos = c.origin
  /\ \A w : Abs!Shifts(w) <=>
       w.pos < Len(tokens) /\ Dotted(grammar, w) = tokens[w.pos + 1]
BY SameItems DEF Abs!Joins, Abs!Shifts

\* An edge in the chart, or promised, leads from items in the chart.
LEMMA DrawnItems ==
  ASSUME EdgesDue, NEW e \in Drawn
  PROVE  e[2].prev \in Items /\ (e[2].child = Null \/ e[2].child \in Items)
<1>1. CASE \E w, c \in Items : e = Joined(w, c)
  <2>1. PICK w \in Items, c \in Items : e = Joined(w, c)
    BY <1>1
  <2>2. e[2].prev = w /\ e[2].child = c
    BY <2>1, EdgeFields
  <2> QED BY <2>2
<1>2. CASE \E w \in Items : e = Shifted(w)
  <2>1. PICK w \in Items : e = Shifted(w)
    BY <1>2
  <2>2. e[2].prev = w /\ e[2].child = Null
    BY <2>1, EdgeFields
  <2> QED BY <2>2
<1> QED BY <1>1, <1>2 DEF EdgesDue, DrawnBy

\* Two calls of one edge each that bring the same edge are one call.
LEMMA SameEdge ==
  ASSUME NEW c \in AddCall, NEW d \in AddCall,
         c.backs = <<c.backs[1]>>, d.backs = <<d.backs[1]>>, EdgeOf(c) = EdgeOf(d)
  PROVE  c = d
<1>1. c.item = d.item /\ c.backs[1] = d.backs[1]
  BY DEF EdgeOf
<1>2. c.backs = d.backs
  BY <1>1
<1> QED BY <1>1, <1>2 DEF AddCall

\* An add call moves an edge from the promised to the recorded ones, and a loop
\* it starts promises new ones.
LEMMA AddingCalls ==
  ASSUME FullInv, Add, NEW new, Pending' = Calls(Rest) \cup new
  PROVE  /\ Coming' = Coming \cup {c.item : c \in new}
         /\ Drawn' = Drawn \cup {EdgeOf(c) : c \in {d \in new : Brings(d)}}
<1>1. /\ Pending = Calls(Rest) \cup {Call} /\ Items' = Items \cup {Call.item}
      /\ Edges' = Edges \cup (IF Brings(Call) THEN {EdgeOf(Call)} ELSE {})
  BY Adding
<1>2. Coming' = Coming \cup {c.item : c \in new}
  BY <1>1 DEF Coming
<1>3. Promised' = {EdgeOf(c) : c \in {d \in Calls(Rest) \cup new : Brings(d)}}
  BY DEF Promised
<1>4. Promised = {EdgeOf(c) : c \in {d \in Calls(Rest) \cup {Call} : Brings(d)}}
  BY <1>1 DEF Promised
<1>5. Drawn' = Drawn \cup {EdgeOf(c) : c \in {d \in new : Brings(d)}}
  <2>1. Edges' \cup {EdgeOf(c) : c \in {d \in Calls(Rest) : Brings(d)}} =
          Edges \cup Promised
    BY <1>1, <1>4
  <2>2. Promised' = {EdgeOf(c) : c \in {d \in Calls(Rest) : Brings(d)}}
                      \cup {EdgeOf(c) : c \in {d \in new : Brings(d)}}
    BY <1>3
  <2> QED BY <2>1, <2>2 DEF Drawn
<1> QED BY <1>2, <1>5

\* What has been drawn stays drawn.  Only joins with the new item can be due.
LEMMA AddDraws ==
  ASSUME FullInv, Add, Coming \subseteq Coming', Drawn \subseteq Drawn',
         \A w, c \in Items' :
           /\ w \notin Items \/ c \notin Items
           /\ Abs!Joins(w, c)
           /\ c.origin = c.pos \/ Settled(c)
           => Joined(w, c) \in Drawn'
  PROVE  PredictionsDrawn' /\ ScansDrawn' /\ JoinsDrawn'
<1>1. /\ UNCHANGED <<grammar, tokens, pc>> /\ Items' = Items \cup {Call.item}
      /\ pc # "start"
  BY Adding
<1>2. \A it : (Settled(it)' <=> Settled(it)) /\ (Compared(it)' <=> Compared(it))
  BY AddKeepsPassed
<1>3. Call.item \notin Items => ~ Settled(Call.item) /\ ~ Compared(Call.item)
  BY AddKeepsPassed
<1>4. \A r, p : Wanted(r, p)' = Wanted(r, p)
  BY <1>1 DEF Wanted
<1>5. PredictionsDrawn'
  <2>1. Wanted(grammar.start, 0)' \subseteq Coming'
    BY <1>1, <1>4 DEF FullInv, PredictionsDrawn
  <2>2. ASSUME NEW w \in Items', Settled(w)', Dotted(grammar, w) \in Names
        PROVE  Wanted(Dotted(grammar, w), w.pos) \subseteq Coming'
    BY <1>1, <1>2, <1>3, <2>2 DEF FullInv, PredictionsDrawn
  <2> QED BY <1>1, <1>4, <2>1, <2>2 DEF PredictionsDrawn
<1>6. \A w, c : (Abs!Joins(w, c)' <=> Abs!Joins(w, c)) /\ (Abs!Shifts(w)' <=> Abs!Shifts(w))
  BY <1>1 DEF Abs!Joins, Abs!Shifts
<1>7. ScansDrawn'
  BY <1>1, <1>2, <1>3, <1>6 DEF FullInv, ScansDrawn
<1>8. JoinsDrawn'
  BY <1>1, <1>2, <1>6 DEF FullInv, JoinsDrawn
<1> QED BY <1>5, <1>7, <1>8

\* No back pointer of an item is recorded twice.
LEMMA AddRecordsOnce ==
  ASSUME FullInv, Add
  PROVE  \A it \in Items' : NoDuplicate(backs'[it])
<1>1. /\ Items' = Items \cup {Call.item} /\ Call.item \in Item
      /\ Call \in Pending /\ Call \in AddCall
      /\ Brings(Call) => Call.backs = <<Call.backs[1]>>
  BY Adding
<1>2. \A it \in Items : backs[it] \in Seq(Back) /\ NoDuplicate(backs[it])
  BY DEF FullInv, DrawnOnce, Inv, TypeOK, Items
<1>3. CASE AddNew
  <2>1. NoDuplicate(Call.backs)
    <3>1. CASE Brings(Call)
      BY <1>1, <3>1 DEF NoDuplicate
    <3>2. CASE ~ Brings(Call)
      BY <3>2 DEF Brings, NoDuplicate
    <3> QED BY <3>1, <3>2
  <2>2. /\ backs'[Call.item] = Call.backs
        /\ \A it \in Items : backs'[it] = backs[it]
    BY <1>3 DEF AddNew, Items
  <2> QED BY <1>1, <1>2, <2>1, <2>2
<1>4. CASE AddMerge
  <2>1. /\ Call.item \in Items
        /\ backs'[Call.item] = backs[Call.item] \o Call.backs
        /\ \A it \in Items : it # Call.item => backs'[it] = backs[it]
    BY <1>4 DEF AddMerge, Items, FullInv, Inv, TypeOK
  <2>2. NoDuplicate(backs[Call.item] \o Call.backs)
    <3> DEFINE s == backs[Call.item]  b == Call.backs[1]
    <3>1. s \in Seq(Back) /\ NoDuplicate(s)
      BY <1>2, <2>1
    <3>2. CASE ~ Brings(Call)
      <4>1. s \o Call.backs = s
        BY <3>1, <3>2, ConcatEmptySeq DEF Brings
      <4> QED BY <3>1, <4>1
    <3>3. CASE Brings(Call)
      <4>1. Call.backs = <<b>> /\ Call.backs \in Seq(Back)
        BY <1>1, <3>3 DEF AddCall
      <4>2. b \in Back
        BY <4>1, ElementOfSeq, LenProperties
      <4>3. b \notin Range(s)
        <5>1. EdgeOf(Call) \in Promised
          BY <1>1, <3>3 DEF Promised
        <5>2. EdgeOf(Call) \notin Edges
          BY <5>1 DEF FullInv, DrawnOnce
        <5> QED BY <2>1, <5>2 DEF Edges, EdgeOf
      <4> HIDE DEF s, b
      <4>4. s \o <<b>> = Append(s, b)
        BY <3>1, <4>2, AppendIsConcat
      <4>5. NoDuplicate(Append(s, b))
        BY <3>1, <4>2, <4>3, AppendOnce
      <4> QED BY <4>1, <4>4, <4>5 DEF s
    <3> QED BY <3>2, <3>3
  <2> QED BY <1>1, <1>2, <2>1, <2>2
<1> QED BY <1>3, <1>4 DEF Add, AddCompleted, AddNullable, AddWaiting

\* The calls a loop started by add promises: edges that are new, and joins of
\* items that span nothing.
LEMMA AddPromises ==
  ASSUME FullInv, Add, NEW new, Pending' = Calls(Rest) \cup new, NoneTwice(work'),
         \A c \in new :
           /\ Brings(c) => c.backs = <<c.backs[1]>> /\ EdgeOf(c) \notin Drawn
           /\ Brings(c) => DrawnBy(EdgeOf(c))'
           /\ Brings(c) => /\ EdgeOf(c)[2].child # Null
                           /\ EdgeOf(c)[2].child.origin = EdgeOf(c)[2].child.pos
  PROVE  CallsSingle' /\ EdgesDue' /\ DrawnOnce'
<1>1. /\ UNCHANGED <<grammar, tokens>> /\ Items' = Items \cup {Call.item}
      /\ Pending = Calls(Rest) \cup {Call} /\ Call \in AddCall
      /\ Rest \in Seq(Seq(AddCall))
      /\ Brings(Call) => Call.backs = <<Call.backs[1]>> /\ Call \notin Calls(Rest)
      /\ Edges' = Edges \cup (IF Brings(Call) THEN {EdgeOf(Call)} ELSE {})
  BY Adding
<1>2. Drawn' = Drawn \cup {EdgeOf(c) : c \in {d \in new : Brings(d)}}
  BY AddingCalls
<1>3. CallsSingle'
  BY <1>1 DEF CallsSingle, FullInv
<1>4. \A e : DrawnBy(e) => DrawnBy(e)'
  BY <1>1 DEF DrawnBy, Abs!Joins, Abs!Shifts
<1>5. \A it : (Settled(it)' <=> Settled(it)) /\ (Compared(it)' <=> Compared(it))
  BY AddKeepsPassed
<1>6. EdgesDue'
  <2> SUFFICES ASSUME NEW e \in Drawn'
               PROVE  /\ DrawnBy(e)'
                      /\ e[2].child # Null /\ e[2].child.origin # e[2].child.pos =>
                           Settled(e[2].child)'
                      /\ e[2].child = Null => Compared(e[2].prev)'
    BY DEF EdgesDue
  <2>1. CASE e \in Drawn
    BY <1>4, <1>5, <2>1 DEF FullInv, EdgesDue
  <2>2. CASE e \notin Drawn
    BY <1>2, <2>2
  <2> QED BY <2>1, <2>2
<1>7. Edges' \cap Promised' = {}
  <2> SUFFICES ASSUME NEW c \in Pending', Brings(c), EdgeOf(c) \in Edges'
               PROVE  FALSE
    BY DEF Promised
  <2>1. Edges' \subseteq Drawn
    <3>1. Brings(Call) => EdgeOf(Call) \in Drawn
      BY <1>1 DEF Drawn, Promised
    <3> QED BY <1>1, <3>1 DEF Drawn
  <2>2. c \in Calls(Rest)
    BY <2>1
  <2>3. EdgeOf(c) \notin Edges
    BY <1>1, <2>2 DEF FullInv, DrawnOnce, Promised
  <2>4. Brings(Call) /\ EdgeOf(c) = EdgeOf(Call)
    BY <1>1, <2>3
  <2>5. c \in AddCall
    <3>1. \A f \in DOMAIN Rest : Rest[f] \in Seq(AddCall)
      BY <1>1, ElementOfSeq, LenProperties
    <3>2. \A f \in DOMAIN Rest : Range(Rest[f]) \subseteq AddCall
      BY <3>1, ElementOfSeq, LenProperties DEF Range
    <3> QED BY <2>2, <3>2 DEF Calls
  <2>6. c.backs = <<c.backs[1]>>
    BY <1>1, <2>2 DEF FullInv, CallsSingle
  <2>7. c = Call
    BY <1>1, <2>4, <2>5, <2>6, SameEdge
  <2> QED BY <1>1, <2>2, <2>4, <2>7
<1>8. DrawnOnce'
  BY <1>7, AddRecordsOnce DEF DrawnOnce
<1> QED BY <1>3, <1>6, <1>8

\* The rest of the invariant: which edges are drawn, and that each is drawn once.
Edged ==
  /\ PredictionsDrawn /\ ScansDrawn /\ JoinsDrawn
  /\ CallsSingle /\ EdgesDue /\ DrawnOnce

LEMMA FullParts == FullInv <=> Inv /\ Order /\ Edged
BY DEF FullInv, Order, Edged

\* Neither merging nor adding an item completed over tokens starts a loop.
LEMMA AddOnlyKeepsEdged ==
  ASSUME FullInv, Add, work' = Rest,
         \/ Call.item \in Items
         \/ Completed(grammar, Call.item) /\ Call.item.origin # Call.item.pos
  PROVE  Edged'
<1>1. PICK none : none = {}
  OBVIOUS
<1>2. Pending' = Calls(Rest) \cup none /\ NoneTwice(work')
  BY <1>1, Adding DEF Pending
<1>3. Coming' = Coming /\ Drawn' = Drawn
  <2>1. /\ Coming' = Coming \cup {c.item : c \in none}
        /\ Drawn' = Drawn \cup {EdgeOf(c) : c \in {d \in none : Brings(d)}}
    BY <1>2, AddingCalls
  <2> QED BY <1>1, <2>1
<1>4. CallsSingle' /\ EdgesDue' /\ DrawnOnce'
  BY <1>1, <1>2, AddPromises
<1>5. Items' = Items \cup {Call.item} /\ Call.item \in Item /\ Items \subseteq Item
  BY Adding, InvItems DEF FullInv
<1>6. ASSUME NEW w \in Items', NEW c \in Items', w \notin Items \/ c \notin Items,
             Abs!Joins(w, c), c.origin = c.pos \/ Settled(c)
      PROVE  FALSE
  <2>1. /\ Call.item \notin Items /\ Completed(grammar, Call.item)
        /\ Call.item.origin # Call.item.pos
    BY <1>5, <1>6
  <2>2. w # Call.item
    BY <1>5, <1>6, <2>1, GrammarAssumption, SameRules DEF Completed, Item, Symbols
  <2>3. c = Call.item
    BY <1>5, <1>6, <2>2
  <2> QED BY <1>6, <2>1, <2>3, AddKeepsPassed
<1>7. PredictionsDrawn' /\ ScansDrawn' /\ JoinsDrawn'
  BY <1>3, <1>6, AddDraws
<1> QED BY <1>4, <1>7 DEF Edged

\* A loop add starts pushes the calls of one list.
LEMMA AddLoop ==
  ASSUME FullInv, Add, NEW cs \in Seq(AddCall), work' = <<cs>> \o Rest, Once(cs),
         \A c \in Range(cs) :
           /\ Brings(c) /\ c.backs = <<c.backs[1]>> /\ EdgeOf(c) \notin Drawn
           /\ DrawnBy(EdgeOf(c))'
           /\ EdgeOf(c)[2].child # Null
           /\ EdgeOf(c)[2].child.origin = EdgeOf(c)[2].child.pos
  PROVE  /\ CallsSingle' /\ EdgesDue' /\ DrawnOnce'
         /\ Coming \subseteq Coming'
         /\ Drawn' = Drawn \cup {EdgeOf(c) : c \in Range(cs)}
<1>1. Rest \in Seq(Seq(AddCall)) /\ NoneTwice(Rest) /\ Calls(Rest) \subseteq Pending
  BY Adding
<1>2. Pending' = Calls(Rest) \cup Range(cs)
  BY <1>1, PushedCalls DEF Pending
<1>3. \A c \in Calls(Rest) : Brings(c) => EdgeOf(c) \in Drawn
  BY <1>1 DEF Drawn, Promised
<1>4. NoneTwice(work')
  BY <1>1, <1>3, PushedOnce
<1>5. CallsSingle' /\ EdgesDue' /\ DrawnOnce'
  BY <1>2, <1>4, AddPromises
<1>6. Coming \subseteq Coming' /\ Drawn' = Drawn \cup {EdgeOf(c) : c \in Range(cs)}
  BY <1>2, AddingCalls
<1> QED BY <1>5, <1>6

\* An item completed over nothing is joined with every item that waits for it.
LEMMA AddNullableKeepsEdged == ASSUME FullInv, AddNullable PROVE Edged'
<1>0. PICK c, cs : c = Call.item /\ cs = Completions(c, waiting)
  OBVIOUS
<1> DEFINE ws == Waits(c.origin, c.rule)
<1>1. /\ Add /\ AddNew /\ work' = <<cs>> \o Rest
      /\ Completed(grammar, c) /\ c.origin = c.pos
  BY <1>0 DEF Add, AddNullable
<1>2. /\ Items' = Items \cup {c} /\ c \in Item /\ c \notin Items /\ Items \subseteq Item
      /\ grammar' = grammar
  BY <1>0, <1>1, Adding, AddNewPath, InvItems DEF FullInv
<1>3. /\ cs \in Seq(AddCall) /\ Once(cs)
      /\ Range(cs) = {AddJoined(w, c) : w \in ws}
  BY <1>0, <1>2, CompletionsCalls DEF FullInv
<1>4. ASSUME NEW w \in ws
      PROVE  /\ w \in Items /\ Abs!Joins(w, c)
             /\ Brings(AddJoined(w, c))
             /\ AddJoined(w, c).backs = <<AddJoined(w, c).backs[1]>>
             /\ EdgeOf(AddJoined(w, c)) = Joined(w, c)
             /\ Joined(w, c) \notin Drawn /\ DrawnBy(Joined(w, c))'
             /\ Joined(w, c)[2].child = c
  <2>1. w \in Items /\ Abs!Joins(w, c)
    BY <1>1, SameRules DEF Waits
  <2>2. Joined(w, c)[2].child = c /\ c # Null
    BY <1>2, EdgeFields, NullIsNoItem
  <2>3. Joined(w, c) \notin Drawn
    BY <1>2, <2>2, DrawnItems DEF FullInv
  <2>4. DrawnBy(Joined(w, c))'
    <3>1. w \in Items' /\ c \in Items' /\ Abs!Joins(w, c)'
      BY <1>2, <2>1 DEF Abs!Joins
    <3> QED BY <3>1 DEF DrawnBy, Joined
  <2> QED BY <1>2, <2>1, <2>2, <2>3, <2>4, JoinCall
<1>5. ASSUME NEW d \in Range(cs)
      PROVE  /\ Brings(d) /\ d.backs = <<d.backs[1]>> /\ EdgeOf(d) \notin Drawn
             /\ DrawnBy(EdgeOf(d))'
             /\ EdgeOf(d)[2].child # Null
             /\ EdgeOf(d)[2].child.origin = EdgeOf(d)[2].child.pos
  <2>1. PICK w \in ws : d = AddJoined(w, c)
    BY <1>3
  <2>2. EdgeOf(d) = Joined(w, c) /\ Joined(w, c)[2].child = c
    BY <1>4, <2>1
  <2>3. DrawnBy(EdgeOf(d))'
    BY <1>4, <2>1
  <2> QED BY <1>1, <1>2, <1>4, <2>1, <2>2, <2>3, NullIsNoItem
<1>6. /\ CallsSingle' /\ EdgesDue' /\ DrawnOnce'
      /\ Coming \subseteq Coming'
      /\ Drawn' = Drawn \cup {EdgeOf(d) : d \in Range(cs)}
  BY <1>1, <1>3, <1>5, AddLoop
<1>7. \A w \in ws : Joined(w, c) \in Drawn'
  BY <1>3, <1>4, <1>6
<1>8. ASSUME NEW w \in Items', NEW d \in Items', w \notin Items \/ d \notin Items,
             Abs!Joins(w, d), d.origin = d.pos \/ Settled(d)
      PROVE  Joined(w, d) \in Drawn'
  <2>1. w # c
    BY <1>1, <1>2, <1>8, GrammarAssumption, SameRules DEF Completed, Item, Symbols
  <2>2. d = c /\ w \in ws
    BY <1>2, <1>8, <2>1, SameRules DEF Waits
  <2> QED BY <1>7, <2>2
<1>9. PredictionsDrawn' /\ ScansDrawn' /\ JoinsDrawn'
  BY <1>1, <1>6, <1>8, AddDraws
<1> QED BY <1>6, <1>9 DEF Edged

\* An item that waits is joined with every item that completes what it waits for
\* and spans nothing: no other completed item begins where it ends.
LEMMA AddWaitingKeepsEdged == ASSUME FullInv, AddWaiting PROVE Edged'
<1>0. PICK w, cs : w = Call.item /\ cs = Drained(w, nullable)
  OBVIOUS
<1> DEFINE ds == Empties(w.pos, Dotted(grammar, w))
<1>1. /\ Add /\ AddNew /\ work' = <<cs>> \o Rest /\ ~ Completed(grammar, w)
  BY <1>0 DEF Add, AddWaiting
<1>2. /\ Items' = Items \cup {w} /\ w \in Item /\ w \notin Items /\ Items \subseteq Item
      /\ grammar' = grammar /\ w.pos = Here /\ pc \in {"loop", "visit", "advance"}
  BY <1>0, <1>1, Adding, AddNewPath, InvItems DEF FullInv
<1>3. /\ cs \in Seq(AddCall) /\ Once(cs)
      /\ Range(cs) = {AddJoined(w, c) : c \in ds}
  BY <1>0, <1>2, DrainedCalls DEF FullInv
<1>4. ASSUME NEW c \in ds
      PROVE  /\ c \in Items /\ Abs!Joins(w, c) /\ c.origin = c.pos /\ c # Null
             /\ Brings(AddJoined(w, c))
             /\ AddJoined(w, c).backs = <<AddJoined(w, c).backs[1]>>
             /\ EdgeOf(AddJoined(w, c)) = Joined(w, c)
             /\ Joined(w, c) \notin Drawn /\ DrawnBy(Joined(w, c))'
             /\ Joined(w, c)[2].child = c
  <2>1. c \in Items /\ Abs!Joins(w, c) /\ c.origin = c.pos
    BY <1>1, SameRules DEF Empties
  <2>2. Joined(w, c)[2].child = c /\ Joined(w, c)[2].prev = w /\ c # Null
    BY <1>2, <2>1, EdgeFields, NullIsNoItem
  <2>3. Joined(w, c) \notin Drawn
    BY <1>2, <2>2, DrawnItems DEF FullInv
  <2>4. DrawnBy(Joined(w, c))'
    <3>1. w \in Items' /\ c \in Items' /\ Abs!Joins(w, c)'
      BY <1>2, <2>1 DEF Abs!Joins
    <3> QED BY <3>1 DEF DrawnBy, Joined
  <2> QED BY <1>2, <2>1, <2>2, <2>3, <2>4, JoinCall
<1>5. ASSUME NEW d \in Range(cs)
      PROVE  /\ Brings(d) /\ d.backs = <<d.backs[1]>> /\ EdgeOf(d) \notin Drawn
             /\ DrawnBy(EdgeOf(d))'
             /\ EdgeOf(d)[2].child # Null
             /\ EdgeOf(d)[2].child.origin = EdgeOf(d)[2].child.pos
  <2>1. PICK c \in ds : d = AddJoined(w, c)
    BY <1>3
  <2>2. EdgeOf(d) = Joined(w, c) /\ Joined(w, c)[2].child = c
    BY <1>4, <2>1
  <2>3. DrawnBy(EdgeOf(d))'
    BY <1>4, <2>1
  <2> QED BY <1>4, <2>1, <2>2, <2>3
<1>6. /\ CallsSingle' /\ EdgesDue' /\ DrawnOnce'
      /\ Coming \subseteq Coming'
      /\ Drawn' = Drawn \cup {EdgeOf(d) : d \in Range(cs)}
  BY <1>1, <1>3, <1>5, AddLoop
<1>7. \A c \in ds : Joined(w, c) \in Drawn'
  BY <1>3, <1>4, <1>6
<1>8. ASSUME NEW v \in Items', NEW c \in Items', v \notin Items \/ c \notin Items,
             Abs!Joins(v, c), c.origin = c.pos \/ Settled(c)
      PROVE  Joined(v, c) \in Drawn'
  <2>1. c # w
    BY <1>1, <1>8, SameRules
  <2>2. v = w /\ c \in Items
    BY <1>2, <1>8, <2>1
  <2>3. c.origin = c.pos
    <3>1. CASE Settled(c)
      <4>1. c.pos <= Here /\ c.origin = Here
        BY <1>2, <1>8, <2>2, <3>1, SameRules DEF Settled, Here, Item, FullInv, Inv, TypeOK
      <4>2. c.origin <= c.pos
        BY <2>2 DEF FullInv, Forward
      <4> QED BY <1>2, <2>2, <4>1, <4>2 DEF Item
    <3> QED BY <1>8, <3>1
  <2>4. c \in ds
    BY <1>8, <2>2, <2>3, SameRules DEF Empties
  <2> QED BY <1>7, <2>2, <2>4
<1>9. PredictionsDrawn' /\ ScansDrawn' /\ JoinsDrawn'
  BY <1>1, <1>6, <1>8, AddDraws
<1> QED BY <1>6, <1>9 DEF Edged

LEMMA AddInv == ASSUME FullInv, Add PROVE Order' /\ Edged'
<1>1. CASE AddMerge
  BY <1>1, AddOnlyKeepsEdged, AddKeepsOrder DEF Add, AddMerge, Items
<1>2. CASE AddCompleted
  BY <1>2, AddOnlyKeepsEdged, AddKeepsOrder DEF Add, AddCompleted
<1>3. CASE AddNullable
  BY <1>3, AddNullableKeepsEdged, AddKeepsOrder DEF Add
<1>4. CASE AddWaiting
  BY <1>4, AddWaitingKeepsEdged, AddKeepsOrder DEF Add
<1> QED BY <1>1, <1>2, <1>3, <1>4 DEF Add

-----------------------------------------------------------------------------
(* The steps of construct                                                  *)

ItemsOf(cs) == {c.item : c \in Range(cs)}
EdgesOf(cs) == {EdgeOf(c) : c \in {d \in Range(cs) : Brings(d)}}

\* When no loop is running nothing is left to be made.
LEMMA Quiet ==
  ASSUME work = << >>
  PROVE  Pending = {} /\ Coming = Items /\ Drawn = Edges
BY NoFrame DEF Pending, Coming, Promised, Drawn

\* A step of construct between two calls of add: it may start one loop.  What it
\* comes past must be drawn by that loop, and what that loop draws must be due
\* and not be in the chart.
LEMMA ConstructDraws ==
  ASSUME FullInv, work = << >>, UNCHANGED <<grammar, tokens, backs>>,
         NEW cs, work' = <<cs>> \/ (work' = << >> /\ cs = << >>), Once(cs),
         \A c \in Range(cs) : Brings(c) =>
           /\ c.backs = <<c.backs[1]>> /\ EdgeOf(c) \notin Edges
           /\ DrawnBy(EdgeOf(c))
           /\ EdgeOf(c)[2].child # Null /\
                EdgeOf(c)[2].child.origin # EdgeOf(c)[2].child.pos =>
                Settled(EdgeOf(c)[2].child)'
           /\ EdgeOf(c)[2].child = Null => Compared(EdgeOf(c)[2].prev)',
         \A it \in Items : Settled(it) => Settled(it)',
         \A it \in Items : Compared(it) => Compared(it)',
         pc = "start" => Wanted(grammar.start, 0) \subseteq ItemsOf(cs),
         \A it \in Items : Settled(it)' /\ ~ Settled(it) =>
           /\ Dotted(grammar, it) \in Names =>
                Wanted(Dotted(grammar, it), it.pos) \subseteq ItemsOf(cs)
           /\ it.origin # it.pos =>
                \A w \in Items : Abs!Joins(w, it) => Joined(w, it) \in EdgesOf(cs),
         \A it \in Items : Compared(it)' /\ ~ Compared(it) /\ Abs!Shifts(it) =>
           Shifted(it) \in EdgesOf(cs)
  PROVE  Edged'
<1>1. Items' = Items /\ Edges' = Edges
  BY DEF Items, Edges
<1>2. Coming = Items /\ Drawn = Edges
  BY Quiet
<1>3. Pending' = Range(cs) /\ NoneTwice(work')
  BY NoFrame, OneFrame DEF Pending
<1>4. Coming' = Items \cup ItemsOf(cs)
  BY <1>1, <1>3 DEF Coming, ItemsOf
<1>5. Promised' = EdgesOf(cs)
  BY <1>3 DEF Promised, EdgesOf
<1>6. Drawn' = Edges \cup EdgesOf(cs)
  BY <1>1, <1>5 DEF Drawn
<1>7. \A r, p : Wanted(r, p)' = Wanted(r, p)
  BY DEF Wanted
<1>8. \A w, c : (Abs!Joins(w, c)' <=> Abs!Joins(w, c)) /\ (Abs!Shifts(w)' <=> Abs!Shifts(w))
  BY DEF Abs!Joins, Abs!Shifts
<1>9. PredictionsDrawn'
  <2>1. Wanted(grammar.start, 0)' \subseteq Coming'
    BY <1>2, <1>4, <1>7 DEF FullInv, PredictionsDrawn
  <2>2. ASSUME NEW w \in Items, Settled(w)', Dotted(grammar, w) \in Names
        PROVE  Wanted(Dotted(grammar, w), w.pos) \subseteq Coming'
    <3>1. CASE Settled(w)
      BY <1>2, <1>4, <2>2, <3>1 DEF FullInv, PredictionsDrawn
    <3>2. CASE ~ Settled(w)
      BY <1>4, <2>2, <3>2
    <3> QED BY <3>1, <3>2
  <2> QED BY <1>1, <1>7, <2>1, <2>2 DEF PredictionsDrawn
<1>10. ScansDrawn'
  <2>1. ASSUME NEW w \in Items, Compared(w)', Abs!Shifts(w)
        PROVE  Shifted(w) \in Drawn'
    <3>1. CASE Compared(w)
      BY <1>2, <1>6, <2>1, <3>1 DEF FullInv, ScansDrawn
    <3>2. CASE ~ Compared(w)
      BY <1>6, <2>1, <3>2
    <3> QED BY <3>1, <3>2
  <2> QED BY <1>1, <1>8, <2>1 DEF ScansDrawn
<1>11. JoinsDrawn'
  <2>1. ASSUME NEW w \in Items, NEW c \in Items, Abs!Joins(w, c),
               c.origin = c.pos \/ Settled(c)'
        PROVE  Joined(w, c) \in Drawn'
    <3>1. CASE c.origin = c.pos \/ Settled(c)
      BY <1>2, <1>6, <2>1, <3>1 DEF FullInv, JoinsDrawn
    <3>2. CASE c.origin # c.pos /\ ~ Settled(c)
      BY <1>6, <2>1, <3>2
    <3> QED BY <3>1, <3>2
  <2> QED BY <1>1, <1>8, <2>1 DEF JoinsDrawn
<1>12. CallsSingle'
  BY <1>3 DEF CallsSingle
<1>13. EdgesDue'
  <2>1. \A e : DrawnBy(e) => DrawnBy(e)'
    BY <1>1, <1>8 DEF DrawnBy
  <2>2. ASSUME NEW e \in Edges
        PROVE  /\ DrawnBy(e)
               /\ e[2].child # Null /\ e[2].child.origin # e[2].child.pos =>
                    Settled(e[2].child)'
               /\ e[2].child = Null => Compared(e[2].prev)'
    <3>1. e \in Drawn
      BY <1>2
    <3>2. e[2].prev \in Items /\ (e[2].child = Null \/ e[2].child \in Items)
      BY <3>1, DrawnItems DEF FullInv
    <3> QED BY <3>1, <3>2 DEF FullInv, EdgesDue
  <2>3. ASSUME NEW e \in EdgesOf(cs)
        PROVE  /\ DrawnBy(e)
               /\ e[2].child # Null /\ e[2].child.origin # e[2].child.pos =>
                    Settled(e[2].child)'
               /\ e[2].child = Null => Compared(e[2].prev)'
    BY DEF EdgesOf
  <2> QED BY <1>6, <2>1, <2>2, <2>3 DEF EdgesDue
<1>14. DrawnOnce'
  <2>1. Edges \cap EdgesOf(cs) = {}
    BY DEF EdgesOf
  <2>2. \A it \in Items : NoDuplicate(backs[it])
    BY DEF FullInv, DrawnOnce
  <2> QED BY <1>1, <1>3, <1>5, <2>1, <2>2 DEF DrawnOnce
<1> QED BY <1>9, <1>10, <1>11, <1>12, <1>13, <1>14 DEF Edged

\* A step that starts no loop, and comes past nothing that owes something.
LEMMA ConstructIdles ==
  ASSUME FullInv, pc # "start", work = << >>, work' = << >>,
         UNCHANGED <<grammar, tokens, backs>>,
         \A it \in Items : Settled(it) => Settled(it)',
         \A it \in Items : Compared(it) => Compared(it)',
         \A it \in Items : Settled(it)' /\ ~ Settled(it) =>
           /\ Dotted(grammar, it) \notin Names
           /\ it.origin = it.pos \/ ~ Completed(grammar, it),
         \A it \in Items : Compared(it)' /\ ~ Compared(it) => ~ Abs!Shifts(it)
  PROVE  Edged'
<1>1. PICK cs : cs = << >>
  OBVIOUS
<1>2. Range(cs) = {} /\ Once(cs)
  BY <1>1, NoFrame DEF Once
<1>3. \A w, it \in Items : Abs!Joins(w, it) => Completed(grammar, it)
  BY SameRules
<1> QED BY <1>1, <1>2, <1>3, ConstructDraws

LEMMA TablesKeepOrder ==
  ASSUME FullInv, UNCHANGED <<grammar, path, backs, waiting, nullable>>
  PROVE  Items' = Items /\ Forward' /\ EveryListed' /\ ListedOnce'
BY DEF FullInv, Items, Forward, EveryListed, ListedOnce

\* The loop over path[i] takes one step: it passes an item it has not passed.
LEMMA StepPasses ==
  ASSUME FullInv, pc \in {"visit", "advance"}, cursor <= Len(path[i]),
         UNCHANGED <<path, i, pc>>, cursor' = cursor + 1
  PROVE  /\ Current \in Items /\ Current \in Item /\ Current.pos = i
         /\ Current \notin Passed /\ Passed' = Passed \cup {Current}
         /\ (cursor <= Len(path[i]) + 1)' /\ i \in Nat
<1>1. /\ Current \in Items /\ Current \in Item /\ Current.pos = i /\ i \in Nat
  BY CurrentItem DEF FullInv
<1>2. /\ i \in DOMAIN path /\ cursor \in Nat /\ cursor >= 1
  BY DEF FullInv, Inv, TypeOK, ChartInvariant, ControlOK
<1>3. DOMAIN path[i] = 1..Len(path[i]) /\ Len(path[i]) \in Nat
  BY <1>2, PathHolds DEF FullInv
<1>4. cursor \in DOMAIN path[i] /\ 1..(cursor - 1) \subseteq DOMAIN path[i]
      /\ cursor \notin 1..(cursor - 1)
  BY <1>2, <1>3
<1>5. Current \notin Passed
  BY <1>2, <1>4 DEF FullInv, ListedOnce, NoDuplicate, Passed, Current
<1>6. 1..(cursor' - 1) = 1..(cursor - 1) \cup {cursor}
  BY <1>2
<1>7. Passed' = {path[i][n] : n \in 1..(cursor' - 1)}
  BY DEF Passed
<1>8. Passed' = Passed \cup {Current}
  BY <1>6, <1>7 DEF Passed, Current
<1>9. (cursor <= Len(path[i]) + 1)'
  BY <1>2, <1>3
<1> QED BY <1>1, <1>5, <1>8, <1>9

\* When the loop over path[i] ends it has passed every item there is at i.
LEMMA AllPassed ==
  ASSUME FullInv, pc \in {"visit", "advance"}, cursor > Len(path[i])
  PROVE  /\ i \in Nat /\ Passed = PathItems(Items, i)
         /\ Range(path[i]) = Passed
<1>1. /\ i \in DOMAIN path /\ cursor \in Nat /\ i \in Nat
      /\ cursor <= Len(path[i]) + 1
  BY DEF FullInv, Inv, TypeOK, ChartInvariant, ControlOK, Progress
<1>2. /\ DOMAIN path[i] = 1..Len(path[i]) /\ Len(path[i]) \in Nat
      /\ Range(path[i]) = PathItems(Items, i)
  BY <1>1, PathHolds DEF FullInv
<1>3. 1..(cursor - 1) = DOMAIN path[i]
  BY <1>1, <1>2
<1> QED BY <1>1, <1>2, <1>3 DEF Passed, Range

LEMMA StartFull == ASSUME FullInv, Start PROVE Order' /\ Edged'
<1>1. /\ pc = "start" /\ pc' = "loop" /\ work = << >> /\ i = 0
      /\ UNCHANGED <<grammar, path, backs, waiting, nullable, tokens, i>>
      /\ grammar \in Grammars
  BY DEF Start, tables, FullInv, Inv, TypeOK, ChartInvariant, ControlOK
<1>2. PICK cs : cs = Predictions(grammar.start, 0)
  OBVIOUS
<1>3. work' = <<cs>>
  BY <1>2 DEF Start
<1>4. ItemsOf(cs) = Wanted(grammar.start, 0) /\ \A c \in Range(cs) : ~ Brings(c)
  BY <1>1, <1>2, PredictionsCalls DEF ItemsOf
<1>5. Once(cs)
  BY <1>4 DEF Once, Range
<1>6. \A it \in Items : ~ Settled(it)' /\ ~ Settled(it) /\ ~ Compared(it)'
                        /\ ~ Compared(it)
  BY <1>1, InvItems DEF Settled, Compared, Item, FullInv
<1>7. Edged'
  BY <1>1, <1>3, <1>4, <1>5, <1>6, ConstructDraws
<1>8. Order'
  BY <1>1, TablesKeepOrder DEF Order, Progress, ExpectedDrawn, FullInv, Here
<1> QED BY <1>7, <1>8

LEMMA LoopFull == ASSUME FullInv, Loop PROVE Order' /\ Edged'
<1>1. /\ pc = "loop" /\ work = << >> /\ work' = << >> /\ Len(tokens) = i
      /\ UNCHANGED <<grammar, path, backs, waiting, nullable, tokens, i>>
      /\ i \in Nat
  BY DEF Loop, tables, FullInv, Inv, TypeOK, ChartInvariant, ControlOK
<1>2. CASE i \in DOMAIN path
  <2>1. pc' = "visit" /\ cursor' = 1 /\ expected' = {}
    BY <1>2 DEF Loop
  <2>2. Passed' = {}
    BY <2>1 DEF Passed
  <2>3. \A it : (Settled(it)' <=> Settled(it)) /\ (Compared(it)' <=> Compared(it))
    BY <1>1, <2>1, <2>2 DEF Settled, Compared
  <2>4. Edged'
    BY <1>1, <2>3, ConstructIdles
  <2>5. Len(path'[i']) \in Nat
    BY <1>1, <1>2, PathHolds DEF FullInv
  <2>6. (cursor <= Len(path[i]) + 1)'
    BY <2>1, <2>5
  <2>7. Order'
    BY <1>1, <2>1, <2>2, <2>6, TablesKeepOrder
       DEF Order, Progress, ExpectedDrawn, FullInv, Here
  <2> QED BY <2>4, <2>7
<1>3. CASE i \notin DOMAIN path
  <2>1. pc' = "finish" /\ UNCHANGED <<cursor, expected>>
    BY <1>3 DEF Loop
  <2>2. \A it \in Items : it.pos # i
    BY <1>3 DEF FullInv, EveryListed
  <2>3. \A it \in Items : (Settled(it)' <=> Settled(it)) /\ (Compared(it)' <=> Compared(it))
    BY <1>1, <2>1, <2>2 DEF Settled, Compared
  <2>4. Edged'
    BY <1>1, <2>3, ConstructIdles
  <2>5. Order'
    BY <1>1, <2>1, TablesKeepOrder DEF Order, Progress, ExpectedDrawn, FullInv, Here
  <2> QED BY <2>4, <2>5
<1> QED BY <1>2, <1>3

\* Visiting an item settles it and no other.
LEMMA VisitSettles ==
  ASSUME FullInv, Visiting, Visited, NEW c, c = Current
  PROVE  /\ c \in Items /\ c \in Item /\ c.pos = i /\ i \in Nat /\ Legal(grammar, c)
         /\ c \notin Passed /\ Passed' = Passed \cup {c}
         /\ ~ Settled(c) /\ Settled(c)'
         /\ \A it : Settled(it)' <=> Settled(it) \/ it = c
         /\ \A it : Compared(it)' <=> Compared(it)
         /\ Forward' /\ EveryListed' /\ ListedOnce' /\ Progress'
         /\ pc = "visit" /\ work = << >> /\ pc' = "visit"
         /\ UNCHANGED <<grammar, path, backs, waiting, nullable, tokens, i>>
<1>1. /\ pc = "visit" /\ work = << >> /\ cursor <= Len(path[i])
      /\ cursor' = cursor + 1
      /\ UNCHANGED <<grammar, path, backs, waiting, nullable, tokens, i, pc>>
  BY DEF Visiting, Visited, tables
<1>2. /\ c \in Items /\ c \in Item /\ c.pos = i /\ i \in Nat
      /\ c \notin Passed /\ Passed' = Passed \cup {c}
      /\ (cursor <= Len(path[i]) + 1)'
  BY <1>1, StepPasses
<1>3. /\ ~ Settled(c) /\ Settled(c)'
      /\ \A it : Settled(it)' <=> Settled(it) \/ it = c
      /\ \A it : Compared(it)' <=> Compared(it)
  BY <1>1, <1>2 DEF Settled, Compared
<1>4. Forward' /\ EveryListed' /\ ListedOnce'
  BY <1>1, TablesKeepOrder
<1>5. Progress'
  BY <1>1, <1>2 DEF FullInv, Progress, Here
<1>6. Legal(grammar, c)
  BY <1>2, InvItems DEF FullInv
<1> QED BY <1>1, <1>2, <1>3, <1>4, <1>5, <1>6

\* The dotted symbol of an item visited is among the terminals expected if it
\* is one of them.
LEMMA VisitExpects ==
  ASSUME FullInv, Visiting, Visited,
         \/ Dotted(grammar, Current) \notin Terminals /\ UNCHANGED expected
         \/ /\ Dotted(grammar, Current) \in Terminals
            /\ expected' = expected \cup {Dotted(grammar, Current)}
  PROVE  Order'
<1>1. PICK c : c = Current
  OBVIOUS
<1>2. /\ Passed' = Passed \cup {c} /\ pc = "visit" /\ pc' = "visit"
      /\ grammar' = grammar
      /\ Forward' /\ EveryListed' /\ ListedOnce' /\ Progress'
  BY <1>1, VisitSettles
<1>3. expected = {Dotted(grammar, it) : it \in Passed} \cap Terminals
  BY <1>2 DEF FullInv, ExpectedDrawn
<1>4. expected' = {Dotted(grammar, it) : it \in Passed \cup {c}} \cap Terminals
  BY <1>1, <1>3
<1>5. ExpectedDrawn'
  BY <1>2, <1>4 DEF ExpectedDrawn
<1> QED BY <1>2, <1>5 DEF Order

LEMMA SkipNullableFull == ASSUME FullInv, SkipNullable PROVE Order' /\ Edged'
<1>1. PICK c : c = Current
  OBVIOUS
<1>2. /\ Visiting /\ Visited /\ work' = work /\ UNCHANGED expected
      /\ Completed(grammar, c) /\ c.origin = i
  BY <1>1 DEF SkipNullable
<1>3. Dotted(grammar, c) \notin Symbols
  BY <1>2, GrammarAssumption DEF Completed
<1>4. Order'
  BY <1>1, <1>2, <1>3, VisitExpects DEF Symbols
<1>5. Edged'
  BY <1>1, <1>2, <1>3, VisitSettles, ConstructIdles DEF Symbols
<1> QED BY <1>4, <1>5

LEMMA ExpectFull == ASSUME FullInv, Expect PROVE Order' /\ Edged'
<1>1. PICK c : c = Current
  OBVIOUS
<1>2. /\ Visiting /\ Visited /\ work' = work
      /\ expected' = expected \cup {Dotted(grammar, c)}
      /\ Dotted(grammar, c) \in Terminals
  BY <1>1 DEF Expect
<1>3. Dotted(grammar, c) \notin Names /\ ~ Completed(grammar, c)
  BY <1>2, GrammarAssumption DEF Completed, Symbols
<1>4. Order'
  BY <1>1, <1>2, VisitExpects
<1>5. Edged'
  BY <1>1, <1>2, <1>3, VisitSettles, ConstructIdles
<1> QED BY <1>4, <1>5

LEMMA PredictFull == ASSUME FullInv, Predict PROVE Order' /\ Edged'
<1>1. PICK c, cs : c = Current /\ cs = Predictions(Dotted(grammar, c), i)
  OBVIOUS
<1>2. /\ Visiting /\ Visited /\ work' = <<cs>> /\ UNCHANGED expected
      /\ Dotted(grammar, c) \in Names
  BY <1>1 DEF Predict
<1>3. Dotted(grammar, c) \notin Terminals /\ ~ Completed(grammar, c)
  BY <1>2, GrammarAssumption DEF Completed, Symbols
<1>4. Order'
  BY <1>1, <1>2, <1>3, VisitExpects
<1>5. /\ c.pos = i /\ pc = "visit" /\ work = << >>
      /\ UNCHANGED <<grammar, tokens, backs>>
      /\ \A it : Settled(it)' <=> Settled(it) \/ it = c
      /\ \A it : Compared(it)' <=> Compared(it)
  BY <1>1, <1>2, VisitSettles
<1>6. /\ ItemsOf(cs) = Wanted(Dotted(grammar, c), c.pos)
      /\ \A d \in Range(cs) : ~ Brings(d)
  BY <1>1, <1>5, PredictionsCalls DEF ItemsOf, FullInv, Inv, TypeOK
<1>7. Once(cs)
  BY <1>6 DEF Once, Range
<1>8. \A w : ~ Abs!Joins(w, c)
  BY <1>3, SameRules
<1>9. Edged'
  BY <1>2, <1>5, <1>6, <1>7, <1>8, ConstructDraws
<1> QED BY <1>4, <1>9

\* Completing an item over tokens: no join with it has been drawn, since it has
\* not been visited before, and all that wait for it are in the chart already.
LEMMA CompleteFull == ASSUME FullInv, Complete PROVE Order' /\ Edged'
<1>1. PICK c, cs : c = Current /\ cs = Completions(c, waiting)
  OBVIOUS
<1>2. /\ Visiting /\ Visited /\ work' = <<cs>> /\ UNCHANGED expected
      /\ Completed(grammar, c) /\ c.origin # i
  BY <1>1 DEF Complete
<1>3. Dotted(grammar, c) \notin Symbols
  BY <1>2, GrammarAssumption DEF Completed
<1>4. Order'
  BY <1>1, <1>2, <1>3, VisitExpects DEF Symbols
<1>5. /\ c \in Items /\ c \in Item /\ c.pos = i /\ pc = "visit" /\ work = << >>
      /\ UNCHANGED <<grammar, tokens, backs>>
      /\ ~ Settled(c) /\ Settled(c)'
      /\ \A it : Settled(it)' <=> Settled(it) \/ it = c
      /\ \A it : Compared(it)' <=> Compared(it)
      /\ Items \subseteq Item
  BY <1>1, <1>2, VisitSettles, InvItems DEF FullInv
<1> DEFINE ws == Waits(c.origin, c.rule)
<1>6. /\ Once(cs) /\ Range(cs) = {AddJoined(w, c) : w \in ws}
  BY <1>1, <1>5, CompletionsCalls DEF FullInv
<1>7. ASSUME NEW w \in ws
      PROVE  /\ w \in Items /\ Abs!Joins(w, c)
             /\ Brings(AddJoined(w, c))
             /\ AddJoined(w, c).backs = <<AddJoined(w, c).backs[1]>>
             /\ EdgeOf(AddJoined(w, c)) = Joined(w, c)
             /\ Joined(w, c) \notin Edges /\ DrawnBy(Joined(w, c))
             /\ Joined(w, c)[2].child = c /\ c # Null
  <2>1. w \in Items /\ Abs!Joins(w, c)
    BY <1>2, SameRules DEF Waits
  <2>2. Joined(w, c)[2].child = c /\ c # Null
    BY <1>5, EdgeFields, NullIsNoItem
  <2>3. Joined(w, c) \notin Drawn
    BY <1>2, <1>5, <2>2 DEF FullInv, EdgesDue
  <2>4. DrawnBy(Joined(w, c))
    BY <1>5, <2>1 DEF DrawnBy
  <2> QED BY <1>5, <2>1, <2>2, <2>3, <2>4, JoinCall DEF Drawn
<1>8. ASSUME NEW d \in Range(cs)
      PROVE  /\ d.backs = <<d.backs[1]>> /\ EdgeOf(d) \notin Edges
             /\ DrawnBy(EdgeOf(d))
             /\ EdgeOf(d)[2].child = c
  <2>1. PICK w \in ws : d = AddJoined(w, c)
    BY <1>6
  <2> QED BY <1>7, <2>1
<1>9. \A w \in Items : Abs!Joins(w, c) => Joined(w, c) \in EdgesOf(cs)
  <2> SUFFICES ASSUME NEW w \in Items, Abs!Joins(w, c)
               PROVE  Joined(w, c) \in EdgesOf(cs)
    OBVIOUS
  <2>1. w \in ws
    BY SameRules DEF Waits
  <2> QED BY <1>6, <1>7, <2>1 DEF EdgesOf
<1>10. c # Null
  BY <1>5, NullIsNoItem
<1>11. Edged'
  BY <1>2, <1>3, <1>5, <1>6, <1>8, <1>9, <1>10, ConstructDraws DEF Symbols
<1> QED BY <1>4, <1>11

LEMMA LeaveFull == ASSUME FullInv, Leave PROVE Order' /\ Edged'
<1>1. /\ pc = "visit" /\ work = << >> /\ work' = << >> /\ cursor > Len(path[i])
      /\ pc' \in {"finish", "scan"} /\ Len(tokens) = i
      /\ UNCHANGED <<grammar, path, backs, waiting, nullable, tokens, i,
                     cursor, expected>>
  BY DEF Leave, tables, FullInv, Inv, ChartInvariant, ControlOK
<1>2. Passed = PathItems(Items, i) /\ Range(path[i]) = Passed /\ i \in Nat
  BY <1>1, AllPassed
<1>3. \A it \in Items : (Settled(it)' <=> Settled(it)) /\ (Compared(it)' <=> Compared(it))
  BY <1>1, <1>2 DEF Settled, Compared, PathItems
<1>4. Edged'
  BY <1>1, <1>3, ConstructIdles
<1>5. Progress'
  BY <1>1 DEF FullInv, Progress, Here
<1>6. ExpectedDrawn'
  BY <1>1, <1>2 DEF FullInv, ExpectedDrawn
<1> QED BY <1>1, <1>4, <1>5, <1>6, TablesKeepOrder DEF Order

\* The new position has no items, and what was compared was compared with
\* earlier tokens.
LEMMA ScanTokenFull ==
  ASSUME FullInv, NEW t \in Terminals, ScanToken(t)
  PROVE  Order' /\ Edged'
<1>1. /\ pc = "scan" /\ pc' = "advance" /\ cursor' = 1 /\ work = << >> /\ work' = << >>
      /\ UNCHANGED <<grammar, backs, waiting, nullable, i>>
      /\ tokens' = Append(tokens, t) /\ path' = Ensure(path, i + 1)
      /\ Len(tokens) = i /\ i \in Nat /\ tokens \in Seq(Terminals) /\ i \in DOMAIN path
  BY DEF ScanToken, FullInv, Inv, TypeOK, ChartInvariant, ControlOK
<1>2. /\ Len(tokens') = i + 1
      /\ \A n \in 1..i : tokens'[n] = tokens[n]
  BY <1>1, AppendProperties
<1>3. /\ DOMAIN path \subseteq 0..i /\ i + 1 \notin DOMAIN path
  BY <1>1 DEF FullInv, Progress, Here
<1>4. /\ DOMAIN path' = DOMAIN path \cup {i + 1}
      /\ \A p \in DOMAIN path : path'[p] = path[p]
      /\ path'[i + 1] = << >>
  BY <1>1, <1>3 DEF Ensure, Lookup
<1>5. Items' = Items /\ Edges' = Edges /\ Items \subseteq Item
  BY <1>1, InvItems DEF Items, Edges, FullInv
<1>6. Order'
  <2>1. Forward'
    BY <1>5 DEF FullInv, Forward
  <2>2. EveryListed'
    BY <1>1, <1>4, <1>5 DEF FullInv, EveryListed
  <2>3. NoDuplicate(path'[i + 1])
    BY <1>4 DEF NoDuplicate
  <2>4. ListedOnce'
    BY <1>1, <1>4, <2>3 DEF FullInv, ListedOnce
  <2>5. (DOMAIN path \subseteq 0..Here)'
    BY <1>1, <1>3, <1>4 DEF Here
  <2>6. path'[i] \in Seq(Item)
    BY <1>1, <1>4, PathHolds DEF FullInv
  <2>7. Len(path'[i]) \in Nat
    BY <2>6, LenProperties
  <2>8. Progress'
    BY <1>1, <2>5, <2>7 DEF Progress
  <2>9. ExpectedDrawn'
    BY <1>1 DEF ExpectedDrawn
  <2> QED BY <2>1, <2>2, <2>4, <2>8, <2>9 DEF Order
<1>7. Passed' = {}
  BY <1>1 DEF Passed
<1>8. \A it : (Settled(it)' <=> Settled(it)) /\ (Compared(it)' <=> Compared(it))
  BY <1>1, <1>7 DEF Settled, Compared
<1>9. /\ Pending' = Pending /\ Coming' = Coming /\ Promised' = Promised /\ Drawn' = Drawn
  BY <1>1, <1>5 DEF Pending, Coming, Promised, Drawn
<1>10. PredictionsDrawn'
  <2>1. \A r, p : Wanted(r, p)' = Wanted(r, p)
    BY <1>1 DEF Wanted
  <2> QED BY <1>1, <1>5, <1>8, <1>9, <2>1 DEF FullInv, PredictionsDrawn
<1>11. \A w, c : Abs!Joins(w, c)' <=> Abs!Joins(w, c)
  BY <1>1 DEF Abs!Joins
<1>12. ASSUME NEW w \in Items
       PROVE  /\ Abs!Shifts(w) => Abs!Shifts(w)'
              /\ w.pos < i /\ Abs!Shifts(w)' => Abs!Shifts(w)
  <2>1. w.pos \in Nat
    BY <1>5 DEF Item
  <2>2. Abs!Shifts(w)' <=> w.pos < i + 1 /\ Abs!Dotted(grammar, w) = tokens'[w.pos + 1]
    BY <1>1, <1>2 DEF Abs!Shifts
  <2>3. Abs!Shifts(w) <=> w.pos < i /\ Abs!Dotted(grammar, w) = tokens[w.pos + 1]
    BY <1>1 DEF Abs!Shifts
  <2>4. CASE w.pos < i
    <3>1. tokens'[w.pos + 1] = tokens[w.pos + 1]
      BY <1>1, <1>2, <2>1, <2>4
    <3> QED BY <1>1, <2>1, <2>2, <2>3, <2>4, <3>1
  <2>5. CASE ~ (w.pos < i)
    BY <2>3, <2>5
  <2> QED BY <2>4, <2>5
<1>13. ScansDrawn'
  <2>1. \A w \in Items : Compared(w) => w.pos < i
    BY <1>1 DEF Compared
  <2> QED BY <1>5, <1>8, <1>9, <1>12, <2>1 DEF FullInv, ScansDrawn
<1>14. JoinsDrawn'
  BY <1>5, <1>8, <1>9, <1>11 DEF FullInv, JoinsDrawn
<1>15. CallsSingle'
  BY <1>9 DEF FullInv, CallsSingle
<1>16. EdgesDue'
  <2>1. \A e : DrawnBy(e) => DrawnBy(e)'
    BY <1>5, <1>11, <1>12 DEF DrawnBy
  <2> QED BY <1>8, <1>9, <2>1 DEF FullInv, EdgesDue
<1>17. DrawnOnce'
  BY <1>1, <1>5, <1>9 DEF FullInv, DrawnOnce
<1> QED BY <1>6, <1>10, <1>13, <1>14, <1>15, <1>16, <1>17 DEF Edged

LEMMA ScanNothingFull == ASSUME FullInv, ScanNothing PROVE Order' /\ Edged'
<1>1. /\ pc = "scan" /\ pc' = "finish" /\ work = << >> /\ work' = << >>
      /\ UNCHANGED <<grammar, path, backs, waiting, nullable, tokens, i, cursor>>
      /\ Len(tokens) = i
  BY DEF ScanNothing, tables, FullInv, Inv, ChartInvariant, ControlOK
<1>2. \A it : (Settled(it)' <=> Settled(it)) /\ (Compared(it)' <=> Compared(it))
  BY <1>1 DEF Settled, Compared
<1>3. Edged'
  BY <1>1, <1>2, ConstructIdles
<1> QED BY <1>1, <1>3, TablesKeepOrder DEF Order, FullInv, Progress, ExpectedDrawn, Here

\* scan compares an item with the token: it has not done so before.
LEMMA AdvanceFull == ASSUME FullInv, Advance PROVE Order' /\ Edged'
<1>1. PICK c, cs :
        /\ c = Current
        /\ cs = IF Dotted(grammar, c) = tokens[Len(tokens)]
                THEN <<AddScanned(c, Len(tokens) - 1)>> ELSE << >>
  OBVIOUS
<1>2. /\ pc = "advance" /\ pc' = "advance" /\ work = << >>
      /\ cursor <= Len(path[i]) /\ cursor' = cursor + 1
      /\ UNCHANGED <<grammar, path, backs, waiting, nullable, tokens, i>>
      /\ Len(tokens) = i + 1 /\ i \in Nat
  BY DEF Advance, tables, FullInv, Inv, TypeOK, ChartInvariant, ControlOK
<1>3. /\ c \in Items /\ c \in Item /\ c.pos = i
      /\ c \notin Passed /\ Passed' = Passed \cup {c}
      /\ (cursor <= Len(path[i]) + 1)'
  BY <1>1, <1>2, StepPasses
<1>4. /\ \A it : Settled(it)' <=> Settled(it)
      /\ \A it : Compared(it)' <=> Compared(it) \/ it = c
      /\ ~ Compared(c) /\ Compared(c)'
  BY <1>2, <1>3 DEF Settled, Compared
<1>5. Order'
  BY <1>2, <1>3, TablesKeepOrder DEF Order, FullInv, Progress, ExpectedDrawn, Here
<1>6. /\ Len(tokens) - 1 = c.pos
      /\ Abs!Shifts(c) <=> Dotted(grammar, c) = tokens[Len(tokens)]
  <2>1. Len(tokens) - 1 = i /\ i < Len(tokens)
    BY <1>2
  <2>2. Abs!Shifts(c) <=> c.pos < Len(tokens) /\ Dotted(grammar, c) = tokens[c.pos + 1]
    BY SameRules
  <2> QED BY <1>2, <1>3, <2>1, <2>2
<1>7. CASE Dotted(grammar, c) = tokens[Len(tokens)]
  <2>1. cs = <<AddScanned(c, c.pos)>>
    BY <1>1, <1>6, <1>7
  <2>2. work' = <<cs>>
    BY <1>1, <1>7 DEF Advance
  <2>3. Range(cs) = {AddScanned(c, c.pos)} /\ Once(cs)
    BY <2>1 DEF Range, Once
  <2>4. /\ Brings(AddScanned(c, c.pos))
        /\ AddScanned(c, c.pos).backs = <<AddScanned(c, c.pos).backs[1]>>
        /\ EdgeOf(AddScanned(c, c.pos)) = Shifted(c)
    BY <1>3, ScanCall
  <2>5. Shifted(c)[2].prev = c /\ Shifted(c)[2].child = Null
    BY EdgeFields
  <2>6. Shifted(c) \notin Drawn
    BY <1>4, <2>5 DEF FullInv, EdgesDue
  <2>7. DrawnBy(Shifted(c))
    BY <1>3, <1>6, <1>7 DEF DrawnBy
  <2>8. EdgesOf(cs) = {Shifted(c)}
    BY <2>3, <2>4 DEF EdgesOf
  <2>9. ASSUME NEW d \in Range(cs)
        PROVE  /\ d.backs = <<d.backs[1]>> /\ EdgeOf(d) \notin Edges
               /\ DrawnBy(EdgeOf(d)) /\ EdgeOf(d)[2].child = Null
               /\ Compared(EdgeOf(d)[2].prev)'
    <3>1. d = AddScanned(c, c.pos) /\ EdgeOf(d) = Shifted(c)
      BY <2>3, <2>4
    <3> QED BY <1>4, <2>4, <2>5, <2>6, <2>7, <3>1 DEF Drawn
  <2>10. Edged'
    BY <1>2, <1>3, <1>4, <2>2, <2>3, <2>8, <2>9, ConstructDraws
  <2> QED BY <1>5, <2>10
<1>8. CASE Dotted(grammar, c) # tokens[Len(tokens)]
  <2>1. work' = << >>
    <3>1. (Len(tokens) - 1) + 1 = Len(tokens)
      BY <1>2
    <3> QED BY <1>1, <1>8, <3>1 DEF Advance
  <2>2. Edged'
    BY <1>2, <1>4, <1>6, <1>8, <2>1, ConstructIdles
  <2> QED BY <1>5, <2>2
<1> QED BY <1>7, <1>8

LEMMA NextPositionFull == ASSUME FullInv, NextPosition PROVE Order' /\ Edged'
<1>1. /\ pc = "advance" /\ pc' = "loop" /\ i' = i + 1 /\ work = << >> /\ work' = << >>
      /\ cursor > Len(path[i])
      /\ UNCHANGED <<grammar, path, backs, waiting, nullable, tokens>>
  BY DEF NextPosition, tables
<1>2. Passed = PathItems(Items, i) /\ i \in Nat /\ Items \subseteq Item
  BY <1>1, AllPassed, InvItems DEF FullInv
<1>3. \A it \in Items : (Settled(it)' <=> Settled(it)) /\ (Compared(it)' <=> Compared(it))
  BY <1>1, <1>2 DEF Settled, Compared, PathItems, Item
<1>4. Edged'
  BY <1>1, <1>3, ConstructIdles
<1>5. Order'
  BY <1>1, TablesKeepOrder DEF Order, FullInv, Progress, ExpectedDrawn, Here
<1> QED BY <1>4, <1>5

LEMMA FinishFull == ASSUME FullInv, Finish PROVE Order' /\ Edged'
<1>1. /\ pc = "finish" /\ pc' = "done" /\ work = << >> /\ work' = << >>
      /\ UNCHANGED <<grammar, path, backs, waiting, nullable, tokens, i, cursor>>
  BY DEF Finish, tables, FullInv, Inv, ChartInvariant, ControlOK
<1>2. \A it : (Settled(it)' <=> Settled(it)) /\ (Compared(it)' <=> Compared(it))
  BY <1>1 DEF Settled, Compared
<1>3. Edged'
  BY <1>1, <1>2, ConstructIdles
<1> QED BY <1>1, <1>3, TablesKeepOrder DEF Order, FullInv, Progress, ExpectedDrawn, Here

\* A step that changes neither the chart nor the calls still to be made.
LEMMA SameCalls ==
  ASSUME FullInv, Pending' = Pending, NoneTwice(work'),
         UNCHANGED <<grammar, path, backs, waiting, nullable, tokens, i, cursor,
                     expected, pc>>
  PROVE  Order' /\ Edged'
<1>1. Items' = Items /\ Edges' = Edges
  BY DEF Items, Edges
<1>2. Coming' = Coming /\ Promised' = Promised /\ Drawn' = Drawn
  BY <1>1 DEF Coming, Promised, Drawn
<1>3. Passed' = Passed
  BY DEF Passed
<1>4. \A it : (Settled(it)' <=> Settled(it)) /\ (Compared(it)' <=> Compared(it))
  BY <1>3 DEF Settled, Compared
<1>5. \A w, c : (Abs!Joins(w, c)' <=> Abs!Joins(w, c)) /\ (Abs!Shifts(w)' <=> Abs!Shifts(w))
  BY DEF Abs!Joins, Abs!Shifts
<1>6. PredictionsDrawn'
  <2>1. \A r, p : Wanted(r, p)' = Wanted(r, p)
    BY DEF Wanted
  <2> QED BY <1>1, <1>2, <1>4, <2>1 DEF FullInv, PredictionsDrawn
<1>7. ScansDrawn' /\ JoinsDrawn'
  BY <1>1, <1>2, <1>4, <1>5 DEF FullInv, ScansDrawn, JoinsDrawn
<1>8. CallsSingle'
  BY DEF FullInv, CallsSingle
<1>9. EdgesDue'
  <2>1. \A e : DrawnBy(e) => DrawnBy(e)'
    BY <1>1, <1>5 DEF DrawnBy
  <2> QED BY <1>2, <1>4, <2>1 DEF FullInv, EdgesDue
<1>10. DrawnOnce'
  BY <1>1, <1>2 DEF FullInv, DrawnOnce
<1>11. Order'
  BY <1>3, TablesKeepOrder DEF Order, FullInv, Progress, ExpectedDrawn, Here
<1> QED BY <1>6, <1>7, <1>8, <1>9, <1>10, <1>11 DEF Edged

LEMMA ReturnFull == ASSUME FullInv, Return PROVE Order' /\ Edged'
<1>1. /\ work # << >> /\ Head(work) = << >> /\ work' = Tail(work)
      /\ UNCHANGED <<grammar, path, backs, waiting, nullable, tokens, i, cursor,
                     expected, pc>>
      /\ work \in Seq(Seq(AddCall))
  BY DEF Return, tables, Unmoved, FullInv, Inv, TypeOK
<1>2. Range(Head(work)) = {}
  BY <1>1, NoFrame
<1>3. Calls(Tail(work)) = Calls(work) /\ NoneTwice(Tail(work))
  BY <1>1, <1>2, ReturnCalls DEF FullInv, DrawnOnce
<1> QED BY <1>1, <1>3, SameCalls DEF Pending

-----------------------------------------------------------------------------
(* The invariant, and what follows from it                                 *)

LEMMA InitFull == Init => FullInv
<1> SUFFICES ASSUME Init PROVE FullInv
  OBVIOUS
<1>1. /\ DOMAIN path = {} /\ DOMAIN backs = {} /\ DOMAIN waiting = {}
      /\ DOMAIN nullable = {} /\ work = << >> /\ pc = "start"
  BY DEF Init, EmptyTable
<1>2. Items = {} /\ Edges = {}
  BY <1>1 DEF Items, Edges
<1>3. Pending = {} /\ Promised = {} /\ Drawn = {}
  BY <1>1, <1>2, Quiet DEF Promised, Drawn
<1>4. Forward /\ EveryListed /\ ListedOnce /\ Progress /\ ExpectedDrawn
  BY <1>1, <1>2 DEF Forward, EveryListed, ListedOnce, Progress, ExpectedDrawn
<1>5. PredictionsDrawn /\ ScansDrawn /\ JoinsDrawn
  BY <1>1, <1>2 DEF PredictionsDrawn, ScansDrawn, JoinsDrawn
<1>6. CallsSingle /\ EdgesDue /\ DrawnOnce
  BY <1>1, <1>2, <1>3, NoFrame DEF CallsSingle, EdgesDue, DrawnOnce
<1> QED BY <1>4, <1>5, <1>6, InitInv DEF FullInv

LEMMA NextFull == ASSUME FullInv, [Next]_vars PROVE FullInv'
<1>1. Inv'
  BY NextInv DEF FullInv
<1>2. CASE UNCHANGED vars
  <2>1. Pending' = Pending /\ NoneTwice(work')
    BY <1>2 DEF vars, Pending, FullInv, DrawnOnce
  <2>2. Order' /\ Edged'
    BY <1>2, <2>1, SameCalls DEF vars
  <2> QED BY <1>1, <2>2, FullParts, PTL
<1>3. CASE Next
  <2>1. Order' /\ Edged'
    BY <1>3, AddInv, ReturnFull, StartFull, LoopFull, SkipNullableFull, CompleteFull,
       ExpectFull, PredictFull, LeaveFull, ScanTokenFull, ScanNothingFull,
       AdvanceFull, NextPositionFull, FinishFull DEF Next
  <2> QED BY <1>1, <2>1, FullParts, PTL
<1> QED BY <1>2, <1>3

LEMMA FullInvariant == Spec => []FullInv
<1>1. FullInv /\ [Next]_vars => FullInv'
  BY NextFull
<1> QED BY <1>1, InitFull, PTL DEF Spec

\* Between positions no call is left to be made, and everything up to i has been
\* visited and compared: what the invariant asks for is then in the chart.
LEMMA FullSaturates ==
  ASSUME FullInv, pc \in {"scan", "finish", "done"}
  PROVE  /\ Wanted(grammar.start, 0) \subseteq Items
         /\ \A w \in Items : Dotted(grammar, w) \in Names =>
              Wanted(Dotted(grammar, w), w.pos) \subseteq Items
         /\ \A w \in Items : Abs!Shifts(w) => Shifted(w) \in Edges
         /\ \A w, c \in Items : Abs!Joins(w, c) => Joined(w, c) \in Edges
<1>1. work = << >> /\ Len(tokens) = i /\ Here = i /\ i \in Nat
  BY DEF FullInv, Inv, TypeOK, ChartInvariant, ControlOK, Progress, Here
<1>2. Coming = Items /\ Drawn = Edges
  BY <1>1, Quiet
<1>3. \A it \in Items : it.pos \in 0..i
  BY <1>1 DEF FullInv, EveryListed, Progress
<1>4. \A it \in Items : Settled(it)
  BY <1>1, <1>3 DEF Settled
<1>5. \A w \in Items : Abs!Shifts(w) => Compared(w)
  BY <1>1, SameRules DEF Compared
<1>6. Wanted(grammar.start, 0) \subseteq Items
  BY <1>2 DEF FullInv, PredictionsDrawn
<1>7. \A w \in Items : Dotted(grammar, w) \in Names =>
        Wanted(Dotted(grammar, w), w.pos) \subseteq Items
  BY <1>2, <1>4 DEF FullInv, PredictionsDrawn
<1>8. \A w \in Items : Abs!Shifts(w) => Shifted(w) \in Edges
  BY <1>2, <1>5 DEF FullInv, ScansDrawn
<1>9. \A w, c \in Items : Abs!Joins(w, c) => Joined(w, c) \in Edges
  BY <1>2, <1>4 DEF FullInv, JoinsDrawn
<1> QED BY <1>6, <1>7, <1>8, <1>9

LEMMA FullIsComplete == FullInv => ChartComplete
<1> SUFFICES ASSUME FullInv PROVE ChartComplete
  OBVIOUS
<1>1. ASSUME pc \in {"scan", "finish"}
      PROVE  Abs!Saturated
  <2>1. /\ Wanted(grammar.start, 0) \subseteq Items
        /\ \A w \in Items : Dotted(grammar, w) \in Names =>
             Wanted(Dotted(grammar, w), w.pos) \subseteq Items
        /\ \A w \in Items : Abs!Shifts(w) => Shifted(w) \in Edges
        /\ \A w, c \in Items : Abs!Joins(w, c) => Joined(w, c) \in Edges
    BY <1>1, FullSaturates
  <2>2. grammar.start \in DOMAIN grammar.rules =>
           \A k \in 1..Len(grammar.rules[grammar.start]) :
             Abs!Predicted(grammar.start, k, 0) \in Items
    BY <2>1, SameItems DEF Wanted
  <2>3. \A w \in Items : Abs!Predicts(w) =>
           \A k \in 1..Len(grammar.rules[Abs!Dotted(grammar, w)]) :
             Abs!Predicted(Abs!Dotted(grammar, w), k, w.pos) \in Items
    BY <2>1, SameItems DEF Wanted, Abs!Predicts
  <2>4. \A w \in Items : Abs!Shifts(w) =>
           <<Abs!Advanced(w, w.pos + 1), Abs!TokenBack(w, w.pos)>> \in Edges
    BY <2>1, SameItems DEF Shifted
  <2>5. \A w, c \in Items : Abs!Joins(w, c) =>
           <<Abs!Advanced(w, c.pos), Abs!ChildBack(w, c)>> \in Edges
    BY <2>1, SameItems DEF Joined
  <2> QED BY <2>2, <2>3, <2>4, <2>5 DEF Abs!Saturated
<1>2. pc = "scan" =>
        expected = {Dotted(grammar, it) : it \in Range(path[i])} \cap Terminals
  BY DEF FullInv, ExpectedDrawn
<1> QED BY <1>1, <1>2 DEF ChartComplete

\* What an item was advanced from, but for where that ended.
LEMMA SameOrigin ==
  ASSUME NEW w \in Item, NEW v \in Item, NEW p, NEW q, Advanced(w, p) = Advanced(v, q)
  PROVE  /\ p = q /\ Dotted(grammar, w) = Dotted(grammar, v)
         /\ w.pos = v.pos => w = v
<1>1. /\ p = q /\ w.rule = v.rule /\ w.alt = v.alt /\ w.origin = v.origin
      /\ w.dot + 1 = v.dot + 1
  BY DEF Advanced
<1>2. w.dot = v.dot
  BY <1>1 DEF Item
<1> QED BY <1>1, <1>2 DEF Item, Dotted, SymbolsOf

\* An edge tells where it comes from: a join from its child, a shift from where
\* its item ends; and one item is not reached both ways.
LEMMA EdgeDetermined ==
  ASSUME FullInv, NEW it \in Items, NEW b \in Range(backs[it]),
         NEW d \in Range(backs[it]), b # d
  PROVE  b.child # Null /\ b.child # d.child
<1>1. /\ DrawnBy(<<it, b>>) /\ DrawnBy(<<it, d>>)
      /\ Items \subseteq Item /\ tokens \in Seq(Terminals)
  <2>1. <<it, b>> \in Edges /\ <<it, d>> \in Edges
    BY DEF Edges
  <2>2. DrawnBy(<<it, b>>) /\ DrawnBy(<<it, d>>)
    BY <2>1 DEF FullInv, EdgesDue, Drawn
  <2> QED BY <2>2, InvItems DEF FullInv, Inv, TypeOK
<1>2. ASSUME NEW w \in Items, NEW v \in Items, NEW p, NEW q,
             it = Advanced(w, p), it = Advanced(v, q)
      PROVE  /\ p = q /\ Dotted(grammar, w) = Dotted(grammar, v)
             /\ w.pos = v.pos => w = v
  <2>1. Advanced(w, p) = Advanced(v, q) /\ w \in Item /\ v \in Item
    BY <1>1, <1>2
  <2> QED BY ONLY <2>1, SameOrigin
<1>3. ASSUME NEW w \in Items, Abs!Shifts(w)
      PROVE  Dotted(grammar, w) \in Terminals
  <2>1. w.pos < Len(tokens) /\ Dotted(grammar, w) = tokens[w.pos + 1] /\ w.pos \in Nat
    BY <1>1, <1>3, SameRules DEF Item
  <2>2. w.pos + 1 \in 1..Len(tokens)
    BY <1>1, <2>1, LenProperties
  <2> QED BY <1>1, <2>1, <2>2, ElementOfSeq
<1>4. ASSUME NEW w \in Items, NEW c \in Items, Abs!Joins(w, c)
      PROVE  Dotted(grammar, w) \in Names /\ w.pos = c.origin
  BY <1>1, <1>4, SameRules DEF Item
<1>5. CASE \E w, c \in Items : Abs!Joins(w, c) /\ <<it, b>> = Joined(w, c)
  <2>1. PICK w \in Items, c \in Items : Abs!Joins(w, c) /\ <<it, b>> = Joined(w, c)
    BY <1>5
  <2>2. it = Advanced(w, c.pos) /\ b = ChildBack(w, c) /\ b.child = c
    BY <2>1 DEF Joined, ChildBack
  <2>3. c # Null
    BY <1>1, NullIsNoItem
  <2>4. CASE \E v, e \in Items : Abs!Joins(v, e) /\ <<it, d>> = Joined(v, e)
    <3>1. PICK v \in Items, e \in Items : Abs!Joins(v, e) /\ <<it, d>> = Joined(v, e)
      BY <2>4
    <3>2. it = Advanced(v, e.pos) /\ d = ChildBack(v, e) /\ d.child = e
      BY <3>1 DEF Joined, ChildBack
    <3>3. w.pos = c.origin /\ v.pos = e.origin
      BY <1>4, <2>1, <3>1
    <3>4. w.pos = v.pos => w = v
      <4>1. Advanced(w, c.pos) = Advanced(v, e.pos) /\ w \in Item /\ v \in Item
        BY <1>1, <2>2, <3>2
      <4> QED BY ONLY <4>1, SameOrigin
    <3> QED BY <2>2, <2>3, <3>2, <3>3, <3>4
  <2>5. CASE \E v \in Items : Abs!Shifts(v) /\ <<it, d>> = Shifted(v)
    <3>1. PICK v \in Items : <<it, d>> = Shifted(v)
      BY <2>5
    <3> QED BY <2>2, <2>3, <3>1 DEF Shifted, TokenBack
  <2> QED BY <1>1, <2>4, <2>5 DEF DrawnBy
<1>6. CASE \E w \in Items : Abs!Shifts(w) /\ <<it, b>> = Shifted(w)
  <2>1. PICK w \in Items : Abs!Shifts(w) /\ <<it, b>> = Shifted(w)
    BY <1>6
  <2>2. it = Advanced(w, w.pos + 1) /\ b = TokenBack(w, w.pos)
    BY <2>1 DEF Shifted
  <2>3. CASE \E v, e \in Items : Abs!Joins(v, e) /\ <<it, d>> = Joined(v, e)
    <3>1. PICK v \in Items, e \in Items : Abs!Joins(v, e) /\ <<it, d>> = Joined(v, e)
      BY <2>3
    <3>2. it = Advanced(v, e.pos)
      BY <3>1 DEF Joined
    <3> QED BY <1>2, <1>3, <1>4, <2>1, <2>2, <3>1, <3>2, GrammarAssumption
  <2>4. CASE \E v \in Items : Abs!Shifts(v) /\ <<it, d>> = Shifted(v)
    <3>1. PICK v \in Items : <<it, d>> = Shifted(v)
      BY <2>4
    <3>2. it = Advanced(v, v.pos + 1) /\ d = TokenBack(v, v.pos)
      BY <3>1 DEF Shifted
    <3>3. w.pos + 1 = v.pos + 1 /\ w.pos \in Nat /\ v.pos \in Nat
      BY <1>1, <1>2, <2>2, <3>2 DEF Item
    <3>4. w.pos = v.pos
      BY <3>3
    <3>5. w = v
      BY <1>2, <2>2, <3>2, <3>4
    <3> QED BY <2>2, <3>2, <3>5
  <2> QED BY <1>1, <2>3, <2>4 DEF DrawnBy
<1> QED BY <1>1, <1>5, <1>6 DEF DrawnBy

LEMMA FullIsSelectable == FullInv => BacksSelectable
<1> SUFFICES ASSUME FullInv, NEW it \in DOMAIN backs,
                    NEW m \in 1..Len(backs[it]), NEW n \in 1..Len(backs[it]), m # n
             PROVE  /\ backs[it][m].child # Null
                    /\ backs[it][m].child # backs[it][n].child
  BY DEF BacksSelectable
<1>1. it \in Items /\ DOMAIN backs[it] = 1..Len(backs[it])
  BY LenProperties DEF Items, FullInv, Inv, TypeOK
<1>2. /\ backs[it][m] \in Range(backs[it]) /\ backs[it][n] \in Range(backs[it])
      /\ backs[it][m] # backs[it][n]
  BY <1>1 DEF Range, FullInv, DrawnOnce, NoDuplicate
<1> QED BY <1>1, <1>2, EdgeDetermined

\* When construct asks the scanner for a token, and when it has finished, Earley's
\* rules deduce nothing more from the tokens read, for every grammar and input:
\* iterating over snapshots of tables that grow loses no item and no derivation.
THEOREM ChartIsComplete == Spec => []ChartComplete
BY FullInvariant, FullIsComplete, PTL

\* No child repeats among the back pointers of an item, and an item with several
\* has none over a token, for every grammar and input: the evaluator can tell the
\* derivations of an item apart by their children.
THEOREM BacksAreSelectable == Spec => []BacksSelectable
BY FullInvariant, FullIsSelectable, PTL
-----------------------------------------------------------------------------
(* The chart and the language                                              *)

\* The symbols before the dot derive the tokens from where the item began to where it
\* ends.
DerivedFrom(g, w, it) ==
  /\ it.origin \in 0..Len(w) /\ it.pos \in 0..Len(w)
  /\ it.pos \in EndsUpTo(SymbolsOf(g, it), w, it.origin, Spans(g, w))[it.dot]

EveryDerived == \A it \in Items : DerivedFrom(grammar, tokens, it)

\* An item stays derived when one more token is read.
LEMMA DerivedStays ==
  ASSUME NEW g \in Grammars, NEW it \in Item, Legal(g, it),
         NEW w, Len(w) \in Nat, NEW v, Len(v) \in Nat, Len(w) <= Len(v),
         \A q \in 1..Len(w) : w[q] = v[q], DerivedFrom(g, w, it)
  PROVE  DerivedFrom(g, v, it)
<1>1. Spans(g, w) \subseteq Spans(g, v)
  BY RulesFinite, SpansGrow
<1>2. Len(SymbolsOf(g, it)) \in Nat /\ it.dot \in 0..Len(SymbolsOf(g, it))
  BY RulesFinite DEF Legal, SymbolsOf, FiniteRules
<1>3. it.origin \in Nat
  BY DEF Item
<1>4. EndsUpTo(SymbolsOf(g, it), w, it.origin, Spans(g, w))[it.dot] \subseteq
        EndsUpTo(SymbolsOf(g, it), v, it.origin, Spans(g, v))[it.dot]
  BY <1>1, <1>2, <1>3, EndsGrow
<1>5. it.origin \in 0..Len(v) /\ it.pos \in 0..Len(v)
  BY DEF DerivedFrom
<1> QED BY <1>4, <1>5 DEF DerivedFrom

\* A predicted item has derived nothing yet.
LEMMA PredictedDerived ==
  ASSUME NEW g \in Grammars, NEW r \in DOMAIN g.rules, NEW k \in 1..Len(g.rules[r]),
         NEW w, Len(w) \in Nat, NEW p \in 0..Len(w)
  PROVE  DerivedFrom(g, w, Predicted(r, k, p))
<1> DEFINE it == Predicted(r, k, p)
<1>1. /\ it.pos = p /\ it.origin = p /\ it.dot = 0
      /\ SymbolsOf(g, it) = g.rules[r][k].symbols
  BY DEF Predicted, SymbolsOf
<1>2. Len(g.rules[r][k].symbols) \in Nat /\ p \in Nat
  BY RulesFinite DEF FiniteRules
<1> HIDE DEF it
<1>3. Len(SymbolsOf(g, it)) \in Nat
  BY <1>1, <1>2
<1>4. \A spans : EndsUpTo(SymbolsOf(g, it), w, p, spans)[0] = {p}
  BY ONLY <1>2, <1>3, Len(w) \in Nat, EndsSteps
<1> QED BY <1>1, <1>4 DEF DerivedFrom, it

\* The dot moves over a symbol that derives the tokens to where the item then ends.
LEMMA AdvancedDerived ==
  ASSUME NEW g \in Grammars, NEW it \in Item, Legal(g, it), ~ Completed(g, it),
         NEW w, Len(w) \in Nat, DerivedFrom(g, w, it), NEW q \in 0..Len(w),
         Derives(Dotted(g, it), w, it.pos, q, Spans(g, w))
  PROVE  DerivedFrom(g, w, Advanced(it, q))
<1> DEFINE to == Advanced(it, q)
           ends == EndsUpTo(SymbolsOf(g, it), w, it.origin, Spans(g, w))
<1>1. /\ to.pos = q /\ to.origin = it.origin /\ to.dot = it.dot + 1
      /\ SymbolsOf(g, to) = SymbolsOf(g, it)
  BY DEF Advanced, SymbolsOf
<1>2. /\ it.dot \in Nat /\ it.dot < Len(SymbolsOf(g, it)) /\ Len(SymbolsOf(g, it)) \in Nat
      /\ it.origin \in Nat /\ Dotted(g, it) = SymbolsOf(g, it)[it.dot + 1]
  <2>1. it.dot < Len(SymbolsOf(g, it))
    BY DottedType DEF Completed
  <2>2. Len(SymbolsOf(g, it)) \in Nat
    BY RulesFinite DEF Legal, SymbolsOf, FiniteRules
  <2> QED BY <2>1, <2>2 DEF Item, Dotted
<1>3. it.dot + 1 \in 1..Len(SymbolsOf(g, it)) /\ (it.dot + 1) - 1 = it.dot
  BY <1>2
<1>4. ends[it.dot + 1] =
        EndsAfter(SymbolsOf(g, it)[it.dot + 1], w, ends[it.dot], Spans(g, w))
  BY <1>2, <1>3, EndsSteps
<1>5. q \in ends[it.dot + 1]
  BY <1>2, <1>4 DEF EndsAfter, DerivedFrom
<1> HIDE DEF to
<1> QED BY <1>1, <1>5 DEF DerivedFrom, to

\* A completed item spans what its rule derives.
LEMMA CompletedDerived ==
  ASSUME NEW g \in Grammars, NEW it \in Item, Legal(g, it), Completed(g, it),
         NEW w, Len(w) \in Nat, DerivedFrom(g, w, it)
  PROVE  <<it.rule, it.origin, it.pos>> \in Spans(g, w)
<1>1. it.dot = Len(SymbolsOf(g, it))
  BY DottedType
<1>2. /\ it.rule \in DOMAIN g.rules /\ it.alt \in 1..Len(g.rules[it.rule])
      /\ SymbolsOf(g, it) = g.rules[it.rule][it.alt].symbols
      /\ Len(SymbolsOf(g, it)) \in Nat /\ it.origin \in Nat
  BY RulesFinite DEF Legal, SymbolsOf, FiniteRules, Item
<1>3. it.pos \in EndsOf(SymbolsOf(g, it), w, it.origin, Spans(g, w))
  BY <1>1, <1>2, EndsSteps DEF DerivedFrom
<1>4. <<it.rule, it.origin, it.pos>> \in MoreSpans(g, w, Spans(g, w))
  BY <1>2, <1>3, MoreSpansAre DEF DerivedFrom
<1> QED BY <1>4, RulesFinite, SpansClosed

LEMMA InitDerives == Init => EveryDerived
  BY DEF Init, EmptyTable, EveryDerived, Items

LEMMA NextDerives == ASSUME Inv, EveryDerived, [Next]_vars PROVE EveryDerived'
<1>1. /\ grammar \in Grammars /\ tokens \in Seq(Terminals) /\ Len(tokens) \in Nat
      /\ Items \in SUBSET Item /\ \A it \in Items : Legal(grammar, it)
      /\ \A it \in Items : DerivedFrom(grammar, tokens, it)
  BY InvItems, LenProperties DEF Inv, TypeOK, EveryDerived
<1>2. [Abs!Next]_(Abs!vars)
  BY NextDeduces
<1>3. ASSUME UNCHANGED <<grammar, tokens>>,
             NEW new, DerivedFrom(grammar, tokens, new), Items' \subseteq Items \cup {new}
      PROVE  EveryDerived'
  BY <1>1, <1>3 DEF EveryDerived
<1>4. CASE UNCHANGED Abs!vars
  BY <1>1, <1>4 DEF Abs!vars, EveryDerived
<1>5. ASSUME NEW t \in Terminals, Abs!Read(t) PROVE EveryDerived'
  <2>1. grammar' = grammar /\ tokens' = Append(tokens, t) /\ Items' = Items
    BY <1>5 DEF Abs!Read
  <2>2. /\ Len(tokens') = Len(tokens) + 1 /\ Len(tokens) <= Len(tokens')
        /\ Len(tokens') \in Nat /\ \A q \in 1..Len(tokens) : tokens[q] = tokens'[q]
    BY <1>1, <2>1, AppendProperties
  <2>3. ASSUME NEW it \in Items PROVE DerivedFrom(grammar, tokens', it)
    BY <1>1, <2>2, DerivedStays
  <2> QED BY <2>1, <2>3 DEF EveryDerived
<1>6. ASSUME Abs!Start PROVE EveryDerived'
  <2>1. PICK k \in 1..Len(grammar.rules[grammar.start]) :
               Abs!Deduce(Predicted(grammar.start, k, 0))
    BY <1>6, SameItems DEF Abs!Start
  <2>2. grammar.start \in DOMAIN grammar.rules /\ 0 \in 0..Len(tokens)
    BY <1>1, <1>6 DEF Abs!Start
  <2>3. DerivedFrom(grammar, tokens, Predicted(grammar.start, k, 0))
    BY <1>1, <2>2, PredictedDerived
  <2> QED BY <1>3, <2>1, <2>3 DEF Abs!Deduce
<1>7. ASSUME NEW w \in Items, Abs!Predict(w) PROVE EveryDerived'
  <2>1. PICK k \in 1..Len(grammar.rules[Dotted(grammar, w)]) :
               Abs!Deduce(Predicted(Dotted(grammar, w), k, w.pos))
    BY <1>7, SameItems DEF Abs!Predict
  <2>2. Dotted(grammar, w) \in DOMAIN grammar.rules /\ w.pos \in 0..Len(tokens)
    BY <1>1, <1>7, SameItems DEF Abs!Predict, Abs!Predicts, DerivedFrom
  <2>3. DerivedFrom(grammar, tokens, Predicted(Dotted(grammar, w), k, w.pos))
    BY <1>1, <2>2, PredictedDerived
  <2> QED BY <1>3, <2>1, <2>3 DEF Abs!Deduce
<1>8. ASSUME NEW w \in Items, Abs!Scan(w) PROVE EveryDerived'
  <2>1. Abs!Shifts(w) /\ Abs!DeduceWith(Advanced(w, w.pos + 1), TokenBack(w, w.pos))
    BY <1>8, SameItems DEF Abs!Scan
  <2>2. w.pos < Len(tokens) /\ Dotted(grammar, w) = tokens[w.pos + 1]
    BY <2>1, SameRules
  <2>3. w.pos \in Nat /\ w.pos + 1 \in 0..Len(tokens) /\ w.pos + 1 \in 1..Len(tokens)
    BY <1>1, <2>2 DEF Item
  <2>4. ~ Completed(grammar, w)
    <3>1. tokens[w.pos + 1] \in Terminals
      BY <1>1, <2>3, ElementOfSeq
    <3> QED BY <2>2, <3>1, GrammarAssumption DEF Completed, Symbols
  <2>5. Derives(Dotted(grammar, w), tokens, w.pos, w.pos + 1, Spans(grammar, tokens))
    BY <2>2 DEF Derives
  <2>6. DerivedFrom(grammar, tokens, Advanced(w, w.pos + 1))
    BY <1>1, <2>3, <2>4, <2>5, AdvancedDerived
  <2> QED BY <1>3, <2>1, <2>6 DEF Abs!DeduceWith
<1>9. ASSUME NEW w \in Items, NEW c \in Items, Abs!Complete(w, c) PROVE EveryDerived'
  <2>1. Abs!Joins(w, c) /\ Abs!DeduceWith(Advanced(w, c.pos), ChildBack(w, c))
    BY <1>9, SameItems DEF Abs!Complete
  <2>2. Completed(grammar, c) /\ Dotted(grammar, w) = c.rule /\ w.pos = c.origin
    BY <2>1, SameRules
  <2>3. <<c.rule, c.origin, c.pos>> \in Spans(grammar, tokens)
    BY <1>1, <2>2, CompletedDerived
  <2>4. ~ Completed(grammar, w) /\ c.pos \in 0..Len(tokens)
    <3>1. c.rule \in Names
      BY <1>1 DEF Item
    <3> QED BY <1>1, <2>2, <3>1, GrammarAssumption DEF Completed, Symbols, DerivedFrom
  <2>5. Derives(Dotted(grammar, w), tokens, w.pos, c.pos, Spans(grammar, tokens))
    BY <2>2, <2>3 DEF Derives
  <2>6. DerivedFrom(grammar, tokens, Advanced(w, c.pos))
    BY <1>1, <2>4, <2>5, AdvancedDerived
  <2> QED BY <1>3, <2>1, <2>6 DEF Abs!DeduceWith
<1> QED BY <1>2, <1>4, <1>5, <1>6, <1>7, <1>8, <1>9 DEF Abs!Next

\* The limit of the chart is where its input ends.
LimitSet == pc = "done" => limit = Len(tokens)

LEMMA InitLimit == Init => LimitSet
  BY DEF Init, LimitSet

LEMMA NextLimit == ASSUME Inv, LimitSet, [Next]_vars PROVE LimitSet'
<1>1. CASE Finish
  BY <1>1 DEF Finish, LimitSet
<1>2. CASE UNCHANGED vars
  BY <1>2 DEF vars, LimitSet
<1>3. CASE Add \/ Return
  <2>1. pc' = pc /\ work # << >>
    BY <1>3 DEF Add, AddMerge, AddCompleted, AddNullable, AddWaiting, AddNew, Calling,
       Unmoved, Return
  <2> QED BY <2>1 DEF LimitSet, Inv, ChartInvariant, ControlOK
<1>4. CASE Next /\ ~ Finish /\ ~ Add /\ ~ Return
  <2>1. pc' # "done"
    BY <1>4 DEF Next, Start, Loop, SkipNullable, Complete, Expect, Predict, Visiting, Visited,
       Leave, ScanToken, ScanNothing, Advance, NextPosition
  <2> QED BY <2>1 DEF LimitSet
<1> QED BY <1>1, <1>2, <1>3, <1>4

-----------------------------------------------------------------------------
(* Every span of the language is completed                                 *)

ItemAt(r, k, p, d, m) == [pos |-> m, rule |-> r, alt |-> k, dot |-> d, origin |-> p]

\* The chart has completed the rule over the span, if it has begun to look for it.
Spanned(r, p, q) ==
  Wanted(r, p) \subseteq Items =>
    \E c \in Items : /\ Completed(grammar, c)
                     /\ c.rule = r /\ c.origin = p /\ c.pos = q

SpannedSpans ==
  {s \in (DOMAIN grammar.rules) \X Nat \X Nat : Spanned(s[1], s[2], s[3])}

LEMMA EdgeItem == \A e \in Edges : e[1] \in Items
  BY DEF Edges

\* An item of the finished chart is advanced over every symbol that derives.
LEMMA ItemsAdvance ==
  ASSUME FullInv, pc = "done", NEW it \in Items, ~ Completed(grammar, it),
         NEW q \in 0..Len(tokens),
         Derives(Dotted(grammar, it), tokens, it.pos, q, SpannedSpans)
  PROVE  Advanced(it, q) \in Items
<1>1. /\ \A w \in Items : Dotted(grammar, w) \in Names =>
           Wanted(Dotted(grammar, w), w.pos) \subseteq Items
      /\ \A w \in Items : Abs!Shifts(w) => Shifted(w) \in Edges
      /\ \A w, c \in Items : Abs!Joins(w, c) => Joined(w, c) \in Edges
  BY FullSaturates
<1>2. /\ grammar \in Grammars /\ Len(tokens) \in Nat /\ it \in Item
  BY InvItems, LenProperties DEF FullInv, Inv, TypeOK
<1>3. CASE <<Dotted(grammar, it), it.pos, q>> \in SpannedSpans
  <2>1. Dotted(grammar, it) \in DOMAIN grammar.rules /\ Spanned(Dotted(grammar, it), it.pos, q)
    BY <1>3 DEF SpannedSpans
  <2>2. Dotted(grammar, it) \in Names
    BY <1>2, <2>1, GrammarAssumption
  <2>3. PICK c \in Items : /\ Completed(grammar, c)
                           /\ c.rule = Dotted(grammar, it) /\ c.origin = it.pos /\ c.pos = q
    BY <1>1, <2>1, <2>2 DEF Spanned
  <2>4. Joined(it, c) \in Edges
    BY <1>1, <2>3, SameRules
  <2> QED BY <2>3, <2>4, EdgeItem, EdgeFields
<1>4. CASE q = it.pos + 1 /\ tokens[q] = Dotted(grammar, it)
  <2>1. it.pos < Len(tokens)
    BY <1>2, <1>4 DEF Item
  <2>2. Shifted(it) \in Edges
    BY <1>1, <1>4, <2>1, SameRules
  <2> QED BY <1>4, <2>2, EdgeItem, EdgeFields
<1> QED BY <1>3, <1>4 DEF Derives

\* The spans that are completed, if they are looked for, are closed under the rules.
LEMMA SpannedClosed ==
  ASSUME FullInv, pc = "done"
  PROVE  MoreSpans(grammar, tokens, SpannedSpans) \subseteq SpannedSpans
<1>1. /\ grammar \in Grammars /\ Len(tokens) \in Nat
  BY LenProperties DEF FullInv, Inv, TypeOK
<1>2. ASSUME NEW r \in DOMAIN grammar.rules, NEW p \in 0..Len(tokens),
             NEW k \in 1..Len(grammar.rules[r]),
             NEW q \in EndsOf(grammar.rules[r][k].symbols, tokens, p, SpannedSpans)
      PROVE  Spanned(r, p, q)
  <2> SUFFICES ASSUME Wanted(r, p) \subseteq Items
               PROVE  \E c \in Items : /\ Completed(grammar, c)
                                       /\ c.rule = r /\ c.origin = p /\ c.pos = q
    BY DEF Spanned
  <2> DEFINE symbols == grammar.rules[r][k].symbols
             ends == EndsUpTo(symbols, tokens, p, SpannedSpans)
             Good == {d \in Nat : d <= Len(symbols) =>
                        \A m \in ends[d] : ItemAt(r, k, p, d, m) \in Items}
  <2>1. Len(symbols) \in Nat /\ p \in Nat
    BY <1>1, RulesFinite DEF FiniteRules
  <2>2. /\ EndsOf(symbols, tokens, p, SpannedSpans) = ends[Len(symbols)] /\ ends[0] = {p}
        /\ \A d \in 1..Len(symbols) :
             ends[d] = EndsAfter(symbols[d], tokens, ends[d - 1], SpannedSpans)
    BY <1>1, <2>1, EndsSteps
  <2>3. ASSUME NEW d, NEW m
        PROVE  LET it == ItemAt(r, k, p, d, m)
               IN  /\ it.rule = r /\ it.origin = p /\ it.pos = m
                   /\ SymbolsOf(grammar, it) = symbols
                   /\ Completed(grammar, it) <=> Dotted(grammar, it) = Null
                   /\ d < Len(symbols) => Dotted(grammar, it) = symbols[d + 1]
                   /\ ~ (d < Len(symbols)) => Dotted(grammar, it) = Null
                   /\ \A j : Advanced(it, j) = ItemAt(r, k, p, d + 1, j)
    BY DEF ItemAt, SymbolsOf, Dotted, Completed, Advanced
  <2> HIDE DEF ends, symbols
  <2>4. 0 \in Good
    <3>1. ItemAt(r, k, p, 0, p) \in Wanted(r, p)
      BY DEF ItemAt, Wanted, Predicted
    <3> QED BY <2>2, <3>1
  <2>5. ASSUME NEW d \in Nat, d \in Good PROVE d + 1 \in Good
    <3>1. SUFFICES ASSUME d + 1 <= Len(symbols), NEW j \in ends[d + 1]
                   PROVE  ItemAt(r, k, p, d + 1, j) \in Items
      OBVIOUS
    <3>2. d + 1 \in 1..Len(symbols) /\ (d + 1) - 1 = d /\ d <= Len(symbols)
          /\ d < Len(symbols)
      BY <2>1, <3>1
    <3>3. PICK m \in ends[d] : Derives(symbols[d + 1], tokens, m, j, SpannedSpans)
      BY <2>2, <3>1, <3>2 DEF EndsAfter
    <3>4. j \in 0..Len(tokens)
      BY <2>2, <3>1, <3>2 DEF EndsAfter
    <3> DEFINE it == ItemAt(r, k, p, d, m)
    <3>5. it \in Items
      BY <2>5, <3>2
    <3>6. it.pos = m /\ Dotted(grammar, it) = symbols[d + 1]
          /\ Advanced(it, j) = ItemAt(r, k, p, d + 1, j)
      BY <2>3, <3>2
    <3>7. symbols[d + 1] # Null
      <4>1. symbols \in Seq(Symbols)
        BY <1>1, RulesFinite DEF symbols
      <4>2. symbols[d + 1] \in Symbols
        BY <3>2, <4>1, ElementOfSeq
      <4> QED BY <4>2, GrammarAssumption
    <3>8. ~ Completed(grammar, it)
      BY <3>6, <3>7 DEF Completed
    <3> HIDE DEF it
    <3> QED BY <3>3, <3>4, <3>5, <3>6, <3>8, ItemsAdvance
  <2>6. Nat \subseteq Good
    <3> HIDE DEF Good
    <3> QED BY <2>4, <2>5, Induction
  <2>7. q \in ends[Len(symbols)] /\ Len(symbols) <= Len(symbols)
    BY <2>1, <2>2 DEF symbols
  <2>8. ItemAt(r, k, p, Len(symbols), q) \in Items
    BY <2>1, <2>6, <2>7
  <2>9. Completed(grammar, ItemAt(r, k, p, Len(symbols), q))
    BY <2>1, <2>3
  <2> QED BY <2>3, <2>8, <2>9
<1>3. ASSUME NEW r, NEW p, NEW q, <<r, p, q>> \in MoreSpans(grammar, tokens, SpannedSpans)
      PROVE  <<r, p, q>> \in SpannedSpans
  <2>1. r \in DOMAIN grammar.rules /\ p \in 0..Len(tokens)
    BY <1>3, MoreSpansAre
  <2>2. PICK k \in 1..Len(grammar.rules[r]) :
               q \in EndsOf(grammar.rules[r][k].symbols, tokens, p, SpannedSpans)
    BY <1>3, MoreSpansAre
  <2>3. Spanned(r, p, q)
    BY <1>2, <2>1, <2>2
  <2>4. q \in Nat
    <3>1. Len(grammar.rules[r][k].symbols) \in Nat /\ p \in Nat
      BY <1>1, <2>1, RulesFinite DEF FiniteRules
    <3>2. q \in 0..Len(tokens)
      BY <1>1, <2>1, <2>2, <3>1, EndsInput
    <3> QED BY <3>2
  <2> QED BY <2>1, <2>3, <2>4 DEF SpannedSpans
<1> QED BY <1>3, MoreSpansAre

\* What acceptance and language have to do with the finished chart.
LanguageInv == FullInv /\ EveryDerived /\ LimitSet

LEMMA LanguageInvariant == Spec => []LanguageInv
<1>1. Init => LanguageInv
  BY InitFull, InitDerives, InitLimit DEF LanguageInv
<1>2. ASSUME LanguageInv, [Next]_vars PROVE FullInv' /\ EveryDerived' /\ LimitSet'
  <2>1. Inv
    BY <1>2 DEF LanguageInv, FullInv
  <2> QED BY <1>2, <2>1, NextFull, NextDerives, NextLimit DEF LanguageInv
<1>3. ASSUME LanguageInv, [Next]_vars PROVE LanguageInv'
  BY <1>2, <1>3 DEF LanguageInv
<1> QED BY <1>1, <1>3, PTL DEF Spec

LEMMA LanguageAccepted == LanguageInv => AcceptsLanguage
<1> SUFFICES ASSUME LanguageInv, pc = "done"
             PROVE  /\ Accepts <=> Sentence(grammar, tokens)
                    /\ \A it \in DOMAIN backs : Completed(grammar, it) =>
                         <<it.rule, it.origin, it.pos>> \in Spans(grammar, tokens)
  BY DEF AcceptsLanguage
<1>1. /\ grammar \in Grammars /\ Len(tokens) \in Nat /\ limit = Len(tokens)
      /\ Items \in SUBSET Item /\ \A it \in Items : Legal(grammar, it)
      /\ FullInv /\ Inv /\ EveryListed
  BY InvItems, LenProperties DEF LanguageInv, LimitSet, FullInv, Inv, TypeOK
<1>2. ASSUME NEW it \in Items, Completed(grammar, it)
      PROVE  <<it.rule, it.origin, it.pos>> \in Spans(grammar, tokens)
  BY <1>1, <1>2, CompletedDerived DEF LanguageInv, EveryDerived
<1>3. \A it \in DOMAIN backs : Completed(grammar, it) =>
        <<it.rule, it.origin, it.pos>> \in Spans(grammar, tokens)
  BY <1>2 DEF Items
<1>4. ASSUME Accepts PROVE Sentence(grammar, tokens)
  <2>1. PICK it \in Range(Lookup(path, limit)) :
               it.rule = grammar.start /\ it.origin = 0 /\ Completed(grammar, it)
    BY <1>4 DEF Accepts
  <2>2. limit \in DOMAIN path
    BY <2>1, NoFrame DEF Lookup
  <2>3. it \in Items /\ it.pos = limit
    BY <1>1, <2>1, <2>2, PathHolds DEF Lookup, PathItems
  <2> QED BY <1>1, <1>2, <2>1, <2>3 DEF Sentence
<1>5. ASSUME Sentence(grammar, tokens) PROVE Accepts
  <2>1. Spans(grammar, tokens) \subseteq SpannedSpans
    BY <1>1, RulesFinite, SpannedClosed, SpansLeast
  <2>2. <<grammar.start, 0, Len(tokens)>> \in SpannedSpans
    BY <1>5, <2>1 DEF Sentence
  <2>3. Spanned(grammar.start, 0, Len(tokens))
    BY <2>2 DEF SpannedSpans
  <2>4. PICK c \in Items : /\ Completed(grammar, c) /\ c.rule = grammar.start
                           /\ c.origin = 0 /\ c.pos = Len(tokens)
    BY <1>1, <2>3, FullSaturates DEF Spanned
  <2>5. c \in Range(Lookup(path, limit))
    BY <1>1, <2>4 DEF EveryListed, Lookup
  <2> QED BY <2>4, <2>5 DEF Accepts
<1> QED BY <1>3, <1>4, <1>5

\* Whatever the loops of add, complete and drain do in which order, the constructor
\* accepts exactly the inputs the grammar derives, and what it has completed is derived,
\* for every grammar and input.
THEOREM LanguageCorrect == Spec => []AcceptsLanguage
BY LanguageInvariant, LanguageAccepted, PTL

-----------------------------------------------------------------------------
(* How back pointers are stored                                            *)

\* What Stored has made of the first k elements of a list: one is kept inline, more in
\* an array with room for n.
Stores(bs, list, k) ==
  /\ k = 0 => bs = NoBacks
  /\ k = 1 => bs = [used |-> 1, limit |-> 1, data |-> list[1]]
  /\ k > 1 => \E n \in Nat : \E data :
                /\ bs = [used |-> k, limit |-> n, data |-> data]
                /\ n > 1 /\ k <= n
                /\ DOMAIN data = 1..n
                /\ data = [j \in 1..n |-> data[j]]
                /\ \A j \in 1..k : data[j] = list[j]

\* The record written, field by field.
LEMMA WrittenIs ==
  ASSUME NEW u \in Nat, NEW l, NEW d, NEW b, NEW new, new = [d EXCEPT ![u + 1] = b]
  PROVE  Written([used |-> u, limit |-> l, data |-> d], b)
           = [used |-> u + 1, limit |-> l, data |-> new]
<1> DEFINE bs == [used |-> u, limit |-> l, data |-> d]
<1>1. DOMAIN bs = {"used", "limit", "data"} /\ bs.used = u /\ bs.limit = l /\ bs.data = d
  OBVIOUS
<1> HIDE DEF bs
<1>2. Written(bs, b) = [x \in {"used", "limit", "data"} |->
                          IF x = "used" THEN u + 1
                          ELSE IF x = "data" THEN [d EXCEPT ![u + 1] = b] ELSE bs[x]]
  BY <1>1 DEF Written
<1>3. QED
  BY <1>1, <1>2 DEF bs

\* The record grown, field by field.
LEMMA GrownIs ==
  ASSUME NEW bs, NEW more, DOMAIN bs = {"used", "limit", "data"},
         bs = [x \in {"used", "limit", "data"} |-> bs[x]],
         more = [k \in 1..NewLimit(bs) |-> IF k <= bs.used THEN Fetched(bs, k - 1) ELSE Null]
  PROVE  Grown(bs) = [used |-> bs.used, limit |-> NewLimit(bs), data |-> more]
<1>1. Grown(bs) = [bs EXCEPT !.limit = NewLimit(bs), !.data = more]
  BY Zenon DEF Grown
<1>2. Grown(bs) = [x \in {"used", "limit", "data"} |->
                     IF x = "limit" THEN NewLimit(bs) ELSE IF x = "data" THEN more ELSE bs[x]]
  BY ONLY <1>1, DOMAIN bs = {"used", "limit", "data"}
<1>3. QED
  BY <1>2

\* An entry written into an array with room for it.
LEMMA WrittenHolds ==
  ASSUME NEW list, NEW k \in Nat, NEW n \in Nat, NEW data, k >= 1, k < n,
         data = [j \in 1..n |-> data[j]],
         \A j \in 1..k : data[j] = list[j]
  PROVE  Stores(Written([used |-> k, limit |-> n, data |-> data], list[k + 1]), list, k + 1)
<1> DEFINE bs  == [used |-> k, limit |-> n, data |-> data]
           new == [data EXCEPT ![k + 1] = list[k + 1]]
<1>1. Written(bs, list[k + 1]) = [used |-> k + 1, limit |-> n, data |-> new]
  <2>1. new = [data EXCEPT ![k + 1] = list[k + 1]]
    OBVIOUS
  <2> HIDE DEF new
  <2>2. QED
    BY <2>1, WrittenIs
<1>2. DOMAIN data = 1..n
  OBVIOUS
<1>3. DOMAIN new = 1..n /\ new = [j \in 1..n |-> new[j]]
  BY <1>2
<1>4. \A j \in 1..(k + 1) : new[j] = list[j]
  <2>1. TAKE j \in 1..(k + 1)
  <2>2. j \in 1..n /\ (j = k + 1 \/ j \in 1..k)
    OBVIOUS
  <2>3. QED
    BY <1>2, <2>2
<1> HIDE DEF new
<1>5. k + 1 > 1 /\ k + 1 <= n /\ n > 1 /\ k + 1 # 0 /\ k + 1 # 1
  OBVIOUS
<1>6. QED
  BY <1>1, <1>3, <1>4, <1>5 DEF Stores

\* One back pointer more, into whatever there is.
LEMMA AppendedHolds ==
  ASSUME NEW list, NEW k \in Nat, NEW bs, Stores(bs, list, k)
  PROVE  Stores(Appended(bs, list[k + 1]), list, k + 1)
<1>1. CASE k = 0
  <2>1. bs = [used |-> 0, limit |-> 0, data |-> Null]
    BY <1>1 DEF Stores, NoBacks
  <2>2. Appended(bs, list[k + 1]) = [used |-> 1, limit |-> 1, data |-> list[1]]
    BY <1>1, <2>1 DEF Appended
  <2>3. QED
    BY <1>1, <2>2 DEF Stores
<1>2. CASE k = 1
  <2>1. bs = [used |-> 1, limit |-> 1, data |-> list[1]]
    BY <1>2 DEF Stores
  <2> DEFINE n    == NewLimit(bs)
             data == [j \in 1..n |-> IF j <= k THEN Fetched(bs, j - 1) ELSE Null]
  <2>2. n = 4 /\ Fetched(bs, 0) = list[1]
    BY <2>1 DEF NewLimit, Fetched
  <2> HIDE DEF n
  <2>3. data[1] = list[1]
    <3>1. 1 \in 1..n /\ 1 <= k /\ 1 - 1 = 0
      BY <1>2, <2>2
    <3>2. QED
      BY <2>2, <3>1
  <2>4. data = [j \in 1..n |-> data[j]] /\ \A j \in 1..k : data[j] = list[j]
    BY <1>2, <2>3
  <2>5. bs = [used |-> k, limit |-> 1, data |-> list[1]]
    BY <1>2, <2>1
  <2>6. Grown(bs) = [used |-> k, limit |-> n, data |-> data]
    <3>1. data = [j \in 1..n |-> IF j <= k THEN Fetched(bs, j - 1) ELSE Null]
      OBVIOUS
    <3>2. DOMAIN bs = {"used", "limit", "data"} /\ bs.used = k
          /\ bs = [x \in {"used", "limit", "data"} |-> bs[x]]
      BY <2>5
    <3>3. Grown(bs) = [used |-> bs.used, limit |-> NewLimit(bs), data |-> data]
      <4>1. data = [j \in 1..NewLimit(bs) |->
                      IF j <= bs.used THEN Fetched(bs, j - 1) ELSE Null]
        BY <3>1, <3>2, Zenon DEF n
      <4> HIDE DEF data
      <4>2. QED
        BY <3>2, <4>1, GrownIs
    <3>4. QED
      BY <3>2, <3>3, Zenon DEF n
  <2>7. Appended(bs, list[k + 1])
          = Written([used |-> k, limit |-> n, data |-> data], list[k + 1])
    <3>1. bs.limit # 0 /\ bs.used = bs.limit
      BY <2>1
    <3>2. QED
      BY <2>6, <3>1, Zenon DEF Appended
  <2>8. k >= 1 /\ k < n /\ n \in Nat
    BY <1>2, <2>2
  <2> HIDE DEF data
  <2>9. QED
    BY <2>4, <2>7, <2>8, WrittenHolds
<1>3. CASE k > 1
  <2> DEFINE Array(n, data) == /\ bs = [used |-> k, limit |-> n, data |-> data]
                               /\ n > 1 /\ k <= n
                               /\ DOMAIN data = 1..n
                               /\ data = [j \in 1..n |-> data[j]]
                               /\ \A j \in 1..k : data[j] = list[j]
  <2>8. PICK n \in Nat : \E data : Array(n, data)
    BY <1>3 DEF Stores
  <2>9. PICK data : Array(n, data)
    BY <2>8
  <2>1. Array(n, data)
    BY <2>9
  <2>2. CASE k < n
    <3>1. Appended(bs, list[k + 1]) = Written(bs, list[k + 1])
      BY <1>3, <2>1, <2>2 DEF Appended
    <3>2. k >= 1
      BY <1>3
    <3>3. Stores(Written([used |-> k, limit |-> n, data |-> data], list[k + 1]), list, k + 1)
      BY <2>1, <2>2, <3>2, WrittenHolds
    <3>4. QED
      BY <2>1, <3>1, <3>3, Zenon
  <2>3. CASE k = n
    <3> DEFINE more == [j \in 1..(n * 2) |-> IF j <= n THEN data[j] ELSE Null]
    <3>1. NewLimit(bs) = n * 2 /\ bs.used = n /\ bs.data = data /\ bs.limit > 1
      BY <2>1, <2>3 DEF NewLimit
    <3>2. \A j \in 1..(n * 2) : Fetched(bs, j - 1) = data[j]
      <4>1. TAKE j \in 1..(n * 2)
      <4>2. (j - 1) + 1 = j
        OBVIOUS
      <4>3. QED
        BY <3>1, <4>2 DEF Fetched
    <3>3. [j \in 1..(n * 2) |-> IF j <= k THEN Fetched(bs, j - 1) ELSE Null] = more
      BY <2>3, <3>2, Zenon
    <3>4. Grown(bs) = [used |-> k, limit |-> n * 2, data |-> more]
      <4>1. DOMAIN bs = {"used", "limit", "data"} /\ bs.used = k
            /\ bs = [x \in {"used", "limit", "data"} |-> bs[x]]
        BY <2>1
      <4>2. more = [j \in 1..NewLimit(bs) |->
                      IF j <= bs.used THEN Fetched(bs, j - 1) ELSE Null]
        BY <3>1, <3>3, <4>1, Zenon
      <4> HIDE DEF more
      <4>3. Grown(bs) = [used |-> bs.used, limit |-> NewLimit(bs), data |-> more]
        BY <4>1, <4>2, GrownIs
      <4>4. QED
        BY <3>1, <4>1, <4>3, Zenon
    <3>5. Appended(bs, list[k + 1])
            = Written([used |-> k, limit |-> n * 2, data |-> more], list[k + 1])
      BY <1>3, <2>1, <2>3, <3>4 DEF Appended
    <3>6. more = [j \in 1..(n * 2) |-> more[j]] /\ \A j \in 1..k : more[j] = list[j]
      <4>1. \A j \in 1..k : j \in 1..(n * 2) /\ j <= n
        BY <2>3
      <4>2. QED
        BY <2>1, <4>1
    <3>7. n * 2 \in Nat /\ k < n * 2 /\ k >= 1
      BY <1>3, <2>3
    <3> HIDE DEF more
    <3>8. QED
      BY <3>5, <3>6, <3>7, WrittenHolds
  <2>4. QED
    BY <2>1, <2>2, <2>3
<1>4. QED
  BY <1>1, <1>2, <1>3

\* A function defined from 0 up exists.
LEMMA StoredSteps ==
  ASSUME NEW list, Len(list) \in Nat
  PROVE  \E g : /\ Stored(list) = g[Len(list)]
                /\ g[0] = NoBacks
                /\ \A k \in 1..Len(list) : g[k] = Appended(g[k - 1], list[k])
<1> DEFINE IsUpTo(g, m) == g = [k \in 0..m |-> IF k = 0 THEN NoBacks
                                               ELSE Appended(g[k - 1], list[k])]
           D == {m \in Nat : \E g : IsUpTo(g, m)}
<1>1. 0 \in D
  <2>1. IsUpTo([k \in 0..0 |-> NoBacks], 0)
    OBVIOUS
  <2>2. QED
    BY <2>1
<1>2. ASSUME NEW m \in Nat, m \in D PROVE m + 1 \in D
  <2>1. PICK g : IsUpTo(g, m)
    BY <1>2
  <2> DEFINE h == [k \in 0..(m + 1) |-> IF k = m + 1 THEN Appended(g[m], list[k]) ELSE g[k]]
  <2>2. \A k \in 0..m : g[k] = IF k = 0 THEN NoBacks ELSE Appended(g[k - 1], list[k])
    BY <2>1
  <2>3. \A k \in 0..m : h[k] = g[k]
    OBVIOUS
  <2>4. ASSUME NEW k \in 0..(m + 1)
        PROVE  h[k] = IF k = 0 THEN NoBacks ELSE Appended(h[k - 1], list[k])
    <3>1. CASE k = 0
      <4>1. 0 \in 0..m
        OBVIOUS
      <4>2. QED
        BY <2>2, <2>3, <3>1, <4>1
    <3>2. CASE k # 0 /\ k # m + 1
      <4>1. k \in 0..m /\ k - 1 \in 0..m
        BY <3>2
      <4>2. QED
        BY <2>2, <2>3, <3>2, <4>1
    <3>3. CASE k = m + 1
      <4>1. m \in 0..m /\ k - 1 = m /\ k # 0
        BY <3>3
      <4>2. h[k] = Appended(g[m], list[k])
        BY <3>3
      <4>3. QED
        BY <2>3, <4>1, <4>2
    <3>4. QED
      BY <3>1, <3>2, <3>3
  <2>5. h = [k \in 0..(m + 1) |-> h[k]]
    OBVIOUS
  <2> HIDE DEF h
  <2>6. IsUpTo(h, m + 1)
    BY <2>4, <2>5, Zenon
  <2>7. QED
    BY <2>6
<1>3. Nat \subseteq D
  <2> HIDE DEF D
  <2>1. QED
    BY <1>1, <1>2, Induction
<1>4. PICK g : IsUpTo(g, Len(list))
  BY <1>3
<1> DEFINE stored == CHOOSE g2 : IsUpTo(g2, Len(list))
<1>5. IsUpTo(stored, Len(list))
  BY <1>4
<1>6. Stored(list) = stored[Len(list)]
  BY DEF Stored
<1> HIDE DEF stored
<1>7. /\ stored[0] = NoBacks
      /\ \A k \in 1..Len(list) : stored[k] = Appended(stored[k - 1], list[k])
  <2>1. \A k \in 0..Len(list) : stored[k] = IF k = 0 THEN NoBacks
                                             ELSE Appended(stored[k - 1], list[k])
    BY <1>5
  <2>2. 0 \in 0..Len(list) /\ \A k \in 1..Len(list) : k \in 0..Len(list) /\ k # 0
    OBVIOUS
  <2>3. QED
    BY <2>1, <2>2
<1>8. QED
  BY <1>6, <1>7

\* What is fetched of a list that has been stored is that list.
LEMMA StoredListed ==
  ASSUME NEW S, NEW list \in Seq(S)
  PROVE  Listed(Stored(list)) = list
<1> DEFINE n == Len(list)
<1>1. n \in Nat
  OBVIOUS
<1>2. PICK g : /\ Stored(list) = g[n]
               /\ g[0] = NoBacks
               /\ \A k \in 1..n : g[k] = Appended(g[k - 1], list[k])
  BY <1>1, StoredSteps
<1> DEFINE D == {k \in Nat : k <= n => Stores(g[k], list, k)}
<1>3. 0 \in D
  BY <1>2 DEF Stores
<1>4. ASSUME NEW k \in Nat, k \in D PROVE k + 1 \in D
  <2>1. SUFFICES ASSUME k + 1 <= n PROVE Stores(g[k + 1], list, k + 1)
    OBVIOUS
  <2>2. Stores(g[k], list, k)
    BY <1>1, <1>4, <2>1
  <2>3. k + 1 \in 1..n /\ (k + 1) - 1 = k
    BY <1>1, <2>1
  <2>4. g[k + 1] = Appended(g[k], list[k + 1])
    BY <1>2, <2>3
  <2>5. Stores(Appended(g[k], list[k + 1]), list, k + 1)
    BY <2>2, AppendedHolds
  <2>6. QED
    BY <2>4, <2>5
<1>5. Nat \subseteq D
  <2> HIDE DEF D
  <2>1. QED
    BY <1>3, <1>4, Induction
<1> DEFINE bs == g[n]
<1>6. Stores(bs, list, n)
  BY <1>1, <1>5
<1> HIDE DEF bs
<1>7. bs.used = n /\ \A j \in 1..n : Fetched(bs, j - 1) = list[j]
  <2>1. CASE n = 0
    <3>1. bs.used = 0 /\ 1..n = {}
      BY <1>6, <2>1 DEF Stores, NoBacks
    <3>2. QED
      BY <2>1, <3>1
  <2>2. CASE n = 1
    <3>1. bs = [used |-> 1, limit |-> 1, data |-> list[1]]
      BY <1>6, <2>2 DEF Stores
    <3>2. Fetched(bs, 0) = list[1] /\ bs.used = 1
      BY <3>1 DEF Fetched
    <3>3. \A j \in 1..n : j = 1 /\ j - 1 = 0
      BY <2>2
    <3>4. QED
      BY <2>2, <3>2, <3>3
  <2>3. CASE n > 1
    <3>1. PICK m \in Nat : \E data : /\ bs = [used |-> n, limit |-> m, data |-> data]
                                     /\ m > 1
                                     /\ \A j \in 1..n : data[j] = list[j]
      BY <1>6, <2>3 DEF Stores
    <3>2. PICK data : /\ bs = [used |-> n, limit |-> m, data |-> data]
                      /\ m > 1
                      /\ \A j \in 1..n : data[j] = list[j]
      BY <3>1
    <3>3. bs.limit > 1 /\ bs.used = n /\ bs.data = data
      BY <3>2
    <3>4. ASSUME NEW j \in 1..n PROVE Fetched(bs, j - 1) = list[j]
      <4>1. (j - 1) + 1 = j
        OBVIOUS
      <4>2. QED
        BY <3>2, <3>3, <4>1 DEF Fetched
    <3>5. QED
      BY <3>3, <3>4
  <2>4. QED
    <3>1. n = 0 \/ n = 1 \/ n > 1
      BY <1>1
    <3>2. QED
      BY <2>1, <2>2, <2>3, <3>1
<1>8. Listed(bs) = [j \in 1..n |-> list[j]]
  BY <1>7, Zenon DEF Listed
<1>9. list = [j \in 1..n |-> list[j]]
  OBVIOUS
<1>10. QED
  BY <1>2, <1>8, <1>9 DEF bs

\* Whatever list of back pointers the calls of add build, what is fetched of an item by
\* index is that list: no growth of the array loses one.
THEOREM BacksAreStored == Spec => []BacksStored
<1>1. Inv => BacksStored
  <2>1. SUFFICES ASSUME Inv, NEW it \in DOMAIN backs
                 PROVE  Listed(Stored(backs[it])) = backs[it]
    BY DEF BacksStored
  <2>2. backs[it] \in Seq(Back)
    BY <2>1 DEF Inv, TypeOK
  <2>3. QED
    BY <2>2, StoredListed
<1> QED BY <1>1, InitInv, NextInv, PTL DEF Spec
=============================================================================
