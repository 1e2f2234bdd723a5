------------------------ MODULE EarleyEvaluatorProofs ------------------------
(***************************************************************************)
(* What is proved of EarleyEvaluator, for every grammar, input and bound,  *)
(* and whatever the actions of the context do: the counts of references,   *)
(* the one result of the stack, the choice among what is ambiguous and the *)
(* order of the arguments.                                                 *)
(*                                                                         *)
(* The invariant (EvalInv) joins that of the chart to what is true of the  *)
(* frames, the walk, the heap and the memory together (StateOK).  Each     *)
(* action is shown to lead to a state for which StateOK holds again.       *)
(* OrderInv adds the spans of the input the values of the heap lie in, and *)
(* those the frames still to run will leave theirs in.                     *)
(***************************************************************************)
EXTENDS EarleyEvaluator, EarleyChartProofs

-----------------------------------------------------------------------------
(* The chart                                                               *)

\* An item that is dotted behind its first symbol or later has been advanced.
HasBacks == \A it \in Items : it.dot > 0 => \E e \in Edges : e[1] = it

ChartInv == FullInv /\ HasBacks

LEMMA InitChart == Init => ChartInv
<1>1. Init => Items = {}
  BY DEF Init, Items, EmptyTable
<1>2. QED
  BY <1>1, InitFull DEF ChartInv, HasBacks

\* Every step of the chart keeps it: only Add makes items, and an advanced one
\* comes with its edge.
LEMMA NextChart == ASSUME ChartInv, [Next]_vars PROVE ChartInv'
<1>1. FullInv'
  BY NextFull DEF ChartInv
<1>2. CASE Add
  <2>1. /\ Call \in Due(grammar, tokens, Items, Here) /\ Call.item \in Item
        /\ Items' = Items \cup {Call.item}
        /\ Edges' = Edges \cup (IF Brings(Call) THEN {EdgeOf(Call)} ELSE {})
    BY <1>2, Adding DEF ChartInv
  <2>2. Call.item.dot > 0 => Brings(Call)
    <3>1. CASE DueToPredict(grammar, Items, Call)
      <4>1. Call.item.dot = 0
        BY <3>1 DEF DueToPredict, AddPredicted, Predicted
      <4>2. QED
        BY <4>1
    <3>2. CASE DueToJoin(grammar, Items, Call)
      BY <3>2 DEF DueToJoin, AddJoined, Brings
    <3>3. CASE DueToScan(grammar, tokens, Items, Call)
      BY <3>3 DEF DueToScan, AddScanned, Brings
    <3>4. QED
      BY <2>1, <3>1, <3>2, <3>3 DEF Due
  <2>3. EdgeOf(Call)[1] = Call.item
    BY DEF EdgeOf
  <2>4. HasBacks'
    BY <2>1, <2>2, <2>3 DEF HasBacks, ChartInv
  <2>5. QED
    BY <1>1, <2>4 DEF ChartInv
<1>3. CASE UNCHANGED backs
  BY <1>1, <1>3 DEF ChartInv, HasBacks, Items, Edges
<1>4. Add \/ UNCHANGED backs
  BY DEF Next, vars, Return, Unmoved, tables, Start, Loop, SkipNullable, Complete,
         Expect, Predict, Visited, Leave, ScanToken, ScanNothing, Advance, NextPosition,
         Finish
<1>5. QED
  BY <1>2, <1>3, <1>4

\* When the chart is done construct does nothing more.
LEMMA DoneStays == ASSUME ChartInv, pc = "done" PROVE ~ Next
<1>1. work = << >>
  BY DEF ChartInv, FullInv, Inv, ChartInvariant, ControlOK
<1>2. QED
  BY <1>1 DEF Next, Add, AddMerge, AddCompleted, AddNullable, AddWaiting, AddNew, Calling,
       Return, Start, Loop, SkipNullable, Complete, Expect, Predict, Visiting, Leave,
       ScanToken, ScanNothing, Advance, NextPosition, Finish

\* What a back pointer leads to.
BackOK(it, b) ==
  /\ b.prev \in Items
  /\ b.prev.rule = it.rule /\ b.prev.alt = it.alt /\ b.prev.dot = it.dot - 1
  /\ \/ b.token = -1 /\ b.child \in Items /\ Completed(grammar, b.child)
     \/ b.token # -1 /\ b.token \in 0..(Len(tokens) - 1) /\ b.child = Null

\* The back pointers of an advanced item lead to the item before it and over a
\* token of the input or a completed item.
LEMMA BackFacts ==
  ASSUME ChartInv, NEW it \in Items, it.dot > 0
  PROVE  /\ backs[it] \in Seq(Back) /\ backs[it] # << >>
         /\ \A b \in Range(backs[it]) : BackOK(it, b)
<1>1. backs[it] \in Seq(Back)
  BY DEF ChartInv, FullInv, Inv, TypeOK, Items
<1>2. backs[it] # << >>
  <2>1. PICK e \in Edges : e[1] = it
    BY DEF ChartInv, HasBacks
  <2>2. PICK x \in Items : e \in {x} \X Range(backs[x])
    BY <2>1 DEF Edges
  <2>3. x = it /\ Range(backs[it]) # {}
    BY <2>1, <2>2
  <2>4. QED
    BY <2>3, NoFrame
<1>3. ASSUME NEW b \in Range(backs[it]) PROVE BackOK(it, b)
  <2> DEFINE e == <<it, b>>
  <2>1. e \in Drawn
    BY DEF Drawn, Edges
  <2>2. e[1] = it /\ e[2] = b
    OBVIOUS
  <2>3. DrawnBy(e)
    BY <2>1 DEF ChartInv, FullInv, EdgesDue
  <2> HIDE DEF e
  <2>4. Items \in SUBSET Item
    BY InvItems DEF ChartInv, FullInv
  <2>5. CASE \E w, c \in Items : Abs!Joins(w, c) /\ e = Joined(w, c)
    <3>1. PICK w \in Items, c \in Items : Abs!Joins(w, c) /\ e = Joined(w, c)
      BY <2>5
    <3>2. it = Advanced(w, c.pos) /\ b = ChildBack(w, c)
      BY <2>2, <3>1 DEF Joined
    <3>3. Completed(grammar, c)
      BY <3>1, SameRules
    <3>4. w.dot \in Nat
      BY <2>4 DEF Item
    <3>5. /\ it.rule = w.rule /\ it.alt = w.alt /\ it.dot = w.dot + 1
          /\ b.prev = w /\ b.child = c /\ b.token = -1
      BY <3>2 DEF Advanced, ChildBack
    <3>6. it.dot - 1 = w.dot
      BY <3>4, <3>5
    <3>7. QED
      BY <3>3, <3>5, <3>6 DEF BackOK
  <2>6. CASE \E w \in Items : Abs!Shifts(w) /\ e = Shifted(w)
    <3>1. PICK w \in Items : Abs!Shifts(w) /\ e = Shifted(w)
      BY <2>6
    <3>2. it = Advanced(w, w.pos + 1) /\ b = TokenBack(w, w.pos)
      BY <2>2, <3>1 DEF Shifted
    <3>3. w.pos < Len(tokens)
      BY <3>1, SameRules
    <3>4. w.dot \in Nat /\ w.pos \in Nat
      BY <2>4 DEF Item
    <3>5. /\ it.rule = w.rule /\ it.alt = w.alt /\ it.dot = w.dot + 1
          /\ b.prev = w /\ b.token = w.pos /\ b.child = Null
      BY <3>2 DEF Advanced, TokenBack
    <3>6. Len(tokens) \in Nat
      BY DEF ChartInv, FullInv, Inv, TypeOK
    <3>7. it.dot - 1 = w.dot /\ w.pos \in 0..(Len(tokens) - 1) /\ w.pos # -1
      BY <3>3, <3>4, <3>5, <3>6
    <3>8. QED
      BY <3>5, <3>7 DEF BackOK
  <2>7. QED
    BY <2>3, <2>5, <2>6 DEF DrawnBy
<1>4. QED
  BY <1>1, <1>2, <1>3

-----------------------------------------------------------------------------
(* Choosing                                                                *)

\* The items preferred among the first so many.
BestOf(its) ==
  CHOOSE best : best = [n \in DOMAIN its |->
    IF n = 1 THEN its[1] ELSE Prefer(best[n - 1], its[n])]

\* Prefer keeps one of the two.
LEMMA PreferOne == \A a, b : Prefer(a, b) = a \/ Prefer(a, b) = b
  BY DEF Prefer, Resolve

\* The recursive function of Preferred has its steps.
LEMMA BestSteps ==
  ASSUME NEW T, NEW its \in Seq(T), its # << >>
  PROVE  /\ Preferred(its) = BestOf(its)[Len(its)]
         /\ BestOf(its)[1] = its[1]
         /\ \A n \in 2..Len(its) : BestOf(its)[n] = Prefer(BestOf(its)[n - 1], its[n])
<1> DEFINE best == BestOf(its)
           Step(h) == [n \in DOMAIN its |->
             IF n = 1 THEN its[1] ELSE Prefer(h[n - 1], its[n])]
<1>1. PICK l \in Nat : Len(its) = l + 1
  <2>1. Len(its) \in Nat /\ Len(its) # 0
    OBVIOUS
  <2>2. Len(its) - 1 \in Nat /\ Len(its) = (Len(its) - 1) + 1
    BY <2>1
  <2>3. QED
    BY <2>2
<1>2. DOMAIN its = 1..(l + 1) /\ \A n \in 1..(l + 1) : its[n] \in T
  BY <1>1
<1> DEFINE F == [p \in (1..l) \X T |-> Prefer(p[2], its[p[1] + 1])]
<1>3. F \in [(1..l) \X T -> T]
  <2>1. ASSUME NEW p \in (1..l) \X T PROVE Prefer(p[2], its[p[1] + 1]) \in T
    <3>1. p[1] + 1 \in 1..(l + 1) /\ p[2] \in T
      OBVIOUS
    <3>2. its[p[1] + 1] \in T
      BY <1>2, <3>1
    <3>3. QED
      BY <3>1, <3>2, PreferOne
  <2>2. QED
    BY <2>1
<1>4. PICK g : Ascends(g, l, T, its[1], F)
  <2>1. its[1] \in T
    BY <1>2
  <2> HIDE DEF F
  <2>2. QED
    BY <1>3, <2>1, Ascent
<1> DEFINE w == [n \in 1..(l + 1) |-> g[n - 1]]
<1>5. w = Step(w)
  <2>1. ASSUME NEW n \in 1..(l + 1)
        PROVE  g[n - 1] = IF n = 1 THEN its[1] ELSE Prefer(w[n - 1], its[n])
    <3>1. CASE n = 1
      <4>1. n - 1 = 0
        BY <3>1
      <4>2. g[0] = its[1]
        BY <1>4 DEF Ascends
      <4>3. QED
        BY <3>1, <4>1, <4>2
    <3>2. CASE n # 1
      <4> DEFINE m == n - 1
      <4>1. m \in 1..l /\ m \in 1..(l + 1) /\ m - 1 \in 0..l /\ m + 1 = n
        BY <3>2
      <4> HIDE DEF m
      <4>2. g[m] = F[<<m, g[m - 1]>>] /\ g[m - 1] \in T
        BY <1>4, <4>1 DEF Ascends
      <4>3. F[<<m, g[m - 1]>>] = Prefer(g[m - 1], its[m + 1])
        BY <4>1, <4>2
      <4>4. w[m] = g[m - 1]
        BY <4>1
      <4> HIDE DEF w, F
      <4>5. g[m] = Prefer(w[m], its[n])
        BY <4>1, <4>2, <4>3, <4>4
      <4>6. QED
        BY <3>2, <4>5 DEF m
    <3>3. QED
      BY <3>1, <3>2
  <2>2. QED
    BY <1>2, <2>1, Zenon
<1>6. best = Step(best)
  <2>1. best = CHOOSE h : h = Step(h)
    BY DEF BestOf
  <2> HIDE DEF Step, best, w
  <2>2. QED
    BY <1>5, <2>1
<1>7. Preferred(its) = best[Len(its)]
  BY DEF Preferred, BestOf
<1> HIDE DEF best
<1>8. best[1] = its[1]
  <2>1. 1 \in 1..(l + 1)
    OBVIOUS
  <2>2. QED
    BY <1>2, <1>6, <2>1
<1>9. ASSUME NEW n \in 2..Len(its) PROVE best[n] = Prefer(best[n - 1], its[n])
  <2>1. n \in 1..(l + 1) /\ n # 1
    BY <1>1
  <2>2. QED
    BY <1>2, <1>6, <2>1
<1>10. QED
  BY <1>7, <1>8, <1>9 DEF best

\* What is preferred is one of the items.
LEMMA BestIn ==
  ASSUME NEW T, NEW its \in Seq(T), its # << >>
  PROVE  \A n \in Nat : n >= 1 /\ n <= Len(its) =>
           \E k \in 1..n : BestOf(its)[n] = its[k]
<1> DEFINE best == BestOf(its)
           S == {n \in Nat : n >= 1 /\ n <= Len(its) => \E k \in 1..n : best[n] = its[k]}
<1>1. /\ best[1] = its[1] /\ Len(its) \in Nat
      /\ \A n \in 2..Len(its) : best[n] = Prefer(best[n - 1], its[n])
  BY BestSteps
<1> HIDE DEF best
<1>2. 0 \in S
  OBVIOUS
<1>3. ASSUME NEW n \in Nat, n \in S PROVE n + 1 \in S
  <2>1. CASE n = 0
    <3>1. best[n + 1] = its[1] /\ 1 \in 1..(n + 1)
      BY <1>1, <2>1
    <3>2. QED
      BY <3>1
  <2>2. CASE n # 0 /\ n + 1 <= Len(its)
    <3>1. n >= 1 /\ n <= Len(its) /\ n + 1 \in 2..Len(its) /\ (n + 1) - 1 = n
          /\ n + 1 \in 1..(n + 1)
      BY <1>1, <2>2
    <3>2. PICK k \in 1..n : best[n] = its[k]
      BY <1>3, <3>1
    <3>3. best[n + 1] = Prefer(best[n], its[n + 1])
      BY <1>1, <3>1
    <3>4. best[n + 1] = its[k] \/ best[n + 1] = its[n + 1]
      BY <3>2, <3>3, PreferOne
    <3>5. k \in 1..(n + 1)
      OBVIOUS
    <3>6. QED
      BY <3>1, <3>4, <3>5
  <2>3. CASE n + 1 > Len(its)
    BY <1>1, <2>3
  <2>4. QED
    BY <1>1, <2>1, <2>2, <2>3
<1>4. Nat \subseteq S
  <2> HIDE DEF S
  <2>1. QED
    BY <1>2, <1>3, Induction
<1>5. QED
  BY <1>4 DEF best

LEMMA PreferredIn ==
  ASSUME NEW T, NEW its \in Seq(T), its # << >>
  PROVE  Preferred(its) \in Range(its) /\ Preferred(its) \in T
<1>1. Len(its) \in Nat /\ Len(its) >= 1
  OBVIOUS
<1>2. PICK k \in 1..Len(its) : BestOf(its)[Len(its)] = its[k]
  BY <1>1, BestIn
<1>3. Preferred(its) = its[k]
  BY <1>2, BestSteps
<1>4. its[k] \in T /\ k \in DOMAIN its
  OBVIOUS
<1>5. QED
  BY <1>3, <1>4 DEF Range

\* The least and the greatest of some numbers.
LEMMA LeastOf ==
  ASSUME NEW S \in SUBSET Nat, S # {}
  PROVE  Min(S) \in S /\ \A x \in S : Min(S) <= x
<1>1. PICK m \in S : \A n \in S : <<n, m>> \notin Less
  BY LessFounded, WFMin
<1>2. ASSUME NEW n \in S PROVE m <= n
  <2>1. n \in Nat /\ m \in Nat /\ ~ (n < m)
    BY <1>1, LessThan
  <2>2. QED
    BY <2>1
<1>3. Min(S) = CHOOSE x \in S : \A y \in S : x <= y
  BY DEF Min
<1>4. QED
  BY <1>2, <1>3

\* The back pointer chosen is one of those there are.
LEMMA SelectedIn ==
  ASSUME NEW T, NEW bs \in Seq(T), bs # << >>
  PROVE  Selected(bs) \in Range(bs)
<1> DEFINE cs == ChildrenOf(bs)
           child == Preferred(cs)
           S == {n \in DOMAIN bs : bs[n].child = child}
<1>1. cs \in Seq({b.child : b \in T}) /\ cs # << >> /\ DOMAIN cs = DOMAIN bs
      /\ \A n \in DOMAIN bs : cs[n] = bs[n].child
  BY DEF ChildrenOf
<1> HIDE DEF cs
<1>2. child \in Range(cs)
  BY <1>1, PreferredIn
<1>3. PICK n \in DOMAIN cs : child = cs[n]
  BY <1>2 DEF Range
<1>4. n \in S /\ S \in SUBSET Nat
  BY <1>1, <1>3
<1> HIDE DEF child
<1>5. Selected(bs) = bs[Min(S)]
  BY DEF Selected, cs, child
<1>6. Min(S) \in S
  BY <1>4, LeastOf
<1>7. QED
  BY <1>5, <1>6 DEF Range

-----------------------------------------------------------------------------
(* Choosing the best                                                       *)

Lefty(it) == AlternativeOf(it).associativity = "left"

\* c is the best of the first n items.
BestAmong(its, n, c) ==
  /\ \E k \in 1..n : c = its[k]
  /\ Rank(c) > LongMin
  /\ \A k \in 1..n : Rank(its[k]) <= Rank(c)
  /\ (\A k \in 1..n : Rank(its[k]) = Rank(c) => Lefty(its[k]))
       => \A k \in 1..n : Rank(its[k]) = Rank(c) => its[k].origin <= c.origin
  /\ (\A k \in 1..n : Rank(its[k]) = Rank(c) => ~ Lefty(its[k]))
       => \A k \in 1..n : Rank(its[k]) = Rank(c) => its[k].origin >= c.origin

\* An item of a rule of the grammar.
Ranked(it) == it # Null => AlternativeOf(it) \in Alternatives /\ it.origin \in Nat

\* A rank is at least LongMin, and above it only for an item.
LEMMA RankType ==
  ASSUME NEW it, Ranked(it)
  PROVE  /\ Rank(it) \in Int /\ Rank(it) >= LongMin
         /\ Rank(it) > LongMin => it.origin \in Nat
<1>1. CASE it = Null \/ AlternativeOf(it).priority = Null
  <2>1. Rank(it) = LongMin
    BY <1>1 DEF Rank
  <2>2. LongMin \in Int
    BY LongMinAssumption
  <2>3. QED
    BY <2>1, <2>2
<1>2. CASE ~ (it = Null \/ AlternativeOf(it).priority = Null)
  <2>1. Rank(it) = AlternativeOf(it).priority
    BY <1>2 DEF Rank
  <2>2. AlternativeOf(it) \in Alternatives /\ it.origin \in Nat
    BY <1>2 DEF Ranked
  <2>3. LongMin \in Int /\ Rank(it) \in Int /\ Rank(it) > LongMin
    BY <1>2, <2>1, <2>2, LongMinAssumption
  <2>4. QED
    BY <2>2, <2>3
<1>3. QED
  BY <1>1, <1>2

\* One more item keeps the best.
LEMMA BestStep ==
  ASSUME NEW its, NEW n \in Nat, n >= 1, NEW c,
         \A k \in 1..(n + 1) : Ranked(its[k]), BestAmong(its, n, c)
  PROVE  BestAmong(its, n + 1, Prefer(c, its[n + 1]))
<1> DEFINE d == its[n + 1]
<1>1. n + 1 \in 1..(n + 1) /\ \A k \in 1..n : k \in 1..(n + 1)
  OBVIOUS
<1>2. PICK m \in 1..n : c = its[m]
  BY DEF BestAmong
<1>3. /\ Rank(d) \in Int /\ Rank(d) >= LongMin /\ (Rank(d) > LongMin => d.origin \in Nat)
  BY <1>1, RankType
<1>4. Rank(c) \in Int /\ Rank(c) > LongMin /\ c.origin \in Nat /\ LongMin \in Int
  BY <1>1, <1>2, RankType, LongMinAssumption DEF BestAmong
<1>5. \A k \in 1..n : /\ Rank(its[k]) \in Int /\ Rank(its[k]) <= Rank(c)
                      /\ Rank(its[k]) = Rank(c) => its[k].origin \in Nat
  BY <1>1, <1>4, RankType DEF BestAmong
<1>6. \A k \in 1..(n + 1) : k = n + 1 \/ k \in 1..n
  OBVIOUS
<1> HIDE DEF d
<1>7. CASE Rank(d) > Rank(c)
  <2>1. Prefer(c, d) = d
    BY <1>7 DEF Prefer
  <2>2. \A k \in 1..n : Rank(its[k]) < Rank(d)
    BY <1>3, <1>4, <1>5, <1>7
  <2>3. d.origin \in Nat /\ Rank(d) > LongMin
    BY <1>3, <1>4, <1>7
  <2>4. ASSUME NEW k \in 1..(n + 1)
        PROVE  /\ Rank(its[k]) <= Rank(d)
               /\ Rank(its[k]) = Rank(d) => its[k] = d
    BY <1>3, <1>5, <1>6, <2>2 DEF d
  <2>5. \E k \in 1..(n + 1) : d = its[k]
    BY <1>1 DEF d
  <2>6. \A k \in 1..(n + 1) : Rank(its[k]) = Rank(d) =>
          its[k].origin <= d.origin /\ its[k].origin >= d.origin
    BY <2>3, <2>4
  <2>7. BestAmong(its, n + 1, d)
    BY <2>3, <2>4, <2>5, <2>6 DEF BestAmong
  <2>8. QED
    BY <2>1, <2>7 DEF d
<1>8. CASE Rank(d) < Rank(c)
  <2>1. Prefer(c, d) = c
    BY <1>3, <1>4, <1>8 DEF Prefer
  <2>2. ASSUME NEW k \in 1..(n + 1)
        PROVE  /\ Rank(its[k]) <= Rank(c)
               /\ Rank(its[k]) = Rank(c) => k \in 1..n
    BY <1>3, <1>4, <1>5, <1>6, <1>8 DEF d
  <2>3. \E k \in 1..(n + 1) : c = its[k]
    BY <1>1, <1>2
  <2>4. BestAmong(its, n + 1, c)
    BY <1>1, <1>4, <2>2, <2>3 DEF BestAmong
  <2>5. QED
    BY <2>1, <2>4 DEF d
<1>9. CASE Rank(d) = Rank(c)
  <2> DEFINE e == Resolve(c, d)
  <2>1. Prefer(c, d) = e
    BY <1>3, <1>4, <1>9 DEF Prefer
  <2>2. e = c \/ e = d
    BY DEF Resolve
  <2>3. Rank(e) = Rank(c) /\ d.origin \in Nat /\ e.origin \in Nat
    BY <1>3, <1>4, <1>9, <2>2
  <2>4. \E k \in 1..(n + 1) : e = its[k]
    BY <1>1, <1>2, <2>2 DEF d
  <2>5. \A k \in 1..(n + 1) : Rank(its[k]) <= Rank(e)
    BY <1>3, <1>5, <1>6, <1>9, <2>3 DEF d
  <2>6. Lefty(c) => e.origin >= c.origin /\ e.origin >= d.origin
    BY <1>4, <2>3 DEF Resolve, Lefty
  <2>7. ~ Lefty(c) => e.origin <= c.origin /\ e.origin <= d.origin
    BY <1>4, <2>3 DEF Resolve, Lefty
  <2> HIDE DEF e
  <2>8. ASSUME \A k \in 1..(n + 1) : Rank(its[k]) = Rank(e) => Lefty(its[k]),
               NEW k \in 1..(n + 1), Rank(its[k]) = Rank(e)
        PROVE  its[k].origin <= e.origin
    <3>1. Lefty(c)
      BY <1>1, <1>2, <2>3, <2>8
    <3>2. \A j \in 1..n : Rank(its[j]) = Rank(c) => its[j].origin <= c.origin
      BY <1>1, <2>3, <2>8 DEF BestAmong
    <3>3. CASE k = n + 1
      BY <2>6, <3>1, <3>3 DEF d
    <3>4. CASE k \in 1..n
      <4>1. its[k].origin <= c.origin /\ its[k].origin \in Nat
        BY <1>5, <2>3, <2>8, <3>2, <3>4
      <4>2. QED
        BY <1>4, <2>3, <2>6, <3>1, <4>1
    <3>5. QED
      BY <1>6, <3>3, <3>4
  <2>9. ASSUME \A k \in 1..(n + 1) : Rank(its[k]) = Rank(e) => ~ Lefty(its[k]),
               NEW k \in 1..(n + 1), Rank(its[k]) = Rank(e)
        PROVE  its[k].origin >= e.origin
    <3>1. ~ Lefty(c)
      BY <1>1, <1>2, <2>3, <2>9
    <3>2. \A j \in 1..n : Rank(its[j]) = Rank(c) => its[j].origin >= c.origin
      BY <1>1, <2>3, <2>9 DEF BestAmong
    <3>3. CASE k = n + 1
      BY <2>3, <2>7, <3>1, <3>3 DEF d
    <3>4. CASE k \in 1..n
      <4>1. its[k].origin >= c.origin /\ its[k].origin \in Nat
        BY <1>5, <2>3, <2>9, <3>2, <3>4
      <4>2. QED
        BY <1>4, <2>3, <2>7, <3>1, <4>1
    <3>5. QED
      BY <1>6, <3>3, <3>4
  <2>10. Rank(e) > LongMin
    BY <1>4, <2>3
  <2>11. BestAmong(its, n + 1, e)
    BY <2>4, <2>5, <2>8, <2>9, <2>10 DEF BestAmong
  <2>12. QED
    BY <2>1, <2>11 DEF d
<1>10. QED
  BY <1>3, <1>4, <1>7, <1>8, <1>9

\* So the loop ends with the best of all of them.
LEMMA PreferredBest ==
  ASSUME NEW T, NEW its \in Seq(T), its # << >>,
         \A it \in T : Ranked(it), Rank(its[1]) # LongMin
  PROVE  BestAmong(its, Len(its), Preferred(its))
<1> DEFINE best == BestOf(its)
           S == {n \in Nat : n >= 1 /\ n <= Len(its) => BestAmong(its, n, best[n])}
<1>1. /\ best[1] = its[1] /\ Len(its) \in Nat /\ Len(its) >= 1
      /\ \A n \in 2..Len(its) : best[n] = Prefer(best[n - 1], its[n])
      /\ Preferred(its) = best[Len(its)]
  BY BestSteps
<1>2. \A n \in 1..Len(its) : Ranked(its[n])
  OBVIOUS
<1> HIDE DEF best
<1>3. 0 \in S
  OBVIOUS
<1>4. ASSUME NEW n \in Nat, n \in S PROVE n + 1 \in S
  <2>1. CASE n = 0
    <3>1. 1 \in 1..Len(its)
      BY <1>1
    <3>2. Rank(its[1]) \in Int /\ Rank(its[1]) >= LongMin /\ LongMin \in Int
      BY <1>2, <3>1, RankType, LongMinAssumption
    <3>3. Rank(its[1]) > LongMin
      BY <3>2
    <3>4. its[1].origin \in Nat
      BY <1>2, <3>1, <3>3, RankType
    <3>5. \A k \in 1..1 : k = 1
      OBVIOUS
    <3>6. BestAmong(its, 1, its[1])
      BY <3>2, <3>3, <3>4, <3>5 DEF BestAmong
    <3>7. n + 1 = 1
      BY <2>1
    <3>8. QED
      BY <1>1, <3>6, <3>7
  <2>2. CASE n # 0 /\ n + 1 <= Len(its)
    <3>1. n >= 1 /\ n <= Len(its) /\ n + 1 \in 2..Len(its) /\ (n + 1) - 1 = n
          /\ \A k \in 1..(n + 1) : k \in 1..Len(its)
      BY <1>1, <2>2
    <3>2. BestAmong(its, n, best[n])
      BY <1>4, <3>1
    <3>3. best[n + 1] = Prefer(best[n], its[n + 1])
      BY <1>1, <3>1
    <3>4. BestAmong(its, n + 1, best[n + 1])
      BY <1>2, <3>1, <3>2, <3>3, BestStep
    <3>5. QED
      BY <3>4
  <2>3. CASE n + 1 > Len(its)
    BY <1>1, <2>3
  <2>4. QED
    BY <1>1, <2>1, <2>2, <2>3
<1>5. Nat \subseteq S
  <2> HIDE DEF S
  <2>1. QED
    BY <1>3, <1>4, Induction
<1>6. QED
  BY <1>1, <1>5

-----------------------------------------------------------------------------
(* What the chart gives to __invoke and execute                            *)

CompletedItems == {it \in Items : Completed(grammar, it)}

Arity(it) == Len(AlternativeOf(it).symbols)

\* An item of the chart is of a rule of the grammar.
LEMMA ItemFacts ==
  ASSUME ChartInv, NEW it \in Items
  PROVE  /\ it \in Item /\ it.rule \in Names /\ it.alt \in Nat
         /\ AlternativeOf(it) \in Alternatives /\ AlternativeOf(it).symbols \in Seq(Symbols)
         /\ Arity(it) \in Nat /\ it.dot \in 0..Arity(it)
         /\ Completed(grammar, it) <=> it.dot = Arity(it)
         /\ Ranked(it)
<1>1. it \in Item /\ Legal(grammar, it) /\ grammar \in Grammars
  BY InvItems DEF ChartInv, FullInv
<1>2. it.rule \in Names /\ it.alt \in Nat /\ it.dot \in Nat /\ it.origin \in Nat
  BY <1>1 DEF Item
<1>3. grammar.rules[it.rule] \in Seq(Alternatives)
  BY <1>1, GrammarAssumption DEF Legal
<1>4. AlternativeOf(it) \in Alternatives
  BY <1>1, <1>3 DEF Legal, AlternativeOf
<1>5. AlternativeOf(it).symbols \in Seq(Symbols)
  BY <1>4, GrammarAssumption
<1>6. Arity(it) = Len(SymbolsOf(grammar, it)) /\ Arity(it) \in Nat
  <2>1. Len(AlternativeOf(it).symbols) \in Nat
    BY <1>5
  <2>2. QED
    BY <2>1 DEF Arity, SymbolsOf, AlternativeOf
<1>7. it.dot \in 0..Arity(it)
  BY <1>1, <1>6 DEF Legal
<1>8. Completed(grammar, it) <=> it.dot = Arity(it)
  BY <1>1, <1>6, DottedType
<1>9. QED
  BY <1>1, <1>2, <1>4, <1>5, <1>6, <1>7, <1>8 DEF Ranked

\* The items of the path that are whole, among the first so many.
FoundOf ==
  CHOOSE found : found = [n \in 0..Len(Lookup(path, limit)) |->
    IF n = 0 THEN << >>
    ELSE LET it == Lookup(path, limit)[n]
         IN  IF Whole(it) THEN Append(found[n - 1], it) ELSE found[n - 1]]

\* The start items are completed items of the chart.
LEMMA StartItemsIn ==
  ASSUME ChartInv
  PROVE  StartItems \in Seq(CompletedItems)
<1> DEFINE its == Lookup(path, limit)
           V == Seq(CompletedItems)
           F == [p \in (1..Len(its)) \X V |->
                   IF Whole(its[p[1]]) THEN Append(p[2], its[p[1]]) ELSE p[2]]
           Step(h) == [n \in 0..Len(its) |->
             IF n = 0 THEN << >>
             ELSE LET it == its[n] IN IF Whole(it) THEN Append(h[n - 1], it) ELSE h[n - 1]]
<1>1. its \in Seq(Items)
  <2>1. CASE limit \in DOMAIN path
    <3>1. its \in Seq(PathItems(Items, limit))
      BY <2>1 DEF Lookup, ChartInv, FullInv, Inv, ChartInvariant, TablesAgree
    <3>2. PathItems(Items, limit) \subseteq Items
      BY DEF PathItems
    <3>3. QED
      BY <3>1, <3>2, SeqMonotonic
  <2>2. CASE limit \notin DOMAIN path
    BY <2>2 DEF Lookup
  <2>3. QED
    BY <2>1, <2>2
<1> HIDE DEF its
<1>2. Len(its) \in Nat /\ \A n \in 1..Len(its) : its[n] \in Items
  BY <1>1
<1>3. \A n \in 1..Len(its) : Whole(its[n]) => its[n] \in CompletedItems
  BY <1>2 DEF Whole, CompletedItems
<1>4. F \in [(1..Len(its)) \X V -> V] /\ << >> \in V
  BY <1>3
<1>5. PICK g : Ascends(g, Len(its), V, << >>, F)
  <2> HIDE DEF F, V
  <2>1. QED
    BY <1>2, <1>4, Ascent
<1>6. g = Step(g)
  <2>1. ASSUME NEW n \in 0..Len(its)
        PROVE  g[n] = IF n = 0 THEN << >>
                      ELSE IF Whole(its[n]) THEN Append(g[n - 1], its[n]) ELSE g[n - 1]
    <3>1. CASE n = 0
      BY <1>5, <3>1 DEF Ascends
    <3>2. CASE n # 0
      <4>1. n \in 1..Len(its) /\ n - 1 \in 0..Len(its)
        BY <1>2, <3>2
      <4>2. g[n] = F[<<n, g[n - 1]>>] /\ g[n - 1] \in V
        BY <1>5, <4>1 DEF Ascends
      <4>3. QED
        BY <3>2, <4>1, <4>2
    <3>3. QED
      BY <3>1, <3>2
  <2>2. DOMAIN g = 0..Len(its) /\ g = [n \in 0..Len(its) |-> g[n]]
    BY <1>5 DEF Ascends
  <2> HIDE DEF F, V
  <2>3. QED
    BY <2>1, <2>2, Zenon
<1>7. FoundOf = Step(FoundOf)
  <2>1. FoundOf = CHOOSE h : h = Step(h)
    BY DEF FoundOf, its
  <2> HIDE DEF Step
  <2>2. QED
    BY <1>6, <2>1
<1>8. StartItems = FoundOf[Len(its)]
  BY DEF StartItems, FoundOf, its
<1> DEFINE S == {n \in Nat : n <= Len(its) => FoundOf[n] \in V}
<1>9. 0 \in S
  <2>1. 0 \in 0..Len(its)
    BY <1>2
  <2>2. FoundOf[0] = << >>
    BY <1>7, <2>1
  <2>3. QED
    BY <1>4, <2>2
<1>10. ASSUME NEW n \in Nat, n \in S PROVE n + 1 \in S
  <2>1. SUFFICES ASSUME n + 1 <= Len(its) PROVE FoundOf[n + 1] \in V
    OBVIOUS
  <2>2. n + 1 \in 0..Len(its) /\ n + 1 \in 1..Len(its) /\ n + 1 # 0 /\ (n + 1) - 1 = n
        /\ n <= Len(its)
    BY <1>2, <2>1
  <2>3. FoundOf[n] \in V
    BY <1>10, <2>2
  <2>4. FoundOf[n + 1] = IF Whole(its[n + 1]) THEN Append(FoundOf[n], its[n + 1])
                                             ELSE FoundOf[n]
    BY <1>7, <2>2
  <2>5. QED
    BY <1>3, <2>2, <2>3, <2>4
<1>11. Nat \subseteq S
  <2> HIDE DEF S
  <2>1. QED
    BY <1>9, <1>10, Induction
<1>12. QED
  BY <1>2, <1>8, <1>11

-----------------------------------------------------------------------------
(* The inductive invariant                                                 *)

\* The frames execute pushes.
GoodFrames ==
  {f \in Frame :
     /\ f.item \in CompletedItems
     /\ f.kind = "select" => f.partial = << >> /\ f.slots = << >>
     /\ f.kind = "apply" => /\ Open(f.partial, f.slots) /\ f.partial # << >>
                            /\ Len(f.partial) = Arity(f.item)}

\* A walk half way: what lies behind its position is a value or a slot with
\* its child, and cur is the item as far as the position.
GoodWalks ==
  {w \in Walk :
     /\ w.item \in CompletedItems
     /\ w.cur \in Items /\ w.cur.rule = w.item.rule /\ w.cur.alt = w.item.alt
     /\ w.cur.dot = w.pos
     /\ w.partial # << >> /\ Len(w.partial) = Arity(w.item)
     /\ \A s, t \in DOMAIN w.slots : w.slots[s] = w.slots[t] => s = t
     /\ \A s \in DOMAIN w.slots : w.slots[s] \in (w.pos + 1)..Len(w.partial)
     /\ \A k \in DOMAIN w.partial :
          IF k <= w.pos \/ k \in Range(w.slots) THEN w.partial[k] = Undef
                                                ELSE w.partial[k] \in Nat
     /\ w.items \in Seq(CompletedItems) /\ Len(w.items) = Len(w.slots)}

PartialOf(w) == IF w = Null THEN << >> ELSE w.partial

Holding3(stk, w, hp, v) == AllHolders(Len(tokens), stk, PartialOf(w), hp, v)

NoOutcome == [kind |-> "pending", value |-> NullValue]

Outcomes ==
  [kind : {"pending", "value", "nomatch", "ambiguity", "exception"}, value : Nat]

\* The state of the evaluator, for the chart as it is.
StateOK(stg, stk, hp, w, m, ar, out) ==
  /\ stg \in {"ready", "execute", "walk", "returned"}
  /\ stg = "walk" <=> w # Null
  /\ stg = "ready" => stk = << >> /\ hp = << >> /\ m = << >>
  /\ stg = "returned" => stk = << >> /\ hp = << >>
  /\ out \in Outcomes
  /\ stg # "returned" => out = NoOutcome
  /\ stk \in Seq(GoodFrames)
  /\ hp \in Seq(Nat)
  /\ w # Null => w \in GoodWalks
  /\ ar = ArraysOf(stk) + (IF w = Null THEN 0 ELSE 3)
  /\ stg = "execute" => BalancedAt(stk, Len(hp))
  /\ stg = "walk" => BalancedAt(stk, Len(hp) + 1)
  /\ Exact(m, Holding3(stk, w, hp, out.value))
  /\ stg \in {"execute", "walk"} =>
       /\ MemSound(m, Holding3(stk, w, hp, out.value))
       /\ Len(m) >= Len(tokens)

EvalInv ==
  /\ ChartInv
  /\ stage # "ready" => pc = "done"
  /\ StateOK(stage, stack, heap, walk, mem, arrays, outcome)

\* The frames the lemmas about stacks are for.
LEMMA GoodFrameSet ==
  /\ FrameSet(GoodFrames)
  /\ \A it \in CompletedItems : ChartInv => SelectFrame(it) \in GoodFrames
<1>1. ASSUME NEW x \in GoodFrames
      PROVE  /\ x.partial \in Seq(Int) /\ x.slots \in Seq(Nat)
             /\ x.kind \in {"select", "apply"}
  BY DEF GoodFrames, Frame
<1>2. ASSUME NEW it \in CompletedItems, ChartInv PROVE SelectFrame(it) \in GoodFrames
  <2>1. it \in Item
    BY <1>2, ItemFacts DEF CompletedItems
  <2>2. SelectFrame(it) \in Frame
    BY <2>1 DEF SelectFrame, Frame
  <2>3. QED
    BY <2>2, SelectFields DEF GoodFrames
<1>3. QED
  BY <1>1, <1>2 DEF FrameSet

\* What the parts of the invariant say while execute runs.
LEMMA Running ==
  ASSUME EvalInv, stage \in {"execute", "walk"}
  PROVE  /\ ChartInv /\ pc = "done" /\ outcome = NoOutcome
         /\ stack \in Seq(GoodFrames) /\ heap \in Seq(Nat) /\ heap \in Seq(Int)
         /\ HeldBy(stack) \in Seq(Int) /\ PartialOf(walk) \in Seq(Int)
         /\ arrays = ArraysOf(stack) + (IF walk = Null THEN 0 ELSE 3)
         /\ Len(tokens) \in Nat /\ Len(mem) \in Nat /\ Len(mem) >= Len(tokens)
         /\ MemSound(mem, Holding3(stack, walk, heap, NullValue))
<1>1. StateOK(stage, stack, heap, walk, mem, arrays, outcome) /\ ChartInv /\ pc = "done"
  BY DEF EvalInv
<1>2. stack \in Seq(GoodFrames) /\ heap \in Seq(Nat) /\ outcome = NoOutcome
      /\ arrays = ArraysOf(stack) + (IF walk = Null THEN 0 ELSE 3)
      /\ MemSound(mem, Holding3(stack, walk, heap, outcome.value))
      /\ Len(mem) >= Len(tokens) /\ (walk # Null => walk \in GoodWalks)
  BY <1>1 DEF StateOK
<1>3. HeldBy(stack) \in Seq(Int)
  BY <1>2, GoodFrameSet, HeldTypes
<1>4. PartialOf(walk) \in Seq(Int)
  BY <1>2 DEF PartialOf, GoodWalks, Walk
<1>5. heap \in Seq(Int)
  BY <1>2, SeqMonotonic, Nat \subseteq Int
<1>6. Len(tokens) \in Nat
  BY <1>1 DEF ChartInv, FullInv, Inv, TypeOK
<1>7. Len(mem) \in Nat
  BY <1>2, SoundFacts
<1>8. outcome.value = NullValue
  BY <1>2 DEF NoOutcome
<1>9. QED
  BY <1>1, <1>2, <1>3, <1>4, <1>5, <1>6, <1>7, <1>8

\* Counting the references held.
LEMMA HeldCount ==
  ASSUME ChartInv, NEW stk \in Seq(GoodFrames), NEW w, PartialOf(w) \in Seq(Int),
         NEW hp \in Seq(Nat), NEW x \in Nat, NEW v
  PROVE  /\ Holding3(stk, w, hp, x) \in Seq(Int)
         /\ Occurrences(v, Holding3(stk, w, hp, x))
              = (((Occurrences(v, TokensOf(Len(tokens))) + Occurrences(v, HeldBy(stk)))
                  + Occurrences(v, PartialOf(w))) + Occurrences(v, hp))
                + Occurrences(v, <<x>>)
         /\ Occurrences(v, TokensOf(Len(tokens))) \in Nat
         /\ Occurrences(v, HeldBy(stk)) \in Nat
         /\ Occurrences(v, PartialOf(w)) \in Nat
         /\ Occurrences(v, hp) \in Nat
         /\ Occurrences(v, <<x>>) \in Nat
<1>1. Len(tokens) \in Nat
  BY DEF ChartInv, FullInv, Inv, TypeOK
<1>2. HeldBy(stk) \in Seq(Int)
  BY GoodFrameSet, HeldTypes
<1>3. hp \in Seq(Int)
  BY SeqMonotonic, Nat \subseteq Int
<1> DEFINE n == Len(tokens)
           a == PartialOf(w)
<1> HIDE DEF n, a
<1>4. x \in Int /\ n \in Nat /\ a \in Seq(Int)
  BY <1>1 DEF n, a
<1>5. /\ AllHolders(n, stk, a, hp, x) \in Seq(Int)
      /\ Occurrences(v, AllHolders(n, stk, a, hp, x))
           = (((Occurrences(v, TokensOf(n)) + Occurrences(v, HeldBy(stk)))
               + Occurrences(v, a)) + Occurrences(v, hp)) + Occurrences(v, <<x>>)
      /\ Occurrences(v, TokensOf(n)) \in Nat
      /\ Occurrences(v, HeldBy(stk)) \in Nat
      /\ Occurrences(v, a) \in Nat
      /\ Occurrences(v, hp) \in Nat
      /\ Occurrences(v, <<x>>) \in Nat
  BY <1>2, <1>3, <1>4, HoldersCount
<1>6. QED
  BY <1>5 DEF Holding3, n, a

\* A select frame popped: nothing else has changed.
LEMMA SelectPopped ==
  ASSUME EvalInv, Executing("select")
  PROVE  /\ Front(stack) \in Seq(GoodFrames)
         /\ TopItem \in CompletedItems
         /\ \A v : Occurrences(v, HeldBy(Front(stack))) = Occurrences(v, HeldBy(stack))
         /\ ArraysOf(Front(stack)) = ArraysOf(stack)
         /\ BalancedAt(Front(stack), Len(heap) + 1)
         /\ walk = Null
<1>1. stage = "execute" /\ stack # << >> /\ Last(stack).kind = "select"
  BY DEF Executing
<1>2. stack \in Seq(GoodFrames) /\ heap \in Seq(Nat)
  BY <1>1, Running
<1>3. BalancedAt(stack, Len(heap)) /\ walk = Null
  BY <1>1 DEF EvalInv, StateOK
<1>4. Front(stack) \in Seq(GoodFrames) /\ Last(stack) \in GoodFrames
  BY <1>1, <1>2, LastFront
<1>5. TopItem \in CompletedItems /\ Last(stack).partial = << >> /\ Last(stack).slots = << >>
  BY <1>1, <1>4 DEF GoodFrames, TopItem
<1>6. /\ HeldBy(stack) = HeldBy(Front(stack)) \o << >>
      /\ HeldBy(Front(stack)) \in Seq(Int)
  BY <1>1, <1>2, <1>5, GoodFrameSet, HeldPop
<1>7. HeldBy(stack) = HeldBy(Front(stack))
  BY <1>6
<1>8. ArraysOf(Front(stack)) = ArraysOf(stack)
  <2>1. ArraysOf(stack) = ArraysOf(Front(stack)) + 0
    BY <1>1, <1>2, ArraysPop
  <2>2. ArraysOf(Front(stack)) \in Nat
    BY <1>4, ArraysType
  <2>3. QED
    BY <2>1, <2>2
<1>9. BalancedAt(Front(stack), Len(heap) + 1)
  <2>1. Len(heap) \in Int /\ Len(heap) + 1 - 0 = Len(heap) + 1 /\ Len(<< >>) = 0
    BY <1>2
  <2>2. BalancedAt(Front(stack), (Len(heap) + 1) - Len(<< >>))
    BY <1>1, <1>2, <1>3, <1>5, <2>1, GoodFrameSet, BalancedPop
  <2>3. (Len(heap) + 1) - Len(<< >>) = Len(heap) + 1
    BY <2>1
  <2>4. QED
    BY <2>2, <2>3
<1>10. QED
  BY <1>3, <1>4, <1>5, <1>7, <1>8, <1>9

-----------------------------------------------------------------------------
(* The states a step can lead to                                           *)

\* What has to be shown of a step to execute,
LEMMA ExecuteOK ==
  ASSUME NEW stk \in Seq(GoodFrames), NEW hp \in Seq(Nat), NEW m,
         MemSound(m, Holding3(stk, Null, hp, NullValue)), Len(m) >= Len(tokens),
         BalancedAt(stk, Len(hp)), NEW ar, ar = ArraysOf(stk)
  PROVE  StateOK("execute", stk, hp, Null, m, ar, NoOutcome)
<1>1. NoOutcome \in Outcomes /\ NoOutcome.value = NullValue
  BY DEF NoOutcome, Outcomes, NullValue
<1>2. Exact(m, Holding3(stk, Null, hp, NullValue))
  BY SoundFacts
<1>3. ArraysOf(stk) + 0 = ArraysOf(stk)
  BY ArraysType
<1>4. QED
  BY <1>1, <1>2, <1>3 DEF StateOK

\* of one to the walk,
LEMMA WalkingOK ==
  ASSUME NEW stk \in Seq(GoodFrames), NEW hp \in Seq(Nat), NEW m, NEW w \in GoodWalks,
         MemSound(m, Holding3(stk, w, hp, NullValue)), Len(m) >= Len(tokens),
         BalancedAt(stk, Len(hp) + 1), NEW ar, ar = ArraysOf(stk) + 3
  PROVE  StateOK("walk", stk, hp, w, m, ar, NoOutcome)
<1>1. NoOutcome \in Outcomes /\ NoOutcome.value = NullValue
  BY DEF NoOutcome, Outcomes, NullValue
<1>2. Exact(m, Holding3(stk, w, hp, NullValue))
  BY SoundFacts
<1>3. w # Null
  BY NullIsNoWalk DEF GoodWalks
<1>4. QED
  BY <1>1, <1>2, <1>3 DEF StateOK

\* and of one that leaves.
LEMMA ReturnedOK ==
  ASSUME NEW m, NEW out \in Outcomes, Exact(m, Holding3(<< >>, Null, << >>, out.value))
  PROVE  StateOK("returned", << >>, << >>, Null, m, 0, out)
<1>1. << >> \in Seq(GoodFrames) /\ << >> \in Seq(Nat)
  OBVIOUS
<1>2. ArraysOf(<< >>) = 0
  BY FS_EmptySet DEF ArraysOf
<1>3. QED
  BY <1>1, <1>2 DEF StateOK

\* A value pushed on the heap.
LEMMA HeapPush ==
  ASSUME NEW hp \in Seq(Nat), NEW x \in Nat, NEW v
  PROVE  /\ Append(hp, x) \in Seq(Nat) /\ Len(Append(hp, x)) = Len(hp) + 1
         /\ Occurrences(v, Append(hp, x)) = Occurrences(v, hp) + Occurrences(v, <<x>>)
<1>1. Occurrences(v, Append(hp, x)) = Occurrences(v, hp) + IF x = v THEN 1 ELSE 0
  BY OccurrencesAppend
<1>2. Occurrences(v, <<x>>) = IF x = v THEN 1 ELSE 0
  BY OccurrencesOne
<1>3. QED
  BY <1>1, <1>2

\* Outside the walk there is no partial array.
LEMMA NoPartial == PartialOf(Null) = << >> /\ PartialOf(Null) \in Seq(Int)
  BY DEF PartialOf

\* How often the evaluator itself holds a value.
Own(stk, w, hp, v) ==
  (Occurrences(v, HeldBy(stk)) + Occurrences(v, PartialOf(w))) + Occurrences(v, hp)

LEMMA OwnType ==
  ASSUME ChartInv, NEW stk \in Seq(GoodFrames), NEW w, PartialOf(w) \in Seq(Int),
         NEW hp \in Seq(Nat), NEW v
  PROVE  /\ Occurrences(v, HeldBy(stk)) \in Nat /\ Occurrences(v, PartialOf(w)) \in Nat
         /\ Occurrences(v, hp) \in Nat /\ Own(stk, w, hp, v) \in Nat
<1>1. /\ Occurrences(v, HeldBy(stk)) \in Nat /\ Occurrences(v, PartialOf(w)) \in Nat
      /\ Occurrences(v, hp) \in Nat
  BY 0 \in Nat, HeldCount
<1>2. QED
  BY <1>1 DEF Own

\* What the evaluator gives up and takes as it goes from one state to another.
Moves(stk, w, hp, stk2, w2, hp2, given, taken) ==
  \A v \in Nat : Own(stk2, w2, hp2, v) + Occurrences(v, given)
                 = Own(stk, w, hp, v) + Occurrences(v, taken)

\* So do all its holders.
LEMMA HeldMoves ==
  ASSUME ChartInv,
         NEW stk \in Seq(GoodFrames), NEW w, PartialOf(w) \in Seq(Int), NEW hp \in Seq(Nat),
         NEW stk2 \in Seq(GoodFrames), NEW w2, PartialOf(w2) \in Seq(Int),
         NEW hp2 \in Seq(Nat),
         NEW given \in Seq(Int), NEW taken \in Seq(Int),
         Moves(stk, w, hp, stk2, w2, hp2, given, taken)
  PROVE  LET old == Holding3(stk, w, hp, NullValue)
             new == Holding3(stk2, w2, hp2, NullValue)
         IN  /\ old \in Seq(Int) /\ new \in Seq(Int)
             /\ \A v \in Nat :
                  /\ Occurrences(v, new) \in Nat /\ Occurrences(v, old) \in Nat
                  /\ Occurrences(v, given) \in Nat /\ Occurrences(v, taken) \in Nat
                  /\ Occurrences(v, new) + Occurrences(v, given)
                       = Occurrences(v, old) + Occurrences(v, taken)
<1> DEFINE old == Holding3(stk, w, hp, NullValue)
           new == Holding3(stk2, w2, hp2, NullValue)
<1>1. NullValue \in Nat
  BY DEF NullValue
<1>2. old \in Seq(Int) /\ new \in Seq(Int)
  BY <1>1, HeldCount
<1>3. ASSUME NEW v \in Nat
      PROVE  /\ Occurrences(v, new) \in Nat /\ Occurrences(v, old) \in Nat
             /\ Occurrences(v, given) \in Nat /\ Occurrences(v, taken) \in Nat
             /\ Occurrences(v, new) + Occurrences(v, given)
                  = Occurrences(v, old) + Occurrences(v, taken)
  <2> DEFINE t == Occurrences(v, TokensOf(Len(tokens)))
             z == Occurrences(v, <<NullValue>>)
             a == Occurrences(v, HeldBy(stk))
             b == Occurrences(v, PartialOf(w))
             c == Occurrences(v, hp)
             a2 == Occurrences(v, HeldBy(stk2))
             b2 == Occurrences(v, PartialOf(w2))
             c2 == Occurrences(v, hp2)
             d == Occurrences(v, given)
             e == Occurrences(v, taken)
  <2>1. /\ Occurrences(v, old) = (((t + a) + b) + c) + z
        /\ t \in Nat /\ a \in Nat /\ b \in Nat /\ c \in Nat /\ z \in Nat
    BY <1>1, HeldCount
  <2>2. /\ Occurrences(v, new) = (((t + a2) + b2) + c2) + z
        /\ a2 \in Nat /\ b2 \in Nat /\ c2 \in Nat
    BY <1>1, HeldCount
  <2>3. d \in Nat /\ e \in Nat
    BY OccurrencesType
  <2>4. ((a2 + b2) + c2) + d = ((a + b) + c) + e
    BY DEF Own, Moves
  <2> HIDE DEF old, new, t, z, a, b, c, a2, b2, c2, d, e
  <2>5. /\ Occurrences(v, new) \in Nat /\ Occurrences(v, old) \in Nat
        /\ Occurrences(v, new) + d = Occurrences(v, old) + e
    BY ONLY <2>1, <2>2, <2>3, <2>4
  <2>6. QED
    BY <2>3, <2>5 DEF d, e
<1>4. QED
  BY <1>2, <1>3

-----------------------------------------------------------------------------
(* The steps of execute                                                    *)

\* A new value goes on the heap, and a frame that holds nothing goes.
LEMMA SelectEmptyStep ==
  ASSUME EvalInv, SelectEmpty
  PROVE  StateOK(stage', stack', heap', walk', mem', arrays', outcome')
<1> DEFINE new == EmptyValue(AlternativeOf(TopItem), mem)
           H == Holding3(stack, Null, heap, NullValue)
           hp == Append(heap, new.value)
           O == Holding3(Front(stack), Null, hp, NullValue)
<1>1. /\ Executing("select") /\ stage = "execute" /\ stage' = stage /\ walk' = walk
      /\ arrays' = arrays /\ outcome' = outcome
      /\ mem' = new.mem /\ heap' = hp /\ stack' = Front(stack)
  BY DEF SelectEmpty, Executing
<1>2. /\ ChartInv /\ outcome = NoOutcome
      /\ stack \in Seq(GoodFrames) /\ heap \in Seq(Nat)
      /\ arrays = ArraysOf(stack) + (IF walk = Null THEN 0 ELSE 3)
      /\ Len(mem) \in Nat /\ Len(mem) >= Len(tokens) /\ Len(tokens) \in Nat
      /\ MemSound(mem, Holding3(stack, walk, heap, NullValue))
  BY <1>1, Running
<1>3. /\ Front(stack) \in Seq(GoodFrames) /\ walk = Null
      /\ \A v : Occurrences(v, HeldBy(Front(stack))) = Occurrences(v, HeldBy(stack))
      /\ ArraysOf(Front(stack)) = ArraysOf(stack)
      /\ BalancedAt(Front(stack), Len(heap) + 1)
  BY <1>1, SelectPopped
<1> HIDE DEF new
<1>4. MemSound(mem, H)
  BY <1>2, <1>3
<1>5. GrownBy(mem, H, new)
  <2> HIDE DEF H
  <2>1. Exact(mem, H) /\ \A v \in Range(H) : v <= Len(mem)
    BY <1>4 DEF MemSound
  <2>2. QED
    BY <2>1, EmptyGrown DEF new
<1>6. new.value \in Nat /\ Len(new.mem) \in Nat /\ Len(new.mem) >= Len(mem)
  BY <1>5 DEF GrownBy
<1>7. /\ hp \in Seq(Nat) /\ Len(hp) = Len(heap) + 1
      /\ \A v : Occurrences(v, hp) = Occurrences(v, heap) + Occurrences(v, <<new.value>>)
  BY <1>2, <1>6, HeapPush
<1> HIDE DEF hp
<1> DEFINE one == <<new.value>>
           none == << >>
<1>8. /\ none \in Seq(Int) /\ one \in Seq(Int) /\ PartialOf(Null) \in Seq(Int)
      /\ ChartInv /\ stack \in Seq(GoodFrames) /\ heap \in Seq(Nat)
      /\ Front(stack) \in Seq(GoodFrames) /\ hp \in Seq(Nat)
      /\ \A v : Occurrences(v, none) = 0
  BY <1>2, <1>3, <1>6, <1>7, NoPartial, OccurrencesNone
<1> HIDE DEF one, none
<1>9. ASSUME NEW v \in Nat
      PROVE  Own(Front(stack), Null, hp, v) + Occurrences(v, none)
               = Own(stack, Null, heap, v) + Occurrences(v, one)
  <2>1. /\ Occurrences(v, HeldBy(Front(stack))) = Occurrences(v, HeldBy(stack))
        /\ Occurrences(v, hp) = Occurrences(v, heap) + Occurrences(v, one)
        /\ Occurrences(v, none) = 0
    BY <1>3, <1>7, <1>8 DEF one
  <2>2. Occurrences(v, one) \in Nat
    BY <1>8, OccurrencesType
  <2>3. /\ Occurrences(v, HeldBy(stack)) \in Nat /\ Occurrences(v, PartialOf(Null)) \in Nat
        /\ Occurrences(v, heap) \in Nat
    BY <1>8, OwnType
  <2>4. QED
    BY ONLY <2>1, <2>2, <2>3 DEF Own
<1>10. Moves(stack, Null, heap, Front(stack), Null, hp, none, one)
  BY <1>9 DEF Moves
<1>11. /\ O \in Seq(Int)
       /\ \A v \in Nat : /\ Occurrences(v, O) \in Nat /\ Occurrences(v, H) \in Nat
                         /\ Occurrences(v, one) \in Nat
                         /\ Occurrences(v, O) + Occurrences(v, none)
                              = Occurrences(v, H) + Occurrences(v, one)
  BY <1>8, <1>10, HeldMoves
<1>12. MemSound(new.mem, O)
  <2> HIDE DEF H, O
  <2>1. \A v \in Nat : Occurrences(v, O) = Occurrences(v, H) + Occurrences(v, one)
    BY <1>8, <1>11
  <2>2. OneMore(H, O, new.value)
    BY <2>1 DEF one, OneMore
  <2>3. O \in Seq(Int)
    BY <1>11
  <2>4. QED
    BY <1>4, <1>5, <2>2, <2>3, GrownSound
<1>13. Len(new.mem) >= Len(tokens)
  BY <1>2, <1>6
<1>14. arrays = ArraysOf(Front(stack))
  <2>1. ArraysOf(stack) \in Nat
    BY <1>2, ArraysType
  <2>2. QED
    BY <1>2, <1>3, <2>1
<1>15. StateOK("execute", Front(stack), hp, Null, new.mem, arrays, NoOutcome)
  BY <1>3, <1>7, <1>12, <1>13, <1>14, ExecuteOK
<1>16. QED
  BY <1>1, <1>2, <1>3, <1>15

\* A walk starts with nothing known.
LEMMA WalkStarts ==
  ASSUME ChartInv, NEW it \in CompletedItems, AlternativeOf(it).symbols # << >>
  PROVE  LET symbols == AlternativeOf(it).symbols
             w == [item |-> it, cur |-> it, pos |-> Len(symbols),
                   partial |-> [k \in DOMAIN symbols |-> Undef],
                   slots |-> << >>, items |-> << >>]
         IN  /\ w \in GoodWalks /\ PartialOf(w) \in Seq(Int)
             /\ \A v \in Nat : Occurrences(v, PartialOf(w)) = 0
<1> DEFINE symbols == AlternativeOf(it).symbols
           partial == [k \in DOMAIN symbols |-> Undef]
           w == [item |-> it, cur |-> it, pos |-> Len(symbols), partial |-> partial,
                 slots |-> << >>, items |-> << >>]
<1>1. /\ it \in Items /\ it \in Item /\ symbols \in Seq(Symbols) /\ Arity(it) = Len(symbols)
      /\ it.dot = Arity(it)
  BY ItemFacts DEF CompletedItems, Arity
<1> HIDE DEF symbols
<1>2. Len(symbols) \in Nat /\ DOMAIN symbols = 1..Len(symbols) /\ symbols # << >>
  BY <1>1 DEF symbols
<1>3. /\ partial \in Seq(Int) /\ Len(partial) = Len(symbols) /\ partial # << >>
      /\ DOMAIN partial = 1..Len(symbols)
      /\ \A k \in 1..Len(symbols) : partial[k] = Undef
  BY <1>2 DEF Undef
<1> HIDE DEF partial
<1>4. << >> \in Seq(Nat) /\ << >> \in Seq(Item) /\ << >> \in Seq(CompletedItems)
      /\ DOMAIN << >> = {} /\ Len(<< >>) = 0
  OBVIOUS
<1>5. w \in Walk
  BY <1>1, <1>2, <1>3, <1>4 DEF Walk
<1>6. w \in GoodWalks
  <2>1. /\ w.item = it /\ w.cur = it /\ w.pos = Len(symbols) /\ w.partial = partial
        /\ w.slots = << >> /\ w.items = << >>
    OBVIOUS
  <2>2. Range(<< >>) = {}
    BY DEF Range
  <2> HIDE DEF w
  <2>3. \A k \in DOMAIN w.partial :
          IF k <= w.pos \/ k \in Range(w.slots) THEN w.partial[k] = Undef
                                                ELSE w.partial[k] \in Nat
    BY <1>2, <1>3, <2>1, <2>2
  <2>4. /\ \A s \in DOMAIN w.slots : w.slots[s] \in (w.pos + 1)..Len(w.partial)
        /\ \A s, t \in DOMAIN w.slots : w.slots[s] = w.slots[t] => s = t
    BY <1>4, <2>1
  <2>5. w.items \in Seq(CompletedItems) /\ Len(w.items) = Len(w.slots)
    BY <1>4, <2>1
  <2>6. /\ w.item \in CompletedItems /\ w.cur \in Items /\ w.cur.dot = w.pos
        /\ w.cur.rule = w.item.rule /\ w.cur.alt = w.item.alt
        /\ w.partial # << >> /\ Len(w.partial) = Arity(w.item)
    BY <1>1, <1>3, <2>1
  <2>7. QED
    BY <1>5, <2>3, <2>4, <2>5, <2>6 DEF GoodWalks
<1>7. PartialOf(w) = partial
  BY <1>5, NullIsNoWalk DEF PartialOf
<1>8. ASSUME NEW v \in Nat PROVE Occurrences(v, partial) = 0
  <2>1. v \notin Range(partial)
    BY <1>3 DEF Range, Undef
  <2>2. QED
    BY <1>3, <2>1, OccurrencesType
<1>9. QED
  BY <1>3, <1>6, <1>7, <1>8 DEF symbols, partial

\* The walk begins with three arrays and an undefined partial array.
LEMMA SelectStep ==
  ASSUME EvalInv, Select
  PROVE  StateOK(stage', stack', heap', walk', mem', arrays', outcome')
<1> DEFINE H == Holding3(stack, Null, heap, NullValue)
           none == << >>
           O == Holding3(Front(stack), walk', heap, NullValue)
<1>1. /\ Executing("select") /\ stage = "execute" /\ stage' = "walk" /\ TopSymbols # << >>
      /\ arrays' = arrays + 3 /\ outcome' = outcome
      /\ mem' = mem /\ heap' = heap /\ stack' = Front(stack)
      /\ walk' = [item |-> TopItem, cur |-> TopItem, pos |-> Len(TopSymbols),
                  partial |-> [k \in DOMAIN TopSymbols |-> Undef],
                  slots |-> << >>, items |-> << >>]
  BY DEF Select, Executing
<1>2. /\ ChartInv /\ outcome = NoOutcome
      /\ stack \in Seq(GoodFrames) /\ heap \in Seq(Nat)
      /\ arrays = ArraysOf(stack) + (IF walk = Null THEN 0 ELSE 3)
      /\ Len(mem) >= Len(tokens)
      /\ MemSound(mem, Holding3(stack, walk, heap, NullValue))
  BY <1>1, Running
<1>3. /\ Front(stack) \in Seq(GoodFrames) /\ walk = Null /\ TopItem \in CompletedItems
      /\ \A v : Occurrences(v, HeldBy(Front(stack))) = Occurrences(v, HeldBy(stack))
      /\ ArraysOf(Front(stack)) = ArraysOf(stack)
      /\ BalancedAt(Front(stack), Len(heap) + 1)
  BY <1>1, SelectPopped
<1>4. /\ walk' \in GoodWalks /\ PartialOf(walk') \in Seq(Int)
      /\ \A v \in Nat : Occurrences(v, PartialOf(walk')) = 0
  BY <1>1, <1>2, <1>3, WalkStarts DEF TopSymbols
<1>5. /\ none \in Seq(Int) /\ PartialOf(Null) \in Seq(Int)
      /\ \A v : Occurrences(v, none) = 0 /\ Occurrences(v, PartialOf(Null)) = 0
  BY NoPartial, OccurrencesNone
<1> HIDE DEF none
<1> DEFINE new == walk'
<1> HIDE DEF new
<1>6. new \in GoodWalks /\ PartialOf(new) \in Seq(Int)
      /\ \A v \in Nat : Occurrences(v, PartialOf(new)) = 0
  BY <1>4 DEF new
<1>7. Moves(stack, Null, heap, Front(stack), new, heap, none, none)
  <2>1. SUFFICES ASSUME NEW v \in Nat
        PROVE  Own(Front(stack), new, heap, v) + Occurrences(v, none)
                 = Own(stack, Null, heap, v) + Occurrences(v, none)
    BY DEF Moves
  <2>2. Occurrences(v, PartialOf(new)) = Occurrences(v, PartialOf(Null))
    BY <1>5, <1>6
  <2>3. QED
    BY <1>3, <2>2 DEF Own
<1>8. /\ O \in Seq(Int)
      /\ \A v \in Nat : /\ Occurrences(v, O) \in Nat /\ Occurrences(v, H) \in Nat
                        /\ Occurrences(v, O) + Occurrences(v, none)
                             = Occurrences(v, H) + Occurrences(v, none)
  BY <1>2, <1>3, <1>5, <1>6, <1>7, HeldMoves DEF new
<1>9. MemSound(mem, O)
  <2>1. MemSound(mem, H)
    BY <1>2, <1>3
  <2> HIDE DEF H, O
  <2>2. SameHeld(H, O)
    BY <1>5, <1>8 DEF SameHeld
  <2>3. QED
    BY <1>8, <2>1, <2>2, SameSound
<1>10. arrays + 3 = ArraysOf(Front(stack)) + 3
  <2>1. ArraysOf(stack) \in Nat
    BY <1>2, ArraysType
  <2>2. QED
    BY <1>2, <1>3, <2>1
<1>11. StateOK("walk", Front(stack), heap, new, mem, arrays + 3, NoOutcome)
  BY <1>2, <1>3, <1>6, <1>9, <1>10, WalkingOK DEF new
<1>12. QED
  BY <1>1, <1>2, <1>11 DEF new

\* The fields of a walk.
LEMMA WalkFields ==
  ASSUME ChartInv, NEW w \in GoodWalks
  PROVE  /\ w \in Walk /\ w # Null /\ PartialOf(w) = w.partial
         /\ w = [item |-> w.item, cur |-> w.cur, pos |-> w.pos, partial |-> w.partial,
                 slots |-> w.slots, items |-> w.items]
         /\ w.item \in CompletedItems /\ w.item \in Item /\ w.cur \in Items
         /\ w.cur.rule = w.item.rule /\ w.cur.alt = w.item.alt /\ w.cur.dot = w.pos
         /\ w.pos \in 0..Len(w.partial) /\ Len(w.partial) \in Nat
         /\ w.partial \in Seq(Int) /\ w.partial # << >>
         /\ DOMAIN w.partial = 1..Len(w.partial) /\ Len(w.partial) = Arity(w.item)
         /\ w.slots \in Seq(Nat) /\ w.items \in Seq(CompletedItems)
         /\ w.items \in Seq(Item) /\ Len(w.items) = Len(w.slots)
         /\ \A s, t \in DOMAIN w.slots : w.slots[s] = w.slots[t] => s = t
         /\ \A s \in DOMAIN w.slots : w.slots[s] \in (w.pos + 1)..Len(w.partial)
         /\ \A k \in DOMAIN w.partial :
              IF k <= w.pos \/ k \in Range(w.slots) THEN w.partial[k] = Undef
                                                    ELSE w.partial[k] \in Nat
<1>1. w \in Walk
  BY DEF GoodWalks
<1>2. w # Null
  BY <1>1, NullIsNoWalk
<1>3. /\ w.item \in Item /\ w.pos \in Nat /\ w.partial \in Seq(Int) /\ w.slots \in Seq(Nat)
      /\ w.items \in Seq(Item)
      /\ w = [item |-> w.item, cur |-> w.cur, pos |-> w.pos, partial |-> w.partial,
              slots |-> w.slots, items |-> w.items]
  BY <1>1 DEF Walk
<1>4. /\ w.item \in CompletedItems /\ w.cur \in Items
      /\ w.cur.rule = w.item.rule /\ w.cur.alt = w.item.alt /\ w.cur.dot = w.pos
      /\ w.partial # << >> /\ Len(w.partial) = Arity(w.item)
      /\ w.items \in Seq(CompletedItems) /\ Len(w.items) = Len(w.slots)
      /\ \A s, t \in DOMAIN w.slots : w.slots[s] = w.slots[t] => s = t
      /\ \A s \in DOMAIN w.slots : w.slots[s] \in (w.pos + 1)..Len(w.partial)
      /\ \A k \in DOMAIN w.partial :
           IF k <= w.pos \/ k \in Range(w.slots) THEN w.partial[k] = Undef
                                                 ELSE w.partial[k] \in Nat
  BY DEF GoodWalks
<1>5. Len(w.partial) \in Nat /\ DOMAIN w.partial = 1..Len(w.partial)
  BY <1>3
<1>6. w.pos \in 0..Len(w.partial)
  <2>1. w.cur.dot \in 0..Arity(w.cur)
    BY <1>4, ItemFacts
  <2>2. Arity(w.cur) = Arity(w.item)
    BY <1>4 DEF Arity, AlternativeOf
  <2>3. QED
    BY <1>4, <2>1, <2>2
<1>7. PartialOf(w) = w.partial
  BY <1>2 DEF PartialOf
<1>8. QED
  BY <1>1, <1>2, <1>3, <1>4, <1>5, <1>6, <1>7

\* A walk that goes one symbol back along b: over a token, of which x is the
\* value, or over a child.
TokenWalk(w, b, x) ==
  [w EXCEPT !.partial[w.pos] = x, !.cur = b.prev, !.pos = @ - 1]

ChildWalk(w, b) ==
  [w EXCEPT !.slots = Append(@, w.pos), !.items = Append(@, b.child),
            !.cur = b.prev, !.pos = @ - 1]

\* A walk is the record of its fields, whichever of them change.
LEMMA WalkUpdated ==
  ASSUME NEW w \in Walk, NEW back, NEW x
  PROVE  /\ TokenWalk(w, back, x)
              = [item |-> w.item, cur |-> back.prev, pos |-> w.pos - 1,
                 partial |-> [w.partial EXCEPT ![w.pos] = x],
                 slots |-> w.slots, items |-> w.items]
         /\ ChildWalk(w, back)
              = [item |-> w.item, cur |-> back.prev, pos |-> w.pos - 1, partial |-> w.partial,
                 slots |-> Append(w.slots, w.pos), items |-> Append(w.items, back.child)]
<1>1. PICK a, b, p, q, s, t : w = [item |-> a, cur |-> b, pos |-> p, partial |-> q, slots |-> s, items |-> t]
  BY DEF Walk
<1> DEFINE it == back.prev
           c == back.child
           y == [q EXCEPT ![p] = x]
           z == p - 1
           s2 == Append(s, p)
           t2 == Append(t, c)
           v1 == [item |-> a, cur |-> b, pos |-> p, partial |-> y, slots |-> s, items |-> t]
           v2 == [item |-> a, cur |-> it, pos |-> p, partial |-> y, slots |-> s, items |-> t]
           u1 == [item |-> a, cur |-> b, pos |-> p, partial |-> q, slots |-> s2, items |-> t]
           u2 == [item |-> a, cur |-> b, pos |-> p, partial |-> q, slots |-> s2, items |-> t2]
           u3 == [item |-> a, cur |-> it, pos |-> p, partial |-> q, slots |-> s2, items |-> t2]
<1>2. w.item = a /\ w.cur = b /\ w.pos = p /\ w.partial = q /\ w.slots = s /\ w.items = t
  BY ONLY <1>1
<1>3. [w EXCEPT !.partial[w.pos] = x] = v1
  BY ONLY <1>1
<1> HIDE DEF z, s2, t2, it, c
<1>4. [v1 EXCEPT !.cur = it] = v2
  OBVIOUS
<1>5. [v2 EXCEPT !.pos = z]
        = [item |-> a, cur |-> it, pos |-> z, partial |-> y, slots |-> s, items |-> t]
  OBVIOUS
<1>6. [w EXCEPT !.slots = s2] = u1 /\ [u1 EXCEPT !.items = t2] = u2
  BY ONLY <1>1
<1>7. [u2 EXCEPT !.cur = it] = u3
  OBVIOUS
<1>8. [u3 EXCEPT !.pos = z]
        = [item |-> a, cur |-> it, pos |-> z, partial |-> q, slots |-> s2, items |-> t2]
  OBVIOUS
<1> HIDE DEF u1, u2, u3, v1, v2
<1>9. [w EXCEPT !.partial[w.pos] = x, !.cur = it, !.pos = z]
     = [[[w EXCEPT !.partial[w.pos] = x] EXCEPT !.cur = it] EXCEPT !.pos = z]
  BY Zenon
<1>10. [w EXCEPT !.slots = s2, !.items = t2, !.cur = it, !.pos = z]
        = [[[[w EXCEPT !.slots = s2] EXCEPT !.items = t2] EXCEPT !.cur = it] EXCEPT !.pos = z]
  BY Zenon
<1>11. [w EXCEPT !.partial[w.pos] = x, !.cur = it, !.pos = z] = [item |-> a, cur |-> it, pos |-> z, partial |-> y, slots |-> s, items |-> t]
  BY <1>3, <1>4, <1>5, <1>9, Zenon
<1>12. [w EXCEPT !.slots = s2, !.items = t2, !.cur = it, !.pos = z]
    = [item |-> a, cur |-> it, pos |-> z, partial |-> q, slots |-> s2, items |-> t2]
  BY <1>6, <1>7, <1>8, <1>10, Zenon
<1>13. QED
  BY <1>2, <1>11, <1>12, Zenon DEF z, s2, t2, it, c, TokenWalk, ChildWalk

\* The walk goes one symbol back, over a token of which x is the value.
LEMMA WalkedToken ==
  ASSUME ChartInv, NEW w \in GoodWalks, w.pos > 0, NEW b, BackOK(w.cur, b), NEW x \in Nat
  PROVE  LET w2 == TokenWalk(w, b, x) IN
         /\ w2 \in GoodWalks /\ PartialOf(w2) \in Seq(Int)
         /\ \A v \in Nat : Occurrences(v, PartialOf(w2))
                             = Occurrences(v, PartialOf(w)) + Occurrences(v, <<x>>)
<1> DEFINE partial == [w.partial EXCEPT ![w.pos] = x]
           w2 == [item |-> w.item, cur |-> b.prev, pos |-> w.pos - 1,
                  partial |-> partial, slots |-> w.slots, items |-> w.items]
<1>1. /\ w = [item |-> w.item, cur |-> w.cur, pos |-> w.pos, partial |-> w.partial,
              slots |-> w.slots, items |-> w.items]
      /\ PartialOf(w) = w.partial
      /\ w.item \in CompletedItems /\ w.item \in Item /\ w.cur \in Items
      /\ w.cur.rule = w.item.rule /\ w.cur.alt = w.item.alt /\ w.cur.dot = w.pos
      /\ w.pos \in 0..Len(w.partial) /\ Len(w.partial) \in Nat
      /\ w.partial \in Seq(Int) /\ w.partial # << >>
      /\ DOMAIN w.partial = 1..Len(w.partial) /\ Len(w.partial) = Arity(w.item)
      /\ w.slots \in Seq(Nat) /\ w.items \in Seq(CompletedItems)
      /\ w.items \in Seq(Item) /\ Len(w.items) = Len(w.slots)
      /\ \A s, t \in DOMAIN w.slots : w.slots[s] = w.slots[t] => s = t
      /\ \A s \in DOMAIN w.slots : w.slots[s] \in (w.pos + 1)..Len(w.partial)
      /\ \A k \in DOMAIN w.partial :
           IF k <= w.pos \/ k \in Range(w.slots) THEN w.partial[k] = Undef
                                                 ELSE w.partial[k] \in Nat
  BY WalkFields
<1>2. TokenWalk(w, b, x) = w2
  <2>1. w \in Walk
    BY WalkFields
  <2>2. QED
    BY <2>1, WalkUpdated, Zenon
<1>3. w.pos \in DOMAIN w.partial /\ w.partial[w.pos] = Undef /\ w.pos - 1 \in Nat
      /\ w.pos \in Nat /\ w.partial \in Seq(Int)
  BY <1>1
<1>4. /\ partial \in Seq(Int) /\ Len(partial) = Len(w.partial)
      /\ \A v \in Nat : Occurrences(v, partial)
                          = Occurrences(v, w.partial) + Occurrences(v, <<x>>)
  BY <1>3, OccurrencesSet
<1>5. /\ DOMAIN partial = DOMAIN w.partial /\ partial[w.pos] = x
      /\ \A k \in DOMAIN w.partial : k # w.pos => partial[k] = w.partial[k]
  BY <1>1, <1>3
<1> HIDE DEF partial
<1>6. partial # << >>
  BY <1>1, <1>4
<1>7. /\ b.prev \in Items /\ b.prev \in Item
      /\ b.prev.rule = w.item.rule /\ b.prev.alt = w.item.alt /\ b.prev.dot = w.pos - 1
  BY <1>1, ItemFacts DEF BackOK
<1>8. w2 \in Walk
  BY <1>1, <1>3, <1>4, <1>7 DEF Walk
<1>9. w2 \in GoodWalks
  <2>1. /\ w2.item = w.item /\ w2.cur = b.prev /\ w2.pos = w.pos - 1
        /\ w2.partial = partial /\ w2.slots = w.slots /\ w2.items = w.items
    OBVIOUS
  <2> HIDE DEF w2
  <2>2. ASSUME NEW k \in DOMAIN w2.partial
        PROVE  IF k <= w2.pos \/ k \in Range(w2.slots) THEN w2.partial[k] = Undef
                                                      ELSE w2.partial[k] \in Nat
    <3>1. k \in DOMAIN w.partial /\ k \in Nat
      BY <1>1, <1>5, <2>1, <2>2
    <3>2. CASE k = w.pos
      <4>1. k \notin Range(w.slots)
        BY <1>1, <3>2 DEF Range
      <4>2. ~ (k <= w.pos - 1)
        BY <1>3, <3>2
      <4>3. w2.partial[k] = x
        BY <1>5, <2>1, <3>2
      <4>4. QED
        BY <2>1, <4>1, <4>2, <4>3
    <3>3. CASE k # w.pos
      <4>1. w2.partial[k] = w.partial[k]
        BY <1>5, <2>1, <3>1, <3>3
      <4>2. k <= w.pos - 1 <=> k <= w.pos
        BY <1>1, <1>3, <3>1, <3>3
      <4>3. QED
        BY <1>1, <2>1, <3>1, <4>1, <4>2
    <3>4. QED
      BY <3>2, <3>3
  <2>3. ASSUME NEW s \in DOMAIN w2.slots PROVE w2.slots[s] \in (w2.pos + 1)..Len(w2.partial)
    <3>1. w.slots[s] \in (w.pos + 1)..Len(w.partial)
      BY <1>1, <2>1
    <3>2. QED
      BY <1>1, <1>3, <1>4, <2>1, <3>1
  <2>4. \A s, t \in DOMAIN w2.slots : w2.slots[s] = w2.slots[t] => s = t
    BY <1>1, <2>1
  <2>5. w2.items \in Seq(CompletedItems) /\ Len(w2.items) = Len(w2.slots)
    BY <1>1, <2>1
  <2>6. /\ w2.item \in CompletedItems /\ w2.cur \in Items /\ w2.cur.dot = w2.pos
        /\ w2.cur.rule = w2.item.rule /\ w2.cur.alt = w2.item.alt
        /\ w2.partial # << >> /\ Len(w2.partial) = Arity(w2.item)
    BY <1>1, <1>4, <1>6, <1>7, <2>1
  <2>7. QED
    BY <1>8, <2>2, <2>3, <2>4, <2>5, <2>6 DEF GoodWalks
<1>10. PartialOf(w2) = partial
  BY <1>8, NullIsNoWalk DEF PartialOf
<1>11. QED
  BY <1>1, <1>2, <1>4, <1>9, <1>10

\* The walk goes one symbol back, over a child.
LEMMA WalkedChild ==
  ASSUME ChartInv, NEW w \in GoodWalks, w.pos > 0, NEW b, BackOK(w.cur, b), b.token = -1
  PROVE  LET w2 == ChildWalk(w, b) IN
         w2 \in GoodWalks /\ PartialOf(w2) = PartialOf(w)
<1> DEFINE slots == Append(w.slots, w.pos)
           items == Append(w.items, b.child)
           w2 == [item |-> w.item, cur |-> b.prev, pos |-> w.pos - 1,
                  partial |-> w.partial, slots |-> slots, items |-> items]
<1>1. /\ w = [item |-> w.item, cur |-> w.cur, pos |-> w.pos, partial |-> w.partial,
              slots |-> w.slots, items |-> w.items]
      /\ PartialOf(w) = w.partial
      /\ w.item \in CompletedItems /\ w.item \in Item /\ w.cur \in Items
      /\ w.cur.rule = w.item.rule /\ w.cur.alt = w.item.alt /\ w.cur.dot = w.pos
      /\ w.pos \in 0..Len(w.partial) /\ Len(w.partial) \in Nat
      /\ w.partial \in Seq(Int) /\ w.partial # << >>
      /\ DOMAIN w.partial = 1..Len(w.partial) /\ Len(w.partial) = Arity(w.item)
      /\ w.slots \in Seq(Nat) /\ w.items \in Seq(CompletedItems)
      /\ w.items \in Seq(Item) /\ Len(w.items) = Len(w.slots)
      /\ \A s, t \in DOMAIN w.slots : w.slots[s] = w.slots[t] => s = t
      /\ \A s \in DOMAIN w.slots : w.slots[s] \in (w.pos + 1)..Len(w.partial)
      /\ \A k \in DOMAIN w.partial :
           IF k <= w.pos \/ k \in Range(w.slots) THEN w.partial[k] = Undef
                                                 ELSE w.partial[k] \in Nat
  BY WalkFields
<1>2. ChildWalk(w, b) = w2
  <2>1. w \in Walk
    BY WalkFields
  <2>2. QED
    BY <2>1, WalkUpdated, Zenon
<1>3. w.pos \in 1..Len(w.partial) /\ w.pos - 1 \in Nat /\ w.pos \in Nat
  BY <1>1
<1>4. b.child \in Items /\ Completed(grammar, b.child) /\ b.prev \in Items
      /\ b.prev.rule = w.item.rule /\ b.prev.alt = w.item.alt /\ b.prev.dot = w.pos - 1
  BY <1>1 DEF BackOK
<1>5. b.child \in CompletedItems /\ b.child \in Item /\ b.prev \in Item
  BY <1>4, ItemFacts DEF CompletedItems
<1>6. PICK l \in Nat : Len(w.slots) = l
  BY <1>1
<1>7. /\ slots \in Seq(Nat) /\ Len(slots) = l + 1 /\ DOMAIN slots = 1..(l + 1)
      /\ slots[l + 1] = w.pos /\ DOMAIN w.slots = 1..l
      /\ \A s \in 1..l : slots[s] = w.slots[s]
  BY <1>1, <1>3, <1>6
<1>8. items \in Seq(CompletedItems) /\ items \in Seq(Item) /\ Len(items) = l + 1
  BY <1>1, <1>5, <1>6
<1> HIDE DEF slots, items
<1>9. \A s \in 1..(l + 1) : s = l + 1 \/ s \in 1..l
  OBVIOUS
<1>10. \A s \in 1..l : w.slots[s] \in (w.pos + 1)..Len(w.partial)
  BY <1>1, <1>7
<1>11. w2 \in Walk
  BY <1>1, <1>3, <1>5, <1>7, <1>8 DEF Walk
<1>12. w2 \in GoodWalks
  <2>1. /\ w2.item = w.item /\ w2.cur = b.prev /\ w2.pos = w.pos - 1
        /\ w2.partial = w.partial /\ w2.slots = slots /\ w2.items = items
    OBVIOUS
  <2> HIDE DEF w2
  <2>2. ASSUME NEW k \in DOMAIN w2.partial
        PROVE  IF k <= w2.pos \/ k \in Range(w2.slots) THEN w2.partial[k] = Undef
                                                      ELSE w2.partial[k] \in Nat
    <3>1. k \in DOMAIN w.partial /\ k \in Nat
      BY <1>1, <2>1, <2>2
    <3>2. k \in Range(slots) <=> k = w.pos \/ k \in Range(w.slots)
      <4>1. ASSUME k \in Range(slots) PROVE k = w.pos \/ k \in Range(w.slots)
        BY <1>7, <1>9, <4>1 DEF Range
      <4>2. ASSUME k = w.pos \/ k \in Range(w.slots) PROVE k \in Range(slots)
        <5>1. CASE k = w.pos
          <6>1. l + 1 \in DOMAIN slots
            BY <1>7
          <6>2. QED
            BY <1>7, <5>1, <6>1 DEF Range
        <5>2. CASE k \in Range(w.slots)
          <6>1. PICK s \in 1..l : k = w.slots[s]
            BY <1>7, <5>2 DEF Range
          <6>2. s \in DOMAIN slots /\ slots[s] = k
            BY <1>7, <6>1
          <6>3. QED
            BY <6>2 DEF Range
        <5>3. QED
          BY <4>2, <5>1, <5>2
      <4>3. QED
        BY <4>1, <4>2
    <3>3. k <= w.pos <=> k <= w.pos - 1 \/ k = w.pos
      BY <1>3, <3>1
    <3>4. QED
      BY <1>1, <2>1, <3>1, <3>2, <3>3
  <2>3. ASSUME NEW s \in DOMAIN w2.slots PROVE w2.slots[s] \in (w2.pos + 1)..Len(w2.partial)
    <3>1. s = l + 1 \/ s \in 1..l
      BY <1>7, <1>9, <2>1
    <3>2. slots[s] \in w.pos..Len(w.partial)
      <4>1. CASE s = l + 1
        BY <1>3, <1>7, <4>1
      <4>2. CASE s \in 1..l
        <5>1. slots[s] = w.slots[s] /\ w.slots[s] \in (w.pos + 1)..Len(w.partial)
          BY <1>7, <1>10, <4>2
        <5>2. QED
          BY <1>3, <5>1
      <4>3. QED
        BY <3>1, <4>1, <4>2
    <3>3. (w.pos - 1) + 1 = w.pos
      BY <1>3
    <3>4. QED
      BY <2>1, <3>2, <3>3
  <2>4. ASSUME NEW s \in DOMAIN w2.slots, NEW t \in DOMAIN w2.slots,
               w2.slots[s] = w2.slots[t]
        PROVE  s = t
    <3>1. (s = l + 1 \/ s \in 1..l) /\ (t = l + 1 \/ t \in 1..l) /\ slots[s] = slots[t]
      BY <1>7, <1>9, <2>1, <2>4
    <3>2. \A n \in 1..l : slots[n] # w.pos
      BY <1>3, <1>7, <1>10
    <3>3. QED
      BY <1>1, <1>7, <3>1, <3>2
  <2>5. w2.items \in Seq(CompletedItems) /\ Len(w2.items) = Len(w2.slots)
    BY <1>7, <1>8, <2>1
  <2>6. /\ w2.item \in CompletedItems /\ w2.cur \in Items /\ w2.cur.dot = w2.pos
        /\ w2.cur.rule = w2.item.rule /\ w2.cur.alt = w2.item.alt
        /\ w2.partial # << >> /\ Len(w2.partial) = Arity(w2.item)
    BY <1>1, <1>4, <2>1
  <2>7. QED
    BY <1>11, <2>2, <2>3, <2>4, <2>5, <2>6 DEF GoodWalks
<1>13. PartialOf(w2) = w.partial
  BY <1>11, NullIsNoWalk DEF PartialOf
<1>14. QED
  BY <1>1, <1>2, <1>12, <1>13

\* What is walked over.
LEMMA WalkOver ==
  ASSUME EvalInv, Walking
  PROVE  /\ stage = "walk" /\ walk \in GoodWalks /\ walk.pos > 0
         /\ BackOK(walk.cur, Selected(WalkBacks))
         /\ WalkBacks \in Seq(Back) /\ WalkBacks # << >>
         /\ \A b \in Range(WalkBacks) : BackOK(walk.cur, b)
<1>1. stage = "walk" /\ walk.pos > 0 /\ ChartInv /\ walk \in GoodWalks
  BY DEF EvalInv, StateOK, Walking
<1>2. walk.cur \in Items /\ walk.cur.dot > 0
  BY <1>1, WalkFields
<1>3. /\ WalkBacks \in Seq(Back) /\ WalkBacks # << >>
      /\ \A b \in Range(WalkBacks) : BackOK(walk.cur, b)
  BY <1>1, <1>2, BackFacts DEF WalkBacks
<1>4. Selected(WalkBacks) \in Range(WalkBacks)
  BY <1>3, SelectedIn
<1>5. QED
  BY <1>1, <1>3, <1>4

\* A reference more to a value in use.
LEMMA SharedSound ==
  ASSUME NEW m, NEW holders, MemSound(m, holders), NEW x \in Nat, Usable(m, x),
         NEW others \in Seq(Int), OneMore(holders, others, x)
  PROVE  MemSound(Shared(m, x).mem, others) /\ Len(Shared(m, x).mem) \in Nat
         /\ Len(Shared(m, x).mem) >= Len(m)
<1> DEFINE new == Shared(m, x)
<1>1. Exact(m, holders)
  BY SoundFacts
<1>2. GrownBy(m, holders, new)
  BY <1>1, SharedGrown
<1>3. OneMore(holders, others, new.value)
  BY DEF Shared
<1> HIDE DEF new
<1>4. MemSound(new.mem, others)
  BY <1>2, <1>3, GrownSound
<1>5. QED
  BY <1>2, <1>4 DEF new, GrownBy

\* The reference the walk takes to a token is in the partial array.
LEMMA WalkTokenStep ==
  ASSUME EvalInv, WalkToken
  PROVE  StateOK(stage', stack', heap', walk', mem', arrays', outcome')
<1> DEFINE back == Selected(WalkBacks)
           x == TokenValue(back.token)
           new == Shared(mem, x)
           w2 == TokenWalk(walk, back, x)
           H == Holding3(stack, walk, heap, NullValue)
           O == Holding3(stack, w2, heap, NullValue)
           one == <<x>>
           none == << >>
<1>1. /\ Walking /\ back.token # -1 /\ mem' = new.mem
      /\ stage' = stage /\ stack' = stack /\ heap' = heap /\ arrays' = arrays
      /\ outcome' = outcome
      /\ walk' = [walk EXCEPT !.partial[walk.pos] = new.value, !.cur = back.prev, !.pos = @ - 1]
  BY DEF WalkToken
<1>2. stage = "walk" /\ walk \in GoodWalks /\ walk.pos > 0 /\ BackOK(walk.cur, back)
  BY <1>1, WalkOver
<1>3. /\ ChartInv /\ outcome = NoOutcome
      /\ stack \in Seq(GoodFrames) /\ heap \in Seq(Nat) /\ PartialOf(walk) \in Seq(Int)
      /\ arrays = ArraysOf(stack) + (IF walk = Null THEN 0 ELSE 3)
      /\ Len(mem) \in Nat /\ Len(mem) >= Len(tokens) /\ Len(tokens) \in Nat
      /\ MemSound(mem, H)
  BY <1>2, Running
<1>4. walk # Null /\ BalancedAt(stack, Len(heap) + 1)
  BY <1>2 DEF EvalInv, StateOK
<1>5. back.token \in 0..(Len(tokens) - 1)
  BY <1>1, <1>2 DEF BackOK
<1> HIDE DEF back
<1>6. x \in 1..Len(tokens) /\ x \in Nat
  BY <1>3, <1>5 DEF TokenValue
<1> HIDE DEF x
<1>7. new.value = x
  BY DEF Shared
<1>8. Usable(mem, x)
  <2>1. Occurrences(x, TokensOf(Len(tokens))) = 1
    BY <1>3, <1>6, ChartTokens
  <2>2. NullValue \in Nat
    BY DEF NullValue
  <2>3. /\ Occurrences(x, H)
             = (((Occurrences(x, TokensOf(Len(tokens))) + Occurrences(x, HeldBy(stack)))
                 + Occurrences(x, PartialOf(walk))) + Occurrences(x, heap))
               + Occurrences(x, <<NullValue>>)
        /\ Occurrences(x, HeldBy(stack)) \in Nat
        /\ Occurrences(x, PartialOf(walk)) \in Nat
        /\ Occurrences(x, heap) \in Nat
        /\ Occurrences(x, <<NullValue>>) \in Nat
    BY <1>3, <2>2, HeldCount
  <2> HIDE DEF H
  <2>4. Occurrences(x, H) # 0
    BY ONLY <2>1, <2>3
  <2>5. QED
    BY <1>3, <1>6, <2>4, HeldUsable
<1>9. /\ w2 \in GoodWalks /\ PartialOf(w2) \in Seq(Int)
      /\ \A v \in Nat : Occurrences(v, PartialOf(w2))
                          = Occurrences(v, PartialOf(walk)) + Occurrences(v, one)
  BY <1>2, <1>3, <1>6, WalkedToken
<1>10. walk' = w2
  BY <1>1, <1>7 DEF TokenWalk
<1> HIDE DEF w2
<1>11. /\ none \in Seq(Int) /\ one \in Seq(Int) /\ \A v : Occurrences(v, none) = 0
  BY <1>6, OccurrencesNone
<1> HIDE DEF one, none
<1>12. Moves(stack, walk, heap, stack, w2, heap, none, one)
  <2>1. SUFFICES ASSUME NEW v \in Nat
        PROVE  Own(stack, w2, heap, v) + Occurrences(v, none)
                 = Own(stack, walk, heap, v) + Occurrences(v, one)
    BY DEF Moves
  <2>2. Occurrences(v, PartialOf(w2)) = Occurrences(v, PartialOf(walk)) + Occurrences(v, one)
        /\ Occurrences(v, none) = 0
    BY <1>9, <1>11
  <2>3. /\ Occurrences(v, HeldBy(stack)) \in Nat /\ Occurrences(v, PartialOf(walk)) \in Nat
        /\ Occurrences(v, heap) \in Nat
    BY <1>3, OwnType
  <2>4. Occurrences(v, one) \in Nat
    BY <1>11, OccurrencesType
  <2>5. QED
    BY ONLY <2>2, <2>3, <2>4 DEF Own
<1>13. /\ O \in Seq(Int)
       /\ \A v \in Nat : /\ Occurrences(v, O) \in Nat /\ Occurrences(v, H) \in Nat
                         /\ Occurrences(v, one) \in Nat
                         /\ Occurrences(v, O) + Occurrences(v, none)
                              = Occurrences(v, H) + Occurrences(v, one)
  BY <1>3, <1>9, <1>11, <1>12, HeldMoves
<1>14. MemSound(new.mem, O) /\ Len(new.mem) >= Len(mem) /\ Len(new.mem) \in Nat
  <2> HIDE DEF H, O
  <2>1. \A v \in Nat : Occurrences(v, O) = Occurrences(v, H) + Occurrences(v, one)
    BY <1>11, <1>13
  <2>2. OneMore(H, O, x)
    BY <2>1 DEF one, OneMore
  <2>3. MemSound(mem, H) /\ O \in Seq(Int)
    BY <1>3, <1>13
  <2>4. QED
    BY <1>6, <1>8, <2>2, <2>3, SharedSound
<1> HIDE DEF new
<1>15. Len(new.mem) >= Len(tokens)
  BY <1>3, <1>14
<1>16. arrays = ArraysOf(stack) + 3
  BY <1>3, <1>4
<1>17. StateOK("walk", stack, heap, w2, new.mem, arrays, NoOutcome)
  BY <1>3, <1>4, <1>9, <1>14, <1>15, <1>16, WalkingOK
<1>18. QED
  BY <1>1, <1>2, <1>3, <1>10, <1>17

\* A child goes on the list of items and its slot stays undefined.
LEMMA WalkChildStep ==
  ASSUME EvalInv, WalkChild
  PROVE  StateOK(stage', stack', heap', walk', mem', arrays', outcome')
<1> DEFINE back == Selected(WalkBacks)
           w2 == ChildWalk(walk, back)
<1>1. /\ Walking /\ back.token = -1 /\ walk' = w2 /\ mem' = mem
      /\ stage' = stage /\ stack' = stack /\ heap' = heap /\ arrays' = arrays
      /\ outcome' = outcome
  BY DEF WalkChild, ChildWalk
<1>2. stage = "walk" /\ walk \in GoodWalks /\ walk.pos > 0 /\ BackOK(walk.cur, back)
  BY <1>1, WalkOver
<1>3. /\ ChartInv /\ outcome = NoOutcome
      /\ stack \in Seq(GoodFrames) /\ heap \in Seq(Nat)
      /\ arrays = ArraysOf(stack) + (IF walk = Null THEN 0 ELSE 3)
      /\ Len(mem) >= Len(tokens)
      /\ MemSound(mem, Holding3(stack, walk, heap, NullValue))
  BY <1>2, Running
<1>4. walk # Null /\ BalancedAt(stack, Len(heap) + 1)
  BY <1>2 DEF EvalInv, StateOK
<1> HIDE DEF back
<1>5. w2 \in GoodWalks /\ PartialOf(w2) = PartialOf(walk)
  BY <1>1, <1>2, <1>3, WalkedChild
<1> HIDE DEF w2
<1>6. MemSound(mem, Holding3(stack, w2, heap, NullValue))
  BY <1>3, <1>5 DEF Holding3
<1>7. arrays = ArraysOf(stack) + 3
  BY <1>3, <1>4
<1>8. StateOK("walk", stack, heap, w2, mem, arrays, NoOutcome)
  BY <1>3, <1>4, <1>5, <1>6, <1>7, WalkingOK
<1>9. QED
  BY <1>1, <1>2, <1>3, <1>8

LEMMA SeqOver ==
  ASSUME NEW T, NEW U, NEW s \in Seq(T), \A k \in 1..Len(s) : s[k] \in U
  PROVE  s \in Seq(U)
<1>1. PICK m \in Nat : Len(s) = m
  OBVIOUS
<1>2. s \in [1..m -> T]
  BY <1>1
<1>3. s \in [1..m -> U]
  BY <1>1, <1>2
<1>4. QED
  BY <1>3

\* A finished walk: what is not a slot is a value.
LEMMA WalkedOpen ==
  ASSUME ChartInv, NEW w \in GoodWalks, w.pos = 0
  PROVE  Open(w.partial, w.slots) /\ (w.slots = << >> => w.partial \in Seq(Nat))
<1>1. /\ Len(w.partial) \in Nat /\ w.partial \in Seq(Int)
      /\ DOMAIN w.partial = 1..Len(w.partial) /\ w.slots \in Seq(Nat)
      /\ \A s, t \in DOMAIN w.slots : w.slots[s] = w.slots[t] => s = t
      /\ \A s \in DOMAIN w.slots : w.slots[s] \in (w.pos + 1)..Len(w.partial)
      /\ \A k \in DOMAIN w.partial :
           IF k <= w.pos \/ k \in Range(w.slots) THEN w.partial[k] = Undef
                                                 ELSE w.partial[k] \in Nat
  BY WalkFields
<1>2. \A s \in DOMAIN w.slots : w.slots[s] \in DOMAIN w.partial
  BY <1>1
<1>3. Range(w.slots) \subseteq DOMAIN w.partial
  BY <1>2 DEF Range
<1>4. \A k \in DOMAIN w.partial : ~ (k <= w.pos)
  BY <1>1
<1>5. \A k \in DOMAIN w.partial :
        IF k \in Range(w.slots) THEN w.partial[k] = Undef ELSE w.partial[k] \in Nat
  BY <1>1, <1>4
<1>6. Open(w.partial, w.slots)
  BY <1>1, <1>3, <1>5 DEF Open
<1>7. ASSUME w.slots = << >> PROVE w.partial \in Seq(Nat)
  <2>1. Range(w.slots) = {}
    BY <1>7 DEF Range
  <2>2. \A k \in 1..Len(w.partial) : w.partial[k] \in Nat
    BY <1>1, <1>5, <2>1
  <2>3. QED
    BY <1>1, <2>2, SeqOver
<1>8. QED
  BY <1>6, <1>7

\* The children's frames hold nothing; the apply frame holds what the walk held.
LEMMA QueueStep ==
  ASSUME EvalInv, Queue
  PROVE  StateOK(stage', stack', heap', walk', mem', arrays', outcome')
<1> DEFINE f == ApplyFrame(walk.item, walk.partial, walk.slots)
           st1 == Append(stack, f)
           new == st1 \o SelectsOf(walk.items)
           n == Len(heap) + Len(walk.items)
           none == << >>
           H == Holding3(stack, walk, heap, NullValue)
           O == Holding3(new, Null, heap, NullValue)
<1>1. /\ stage = "walk" /\ walk.pos = 0 /\ walk.slots # << >>
      /\ stack' = new /\ arrays' = arrays - 1 /\ walk' = Null /\ stage' = "execute"
      /\ heap' = heap /\ mem' = mem /\ outcome' = outcome
  BY DEF Queue, Walked, SelectsOf
<1>2. /\ ChartInv /\ outcome = NoOutcome
      /\ stack \in Seq(GoodFrames) /\ heap \in Seq(Nat) /\ PartialOf(walk) \in Seq(Int)
      /\ arrays = ArraysOf(stack) + (IF walk = Null THEN 0 ELSE 3)
      /\ Len(mem) >= Len(tokens)
      /\ MemSound(mem, H)
  BY <1>1, Running
<1>3. walk \in GoodWalks /\ walk # Null /\ BalancedAt(stack, Len(heap) + 1)
  BY <1>1 DEF EvalInv, StateOK
<1>4. /\ walk.item \in CompletedItems /\ walk.item \in Item /\ PartialOf(walk) = walk.partial
      /\ walk.partial # << >> /\ Len(walk.partial) = Arity(walk.item)
      /\ walk.items \in Seq(CompletedItems) /\ Len(walk.items) = Len(walk.slots)
      /\ walk.partial \in Seq(Int) /\ walk.slots \in Seq(Nat)
  BY <1>2, <1>3, WalkFields
<1>5. Open(walk.partial, walk.slots)
  BY <1>1, <1>2, <1>3, WalkedOpen
<1>6. f.kind = "apply" /\ f.item = walk.item /\ f.partial = walk.partial /\ f.slots = walk.slots
  BY ApplyFields
<1>7. f \in GoodFrames
  <2>1. f \in Frame
    BY <1>4 DEF ApplyFrame, Frame
  <2> HIDE DEF f
  <2>2. QED
    BY <1>4, <1>5, <1>6, <2>1 DEF GoodFrames
<1> HIDE DEF f
<1>8. FrameSet(GoodFrames) /\ \A it \in CompletedItems : SelectFrame(it) \in GoodFrames
  BY <1>2, GoodFrameSet
<1>9. /\ st1 \in Seq(GoodFrames)
      /\ HeldBy(stack) \in Seq(Int) /\ HeldBy(st1) = HeldBy(stack) \o walk.partial
  <2>1. st1 \in Seq(GoodFrames)
    BY <1>2, <1>7
  <2>2. HeldBy(stack) \in Seq(Int) /\ HeldBy(st1) = HeldBy(stack) \o f.partial
    BY <1>2, <1>7, <1>8, HeldPush
  <2>3. QED
    BY <1>6, <2>1, <2>2
<1>10. ArraysOf(st1) = ArraysOf(stack) + 2
  BY <1>2, <1>6, <1>7, ArraysPush
<1>11. n \in Nat /\ n >= Len(walk.slots) /\ (n + 1) - Len(walk.slots) = Len(heap) + 1
       /\ Len(heap) \in Nat
  <2>1. Len(heap) \in Nat /\ Len(walk.slots) \in Nat
    BY <1>2, <1>4
  <2>2. Len(walk.items) = Len(walk.slots)
    BY <1>4
  <2>3. n = Len(heap) + Len(walk.slots)
    BY <2>2
  <2>4. \A a, b \in Nat : a + b \in Nat /\ a + b >= b /\ ((a + b) + 1) - b = a + 1
    OBVIOUS
  <2> HIDE DEF n
  <2>5. QED
    BY ONLY <2>1, <2>3, <2>4
<1>12. BalancedAt(st1, n)
  <2> HIDE DEF n
  <2>1. n \in Int
    BY <1>11
  <2>2. BalancedAt(st1, n) <=> BalancedAt(stack, (n + 1) - Len(f.slots)) /\ n >= Len(f.slots)
    BY <1>2, <1>7, <1>8, <2>1, BalancedPush
  <2>3. QED
    BY <1>3, <1>6, <1>11, <2>2
<1> HIDE DEF st1
<1>13. /\ new \in Seq(GoodFrames) /\ HeldBy(new) = HeldBy(st1)
       /\ ArraysOf(new) = ArraysOf(st1)
       /\ BalancedAt(new, Len(heap)) <=> BalancedAt(st1, n)
  <2>1. walk.items \in Seq(CompletedItems) /\ st1 \in Seq(GoodFrames) /\ Len(heap) \in Nat
    BY <1>4, <1>9, <1>11
  <2>2. \A items \in Seq(CompletedItems) :
          LET added == st1 \o SelectsOf(items) IN
          /\ added \in Seq(GoodFrames)
          /\ HeldBy(added) = HeldBy(st1)
          /\ ArraysOf(added) = ArraysOf(st1)
          /\ \A k \in Nat : BalancedAt(added, k) <=> BalancedAt(st1, k + Len(items))
    BY <1>8, <2>1, SelectsPushed
  <2>3. QED
    BY <2>1, <2>2
<1> HIDE DEF new, none
<1>14. /\ none \in Seq(Int) /\ PartialOf(Null) \in Seq(Int)
       /\ \A v : Occurrences(v, none) = 0 /\ Occurrences(v, PartialOf(Null)) = 0
  BY NoPartial, OccurrencesNone DEF none
<1>15. Moves(stack, walk, heap, new, Null, heap, none, none)
  <2>1. SUFFICES ASSUME NEW v \in Nat
        PROVE  Own(new, Null, heap, v) + Occurrences(v, none)
                 = Own(stack, walk, heap, v) + Occurrences(v, none)
    BY DEF Moves
  <2>2. Occurrences(v, HeldBy(new))
          = Occurrences(v, HeldBy(stack)) + Occurrences(v, PartialOf(walk))
    BY <1>4, <1>9, <1>13, OccurrencesConcat
  <2>3. Occurrences(v, none) = 0 /\ Occurrences(v, PartialOf(Null)) = 0
    BY <1>14
  <2>4. /\ Occurrences(v, HeldBy(stack)) \in Nat /\ Occurrences(v, PartialOf(walk)) \in Nat
        /\ Occurrences(v, heap) \in Nat
    BY <1>2, OwnType
  <2>5. QED
    BY ONLY <2>2, <2>3, <2>4 DEF Own
<1>16. /\ O \in Seq(Int)
       /\ \A v \in Nat : /\ Occurrences(v, O) \in Nat /\ Occurrences(v, H) \in Nat
                         /\ Occurrences(v, O) + Occurrences(v, none)
                              = Occurrences(v, H) + Occurrences(v, none)
  BY <1>2, <1>13, <1>14, <1>15, HeldMoves
<1>17. MemSound(mem, O)
  <2> HIDE DEF H, O
  <2>1. SameHeld(H, O)
    BY <1>14, <1>16 DEF SameHeld
  <2>2. QED
    BY <1>2, <1>16, <2>1, SameSound
<1>18. arrays - 1 = ArraysOf(new)
  <2>1. ArraysOf(stack) \in Nat
    BY <1>2, ArraysType
  <2>2. QED
    BY <1>2, <1>3, <1>10, <1>13, <2>1
<1>19. StateOK("execute", new, heap, Null, mem, arrays - 1, NoOutcome)
  BY <1>2, <1>12, <1>13, <1>17, <1>18, ExecuteOK
<1>20. QED
  BY <1>1, <1>2, <1>19

\* An apply frame on top: its arguments come from its array and from the heap.
LEMMA ApplyPopped ==
  ASSUME EvalInv, Executing("apply")
  PROVE  /\ Front(stack) \in Seq(GoodFrames) /\ walk = Null
         /\ TopItem \in CompletedItems
         /\ TopArgs \in Seq(Nat) /\ TopArgs \in Seq(Int) /\ TopArgs # << >>
         /\ Len(TopArgs) = Arity(TopItem)
         /\ HeapLeft \in Seq(Nat) /\ HeapLeft \in Seq(Int)
         /\ \A v \in Nat :
              /\ Occurrences(v, TopArgs) \in Nat /\ Occurrences(v, HeapLeft) \in Nat
              /\ Occurrences(v, HeldBy(Front(stack))) \in Nat
              /\ (Occurrences(v, TopArgs) + Occurrences(v, HeapLeft))
                   + Occurrences(v, HeldBy(Front(stack)))
                 = Occurrences(v, HeldBy(stack)) + Occurrences(v, heap)
         /\ ArraysOf(stack) = ArraysOf(Front(stack)) + 2
         /\ BalancedAt(Front(stack), Len(HeapLeft) + 1)
<1> DEFINE partial == Last(stack).partial
           slots == Last(stack).slots
<1>1. stage = "execute" /\ stack # << >> /\ Last(stack).kind = "apply"
  BY DEF Executing
<1>2. stack \in Seq(GoodFrames) /\ heap \in Seq(Nat) /\ ChartInv
  BY <1>1, Running
<1>3. BalancedAt(stack, Len(heap)) /\ walk = Null
  BY <1>1 DEF EvalInv, StateOK
<1>4. Front(stack) \in Seq(GoodFrames) /\ Last(stack) \in GoodFrames
  BY <1>1, <1>2, LastFront
<1>5. /\ TopItem \in CompletedItems /\ Open(partial, slots) /\ partial # << >>
      /\ Len(partial) = Arity(TopItem)
  BY <1>1, <1>4 DEF GoodFrames, TopItem
<1>6. /\ HeldBy(stack) = HeldBy(Front(stack)) \o partial
      /\ HeldBy(Front(stack)) \in Seq(Int)
  BY <1>1, <1>2, GoodFrameSet, HeldPop
<1>7. ArraysOf(stack) = ArraysOf(Front(stack)) + 2
  BY <1>1, <1>2, ArraysPop
<1> HIDE DEF partial, slots
<1>8. partial \in Seq(Int) /\ slots \in Seq(Nat) /\ Len(slots) \in Nat /\ Len(heap) \in Nat
  BY <1>2, <1>5 DEF Open
<1>9. BalancedAt(Front(stack), (Len(heap) + 1) - Len(slots)) /\ Len(heap) >= Len(slots)
  <2>1. Len(heap) \in Int
    BY <1>8
  <2>2. BalancedAt(stack, Len(heap))
          <=> /\ BalancedAt(Front(stack), (Len(heap) + 1) - Len(Last(stack).slots))
              /\ Len(heap) >= Len(Last(stack).slots)
    BY <1>1, <1>2, <2>1, GoodFrameSet, BalancedPop
  <2>3. QED
    BY <1>3, <2>2 DEF slots
<1>10. TopArgs = Filled(partial, slots, heap) /\ HeapLeft = Popped(heap, Len(slots))
  BY DEF TopArgs, HeapLeft, partial, slots
<1>11. TopArgs \in Seq(Nat) /\ Len(TopArgs) = Len(partial)
  BY <1>2, <1>5, <1>8, <1>9, <1>10, FilledEntries
<1>12. HeapLeft \in Seq(Nat) /\ Len(HeapLeft) = Len(heap) - Len(slots)
  <2>1. Len(slots) \in 0..Len(heap)
    BY <1>8, <1>9
  <2>2. QED
    BY <1>2, <1>10, <2>1, OccurrencesPopped
<1>13. BalancedAt(Front(stack), Len(HeapLeft) + 1)
  <2>1. (Len(heap) + 1) - Len(slots) = Len(HeapLeft) + 1
    BY <1>8, <1>12
  <2>2. QED
    BY <1>9, <2>1
<1>14. TopArgs # << >>
  BY <1>5, <1>8, <1>11
<1>15. TopArgs \in Seq(Int) /\ HeapLeft \in Seq(Int)
  BY <1>11, <1>12, SeqMonotonic, Nat \subseteq Int
<1>16. ASSUME NEW v \in Nat
       PROVE  /\ Occurrences(v, TopArgs) \in Nat /\ Occurrences(v, HeapLeft) \in Nat
              /\ Occurrences(v, HeldBy(Front(stack))) \in Nat
              /\ (Occurrences(v, TopArgs) + Occurrences(v, HeapLeft))
                   + Occurrences(v, HeldBy(Front(stack)))
                 = Occurrences(v, HeldBy(stack)) + Occurrences(v, heap)
  <2>1. Occurrences(v, TopArgs) + Occurrences(v, HeapLeft)
          = Occurrences(v, partial) + Occurrences(v, heap)
    BY <1>2, <1>5, <1>9, <1>10, FilledOccurrences
  <2>2. Occurrences(v, HeldBy(stack))
          = Occurrences(v, HeldBy(Front(stack))) + Occurrences(v, partial)
    BY <1>6, <1>8, OccurrencesConcat
  <2>3. /\ Occurrences(v, TopArgs) \in Nat /\ Occurrences(v, HeapLeft) \in Nat
        /\ Occurrences(v, HeldBy(Front(stack))) \in Nat /\ Occurrences(v, partial) \in Nat
        /\ Occurrences(v, heap) \in Nat
    BY <1>2, <1>6, <1>8, <1>15, OccurrencesType
  <2>4. QED
    BY ONLY <2>1, <2>2, <2>3
<1>17. QED
  BY <1>3, <1>4, <1>5, <1>7, <1>11, <1>12, <1>13, <1>14, <1>15, <1>16

LEMMA OwnNothing ==
  /\ << >> \in Seq(GoodFrames) /\ << >> \in Seq(Nat) /\ << >> \in Seq(Int)
  /\ \A v : Own(<< >>, Null, << >>, v) = 0 /\ Occurrences(v, << >>) = 0
<1>1. \A v : Occurrences(v, << >>) = 0
  BY OccurrencesNone
<1>2. HeldBy(<< >>) = << >> /\ PartialOf(Null) = << >>
  BY HeldEmpty, NoPartial
<1>3. QED
  BY <1>1, <1>2 DEF Own

\* When everything held is released, what is left is exact.
LEMMA AbandonOK ==
  ASSUME EvalInv, stage \in {"execute", "walk"}, NEW vs \in Seq(Int),
         \A v \in Nat : Occurrences(v, vs) = Own(stack, walk, heap, v),
         NEW kind \in {"ambiguity", "exception"}
  PROVE  StateOK("returned", << >>, << >>, Null, Release(mem, vs), 0,
                 [kind |-> kind, value |-> NullValue])
<1> DEFINE none == << >>
           H == Holding3(stack, walk, heap, NullValue)
           O == Holding3(none, Null, none, NullValue)
           out == [kind |-> kind, value |-> NullValue]
<1>1. /\ ChartInv /\ stack \in Seq(GoodFrames) /\ heap \in Seq(Nat)
      /\ PartialOf(walk) \in Seq(Int) /\ MemSound(mem, H)
  BY Running
<1>2. /\ none \in Seq(GoodFrames) /\ none \in Seq(Nat) /\ none \in Seq(Int)
      /\ PartialOf(Null) \in Seq(Int)
      /\ \A v : Own(none, Null, none, v) = 0 /\ Occurrences(v, none) = 0
  BY OwnNothing, NoPartial
<1> HIDE DEF none
<1>3. Moves(stack, walk, heap, none, Null, none, vs, none)
  <2>1. SUFFICES ASSUME NEW v \in Nat
        PROVE  Own(none, Null, none, v) + Occurrences(v, vs)
                 = Own(stack, walk, heap, v) + Occurrences(v, none)
    BY DEF Moves
  <2>2. Own(stack, walk, heap, v) \in Nat
    BY <1>1, OwnType
  <2>3. Own(none, Null, none, v) = 0 /\ Occurrences(v, none) = 0
        /\ Occurrences(v, vs) = Own(stack, walk, heap, v)
    BY <1>2
  <2>4. QED
    BY ONLY <2>2, <2>3
<1>4. /\ O \in Seq(Int)
      /\ \A v \in Nat : /\ Occurrences(v, O) \in Nat /\ Occurrences(v, H) \in Nat
                        /\ Occurrences(v, O) + Occurrences(v, vs)
                             = Occurrences(v, H) + Occurrences(v, none)
  BY <1>1, <1>2, <1>3, HeldMoves
<1>5. MemSound(Release(mem, vs), O)
  <2> HIDE DEF H, O
  <2>1. \A v \in Nat : Occurrences(v, H) = Occurrences(v, O) + Occurrences(v, vs)
    BY <1>2, <1>4
  <2>2. QED
    BY <1>1, <1>4, <2>1, ReleaseSound
<1>6. out \in Outcomes /\ out.value = NullValue
  BY DEF Outcomes, NullValue
<1>7. Exact(Release(mem, vs), O)
  BY <1>5, SoundFacts
<1>8. QED
  BY <1>6, <1>7, ReturnedOK DEF none

\* Abandoned in the walk: its array, the frames and the heap are released.
LEMMA WalkAbandoned ==
  ASSUME EvalInv, stage = "walk", NEW kind \in {"ambiguity", "exception"},
         Abandon(kind, walk.partial, 3, stack, heap)
  PROVE  StateOK(stage', stack', heap', walk', mem', arrays', outcome')
<1> DEFINE held == HeldBy(stack)
           vs == walk.partial \o held \o heap
<1>1. /\ ChartInv /\ stack \in Seq(GoodFrames) /\ heap \in Seq(Nat) /\ heap \in Seq(Int)
      /\ arrays = ArraysOf(stack) + (IF walk = Null THEN 0 ELSE 3)
      /\ held \in Seq(Int)
  BY Running
<1>2. walk \in GoodWalks /\ walk # Null
  BY DEF EvalInv, StateOK
<1>3. walk.partial \in Seq(Int) /\ PartialOf(walk) = walk.partial
  BY <1>1, <1>2, WalkFields
<1> DEFINE front == walk.partial \o held
<1> HIDE DEF held
<1>4. front \in Seq(Int) /\ \A v : Occurrences(v, front)
                                    = Occurrences(v, walk.partial) + Occurrences(v, held)
  BY <1>1, <1>3, OccurrencesConcat
<1> HIDE DEF front
<1>5. /\ front \o heap \in Seq(Int)
      /\ \A v : Occurrences(v, front \o heap) = Occurrences(v, front) + Occurrences(v, heap)
  BY <1>1, <1>4, OccurrencesConcat
<1>6. vs = front \o heap
  BY DEF front
<1>7. ASSUME NEW v \in Nat PROVE Occurrences(v, vs) = Own(stack, walk, heap, v)
  <2>1. /\ Occurrences(v, held) \in Nat /\ Occurrences(v, walk.partial) \in Nat
        /\ Occurrences(v, heap) \in Nat
    BY <1>1, <1>3, OccurrencesType
  <2>2. Own(stack, walk, heap, v)
          = (Occurrences(v, held) + Occurrences(v, walk.partial)) + Occurrences(v, heap)
    BY <1>3 DEF Own, held
  <2>3. Occurrences(v, vs)
          = (Occurrences(v, walk.partial) + Occurrences(v, held)) + Occurrences(v, heap)
    BY <1>4, <1>5, <1>6
  <2> HIDE DEF vs
  <2>4. QED
    BY ONLY <2>1, <2>2, <2>3
<1>8. vs \in Seq(Int)
  BY <1>5, <1>6
<1>9. /\ mem' = Release(mem, vs) /\ arrays' = arrays - 3 - ArraysOf(stack)
      /\ stack' = << >> /\ heap' = << >> /\ walk' = Null /\ stage' = "returned"
      /\ outcome' = [kind |-> kind, value |-> NullValue]
  BY DEF Abandon, Leaving, held
<1> HIDE DEF vs
<1>10. arrays - 3 - ArraysOf(stack) = 0
  <2>1. ArraysOf(stack) \in Nat
    BY <1>1, ArraysType
  <2>2. QED
    BY <1>1, <1>2, <2>1
<1>11. StateOK("returned", << >>, << >>, Null, Release(mem, vs), 0,
               [kind |-> kind, value |-> NullValue])
  BY <1>7, <1>8, AbandonOK
<1>12. QED
  BY <1>9, <1>10, <1>11

\* Thrown by an action with its arguments filled in.
LEMMA ThrowStep ==
  ASSUME EvalInv, Throw
  PROVE  StateOK(stage', stack', heap', walk', mem', arrays', outcome')
<1> DEFINE held == HeldBy(Front(stack))
           vs == TopArgs \o held \o HeapLeft
<1>1. Executing("apply") /\ Abandon("exception", TopArgs, 2, Front(stack), HeapLeft)
      /\ stage = "execute"
  BY DEF Throw, Executing
<1>2. /\ ChartInv /\ stack \in Seq(GoodFrames) /\ heap \in Seq(Nat) /\ heap \in Seq(Int)
      /\ arrays = ArraysOf(stack) + (IF walk = Null THEN 0 ELSE 3)
      /\ HeldBy(stack) \in Seq(Int)
  BY <1>1, Running
<1>3. /\ Front(stack) \in Seq(GoodFrames) /\ walk = Null
      /\ TopArgs \in Seq(Int) /\ HeapLeft \in Seq(Int)
      /\ \A v \in Nat :
           (Occurrences(v, TopArgs) + Occurrences(v, HeapLeft)) + Occurrences(v, held)
             = Occurrences(v, HeldBy(stack)) + Occurrences(v, heap)
      /\ ArraysOf(stack) = ArraysOf(Front(stack)) + 2
  BY <1>1, ApplyPopped
<1>4. held \in Seq(Int)
  BY <1>3, GoodFrameSet, HeldTypes
<1> DEFINE front == TopArgs \o held
<1> HIDE DEF held
<1>5. front \in Seq(Int) /\ \A v : Occurrences(v, front)
                                    = Occurrences(v, TopArgs) + Occurrences(v, held)
  BY <1>3, <1>4, OccurrencesConcat
<1> HIDE DEF front
<1>6. /\ front \o HeapLeft \in Seq(Int)
      /\ \A v : Occurrences(v, front \o HeapLeft)
                  = Occurrences(v, front) + Occurrences(v, HeapLeft)
  BY <1>3, <1>5, OccurrencesConcat
<1>7. vs = front \o HeapLeft
  BY DEF front
<1>8. ASSUME NEW v \in Nat PROVE Occurrences(v, vs) = Own(stack, walk, heap, v)
  <2>1. /\ Occurrences(v, held) \in Nat /\ Occurrences(v, TopArgs) \in Nat
        /\ Occurrences(v, HeapLeft) \in Nat /\ Occurrences(v, HeldBy(stack)) \in Nat
        /\ Occurrences(v, heap) \in Nat
    BY <1>2, <1>3, <1>4, OccurrencesType
  <2>2. Own(stack, walk, heap, v)
          = (Occurrences(v, HeldBy(stack)) + 0) + Occurrences(v, heap)
    BY <1>3, NoPartial, OccurrencesNone DEF Own
  <2>3. Occurrences(v, vs)
          = (Occurrences(v, TopArgs) + Occurrences(v, held)) + Occurrences(v, HeapLeft)
    BY <1>5, <1>6, <1>7
  <2>4. (Occurrences(v, TopArgs) + Occurrences(v, HeapLeft)) + Occurrences(v, held)
          = Occurrences(v, HeldBy(stack)) + Occurrences(v, heap)
    BY <1>3
  <2> HIDE DEF vs
  <2>5. QED
    BY ONLY <2>1, <2>2, <2>3, <2>4
<1>9. vs \in Seq(Int)
  BY <1>6, <1>7
<1>10. /\ mem' = Release(mem, vs) /\ arrays' = arrays - 2 - ArraysOf(Front(stack))
       /\ stack' = << >> /\ heap' = << >> /\ walk' = Null /\ stage' = "returned"
       /\ outcome' = [kind |-> "exception", value |-> NullValue]
  BY <1>1 DEF Abandon, Leaving, held
<1> HIDE DEF vs
<1>11. arrays - 2 - ArraysOf(Front(stack)) = 0
  <2>1. ArraysOf(Front(stack)) \in Nat
    BY <1>3, ArraysType
  <2>2. QED
    BY <1>2, <1>3, <2>1
<1>12. StateOK("returned", << >>, << >>, Null, Release(mem, vs), 0,
               [kind |-> "exception", value |-> NullValue])
  BY <1>1, <1>8, <1>9, AbandonOK
<1>13. QED
  BY <1>10, <1>11, <1>12

\* apply: the arguments given up are what the evaluator held, and the value goes
\* on the heap.
LEMMA AppliedOK ==
  ASSUME EvalInv, stage \in {"execute", "walk"}, NEW it \in CompletedItems,
         NEW args \in Seq(Nat), args # << >>, Len(args) = Arity(it),
         NEW stk \in Seq(GoodFrames), NEW hp \in Seq(Nat),
         \A v \in Nat : Own(stk, Null, hp, v) + Occurrences(v, args)
                        = Own(stack, walk, heap, v),
         BalancedAt(stk, Len(hp) + 1), NEW ar, ar = ArraysOf(stk)
  PROVE  LET new == AppliedTo(it, args) IN
         StateOK("execute", stk, Append(hp, new.value), Null, Release(new.mem, args),
                 ar, NoOutcome)
<1> DEFINE a == AlternativeOf(it)
           new == Applied(a, it.rule, it.alt, mem, args)
           x == new.value
           hp2 == Append(hp, x)
           one == <<x>>
           H == Holding3(stack, walk, heap, NullValue)
           O == Holding3(stk, Null, hp2, NullValue)
           left == Release(new.mem, args)
<1>1. /\ ChartInv /\ stack \in Seq(GoodFrames) /\ heap \in Seq(Nat)
      /\ PartialOf(walk) \in Seq(Int) /\ MemSound(mem, H)
      /\ Len(tokens) \in Nat /\ Len(mem) \in Nat /\ Len(mem) >= Len(tokens)
  BY Running
<1>2. it \in Items
  BY DEF CompletedItems
<1>3. /\ a \in Alternatives /\ it.rule \in Names /\ it.alt \in Nat
      /\ Len(args) = Len(a.symbols) /\ args \in Seq(Int)
  BY <1>1, <1>2, ItemFacts DEF Arity
<1>4. ASSUME NEW v \in Nat
      PROVE  /\ Occurrences(v, args) \in Nat /\ Own(stk, Null, hp, v) \in Nat
             /\ Own(stack, walk, heap, v) \in Nat
  BY <1>1, <1>3, NoPartial, OccurrencesType, OwnType
<1>5. HeldToo(args, H)
  <2>1. /\ NullValue \in Nat /\ ChartInv /\ stack \in Seq(GoodFrames) /\ heap \in Seq(Nat)
        /\ PartialOf(walk) \in Seq(Int)
    BY <1>1 DEF NullValue
  <2>2. ASSUME NEW v \in Nat, Occurrences(v, args) # 0
        PROVE  Occurrences(v, H) # 0
    <3>1. /\ Occurrences(v, H)
               = (((Occurrences(v, TokensOf(Len(tokens))) + Occurrences(v, HeldBy(stack)))
                   + Occurrences(v, PartialOf(walk))) + Occurrences(v, heap))
                 + Occurrences(v, <<NullValue>>)
          /\ Occurrences(v, TokensOf(Len(tokens))) \in Nat
          /\ Occurrences(v, HeldBy(stack)) \in Nat
          /\ Occurrences(v, PartialOf(walk)) \in Nat
          /\ Occurrences(v, heap) \in Nat
          /\ Occurrences(v, <<NullValue>>) \in Nat
      BY ONLY <2>1, HeldCount
    <3>2. Own(stack, walk, heap, v)
            = (Occurrences(v, HeldBy(stack)) + Occurrences(v, PartialOf(walk)))
              + Occurrences(v, heap)
      BY DEF Own
    <3>3. Own(stk, Null, hp, v) + Occurrences(v, args) = Own(stack, walk, heap, v)
      OBVIOUS
    <3>4. Occurrences(v, args) \in Nat /\ Own(stk, Null, hp, v) \in Nat
      BY <1>4
    <3> HIDE DEF H
    <3>5. Own(stk, Null, hp, v) + Occurrences(v, args) # 0
      BY ONLY <2>2, <3>4
    <3>6. (Occurrences(v, HeldBy(stack)) + Occurrences(v, PartialOf(walk)))
            + Occurrences(v, heap) # 0
      BY <3>2, <3>3, <3>5
    <3> DEFINE t == Occurrences(v, TokensOf(Len(tokens)))
               b == Occurrences(v, HeldBy(stack))
               c == Occurrences(v, PartialOf(walk))
               d == Occurrences(v, heap)
               z == Occurrences(v, <<NullValue>>)
    <3>7. Occurrences(v, H) = (((t + b) + c) + d) + z /\ (b + c) + d # 0
          /\ t \in Nat /\ b \in Nat /\ c \in Nat /\ d \in Nat /\ z \in Nat
      BY ONLY <3>1, <3>6
    <3> HIDE DEF t, b, c, d, z
    <3>8. (((t + b) + c) + d) + z # 0
      BY ONLY <3>7
    <3>9. QED
      BY ONLY <3>7, <3>8
  <2>3. QED
    BY <2>2 DEF HeldToo
<1> HIDE DEF a
<1>6. /\ x \in Nat /\ Len(new.mem) \in Nat /\ Len(new.mem) >= Len(mem)
  <2> HIDE DEF H
  <2>1. QED
    BY <1>1, <1>3, <1>5, ArgsGrown
<1>7. new = AppliedTo(it, args)
  BY DEF AppliedTo, a
<1> HIDE DEF new
<1>8. hp2 \in Seq(Nat) /\ Len(hp2) = Len(hp) + 1
      /\ \A v : Occurrences(v, hp2) = Occurrences(v, hp) + Occurrences(v, one)
  <2> HIDE DEF x
  <2>1. QED
    BY <1>6, HeapPush
<1>9. one \in Seq(Int) /\ PartialOf(Null) \in Seq(Int)
  BY <1>6, NoPartial
<1>10. Moves(stack, walk, heap, stk, Null, hp2, args, one)
  <2>1. SUFFICES ASSUME NEW v \in Nat
        PROVE  Own(stk, Null, hp2, v) + Occurrences(v, args)
                 = Own(stack, walk, heap, v) + Occurrences(v, one)
    BY DEF Moves
  <2> HIDE DEF one, hp2
  <2>2. /\ Occurrences(v, HeldBy(stk)) \in Nat /\ Occurrences(v, PartialOf(Null)) \in Nat
        /\ Occurrences(v, hp) \in Nat
    BY <1>1, <1>9, OwnType
  <2>3. Occurrences(v, one) \in Nat /\ Occurrences(v, args) \in Nat
    BY <1>3, <1>9, OccurrencesType
  <2>4. Own(stk, Null, hp, v) + Occurrences(v, args) = Own(stack, walk, heap, v)
        /\ Own(stack, walk, heap, v) \in Nat
    BY <1>4
  <2>5. Occurrences(v, hp2) = Occurrences(v, hp) + Occurrences(v, one)
    BY <1>8
  <2>6. Own(stk, Null, hp2, v) = Own(stk, Null, hp, v) + Occurrences(v, one)
    BY ONLY <2>2, <2>3, <2>5 DEF Own
  <2>7. Own(stk, Null, hp, v) \in Nat
    BY <1>4
  <2>8. QED
    BY ONLY <2>3, <2>4, <2>6, <2>7
<1> HIDE DEF one, hp2
<1>11. /\ O \in Seq(Int)
       /\ \A v \in Nat : /\ Occurrences(v, O) \in Nat /\ Occurrences(v, H) \in Nat
                         /\ Occurrences(v, O) + Occurrences(v, args)
                              = Occurrences(v, H) + Occurrences(v, one)
  <2>1. /\ ChartInv /\ stack \in Seq(GoodFrames) /\ heap \in Seq(Nat)
        /\ PartialOf(walk) \in Seq(Int) /\ PartialOf(Null) \in Seq(Int)
        /\ stk \in Seq(GoodFrames) /\ hp2 \in Seq(Nat)
        /\ args \in Seq(Int) /\ one \in Seq(Int)
    BY <1>1, <1>3, <1>8, <1>9
  <2>2. QED
    BY ONLY <1>10, <2>1, HeldMoves
<1>12. MemSound(left, O) /\ Len(left) \in Nat /\ Len(left) >= Len(mem)
  <2> HIDE DEF H, O
  <2>1. \A v \in Nat : Occurrences(v, O) + Occurrences(v, args)
                         = Occurrences(v, H) + Occurrences(v, one)
    BY <1>11
  <2>2. Exchanged(H, O, args, x)
    BY <2>1 DEF Exchanged, one
  <2>3. Exchanged(H, O, args, Applied(a, it.rule, it.alt, mem, args).value)
    BY <2>2 DEF new
  <2>4. MemSound(mem, H) /\ O \in Seq(Int)
    BY <1>1, <1>11
  <2>5. LET n == Applied(a, it.rule, it.alt, mem, args)
            l == Release(n.mem, args)
        IN  MemSound(l, O) /\ Len(l) \in Nat /\ Len(l) >= Len(mem)
    BY <1>3, <1>5, <2>3, <2>4, ApplySound
  <2>6. QED
    BY <2>5 DEF new
<1> HIDE DEF left
<1>13. Len(left) >= Len(tokens)
  BY <1>1, <1>12
<1>14. StateOK("execute", stk, hp2, Null, left, ar, NoOutcome)
  BY <1>8, <1>12, <1>13, ExecuteOK
<1>15. QED
  BY <1>7, <1>14 DEF hp2, left

\* The partial array of tokens is given up for the value.
LEMMA ApplyTokensStep ==
  ASSUME EvalInv, ApplyTokens
  PROVE  StateOK(stage', stack', heap', walk', mem', arrays', outcome')
<1> DEFINE new == AppliedTo(walk.item, walk.partial)
<1>1. /\ stage = "walk" /\ walk.pos = 0 /\ walk.slots = << >>
      /\ mem' = Release(new.mem, walk.partial) /\ heap' = Append(heap, new.value)
      /\ arrays' = arrays - 3 /\ walk' = Null /\ stage' = "execute"
      /\ stack' = stack /\ outcome' = outcome
  BY DEF ApplyTokens, Walked
<1>2. /\ ChartInv /\ outcome = NoOutcome
      /\ stack \in Seq(GoodFrames) /\ heap \in Seq(Nat)
      /\ arrays = ArraysOf(stack) + (IF walk = Null THEN 0 ELSE 3)
  BY <1>1, Running
<1>3. walk \in GoodWalks /\ walk # Null /\ BalancedAt(stack, Len(heap) + 1)
  BY <1>1 DEF EvalInv, StateOK
<1>4. /\ walk.item \in CompletedItems /\ PartialOf(walk) = walk.partial
      /\ walk.partial # << >> /\ Len(walk.partial) = Arity(walk.item)
      /\ walk.partial \in Seq(Int)
  BY <1>2, <1>3, WalkFields
<1>5. walk.partial \in Seq(Nat)
  BY <1>1, <1>2, <1>3, WalkedOpen
<1>6. ASSUME NEW v \in Nat
      PROVE  Own(stack, Null, heap, v) + Occurrences(v, walk.partial)
               = Own(stack, walk, heap, v)
  <2>1. Occurrences(v, PartialOf(walk)) = Occurrences(v, walk.partial)
        /\ Occurrences(v, PartialOf(Null)) = 0
    BY <1>4, NoPartial, OccurrencesNone
  <2>2. /\ Occurrences(v, HeldBy(stack)) \in Nat /\ Occurrences(v, PartialOf(Null)) \in Nat
        /\ Occurrences(v, heap) \in Nat
    BY <1>2, NoPartial, OwnType
  <2>3. Occurrences(v, walk.partial) \in Nat
    BY <1>4, OccurrencesType
  <2>4. QED
    BY ONLY <2>1, <2>2, <2>3 DEF Own
<1>7. arrays - 3 = ArraysOf(stack)
  <2>1. ArraysOf(stack) \in Nat
    BY <1>2, ArraysType
  <2>2. QED
    BY <1>2, <1>3, <2>1
<1>8. StateOK("execute", stack, Append(heap, new.value), Null,
              Release(new.mem, walk.partial), arrays - 3, NoOutcome)
  BY <1>1, <1>2, <1>3, <1>4, <1>5, <1>6, <1>7, AppliedOK
<1>9. QED
  BY <1>1, <1>2, <1>8

\* The filled array is given up for the value.
LEMMA ApplyStep ==
  ASSUME EvalInv, Apply
  PROVE  StateOK(stage', stack', heap', walk', mem', arrays', outcome')
<1> DEFINE new == AppliedTo(TopItem, TopArgs)
           front == Front(stack)
<1>1. /\ Executing("apply") /\ stage = "execute" /\ stage' = stage
      /\ mem' = Release(new.mem, TopArgs) /\ heap' = Append(HeapLeft, new.value)
      /\ arrays' = arrays - 2 /\ walk' = walk
      /\ stack' = front /\ outcome' = outcome
  BY DEF Apply, Executing
<1>2. /\ ChartInv /\ outcome = NoOutcome
      /\ stack \in Seq(GoodFrames) /\ heap \in Seq(Nat)
      /\ arrays = ArraysOf(stack) + (IF walk = Null THEN 0 ELSE 3)
  BY <1>1, Running
<1>3. /\ front \in Seq(GoodFrames) /\ walk = Null /\ TopItem \in CompletedItems
      /\ TopArgs \in Seq(Nat) /\ TopArgs # << >> /\ Len(TopArgs) = Arity(TopItem)
      /\ HeapLeft \in Seq(Nat)
      /\ \A v \in Nat :
           /\ Occurrences(v, TopArgs) \in Nat /\ Occurrences(v, HeapLeft) \in Nat
           /\ Occurrences(v, HeldBy(front)) \in Nat
           /\ (Occurrences(v, TopArgs) + Occurrences(v, HeapLeft))
                + Occurrences(v, HeldBy(front))
              = Occurrences(v, HeldBy(stack)) + Occurrences(v, heap)
      /\ ArraysOf(stack) = ArraysOf(front) + 2
      /\ BalancedAt(front, Len(HeapLeft) + 1)
  BY <1>1, ApplyPopped
<1> HIDE DEF front
<1>4. ASSUME NEW v \in Nat
      PROVE  Own(front, Null, HeapLeft, v) + Occurrences(v, TopArgs)
               = Own(stack, walk, heap, v)
  <2>1. /\ Occurrences(v, TopArgs) \in Nat /\ Occurrences(v, HeapLeft) \in Nat
        /\ Occurrences(v, HeldBy(front)) \in Nat
        /\ (Occurrences(v, TopArgs) + Occurrences(v, HeapLeft)) + Occurrences(v, HeldBy(front))
             = Occurrences(v, HeldBy(stack)) + Occurrences(v, heap)
    BY <1>3
  <2>2. Occurrences(v, PartialOf(Null)) = 0 /\ walk = Null
    BY <1>3, NoPartial, OccurrencesNone
  <2>3. Occurrences(v, HeldBy(stack)) \in Nat /\ Occurrences(v, heap) \in Nat
    BY <1>2, NoPartial, OwnType
  <2>4. QED
    BY ONLY <2>1, <2>2, <2>3 DEF Own
<1>5. arrays - 2 = ArraysOf(front)
  <2>1. ArraysOf(front) \in Nat
    BY <1>3, ArraysType
  <2>2. arrays = ArraysOf(stack) + 0 /\ ArraysOf(stack) = ArraysOf(front) + 2
    BY <1>2, <1>3
  <2>3. QED
    BY ONLY <2>1, <2>2
<1>6. StateOK("execute", front, Append(HeapLeft, new.value), Null,
              Release(new.mem, TopArgs), arrays - 2, NoOutcome)
  BY <1>1, <1>3, <1>4, <1>5, AppliedOK
<1>7. QED
  BY <1>1, <1>2, <1>3, <1>6

LEMMA ThrowAtTokensStep ==
  ASSUME EvalInv, ThrowAtTokens
  PROVE  StateOK(stage', stack', heap', walk', mem', arrays', outcome')
BY WalkAbandoned DEF ThrowAtTokens, Walked

LEMMA WalkAmbiguousStep ==
  ASSUME EvalInv, WalkAmbiguous
  PROVE  StateOK(stage', stack', heap', walk', mem', arrays', outcome')
BY WalkAbandoned DEF WalkAmbiguous, Walking

\* The one value left is the caller's now.
LEMMA AnswerStep ==
  ASSUME EvalInv, Answer
  PROVE  StateOK(stage', stack', heap', walk', mem', arrays', outcome')
<1> DEFINE x == Last(heap)
           out == [kind |-> "value", value |-> x]
           none == << >>
           H == Holding3(stack, Null, heap, NullValue)
           O == Holding3(stack, Null, none, x)
<1>1. /\ stage = "execute" /\ stack = << >> /\ stage' = "returned" /\ outcome' = out
      /\ heap' = << >> /\ stack' = stack /\ walk' = walk /\ mem' = mem /\ arrays' = arrays
  BY DEF Answer, Leaving
<1>2. /\ ChartInv /\ stack \in Seq(GoodFrames) /\ heap \in Seq(Nat)
      /\ arrays = ArraysOf(stack) + (IF walk = Null THEN 0 ELSE 3)
      /\ MemSound(mem, Holding3(stack, walk, heap, NullValue))
  BY <1>1, Running
<1>3. BalancedAt(stack, Len(heap)) /\ walk = Null
  BY <1>1 DEF EvalInv, StateOK
<1>4. Len(heap) = 1
  <2>1. Len(heap) \in Int
    BY <1>2
  <2>2. QED
    BY <1>1, <1>3, <2>1, BalancedEmpty
<1>5. heap # << >> /\ x = heap[1] /\ x \in Nat
  <2>1. x = heap[1]
    BY <1>4 DEF Last
  <2>2. DOMAIN heap = 1..1
    BY <1>2, <1>4
  <2>3. 1 \in 1..1
    OBVIOUS
  <2>4. heap[1] \in Nat
    <3>1. heap \in [1..Len(heap) -> Nat]
      BY <1>2
    <3>2. QED
      BY <1>4, <2>3, <3>1
  <2>5. QED
    BY <2>1, <2>2, <2>3, <2>4
<1> HIDE DEF x
<1>6. none \in Seq(Nat) /\ NullValue \in Nat /\ PartialOf(Null) \in Seq(Int) /\ NullValue = 0
      /\ \A v : Occurrences(v, none) = 0
  BY NoPartial, OccurrencesNone DEF NullValue
<1>7. \A v : Occurrences(v, heap) = Occurrences(v, <<x>>)
  <2>1. heap = <<x>>
    BY <1>2, <1>4, <1>5
  <2>2. QED
    BY <2>1
<1> HIDE DEF none
<1>8. O \in Seq(Int)
  BY <1>2, <1>5, <1>6, HeldCount
<1>9. ASSUME NEW v \in Nat, v > 0 PROVE Occurrences(v, O) = Occurrences(v, H)
  <2>1. /\ Occurrences(v, H)
             = (((Occurrences(v, TokensOf(Len(tokens))) + Occurrences(v, HeldBy(stack)))
                 + Occurrences(v, PartialOf(Null))) + Occurrences(v, heap))
               + Occurrences(v, <<NullValue>>)
        /\ Occurrences(v, TokensOf(Len(tokens))) \in Nat
        /\ Occurrences(v, HeldBy(stack)) \in Nat
        /\ Occurrences(v, PartialOf(Null)) \in Nat
        /\ Occurrences(v, heap) \in Nat
    BY <1>2, <1>6, HeldCount
  <2>2. Occurrences(v, O)
             = (((Occurrences(v, TokensOf(Len(tokens))) + Occurrences(v, HeldBy(stack)))
                 + Occurrences(v, PartialOf(Null))) + Occurrences(v, none))
               + Occurrences(v, <<x>>)
    BY <1>2, <1>5, <1>6, HeldCount
  <2>3. Occurrences(v, <<NullValue>>) = 0
    <3>1. Occurrences(v, <<NullValue>>) = IF NullValue = v THEN 1 ELSE 0
      BY OccurrencesOne
    <3>2. NullValue # v
      BY <1>6, <1>9
    <3>3. QED
      BY <3>1, <3>2
  <2>4. Occurrences(v, heap) = Occurrences(v, <<x>>) /\ Occurrences(v, none) = 0
    BY <1>6, <1>7
  <2> HIDE DEF H, O
  <2>5. \A t, a, b, c \in Nat : (((t + a) + b) + 0) + c = (((t + a) + b) + c) + 0
    OBVIOUS
  <2>6. QED
    BY <2>1, <2>2, <2>3, <2>4, <2>5
<1>10. Exact(mem, O)
  <2>1. Exact(mem, H)
    BY <1>2, <1>3, SoundFacts
  <2> HIDE DEF H, O
  <2>2. QED
    BY <1>8, <1>9, <2>1, SameExact
<1>11. out \in Outcomes /\ out.value = x
  BY <1>5 DEF Outcomes
<1>12. ArraysOf(stack) = 0
  BY <1>1, FS_EmptySet DEF ArraysOf
<1>13. StateOK("returned", << >>, << >>, Null, mem, 0, out)
  BY <1>1, <1>10, <1>11, ReturnedOK DEF none
<1>14. QED
  BY <1>1, <1>2, <1>3, <1>12, <1>13

\* Without values there is nothing to count.
LEMMA EmptyExact == \A holders \in Seq(Int) : Exact(<< >>, holders)
<1>1. << >> \in Seq(Cell) /\ DOMAIN << >> = {}
  OBVIOUS
<1>2. QED
  BY <1>1 DEF Exact, MemOK, Counted

\* Before __invoke nothing is held.
LEMMA Ready ==
  ASSUME EvalInv, stage = "ready"
  PROVE  /\ ChartInv /\ stack = << >> /\ heap = << >> /\ walk = Null /\ mem = << >>
         /\ arrays = 0 /\ outcome = NoOutcome
         /\ PartialOf(Null) \in Seq(Int) /\ << >> \in Seq(GoodFrames) /\ << >> \in Seq(Nat)
<1>1. /\ ChartInv /\ stack = << >> /\ heap = << >> /\ walk = Null /\ mem = << >>
      /\ outcome = NoOutcome
      /\ arrays = ArraysOf(stack) + (IF walk = Null THEN 0 ELSE 3)
  BY DEF EvalInv, StateOK
<1>2. ArraysOf(<< >>) = 0
  BY FS_EmptySet DEF ArraysOf
<1>3. QED
  BY <1>1, <1>2, NoPartial

\* __invoke leaves with nothing but an exception.
LEMMA NothingStep ==
  ASSUME EvalInv, InvokeNoMatch \/ InvokeAmbiguous
  PROVE  StateOK(stage', stack', heap', walk', mem', arrays', outcome')
<1>1. PICK kind \in {"nomatch", "ambiguity"} :
         /\ stage = "ready" /\ stage' = "returned" /\ stack' = stack /\ heap' = heap
         /\ walk' = walk /\ mem' = mem /\ arrays' = arrays
         /\ outcome' = [kind |-> kind, value |-> NullValue]
  BY DEF InvokeNoMatch, InvokeAmbiguous, Invoking, Leaving
<1> DEFINE none == << >>
           out == [kind |-> kind, value |-> NullValue]
<1>2. out \in Outcomes /\ out.value = NullValue /\ NullValue \in Nat
  BY DEF Outcomes, NullValue
<1>3. ChartInv /\ PartialOf(Null) \in Seq(Int) /\ none \in Seq(GoodFrames) /\ none \in Seq(Nat)
  BY <1>1, Ready
<1> HIDE DEF none
<1>4. Holding3(none, Null, none, NullValue) \in Seq(Int)
  BY <1>2, <1>3, HeldCount
<1>5. Exact(<< >>, Holding3(none, Null, none, NullValue))
  BY <1>4, EmptyExact
<1>6. StateOK("returned", << >>, << >>, Null, << >>, 0, out)
  BY <1>2, <1>5, ReturnedOK DEF none
<1>7. QED
  BY <1>1, <1>6, Ready

\* Execute begins with the tokens the chart holds and one frame.
LEMMA InvokeStep ==
  ASSUME EvalInv, Invoke
  PROVE  StateOK(stage', stack', heap', walk', mem', arrays', outcome')
<1> DEFINE it == Preferred(StartItems)
           f == SelectFrame(it)
           none == << >>
           stk == Append(none, f)
           m == TokenCells(Len(tokens))
           O == Holding3(stk, Null, none, NullValue)
<1>1. /\ stage = "ready" /\ stage' = "execute" /\ StartItems # << >>
      /\ stack' = <<f>> /\ mem' = m
      /\ heap' = heap /\ walk' = walk /\ arrays' = arrays /\ outcome' = outcome
  BY DEF Invoke, Invoking
<1>2. ChartInv /\ PartialOf(Null) \in Seq(Int) /\ none \in Seq(GoodFrames) /\ none \in Seq(Nat)
  BY <1>1, Ready
<1>3. it \in CompletedItems
  BY <1>1, <1>2, StartItemsIn, PreferredIn
<1>4. f \in GoodFrames /\ FrameSet(GoodFrames)
  BY <1>2, <1>3, GoodFrameSet
<1>5. f.kind = "select" /\ f.partial = << >> /\ f.slots = << >>
  BY SelectFields
<1>6. stk = <<f>>
  OBVIOUS
<1> HIDE DEF f
<1>7. Len(tokens) \in Nat /\ NullValue = 0 /\ NullValue \in Nat
  BY <1>2 DEF ChartInv, FullInv, Inv, TypeOK, NullValue
<1>8. HeldBy(none) = << >> /\ ArraysOf(none) = 0 /\ Len(none) = 0 /\ BalancedAt(none, 1)
  BY HeldEmpty, FS_EmptySet, BalancedEmpty DEF ArraysOf
<1>9. \A v : Occurrences(v, none) = 0 /\ Occurrences(v, PartialOf(Null)) = 0
  BY NoPartial, OccurrencesNone
<1>10. HeldBy(stk) = none
  <2> HIDE DEF none
  <2>1. HeldBy(stk) = HeldBy(none) \o f.partial
    BY <1>2, <1>4, HeldPush
  <2>2. QED
    BY <1>5, <1>8, <2>1 DEF none
<1>11. ArraysOf(stk) = 0
  <2> HIDE DEF none
  <2>1. ArraysOf(stk) = ArraysOf(none) + 0
    BY <1>2, <1>4, <1>5, ArraysPush
  <2>2. QED
    BY <1>8, <2>1
<1>12. BalancedAt(stk, 0)
  <2> HIDE DEF none
  <2>1. \A n \in Int : BalancedAt(stk, n)
          <=> BalancedAt(none, (n + 1) - Len(f.slots)) /\ n >= Len(f.slots)
    BY <1>2, <1>4, BalancedPush
  <2>2. Len(f.slots) = 0
    BY <1>5
  <2> HIDE DEF stk
  <2>3. \A n \in Int : BalancedAt(stk, n) <=> BalancedAt(none, (n + 1) - 0) /\ n >= 0
    BY <2>1, <2>2
  <2>4. ASSUME NEW n \in Int, n = 0 PROVE BalancedAt(stk, n)
    <3>1. (n + 1) - 0 = 1 /\ n >= 0
      BY <2>4
    <3>2. QED
      BY <1>8, <2>3, <3>1
  <2>5. QED
    BY <2>4
<1> HIDE DEF none
<1>13. stk \in Seq(GoodFrames)
  BY <1>2, <1>4
<1> HIDE DEF stk
<1>14. O \in Seq(Int)
  BY <1>2, <1>7, <1>13, HeldCount
<1>15. ASSUME NEW v \in Nat, v > 0
       PROVE  Occurrences(v, O) = IF v \in 1..Len(tokens) THEN 1 ELSE 0
  <2>1. /\ Occurrences(v, O)
             = (((Occurrences(v, TokensOf(Len(tokens))) + Occurrences(v, HeldBy(stk)))
                 + Occurrences(v, PartialOf(Null))) + Occurrences(v, none))
               + Occurrences(v, <<NullValue>>)
        /\ Occurrences(v, TokensOf(Len(tokens))) \in Nat
    BY <1>2, <1>7, <1>13, HeldCount
  <2>2. Occurrences(v, <<NullValue>>) = 0
    <3>1. Occurrences(v, <<NullValue>>) = IF NullValue = v THEN 1 ELSE 0
      BY OccurrencesOne
    <3>2. NullValue # v
      BY <1>7, <1>15
    <3>3. QED
      BY <3>1, <3>2
  <2>3. /\ Occurrences(v, HeldBy(stk)) = 0 /\ Occurrences(v, PartialOf(Null)) = 0
        /\ Occurrences(v, none) = 0
    BY <1>9, <1>10
  <2>4. Occurrences(v, TokensOf(Len(tokens))) = IF v \in 1..Len(tokens) THEN 1 ELSE 0
    BY <1>7, ChartTokens
  <2> HIDE DEF O
  <2>5. \A t \in Nat : (((t + 0) + 0) + 0) + 0 = t
    OBVIOUS
  <2>6. Occurrences(v, O) = Occurrences(v, TokensOf(Len(tokens)))
    BY <2>1, <2>2, <2>3, <2>5
  <2>7. QED
    BY <2>4, <2>6
<1>16. MemSound(m, O) /\ Len(m) = Len(tokens)
  <2> HIDE DEF O
  <2>1. QED
    BY <1>7, <1>14, <1>15, TokensExact
<1>17. Len(m) >= Len(tokens)
  BY <1>7, <1>16
<1> HIDE DEF m
<1>18. StateOK("execute", stk, none, Null, m, 0, NoOutcome)
  BY <1>2, <1>8, <1>11, <1>12, <1>13, <1>16, <1>17, ExecuteOK
<1>19. QED
  BY <1>1, <1>6, <1>18, Ready DEF none

LEMMA EvalInitial == EvalInit => EvalInv
<1> SUFFICES ASSUME EvalInit PROVE EvalInv
  OBVIOUS
<1>1. ChartInv
  BY InitChart DEF EvalInit
<1>2. /\ stage = "ready" /\ stack = << >> /\ heap = << >> /\ walk = Null /\ mem = << >>
      /\ arrays = 0 /\ outcome = NoOutcome
  BY DEF EvalInit, NoOutcome
<1> DEFINE none == << >>
<1>3. /\ none \in Seq(GoodFrames) /\ none \in Seq(Nat) /\ PartialOf(Null) \in Seq(Int)
      /\ NullValue \in Nat /\ NoOutcome \in Outcomes /\ NoOutcome.value = NullValue
      /\ ArraysOf(none) = 0
  BY NoPartial, FS_EmptySet DEF NullValue, NoOutcome, Outcomes, ArraysOf
<1> HIDE DEF none
<1>4. Holding3(none, Null, none, NullValue) \in Seq(Int)
  BY <1>1, <1>3, HeldCount
<1>5. Exact(<< >>, Holding3(none, Null, none, NullValue))
  BY <1>4, EmptyExact
<1>6. StateOK("ready", none, none, Null, << >>, 0, NoOutcome)
  BY <1>3, <1>5 DEF StateOK, none
<1>7. StateOK(stage, stack, heap, walk, mem, arrays, outcome)
  BY <1>2, <1>6 DEF none
<1>8. QED
  BY <1>1, <1>2, <1>7 DEF EvalInv

\* The chart is left alone once it is done: the state is read over the same one.
LEMMA SameChart ==
  ASSUME EvalInv, UNCHANGED vars, stage' # "ready" => pc = "done",
         StateOK(stage', stack', heap', walk', mem', arrays', outcome')
  PROVE  EvalInv'
<1>1. [Next]_vars
  OBVIOUS
<1>2. ChartInv'
  BY <1>1, NextChart DEF EvalInv
<1>3. /\ grammar' = grammar /\ tokens' = tokens /\ backs' = backs /\ pc' = pc
  BY DEF vars, tables
<1>4. StateOK(stage, stack, heap, walk, mem, arrays, outcome)'
  BY <1>3 DEF StateOK, GoodFrames, GoodWalks, CompletedItems, Items, Arity, AlternativeOf,
              Holding3
<1>5. QED
  BY <1>2, <1>3, <1>4 DEF EvalInv

\* The chart is built before __invoke has made anything.
LEMMA ConstructStep == ASSUME EvalInv, Construct PROVE EvalInv'
<1>1. Next /\ UNCHANGED evaluation
  BY DEF Construct
<1>2. pc # "done"
  BY <1>1, DoneStays DEF EvalInv
<1>3. stage = "ready"
  BY <1>2 DEF EvalInv
<1>4. ChartInv'
  BY <1>1, NextChart DEF EvalInv
<1>5. /\ stage' = "ready" /\ stack' = << >> /\ heap' = << >> /\ walk' = Null
      /\ mem' = << >> /\ arrays' = 0 /\ outcome' = NoOutcome
  BY <1>1, <1>3, Ready DEF evaluation
<1> DEFINE none == << >>
<1>6. /\ none \in Seq(GoodFrames)' /\ none \in Seq(Nat) /\ PartialOf(Null) \in Seq(Int)
      /\ NullValue \in Nat /\ NoOutcome \in Outcomes /\ NoOutcome.value = NullValue
      /\ ArraysOf(none) = 0
  BY NoPartial, FS_EmptySet DEF NullValue, NoOutcome, Outcomes, ArraysOf
<1> HIDE DEF none
<1>7. (Holding3(none, Null, none, NullValue) \in Seq(Int))'
  <2>1. (Len(tokens) \in Nat)'
    BY <1>4 DEF ChartInv, FullInv, Inv, TypeOK
  <2>2. none \in Seq(Int) /\ NullValue \in Int /\ HeldBy(none) \in Seq(Int)
    <3>1. none \in Seq(Int) /\ NullValue \in Int
      BY DEF none, NullValue
    <3>2. HeldBy(none) = none
      BY HeldEmpty DEF none
    <3>3. QED
      BY <3>1, <3>2
  <2>3. AllHolders(Len(tokens'), none, PartialOf(Null), none, NullValue) \in Seq(Int)
    BY <1>6, <2>1, <2>2, HoldersCount
  <2>4. QED
    BY <2>3 DEF Holding3
<1>8. Exact(<< >>, Holding3(none, Null, none, NullValue)')
  BY <1>7, EmptyExact
<1>9. StateOK(stage, stack, heap, walk, mem, arrays, outcome)'
  BY <1>5, <1>6, <1>8 DEF StateOK, none
<1>10. QED
  BY <1>4, <1>5, <1>9 DEF EvalInv

\* Every step keeps the inductive invariant.
LEMMA NextEval == EvalInv /\ [EvalNext]_<<vars, evaluation>> => EvalInv'
<1> SUFFICES ASSUME EvalInv, [EvalNext]_<<vars, evaluation>> PROVE EvalInv'
  OBVIOUS
<1> DEFINE After == StateOK(stage', stack', heap', walk', mem', arrays', outcome')
<1>1. CASE UNCHANGED <<vars, evaluation>>
  <2>1. After /\ (stage' # "ready" => pc = "done")
    BY <1>1 DEF EvalInv, evaluation
  <2>2. QED
    BY <1>1, <2>1, SameChart
<1>2. CASE Construct
  BY <1>2, ConstructStep
<1>3. CASE EvalStep
  <2>1. pc = "done"
    BY <1>3 DEF EvalInv, EvalStep, InvokeNoMatch, InvokeAmbiguous, Invoke, Invoking,
       SelectEmpty, Select, WalkToken, WalkChild, WalkAmbiguous, Queue, ApplyTokens,
       ThrowAtTokens, Apply, Throw, Answer, Executing, Walking, Walked
  <2>2. UNCHANGED vars
    BY <1>3 DEF EvalStep, InvokeNoMatch, InvokeAmbiguous, Invoke, SelectEmpty, Select,
       WalkToken, WalkChild, WalkAmbiguous, Queue, ApplyTokens, ThrowAtTokens, Apply,
       Throw, Answer
  <2>3. After
    <3> HIDE DEF After
    <3>1. CASE InvokeNoMatch \/ InvokeAmbiguous
      BY <3>1, NothingStep DEF After
    <3>2. CASE Invoke
      BY <3>2, InvokeStep DEF After
    <3>3. CASE SelectEmpty
      BY <3>3, SelectEmptyStep DEF After
    <3>4. CASE Select
      BY <3>4, SelectStep DEF After
    <3>5. CASE WalkToken
      BY <3>5, WalkTokenStep DEF After
    <3>6. CASE WalkChild
      BY <3>6, WalkChildStep DEF After
    <3>7. CASE WalkAmbiguous
      BY <3>7, WalkAmbiguousStep DEF After
    <3>8. CASE Queue
      BY <3>8, QueueStep DEF After
    <3>9. CASE ApplyTokens
      BY <3>9, ApplyTokensStep DEF After
    <3>10. CASE ThrowAtTokens
      BY <3>10, ThrowAtTokensStep DEF After
    <3>11. CASE Apply
      BY <3>11, ApplyStep DEF After
    <3>12. CASE Throw
      BY <3>12, ThrowStep DEF After
    <3>13. CASE Answer
      BY <3>13, AnswerStep DEF After
    <3>14. QED
      BY <1>3, <3>1, <3>2, <3>3, <3>4, <3>5, <3>6, <3>7, <3>8, <3>9, <3>10, <3>11, <3>12,
         <3>13 DEF EvalStep
  <2>4. QED
    BY <2>1, <2>2, <2>3, SameChart
<1>4. QED
  BY <1>1, <1>2, <1>3 DEF EvalNext

-----------------------------------------------------------------------------
(* The invariant holds, and what follows from it                           *)

LEMMA Always == EvalSpec => []EvalInv
<1>1. EvalInit => EvalInv
  BY EvalInitial
<1>2. EvalInv /\ [EvalNext]_<<vars, evaluation>> => EvalInv'
  BY NextEval
<1>3. QED
  BY <1>1, <1>2, PTL DEF EvalSpec

LEMMA InvType == EvalInv => EvalTypeOK
<1> SUFFICES ASSUME EvalInv PROVE EvalTypeOK
  OBVIOUS
<1>1. /\ stage \in {"ready", "execute", "walk", "returned"}
      /\ stage = "walk" <=> walk # Null
      /\ stack \in Seq(GoodFrames) /\ heap \in Seq(Nat) /\ outcome \in Outcomes
      /\ walk # Null => walk \in GoodWalks
      /\ arrays = ArraysOf(stack) + (IF walk = Null THEN 0 ELSE 3)
      /\ Exact(mem, Holding3(stack, walk, heap, outcome.value))
  BY DEF EvalInv, StateOK
<1>2. stack \in Seq(Frame)
  <2>1. GoodFrames \subseteq Frame
    BY DEF GoodFrames
  <2>2. QED
    BY <1>1, <2>1
<1>3. walk \in Walk \cup {Null}
  BY <1>1 DEF GoodWalks
<1>4. mem \in Seq(Cell)
  BY <1>1 DEF Exact, MemOK
<1>5. arrays \in Nat
  <2>1. ArraysOf(stack) \in Nat
    BY <1>1, GoodFrameSet, ArraysType
  <2>2. QED
    BY <1>1, <2>1
<1>6. QED
  BY <1>1, <1>2, <1>3, <1>4, <1>5 DEF EvalTypeOK, Outcomes

LEMMA InvOwnership == EvalInv => OwnershipExact
<1> SUFFICES ASSUME EvalInv PROVE OwnershipExact
  OBVIOUS
<1>1. /\ Exact(mem, Holding3(stack, walk, heap, outcome.value))
      /\ arrays = ArraysOf(stack) + (IF walk = Null THEN 0 ELSE 3)
  BY DEF EvalInv, StateOK
<1>2. Holders = Holding3(stack, walk, heap, outcome.value)
  BY DEF Holders, WalkPartial, Holding3, AllHolders, TokensOf, PartialOf
<1>3. Counted(mem, Holders)
  BY <1>1, <1>2 DEF Exact
<1>4. QED
  BY <1>1, <1>3 DEF OwnershipExact

LEMMA InvOneResult == EvalInv => OneResult
  BY BalancedIs DEF EvalInv, StateOK, OneResult

\* What is chosen from is of the grammar.
LEMMA CandidatesOK ==
  ASSUME EvalInv, Candidates # << >>
  PROVE  /\ Candidates \in Seq(Items \cup {Null})
         /\ \A it \in Items \cup {Null} : Ranked(it)
<1> DEFINE T == Items \cup {Null}
<1>1. ChartInv
  BY DEF EvalInv
<1>2. \A it \in T : Ranked(it)
  BY <1>1, ItemFacts DEF Ranked
<1>3. CASE Invoking
  <2>1. Candidates \in Seq(CompletedItems)
    BY <1>1, <1>3, StartItemsIn DEF Candidates
  <2>2. CompletedItems \subseteq T
    BY DEF CompletedItems
  <2>3. QED
    BY <1>2, <2>1, <2>2
<1>4. CASE ~ Invoking
  <2>1. Walking /\ Candidates = ChildrenOf(WalkBacks)
    BY <1>4 DEF Candidates
  <2> DEFINE bs == WalkBacks
  <2>2. bs \in Seq(Back) /\ \A b \in Range(bs) : BackOK(walk.cur, b)
    BY <2>1, WalkOver
  <2> HIDE DEF bs
  <2>3. ASSUME NEW n \in DOMAIN bs PROVE bs[n].child \in T
    <3>1. bs[n] \in Range(bs)
      BY <2>3 DEF Range
    <3>2. BackOK(walk.cur, bs[n])
      BY <2>2, <3>1
    <3>3. QED
      BY <3>2 DEF BackOK
  <2>4. /\ DOMAIN bs = 1..Len(bs) /\ Len(bs) \in Nat
    BY <2>2
  <2> HIDE DEF T
  <2>5. ChildrenOf(bs) \in Seq(T)
    BY <2>3, <2>4 DEF ChildrenOf
  <2>6. QED
    BY <1>2, <2>1, <2>5 DEF bs, T
<1>5. QED
  BY <1>3, <1>4

\* The greatest and the least member of a set are the only ones.
LEMMA GreatestOf ==
  ASSUME NEW S, NEW m \in S, \A x \in S : x <= m, S \in SUBSET Nat
  PROVE  Max(S) = m
<1>1. Max(S) = CHOOSE x \in S : \A y \in S : x >= y
  BY DEF Max
<1>2. \A x \in S : (\A y \in S : x >= y) <=> x = m
  OBVIOUS
<1>3. QED
  BY <1>1, <1>2

LEMMA SmallestOf ==
  ASSUME NEW S, NEW m \in S, \A x \in S : x >= m, S \in SUBSET Nat
  PROVE  Min(S) = m
<1>1. Min(S) = CHOOSE x \in S : \A y \in S : x <= y
  BY DEF Min
<1>2. \A x \in S : (\A y \in S : x <= y) <=> x = m
  OBVIOUS
<1>3. QED
  BY <1>1, <1>2

\* The candidates are of the grammar and the first has a rank, so PreferredBest
\* says which of them is chosen.
LEMMA InvChoice == EvalInv => ChoiceIsBest
<1> DEFINE its == Candidates
           T == Items \cup {Null}
           c == Preferred(its)
           peers == {it \in Range(its) : Rank(it) = Rank(c)}
           lefts == {it \in peers : AlternativeOf(it).associativity = "left"}
           origins == {it.origin : it \in peers}
<1> SUFFICES ASSUME EvalInv, Len(its) > 1, ~ Undecided(its)
             PROVE  /\ Rank(c) > LongMin
                    /\ \A it \in Range(its) : Rank(it) <= Rank(c)
                    /\ lefts = peers => c.origin = Max(origins)
                    /\ lefts = {} => c.origin = Min(origins)
  BY DEF ChoiceIsBest
<1>1. its # << >>
  OBVIOUS
<1>2. its \in Seq(T) /\ \A it \in T : Ranked(it)
  BY <1>1, CandidatesOK
<1> HIDE DEF its, T
<1>3. Len(its) \in Nat /\ DOMAIN its = 1..Len(its) /\ Head(its) = its[1]
  BY <1>1, <1>2
<1>4. Rank(its[1]) # LongMin
  BY <1>3 DEF Undecided
<1>5. BestAmong(its, Len(its), c)
  BY <1>1, <1>2, <1>4, PreferredBest
<1> HIDE DEF c
<1>6. \A it : it \in Range(its) <=> \E k \in 1..Len(its) : it = its[k]
  BY <1>3 DEF Range
<1>7. /\ c \in Range(its) /\ Rank(c) > LongMin
      /\ \A it \in Range(its) : Rank(it) <= Rank(c)
  BY <1>5, <1>6 DEF BestAmong
<1>8. \A it \in peers : it \in T
  BY <1>2, <1>3, <1>6
<1>9. \A it \in peers : it.origin \in Nat
  <2>1. \A it \in peers : Ranked(it) /\ Rank(it) > LongMin
    BY <1>2, <1>7, <1>8
  <2>2. QED
    BY <2>1, RankType
<1>10. c \in peers /\ origins \in SUBSET Nat /\ c.origin \in origins
  BY <1>7, <1>9
<1>11. \A it : it \in peers <=> \E k \in 1..Len(its) : it = its[k] /\ Rank(its[k]) = Rank(c)
  BY <1>6
<1>12. \A k \in 1..Len(its) : Rank(its[k]) = Rank(c) => its[k] \in peers
  BY <1>11
<1>13. ASSUME lefts = peers PROVE c.origin = Max(origins)
  <2>1. \A k \in 1..Len(its) : Rank(its[k]) = Rank(c) => Lefty(its[k])
    BY <1>12, <1>13 DEF Lefty
  <2>2. \A k \in 1..Len(its) : Rank(its[k]) = Rank(c) => its[k].origin <= c.origin
    BY <1>5, <2>1 DEF BestAmong
  <2>3. \A it \in peers : it.origin <= c.origin
    BY <1>11, <2>2
  <2>4. \A x \in origins : x <= c.origin
    BY <2>3
  <2> HIDE DEF origins
  <2>5. QED
    BY <1>10, <2>4, GreatestOf
<1>14. ASSUME lefts = {} PROVE c.origin = Min(origins)
  <2>1. \A k \in 1..Len(its) : Rank(its[k]) = Rank(c) => ~ Lefty(its[k])
    BY <1>12, <1>14 DEF Lefty
  <2>2. \A k \in 1..Len(its) : Rank(its[k]) = Rank(c) => its[k].origin >= c.origin
    BY <1>5, <2>1 DEF BestAmong
  <2>3. \A it \in peers : it.origin >= c.origin
    BY <1>11, <2>2
  <2>4. \A x \in origins : x >= c.origin
    BY <2>3
  <2> HIDE DEF origins
  <2>5. QED
    BY <1>10, <2>4, SmallestOf
<1>15. QED
  BY <1>7, <1>13, <1>14

-----------------------------------------------------------------------------
(* The theorems                                                            *)

\* Whatever the chart is made of and the actions of the context return, every
\* variable of the evaluator keeps to its type.
THEOREM EvaluatorTypeCorrect == EvalSpec => []EvalTypeOK
<1>1. EvalInv => EvalTypeOK
  BY InvType
<1>2. QED
  BY <1>1, Always, PTL

\* The references of execute: in every state the count of every value is the
\* number of its holders, and the arrays allocated are those of the frames and
\* the walk, on every path by which execute leaves.
THEOREM OwnershipCorrect == EvalSpec => []OwnershipExact
<1>1. EvalInv => OwnershipExact
  BY InvOwnership
<1>2. QED
  BY <1>1, Always, PTL

\* The stack and the heap of execute: the frames still to run find their values
\* on the heap and leave one.
THEOREM ResultCorrect == EvalSpec => []OneResult
<1>1. EvalInv => OneResult
  BY InvOneResult
<1>2. QED
  BY <1>1, Always, PTL

\* The loops of __invoke and select over what the chart has merged choose by
\* priority and then by associativity, in whichever order the items come.
THEOREM ChoiceCorrect == EvalSpec => []ChoiceIsBest
<1>1. EvalInv => ChoiceIsBest
  BY InvChoice
<1>2. QED
  BY <1>1, Always, PTL

-----------------------------------------------------------------------------
(* The order of the values on the heap                                     *)

\* The span of every item.
Extents == [it \in Items |-> <<it.origin, it.pos>>]

\* It begins no later than it ends.
LEMMA ExtentIs ==
  ASSUME ChartInv, NEW it \in Items
  PROVE  /\ Extents[it] \in Span /\ Extents[it][1] = it.origin /\ Extents[it][2] = it.pos
         /\ it.origin \in Nat /\ it.pos \in Nat /\ it.origin <= it.pos
<1>1. it \in Item
  BY ItemFacts
<1>2. it.origin \in Nat /\ it.pos \in Nat
  BY <1>1 DEF Item
<1>3. it.origin <= it.pos
  BY DEF ChartInv, FullInv, Forward
<1>4. Extents[it] = <<it.origin, it.pos>>
  BY DEF Extents
<1>5. QED
  BY <1>2, <1>3, <1>4 DEF Span

\* Where the item before and the symbol passed lie.
BackAt(it, b) ==
  /\ b.prev.origin = it.origin
  /\ b.token = -1 => b.child.origin = b.prev.pos /\ b.child.pos = it.pos
  /\ b.token # -1 => b.token = b.prev.pos /\ it.pos = b.prev.pos + 1

\* add was given the back pointer by an item that ends where the symbol begins.
LEMMA BackPlaced ==
  ASSUME ChartInv, NEW it \in Items, it.dot > 0, NEW b \in Range(backs[it])
  PROVE  BackAt(it, b)
<1> DEFINE e == <<it, b>>
<1>1. e \in Drawn
  BY DEF Drawn, Edges
<1>2. e[1] = it /\ e[2] = b
  OBVIOUS
<1>3. DrawnBy(e)
  BY <1>1 DEF ChartInv, FullInv, EdgesDue
<1> HIDE DEF e
<1>4. Items \in SUBSET Item
  BY InvItems DEF ChartInv, FullInv
<1>5. CASE \E w, c \in Items : Abs!Joins(w, c) /\ e = Joined(w, c)
  <2>1. PICK w \in Items, c \in Items : Abs!Joins(w, c) /\ e = Joined(w, c)
    BY <1>5
  <2>2. it = Advanced(w, c.pos) /\ b = ChildBack(w, c)
    BY <1>2, <2>1 DEF Joined
  <2>3. w.pos = c.origin
    BY <2>1, SameRules
  <2>4. it.origin = w.origin /\ it.pos = c.pos /\ b.prev = w /\ b.child = c /\ b.token = -1
    BY <2>2 DEF Advanced, ChildBack
  <2>5. QED
    BY <2>3, <2>4 DEF BackAt
<1>6. CASE \E w \in Items : Abs!Shifts(w) /\ e = Shifted(w)
  <2>1. PICK w \in Items : Abs!Shifts(w) /\ e = Shifted(w)
    BY <1>6
  <2>2. it = Advanced(w, w.pos + 1) /\ b = TokenBack(w, w.pos)
    BY <1>2, <2>1 DEF Shifted
  <2>3. w.pos \in Nat
    BY <1>4 DEF Item
  <2>4. it.origin = w.origin /\ it.pos = w.pos + 1 /\ b.prev = w /\ b.token = w.pos
    BY <2>2 DEF Advanced, TokenBack
  <2>5. b.token # -1
    BY <2>3, <2>4
  <2>6. QED
    BY <2>4, <2>5 DEF BackAt
<1>7. QED
  BY <1>3, <1>5, <1>6 DEF DrawnBy

\* The children found so far lie between where the walk is and the end of the item, each
\* before the ones found earlier.
WalkIn(w) ==
  /\ w.cur.origin = w.item.origin /\ w.cur.pos <= w.item.pos
  /\ \A t \in DOMAIN w.items : w.cur.pos <= w.items[t].origin /\ w.items[t].pos <= w.item.pos
  /\ \A t, u \in DOMAIN w.items : t < u => w.items[u].pos <= w.items[t].origin

\* The tokens found so far lie in the span of the item.
WalkLies(m, w) ==
  \A k \in DOMAIN w.partial : w.partial[k] # Undef => Lies(m, w.partial[k], Extents[w.item])

\* A step back: the item before starts where the item does and ends no later.
LEMMA PrevPlaced ==
  ASSUME ChartInv, NEW it \in Items, NEW b, BackOK(it, b), BackAt(it, b)
  PROVE  b.prev.origin = it.origin /\ b.prev.pos <= it.pos
         /\ b.prev.pos \in Nat /\ it.pos \in Nat
<1>1. b.prev \in Items
  BY DEF BackOK
<1>2. b.prev.origin = it.origin /\ b.prev.pos \in Nat /\ it.pos \in Nat
  BY <1>1, ExtentIs DEF BackAt
<1>3. CASE b.token = -1
  <2>1. b.child \in Items
    BY <1>3 DEF BackOK
  <2>2. b.child.origin <= b.child.pos
    BY <2>1, ExtentIs
  <2>3. b.child.origin = b.prev.pos /\ b.child.pos = it.pos
    BY <1>3 DEF BackAt
  <2>4. QED
    BY <1>2, <2>2, <2>3
<1>4. CASE b.token # -1
  <2>1. it.pos = b.prev.pos + 1
    BY <1>4 DEF BackAt
  <2>2. QED
    BY <1>2, <2>1
<1>5. QED
  BY <1>3, <1>4

\* A walk over a token, and one over a child, stays in the item.
LEMMA TokenWalkIn ==
  ASSUME ChartInv, NEW w \in GoodWalks, WalkIn(w), NEW b, BackOK(w.cur, b), BackAt(w.cur, b),
         NEW x
  PROVE  WalkIn(TokenWalk(w, b, x))
<1> DEFINE w2 == TokenWalk(w, b, x)
<1>1. w \in Walk /\ w.cur \in Items /\ w.item \in Items /\ w.items \in Seq(CompletedItems)
  BY WalkFields DEF CompletedItems
<1>2. w2.item = w.item /\ w2.cur = b.prev /\ w2.items = w.items
  BY <1>1, WalkUpdated
<1>3. /\ b.prev.origin = w.cur.origin /\ b.prev.pos <= w.cur.pos
      /\ b.prev.pos \in Nat /\ w.cur.pos \in Nat
  BY <1>1, PrevPlaced
<1>4. w.item.pos \in Nat
  BY <1>1, ExtentIs
<1>5. b.prev.origin = w.item.origin /\ b.prev.pos <= w.item.pos
  BY <1>3, <1>4 DEF WalkIn
<1>6. ASSUME NEW t \in DOMAIN w.items
      PROVE  b.prev.pos <= w.items[t].origin /\ w.items[t].pos <= w.item.pos
  <2>1. w.cur.pos <= w.items[t].origin /\ w.items[t].pos <= w.item.pos
    BY DEF WalkIn
  <2>2. w.items[t] \in CompletedItems
    BY <1>1, ElementOfSeq
  <2>3. w.items[t].origin \in Nat
    BY <2>2, ExtentIs DEF CompletedItems
  <2>4. QED
    BY <1>3, <2>1, <2>3
<1>7. \A t, u \in DOMAIN w.items : t < u => w.items[u].pos <= w.items[t].origin
  BY DEF WalkIn
<1> HIDE DEF w2
<1>8. WalkIn(w2)
  BY <1>2, <1>5, <1>6, <1>7 DEF WalkIn
<1>9. QED
  BY <1>8 DEF w2

LEMMA ChildWalkIn ==
  ASSUME ChartInv, NEW w \in GoodWalks, WalkIn(w), NEW b, BackOK(w.cur, b), BackAt(w.cur, b),
         b.token = -1
  PROVE  WalkIn(ChildWalk(w, b))
<1> DEFINE w2 == ChildWalk(w, b)
           c == b.child
           more == Append(w.items, c)
           n == Len(w.items)
<1>1. w \in Walk /\ w.cur \in Items /\ w.item \in Items /\ w.items \in Seq(CompletedItems)
  BY WalkFields DEF CompletedItems
<1>2. w2.item = w.item /\ w2.cur = b.prev /\ w2.items = more
  <2>1. w2 = [item |-> w.item, cur |-> b.prev, pos |-> w.pos - 1, partial |-> w.partial,
              slots |-> Append(w.slots, w.pos), items |-> more]
    BY <1>1, WalkUpdated
  <2> HIDE DEF w2, more
  <2>2. QED
    BY <2>1
<1>3. /\ b.prev.origin = w.cur.origin /\ b.prev.pos <= w.cur.pos
      /\ b.prev.pos \in Nat /\ w.cur.pos \in Nat
  BY <1>1, PrevPlaced
<1>4. w.item.pos \in Nat
  BY <1>1, ExtentIs
<1>5. b.prev.origin = w.item.origin /\ b.prev.pos <= w.item.pos /\ w.cur.pos <= w.item.pos
  BY <1>3, <1>4 DEF WalkIn
<1>6. c.origin = b.prev.pos /\ c.pos = w.cur.pos
  BY DEF BackAt
<1> HIDE DEF c
<1>7. /\ n \in Nat /\ DOMAIN w.items = 1..n /\ DOMAIN more = 1..(n + 1)
      /\ \A t \in 1..n : more[t] = w.items[t]
      /\ more[n + 1] = c
  BY <1>1
<1> HIDE DEF more, n
<1>8. ASSUME NEW t \in 1..n
      PROVE  /\ b.prev.pos <= more[t].origin /\ more[t].pos <= w.item.pos
             /\ w.cur.pos <= more[t].origin
  <2>1. w.cur.pos <= w.items[t].origin /\ w.items[t].pos <= w.item.pos
    BY <1>7 DEF WalkIn
  <2>2. w.items[t] \in CompletedItems
    BY <1>1, <1>7, ElementOfSeq
  <2>3. w.items[t].origin \in Nat
    BY <2>2, ExtentIs DEF CompletedItems
  <2>4. QED
    BY <1>3, <1>7, <2>1, <2>3
<1>9. ASSUME NEW t \in 1..(n + 1)
      PROVE  b.prev.pos <= more[t].origin /\ more[t].pos <= w.item.pos
  <2>1. CASE t = n + 1
    BY <1>3, <1>5, <1>6, <1>7, <2>1
  <2>2. CASE t # n + 1
    <3>1. t \in 1..n
      BY <1>7, <2>2
    <3>2. QED
      BY <1>8, <3>1
  <2>3. QED
    BY <2>1, <2>2
<1>10. ASSUME NEW t \in 1..(n + 1), NEW u \in 1..(n + 1), t < u
       PROVE  more[u].pos <= more[t].origin
  <2>1. t \in 1..n
    BY <1>7, <1>10
  <2>2. CASE u = n + 1
    BY <1>6, <1>7, <1>8, <2>1, <2>2
  <2>3. CASE u # n + 1
    <3>1. u \in 1..n
      BY <1>7, <2>3
    <3>2. w.items[u].pos <= w.items[t].origin
      BY <1>7, <1>10, <2>1, <3>1 DEF WalkIn
    <3>3. QED
      BY <1>7, <2>1, <3>1, <3>2
  <2>4. QED
    BY <2>2, <2>3
<1> HIDE DEF w2
<1>11. WalkIn(w2)
  BY <1>2, <1>5, <1>7, <1>9, <1>10 DEF WalkIn
<1>12. QED
  BY <1>11 DEF w2

\* The tokens come first in memory, and the heap is laid over spans the frames of the
\* stack, run one after another, take off and leave.
OrderedIn(stk, hp, m) ==
  /\ TokensFirst(m, Len(tokens))
  /\ \E h : Laid(m, hp, h) /\ RunsOver(m, Extents, stk, h)

\* A walk gives way to frames that leave a value in the span of its item.
OrderedWalk(w, stk, hp, m) ==
  /\ TokensFirst(m, Len(tokens))
  /\ WalkIn(w) /\ WalkLies(m, w)
  /\ \E h : /\ Laid(m, hp, h)
            /\ \A k \in 1..Len(h) : h[k][2] <= Extents[w.item][1]
            /\ RunsOver(m, Extents, stk, Append(h, Extents[w.item]))

\* What the order of the values is in each stage.
Ordered ==
  /\ stage = "execute" => OrderedIn(stack, heap, mem)
  /\ stage = "walk" => OrderedWalk(walk, stack, heap, mem)

\* The invariant.
OrderInv == EvalInv /\ Ordered

\* Memory as the invariant has it after a step.
LEMMA MemoryAfter ==
  ASSUME EvalInv' PROVE MemOK(mem') /\ heap' \in Seq(Nat)
  BY DEF EvalInv, StateOK, Exact

\* A value that lies somewhere is a number.
LEMMA LiesNumber ==
  ASSUME NEW m, MemOK(m), NEW v, NEW s, Lies(m, v, s)
  PROVE  v \in Nat
BY DEF Lies, MemOK

\* The frame on top gives a value in the span of its item.
LEMMA FrameDone ==
  ASSUME EvalInv, stage = "execute", stack # << >>, OrderedIn(stack, heap, mem),
         NEW new, Kept(mem, new),
         NEW v \in Nat, Lies(new, v, Extents[Last(stack).item])
  PROVE  OrderedIn(Front(stack), Append(Popped(heap, Len(Last(stack).slots)), v), new)
<1> DEFINE f == Last(stack)
           s == Extents[f.item]
           low == Front(stack)
<1>1. ChartInv /\ stack \in Seq(GoodFrames) /\ heap \in Seq(Nat)
  BY Running
<1>2. f \in GoodFrames /\ low \in Seq(GoodFrames)
  BY <1>1, LastFront
<1>3. f.item \in Items /\ f.slots \in Seq(Nat)
  BY <1>2 DEF GoodFrames, Frame, CompletedItems
<1>4. s \in Span
  BY <1>1, <1>3, ExtentIs
<1>5. PICK h : Laid(mem, heap, h) /\ RunsOver(mem, Extents, stack, h)
  BY DEF OrderedIn
<1>6. /\ Finds(mem, f, s, h) /\ RunsOver(mem, Extents, low, Leaves(f, s, h))
  BY <1>1, <1>5, RunsPop
<1> HIDE DEF f, s, low
<1>7. RunsOver(new, Extents, low, Leaves(f, s, h))
  BY <1>6, RunsKept
<1>8. Laid(new, Append(Popped(heap, Len(f.slots)), v), Leaves(f, s, h))
  <2>1. Lies(new, v, s)
    BY DEF s, f
  <2>2. QED
    BY <1>1, <1>3, <1>4, <1>5, <1>6, <2>1, LaidOn
<1>9. TokensFirst(new, Len(tokens))
  BY TokensFirstKept DEF OrderedIn
<1>10. QED
  BY <1>7, <1>8, <1>9 DEF OrderedIn, f, low

\* What is applied to values in the span of an item leaves a value there.
LEMMA AppliedOrder ==
  ASSUME ChartInv, MemOK(mem), NEW it \in CompletedItems,
         NEW args \in Seq(Nat), args # << >>, Len(args) = Arity(it),
         \A k \in DOMAIN args : Lies(mem, args[k], Extents[it]),
         NEW new, new = AppliedTo(it, args), MemOK(Release(new.mem, args))
  PROVE  /\ Kept(mem, Release(new.mem, args))
         /\ Lies(Release(new.mem, args), new.value, Extents[it])
         /\ new.value \in Nat
<1> DEFINE a == AlternativeOf(it)
           s == Extents[it]
           left == Release(new.mem, args)
<1>1. /\ a \in Alternatives /\ it.rule \in Names /\ it.alt \in Nat
      /\ Len(args) = Len(a.symbols)
  BY ItemFacts DEF CompletedItems, Arity
<1>2. new = Applied(a, it.rule, it.alt, mem, args)
  BY DEF AppliedTo
<1>3. MemOK(left)
  OBVIOUS
<1> HIDE DEF a, s
<1>4. \A k \in DOMAIN args : Lies(mem, args[k], s)
  BY DEF s
<1>5. Kept(mem, new.mem) /\ Lies(new.mem, new.value, s)
  BY <1>1, <1>2, <1>4, AppliedLies
<1>6. MemOK(new.mem)
  BY <1>5 DEF Kept
<1>7. Kept(new.mem, left)
  BY <1>3, <1>6, ReleaseKept
<1>8. Kept(mem, left) /\ Lies(left, new.value, s)
  BY <1>5, <1>7, KeptOn, LiesKept
<1>9. new.value \in Nat
  BY <1>5, <1>6, LiesNumber
<1>10. QED
  BY <1>8, <1>9 DEF s, left

\* A select frame takes nothing off the heap.
LEMMA SelectSlots ==
  ASSUME EvalInv, Executing("select")
  PROVE  /\ stage = "execute" /\ stack # << >> /\ ChartInv
         /\ stack \in Seq(GoodFrames) /\ heap \in Seq(Nat)
         /\ Last(stack).slots = << >> /\ Popped(heap, Len(Last(stack).slots)) = heap
<1>1. stage = "execute" /\ stack # << >> /\ Last(stack).kind = "select"
  BY DEF Executing
<1>2. ChartInv /\ stack \in Seq(GoodFrames) /\ heap \in Seq(Nat)
  BY <1>1, Running
<1>3. Last(stack) \in GoodFrames
  BY <1>1, <1>2, LastFront
<1>4. Last(stack).slots = << >>
  BY <1>1, <1>3 DEF GoodFrames
<1>5. Len(Last(stack).slots) = 0 /\ Len(heap) - 0 = Len(heap) /\ SubSeq(heap, 1, Len(heap)) = heap
  BY <1>2, <1>4
<1>6. QED
  BY <1>1, <1>2, <1>4, <1>5 DEF Popped

\* The value of an empty item has no tokens.
LEMMA SelectEmptyOrder ==
  ASSUME OrderInv, SelectEmpty PROVE Ordered'
<1> DEFINE new == EmptyValue(AlternativeOf(TopItem), mem)
           s == Extents[Last(stack).item]
<1>1. /\ EvalInv /\ Executing("select") /\ mem' = new.mem /\ stage' = stage
      /\ heap' = Append(heap, new.value) /\ stack' = Front(stack) /\ UNCHANGED vars
  BY DEF SelectEmpty, OrderInv
<1>2. /\ stage = "execute" /\ stack # << >> /\ Popped(heap, Len(Last(stack).slots)) = heap
  BY <1>1, SelectSlots
<1>3. OrderedIn(stack, heap, mem)
  BY <1>2 DEF OrderInv, Ordered
<1>4. MemOK(mem)
  BY <1>3 DEF OrderedIn, TokensFirst
<1> HIDE DEF s
<1>5. Kept(mem, new.mem) /\ Lies(new.mem, new.value, s)
  BY <1>4, EmptyLies
<1> HIDE DEF new
<1>6. new.value \in Nat
  BY <1>5, LiesNumber DEF Kept
<1>7. OrderedIn(Front(stack), Append(heap, new.value), new.mem)
  <2>1. OrderedIn(Front(stack), Append(Popped(heap, Len(Last(stack).slots)), new.value), new.mem)
    BY <1>1, <1>2, <1>3, <1>5, <1>6, FrameDone DEF s
  <2>2. QED
    BY <1>2, <2>1
<1>8. OrderedIn(stack, heap, mem)'
  BY <1>1, <1>7 DEF OrderedIn, Extents, Items, vars
<1>9. QED
  BY <1>1, <1>2, <1>8 DEF Ordered

\* The arguments of an apply frame lie in its item, and so does what it makes of them.
LEMMA ApplyOrder ==
  ASSUME OrderInv, Apply, EvalInv' PROVE Ordered'
<1> DEFINE f == Last(stack)
           it == f.item
           new == AppliedTo(it, TopArgs)
           s == Extents[it]
           left == Release(new.mem, TopArgs)
<1>1. /\ EvalInv /\ Executing("apply") /\ stage = "execute" /\ stack # << >>
      /\ f.kind = "apply" /\ mem' = left /\ stage' = stage
      /\ heap' = Append(HeapLeft, new.value) /\ stack' = Front(stack) /\ UNCHANGED vars
  BY DEF Apply, Executing, OrderInv, TopItem
<1>2. OrderedIn(stack, heap, mem)
  BY <1>1 DEF OrderInv, Ordered
<1>3. ChartInv /\ stack \in Seq(GoodFrames) /\ heap \in Seq(Nat)
  BY <1>1, Running
<1>4. /\ it \in CompletedItems /\ TopArgs \in Seq(Nat) /\ TopArgs # << >>
      /\ Len(TopArgs) = Arity(it)
  BY <1>1, ApplyPopped DEF TopItem
<1>5. f \in GoodFrames
  BY <1>1, <1>3, LastFront
<1>6. Open(f.partial, f.slots)
  BY <1>1, <1>5 DEF GoodFrames
<1>7. MemOK(mem)
  BY <1>2 DEF OrderedIn, TokensFirst
<1>8. \A k \in DOMAIN TopArgs : Lies(mem, TopArgs[k], s)
  <2>1. PICK h : Laid(mem, heap, h) /\ RunsOver(mem, Extents, stack, h)
    BY <1>2 DEF OrderedIn
  <2>2. Finds(mem, f, s, h)
    BY <1>1, <1>3, <2>1, RunsPop
  <2>3. s \in Span
    BY <1>3, <1>4, ExtentIs DEF CompletedItems
  <2>4. TopArgs = Filled(f.partial, f.slots, heap)
    BY DEF TopArgs
  <2> HIDE DEF f, s
  <2>5. QED
    BY <1>3, <1>6, <1>7, <2>1, <2>2, <2>3, <2>4, ArgsLie
<1>9. MemOK(left)
  BY <1>1, MemoryAfter
<1>10. Kept(mem, left) /\ Lies(left, new.value, s) /\ new.value \in Nat
  BY <1>3, <1>4, <1>7, <1>8, <1>9, AppliedOrder
<1> HIDE DEF left, new
<1>11. OrderedIn(Front(stack), Append(Popped(heap, Len(f.slots)), new.value), left)
  BY <1>1, <1>2, <1>10, FrameDone
<1>12. OrderedIn(Front(stack), Append(HeapLeft, new.value), left)
  BY <1>11 DEF HeapLeft
<1>13. OrderedIn(stack, heap, mem)'
  BY <1>1, <1>12 DEF OrderedIn, Extents, Items, vars
<1>14. QED
  BY <1>1, <1>13 DEF Ordered

\* The start item finds the heap empty.
LEMMA InvokeOrder ==
  ASSUME OrderInv, Invoke, EvalInv' PROVE Ordered'
<1> DEFINE root == Preferred(StartItems)
           none == << >>
           stk == Append(none, SelectFrame(root))
           m == TokenCells(Len(tokens))
<1>1. /\ EvalInv /\ stage = "ready" /\ StartItems # << >> /\ stage' = "execute"
      /\ stack' = <<SelectFrame(root)>> /\ mem' = m /\ heap' = heap /\ UNCHANGED vars
  BY DEF Invoke, Invoking, OrderInv
<1>2. ChartInv /\ heap = << >>
  BY <1>1, Ready
<1>3. Len(tokens) \in Nat
  BY <1>2 DEF ChartInv, FullInv, Inv, TypeOK
<1>4. root \in CompletedItems
  BY <1>1, <1>2, StartItemsIn, PreferredIn
<1>5. SelectFrame(root) \in GoodFrames /\ Extents[root] \in Span
  BY <1>2, <1>4, GoodFrameSet, ExtentIs DEF CompletedItems
<1>6. stk = <<SelectFrame(root)>>
  OBVIOUS
<1>7. none \in Seq(GoodFrames) /\ none \in Seq(Span) /\ Len(none) = 0 /\ DOMAIN none = {}
      /\ \A k \in 1..Len(none) : none[k][2] <= Extents[root][1]
  OBVIOUS
<1>8. MemOK(m)
  BY <1>1, MemoryAfter
<1>9. RunsOver(m, Extents, none, Append(none, Extents[root]))
  <2>1. Append(none, Extents[root]) \in Seq(Span)
    BY <1>5, <1>7
  <2>2. QED
    BY <2>1, RunsEmpty
<1>10. RunsOver(m, Extents, stk, none)
  <2> HIDE DEF none, m, root
  <2>1. QED
    BY <1>5, <1>7, <1>9, SelectRuns
<1>11. Laid(m, none, none)
  BY <1>7 DEF Laid
<1>12. TokensFirst(m, Len(tokens))
  <2>1. Len(m) = Len(tokens) /\ \A k \in 1..Len(tokens) : m[k].kind = "token" /\ m[k].token = k - 1
    BY <1>3 DEF TokenCells
  <2> HIDE DEF m
  <2>2. QED
    BY <1>3, <1>8, <2>1 DEF TokensFirst
<1>13. OrderedIn(stk, none, m)
  <2> HIDE DEF stk, none, m
  <2>1. QED
    BY <1>10, <1>11, <1>12 DEF OrderedIn
<1> HIDE DEF stk, none, m
<1>14. stack' = stk /\ heap' = none /\ mem' = m
  BY <1>1, <1>2, <1>6 DEF none
<1>15. OrderedIn(stack, heap, mem)'
  BY <1>1, <1>13, <1>14 DEF OrderedIn, Extents, Items, vars
<1>16. QED
  BY <1>1, <1>15 DEF Ordered

\* A walk starts at the end of its item with nothing found.
LEMMA SelectOrder ==
  ASSUME OrderInv, Select PROVE Ordered'
<1> DEFINE it == Last(stack).item
           s == Extents[it]
           front == Front(stack)
           w == [item |-> it, cur |-> it, pos |-> Len(TopSymbols),
                 partial |-> [k \in DOMAIN TopSymbols |-> Undef],
                 slots |-> << >>, items |-> << >>]
           f == Last(stack)
<1>1. /\ EvalInv /\ Executing("select") /\ stage' = "walk" /\ walk' = w
      /\ mem' = mem /\ heap' = heap /\ stack' = front /\ UNCHANGED vars
  BY DEF Select, OrderInv, TopItem
<1>2. /\ stage = "execute" /\ stack # << >> /\ ChartInv
      /\ stack \in Seq(GoodFrames) /\ heap \in Seq(Nat) /\ f.slots = << >>
  BY <1>1, SelectSlots
<1>3. OrderedIn(stack, heap, mem)
  BY <1>2 DEF OrderInv, Ordered
<1>4. it \in Items
  BY <1>1, SelectPopped DEF TopItem, CompletedItems
<1>5. PICK h : Laid(mem, heap, h) /\ RunsOver(mem, Extents, stack, h)
  BY <1>3 DEF OrderedIn
<1>6. /\ h \in Seq(Span) /\ Finds(mem, f, s, h)
      /\ RunsOver(mem, Extents, front, Leaves(f, s, h))
  BY <1>2, <1>5, RunsPop
<1>7. /\ Leaves(f, s, h) = Append(h, s)
      /\ \A k \in 1..Len(h) : h[k][2] <= s[1]
  <2>1. Len(f.slots) = 0
    BY <1>2
  <2>2. Len(h) - 0 = Len(h) /\ SubSeq(h, 1, Len(h)) = h
    BY <1>6
  <2> HIDE DEF f, s
  <2>3. QED
    BY <1>6, <2>1, <2>2 DEF Leaves, Popped, Finds
<1>8. /\ w.item = it /\ w.cur = it /\ w.items = << >> /\ DOMAIN w.items = {}
      /\ \A k \in DOMAIN w.partial : w.partial[k] = Undef
  OBVIOUS
<1> HIDE DEF w, s, front
<1>9. WalkIn(w)
  <2>1. it.pos \in Nat
    BY <1>2, <1>4, ExtentIs
  <2> HIDE DEF it
  <2>2. QED
    BY <1>8, <2>1 DEF WalkIn
<1>10. WalkLies(mem, w)
  BY <1>8 DEF WalkLies
<1>11. OrderedWalk(w, front, heap, mem)
  <2>1. RunsOver(mem, Extents, front, Append(h, s))
    BY <1>6, <1>7
  <2>2. s = Extents[w.item]
    BY <1>8 DEF s
  <2>3. TokensFirst(mem, Len(tokens))
    BY <1>3 DEF OrderedIn
  <2>4. QED
    BY <1>5, <1>7, <1>9, <1>10, <2>1, <2>2, <2>3 DEF OrderedWalk
<1>12. OrderedWalk(walk, stack, heap, mem)'
  BY <1>1, <1>11 DEF OrderedWalk, WalkLies, Extents, Items, vars
<1>13. QED
  BY <1>1, <1>12 DEF Ordered

\* The back pointer a walk follows lies where the walk is.
LEMMA WalkPlaced ==
  ASSUME EvalInv, Walking
  PROVE  BackAt(walk.cur, Selected(WalkBacks))
<1>1. WalkBacks \in Seq(Back) /\ WalkBacks # << >> /\ walk \in GoodWalks /\ walk.pos > 0
  BY WalkOver
<1>2. ChartInv
  BY DEF EvalInv
<1>3. walk.cur \in Items /\ walk.cur.dot > 0
  BY <1>1, <1>2, WalkFields
<1>4. Selected(WalkBacks) \in Range(WalkBacks)
  BY <1>1, SelectedIn
<1>5. QED
  BY <1>2, <1>3, <1>4, BackPlaced DEF WalkBacks

\* The token passed lies in the item.
LEMMA WalkTokenOrder ==
  ASSUME OrderInv, WalkToken PROVE Ordered'
<1> DEFINE back == Selected(WalkBacks)
           t == back.token
           x == TokenValue(t)
           new == Shared(mem, x)
           w == TokenWalk(walk, back, x)
           s == Extents[walk.item]
<1>1. /\ EvalInv /\ Walking /\ t # -1 /\ mem' = new.mem
      /\ stage' = stage /\ stack' = stack /\ heap' = heap /\ UNCHANGED vars
      /\ walk' = [walk EXCEPT !.partial[walk.pos] = new.value, !.cur = back.prev, !.pos = @ - 1]
  BY DEF WalkToken, OrderInv
<1>2. stage = "walk" /\ walk \in GoodWalks /\ walk.pos > 0 /\ BackOK(walk.cur, back)
  BY <1>1, WalkOver
<1>3. ChartInv
  BY <1>2, <1>1, Running
<1>4. BackAt(walk.cur, back)
  BY <1>1, WalkPlaced
<1>5. walk' = w
  <2>1. new.value = x
    BY DEF Shared
  <2>2. QED
    BY <1>1, <2>1 DEF TokenWalk
<1>6. OrderedWalk(walk, stack, heap, mem)
  BY <1>2 DEF OrderInv, Ordered
<1> HIDE DEF back
<1>7. t \in 0..(Len(tokens) - 1) /\ Len(tokens) \in Nat
  <2>1. Len(tokens) \in Nat
    BY <1>3 DEF ChartInv, FullInv, Inv, TypeOK
  <2>2. QED
    BY <1>1, <1>2, <2>1 DEF BackOK
<1>8. walk.item \in Items /\ walk.cur \in Items /\ walk \in Walk
  BY <1>2, <1>3, WalkFields DEF CompletedItems
<1>9. /\ s[1] = walk.item.origin /\ s[2] = walk.item.pos
      /\ walk.item.origin \in Nat /\ walk.item.pos \in Nat
  BY <1>3, <1>8, ExtentIs
<1>10. t \in s[1]..(s[2] - 1)
  <2>1. /\ t = back.prev.pos /\ walk.cur.pos = back.prev.pos + 1
        /\ back.prev.origin = walk.cur.origin
    BY <1>1, <1>4 DEF BackAt
  <2>2. back.prev \in Items
    BY <1>2 DEF BackOK
  <2>3. /\ back.prev.origin <= back.prev.pos /\ back.prev.pos \in Nat
        /\ back.prev.origin \in Nat
    BY <1>3, <2>2, ExtentIs
  <2>4. walk.cur.origin = walk.item.origin /\ walk.cur.pos <= walk.item.pos
    BY <1>6 DEF OrderedWalk, WalkIn
  <2> HIDE DEF t, s
  <2>5. t = back.prev.pos /\ walk.item.origin <= t /\ t + 1 <= walk.item.pos /\ t \in Int
    BY <2>1, <2>3, <2>4
  <2>6. QED
    BY <1>9, <2>5
<1>11. TokensFirst(mem, Len(tokens)) /\ MemOK(mem)
  BY <1>6 DEF OrderedWalk, TokensFirst
<1> HIDE DEF t, s
<1>12. Lies(mem, x, s)
  BY <1>7, <1>10, <1>11, TokenLies
<1>13. x \in Nat
  BY <1>11, <1>12, LiesNumber
<1> HIDE DEF x
<1>14. Kept(mem, new.mem) /\ Lies(new.mem, x, s)
  <2>1. Kept(mem, new.mem) /\ Lies(new.mem, new.value, s)
    BY <1>11, <1>12, <1>13, SharedLies
  <2>2. new.value = x
    BY DEF Shared
  <2>3. QED
    BY <2>1, <2>2
<1> HIDE DEF new
<1>15. WalkIn(w)
  BY <1>2, <1>3, <1>4, <1>6, TokenWalkIn DEF OrderedWalk
<1>16. w.item = walk.item /\ w.partial = [walk.partial EXCEPT ![walk.pos] = x]
  <2>1. w = [item |-> walk.item, cur |-> back.prev, pos |-> walk.pos - 1,
             partial |-> [walk.partial EXCEPT ![walk.pos] = x],
             slots |-> walk.slots, items |-> walk.items]
    BY <1>8, WalkUpdated
  <2> HIDE DEF w
  <2>2. QED
    BY <2>1
<1> HIDE DEF w
<1>17. WalkLies(new.mem, w)
  <2>1. ASSUME NEW k \in DOMAIN w.partial, w.partial[k] # Undef
        PROVE  Lies(new.mem, w.partial[k], s)
    <3>1. DOMAIN w.partial = DOMAIN walk.partial
      BY <1>16
    <3>2. CASE k = walk.pos
      <4>1. w.partial[k] = x
        BY <1>16, <2>1, <3>1, <3>2
      <4>2. QED
        BY <1>14, <4>1
    <3>3. CASE k # walk.pos
      <4>1. w.partial[k] = walk.partial[k]
        BY <1>16, <2>1, <3>1, <3>3
      <4>2. Lies(mem, walk.partial[k], s)
        BY <1>6, <2>1, <3>1, <4>1 DEF OrderedWalk, WalkLies, s
      <4>3. QED
        BY <1>14, <4>1, <4>2, LiesKept
    <3>4. QED
      BY <3>2, <3>3
  <2>2. QED
    BY <1>16, <2>1 DEF WalkLies, s
<1>18. OrderedWalk(w, stack, heap, new.mem)
  <2>1. PICK h : /\ Laid(mem, heap, h)
                 /\ \A k \in 1..Len(h) : h[k][2] <= s[1]
                 /\ RunsOver(mem, Extents, stack, Append(h, s))
    BY <1>6 DEF OrderedWalk, s
  <2>2. Laid(new.mem, heap, h)
    BY <1>14, <2>1, LaidKept
  <2>3. RunsOver(new.mem, Extents, stack, Append(h, s))
    BY <1>14, <2>1, RunsKept
  <2>4. TokensFirst(new.mem, Len(tokens))
    BY <1>11, <1>14, TokensFirstKept
  <2>5. s = Extents[w.item]
    BY <1>16 DEF s
  <2>6. QED
    BY <1>15, <1>17, <2>1, <2>2, <2>3, <2>4, <2>5 DEF OrderedWalk
<1>19. OrderedWalk(walk, stack, heap, mem)'
  BY <1>1, <1>5, <1>18 DEF OrderedWalk, WalkLies, Extents, Items, vars
<1>20. QED
  BY <1>1, <1>2, <1>19 DEF Ordered

\* The child passed lies before the ones passed earlier.
LEMMA WalkChildOrder ==
  ASSUME OrderInv, WalkChild PROVE Ordered'
<1> DEFINE back == Selected(WalkBacks)
           w == ChildWalk(walk, back)
<1>1. /\ EvalInv /\ Walking /\ back.token = -1 /\ walk' = w /\ mem' = mem
      /\ stage' = stage /\ stack' = stack /\ heap' = heap /\ UNCHANGED vars
  BY DEF WalkChild, ChildWalk, OrderInv
<1>2. stage = "walk" /\ walk \in GoodWalks /\ walk.pos > 0 /\ BackOK(walk.cur, back)
  BY <1>1, WalkOver
<1>3. ChartInv
  BY <1>2, <1>1, Running
<1>4. BackAt(walk.cur, back)
  BY <1>1, WalkPlaced
<1>5. OrderedWalk(walk, stack, heap, mem)
  BY <1>2 DEF OrderInv, Ordered
<1>6. walk \in Walk
  BY <1>2, <1>3, WalkFields
<1> HIDE DEF back
<1>7. WalkIn(w)
  BY <1>1, <1>2, <1>3, <1>4, <1>5, ChildWalkIn DEF OrderedWalk
<1>8. w.item = walk.item /\ w.partial = walk.partial
  <2>1. w = [item |-> walk.item, cur |-> back.prev, pos |-> walk.pos - 1,
             partial |-> walk.partial,
             slots |-> Append(walk.slots, walk.pos), items |-> Append(walk.items, back.child)]
    BY <1>6, WalkUpdated
  <2> HIDE DEF w
  <2>2. QED
    BY <2>1
<1> HIDE DEF w
<1>9. OrderedWalk(w, stack, heap, mem)
  BY <1>5, <1>7, <1>8 DEF OrderedWalk, WalkLies
<1>10. OrderedWalk(walk, stack, heap, mem)'
  BY <1>1, <1>9 DEF OrderedWalk, WalkLies, Extents, Items, vars
<1>11. QED
  BY <1>1, <1>2, <1>10 DEF Ordered

\* The children of a finished walk lie in the span of its item, the last one first.
LEMMA WalkedPlaced ==
  ASSUME ChartInv, NEW w \in GoodWalks, WalkIn(w)
  PROVE  ChildrenIn(Extents, w.items, Extents[w.item])
<1>1. w.item \in Items /\ w.cur \in Items /\ w.items \in Seq(CompletedItems)
  BY WalkFields DEF CompletedItems
<1>2. /\ Extents[w.item][1] = w.item.origin /\ Extents[w.item][2] = w.item.pos
      /\ w.item.origin \in Nat
  BY <1>1, ExtentIs
<1>3. w.cur.origin \in Nat /\ w.cur.pos \in Nat /\ w.cur.origin <= w.cur.pos
  BY <1>1, ExtentIs
<1>4. w.item.origin <= w.cur.pos
  BY <1>2, <1>3 DEF WalkIn
<1>5. ASSUME NEW t \in DOMAIN w.items
      PROVE  /\ Extents[w.items[t]][1] = w.items[t].origin
             /\ Extents[w.items[t]][2] = w.items[t].pos
             /\ w.items[t].origin \in Nat
  <2>1. w.items[t] \in Items
    BY <1>1, ElementOfSeq DEF CompletedItems
  <2>2. QED
    BY <2>1, ExtentIs
<1>6. ASSUME NEW t \in DOMAIN w.items
      PROVE  /\ Extents[w.item][1] <= Extents[w.items[t]][1]
             /\ Extents[w.items[t]][2] <= Extents[w.item][2]
  <2>1. w.cur.pos <= w.items[t].origin /\ w.items[t].pos <= w.item.pos
    BY DEF WalkIn
  <2>2. w.item.origin <= w.items[t].origin
    BY <1>2, <1>3, <1>4, <1>5, <2>1
  <2>3. QED
    BY <1>2, <1>5, <2>1, <2>2
<1>7. ASSUME NEW t \in DOMAIN w.items, NEW u \in DOMAIN w.items, t < u
      PROVE  Extents[w.items[u]][2] <= Extents[w.items[t]][1]
  <2>1. w.items[u].pos <= w.items[t].origin
    BY <1>7 DEF WalkIn
  <2>2. QED
    BY <1>5, <2>1
<1>8. QED
  BY <1>6, <1>7 DEF ChildrenIn

\* The apply frame and those of the children give way to one value in the item.
LEMMA QueueOrder ==
  ASSUME OrderInv, Queue PROVE Ordered'
<1> DEFINE w == walk
           s == Extents[walk.item]
           f == ApplyFrame(walk.item, walk.partial, walk.slots)
           items == walk.items
           new == Append(stack, f) \o SelectsOf(items)
<1>1. /\ EvalInv /\ stage = "walk" /\ w.pos = 0 /\ w.slots # << >> /\ stage' = "execute"
      /\ stack' = new /\ heap' = heap /\ mem' = mem /\ UNCHANGED vars
  BY DEF Queue, Walked, SelectsOf, OrderInv
<1>2. ChartInv /\ stack \in Seq(GoodFrames)
  BY <1>1, Running
<1>3. w \in GoodWalks
  BY <1>1 DEF EvalInv, StateOK
<1>4. /\ w.item \in CompletedItems /\ w.item \in Item /\ w.partial # << >>
      /\ Len(w.partial) = Arity(w.item) /\ w.partial \in Seq(Int)
      /\ items \in Seq(CompletedItems) /\ Len(items) = Len(w.slots) /\ w.slots \in Seq(Nat)
  BY <1>2, <1>3, WalkFields
<1>5. Open(w.partial, w.slots)
  BY <1>1, <1>2, <1>3, WalkedOpen
<1>6. f.kind = "apply" /\ f.item = w.item /\ f.partial = w.partial /\ f.slots = w.slots
  BY ApplyFields
<1>7. f \in GoodFrames
  <2>1. f \in Frame
    BY <1>4 DEF ApplyFrame, Frame
  <2> HIDE DEF f
  <2>2. QED
    BY <1>4, <1>5, <1>6, <2>1 DEF GoodFrames
<1>8. OrderedWalk(w, stack, heap, mem)
  BY <1>1 DEF OrderInv, Ordered
<1>9. PICK h : /\ Laid(mem, heap, h)
               /\ \A k \in 1..Len(h) : h[k][2] <= s[1]
               /\ RunsOver(mem, Extents, stack, Append(h, s))
  BY <1>8 DEF OrderedWalk
<1>10. ChildrenIn(Extents, items, s)
  BY <1>2, <1>3, <1>8, WalkedPlaced DEF OrderedWalk
<1>11. \A k \in DOMAIN w.partial : w.partial[k] # Undef => Lies(mem, w.partial[k], s)
  BY <1>8 DEF OrderedWalk, WalkLies
<1>12. /\ \A x \in CompletedItems : SelectFrame(x) \in GoodFrames
       /\ \A x \in CompletedItems : Extents[x] \in Span
  BY <1>2, GoodFrameSet, ExtentIs DEF CompletedItems
<1>13. h \in Seq(Span)
  BY <1>9 DEF Laid
<1> HIDE DEF f, items
<1>14. RunsOver(mem, Extents, new, h)
  <2>1. /\ f.item \in CompletedItems /\ f.slots \in Seq(Nat) /\ Len(items) = Len(f.slots)
        /\ ChildrenIn(Extents, items, Extents[f.item])
        /\ \A k \in DOMAIN f.partial :
             f.partial[k] # Undef => Lies(mem, f.partial[k], Extents[f.item])
        /\ \A k \in 1..Len(h) : h[k][2] <= Extents[f.item][1]
        /\ RunsOver(mem, Extents, stack, Append(h, Extents[f.item]))
    BY <1>4, <1>6, <1>9, <1>10, <1>11
  <2> HIDE DEF s, w
  <2>2. QED
    BY <1>2, <1>4, <1>7, <1>12, <1>13, <2>1, ExpandedRuns
<1> HIDE DEF new
<1>15. OrderedIn(new, heap, mem)
  BY <1>8, <1>9, <1>14 DEF OrderedIn, OrderedWalk
<1>16. OrderedIn(stack, heap, mem)'
  BY <1>1, <1>15 DEF OrderedIn, Extents, Items, vars
<1>17. QED
  BY <1>1, <1>16 DEF Ordered

\* An item of tokens leaves its value on the heap.
LEMMA ApplyTokensOrder ==
  ASSUME OrderInv, ApplyTokens, EvalInv' PROVE Ordered'
<1> DEFINE it == walk.item
           args == walk.partial
           new == AppliedTo(it, args)
           s == Extents[it]
           left == Release(new.mem, args)
<1>1. /\ EvalInv /\ stage = "walk" /\ walk.pos = 0 /\ walk.slots = << >> /\ stage' = "execute"
      /\ mem' = left /\ heap' = Append(heap, new.value) /\ stack' = stack /\ UNCHANGED vars
  BY DEF ApplyTokens, Walked, OrderInv
<1>2. ChartInv /\ heap \in Seq(Nat)
  BY <1>1, Running
<1>3. walk \in GoodWalks
  BY <1>1 DEF EvalInv, StateOK
<1>4. it \in CompletedItems /\ args # << >> /\ Len(args) = Arity(it)
  BY <1>2, <1>3, WalkFields
<1>5. args \in Seq(Nat)
  BY <1>1, <1>2, <1>3, WalkedOpen
<1>6. OrderedWalk(walk, stack, heap, mem)
  BY <1>1 DEF OrderInv, Ordered
<1>7. MemOK(mem) /\ TokensFirst(mem, Len(tokens))
  BY <1>6 DEF OrderedWalk, TokensFirst
<1>8. \A k \in DOMAIN args : Lies(mem, args[k], s)
  <2>1. \A k \in DOMAIN args : args[k] # Undef => Lies(mem, args[k], s)
    BY <1>6 DEF OrderedWalk, WalkLies
  <2> HIDE DEF args, s
  <2>2. \A k \in DOMAIN args : args[k] # Undef
    BY <1>5 DEF Undef
  <2>3. QED
    BY <2>1, <2>2
<1>9. MemOK(left)
  BY <1>1, MemoryAfter
<1>10. Kept(mem, left) /\ Lies(left, new.value, s) /\ new.value \in Nat
  BY <1>2, <1>4, <1>5, <1>7, <1>8, <1>9, AppliedOrder
<1>11. s \in Span
  BY <1>2, <1>4, ExtentIs DEF CompletedItems
<1>12. PICK h : /\ Laid(mem, heap, h)
                /\ \A k \in 1..Len(h) : h[k][2] <= s[1]
                /\ RunsOver(mem, Extents, stack, Append(h, s))
  BY <1>6 DEF OrderedWalk
<1> HIDE DEF left, new, s
<1>13. Laid(left, Append(heap, new.value), Append(h, s))
  <2>1. Laid(left, heap, h)
    BY <1>10, <1>12, LaidKept
  <2>2. QED
    BY <1>2, <1>10, <1>11, <1>12, <2>1, LaidPush
<1>14. RunsOver(left, Extents, stack, Append(h, s))
  BY <1>10, <1>12, RunsKept
<1>15. TokensFirst(left, Len(tokens))
  BY <1>7, <1>10, TokensFirstKept
<1>16. OrderedIn(stack, Append(heap, new.value), left)
  BY <1>13, <1>14, <1>15 DEF OrderedIn
<1>17. OrderedIn(stack, heap, mem)'
  BY <1>1, <1>16 DEF OrderedIn, Extents, Items, vars
<1>18. QED
  BY <1>1, <1>17 DEF Ordered

LEMMA OrderInitial == EvalInit => OrderInv
<1>1. EvalInit => EvalInv
  BY EvalInitial
<1>2. QED
  BY <1>1 DEF OrderInv, Ordered, EvalInit

\* No step of the evaluator, and none of the chart, disturbs the order.
LEMMA NextOrder == OrderInv /\ [EvalNext]_<<vars, evaluation>> => OrderInv'
<1> SUFFICES ASSUME OrderInv, [EvalNext]_<<vars, evaluation>> PROVE OrderInv'
  OBVIOUS
<1>1. EvalInv /\ EvalInv' /\ Ordered
  BY NextEval DEF OrderInv
<1>2. Ordered'
  <2>1. CASE UNCHANGED <<vars, evaluation>>
    BY <1>1, <2>1
       DEF Ordered, OrderedIn, OrderedWalk, WalkLies, Extents, Items, vars, evaluation
  <2>2. CASE Construct
    <3>2. stage = "ready"
      BY <1>1, <2>2, DoneStays DEF Construct, EvalInv
    <3>3. stage' = stage
      BY <2>2 DEF Construct, evaluation
    <3>4. QED
      BY <3>2, <3>3 DEF Ordered
  <2>3. CASE EvalStep
    <3>1. CASE \/ InvokeNoMatch \/ InvokeAmbiguous \/ WalkAmbiguous
               \/ ThrowAtTokens \/ Throw \/ Answer
      <4>1. stage' = "returned"
        BY <3>1 DEF InvokeNoMatch, InvokeAmbiguous, WalkAmbiguous, ThrowAtTokens, Throw,
             Answer, Abandon, Leaving
      <4>2. QED
        BY <4>1 DEF Ordered
    <3>2. CASE Invoke
      BY <1>1, <3>2, InvokeOrder
    <3>3. CASE SelectEmpty
      BY <3>3, SelectEmptyOrder
    <3>4. CASE Select
      BY <3>4, SelectOrder
    <3>5. CASE WalkToken
      BY <3>5, WalkTokenOrder
    <3>6. CASE WalkChild
      BY <3>6, WalkChildOrder
    <3>7. CASE Queue
      BY <3>7, QueueOrder
    <3>8. CASE ApplyTokens
      BY <1>1, <3>8, ApplyTokensOrder
    <3>9. CASE Apply
      BY <1>1, <3>9, ApplyOrder
    <3>10. QED
      BY <2>3, <3>1, <3>2, <3>3, <3>4, <3>5, <3>6, <3>7, <3>8, <3>9 DEF EvalStep
  <2>4. QED
    BY <2>1, <2>2, <2>3 DEF EvalNext
<1>3. QED
  BY <1>1, <1>2 DEF OrderInv

LEMMA InvOrder == OrderInv => LeftToRight
<1> SUFFICES ASSUME OrderInv PROVE LeftToRight
  OBVIOUS
<1>1. CASE stage \in {"execute", "walk"}
  <2>1. heap \in Seq(Nat)
    BY <1>1, Running DEF OrderInv
  <2>2. PICK h : Laid(mem, heap, h)
    BY <1>1 DEF OrderInv, Ordered, OrderedIn, OrderedWalk
  <2>3. QED
    BY <2>1, <2>2, LaidOrder DEF LeftToRight
<1>2. CASE stage \notin {"execute", "walk"}
  <2>1. heap = << >>
    BY <1>2 DEF OrderInv, EvalInv, StateOK
  <2>2. QED
    BY <2>1 DEF LeftToRight, InOrder
<1>3. QED
  BY <1>1, <1>2

\* The order of the arguments: whichever back pointers the walks follow and whatever the
\* actions return, the values on the heap have their tokens in the order of the input, so
\* that an apply frame takes those of its children from left to right.
THEOREM OrderCorrect == EvalSpec => []LeftToRight
<1>1. EvalInit => OrderInv
  BY OrderInitial
<1>2. OrderInv /\ [EvalNext]_<<vars, evaluation>> => OrderInv'
  BY NextOrder
<1>3. OrderInv => LeftToRight
  BY InvOrder
<1>4. QED
  BY <1>1, <1>2, <1>3, PTL DEF EvalSpec
============================================================================
