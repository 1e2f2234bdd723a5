--------------------------- MODULE LifecycleProofs ---------------------------
(***************************************************************************)
(* What is proved of Lifecycle, for any number of objects and requests.    *)
(***************************************************************************)
EXTENDS Lifecycle, FunctionTheorems, FiniteSetTheorems, TLAPS

(***************************************************************************)
(* The inductive invariant.                                                *)
(***************************************************************************)

\* Objects refer to objects that were made, and only once they were made.
PointersMade ==
  /\ IsFiniteSet(made)
  /\ \A c \in Charts :
       /\ grammar[c] # Null => c \in made /\ grammar[c] \in made
       /\ buffer[c] # Null => c \in made /\ buffer[c] \in made
  /\ \A e \in Evaluators :
       /\ chart[e] # Null => e \in made /\ chart[e] \in made
       /\ context[e] # Null => e \in made /\ context[e] \in made

\* A constructor stores the grammar before the buffer, and the chart with the context.
StoredInOrder ==
  /\ \A c \in Charts : grammar[c] = Null => buffer[c] = Null
  /\ \A e \in Evaluators : chart[e] = Null => context[e] = Null

\* The charts that have, or had, a grammar nobody counted for them.
Borrowers(o) == {c \in Charts : Refused(c) /\ grammar[c] = o}

\* An object is counted for each reference to it, but for those borrowed: a chart
\* that was refused its buffer takes none when it stores its grammar, and gives one
\* up when it is freed.
Exact == \A o \in made : count[o] = Holders(o) - Cardinality(Borrowers(o))

Inv == TypeOK /\ PointersMade /\ StoredInOrder /\ Exact

-----------------------------------------------------------------------------
(* References, class by class                                              *)

Bit(condition) == IF condition THEN 1 ELSE 0

\* The charts and evaluators that hold an object of each class.
GrammarOf(o) == {c \in Charts \cap Alive : grammar[c] = o}
BufferOf(o)  == {c \in Charts \cap Alive : buffer[c] = o}
ChartOf(o)   == {e \in Evaluators \cap Alive : chart[e] = o}
ContextOf(o) == {e \in Evaluators \cap Alive : context[e] = o}

\* Exact, with only those references that can lead to an object.
ExactByClass ==
  /\ \A o \in made \cap Grammars :
       count[o] = Bit(o \in held) + Cardinality(GrammarOf(o)) - Cardinality(Borrowers(o))
  /\ \A o \in made \cap Buffers  : count[o] = Bit(o \in held) + Cardinality(BufferOf(o))
  /\ \A o \in made \cap Contexts : count[o] = Bit(o \in held) + Cardinality(ContextOf(o))
  /\ \A o \in made \cap Charts   : count[o] = Bit(o \in held) + Cardinality(ChartOf(o))
  /\ \A o \in made \cap Evaluators : count[o] = Bit(o \in held)

\* An object is of one class, and Null of none.
LEMMA OneClass ==
  /\ \A o \in Grammars : o \notin Buffers /\ o \notin Contexts /\ o \notin Charts /\ o \notin Evaluators
  /\ \A o \in Buffers : o \notin Grammars /\ o \notin Contexts /\ o \notin Charts /\ o \notin Evaluators
  /\ \A o \in Contexts : o \notin Grammars /\ o \notin Buffers /\ o \notin Charts /\ o \notin Evaluators
  /\ \A o \in Charts : o \notin Grammars /\ o \notin Buffers /\ o \notin Contexts /\ o \notin Evaluators
  /\ \A o \in Evaluators : o \notin Grammars /\ o \notin Buffers /\ o \notin Contexts /\ o \notin Charts
  /\ \A o \in Objects : o # Null
  /\ Objects = UNION {Grammars, Buffers, Contexts, Charts, Evaluators}
BY LifecycleAssumption DEF Objects, Userland

\* What holds an object, or borrowed it, was made, and so there are finitely many.
LEMMA HoldersFinite ==
  ASSUME TypeOK, PointersMade, NEW o \in Objects
  PROVE  /\ IsFiniteSet(GrammarOf(o)) /\ Cardinality(GrammarOf(o)) \in Nat
         /\ IsFiniteSet(BufferOf(o)) /\ Cardinality(BufferOf(o)) \in Nat
         /\ IsFiniteSet(ChartOf(o)) /\ Cardinality(ChartOf(o)) \in Nat
         /\ IsFiniteSet(ContextOf(o)) /\ Cardinality(ContextOf(o)) \in Nat
         /\ IsFiniteSet(Borrowers(o)) /\ Cardinality(Borrowers(o)) \in Nat
<1>1. IsFiniteSet(made)
  BY DEF PointersMade
<1>2. /\ GrammarOf(o) \in SUBSET made /\ BufferOf(o) \in SUBSET made
      /\ ChartOf(o) \in SUBSET made /\ ContextOf(o) \in SUBSET made
  BY DEF GrammarOf, BufferOf, ChartOf, ContextOf, Alive
<1>3. Borrowers(o) \in SUBSET made
  BY DEF Borrowers, Refused, PointersMade
<1>4. \A S \in SUBSET made : IsFiniteSet(S) /\ Cardinality(S) \in Nat
  BY <1>1, FS_Subset, FS_CardinalityType
<1> QED BY <1>2, <1>3, <1>4

LEMMA HoldersByClass ==
  ASSUME TypeOK, PointersMade, NEW o \in Objects
  PROVE  /\ o \in Grammars => Holders(o) = Bit(o \in held) + Cardinality(GrammarOf(o))
         /\ o \in Buffers => Holders(o) = Bit(o \in held) + Cardinality(BufferOf(o))
         /\ o \in Contexts => Holders(o) = Bit(o \in held) + Cardinality(ContextOf(o))
         /\ o \in Charts => Holders(o) = Bit(o \in held) + Cardinality(ChartOf(o))
         /\ o \in Evaluators => Holders(o) = Bit(o \in held)
         /\ o \notin Grammars => Cardinality(Borrowers(o)) = 0
<1> DEFINE variable == {"variable"} \cap {IF o \in held THEN "variable" ELSE "none"}
<1>1. Cardinality(variable) = Bit(o \in held)
  <2>1. CASE o \in held
    <3>1. variable = {"variable"}
      BY <2>1
    <3> QED BY <2>1, <3>1, FS_Singleton DEF Bit
  <2>2. CASE o \notin held
    <3>1. variable = {}
      BY <2>2
    <3> QED BY <2>2, <3>1, FS_EmptySet DEF Bit
  <2> QED BY <2>1, <2>2
<1> HIDE DEF variable
<1>2. Holders(o) = Cardinality(variable) + Cardinality(GrammarOf(o)) + Cardinality(BufferOf(o))
                     + Cardinality(ChartOf(o)) + Cardinality(ContextOf(o))
  BY DEF Holders, variable, GrammarOf, BufferOf, ChartOf, ContextOf
<1>3. /\ \A c \in Charts : grammar[c] \in Grammars \cup {Null} /\ buffer[c] \in Buffers \cup {Null}
      /\ \A e \in Evaluators : chart[e] \in Charts \cup {Null} /\ context[e] \in Contexts \cup {Null}
  BY DEF TypeOK
<1>4. /\ o \notin Grammars => GrammarOf(o) = {} /\ Borrowers(o) = {}
      /\ o \notin Buffers => BufferOf(o) = {}
      /\ o \notin Charts => ChartOf(o) = {}
      /\ o \notin Contexts => ContextOf(o) = {}
  BY <1>3, OneClass DEF GrammarOf, BufferOf, ChartOf, ContextOf, Borrowers
<1>5. /\ o \notin Grammars => Cardinality(GrammarOf(o)) = 0 /\ Cardinality(Borrowers(o)) = 0
      /\ o \notin Buffers => Cardinality(BufferOf(o)) = 0
      /\ o \notin Charts => Cardinality(ChartOf(o)) = 0
      /\ o \notin Contexts => Cardinality(ContextOf(o)) = 0
  BY <1>4, FS_EmptySet
<1>6. /\ Cardinality(GrammarOf(o)) \in Nat /\ Cardinality(BufferOf(o)) \in Nat
      /\ Cardinality(ChartOf(o)) \in Nat /\ Cardinality(ContextOf(o)) \in Nat
      /\ Bit(o \in held) \in Nat
  BY HoldersFinite DEF Bit
<1> HIDE DEF Bit
<1> QED BY <1>1, <1>2, <1>5, <1>6, OneClass

LEMMA ExactIffByClass == TypeOK /\ PointersMade => (Exact <=> ExactByClass)
<1> SUFFICES ASSUME TypeOK, PointersMade PROVE Exact <=> ExactByClass
  OBVIOUS
<1>1. made \subseteq Objects
  BY DEF TypeOK
<1>2. \A o \in made : Bit(o \in held) \in Nat
  BY DEF Bit
<1> DEFINE E(o) == count[o] = Holders(o) - Cardinality(Borrowers(o))
<1>3. ASSUME NEW o \in made
      PROVE  /\ o \in Grammars =>
                  (E(o) <=> count[o] = Bit(o \in held) + Cardinality(GrammarOf(o))
                                         - Cardinality(Borrowers(o)))
             /\ o \in Buffers => (E(o) <=> count[o] = Bit(o \in held) + Cardinality(BufferOf(o)))
             /\ o \in Contexts => (E(o) <=> count[o] = Bit(o \in held) + Cardinality(ContextOf(o)))
             /\ o \in Charts => (E(o) <=> count[o] = Bit(o \in held) + Cardinality(ChartOf(o)))
             /\ o \in Evaluators => (E(o) <=> count[o] = Bit(o \in held))
  <2>1. o \in Objects
    BY <1>1
  <2>2. /\ Cardinality(BufferOf(o)) \in Nat /\ Cardinality(ChartOf(o)) \in Nat
        /\ Cardinality(ContextOf(o)) \in Nat
    BY <2>1, HoldersFinite
  <2>3. o \notin Grammars => Holders(o) - Cardinality(Borrowers(o)) = Holders(o)
    BY <1>2, <2>1, <2>2, HoldersByClass, OneClass
  <2>4. CASE o \in Grammars
    <3>1. Holders(o) = Bit(o \in held) + Cardinality(GrammarOf(o))
      BY <2>1, <2>4, HoldersByClass
    <3>2. o \notin Buffers /\ o \notin Contexts /\ o \notin Charts /\ o \notin Evaluators
      BY <2>4, OneClass
    <3>3. /\ Cardinality(GrammarOf(o)) \in Nat /\ Cardinality(Borrowers(o)) \in Nat
          /\ Bit(o \in held) \in Nat
      BY <1>2, <2>1, HoldersFinite
    <3> QED BY <2>4, <3>1, <3>2, <3>3
  <2>5. CASE o \in Buffers
    BY <2>1, <2>3, <2>5, HoldersByClass, OneClass
  <2>6. CASE o \in Contexts
    BY <2>1, <2>3, <2>6, HoldersByClass, OneClass
  <2>7. CASE o \in Charts
    BY <2>1, <2>3, <2>7, HoldersByClass, OneClass
  <2>8. CASE o \in Evaluators
    BY <2>1, <2>3, <2>8, HoldersByClass, OneClass
  <2> QED BY <2>1, <2>4, <2>5, <2>6, <2>7, <2>8, OneClass
<1>4. Exact <=> \A o \in made : E(o)
  BY DEF Exact
<1> HIDE DEF E
<1>5. \A o \in made : o \in Grammars \/ o \in Buffers \/ o \in Contexts \/ o \in Charts
                         \/ o \in Evaluators
  BY <1>1, OneClass
<1>6. ASSUME \A o \in made : E(o) PROVE ExactByClass
  BY <1>3, <1>6 DEF ExactByClass
<1>7. ASSUME ExactByClass, NEW o \in made PROVE E(o)
  BY <1>3, <1>5, <1>7 DEF ExactByClass
<1> QED BY <1>4, <1>6, <1>7

-----------------------------------------------------------------------------
(* Giving references up                                                    *)

\* OBJ_RELEASE takes one from the count of its object, and nothing for Null.
LEMMA DelRefFacts ==
  ASSUME NEW n \in [Objects -> Int], NEW o \in Objects \cup {Null}
  PROVE  /\ DelRef(n, o) \in [Objects -> Int]
         /\ \A p \in Objects : DelRef(n, o)[p] = n[p] - Bit(p = o)
<1>1. CASE o = Null
  BY <1>1, OneClass DEF DelRef, Bit
<1>2. CASE o # Null
  BY <1>2 DEF DelRef, Bit
<1> QED BY <1>1, <1>2

\* Releasing a chart releases its grammar and its buffer with the last reference.
LEMMA ReleaseChartFacts ==
  ASSUME TypeOK, NEW n \in [Objects -> Int], NEW c \in Objects \cup {Null}
  PROVE  /\ ReleaseChart(n, c) \in [Objects -> Int]
         /\ c \in Charts /\ n[c] = 1 =>
              \A p \in Objects : ReleaseChart(n, c)[p]
                = n[p] - Bit(p = c) - Bit(p = grammar[c]) - Bit(p = buffer[c])
         /\ ~ (c \in Charts /\ n[c] = 1) =>
              \A p \in Objects : ReleaseChart(n, c)[p] = n[p] - Bit(p = c)
<1> DEFINE m == DelRef(n, c)
<1>1. m \in [Objects -> Int] /\ \A p \in Objects : m[p] = n[p] - Bit(p = c)
  BY DelRefFacts
<1>2. c \in Charts => (m[c] = 0 <=> n[c] = 1)
  BY <1>1, OneClass DEF Bit
<1>3. ReleaseChart(n, c) = IF c \in Charts /\ m[c] = 0
                           THEN DelRef(DelRef(m, grammar[c]), buffer[c]) ELSE m
  BY DEF ReleaseChart
<1> HIDE DEF m
<1>4. ASSUME c \in Charts, n[c] = 1
      PROVE  /\ ReleaseChart(n, c) \in [Objects -> Int]
             /\ \A p \in Objects : ReleaseChart(n, c)[p]
                  = n[p] - Bit(p = c) - Bit(p = grammar[c]) - Bit(p = buffer[c])
  <2>1. grammar[c] \in Objects \cup {Null} /\ buffer[c] \in Objects \cup {Null}
    BY <1>4, OneClass DEF TypeOK
  <2>2. /\ DelRef(m, grammar[c]) \in [Objects -> Int]
        /\ \A p \in Objects : DelRef(m, grammar[c])[p] = m[p] - Bit(p = grammar[c])
    BY <1>1, <2>1, DelRefFacts
  <2>3. /\ DelRef(DelRef(m, grammar[c]), buffer[c]) \in [Objects -> Int]
        /\ \A p \in Objects : DelRef(DelRef(m, grammar[c]), buffer[c])[p]
                                = DelRef(m, grammar[c])[p] - Bit(p = buffer[c])
    BY <2>1, <2>2, DelRefFacts
  <2>4. ReleaseChart(n, c) = DelRef(DelRef(m, grammar[c]), buffer[c])
    BY <1>2, <1>3, <1>4
  <2>5. \A p \in Objects : DelRef(DelRef(m, grammar[c]), buffer[c])[p]
          = n[p] - Bit(p = c) - Bit(p = grammar[c]) - Bit(p = buffer[c])
    BY <1>1, <2>2, <2>3
  <2> QED BY <2>3, <2>4, <2>5
<1>5. ASSUME ~ (c \in Charts /\ n[c] = 1) PROVE ReleaseChart(n, c) = m
  BY <1>2, <1>3, <1>5
<1> QED BY <1>1, <1>4, <1>5

\* What a chart or an evaluator held no longer counts once it is freed.
LEMMA OneLess ==
  ASSUME NEW S, IsFiniteSet(S), NEW T, NEW x, T = S \ {x}
  PROVE  Cardinality(T) = Cardinality(S) - Bit(x \in S)
<1>1. Cardinality(S) \in Nat
  BY FS_CardinalityType
<1> QED BY <1>1, FS_RemoveElement DEF Bit

\* A variable v is unset, and with it the evaluator e and the chart c are freed
\* (Null for none of them): the counts stay exact if those three give up what they
\* refer to, each once.
LEMMA GivenUp ==
  ASSUME Inv, NEW v \in Objects, NEW e \in Evaluators \cup {Null}, NEW c \in Charts \cup {Null},
         v \in held, held' = held \ {v}, UNCHANGED <<made, pointers>>,
         count' \in [Objects -> Int],
         c # Null => c \in Alive, e # Null => e \in Alive,
         \A o \in Charts : o \in Alive' <=> o \in Alive /\ o # c,
         \A o \in Evaluators : o \in Alive' <=> o \in Alive /\ o # e,
         \A o \in Grammars :
           count'[o] = count[o] - Bit(o = v) - Bit(c # Null /\ o = grammar[c]),
         \A o \in Buffers :
           count'[o] = count[o] - Bit(o = v) - Bit(c # Null /\ o = buffer[c]),
         \A o \in Contexts :
           count'[o] = count[o] - Bit(o = v) - Bit(e # Null /\ o = context[e]),
         \A o \in Charts :
           count'[o] = count[o] - Bit(o = v) - Bit(e # Null /\ o = chart[e]),
         \A o \in Evaluators : count'[o] = count[o] - Bit(o = v)
  PROVE  ExactByClass'
<1>1. ExactByClass /\ TypeOK /\ PointersMade
  BY ExactIffByClass DEF Inv
<1>2. made \subseteq Objects /\ made' = made
  BY <1>1 DEF TypeOK
<1>3. \A o \in Objects : count[o] \in Int /\ count'[o] \in Int
  BY <1>1 DEF TypeOK
<1>4. \A o \in Objects : Bit(o \in held') = Bit(o \in held) - Bit(o = v)
  BY DEF Bit
<1>5. \A o \in Objects : Bit(o \in held) \in Int /\ Bit(o \in held') \in Int /\ Bit(o = v) \in Int
  BY DEF Bit
<1>6. ASSUME NEW o \in Grammars \cap made
      PROVE  count'[o] = Bit(o \in held') + Cardinality(GrammarOf(o)')
                           - Cardinality(Borrowers(o)')
  <2>1. GrammarOf(o)' = GrammarOf(o) \ {c}
    BY OneClass DEF GrammarOf, pointers
  <2>2. Bit(c # Null /\ o = grammar[c]) = Bit(c \in GrammarOf(o))
    BY OneClass DEF GrammarOf
  <2>3. IsFiniteSet(GrammarOf(o)) /\ Cardinality(GrammarOf(o)) \in Nat
        /\ Cardinality(Borrowers(o)) \in Nat
    BY <1>1, <1>2, HoldersFinite
  <2>4. Cardinality(GrammarOf(o)') = Cardinality(GrammarOf(o)) - Bit(c \in GrammarOf(o))
    BY <2>1, <2>3, OneLess
  <2>5. Borrowers(o)' = Borrowers(o)
    BY DEF Borrowers, Refused, pointers
  <2>6. count[o] = Bit(o \in held) + Cardinality(GrammarOf(o)) - Cardinality(Borrowers(o))
    BY <1>1 DEF ExactByClass
  <2>7. Bit(c \in GrammarOf(o)) \in Int
    BY DEF Bit
  <2> QED BY <1>2, <1>3, <1>4, <1>5, <2>2, <2>3, <2>4, <2>5, <2>6, <2>7
<1>7. ASSUME NEW o \in Buffers \cap made
      PROVE  count'[o] = Bit(o \in held') + Cardinality(BufferOf(o)')
  <2>1. BufferOf(o)' = BufferOf(o) \ {c}
    BY OneClass DEF BufferOf, pointers
  <2>2. Bit(c # Null /\ o = buffer[c]) = Bit(c \in BufferOf(o))
    BY OneClass DEF BufferOf
  <2>3. IsFiniteSet(BufferOf(o)) /\ Cardinality(BufferOf(o)) \in Nat
    BY <1>1, <1>2, HoldersFinite
  <2>4. Cardinality(BufferOf(o)') = Cardinality(BufferOf(o)) - Bit(c \in BufferOf(o))
    BY <2>1, <2>3, OneLess
  <2>5. count[o] = Bit(o \in held) + Cardinality(BufferOf(o))
    BY <1>1 DEF ExactByClass
  <2>6. Bit(c \in BufferOf(o)) \in Int
    BY DEF Bit
  <2> QED BY <1>2, <1>3, <1>4, <1>5, <2>2, <2>3, <2>4, <2>5, <2>6
<1>8. ASSUME NEW o \in Contexts \cap made
      PROVE  count'[o] = Bit(o \in held') + Cardinality(ContextOf(o)')
  <2>1. ContextOf(o)' = ContextOf(o) \ {e}
    BY OneClass DEF ContextOf, pointers
  <2>2. Bit(e # Null /\ o = context[e]) = Bit(e \in ContextOf(o))
    BY OneClass DEF ContextOf
  <2>3. IsFiniteSet(ContextOf(o)) /\ Cardinality(ContextOf(o)) \in Nat
    BY <1>1, <1>2, HoldersFinite
  <2>4. Cardinality(ContextOf(o)') = Cardinality(ContextOf(o)) - Bit(e \in ContextOf(o))
    BY <2>1, <2>3, OneLess
  <2>5. count[o] = Bit(o \in held) + Cardinality(ContextOf(o))
    BY <1>1 DEF ExactByClass
  <2>6. Bit(e \in ContextOf(o)) \in Int
    BY DEF Bit
  <2> QED BY <1>2, <1>3, <1>4, <1>5, <2>2, <2>3, <2>4, <2>5, <2>6
<1>9. ASSUME NEW o \in Charts \cap made
      PROVE  count'[o] = Bit(o \in held') + Cardinality(ChartOf(o)')
  <2>1. ChartOf(o)' = ChartOf(o) \ {e}
    BY OneClass DEF ChartOf, pointers
  <2>2. Bit(e # Null /\ o = chart[e]) = Bit(e \in ChartOf(o))
    BY OneClass DEF ChartOf
  <2>3. IsFiniteSet(ChartOf(o)) /\ Cardinality(ChartOf(o)) \in Nat
    BY <1>1, <1>2, HoldersFinite
  <2>4. Cardinality(ChartOf(o)') = Cardinality(ChartOf(o)) - Bit(e \in ChartOf(o))
    BY <2>1, <2>3, OneLess
  <2>5. count[o] = Bit(o \in held) + Cardinality(ChartOf(o))
    BY <1>1 DEF ExactByClass
  <2>6. Bit(e \in ChartOf(o)) \in Int
    BY DEF Bit
  <2> QED BY <1>2, <1>3, <1>4, <1>5, <2>2, <2>3, <2>4, <2>5, <2>6
<1>10. ASSUME NEW o \in Evaluators \cap made
       PROVE  count'[o] = Bit(o \in held')
  BY <1>1, <1>2, <1>4 DEF ExactByClass
<1> QED BY <1>2, <1>6, <1>7, <1>8, <1>9, <1>10 DEF ExactByClass

-----------------------------------------------------------------------------
(* The steps                                                               *)

\* The program's variable keeps an object of the extension alive, and an
\* evaluator keeps its chart.
LEMMA EngineCounts ==
  ASSUME Inv
  PROVE  /\ \A o \in Charts \cap made :
              count[o] = Bit(o \in held) + Cardinality(ChartOf(o))
         /\ \A o \in Charts \cap made : Cardinality(ChartOf(o)) \in Nat
         /\ \A o \in Evaluators \cap made : count[o] = Bit(o \in held)
         /\ \A o \in Charts \cap held : count[o] > 0
         /\ \A e \in Evaluators : e \in Alive /\ chart[e] # Null =>
              chart[e] \in Charts \cap made /\ count[chart[e]] > 0
<1>1. ExactByClass /\ TypeOK /\ PointersMade
  BY ExactIffByClass DEF Inv
<1>2. made \subseteq Objects /\ held \subseteq made
  BY <1>1 DEF TypeOK
<1>3. /\ \A o \in Charts \cap made : count[o] = Bit(o \in held) + Cardinality(ChartOf(o))
      /\ \A o \in Evaluators \cap made : count[o] = Bit(o \in held)
  BY <1>1 DEF ExactByClass
<1>4. \A o \in Charts \cap made : IsFiniteSet(ChartOf(o)) /\ Cardinality(ChartOf(o)) \in Nat
  BY <1>1, <1>2, HoldersFinite
<1>5. \A o \in Charts \cap held : count[o] > 0
  BY <1>2, <1>3, <1>4 DEF Bit
<1>6. ASSUME NEW e \in Evaluators, e \in Alive, chart[e] # Null
      PROVE  chart[e] \in Charts \cap made /\ count[chart[e]] > 0
  <2> PICK c : c = chart[e]
    OBVIOUS
  <2>1. c \in Charts \cap made
    BY <1>1, <1>6 DEF TypeOK, PointersMade
  <2>2. e \in ChartOf(c)
    BY <1>6 DEF ChartOf
  <2>3. Cardinality(ChartOf(c)) # 0
    BY <1>4, <2>1, <2>2, FS_EmptySet
  <2>4. count[c] > 0
    BY <1>3, <1>4, <2>1, <2>3 DEF Bit
  <2> QED BY <2>1, <2>4
<1> QED BY <1>3, <1>4, <1>5, <1>6

\* A variable of a userland object is unset.
LEMMA DropUserland ==
  ASSUME Inv, NEW v \in Userland, Drop(v)
  PROVE  count' \in [Objects -> Int] /\ ExactByClass'
<1>1. /\ v \in held /\ held' = held \ {v} /\ made' = made /\ UNCHANGED pointers
      /\ count' = Released(count, v)
  BY DEF Drop
<1>2. v \in Objects /\ v \notin Charts /\ v \notin Evaluators
  BY OneClass DEF Objects, Userland
<1>3. TypeOK /\ count \in [Objects -> Int]
  BY DEF Inv, TypeOK
<1>4. /\ count' \in [Objects -> Int]
      /\ \A p \in Objects : count'[p] = count[p] - Bit(p = v)
  BY <1>1, <1>2, <1>3, ReleaseChartFacts DEF Released
<1>5. \A o \in Charts : o \in Objects /\ count'[o] = count[o]
  BY <1>2, <1>3, <1>4, OneClass DEF Bit
<1>6. \A o \in Evaluators : o \in Objects /\ count'[o] = count[o]
  BY <1>2, <1>3, <1>4, OneClass DEF Bit
<1>7. \A o \in Charts \cup Evaluators : o \in Alive' <=> o \in Alive
  BY <1>1, <1>5, <1>6 DEF Alive
<1> PICK none : none = Null
  OBVIOUS
<1>8. \A o \in Objects : count'[o] = count[o] - Bit(o = v) - 0
  BY <1>3, <1>4 DEF Bit
<1>9. /\ \A o \in Grammars :
           count'[o] = count[o] - Bit(o = v) - Bit(none # Null /\ o = grammar[none])
      /\ \A o \in Buffers :
           count'[o] = count[o] - Bit(o = v) - Bit(none # Null /\ o = buffer[none])
      /\ \A o \in Contexts :
           count'[o] = count[o] - Bit(o = v) - Bit(none # Null /\ o = context[none])
      /\ \A o \in Charts :
           count'[o] = count[o] - Bit(o = v) - Bit(none # Null /\ o = chart[none])
      /\ \A o \in Evaluators : count'[o] = count[o] - Bit(o = v)
  BY <1>4, <1>8, OneClass DEF Bit
<1>10. /\ none \in Charts \cup {Null} /\ none \in Evaluators \cup {Null}
       /\ \A o \in Charts : o \in Alive' <=> o \in Alive /\ o # none
       /\ \A o \in Evaluators : o \in Alive' <=> o \in Alive /\ o # none
  BY <1>7, OneClass
<1>11. ExactByClass'
  BY <1>1, <1>2, <1>4, <1>9, <1>10, OneClass, GivenUp
<1> QED BY <1>4, <1>11

\* A variable of a chart is unset: with the last reference the chart is freed.
LEMMA DropChart ==
  ASSUME Inv, NEW v \in Charts, Drop(v)
  PROVE  count' \in [Objects -> Int] /\ ExactByClass'
<1>1. /\ v \in held /\ held' = held \ {v} /\ made' = made /\ UNCHANGED pointers
      /\ count' = Released(count, v)
  BY DEF Drop
<1>2. v \in Objects /\ v \notin Evaluators /\ v \in made
  BY <1>1, OneClass DEF Inv, TypeOK
<1>3. TypeOK /\ count \in [Objects -> Int]
  BY DEF Inv, TypeOK
<1>4. count' = ReleaseChart(count, v)
  BY <1>1, <1>2 DEF Released
<1>5. /\ count' \in [Objects -> Int]
      /\ count[v] = 1 => \A p \in Objects :
           count'[p] = count[p] - Bit(p = v) - Bit(p = grammar[v]) - Bit(p = buffer[v])
      /\ count[v] # 1 => \A p \in Objects : count'[p] = count[p] - Bit(p = v)
  BY <1>2, <1>3, <1>4, ReleaseChartFacts
<1>6. count[v] > 0
  BY <1>1, EngineCounts
<1>7. /\ grammar[v] \in Grammars \cup {Null} /\ buffer[v] \in Buffers \cup {Null}
  BY <1>3 DEF TypeOK
<1>8. \A p \in Objects : count[p] \in Int /\ Bit(p = v) \in Int /\ Bit(FALSE) = 0
  BY <1>3 DEF Bit
<1> PICK none \in Evaluators \cup {Null} : none = Null
  OBVIOUS
<1> PICK c \in Charts \cup {Null} : c = IF count[v] = 1 THEN v ELSE Null
  OBVIOUS
<1>9. \A o \in Charts \cup Evaluators :
        o \in Objects /\ o # Null /\ count'[o] = count[o] - Bit(o = v)
  BY <1>5, <1>7, <1>8, OneClass DEF Bit
<1>10. \A o \in Charts : o \in Alive' <=> o \in Alive /\ o # c
  BY <1>1, <1>2, <1>6, <1>8, <1>9 DEF Alive, Bit
<1>11. \A o \in Evaluators : o \in Alive' <=> o \in Alive /\ o # none
  BY <1>1, <1>2, <1>8, <1>9 DEF Alive, Bit
<1>12. c # Null => c \in Alive
  BY <1>2, <1>6 DEF Alive
<1>13. \A o \in Grammars :
         count'[o] = count[o] - Bit(o = v) - Bit(c # Null /\ o = grammar[c])
  BY <1>5, <1>7, <1>8, OneClass DEF Bit
<1>14. \A o \in Buffers :
         count'[o] = count[o] - Bit(o = v) - Bit(c # Null /\ o = buffer[c])
  BY <1>5, <1>7, <1>8, OneClass DEF Bit
<1>15. \A o \in Contexts : count'[o] = count[o] - Bit(o = v) - 0
  BY <1>5, <1>7, <1>8, OneClass DEF Bit
<1>16. /\ \A o \in Contexts :
            count'[o] = count[o] - Bit(o = v) - Bit(none # Null /\ o = context[none])
       /\ \A o \in Charts :
            count'[o] = count[o] - Bit(o = v) - Bit(none # Null /\ o = chart[none])
  BY <1>8, <1>9, <1>15, OneClass DEF Bit
<1>17. ExactByClass'
  BY <1>1, <1>2, <1>5, <1>9, <1>10, <1>11, <1>12, <1>13, <1>14, <1>16, GivenUp
<1> QED BY <1>5, <1>17

\* A variable of an evaluator is unset.  Nothing else refers to it, so it is freed,
\* and its chart with the last reference to that.
LEMMA DropEvaluator ==
  ASSUME Inv, NEW v \in Evaluators, Drop(v)
  PROVE  count' \in [Objects -> Int] /\ ExactByClass'
<1>1. /\ v \in held /\ held' = held \ {v} /\ made' = made /\ UNCHANGED pointers
      /\ count' = Released(count, v)
  BY DEF Drop
<1>2. v \in Objects /\ v \in made
  BY <1>1, OneClass DEF Inv, TypeOK
<1>3. TypeOK /\ count \in [Objects -> Int]
  BY DEF Inv, TypeOK
<1>4. count[v] = 1 /\ v \in Alive
  BY <1>1, <1>2, EngineCounts DEF Bit, Alive
<1> DEFINE m == DelRef(count, v)
<1>5. m \in [Objects -> Int] /\ \A p \in Objects : m[p] = count[p] - Bit(p = v)
  BY <1>2, <1>3, DelRefFacts
<1>6. m[v] = 0
  BY <1>2, <1>4, <1>5 DEF Bit
<1>7. count' = DelRef(ReleaseChart(m, chart[v]), context[v])
  BY <1>1, <1>6 DEF Released, ReleaseEvaluator
<1> HIDE DEF m
<1> PICK d : d = chart[v]
  OBVIOUS
<1>8. /\ d \in Charts \cup {Null} /\ d \in Objects \cup {Null}
      /\ context[v] \in Contexts \cup {Null} /\ context[v] \in Objects \cup {Null}
  BY <1>3, OneClass DEF TypeOK
<1>9. d # Null => d \in Charts \cap made /\ count[d] > 0 /\ d # v /\ m[d] = count[d]
  BY <1>3, <1>4, <1>5, EngineCounts, OneClass DEF Bit
<1> PICK c \in Charts \cup {Null} : c = IF d # Null /\ count[d] = 1 THEN d ELSE Null
  BY <1>8
<1>10. d \in Charts /\ m[d] = 1 <=> c # Null /\ c = d
  BY <1>8, <1>9, OneClass
<1>11. c # Null => c = d
  OBVIOUS
<1>12. /\ ReleaseChart(m, d) \in [Objects -> Int]
       /\ c # Null => \A p \in Objects : ReleaseChart(m, d)[p]
                        = m[p] - Bit(p = d) - Bit(p = grammar[c]) - Bit(p = buffer[c])
       /\ c = Null => \A p \in Objects : ReleaseChart(m, d)[p] = m[p] - Bit(p = d)
  BY <1>3, <1>5, <1>8, <1>10, <1>11, ReleaseChartFacts
<1>13. /\ count' \in [Objects -> Int]
       /\ \A p \in Objects : count'[p] = ReleaseChart(m, d)[p] - Bit(p = context[v])
  BY <1>7, <1>8, <1>12, DelRefFacts
<1>14. \A p \in Objects : /\ count[p] \in Int
                          /\ Bit(p = v) \in Int /\ Bit(p = d) \in Int
  BY <1>3 DEF Bit
<1>15. c # Null => grammar[c] \in Grammars \cup {Null} /\ buffer[c] \in Buffers \cup {Null}
  BY <1>3 DEF TypeOK
<1>16. \A o \in Grammars :
         count'[o] = count[o] - Bit(o = v) - Bit(c # Null /\ o = grammar[c])
  BY <1>5, <1>8, <1>12, <1>13, <1>14, <1>15, OneClass DEF Bit
<1>17. \A o \in Buffers :
         count'[o] = count[o] - Bit(o = v) - Bit(c # Null /\ o = buffer[c])
  BY <1>5, <1>8, <1>12, <1>13, <1>14, <1>15, OneClass DEF Bit
<1>18. \A o \in Contexts :
         count'[o] = count[o] - Bit(o = v) - Bit(v # Null /\ o = context[v])
  BY <1>5, <1>8, <1>12, <1>13, <1>14, <1>15, OneClass DEF Bit
<1>19. \A o \in Charts :
         count'[o] = count[o] - Bit(o = v) - Bit(v # Null /\ o = chart[v])
  BY <1>5, <1>8, <1>12, <1>13, <1>14, <1>15, OneClass DEF Bit
<1>20. \A o \in Evaluators : count'[o] = count[o] - Bit(o = v)
  BY <1>5, <1>8, <1>12, <1>13, <1>14, <1>15, OneClass DEF Bit
<1>21. \A o \in Charts : o \in Alive' <=> o \in Alive /\ o # c
  BY <1>1, <1>2, <1>9, <1>14, <1>19, OneClass DEF Alive, Bit
<1>22. \A o \in Evaluators : o \in Alive' <=> o \in Alive /\ o # v
  BY <1>1, <1>4, <1>14, <1>20, OneClass DEF Alive, Bit
<1>23. c # Null => c \in Alive
  BY <1>9 DEF Alive
<1>24. ExactByClass'
  BY <1>1, <1>2, <1>4, <1>13, <1>16, <1>17, <1>18, <1>19, <1>20, <1>21, <1>22, <1>23, GivenUp
<1> QED BY <1>13, <1>24

\* A step that changes nothing but counts, and the program's variables for fewer,
\* keeps the other parts of the invariant.
LEMMA DropKeeps ==
  ASSUME Inv, NEW v \in Objects, Drop(v)
  PROVE  Inv'
<1>1. /\ held' = held \ {v} /\ made' = made /\ UNCHANGED <<pointers, engine>>
  BY DEF Drop
<1>2. count' \in [Objects -> Int] /\ ExactByClass'
  BY DropUserland, DropChart, DropEvaluator DEF Objects
<1>3. TypeOK'
  BY <1>1, <1>2 DEF Inv, TypeOK, pointers, engine
<1>4. PointersMade' /\ StoredInOrder'
  BY <1>1 DEF Inv, PointersMade, StoredInOrder, pointers
<1>5. TypeOK' /\ PointersMade' => (Exact' <=> ExactByClass')
  BY ExactIffByClass, PTL
<1> QED BY <1>2, <1>3, <1>4, <1>5 DEF Inv

LEMMA CreateKeeps ==
  ASSUME Inv, NEW v \in Objects, Create(v)
  PROVE  Inv'
<1>1. /\ v \notin made /\ made' = made \cup {v} /\ held' = held \cup {v}
      /\ count' = [count EXCEPT ![v] = 1] /\ UNCHANGED <<pointers, engine>>
  BY DEF Create
<1>2. ExactByClass /\ TypeOK /\ PointersMade
  BY ExactIffByClass DEF Inv
<1>3. TypeOK'
  BY <1>1, <1>2 DEF TypeOK, pointers, engine
<1>4. PointersMade'
  BY <1>1, <1>2, FS_AddElement DEF PointersMade, pointers
<1>5. StoredInOrder'
  BY <1>1 DEF Inv, StoredInOrder, pointers
<1>6. /\ count \in [Objects -> Int] /\ held \subseteq made /\ made \subseteq Objects
  BY <1>2 DEF TypeOK
<1>7. count'[v] = 1 /\ \A o \in Objects : o # v => count'[o] = count[o]
  BY <1>1, <1>6
<1>8. \A o \in Objects : o # v => (o \in Alive' <=> o \in Alive)
  BY <1>1, <1>7 DEF Alive
<1>9. /\ \A c \in Charts : c = v => grammar[c] = Null /\ buffer[c] = Null
      /\ \A e \in Evaluators : e = v => chart[e] = Null /\ context[e] = Null
  BY <1>1, <1>2 DEF PointersMade
<1>10. ASSUME NEW o \in Objects
       PROVE  /\ GrammarOf(o)' = GrammarOf(o) /\ BufferOf(o)' = BufferOf(o)
              /\ ChartOf(o)' = ChartOf(o) /\ ContextOf(o)' = ContextOf(o)
              /\ Borrowers(o)' = Borrowers(o)
  <2>1. o # Null
    BY OneClass
  <2>2. /\ \A c \in Charts : grammar[c] = o \/ buffer[c] = o => (c \in Alive' <=> c \in Alive)
        /\ \A e \in Evaluators : chart[e] = o \/ context[e] = o => (e \in Alive' <=> e \in Alive)
    BY <1>8, <1>9, <2>1, OneClass
  <2> QED BY <1>1, <2>2
          DEF GrammarOf, BufferOf, ChartOf, ContextOf, Borrowers, Refused, pointers
<1>11. /\ GrammarOf(v) = {} /\ BufferOf(v) = {} /\ ChartOf(v) = {} /\ ContextOf(v) = {}
       /\ Borrowers(v) = {}
  BY <1>1, <1>2, OneClass
     DEF PointersMade, GrammarOf, BufferOf, ChartOf, ContextOf, Borrowers
<1>12. \A o \in made : /\ o \in Objects /\ o # v /\ count'[o] = count[o]
                       /\ Bit(o \in held') = Bit(o \in held)
  BY <1>1, <1>6, <1>7 DEF Bit
<1>13. /\ count'[v] = Bit(v \in held') /\ Bit(v \in held') = 1 /\ Cardinality({}) = 0
  BY <1>1, <1>7, FS_EmptySet DEF Bit
<1>14. ASSUME NEW o \in made' \cap Grammars
       PROVE  count'[o] = Bit(o \in held') + Cardinality(GrammarOf(o)')
                            - Cardinality(Borrowers(o)')
  <2>1. CASE o = v
    BY <1>10, <1>11, <1>13, <2>1
  <2>2. CASE o # v
    BY <1>1, <1>2, <1>10, <1>12, <2>2 DEF ExactByClass
  <2> QED BY <2>1, <2>2
<1>15. ASSUME NEW o \in made' \cap Buffers
       PROVE  count'[o] = Bit(o \in held') + Cardinality(BufferOf(o)')
  <2>1. CASE o = v
    BY <1>10, <1>11, <1>13, <2>1
  <2>2. CASE o # v
    BY <1>1, <1>2, <1>10, <1>12, <2>2 DEF ExactByClass
  <2> QED BY <2>1, <2>2
<1>16. ASSUME NEW o \in made' \cap Contexts
       PROVE  count'[o] = Bit(o \in held') + Cardinality(ContextOf(o)')
  <2>1. CASE o = v
    BY <1>10, <1>11, <1>13, <2>1
  <2>2. CASE o # v
    BY <1>1, <1>2, <1>10, <1>12, <2>2 DEF ExactByClass
  <2> QED BY <2>1, <2>2
<1>17. ASSUME NEW o \in made' \cap Charts
       PROVE  count'[o] = Bit(o \in held') + Cardinality(ChartOf(o)')
  <2>1. CASE o = v
    BY <1>10, <1>11, <1>13, <2>1
  <2>2. CASE o # v
    BY <1>1, <1>2, <1>10, <1>12, <2>2 DEF ExactByClass
  <2> QED BY <2>1, <2>2
<1>18. ASSUME NEW o \in made' \cap Evaluators
       PROVE  count'[o] = Bit(o \in held')
  BY <1>1, <1>2, <1>12, <1>13 DEF ExactByClass
<1>19. ExactByClass'
  BY <1>14, <1>15, <1>16, <1>17, <1>18 DEF ExactByClass
<1>20. TypeOK' /\ PointersMade' => (Exact' <=> ExactByClass')
  BY ExactIffByClass, PTL
<1> QED BY <1>3, <1>4, <1>5, <1>19, <1>20 DEF Inv

\* Holding one object more.
LEMMA OneMore ==
  ASSUME NEW S, IsFiniteSet(S), NEW T, NEW x, x \notin S, NEW P \in BOOLEAN,
         T = IF P THEN S \cup {x} ELSE S
  PROVE  Cardinality(T) = Cardinality(S) + Bit(P)
<1>1. Cardinality(S) \in Nat
  BY FS_CardinalityType
<1>2. CASE P
  BY <1>2, FS_AddElement DEF Bit
<1>3. CASE ~ P
  BY <1>1, <1>3 DEF Bit
<1> QED BY <1>2, <1>3

\* php_phathom_fetch keeps the type of the cache.
LEMMA FetchFacts ==
  ASSUME Inv, Fetch
  PROVE  /\ request' \in 1..MaxRequests /\ request' = request
         /\ {cached', fetched'} \subseteq 0..MaxRequests
BY LifecycleAssumption DEF Inv, TypeOK, Fetch

\* GC_ADDREF adds one to the count of its object.
LEMMA AddRefFacts ==
  ASSUME NEW n \in [Objects -> Int], NEW o \in Objects
  PROVE  /\ AddRef(n, o) \in [Objects -> Int]
         /\ \A p \in Objects : AddRef(n, o)[p] = n[p] + Bit(p = o)
BY DEF AddRef, Bit

\* A call that changes neither counts nor pointers.
LEMMA RefusedKeeps ==
  ASSUME Inv, Fetch, UNCHANGED <<count, made, held, pointers>>
  PROVE  Inv'
<1>1. TypeOK'
  BY FetchFacts DEF Inv, TypeOK, pointers
<1>2. PointersMade' /\ StoredInOrder'
  BY DEF Inv, PointersMade, StoredInOrder, pointers
<1>3. Exact'
  BY DEF Inv, Exact, Holders, Alive, Borrowers, Refused, pointers
<1> QED BY <1>1, <1>2, <1>3 DEF Inv

\* A chart stores a grammar, and a buffer or none: the counts stay exact if the
\* buffer is counted, and the grammar just when there is one.
LEMMA ChartStores ==
  ASSUME Inv, NEW c \in Charts, NEW a \in Objects, NEW b \in Objects, CallChart(c, a, b),
         a \in Grammars, NEW d \in Buffers \cup {Null}, d # Null => d = b,
         grammar' = [grammar EXCEPT ![c] = a], buffer' = [buffer EXCEPT ![c] = d],
         count' \in [Objects -> Int],
         \A o \in Objects :
           count'[o] = count[o] + (IF d = Null THEN 0 ELSE Bit(o = a) + Bit(o = d))
  PROVE  Inv'
<1>1. /\ {c, a, b} \subseteq held /\ {c, a, b} \subseteq Alive
      /\ grammar[c] = Null /\ Fetch
      /\ made' = made /\ held' = held /\ chart' = chart /\ context' = context
  BY DEF CallChart
<1>2. ExactByClass /\ TypeOK /\ PointersMade /\ StoredInOrder
  BY ExactIffByClass DEF Inv
<1>3. /\ buffer[c] = Null /\ c \in made /\ a \in made /\ b \in made
      /\ made \subseteq Objects /\ \A o \in Objects : count[o] \in Int
  BY <1>1, <1>2 DEF StoredInOrder, TypeOK
<1>4. /\ grammar'[c] = a /\ buffer'[c] = d
      /\ \A e \in Charts : e # c => grammar'[e] = grammar[e] /\ buffer'[e] = buffer[e]
      /\ grammar' \in [Charts -> Grammars \cup {Null}] /\ buffer' \in [Charts -> Buffers \cup {Null}]
  BY <1>2 DEF TypeOK
<1>5. TypeOK'
  BY <1>1, <1>2, <1>4, FetchFacts DEF TypeOK
<1>6. PointersMade'
  <2>1. \A e \in Charts :
          /\ grammar'[e] # Null => e \in made /\ grammar'[e] \in made
          /\ buffer'[e] # Null => e \in made /\ buffer'[e] \in made
    BY <1>2, <1>3, <1>4 DEF PointersMade
  <2> QED BY <1>1, <1>2, <2>1 DEF PointersMade
<1>7. StoredInOrder'
  <2>1. a # Null
    BY OneClass
  <2> QED BY <1>1, <1>2, <1>4, <2>1 DEF StoredInOrder
<1>8. \A o \in Charts \cup Evaluators \cup Contexts : o \in Objects /\ count'[o] = count[o]
  BY <1>3, OneClass DEF Bit
<1>9. \A o \in Charts \cup Evaluators : o \in Alive' <=> o \in Alive
  BY <1>1, <1>8 DEF Alive
<1>10. ASSUME NEW o \in Objects
       PROVE  /\ GrammarOf(o)' = IF o = a THEN GrammarOf(o) \cup {c} ELSE GrammarOf(o)
              /\ BufferOf(o)' = IF o = d THEN BufferOf(o) \cup {c} ELSE BufferOf(o)
              /\ ChartOf(o)' = ChartOf(o) /\ ContextOf(o)' = ContextOf(o)
              /\ Borrowers(o)' = IF o = a /\ d = Null THEN Borrowers(o) \cup {c} ELSE Borrowers(o)
              /\ c \notin GrammarOf(o) /\ c \notin BufferOf(o) /\ c \notin Borrowers(o)
  <2>1. o # Null /\ a # Null
    BY OneClass
  <2>2. GrammarOf(o)' = IF o = a THEN GrammarOf(o) \cup {c} ELSE GrammarOf(o)
    BY <1>1, <1>4, <1>9, <2>1 DEF GrammarOf
  <2>3. BufferOf(o)' = IF o = d THEN BufferOf(o) \cup {c} ELSE BufferOf(o)
    BY <1>1, <1>3, <1>4, <1>9, <2>1 DEF BufferOf
  <2>4. ChartOf(o)' = ChartOf(o) /\ ContextOf(o)' = ContextOf(o)
    BY <1>1, <1>9 DEF ChartOf, ContextOf
  <2>5. Borrowers(o)' = IF o = a /\ d = Null THEN Borrowers(o) \cup {c} ELSE Borrowers(o)
    BY <1>1, <1>4, <2>1 DEF Borrowers, Refused
  <2>6. c \notin GrammarOf(o) /\ c \notin BufferOf(o) /\ c \notin Borrowers(o)
    BY <1>1, <1>3, <2>1 DEF GrammarOf, BufferOf, Borrowers
  <2> QED BY <2>2, <2>3, <2>4, <2>5, <2>6
<1>11. \A o \in Objects : Bit(o \in held') = Bit(o \in held) /\ Bit(o \in held) \in Int
  BY <1>1 DEF Bit
<1>12. ASSUME NEW o \in made' \cap Grammars
       PROVE  count'[o] = Bit(o \in held') + Cardinality(GrammarOf(o)')
                            - Cardinality(Borrowers(o)')
  <2>1. o \in Objects /\ o \in made /\ o # d
    BY <1>1, <1>3, OneClass
  <2>2. /\ IsFiniteSet(GrammarOf(o)) /\ Cardinality(GrammarOf(o)) \in Nat
        /\ IsFiniteSet(Borrowers(o)) /\ Cardinality(Borrowers(o)) \in Nat
    BY <1>2, <2>1, HoldersFinite
  <2>3. /\ Cardinality(GrammarOf(o)') = Cardinality(GrammarOf(o)) + Bit(o = a)
        /\ Cardinality(Borrowers(o)') = Cardinality(Borrowers(o)) + Bit(o = a /\ d = Null)
    BY <1>10, <2>1, <2>2, OneMore
  <2>4. count[o] = Bit(o \in held) + Cardinality(GrammarOf(o)) - Cardinality(Borrowers(o))
    BY <1>2, <2>1 DEF ExactByClass
  <2>5. count'[o] = count[o] + Bit(o = a) - Bit(o = a /\ d = Null)
    BY <1>3, <2>1 DEF Bit
  <2>6. Bit(o = a) \in Int /\ Bit(o = a /\ d = Null) \in Int
    BY DEF Bit
  <2> QED BY <1>11, <2>1, <2>2, <2>3, <2>4, <2>5, <2>6
<1>13. ASSUME NEW o \in made' \cap Buffers
       PROVE  count'[o] = Bit(o \in held') + Cardinality(BufferOf(o)')
  <2>1. o \in Objects /\ o \in made /\ o # a /\ o # Null
    BY <1>1, <1>3, OneClass
  <2>2. IsFiniteSet(BufferOf(o)) /\ Cardinality(BufferOf(o)) \in Nat
    BY <1>2, <2>1, HoldersFinite
  <2>3. Cardinality(BufferOf(o)') = Cardinality(BufferOf(o)) + Bit(o = d)
    BY <1>10, <2>1, <2>2, OneMore
  <2>4. count[o] = Bit(o \in held) + Cardinality(BufferOf(o))
    BY <1>2, <2>1 DEF ExactByClass
  <2>5. count'[o] = count[o] + Bit(o = d)
    BY <1>3, <2>1 DEF Bit
  <2>6. Bit(o = d) \in Int
    BY DEF Bit
  <2> QED BY <1>11, <2>1, <2>2, <2>3, <2>4, <2>5, <2>6
<1>14. ASSUME NEW o \in made'
       PROVE  /\ o \in Contexts => count'[o] = Bit(o \in held') + Cardinality(ContextOf(o)')
              /\ o \in Charts => count'[o] = Bit(o \in held') + Cardinality(ChartOf(o)')
              /\ o \in Evaluators => count'[o] = Bit(o \in held')
  BY <1>1, <1>2, <1>3, <1>8, <1>10, <1>11 DEF ExactByClass
<1>15. ExactByClass'
  BY <1>12, <1>13, <1>14 DEF ExactByClass
<1>16. TypeOK' /\ PointersMade' => (Exact' <=> ExactByClass')
  BY ExactIffByClass, PTL
<1> QED BY <1>5, <1>6, <1>7, <1>15, <1>16 DEF Inv

\* An evaluator stores its chart and its context, and counts both.
LEMMA ConstructEvaluatorKeeps ==
  ASSUME Inv, NEW e \in Evaluators, NEW a \in Objects, NEW b \in Objects,
         ConstructEvaluator(e, a, b)
  PROVE  Inv'
<1>1. /\ {e, a, b} \subseteq held /\ {e, a, b} \subseteq Alive
      /\ chart[e] = Null /\ Fetch
      /\ made' = made /\ held' = held /\ grammar' = grammar /\ buffer' = buffer
  BY DEF ConstructEvaluator, CallEvaluator
<1>2. /\ a \in Charts /\ b \in Contexts
      /\ chart' = [chart EXCEPT ![e] = a] /\ context' = [context EXCEPT ![e] = b]
      /\ count' = AddRef(AddRef(count, a), b)
  BY DEF ConstructEvaluator, Matches
<1>3. ExactByClass /\ TypeOK /\ PointersMade /\ StoredInOrder
  BY ExactIffByClass DEF Inv
<1>4. /\ context[e] = Null /\ e \in made /\ a \in made /\ b \in made
      /\ made \subseteq Objects /\ count \in [Objects -> Int]
      /\ \A o \in Objects : count[o] \in Int
  BY <1>1, <1>3 DEF StoredInOrder, TypeOK
<1>5. /\ count' \in [Objects -> Int]
      /\ \A o \in Objects : count'[o] = count[o] + Bit(o = a) + Bit(o = b)
  <2>1. /\ AddRef(count, a) \in [Objects -> Int]
        /\ \A o \in Objects : AddRef(count, a)[o] = count[o] + Bit(o = a)
    BY <1>4, AddRefFacts
  <2>2. /\ count' \in [Objects -> Int]
        /\ \A o \in Objects : count'[o] = AddRef(count, a)[o] + Bit(o = b)
    BY <1>2, <2>1, AddRefFacts
  <2> QED BY <2>1, <2>2
<1>6. /\ chart'[e] = a /\ context'[e] = b
      /\ \A f \in Evaluators : f # e => chart'[f] = chart[f] /\ context'[f] = context[f]
      /\ chart' \in [Evaluators -> Charts \cup {Null}]
      /\ context' \in [Evaluators -> Contexts \cup {Null}]
  BY <1>2, <1>3 DEF TypeOK
<1>7. TypeOK'
  BY <1>1, <1>3, <1>5, <1>6, FetchFacts DEF TypeOK
<1>8. PointersMade'
  <2>1. \A f \in Evaluators :
          /\ chart'[f] # Null => f \in made /\ chart'[f] \in made
          /\ context'[f] # Null => f \in made /\ context'[f] \in made
    BY <1>3, <1>4, <1>6 DEF PointersMade
  <2> QED BY <1>1, <1>3, <2>1 DEF PointersMade
<1>9. StoredInOrder'
  <2>1. a # Null
    BY OneClass
  <2> QED BY <1>1, <1>3, <1>6, <2>1 DEF StoredInOrder
<1>10. \A o \in Evaluators \cup Grammars \cup Buffers : o \in Objects /\ count'[o] = count[o]
  BY <1>2, <1>4, <1>5, OneClass DEF Bit
<1>11. \A o \in Objects : Bit(o \in held') = Bit(o \in held) /\ Bit(o \in held) \in Int
                            /\ Bit(o = a) \in Nat /\ Bit(o = b) \in Nat
  BY <1>1 DEF Bit
<1>12. \A o \in Charts \cup Evaluators : o \in Alive' <=> o \in Alive
  <2>1. \A o \in Evaluators : o \in Alive' <=> o \in Alive
    BY <1>1, <1>10 DEF Alive
  <2>2. ASSUME NEW o \in Charts PROVE o \in Alive' <=> o \in Alive
    <3>1. CASE o = a
      <4>1. count[o] > 0
        BY <1>1, <3>1 DEF Alive
      <4>2. count'[o] > 0
        BY <1>4, <1>5, <1>11, <3>1, <4>1
      <4> QED BY <1>1, <1>4, <3>1, <4>1, <4>2 DEF Alive
    <3>2. CASE o # a
      <4>1. count'[o] = count[o]
        BY <1>2, <1>4, <1>5, <3>2, OneClass DEF Bit
      <4> QED BY <1>1, <4>1 DEF Alive
    <3> QED BY <3>1, <3>2
  <2> QED BY <2>1, <2>2
<1>13. ASSUME NEW o \in Objects
       PROVE  /\ ChartOf(o)' = IF o = a THEN ChartOf(o) \cup {e} ELSE ChartOf(o)
              /\ ContextOf(o)' = IF o = b THEN ContextOf(o) \cup {e} ELSE ContextOf(o)
              /\ GrammarOf(o)' = GrammarOf(o) /\ BufferOf(o)' = BufferOf(o)
              /\ Borrowers(o)' = Borrowers(o)
              /\ e \notin ChartOf(o) /\ e \notin ContextOf(o)
  <2>1. o # Null
    BY OneClass
  <2>2. ChartOf(o)' = IF o = a THEN ChartOf(o) \cup {e} ELSE ChartOf(o)
    BY <1>1, <1>6, <1>12, <2>1 DEF ChartOf
  <2>3. ContextOf(o)' = IF o = b THEN ContextOf(o) \cup {e} ELSE ContextOf(o)
    BY <1>1, <1>4, <1>6, <1>12, <2>1 DEF ContextOf
  <2>4. GrammarOf(o)' = GrammarOf(o) /\ BufferOf(o)' = BufferOf(o)
    BY <1>1, <1>12 DEF GrammarOf, BufferOf
  <2>5. Borrowers(o)' = Borrowers(o)
    BY <1>1 DEF Borrowers, Refused
  <2>6. e \notin ChartOf(o) /\ e \notin ContextOf(o)
    BY <1>1, <1>4, <2>1 DEF ChartOf, ContextOf
  <2> QED BY <2>2, <2>3, <2>4, <2>5, <2>6
<1>14. ASSUME NEW o \in made' \cap Charts
       PROVE  count'[o] = Bit(o \in held') + Cardinality(ChartOf(o)')
  <2>1. o \in Objects /\ o \in made /\ o # b
    BY <1>1, <1>2, <1>4, OneClass
  <2>2. IsFiniteSet(ChartOf(o)) /\ Cardinality(ChartOf(o)) \in Nat
    BY <1>3, <2>1, HoldersFinite
  <2>3. Cardinality(ChartOf(o)') = Cardinality(ChartOf(o)) + Bit(o = a)
    BY <1>13, <2>1, <2>2, OneMore
  <2>4. count[o] = Bit(o \in held) + Cardinality(ChartOf(o))
    BY <1>3, <2>1 DEF ExactByClass
  <2>5. count'[o] = count[o] + Bit(o = a)
    BY <1>4, <1>5, <2>1 DEF Bit
  <2> QED BY <1>11, <2>1, <2>2, <2>3, <2>4, <2>5
<1>15. ASSUME NEW o \in made' \cap Contexts
       PROVE  count'[o] = Bit(o \in held') + Cardinality(ContextOf(o)')
  <2>1. o \in Objects /\ o \in made /\ o # a
    BY <1>1, <1>2, <1>4, OneClass
  <2>2. IsFiniteSet(ContextOf(o)) /\ Cardinality(ContextOf(o)) \in Nat
    BY <1>3, <2>1, HoldersFinite
  <2>3. Cardinality(ContextOf(o)') = Cardinality(ContextOf(o)) + Bit(o = b)
    BY <1>13, <2>1, <2>2, OneMore
  <2>4. count[o] = Bit(o \in held) + Cardinality(ContextOf(o))
    BY <1>3, <2>1 DEF ExactByClass
  <2>5. count'[o] = count[o] + Bit(o = b)
    BY <1>4, <1>5, <2>1 DEF Bit
  <2> QED BY <1>11, <2>1, <2>2, <2>3, <2>4, <2>5
<1>16. ASSUME NEW o \in made'
       PROVE  /\ o \in Grammars => count'[o] = Bit(o \in held') + Cardinality(GrammarOf(o)')
                                                 - Cardinality(Borrowers(o)')
              /\ o \in Buffers => count'[o] = Bit(o \in held') + Cardinality(BufferOf(o)')
              /\ o \in Evaluators => count'[o] = Bit(o \in held')
  BY <1>1, <1>3, <1>4, <1>10, <1>11, <1>13 DEF ExactByClass
<1>17. ExactByClass'
  BY <1>14, <1>15, <1>16 DEF ExactByClass
<1>18. TypeOK' /\ PointersMade' => (Exact' <=> ExactByClass')
  BY ExactIffByClass, PTL
<1> QED BY <1>7, <1>8, <1>9, <1>17, <1>18 DEF Inv

LEMMA ConstructChartKeeps ==
  ASSUME Inv, NEW c \in Charts, NEW a \in Objects, NEW b \in Objects,
         ConstructChart(c, a, b)
  PROVE  Inv'
<1>1. /\ CallChart(c, a, b) /\ a \in Grammars /\ b \in Buffers
      /\ grammar' = [grammar EXCEPT ![c] = a] /\ buffer' = [buffer EXCEPT ![c] = b]
      /\ count' = AddRef(AddRef(count, a), b)
  BY DEF ConstructChart, Matches
<1>2. count \in [Objects -> Int]
  BY DEF Inv, TypeOK
<1>3. /\ AddRef(count, a) \in [Objects -> Int]
      /\ \A o \in Objects : AddRef(count, a)[o] = count[o] + Bit(o = a)
  BY <1>2, AddRefFacts
<1>4. /\ count' \in [Objects -> Int]
      /\ \A o \in Objects : count'[o] = AddRef(count, a)[o] + Bit(o = b)
  BY <1>1, <1>3, AddRefFacts
<1>5. PICK d \in Buffers \cup {Null} : d = b
  BY <1>1
<1>6. b # Null
  BY OneClass
<1>7. \A o \in Objects : count'[o] = count[o] + (IF d = Null THEN 0 ELSE Bit(o = a) + Bit(o = d))
  BY <1>2, <1>3, <1>4, <1>5, <1>6 DEF Bit
<1>8. /\ grammar' = [grammar EXCEPT ![c] = a] /\ buffer' = [buffer EXCEPT ![c] = d]
      /\ (d # Null => d = b) /\ CallChart(c, a, b) /\ a \in Grammars
  BY <1>1, <1>5
<1>9. count' \in [Objects -> Int]
  BY <1>4
<1> QED BY <1>7, <1>8, <1>9, ChartStores

\* The grammar is stored and not counted, and nothing is stored for the buffer.
LEMMA RefuseBufferKeeps ==
  ASSUME Inv, NEW c \in Charts, NEW a \in Objects, NEW b \in Objects,
         RefuseBuffer(c, a, b)
  PROVE  Inv'
<1>1. /\ CallChart(c, a, b) /\ a \in Grammars
      /\ grammar' = [grammar EXCEPT ![c] = a] /\ buffer' = buffer /\ count' = count
  BY DEF RefuseBuffer, Matches
<1>2. /\ count \in [Objects -> Int] /\ buffer \in [Charts -> Buffers \cup {Null}]
      /\ StoredInOrder /\ grammar[c] = Null
  BY <1>1 DEF Inv, TypeOK, CallChart
<1>0. PICK d \in Buffers \cup {Null} : d = Null
  OBVIOUS
<1>3. buffer' = [buffer EXCEPT ![c] = d]
  BY <1>0, <1>1, <1>2 DEF StoredInOrder
<1>4. \A o \in Objects : count'[o] = count[o] + (IF d = Null THEN 0 ELSE Bit(o = a) + Bit(o = d))
  BY <1>0, <1>1, <1>2
<1>5. count' \in [Objects -> Int] /\ (d # Null => d = b)
  BY <1>0, <1>1, <1>2
<1>6. grammar' = [grammar EXCEPT ![c] = a]
  BY <1>1
<1> QED BY <1>1, <1>3, <1>4, <1>5, <1>6, ChartStores

\* With the request go its objects.
LEMMA NextRequestKeeps ==
  ASSUME Inv, NextRequest
  PROVE  Inv'
<1>1. /\ count' = [o \in Objects |-> 0] /\ made' = {} /\ held' = {}
      /\ grammar' = Unset(Charts) /\ buffer' = Unset(Charts)
      /\ chart' = Unset(Evaluators) /\ context' = Unset(Evaluators)
  BY DEF NextRequest, Blank
<1>2. TypeOK'
  BY <1>1, LifecycleAssumption DEF Inv, TypeOK, NextRequest, Unset
<1>3. PointersMade' /\ StoredInOrder'
  BY <1>1, FS_EmptySet DEF PointersMade, StoredInOrder, Unset
<1>4. Exact'
  BY <1>1 DEF Exact
<1> QED BY <1>2, <1>3, <1>4 DEF Inv

LEMMA InvInit == Init => Inv
<1> SUFFICES ASSUME Init PROVE Inv
  OBVIOUS
<1>1. TypeOK
  BY LifecycleAssumption DEF Init, TypeOK, Unset
<1>2. PointersMade /\ StoredInOrder
  BY FS_EmptySet DEF Init, PointersMade, StoredInOrder, Unset
<1>3. Exact
  BY DEF Init, Exact
<1> QED BY <1>1, <1>2, <1>3 DEF Inv

LEMMA InvNext == Inv /\ [Next]_vars => Inv'
<1> SUFFICES ASSUME Inv, [Next]_vars PROVE Inv'
  OBVIOUS
<1>1. CASE UNCHANGED vars
  BY <1>1 DEF vars, Inv, TypeOK, PointersMade, StoredInOrder, Exact, Holders, Alive,
              Borrowers, Refused
<1>2. ASSUME NEW o \in Objects, Create(o) \/ Drop(o) PROVE Inv'
  BY <1>2, CreateKeeps, DropKeeps
<1>3. ASSUME NEW c \in Charts, NEW a \in Objects, NEW b \in Objects,
             ConstructChart(c, a, b) \/ RefuseBuffer(c, a, b)
      PROVE  Inv'
  BY <1>3, ConstructChartKeeps, RefuseBufferKeeps
<1>4. ASSUME NEW c \in Charts, NEW a \in Objects, NEW b \in Objects, RefuseGrammar(c, a, b)
      PROVE  Inv'
  BY <1>4, RefusedKeeps DEF RefuseGrammar, CallChart, pointers
<1>5. ASSUME NEW e \in Evaluators, NEW a \in Objects, NEW b \in Objects,
             ConstructEvaluator(e, a, b)
      PROVE  Inv'
  BY <1>5, ConstructEvaluatorKeeps
<1>6. ASSUME NEW e \in Evaluators, NEW a \in Objects, NEW b \in Objects,
             RefuseEvaluator(e, a, b)
      PROVE  Inv'
  BY <1>6, RefusedKeeps DEF RefuseEvaluator, CallEvaluator, pointers
<1>7. CASE NextRequest
  BY <1>7, NextRequestKeeps
<1> QED BY <1>1, <1>2, <1>3, <1>4, <1>5, <1>6, <1>7 DEF Next

LEMMA InvAlways == Spec => []Inv
BY InvInit, InvNext, PTL DEF Spec

-----------------------------------------------------------------------------
(* What follows                                                            *)

\* The pointers in charts and evaluators lead to objects of the classes their
\* constructors check for.
THEOREM TypeCorrect == Spec => []TypeOK
<1>1. Inv => TypeOK
  BY DEF Inv
<1> QED BY <1>1, InvAlways, PTL

LEMMA InvExact ==
  ASSUME Inv
  PROVE  CountsExact
<1> SUFFICES ASSUME \A c \in Charts : ~ Refused(c), NEW o \in made
             PROVE  count[o] = Holders(o)
  BY DEF CountsExact
<1>1. Borrowers(o) = {}
  BY DEF Borrowers
<1>2. Cardinality(Borrowers(o)) = 0
  BY <1>1, FS_EmptySet
<1>3. o \in Objects /\ count[o] \in Int
  BY DEF Inv, TypeOK
<1>4. count[o] = Holders(o) - 0
  BY <1>2 DEF Inv, Exact
<1>5. Holders(o) \in Int
  <2>1. \A p \in Objects : Bit(p \in held) \in Int
    BY DEF Bit
  <2> QED BY <1>3, <2>1, HoldersByClass, HoldersFinite, OneClass DEF Inv
<1> QED BY <1>3, <1>4, <1>5

\* While no buffer is refused, create, __construct and the free functions of both
\* engines agree: every object is counted once for each reference to it, whatever is
\* shared and whichever goes first.
THEOREM CountsCorrect == Spec => []CountsExact
<1>1. Inv => CountsExact
  BY InvExact
<1> QED BY <1>1, InvAlways, PTL

\* An evaluator is alive only while the program has it, a chart while the program
\* or such an evaluator does.
LEMMA ReachedEngines ==
  ASSUME Inv
  PROVE  /\ \A e \in Evaluators \cap Alive : e \in held
         /\ \A c \in Charts \cap Alive : c \in Within(held)
<1>1. \A o \in Alive : o \in made /\ count[o] > 0
  BY DEF Alive
<1>2. \A e \in Evaluators \cap Alive : e \in held
  BY <1>1, EngineCounts DEF Bit
<1>3. ASSUME NEW c \in Charts \cap Alive PROVE c \in Within(held)
  <2>1. CASE c \in held
    BY <2>1 DEF Within
  <2>2. CASE c \notin held
    <3>1. Cardinality(ChartOf(c)) # 0
      BY <1>1, <2>2, EngineCounts DEF Bit
    <3>2. ChartOf(c) # {}
      BY <3>1, FS_EmptySet
    <3>3. PICK e \in Evaluators \cap Alive : chart[e] = c
      BY <3>2 DEF ChartOf
    <3>4. c \in Inside(e)
      BY <3>3, OneClass DEF Inside
    <3> QED BY <1>2, <3>3, <3>4 DEF Within
  <2> QED BY <2>1, <2>2
<1> QED BY <1>2, <1>3

LEMMA InvNothingOutlives ==
  ASSUME Inv
  PROVE  NothingOutlives
<1>1. ExactByClass /\ TypeOK /\ PointersMade
  BY ExactIffByClass DEF Inv
<1>2. made \subseteq Objects
  BY <1>1 DEF TypeOK
<1>3. ASSUME NEW o \in made PROVE count[o] <= Holders(o)
  <2>1. o \in Objects /\ Bit(o \in held) \in Int
    BY <1>2 DEF Bit
  <2>2. Holders(o) \in Int /\ Cardinality(Borrowers(o)) \in Nat
    BY <1>1, <2>1, HoldersByClass, HoldersFinite, OneClass
  <2>3. count[o] = Holders(o) - Cardinality(Borrowers(o))
    BY DEF Inv, Exact
  <2> QED BY <2>2, <2>3
<1>4. ASSUME NEW o \in Alive PROVE o \in Within(Within(held))
  <2>1. o \in made /\ o \in Objects /\ count[o] > 0
    BY <1>2 DEF Alive
  <2>2. held \subseteq Within(held) /\ Within(held) \subseteq Within(Within(held))
    BY DEF Within
  <2>3. CASE o \in held \/ o \in Charts \/ o \in Evaluators
    BY <2>2, <2>3, ReachedEngines
  <2>4. CASE o \notin held /\ o \in Grammars
    <3>1. /\ Cardinality(GrammarOf(o)) \in Nat /\ Cardinality(Borrowers(o)) \in Nat
          /\ count[o] = 0 + Cardinality(GrammarOf(o)) - Cardinality(Borrowers(o))
      BY <1>1, <2>1, <2>4, HoldersFinite DEF ExactByClass, Bit
    <3>2. Cardinality(GrammarOf(o)) # 0
      BY <2>1, <3>1
    <3>3. GrammarOf(o) # {}
      BY <3>2, FS_EmptySet
    <3>4. PICK c \in Charts \cap Alive : grammar[c] = o
      BY <3>3 DEF GrammarOf
    <3>5. o \in Inside(c)
      BY <2>1, <3>4, OneClass DEF Inside
    <3> QED BY <3>4, <3>5, ReachedEngines DEF Within
  <2>5. CASE o \notin held /\ o \in Buffers
    <3>1. /\ Cardinality(BufferOf(o)) \in Nat
          /\ count[o] = 0 + Cardinality(BufferOf(o))
      BY <1>1, <2>1, <2>5, HoldersFinite DEF ExactByClass, Bit
    <3>2. Cardinality(BufferOf(o)) # 0
      BY <2>1, <3>1
    <3>3. BufferOf(o) # {}
      BY <3>2, FS_EmptySet
    <3>4. PICK c \in Charts \cap Alive : buffer[c] = o
      BY <3>3 DEF BufferOf
    <3>5. o \in Inside(c)
      BY <2>1, <3>4, OneClass DEF Inside
    <3> QED BY <3>4, <3>5, ReachedEngines DEF Within
  <2>6. CASE o \notin held /\ o \in Contexts
    <3>1. /\ Cardinality(ContextOf(o)) \in Nat
          /\ count[o] = 0 + Cardinality(ContextOf(o))
      BY <1>1, <2>1, <2>6, HoldersFinite DEF ExactByClass, Bit
    <3>2. Cardinality(ContextOf(o)) # 0
      BY <2>1, <3>1
    <3>3. ContextOf(o) # {}
      BY <3>2, FS_EmptySet
    <3>4. PICK e \in Evaluators \cap Alive : context[e] = o
      BY <3>3 DEF ContextOf
    <3>5. o \in Inside(e)
      BY <2>1, <3>4, OneClass DEF Inside
    <3>6. o \in Within(held)
      BY <3>4, <3>5, ReachedEngines DEF Within
    <3> QED BY <2>2, <3>6
  <2> QED BY <2>1, <2>3, <2>4, <2>5, <2>6, OneClass
<1> QED BY <1>3, <1>4 DEF NothingOutlives

\* Whatever is refused: no object is counted more often than it is referred to, and
\* the program can reach whatever is alive, so that nothing is kept for ever.
THEOREM NothingKept == Spec => []NothingOutlives
<1>1. Inv => NothingOutlives
  BY InvNothingOutlives
<1> QED BY <1>1, InvAlways, PTL
=============================================================================
