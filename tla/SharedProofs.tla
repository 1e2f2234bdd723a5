---------------------------- MODULE SharedProofs ----------------------------
(***************************************************************************)
(* The lemmas the proofs of several components rest on.                    *)
(*                                                                         *)
(* Induction over numbers, and functions defined by recursion over them.   *)
(*                                                                         *)
(* Language: the spans of a grammar and an input are closed under its      *)
(* rules, they are the least such set, and they stay spans when the input  *)
(* goes on.                                                                *)
(*                                                                         *)
(* Values and Frames, the operators both evaluators are built from: how    *)
(* often a value is referred to, what taking, releasing and making values  *)
(* does to the counts of the memory, what the frames of a stack hold, own  *)
(* and leave on the heap, and where in the input the tokens of the values  *)
(* there lie.                                                              *)
(*                                                                         *)
(* Each fact about a recursive function is shown to hold of 0 and of n + 1 *)
(* where it holds of n (Induction), of the set of numbers it holds for.    *)
(***************************************************************************)
EXTENDS Language, Frames, FiniteSetTheorems, FunctionTheorems, SequenceTheorems,
        WellFoundedInduction, TLAPS

-----------------------------------------------------------------------------
(* Numbers                                                                 *)

Less == OpToRel(<, Nat)

\* A set of numbers that is not empty has a least one.
LEMMA LessFounded == IsWellFoundedOn(Less, Nat)
  BY NatLessThanWellFounded DEF Less

LEMMA LessThan == \A m, n \in Nat : <<m, n>> \in Less <=> m < n
  BY DEF Less, OpToRel

\* What holds of 0, and of n + 1 where it holds of n, holds of every number: the least
\* number it did not hold of would be the successor of one it holds of.
LEMMA Induction ==
  ASSUME NEW S, 0 \in S, \A n \in Nat : n \in S => n + 1 \in S
  PROVE  Nat \subseteq S
<1>1. SUFFICES ASSUME Nat \ S # {} PROVE FALSE
  OBVIOUS
<1>2. PICK x \in Nat \ S : \A y \in Nat \ S : ~ (<<y, x>> \in Less)
  <2>1. Nat \ S \subseteq Nat
    OBVIOUS
  <2>2. QED
    BY <1>1, <2>1, LessFounded, WFMin
<1>3. x \in Nat /\ x # 0
  BY <1>2
<1>4. x - 1 \in Nat /\ x - 1 < x
  BY <1>3
<1>5. <<x - 1, x>> \in Less
  BY <1>3, <1>4, LessThan
<1>6. x - 1 \in S
  BY <1>2, <1>4, <1>5
<1>7. (x - 1) + 1 = x
  BY <1>3
<1>8. QED
  BY <1>2, <1>4, <1>6, <1>7

\* F gives the value at m from the one at m + 1.
Descends(g, n, V, base, F) ==
  /\ g \in [1..(n + 1) -> V]
  /\ g[n + 1] = base
  /\ \A m \in 1..n : g[m] = F[<<m, g[m + 1]>>]

\* A function given from its last value down exists.
LEMMA Recursion ==
  ASSUME NEW V
  PROVE  \A n \in Nat : \A base \in V : \A F \in [(1..n) \X V -> V] :
           \E g : Descends(g, n, V, base, F)
<1> DEFINE S == {n \in Nat : \A base \in V : \A F \in [(1..n) \X V -> V] :
                               \E g : Descends(g, n, V, base, F)}
<1>1. 0 \in S
  <2>1. SUFFICES ASSUME NEW base \in V, NEW F \in [(1..0) \X V -> V]
                 PROVE  \E g : Descends(g, 0, V, base, F)
    OBVIOUS
  <2>2. Descends([m \in 1..1 |-> base], 0, V, base, F)
    BY DEF Descends
  <2>3. QED
    BY <2>2
<1>2. ASSUME NEW n \in Nat, n \in S PROVE n + 1 \in S
  <2>1. SUFFICES ASSUME NEW base \in V, NEW F \in [(1..(n + 1)) \X V -> V]
                 PROVE  \E g : Descends(g, n + 1, V, base, F)
    OBVIOUS
  <2> DEFINE G == [p \in (1..n) \X V |-> F[p]]
             top == F[<<n + 1, base>>]
  <2>2. <<n + 1, base>> \in (1..(n + 1)) \X V
    OBVIOUS
  <2>3. top \in V
    BY <2>2
  <2>4. \A p \in (1..n) \X V : p \in (1..(n + 1)) \X V
    OBVIOUS
  <2>5. G \in [(1..n) \X V -> V]
    BY <2>4
  <2>6. PICK h : Descends(h, n, V, top, G)
    BY <1>2, <2>3, <2>5
  <2> DEFINE g == [m \in 1..((n + 1) + 1) |-> IF m = n + 2 THEN base ELSE h[m]]
  <2>7. \A m \in 1..(n + 1) : h[m] \in V /\ g[m] = h[m]
    BY <2>6 DEF Descends
  <2>8. g \in [1..((n + 1) + 1) -> V] /\ g[(n + 1) + 1] = base
    <3>1. \A m \in 1..((n + 1) + 1) : m = n + 2 \/ m \in 1..(n + 1)
      OBVIOUS
    <3>2. \A m \in 1..((n + 1) + 1) : g[m] \in V
      BY <2>7, <3>1
    <3>3. (n + 1) + 1 = n + 2 /\ (n + 1) + 1 \in 1..((n + 1) + 1)
      OBVIOUS
    <3>4. QED
      BY <3>2, <3>3
  <2>9. ASSUME NEW m \in 1..(n + 1) PROVE g[m] = F[<<m, g[m + 1]>>]
    <3>1. CASE m = n + 1
      <4>1. g[m + 1] = base
        BY <3>1
      <4>2. h[m] = top
        BY <3>1, <2>6 DEF Descends
      <4>3. QED
        BY <2>7, <3>1, <4>1, <4>2
    <3>2. CASE m # n + 1
      <4>1. m \in 1..n /\ m + 1 \in 1..(n + 1)
        BY <3>2
      <4>2. h[m] = G[<<m, h[m + 1]>>]
        BY <2>6, <4>1 DEF Descends
      <4>3. g[m] = h[m] /\ g[m + 1] = h[m + 1] /\ h[m + 1] \in V
        BY <2>7, <4>1
      <4>4. <<m, h[m + 1]>> \in (1..n) \X V
        BY <4>1, <4>3
      <4>5. G[<<m, h[m + 1]>>] = F[<<m, h[m + 1]>>]
        BY <4>4
      <4>6. QED
        BY <4>2, <4>3, <4>5
    <3>3. QED
      BY <3>1, <3>2
  <2>10. Descends(g, n + 1, V, base, F)
    BY <2>8, <2>9 DEF Descends
  <2>11. QED
    BY <2>10
<1>3. Nat \subseteq S
  <2> HIDE DEF S
  <2>1. QED
    BY <1>1, <1>2, Induction
<1>4. QED
  BY <1>3

\* The same from n down to 1.
LEMMA DownInduction ==
  ASSUME NEW S, NEW n \in Nat, n + 1 \in S, \A m \in 1..n : m + 1 \in S => m \in S
  PROVE  1..(n + 1) \subseteq S
<1> DEFINE T == {k \in Nat : k <= n => (n + 1) - k \in S}
<1>1. 0 \in T
  OBVIOUS
<1>2. ASSUME NEW k \in Nat, k \in T PROVE k + 1 \in T
  <2>1. SUFFICES ASSUME k + 1 <= n PROVE (n + 1) - (k + 1) \in S
    OBVIOUS
  <2> DEFINE m == n - k
  <2>2. m \in 1..n /\ m + 1 = (n + 1) - k /\ m = (n + 1) - (k + 1)
    BY <2>1
  <2>3. (n + 1) - k \in S
    BY <1>2, <2>1
  <2>4. QED
    BY <2>2, <2>3
<1>3. Nat \subseteq T
  <2> HIDE DEF T
  <2>1. QED
    BY <1>1, <1>2, Induction
<1>4. ASSUME NEW m \in 1..(n + 1) PROVE m \in S
  <2> DEFINE k == (n + 1) - m
  <2>1. k \in Nat /\ k <= n /\ (n + 1) - k = m
    OBVIOUS
  <2>2. k \in T
    BY <1>3, <2>1
  <2>3. QED
    BY <2>1, <2>2
<1>5. QED
  BY <1>4

\* F gives the value at m from the one at m - 1.
Ascends(g, n, V, base, F) ==
  /\ g \in [0..n -> V]
  /\ g[0] = base
  /\ \A m \in 1..n : g[m] = F[<<m, g[m - 1]>>]

\* A function given from its first value up exists.
LEMMA Ascent ==
  ASSUME NEW V, NEW n \in Nat, NEW base \in V, NEW F \in [(1..n) \X V -> V]
  PROVE  \E g : Ascends(g, n, V, base, F)
<1> DEFINE G == [p \in (1..n) \X V |-> F[<<(n + 1) - p[1], p[2]>>]]
<1>1. G \in [(1..n) \X V -> V]
  <2>1. ASSUME NEW p \in (1..n) \X V PROVE F[<<(n + 1) - p[1], p[2]>>] \in V
    <3>1. <<(n + 1) - p[1], p[2]>> \in (1..n) \X V
      OBVIOUS
    <3>2. QED
      BY <3>1
  <2>2. QED
    BY <2>1
<1>2. PICK g : Descends(g, n, V, base, G)
  <2> HIDE DEF G
  <2> QED BY <1>1, Recursion
<1> DEFINE h == [m \in 0..n |-> g[(n + 1) - m]]
<1>3. g \in [1..(n + 1) -> V] /\ g[n + 1] = base
  BY <1>2 DEF Descends
<1>4. h \in [0..n -> V]
  <2>1. \A m \in 0..n : (n + 1) - m \in 1..(n + 1)
    OBVIOUS
  <2>2. QED
    BY <1>3, <2>1
<1>5. h[0] = base
  BY <1>3
<1>6. ASSUME NEW m \in 1..n PROVE h[m] = F[<<m, h[m - 1]>>]
  <2> DEFINE d == (n + 1) - m
  <2>1. d \in 1..n /\ (n + 1) - d = m /\ d + 1 = (n + 1) - (m - 1) /\ m - 1 \in 0..n
        /\ m \in 0..n /\ d + 1 \in 1..(n + 1)
    OBVIOUS
  <2>2. h[m] = g[d] /\ h[m - 1] = g[d + 1] /\ g[d + 1] \in V
    BY <1>3, <2>1
  <2>3. g[d] = G[<<d, g[d + 1]>>]
    <3> HIDE DEF G, d
    <3> QED BY <1>2, <2>1 DEF Descends
  <2> HIDE DEF d, h
  <2>4. G[<<d, g[d + 1]>>] = F[<<(n + 1) - d, g[d + 1]>>]
    BY <2>1, <2>2
  <2>5. QED
    BY <2>1, <2>2, <2>3, <2>4
<1>7. Ascends(h, n, V, base, F)
  <2> HIDE DEF h
  <2> QED BY <1>4, <1>5, <1>6 DEF Ascends
<1>8. QED
  BY <1>7

-----------------------------------------------------------------------------
(* Where a list of symbols can end                                         *)

\* The functions EndsOf and Spans define by recursion.
EndsUpTo(symbols, w, p, spans) ==
  CHOOSE ends : ends = [d \in 0..Len(symbols) |->
    IF d = 0 THEN {p}
    ELSE {q \in 0..Len(w) :
            \E m \in ends[d - 1] :
              \/ <<symbols[d], m, q>> \in spans
              \/ q = m + 1 /\ w[q] = symbols[d]}]

\* The symbol x, begun at m, can end at q.
Derives(x, w, m, q, spans) ==
  \/ <<x, m, q>> \in spans
  \/ q = m + 1 /\ w[q] = x

\* One symbol more.
EndsAfter(x, w, before, spans) ==
  {q \in 0..Len(w) : \E m \in before : Derives(x, w, m, q, spans)}

\* The recursive function of EndsOf has its steps.
LEMMA EndsSteps ==
  ASSUME NEW symbols, Len(symbols) \in Nat, NEW w, Len(w) \in Nat,
         NEW p \in Nat, NEW spans
  PROVE  /\ EndsOf(symbols, w, p, spans) = EndsUpTo(symbols, w, p, spans)[Len(symbols)]
         /\ EndsUpTo(symbols, w, p, spans)[0] = {p}
         /\ \A d \in 1..Len(symbols) :
              EndsUpTo(symbols, w, p, spans)[d] =
                EndsAfter(symbols[d], w, EndsUpTo(symbols, w, p, spans)[d - 1], spans)
<1> DEFINE ends == EndsUpTo(symbols, w, p, spans)
           l == Len(symbols)
           V == SUBSET Nat
           Step(h) == [d \in 0..l |->
             IF d = 0 THEN {p} ELSE EndsAfter(symbols[d], w, h[d - 1], spans)]
           F == [c \in (1..l) \X V |-> EndsAfter(symbols[c[1]], w, c[2], spans)]
<1>1. F \in [(1..l) \X V -> V]
  <2>1. ASSUME NEW c \in (1..l) \X V PROVE EndsAfter(symbols[c[1]], w, c[2], spans) \in V
    <3>1. 0..Len(w) \subseteq Nat
      OBVIOUS
    <3> QED BY <3>1 DEF EndsAfter
  <2> QED BY <2>1
<1>2. PICK g : Ascends(g, l, V, {p}, F)
  <2>1. {p} \in V /\ l \in Nat
    OBVIOUS
  <2> HIDE DEF F, V, l
  <2> QED BY <1>1, <2>1, Ascent
<1>3. g = Step(g)
  <2>1. ASSUME NEW d \in 0..l
        PROVE  g[d] = IF d = 0 THEN {p} ELSE EndsAfter(symbols[d], w, g[d - 1], spans)
    <3>1. CASE d = 0
      BY <1>2, <3>1 DEF Ascends
    <3>2. CASE d # 0
      <4>1. d \in 1..l /\ d - 1 \in 0..l
        BY <3>2
      <4>2. g[d] = F[<<d, g[d - 1]>>] /\ g[d - 1] \in V
        <5> HIDE DEF F, V
        <5> QED BY <1>2, <4>1 DEF Ascends
      <4>3. <<d, g[d - 1]>> \in (1..l) \X V
        BY <4>1, <4>2
      <4>4. F[<<d, g[d - 1]>>] = EndsAfter(symbols[d], w, g[d - 1], spans)
        BY <4>3
      <4> QED BY <3>2, <4>2, <4>4
    <3> QED BY <3>1, <3>2
  <2>2. g \in [0..l -> V]
    BY <1>2 DEF Ascends
  <2> HIDE DEF l, V
  <2> QED BY <2>1, <2>2, Zenon
<1>4. ends = Step(ends)
  <2>1. ends = CHOOSE h : h = Step(h)
    BY DEF EndsUpTo, EndsAfter, Derives
  <2> HIDE DEF Step, ends
  <2> QED BY <1>3, <2>1
<1>5. EndsOf(symbols, w, p, spans) = ends[l]
  BY DEF EndsOf, EndsUpTo
<1> HIDE DEF ends
<1>6. ends[0] = {p}
  BY <1>4
<1>7. ASSUME NEW d \in 1..l
      PROVE  ends[d] = EndsAfter(symbols[d], w, ends[d - 1], spans)
  <2>1. d \in 0..l /\ d # 0
    OBVIOUS
  <2> QED BY <1>4, <2>1
<1> QED BY <1>5, <1>6, <1>7 DEF ends

\* A list of symbols ends within the input.
LEMMA EndsInput ==
  ASSUME NEW symbols, Len(symbols) \in Nat, NEW w, Len(w) \in Nat,
         NEW p \in 0..Len(w), NEW spans
  PROVE  EndsOf(symbols, w, p, spans) \subseteq 0..Len(w)
<1>1. /\ EndsOf(symbols, w, p, spans) = EndsUpTo(symbols, w, p, spans)[Len(symbols)]
      /\ EndsUpTo(symbols, w, p, spans)[0] = {p}
      /\ \A d \in 1..Len(symbols) :
           EndsUpTo(symbols, w, p, spans)[d] =
             EndsAfter(symbols[d], w, EndsUpTo(symbols, w, p, spans)[d - 1], spans)
  BY EndsSteps
<1>2. CASE Len(symbols) = 0
  BY <1>1, <1>2
<1>3. CASE Len(symbols) # 0
  <2>1. Len(symbols) \in 1..Len(symbols)
    BY <1>3
  <2> QED BY <1>1, <2>1 DEF EndsAfter
<1> QED BY <1>2, <1>3

\* More spans, or an input that goes on, end a list of symbols in more places.
LEMMA EndsGrow ==
  ASSUME NEW symbols, Len(symbols) \in Nat, NEW p \in Nat,
         NEW w, Len(w) \in Nat, NEW v, Len(v) \in Nat, Len(w) <= Len(v),
         \A q \in 1..Len(w) : w[q] = v[q],
         NEW S, NEW T, S \subseteq T
  PROVE  /\ \A d \in 0..Len(symbols) :
              EndsUpTo(symbols, w, p, S)[d] \subseteq EndsUpTo(symbols, v, p, T)[d]
         /\ EndsOf(symbols, w, p, S) \subseteq EndsOf(symbols, v, p, T)
<1> DEFINE a == EndsUpTo(symbols, w, p, S)
           b == EndsUpTo(symbols, v, p, T)
           Good == {d \in Nat : d <= Len(symbols) => a[d] \subseteq b[d]}
<1>1. /\ EndsOf(symbols, w, p, S) = a[Len(symbols)] /\ a[0] = {p}
      /\ \A d \in 1..Len(symbols) : a[d] = EndsAfter(symbols[d], w, a[d - 1], S)
  BY EndsSteps
<1>2. /\ EndsOf(symbols, v, p, T) = b[Len(symbols)] /\ b[0] = {p}
      /\ \A d \in 1..Len(symbols) : b[d] = EndsAfter(symbols[d], v, b[d - 1], T)
  BY EndsSteps
<1> HIDE DEF a, b
<1>3. 0 \in Good
  BY <1>1, <1>2
<1>4. ASSUME NEW d \in Nat, d \in Good PROVE d + 1 \in Good
  <2>1. SUFFICES ASSUME d + 1 <= Len(symbols) PROVE a[d + 1] \subseteq b[d + 1]
    OBVIOUS
  <2>2. d + 1 \in 1..Len(symbols) /\ (d + 1) - 1 = d /\ d <= Len(symbols)
    BY <2>1
  <2>3. a[d + 1] = EndsAfter(symbols[d + 1], w, a[d], S)
    BY <1>1, <2>2
  <2>4. b[d + 1] = EndsAfter(symbols[d + 1], v, b[d], T)
    BY <1>2, <2>2
  <2>5. a[d] \subseteq b[d]
    BY <1>4, <2>2
  <2>6. ASSUME NEW q \in 0..Len(w), NEW m, Derives(symbols[d + 1], w, m, q, S), m \in b[d]
        PROVE  q \in b[d + 1]
    <3>1. q \in 0..Len(v)
      OBVIOUS
    <3>2. m \in Nat
      <4>1. CASE d = 0
        BY <1>2, <2>6, <4>1
      <4>2. CASE d # 0
        <5>1. b[d] = EndsAfter(symbols[d], v, b[d - 1], T)
          BY <1>2, <2>2, <4>2
        <5> QED BY <2>6, <5>1 DEF EndsAfter
      <4> QED BY <4>1, <4>2
    <3>3. Derives(symbols[d + 1], v, m, q, T)
      <4>1. CASE <<symbols[d + 1], m, q>> \in S
        BY <4>1 DEF Derives
      <4>2. CASE q = m + 1 /\ w[q] = symbols[d + 1]
        <5>1. q \in 1..Len(w)
          BY <3>2, <4>2
        <5> QED BY <4>2, <5>1 DEF Derives
      <4> QED BY <2>6, <4>1, <4>2 DEF Derives
    <3> QED BY <2>4, <2>6, <3>1, <3>3 DEF EndsAfter
  <2> QED BY <2>3, <2>5, <2>6 DEF EndsAfter
<1>5. Nat \subseteq Good
  <2> HIDE DEF Good
  <2> QED BY <1>3, <1>4, Induction
<1>6. \A d \in 0..Len(symbols) : a[d] \subseteq b[d]
  BY <1>5
<1>7. Len(symbols) \in 0..Len(symbols)
  OBVIOUS
<1> QED BY <1>1, <1>2, <1>6, <1>7 DEF a, b

\* Spans that end no earlier than they begin.
Proper(w, spans) ==
  \A x, m, q : <<x, m, q>> \in spans => m \in Nat /\ q \in 0..Len(w) /\ m <= q

\* There is a span of S that T has not, between p and q.
OnlyIn(S, T, p, q) ==
  \E x, m, r : /\ <<x, m, r>> \in S /\ <<x, m, r>> \notin T
               /\ p <= m /\ m <= r /\ r <= q

\* A list of symbols ends no earlier than it begins; and where it ends by the spans
\* of S but not by those of T, there is a span of S between that is not in T.
LEMMA EndsBetween ==
  ASSUME NEW symbols, Len(symbols) \in Nat, NEW w, Len(w) \in Nat, NEW p \in 0..Len(w),
         NEW S, NEW T, Proper(w, S)
  PROVE  \A q \in EndsOf(symbols, w, p, S) :
           /\ q \in 0..Len(w) /\ p <= q
           /\ \/ q \in EndsOf(symbols, w, p, T)
              \/ OnlyIn(S, T, p, q)
<1> DEFINE a == EndsUpTo(symbols, w, p, S)
           b == EndsUpTo(symbols, w, p, T)
           Good == {d \in Nat : d <= Len(symbols) =>
                      \A q \in a[d] : q \in 0..Len(w) /\ p <= q /\ (q \in b[d] \/ OnlyIn(S, T, p, q))}
<1>1. /\ p \in Nat /\ EndsOf(symbols, w, p, S) = a[Len(symbols)] /\ a[0] = {p}
      /\ \A d \in 1..Len(symbols) : a[d] = EndsAfter(symbols[d], w, a[d - 1], S)
  BY EndsSteps
<1>2. /\ EndsOf(symbols, w, p, T) = b[Len(symbols)] /\ b[0] = {p}
      /\ \A d \in 1..Len(symbols) : b[d] = EndsAfter(symbols[d], w, b[d - 1], T)
  BY <1>1, EndsSteps
<1> HIDE DEF a, b
<1>3. 0 \in Good
  BY <1>1, <1>2
<1>4. ASSUME NEW d \in Nat, d \in Good PROVE d + 1 \in Good
  <2>1. SUFFICES ASSUME d + 1 <= Len(symbols), NEW q \in a[d + 1]
                 PROVE  q \in 0..Len(w) /\ p <= q /\ (q \in b[d + 1] \/ OnlyIn(S, T, p, q))
    OBVIOUS
  <2>2. d + 1 \in 1..Len(symbols) /\ (d + 1) - 1 = d /\ d <= Len(symbols)
    BY <2>1
  <2>3. a[d + 1] = EndsAfter(symbols[d + 1], w, a[d], S)
    BY <1>1, <2>2
  <2>4. b[d + 1] = EndsAfter(symbols[d + 1], w, b[d], T)
    BY <1>2, <2>2
  <2>5. q \in 0..Len(w) /\ \E m \in a[d] : Derives(symbols[d + 1], w, m, q, S)
    BY <2>1, <2>3 DEF EndsAfter
  <2>6. PICK m \in a[d] : Derives(symbols[d + 1], w, m, q, S)
    BY <2>5
  <2>7. m \in 0..Len(w) /\ p <= m /\ (m \in b[d] \/ OnlyIn(S, T, p, m))
    BY <1>4, <2>2, <2>6
  <2>8. m <= q
    BY <2>5, <2>6, <2>7 DEF Derives, Proper
  <2>9. p <= q
    BY <2>5, <2>7, <2>8
  <2>10. CASE OnlyIn(S, T, p, m)
    <3>1. PICK x, n, r : /\ <<x, n, r>> \in S /\ <<x, n, r>> \notin T
                         /\ p <= n /\ n <= r /\ r <= m
      BY <2>10 DEF OnlyIn
    <3>2. n \in Nat /\ r \in Nat
      BY <3>1 DEF Proper
    <3>3. r <= q
      BY <2>5, <2>7, <2>8, <3>1, <3>2
    <3>4. OnlyIn(S, T, p, q)
      BY <3>1, <3>3 DEF OnlyIn
    <3> QED BY <2>5, <2>9, <3>4
  <2>11. CASE m \in b[d] /\ ~ Derives(symbols[d + 1], w, m, q, T)
    <3>1. <<symbols[d + 1], m, q>> \in S /\ <<symbols[d + 1], m, q>> \notin T
      BY <2>6, <2>11 DEF Derives
    <3>2. q <= q
      BY <2>5
    <3>3. OnlyIn(S, T, p, q)
      BY <2>7, <2>8, <3>1, <3>2 DEF OnlyIn
    <3> QED BY <2>5, <2>9, <3>3
  <2>12. CASE m \in b[d] /\ Derives(symbols[d + 1], w, m, q, T)
    <3>1. q \in b[d + 1]
      BY <2>4, <2>5, <2>12 DEF EndsAfter
    <3> QED BY <2>5, <2>9, <3>1
  <2> QED BY <2>7, <2>10, <2>11, <2>12
<1>5. Nat \subseteq Good
  <2> HIDE DEF Good
  <2> QED BY <1>3, <1>4, Induction
<1>6. Len(symbols) \in Good
  BY <1>5
<1> QED BY <1>1, <1>2, <1>6 DEF a, b

-----------------------------------------------------------------------------
(* Spans                                                                   *)

\* What these lemmas need to know of a grammar.
FiniteRules(g) ==
  /\ IsFiniteSet(DOMAIN g.rules)
  /\ \A x \in DOMAIN g.rules : \A k \in 1..Len(g.rules[x]) :
       Len(g.rules[x][k].symbols) \in Nat

Levels(g, w) == Cardinality(DOMAIN g.rules) * (Len(w) + 1)

SpansUpTo(g, w) ==
  CHOOSE spans : spans = [n \in 0..Levels(g, w) |->
    IF n = 0 THEN {} ELSE MoreSpans(g, w, spans[n - 1])]

\* What MoreSpans is, span by span.
LEMMA MoreSpansAre ==
  ASSUME NEW g, NEW w, NEW spans
  PROVE  /\ \A x, p, q :
              <<x, p, q>> \in MoreSpans(g, w, spans) <=>
                /\ x \in DOMAIN g.rules /\ p \in 0..Len(w)
                /\ \E k \in 1..Len(g.rules[x]) :
                     q \in EndsOf(g.rules[x][k].symbols, w, p, spans)
         /\ \A s \in MoreSpans(g, w, spans) : s = <<s[1], s[2], s[3]>>
<1> DEFINE Found(x, p) == UNION {EndsOf(g.rules[x][k].symbols, w, p, spans) :
                                   k \in 1..Len(g.rules[x])}
           From(x, p) == {<<x, p, q>> : q \in Found(x, p)}
           Family == {From(x, p) : x \in DOMAIN g.rules, p \in 0..Len(w)}
<1>1. MoreSpans(g, w, spans) = UNION Family
  BY DEF MoreSpans
<1>2. \A x, p, q : q \in Found(x, p) <=>
        \E k \in 1..Len(g.rules[x]) : q \in EndsOf(g.rules[x][k].symbols, w, p, spans)
  OBVIOUS
<1> HIDE DEF Found
<1>3. ASSUME NEW x \in DOMAIN g.rules, NEW p \in 0..Len(w), NEW q \in Found(x, p)
      PROVE  <<x, p, q>> \in MoreSpans(g, w, spans)
  <2>1. <<x, p, q>> \in From(x, p)
    OBVIOUS
  <2> HIDE DEF From
  <2>2. From(x, p) \in Family
    OBVIOUS
  <2> HIDE DEF Family
  <2> QED BY <1>1, <2>1, <2>2
<1>5. ASSUME NEW x, NEW p, NEW q, <<x, p, q>> \in MoreSpans(g, w, spans)
      PROVE  x \in DOMAIN g.rules /\ p \in 0..Len(w) /\ q \in Found(x, p)
  <2>1. PICK y \in DOMAIN g.rules, r \in 0..Len(w) : <<x, p, q>> \in From(y, r)
    BY <1>1, <1>5
  <2>2. PICK t \in Found(y, r) : <<x, p, q>> = <<y, r, t>>
    BY <2>1
  <2>3. x = y /\ p = r /\ q = t
    BY <2>2
  <2> QED BY <2>3
<1>4. \A s \in MoreSpans(g, w, spans) : s = <<s[1], s[2], s[3]>>
  BY <1>1
<1> QED BY <1>2, <1>3, <1>4, <1>5

\* A span ends within the input, and no earlier than it begins.
LEMMA MoreProper ==
  ASSUME NEW g, FiniteRules(g), NEW w, Len(w) \in Nat, NEW spans, Proper(w, spans)
  PROVE  Proper(w, MoreSpans(g, w, spans))
<1> SUFFICES ASSUME NEW x, NEW p, NEW q, <<x, p, q>> \in MoreSpans(g, w, spans)
             PROVE  p \in Nat /\ q \in 0..Len(w) /\ p <= q
  BY DEF Proper
<1>1. x \in DOMAIN g.rules /\ p \in 0..Len(w)
  BY MoreSpansAre
<1>2. PICK k \in 1..Len(g.rules[x]) : q \in EndsOf(g.rules[x][k].symbols, w, p, spans)
  BY MoreSpansAre
<1>3. Len(g.rules[x][k].symbols) \in Nat
  BY <1>1 DEF FiniteRules
<1>4. q \in 0..Len(w) /\ p <= q
  BY <1>1, <1>2, <1>3, EndsBetween
<1> QED BY <1>1, <1>4

LEMMA MoreSpansGrow ==
  ASSUME NEW g, FiniteRules(g), NEW w, Len(w) \in Nat, NEW v, Len(v) \in Nat,
         Len(w) <= Len(v), \A q \in 1..Len(w) : w[q] = v[q], NEW S, NEW T, S \subseteq T
  PROVE  MoreSpans(g, w, S) \subseteq MoreSpans(g, v, T)
<1> SUFFICES ASSUME NEW x, NEW p, NEW q, <<x, p, q>> \in MoreSpans(g, w, S)
             PROVE  <<x, p, q>> \in MoreSpans(g, v, T)
  BY MoreSpansAre
<1>1. x \in DOMAIN g.rules /\ p \in 0..Len(w)
  BY MoreSpansAre
<1>2. PICK k \in 1..Len(g.rules[x]) : q \in EndsOf(g.rules[x][k].symbols, w, p, S)
  BY MoreSpansAre
<1>3. Len(g.rules[x][k].symbols) \in Nat /\ p \in Nat /\ p \in 0..Len(v)
  BY <1>1 DEF FiniteRules
<1>4. q \in EndsOf(g.rules[x][k].symbols, v, p, T)
  BY <1>2, <1>3, EndsGrow
<1> QED BY <1>1, <1>3, <1>4, MoreSpansAre

\* h holds the spans of derivations up to each height.
Iterates(h, n, g, w) ==
  /\ h[0] = {}
  /\ \A m \in 1..n : h[m] = MoreSpans(g, w, h[m - 1])

\* The recursive function of Spans has its steps.
LEMMA SpansSteps ==
  ASSUME NEW g, FiniteRules(g), NEW w, Len(w) \in Nat
  PROVE  /\ Levels(g, w) \in Nat
         /\ Spans(g, w) = SpansUpTo(g, w)[Levels(g, w)]
         /\ Iterates(SpansUpTo(g, w), Levels(g, w), g, w)
<1> DEFINE spans == SpansUpTo(g, w)
           l == Levels(g, w)
           V == {S \in SUBSET ((DOMAIN g.rules) \X Nat \X Nat) : Proper(w, S)}
           Step(h) == [n \in 0..l |-> IF n = 0 THEN {} ELSE MoreSpans(g, w, h[n - 1])]
           F == [c \in (1..l) \X V |-> MoreSpans(g, w, c[2])]
<1>1. l \in Nat
  <2>1. Cardinality(DOMAIN g.rules) \in Nat
    BY FS_CardinalityType DEF FiniteRules
  <2> QED BY <2>1 DEF Levels
<1>2. ASSUME NEW S \in V PROVE MoreSpans(g, w, S) \in V
  <2>1. Proper(w, MoreSpans(g, w, S))
    BY MoreProper
  <2>2. ASSUME NEW s \in MoreSpans(g, w, S) PROVE s \in (DOMAIN g.rules) \X Nat \X Nat
    <3>1. s = <<s[1], s[2], s[3]>>
      BY MoreSpansAre
    <3>2. s[1] \in DOMAIN g.rules
      BY <3>1, MoreSpansAre
    <3>3. s[2] \in Nat /\ s[3] \in 0..Len(w)
      BY <2>1, <3>1 DEF Proper
    <3>4. s[3] \in Nat
      BY <3>3
    <3>5. \A a \in DOMAIN g.rules : \A b, c \in Nat :
            <<a, b, c>> \in (DOMAIN g.rules) \X Nat \X Nat
      OBVIOUS
    <3>6. <<s[1], s[2], s[3]>> \in (DOMAIN g.rules) \X Nat \X Nat
      BY ONLY <3>2, <3>3, <3>4, <3>5, Zenon
    <3> QED BY ONLY <3>1, <3>6, Zenon
  <2> QED BY <2>1, <2>2
<1>3. F \in [(1..l) \X V -> V]
  <2> HIDE DEF V, l
  <2> QED BY <1>2
<1>4. {} \in V
  BY DEF Proper
<1>5. PICK g0 : Ascends(g0, l, V, {}, F)
  <2> HIDE DEF F, V, l
  <2> QED BY <1>1, <1>3, <1>4, Ascent
<1>6. g0 = Step(g0)
  <2>1. g0 \in [0..l -> V] /\ g0[0] = {}
    BY <1>5 DEF Ascends
  <2>2. ASSUME NEW n \in 0..l
        PROVE  g0[n] = IF n = 0 THEN {} ELSE MoreSpans(g, w, g0[n - 1])
    <3>1. CASE n = 0
      BY <2>1, <3>1
    <3>2. CASE n # 0
      <4>1. n \in 1..l /\ n - 1 \in 0..l
        BY <1>1, <3>2
      <4> HIDE DEF l, V
      <4>2. g0[n - 1] \in V
        BY <2>1, <4>1
      <4>3. g0[n] = F[<<n, g0[n - 1]>>]
        <5> HIDE DEF F
        <5> QED BY <1>5, <4>1 DEF Ascends
      <4>4. F[<<n, g0[n - 1]>>] = MoreSpans(g, w, g0[n - 1])
        BY <4>1, <4>2
      <4> QED BY <3>2, <4>3, <4>4
    <3> QED BY <3>1, <3>2
  <2> HIDE DEF l, V
  <2> QED BY <2>1, <2>2, Zenon
<1>7. spans = Step(spans)
  <2>1. spans = CHOOSE h : h = Step(h)
    BY DEF SpansUpTo
  <2> HIDE DEF Step, spans
  <2> QED BY <1>6, <2>1
<1>8. Spans(g, w) = spans[l]
  BY DEF Spans, SpansUpTo, Levels
<1> HIDE DEF spans, l
<1>9. spans[0] = {}
  BY <1>1, <1>7
<1>10. ASSUME NEW n \in 1..l PROVE spans[n] = MoreSpans(g, w, spans[n - 1])
  <2>1. n \in 0..l /\ n # 0
    BY <1>1
  <2> QED BY <1>7, <2>1
<1> QED BY <1>1, <1>8, <1>9, <1>10 DEF spans, l, Iterates

\* n pairs of a name and a length, each that of a span of S between p and q.
Nested(E, n, S, p, q) ==
  /\ IsFiniteSet(E) /\ Cardinality(E) = n
  /\ \A e \in E : \E x, m, r : /\ <<x, m, r>> \in S /\ e = <<x, r - m>>
                               /\ p <= m /\ m <= r /\ r <= q

\* A span that is not in S adds a pair to those of S within it: a span of S with the
\* same name and length would be the same span.
LEMMA OneLonger ==
  ASSUME NEW w, Len(w) \in Nat, NEW S, Proper(w, S), NEW T, S \subseteq T,
         NEW x, NEW p \in Nat, NEW q \in Nat, p <= q,
         <<x, p, q>> \in T, <<x, p, q>> \notin S,
         NEW m \in Nat, NEW r \in Nat, p <= m, m <= r, r <= q,
         NEW E, NEW n \in Nat, Nested(E, n, S, m, r)
  PROVE  Nested(E \cup {<<x, q - p>>}, n + 1, T, p, q)
<1>1. IsFiniteSet(E) /\ Cardinality(E) = n
  BY DEF Nested
<1>2. <<x, q - p>> \notin E
  <2>1. SUFFICES ASSUME <<x, q - p>> \in E PROVE FALSE
    OBVIOUS
  <2>2. PICK y, a, b : /\ <<y, a, b>> \in S /\ <<x, q - p>> = <<y, b - a>>
                       /\ m <= a /\ a <= b /\ b <= r
    BY <2>1 DEF Nested
  <2>3. a \in Nat /\ b \in Nat
    BY <2>2 DEF Proper
  <2>4. x = y /\ q - p = b - a
    BY <2>2
  <2>5. a = p /\ b = q
    BY <2>2, <2>3, <2>4
  <2> QED BY <2>2, <2>4, <2>5
<1>3. IsFiniteSet(E \cup {<<x, q - p>>}) /\ Cardinality(E \cup {<<x, q - p>>}) = n + 1
  BY <1>1, <1>2, FS_AddElement
<1>4. ASSUME NEW e \in E \cup {<<x, q - p>>}
      PROVE  \E y, a, b : /\ <<y, a, b>> \in T /\ e = <<y, b - a>>
                          /\ p <= a /\ a <= b /\ b <= q
  <2>1. CASE e \in E
    <3>1. PICK y, a, b : /\ <<y, a, b>> \in S /\ e = <<y, b - a>>
                         /\ m <= a /\ a <= b /\ b <= r
      BY <2>1 DEF Nested
    <3>2. a \in Nat /\ b \in Nat
      BY <3>1 DEF Proper
    <3>3. p <= a /\ b <= q
      BY <3>1, <3>2
    <3> QED BY <3>1, <3>3
  <2>2. CASE e = <<x, q - p>>
    <3>1. p <= p /\ q <= q
      OBVIOUS
    <3> QED BY <2>2, <3>1
  <2> QED BY <2>1, <2>2
<1> QED BY <1>3, <1>4 DEF Nested

\* The spans of each height are proper, and are spans of the next one too.
LEMMA IteratesGrow ==
  ASSUME NEW g, FiniteRules(g), NEW w, Len(w) \in Nat, NEW h, NEW l \in Nat,
         Iterates(h, l, g, w)
  PROVE  \A n \in 0..l : Proper(w, h[n]) /\ h[n] \subseteq MoreSpans(g, w, h[n])
<1> DEFINE Good == {n \in Nat : n <= l =>
                      Proper(w, h[n]) /\ h[n] \subseteq MoreSpans(g, w, h[n])}
<1>1. 0 \in Good
  BY DEF Iterates, Proper
<1>2. ASSUME NEW n \in Nat, n \in Good PROVE n + 1 \in Good
  <2>1. SUFFICES ASSUME n + 1 <= l
                 PROVE  Proper(w, h[n + 1]) /\ h[n + 1] \subseteq MoreSpans(g, w, h[n + 1])
    OBVIOUS
  <2>2. n + 1 \in 1..l /\ (n + 1) - 1 = n /\ n <= l
    BY <2>1
  <2>3. h[n + 1] = MoreSpans(g, w, h[n])
    BY <2>2 DEF Iterates
  <2>4. Proper(w, h[n]) /\ h[n] \subseteq h[n + 1]
    BY <1>2, <2>2, <2>3
  <2>5. MoreSpans(g, w, h[n]) \subseteq MoreSpans(g, w, h[n + 1])
    BY <2>4, MoreSpansGrow
  <2> QED BY <2>3, <2>4, <2>5, MoreProper
<1>3. Nat \subseteq Good
  <2> HIDE DEF Good
  <2> QED BY <1>1, <1>2, Induction
<1> QED BY <1>3

\* A span that n levels do not derive and one more does has a pair for each level: one
\* of the spans it is made of was not there a level earlier.
LEMMA LevelsNested ==
  ASSUME NEW g, FiniteRules(g), NEW w, Len(w) \in Nat, NEW h, NEW l \in Nat,
         Iterates(h, l, g, w)
  PROVE  \A n \in 0..l : \A x, p, q :
           <<x, p, q>> \in MoreSpans(g, w, h[n]) /\ <<x, p, q>> \notin h[n] =>
             \E E : Nested(E, n + 1, MoreSpans(g, w, h[n]), p, q)
<1> DEFINE Late(n) == \A x, p, q :
             <<x, p, q>> \in MoreSpans(g, w, h[n]) /\ <<x, p, q>> \notin h[n] =>
               \E E : Nested(E, n + 1, MoreSpans(g, w, h[n]), p, q)
           Good == {n \in Nat : n <= l => Late(n)}
<1>1. \A n \in 0..l : /\ Proper(w, h[n]) /\ Proper(w, MoreSpans(g, w, h[n]))
                      /\ h[n] \subseteq MoreSpans(g, w, h[n])
  BY IteratesGrow, MoreProper
<1>2. 0 \in Good
  <2>1. SUFFICES ASSUME NEW x, NEW p, NEW q, <<x, p, q>> \in MoreSpans(g, w, h[0]),
                        <<x, p, q>> \notin h[0]
                 PROVE  \E E : Nested(E, 0 + 1, MoreSpans(g, w, h[0]), p, q)
    OBVIOUS
  <2>2. p \in Nat /\ q \in Nat /\ p <= q /\ p <= p /\ q <= q
    <3>1. 0 \in 0..l
      OBVIOUS
    <3>2. Proper(w, MoreSpans(g, w, h[0]))
      BY <1>1, <3>1
    <3> QED BY <2>1, <3>2 DEF Proper
  <2>3. Nested({}, 0, h[0], p, q)
    BY FS_EmptySet DEF Nested
  <2>4. Proper(w, h[0]) /\ h[0] \subseteq MoreSpans(g, w, h[0])
    <3>1. 0 \in 0..l
      OBVIOUS
    <3> QED BY <1>1, <3>1
  <2>5. Nested({} \cup {<<x, q - p>>}, 0 + 1, MoreSpans(g, w, h[0]), p, q)
    BY <2>1, <2>2, <2>3, <2>4, OneLonger
  <2> QED BY <2>5
<1>3. ASSUME NEW n \in Nat, n \in Good PROVE n + 1 \in Good
  <2>1. SUFFICES ASSUME n + 1 <= l, NEW x, NEW p, NEW q,
                        <<x, p, q>> \in MoreSpans(g, w, h[n + 1]),
                        <<x, p, q>> \notin h[n + 1]
                 PROVE  \E E : Nested(E, (n + 1) + 1, MoreSpans(g, w, h[n + 1]), p, q)
    OBVIOUS
  <2>2. n + 1 \in 1..l /\ (n + 1) - 1 = n /\ n <= l /\ n \in 0..l /\ n + 1 \in 0..l
    BY <2>1
  <2>3. h[n + 1] = MoreSpans(g, w, h[n])
    BY <2>2 DEF Iterates
  <2>4. x \in DOMAIN g.rules /\ p \in 0..Len(w)
    BY <2>1, MoreSpansAre
  <2>5. PICK k \in 1..Len(g.rules[x]) :
               q \in EndsOf(g.rules[x][k].symbols, w, p, h[n + 1])
    BY <2>1, MoreSpansAre
  <2>6. q \notin EndsOf(g.rules[x][k].symbols, w, p, h[n])
    BY <2>1, <2>3, <2>4, MoreSpansAre
  <2>7. Len(g.rules[x][k].symbols) \in Nat
    BY <2>4 DEF FiniteRules
  <2>8. Proper(w, h[n + 1]) /\ h[n + 1] \subseteq MoreSpans(g, w, h[n + 1])
    BY <1>1, <2>2
  <2>9. q \in 0..Len(w) /\ p <= q /\ OnlyIn(h[n + 1], h[n], p, q)
    BY <2>4, <2>5, <2>6, <2>7, <2>8, EndsBetween
  <2>10. PICK y, m, r : /\ <<y, m, r>> \in h[n + 1] /\ <<y, m, r>> \notin h[n]
                        /\ p <= m /\ m <= r /\ r <= q
    BY <2>9 DEF OnlyIn
  <2>11. PICK E : Nested(E, n + 1, h[n + 1], m, r)
    BY <1>3, <2>2, <2>3, <2>10
  <2>12. m \in Nat /\ r \in Nat /\ p \in Nat /\ q \in Nat /\ n + 1 \in Nat
    BY <2>4, <2>8, <2>9, <2>10 DEF Proper
  <2>13. Nested(E \cup {<<x, q - p>>}, (n + 1) + 1, MoreSpans(g, w, h[n + 1]), p, q)
    BY <2>1, <2>8, <2>9, <2>10, <2>11, <2>12, OneLonger
  <2> QED BY <2>13
<1>4. Nat \subseteq Good
  <2> HIDE DEF Good
  <2> QED BY <1>2, <1>3, Induction
<1>5. ASSUME NEW n \in 0..l PROVE Late(n)
  BY <1>4
<1> QED BY <1>5

\* Spans takes as many levels as there are: its spans are closed under the rules.
LEMMA SpansClosed ==
  ASSUME NEW g, FiniteRules(g), NEW w, Len(w) \in Nat
  PROVE  /\ Proper(w, Spans(g, w))
         /\ MoreSpans(g, w, Spans(g, w)) \subseteq Spans(g, w)
<1> DEFINE l == Levels(g, w)
           h == SpansUpTo(g, w)
           R == DOMAIN g.rules
           L == 0..Len(w)
<1>1. l \in Nat /\ Spans(g, w) = h[l] /\ Iterates(h, l, g, w)
  BY SpansSteps
<1>2. l \in 0..l
  BY <1>1
<1>3. Cardinality(R \X L) = l /\ IsFiniteSet(R \X L)
  <2>1. IsFiniteSet(R) /\ IsFiniteSet(L) /\ Cardinality(L) = Len(w) + 1
    BY FS_Interval DEF FiniteRules
  <2>2. Cardinality(R \X L) = Cardinality(R) * Cardinality(L) /\ IsFiniteSet(R \X L)
    BY <2>1, FS_Product
  <2> QED BY <2>1, <2>2 DEF Levels
<1> HIDE DEF l, h
<1>4. Proper(w, h[l]) /\ Proper(w, MoreSpans(g, w, h[l]))
  BY <1>1, <1>2, IteratesGrow, MoreProper
<1>5. ASSUME NEW x, NEW p, NEW q,
             <<x, p, q>> \in MoreSpans(g, w, h[l]), <<x, p, q>> \notin h[l]
      PROVE  FALSE
  <2>1. PICK E : Nested(E, l + 1, MoreSpans(g, w, h[l]), p, q)
    BY <1>1, <1>2, <1>5, LevelsNested
  <2>2. E \subseteq R \X L
    <3> SUFFICES ASSUME NEW e \in E PROVE e \in R \X L
      OBVIOUS
    <3>1. PICK y, m, r : /\ <<y, m, r>> \in MoreSpans(g, w, h[l]) /\ e = <<y, r - m>>
                         /\ m <= r
      BY <2>1 DEF Nested
    <3>2. y \in R
      BY <3>1, MoreSpansAre
    <3>3. m \in Nat /\ r \in 0..Len(w)
      BY <1>4, <3>1 DEF Proper
    <3>4. r - m \in L
      BY <3>1, <3>3
    <3> QED BY <3>1, <3>2, <3>4
  <2>3. Cardinality(E) <= l
    BY <1>3, <2>2, FS_Subset
  <2>4. Cardinality(E) = l + 1
    BY <2>1 DEF Nested
  <2> QED BY <1>1, <2>3, <2>4
<1>6. MoreSpans(g, w, h[l]) \subseteq h[l]
  BY <1>5, MoreSpansAre
<1> QED BY <1>1, <1>4, <1>6

\* They are the least such set.
LEMMA SpansLeast ==
  ASSUME NEW g, FiniteRules(g), NEW w, Len(w) \in Nat,
         NEW C, MoreSpans(g, w, C) \subseteq C
  PROVE  Spans(g, w) \subseteq C
<1> DEFINE l == Levels(g, w)
           h == SpansUpTo(g, w)
           Good == {n \in Nat : n <= l => h[n] \subseteq C}
<1>1. l \in Nat /\ Spans(g, w) = h[l] /\ Iterates(h, l, g, w)
  BY SpansSteps
<1> HIDE DEF l, h
<1>2. 0 \in Good
  BY <1>1 DEF Iterates
<1>3. ASSUME NEW n \in Nat, n \in Good PROVE n + 1 \in Good
  <2>1. SUFFICES ASSUME n + 1 <= l PROVE h[n + 1] \subseteq C
    OBVIOUS
  <2>2. n + 1 \in 1..l /\ (n + 1) - 1 = n /\ n <= l
    BY <1>1, <2>1
  <2>3. h[n + 1] = MoreSpans(g, w, h[n])
    BY <1>1, <2>2 DEF Iterates
  <2>4. h[n] \subseteq C /\ Len(w) <= Len(w)
    BY <1>3, <2>2
  <2>5. MoreSpans(g, w, h[n]) \subseteq MoreSpans(g, w, C)
    BY <2>4, MoreSpansGrow
  <2> QED BY <2>3, <2>5
<1>4. Nat \subseteq Good
  <2> HIDE DEF Good
  <2> QED BY <1>2, <1>3, Induction
<1>5. l \in Good
  BY <1>1, <1>4
<1> QED BY <1>1, <1>5

\* The spans of an input stay spans when the input goes on.
LEMMA SpansGrow ==
  ASSUME NEW g, FiniteRules(g), NEW w, Len(w) \in Nat, NEW v, Len(v) \in Nat,
         Len(w) <= Len(v), \A q \in 1..Len(w) : w[q] = v[q]
  PROVE  Spans(g, w) \subseteq Spans(g, v)
<1>1. MoreSpans(g, w, Spans(g, v)) \subseteq MoreSpans(g, v, Spans(g, v))
  BY MoreSpansGrow
<1>2. MoreSpans(g, w, Spans(g, v)) \subseteq Spans(g, v)
  BY <1>1, SpansClosed
<1> QED BY <1>2, SpansLeast

\* The rules of a grammar, as the lemmas about its language take them.
LEMMA RulesFinite ==
  ASSUME NEW g \in Grammars
  PROVE  /\ FiniteRules(g)
         /\ \A r \in DOMAIN g.rules : \A k \in 1..Len(g.rules[r]) :
              g.rules[r][k].symbols \in Seq(Symbols)
<1>1. ASSUME NEW r \in DOMAIN g.rules, NEW k \in 1..Len(g.rules[r])
      PROVE  g.rules[r][k].symbols \in Seq(Symbols) /\ Len(g.rules[r][k].symbols) \in Nat
  <2>1. g.rules[r] \in Seq(Alternatives)
    BY GrammarAssumption
  <2>2. g.rules[r][k] \in Alternatives
    BY <2>1, ElementOfSeq
  <2>3. g.rules[r][k].symbols \in Seq(Symbols)
    BY <2>2, GrammarAssumption
  <2> QED BY <2>3, LenProperties
<1>2. IsFiniteSet(DOMAIN g.rules)
  BY GrammarAssumption
<1> QED BY <1>1, <1>2 DEF FiniteRules

-----------------------------------------------------------------------------
(* Occurrences                                                             *)

PlacesOf(v, vs) == {k \in DOMAIN vs : vs[k] = v}

\* How often v occurs is a number, and 0 only where v is not an entry.
LEMMA OccurrencesType ==
  ASSUME NEW T, NEW vs \in Seq(T), NEW v
  PROVE  /\ IsFiniteSet(PlacesOf(v, vs))
         /\ Occurrences(v, vs) = Cardinality(PlacesOf(v, vs))
         /\ Occurrences(v, vs) \in Nat
         /\ Occurrences(v, vs) = 0 <=> v \notin Range(vs)
<1>1. DOMAIN vs = 1..Len(vs) /\ Len(vs) \in Nat
  OBVIOUS
<1>2. IsFiniteSet(DOMAIN vs)
  BY <1>1, FS_Interval
<1>3. IsFiniteSet(PlacesOf(v, vs))
  BY <1>2, FS_Subset DEF PlacesOf
<1>4. Cardinality(PlacesOf(v, vs)) \in Nat
  BY <1>3, FS_CardinalityType
<1>5. Cardinality(PlacesOf(v, vs)) = 0 <=> PlacesOf(v, vs) = {}
  BY <1>3, FS_EmptySet
<1>6. PlacesOf(v, vs) = {} <=> v \notin Range(vs)
  BY DEF PlacesOf, Range
<1>7. QED
  BY <1>3, <1>4, <1>5, <1>6 DEF Occurrences, PlacesOf

\* Nothing occurs in the empty sequence.
LEMMA OccurrencesNone == \A v : Occurrences(v, << >>) = 0
<1>1. TAKE v
<1>2. PlacesOf(v, << >>) = {}
  BY DEF PlacesOf
<1>3. QED
  BY <1>2, FS_EmptySet DEF Occurrences, PlacesOf

\* Two disjoint finite sets.
LEMMA Disjoint ==
  ASSUME NEW S, NEW T, IsFiniteSet(S), IsFiniteSet(T), S \cap T = {}
  PROVE  /\ IsFiniteSet(S \cup T)
         /\ Cardinality(S \cup T) = Cardinality(S) + Cardinality(T)
<1>1. Cardinality(S \cap T) = 0
  BY FS_EmptySet
<1>2. Cardinality(S \cup T) = Cardinality(S) + Cardinality(T) - Cardinality(S \cap T)
  BY FS_Union
<1>3. Cardinality(S) \in Nat /\ Cardinality(T) \in Nat
  BY FS_CardinalityType
<1>4. IsFiniteSet(S \cup T)
  BY FS_Union
<1>5. QED
  BY <1>1, <1>2, <1>3, <1>4

\* A function that is one to one counts its image.
LEMMA SameCount ==
  ASSUME NEW S, NEW T, IsFiniteSet(S), NEW f \in [S -> T],
         \A x, y \in S : f[x] = f[y] => x = y,
         \A z \in T : \E x \in S : f[x] = z
  PROVE  IsFiniteSet(T) /\ Cardinality(T) = Cardinality(S)
<1>1. f \in Injection(S, T)
  BY Fun_IsInj
<1>2. f \in Surjection(S, T)
  BY Fun_IsSurj
<1>3. ExistsBijection(S, T)
  BY <1>1, <1>2 DEF ExistsBijection, Bijection
<1>4. QED
  BY <1>3, FS_Bijection

\* The entries of a concatenation.
LEMMA ConcatFacts ==
  ASSUME NEW T, NEW vs \in Seq(T), NEW ws \in Seq(T)
  PROVE  /\ vs \o ws \in Seq(T)
         /\ Len(vs \o ws) = Len(vs) + Len(ws)
         /\ \A k \in 1..Len(vs) : (vs \o ws)[k] = vs[k]
         /\ \A k \in 1..Len(ws) : (vs \o ws)[Len(vs) + k] = ws[k]
  OBVIOUS

\* Occurrences add up over a concatenation.
LEMMA OccurrencesConcat ==
  ASSUME NEW T, NEW vs \in Seq(T), NEW ws \in Seq(T), NEW v
  PROVE  Occurrences(v, vs \o ws) = Occurrences(v, vs) + Occurrences(v, ws)
<1> DEFINE n == Len(vs)
           both == vs \o ws
           Late == {k \in DOMAIN both : k > n /\ both[k] = v}
           f == [k \in PlacesOf(v, ws) |-> n + k]
<1>1. /\ both \in Seq(T) /\ Len(both) = n + Len(ws) /\ n \in Nat
      /\ DOMAIN both = 1..(n + Len(ws)) /\ DOMAIN vs = 1..n /\ DOMAIN ws = 1..Len(ws)
      /\ Len(ws) \in Nat
  OBVIOUS
<1>2. \A k \in DOMAIN vs : both[k] = vs[k]
  BY <1>1
<1>3. \A k \in DOMAIN ws : both[n + k] = ws[k] /\ n + k \in DOMAIN both
  BY <1>1
<1>4. PlacesOf(v, both) = PlacesOf(v, vs) \cup Late /\ PlacesOf(v, vs) \cap Late = {}
  BY <1>1, <1>2 DEF PlacesOf
<1>5. IsFiniteSet(PlacesOf(v, ws)) /\ IsFiniteSet(PlacesOf(v, vs))
  BY OccurrencesType
<1>6. IsFiniteSet(Late) /\ Cardinality(Late) = Cardinality(PlacesOf(v, ws))
  <2>1. f \in [PlacesOf(v, ws) -> Late]
    BY <1>1, <1>3 DEF PlacesOf
  <2>2. \A x, y \in PlacesOf(v, ws) : f[x] = f[y] => x = y
    BY <1>1 DEF PlacesOf
  <2>3. ASSUME NEW z \in Late PROVE \E x \in PlacesOf(v, ws) : f[x] = z
    <3>1. z - n \in DOMAIN ws /\ n + (z - n) = z
      BY <1>1
    <3>2. z - n \in PlacesOf(v, ws)
      BY <1>3, <3>1 DEF PlacesOf
    <3>3. QED
      BY <3>1, <3>2
  <2>4. QED
    <3> HIDE DEF f, Late
    <3> QED BY <1>5, <2>1, <2>2, <2>3, SameCount
<1>7. Cardinality(PlacesOf(v, both)) = Cardinality(PlacesOf(v, vs)) + Cardinality(Late)
  <2> HIDE DEF Late
  <2> QED BY <1>4, <1>5, <1>6, Disjoint
<1>8. QED
  BY <1>1, <1>6, <1>7, OccurrencesType

\* A sequence of one holds its entry once.
LEMMA OccurrencesOne ==
  \A v, x : Occurrences(v, <<x>>) = IF x = v THEN 1 ELSE 0
<1>1. TAKE v, x
<1>2. PlacesOf(v, <<x>>) = IF x = v THEN {1} ELSE {}
  BY DEF PlacesOf
<1>3. QED
  BY <1>2, FS_EmptySet, FS_Singleton DEF Occurrences, PlacesOf

\* Appending x is one more occurrence of x.
LEMMA OccurrencesAppend ==
  ASSUME NEW T, NEW vs \in Seq(T), NEW x \in T, NEW v
  PROVE  Occurrences(v, Append(vs, x))
           = Occurrences(v, vs) + IF x = v THEN 1 ELSE 0
<1>1. Append(vs, x) = vs \o <<x>> /\ <<x>> \in Seq(T)
  OBVIOUS
<1>2. Occurrences(v, vs \o <<x>>) = Occurrences(v, vs) + Occurrences(v, <<x>>)
  BY <1>1, OccurrencesConcat
<1>3. Occurrences(v, <<x>>) = IF x = v THEN 1 ELSE 0
  BY OccurrencesOne
<1>4. QED
  BY <1>1, <1>2, <1>3

\* The top n values of a heap.
Topmost(heap, n) == SubSeq(heap, (Len(heap) - n) + 1, Len(heap))

\* What is popped off a heap and what is left of it make it up.
LEMMA OccurrencesPopped ==
  ASSUME NEW T, NEW heap \in Seq(T), NEW n \in 0..Len(heap), NEW v
  PROVE  /\ Popped(heap, n) \in Seq(T)
         /\ Len(Popped(heap, n)) = Len(heap) - n
         /\ \A k \in 1..(Len(heap) - n) : Popped(heap, n)[k] = heap[k]
         /\ Topmost(heap, n) \in Seq(T)
         /\ Len(Topmost(heap, n)) = n
         /\ \A k \in 1..n : Topmost(heap, n)[k] = heap[(Len(heap) - n) + k]
         /\ Occurrences(v, heap)
              = Occurrences(v, Popped(heap, n)) + Occurrences(v, Topmost(heap, n))
<1> DEFINE l == Len(heap)
           low == Popped(heap, n)
           top == Topmost(heap, n)
<1>1. l \in Nat /\ l - n \in 0..l /\ n \in Nat
  OBVIOUS
<1>2. /\ low \in Seq(T) /\ Len(low) = l - n
      /\ \A k \in 1..(l - n) : low[k] = heap[k]
  BY <1>1 DEF Popped
<1>3. /\ top \in Seq(T) /\ Len(top) = n
      /\ \A k \in 1..n : top[k] = heap[(l - n) + k]
  BY <1>1 DEF Topmost
<1>4. heap = low \o top
  <2> DEFINE both == low \o top
  <2>1. /\ both \in Seq(T) /\ Len(both) = (l - n) + n
        /\ \A k \in 1..(l - n) : both[k] = low[k]
        /\ \A k \in 1..n : both[(l - n) + k] = top[k]
    <3> HIDE DEF low, top
    <3>1. low \in Seq(T) /\ top \in Seq(T) /\ Len(low) = l - n /\ Len(top) = n
      BY <1>2, <1>3
    <3>2. /\ low \o top \in Seq(T)
          /\ Len(low \o top) = Len(low) + Len(top)
          /\ \A k \in 1..Len(low) : (low \o top)[k] = low[k]
          /\ \A k \in 1..Len(top) : (low \o top)[Len(low) + k] = top[k]
      BY <3>1, ConcatFacts
    <3>3. QED
      BY <1>2, <1>3, <3>1, <3>2
  <2> HIDE DEF both, low, top
  <2>2. ASSUME NEW k \in 1..l PROVE both[k] = heap[k]
    <3>1. CASE k \in 1..(l - n)
      BY <1>2, <2>1, <3>1
    <3>2. CASE k \notin 1..(l - n)
      <4> DEFINE j == k - (l - n)
      <4>1. j \in 1..n /\ (l - n) + j = k
        BY <1>1, <3>2
      <4>2. both[(l - n) + j] = top[j] /\ top[j] = heap[(l - n) + j]
        BY <1>3, <2>1, <4>1
      <4>3. QED
        BY <4>1, <4>2
    <3>3. QED
      BY <3>1, <3>2
  <2>3. Len(both) = l
    BY <1>1, <2>1
  <2>4. both = heap
    BY <2>1, <2>2, <2>3
  <2>5. QED
    BY <2>4 DEF both
<1>5. Occurrences(v, heap) = Occurrences(v, low) + Occurrences(v, top)
  <2> HIDE DEF low, top
  <2> QED BY <1>2, <1>3, <1>4, OccurrencesConcat
<1>6. QED
  BY <1>2, <1>3, <1>5

-----------------------------------------------------------------------------
(* Partial arrays                                                          *)

\* The entries of a partial array still to be filled are those slots lists.
Open(partial, slots) ==
  /\ partial \in Seq(Int)
  /\ slots \in Seq(Nat)
  /\ \A s, t \in DOMAIN slots : slots[s] = slots[t] => s = t
  /\ Range(slots) \subseteq DOMAIN partial
  /\ \A k \in DOMAIN partial :
       IF k \in Range(slots) THEN partial[k] = Undef ELSE partial[k] \in Nat

\* The filled array: its slots are the values popped, the others are as they were.
LEMMA FilledEntries ==
  ASSUME NEW partial, NEW slots, Open(partial, slots),
         NEW heap \in Seq(Nat), Len(slots) <= Len(heap)
  PROVE  LET args == Filled(partial, slots, heap) IN
         /\ args \in Seq(Nat) /\ Len(args) = Len(partial)
         /\ \A s \in DOMAIN slots :
              args[slots[s]] = heap[(Len(heap) + 1) - s]
         /\ \A k \in DOMAIN partial : k \notin Range(slots) => args[k] = partial[k]
         /\ \A k \in DOMAIN partial : args[k] \in Range(heap) \/ args[k] = partial[k]
<1> DEFINE args == Filled(partial, slots, heap)
<1>1. /\ partial \in Seq(Int) /\ slots \in Seq(Nat)
      /\ DOMAIN partial = 1..Len(partial) /\ Len(partial) \in Nat
      /\ DOMAIN slots = 1..Len(slots) /\ Len(slots) \in Nat
      /\ DOMAIN heap = 1..Len(heap) /\ Len(heap) \in Nat
  BY DEF Open
<1>2. /\ DOMAIN args = DOMAIN partial
      /\ \A k \in DOMAIN partial :
           args[k] = IF k \in Range(slots) THEN heap[(Len(heap) + 1) - SlotOf(slots, k)]
                                           ELSE partial[k]
  <2>1. DOMAIN args = DOMAIN partial
    BY DEF Filled
  <2>2. ASSUME NEW k \in DOMAIN partial
        PROVE  args[k] = IF k \in Range(slots) THEN heap[(Len(heap) + 1) - SlotOf(slots, k)]
                                               ELSE partial[k]
    BY DEF Filled
  <2>3. QED
    <3> HIDE DEF args
    <3> QED BY <2>1, <2>2
<1>3. ASSUME NEW s \in DOMAIN slots
      PROVE  /\ slots[s] \in Range(slots) /\ SlotOf(slots, slots[s]) = s
             /\ (Len(heap) + 1) - s \in DOMAIN heap
             /\ slots[s] \in DOMAIN partial
  <2>1. slots[s] \in Range(slots)
    BY DEF Range
  <2>2. SlotOf(slots, slots[s]) \in DOMAIN slots /\ slots[SlotOf(slots, slots[s])] = slots[s]
    BY DEF SlotOf
  <2>3. SlotOf(slots, slots[s]) = s
    BY <2>2 DEF Open
  <2>4. (Len(heap) + 1) - s \in DOMAIN heap
    BY <1>1
  <2>5. QED
    BY <2>1, <2>3, <2>4 DEF Open
<1> HIDE DEF args
<1>4. \A s \in DOMAIN slots : args[slots[s]] = heap[(Len(heap) + 1) - s]
  BY <1>2, <1>3
<1>5. \A k \in DOMAIN partial : k \notin Range(slots) => args[k] = partial[k]
  BY <1>2
<1>6. \A k \in DOMAIN partial : k \in Range(slots) => \E s \in DOMAIN slots : slots[s] = k
  BY DEF Range
<1>7. \A s \in DOMAIN slots : heap[(Len(heap) + 1) - s] \in Range(heap)
  BY <1>3 DEF Range
<1>8. \A k \in DOMAIN partial : args[k] \in Range(heap) \/ args[k] = partial[k]
  <2>1. TAKE k \in DOMAIN partial
  <2>2. CASE k \in Range(slots)
    <3>1. PICK s \in DOMAIN slots : slots[s] = k
      BY <1>6, <2>2
    <3>2. args[k] = heap[(Len(heap) + 1) - s]
      BY <1>4, <3>1
    <3>3. QED
      BY <1>7, <3>2
  <2>3. QED
    BY <1>5, <2>2
<1>9. Range(heap) \subseteq Nat
  BY DEF Range
<1>10. \A k \in DOMAIN partial : args[k] \in Nat
  <2>1. TAKE k \in DOMAIN partial
  <2>2. CASE k \in Range(slots)
    BY <1>4, <1>6, <1>7, <1>9, <2>2
  <2>3. CASE k \notin Range(slots)
    BY <1>5, <2>3 DEF Open
  <2>4. QED
    BY <2>2, <2>3
<1>11. args \in Seq(Nat) /\ Len(args) = Len(partial)
  <2>1. args = [k \in 1..Len(partial) |-> args[k]]
    BY <1>1, <1>2 DEF args, Filled
  <2>2. QED
    BY <1>1, <1>10, <2>1
<1>12. QED
  BY <1>4, <1>5, <1>8, <1>11 DEF args

\* Filling moves references from the heap to the array, and drops none.
LEMMA FilledOccurrences ==
  ASSUME NEW partial, NEW slots, Open(partial, slots),
         NEW heap \in Seq(Nat), Len(slots) <= Len(heap), NEW v \in Nat
  PROVE  Occurrences(v, Filled(partial, slots, heap))
           + Occurrences(v, Popped(heap, Len(slots)))
         = Occurrences(v, partial) + Occurrences(v, heap)
<1> DEFINE args == Filled(partial, slots, heap)
           m == Len(slots)
           l == Len(heap)
           top == Topmost(heap, m)
           New == {k \in Range(slots) : args[k] = v}
           f == [j \in PlacesOf(v, top) |-> slots[(m + 1) - j]]
<1>1. /\ partial \in Seq(Int) /\ slots \in Seq(Nat)
      /\ DOMAIN slots = 1..m /\ m \in Nat /\ l \in Nat /\ m <= l
      /\ Range(slots) \subseteq DOMAIN partial
  BY DEF Open
<1>2. /\ args \in Seq(Nat) /\ DOMAIN args = DOMAIN partial
      /\ \A s \in DOMAIN slots : args[slots[s]] = heap[(l + 1) - s]
      /\ \A k \in DOMAIN partial : k \notin Range(slots) => args[k] = partial[k]
  <2>1. Len(slots) <= Len(heap)
    OBVIOUS
  <2>2. /\ args \in Seq(Nat) /\ Len(args) = Len(partial)
        /\ \A s \in DOMAIN slots : args[slots[s]] = heap[(Len(heap) + 1) - s]
        /\ \A k \in DOMAIN partial : k \notin Range(slots) => args[k] = partial[k]
    BY <2>1, FilledEntries
  <2>3. QED
    <3> HIDE DEF args
    <3> QED BY <1>1, <2>2
<1>3. m \in 0..l
  BY <1>1
<1>4. /\ top \in Seq(Nat) /\ Len(top) = m
      /\ \A k \in 1..m : top[k] = heap[(l - m) + k]
      /\ Popped(heap, m) \in Seq(Nat)
      /\ Occurrences(v, heap) = Occurrences(v, Popped(heap, m)) + Occurrences(v, top)
  <2>1. Len(slots) \in 0..Len(heap)
    BY <1>3
  <2>2. /\ top \in Seq(Nat) /\ Len(top) = Len(slots)
        /\ \A k \in 1..Len(slots) : top[k] = heap[(Len(heap) - Len(slots)) + k]
    BY <2>1, OccurrencesPopped
  <2>3. /\ Popped(heap, Len(slots)) \in Seq(Nat)
        /\ Occurrences(v, heap)
             = Occurrences(v, Popped(heap, Len(slots))) + Occurrences(v, top)
    BY <2>1, OccurrencesPopped
  <2>4. QED
    BY <2>2, <2>3
<1> HIDE DEF args, top
<1>5. IsFiniteSet(PlacesOf(v, top)) /\ IsFiniteSet(PlacesOf(v, partial))
  BY <1>1, <1>4, OccurrencesType
<1>6. \A k \in Range(slots) : partial[k] # v
  BY <1>1 DEF Open, Undef
<1>7. PlacesOf(v, args) = PlacesOf(v, partial) \cup New /\ PlacesOf(v, partial) \cap New = {}
  BY <1>1, <1>2, <1>6 DEF PlacesOf
<1>8. IsFiniteSet(New) /\ Cardinality(New) = Cardinality(PlacesOf(v, top))
  <2>1. ASSUME NEW j \in PlacesOf(v, top)
        PROVE  /\ (m + 1) - j \in DOMAIN slots /\ j \in 1..m
               /\ slots[(m + 1) - j] \in New
    <3>1. j \in 1..m /\ top[j] = v
      BY <1>4 DEF PlacesOf
    <3>2. (m + 1) - j \in DOMAIN slots /\ (l + 1) - ((m + 1) - j) = (l - m) + j
      BY <1>1, <3>1
    <3>3. args[slots[(m + 1) - j]] = heap[(l - m) + j]
      BY <1>2, <3>2
    <3>4. args[slots[(m + 1) - j]] = v
      BY <1>4, <3>1, <3>3
    <3>5. QED
      BY <3>1, <3>2, <3>4 DEF Range
  <2>2. f \in [PlacesOf(v, top) -> New]
    BY <2>1
  <2>3. ASSUME NEW x \in PlacesOf(v, top), NEW y \in PlacesOf(v, top), f[x] = f[y] PROVE x = y
    <3>1. slots[(m + 1) - x] = slots[(m + 1) - y]
      BY <2>3
    <3>2. (m + 1) - x = (m + 1) - y
      BY <2>1, <3>1 DEF Open
    <3>3. QED
      BY <1>1, <2>1, <3>2
  <2>4. ASSUME NEW z \in New PROVE \E x \in PlacesOf(v, top) : f[x] = z
    <3>1. PICK s \in DOMAIN slots : slots[s] = z
      BY DEF Range
    <3> DEFINE j == (m + 1) - s
    <3>2. j \in 1..m /\ (m + 1) - j = s /\ (l - m) + j = (l + 1) - s
      <4>1. s \in 1..m /\ m \in Nat /\ l \in Nat
        BY <1>1
      <4>2. \A a, b \in Nat : \A c \in 1..a :
              /\ (a + 1) - c \in 1..a /\ (a + 1) - ((a + 1) - c) = c
              /\ (b - a) + ((a + 1) - c) = (b + 1) - c
        OBVIOUS
      <4> HIDE DEF m, l
      <4>3. QED
        BY <4>1, <4>2
    <3>3. top[j] = v
      BY <1>2, <1>4, <3>1, <3>2
    <3>4. j \in PlacesOf(v, top)
      BY <1>4, <3>2, <3>3 DEF PlacesOf
    <3>5. QED
      BY <3>1, <3>2, <3>4
  <2>5. QED
    <3> HIDE DEF f, New
    <3> QED BY <1>5, <2>2, <2>3, <2>4, SameCount
<1>9. Cardinality(PlacesOf(v, args)) = Cardinality(PlacesOf(v, partial)) + Cardinality(New)
  <2> HIDE DEF New
  <2> QED BY <1>5, <1>7, <1>8, Disjoint
<1>10. /\ Occurrences(v, args) = Cardinality(PlacesOf(v, args))
       /\ Occurrences(v, partial) = Cardinality(PlacesOf(v, partial))
       /\ Occurrences(v, top) = Cardinality(PlacesOf(v, top))
       /\ Occurrences(v, args) \in Nat /\ Occurrences(v, partial) \in Nat
       /\ Occurrences(v, top) \in Nat /\ Occurrences(v, Popped(heap, m)) \in Nat
  BY <1>1, <1>2, <1>4, OccurrencesType
<1>11. Occurrences(v, args) = Occurrences(v, partial) + Occurrences(v, top)
  BY <1>8, <1>9, <1>10
<1>12. QED
  BY <1>4, <1>10, <1>11 DEF args

-----------------------------------------------------------------------------
(* References from memory                                                  *)

\* Every cell refers to older cells only.
MemOK(mem) ==
  /\ mem \in Seq(Cell)
  /\ \A m \in DOMAIN mem : \A k \in DOMAIN mem[m].elems : mem[m].elems[k] < m

Places(mem, n, v) == {n} \X PlacesOf(v, mem[n].elems)

AllPlaces(mem, cells, v) == UNION {Places(mem, n, v) : n \in cells}

\* The fields of a cell.
LEMMA CellFacts ==
  ASSUME NEW mem \in Seq(Cell), NEW n \in DOMAIN mem
  PROVE  /\ mem[n] \in Cell /\ mem[n].elems \in Seq(Nat) /\ mem[n].count \in Int
         /\ n \in 1..Len(mem)
<1>1. mem[n] \in Cell /\ n \in 1..Len(mem)
  OBVIOUS
<1>2. QED
  BY <1>1 DEF Cell

\* References from the cells of S are counted by their places.
LEMMA WithinIs ==
  \A mem, cells, v : Within(mem, cells, v) = Cardinality(AllPlaces(mem, cells, v))
  BY DEF Within, AllPlaces, Places, PlacesOf

\* The places are finitely many.
LEMMA WithinPlaces ==
  ASSUME NEW mem \in Seq(Cell), NEW cells \in SUBSET DOMAIN mem, NEW v
  PROVE  /\ IsFiniteSet(AllPlaces(mem, cells, v))
         /\ Within(mem, cells, v) \in Nat
<1> DEFINE S == {Places(mem, n, v) : n \in cells}
           f == [n \in cells |-> Places(mem, n, v)]
<1>1. IsFiniteSet(cells)
  <2>1. DOMAIN mem = 1..Len(mem) /\ Len(mem) \in Nat
    OBVIOUS
  <2>2. IsFiniteSet(DOMAIN mem)
    BY <2>1, FS_Interval
  <2>3. QED
    BY <2>2, FS_Subset
<1>2. IsFiniteSet(S)
  <2>1. f \in [cells -> S]
    OBVIOUS
  <2>2. \A T \in S : \E n \in cells : f[n] = T
    OBVIOUS
  <2>3. f \in Surjection(cells, S)
    <3> HIDE DEF f, S
    <3> QED BY <2>1, <2>2, Fun_IsSurj
  <2>4. QED
    <3> HIDE DEF f, S
    <3> QED BY <1>1, <2>3, FS_Surjection
<1>3. ASSUME NEW T \in S PROVE IsFiniteSet(T)
  <2>1. PICK n \in cells : T = Places(mem, n, v)
    OBVIOUS
  <2>2. mem[n].elems \in Seq(Nat)
    BY CellFacts
  <2>3. IsFiniteSet(PlacesOf(v, mem[n].elems))
    BY <2>2, OccurrencesType
  <2>4. IsFiniteSet({n})
    BY FS_Singleton
  <2>5. QED
    BY <2>1, <2>3, <2>4, FS_Product DEF Places
<1>4. IsFiniteSet(UNION S)
  <2> HIDE DEF S
  <2> QED BY <1>2, <1>3, FS_UNION
<1>5. AllPlaces(mem, cells, v) = UNION S
  BY DEF AllPlaces
<1>6. QED
  BY <1>4, <1>5, WithinIs, FS_CardinalityType

\* References from disjoint sets of cells add up.
LEMMA WithinSplit ==
  ASSUME NEW mem \in Seq(Cell), NEW S \in SUBSET DOMAIN mem,
         NEW T \in SUBSET DOMAIN mem, S \cap T = {}, NEW v
  PROVE  Within(mem, S \cup T, v) = Within(mem, S, v) + Within(mem, T, v)
<1>1. IsFiniteSet(AllPlaces(mem, S, v)) /\ IsFiniteSet(AllPlaces(mem, T, v))
  BY WithinPlaces
<1>2. AllPlaces(mem, S \cup T, v) = AllPlaces(mem, S, v) \cup AllPlaces(mem, T, v)
  BY DEF AllPlaces
<1>3. AllPlaces(mem, S, v) \cap AllPlaces(mem, T, v) = {}
  BY DEF AllPlaces, Places
<1>4. QED
  BY <1>1, <1>2, <1>3, WithinIs, Disjoint

\* Those from one cell are the occurrences in its elements.
LEMMA WithinOne ==
  ASSUME NEW mem \in Seq(Cell), NEW n \in DOMAIN mem, NEW v
  PROVE  Within(mem, {n}, v) = Occurrences(v, mem[n].elems)
<1> DEFINE S == PlacesOf(v, mem[n].elems)
           f == [k \in S |-> <<n, k>>]
<1>1. AllPlaces(mem, {n}, v) = {n} \X S
  BY DEF AllPlaces, Places
<1>2. mem[n].elems \in Seq(Nat)
  BY CellFacts
<1>3. IsFiniteSet(S) /\ Occurrences(v, mem[n].elems) = Cardinality(S)
  BY <1>2, OccurrencesType
<1>4. Cardinality({n} \X S) = Cardinality(S)
  <2>1. f \in [S -> {n} \X S]
    OBVIOUS
  <2>2. \A x, y \in S : f[x] = f[y] => x = y
    OBVIOUS
  <2>3. \A z \in {n} \X S : \E x \in S : f[x] = z
    OBVIOUS
  <2>4. QED
    <3> HIDE DEF f, S
    <3> QED BY <1>3, <2>1, <2>2, <2>3, SameCount
<1>5. QED
  BY <1>1, <1>3, <1>4, WithinIs

\* Cells with the same elements refer as often.
LEMMA WithinSame ==
  ASSUME NEW mem, NEW other, NEW S, \A n \in S : other[n].elems = mem[n].elems, NEW v
  PROVE  Within(other, S, v) = Within(mem, S, v)
<1>1. AllPlaces(other, S, v) = AllPlaces(mem, S, v)
  BY DEF AllPlaces, Places
<1>2. QED
  BY <1>1, WithinIs

\* Only the cells that refer to a value count.
LEMMA WithinReferring ==
  ASSUME NEW mem, NEW S, NEW T \in SUBSET S,
         NEW v, \A n \in S \ T : v \notin Range(mem[n].elems)
  PROVE  Within(mem, S, v) = Within(mem, T, v)
<1>1. \A n \in S \ T : Places(mem, n, v) = {}
  BY DEF Places, PlacesOf, Range
<1>2. AllPlaces(mem, S, v) = AllPlaces(mem, T, v)
  BY <1>1 DEF AllPlaces
<1>3. QED
  BY <1>2, WithinIs

\* No cell, no reference.
LEMMA WithinEmpty == \A mem, v : Within(mem, {}, v) = 0
<1>1. \A mem, v : AllPlaces(mem, {}, v) = {}
  BY DEF AllPlaces
<1>2. QED
  BY <1>1, WithinIs, FS_EmptySet

-----------------------------------------------------------------------------
(* Counts                                                                  *)

\* The counts in memory are exact for these holders.
Exact(mem, holders) ==
  /\ MemOK(mem)
  /\ holders \in Seq(Int)
  /\ Counted(mem, holders)

\* What exact counts say of each cell.
LEMMA ExactFacts ==
  ASSUME NEW mem, NEW holders, Exact(mem, holders)
  PROVE  /\ mem \in Seq(Cell) /\ Len(mem) \in Nat /\ DOMAIN mem = 1..Len(mem)
         /\ Alive(mem) \in SUBSET DOMAIN mem
         /\ \A c \in DOMAIN mem :
              /\ mem[c].count = Occurrences(c, holders) + Within(mem, Alive(mem), c)
              /\ Occurrences(c, holders) \in Nat
              /\ Within(mem, Alive(mem), c) \in Nat
              /\ mem[c].count \in Nat
<1>1. mem \in Seq(Cell) /\ Len(mem) \in Nat /\ DOMAIN mem = 1..Len(mem)
  BY DEF Exact, MemOK
<1>2. Alive(mem) \in SUBSET DOMAIN mem
  BY DEF Alive
<1>3. ASSUME NEW c \in DOMAIN mem
      PROVE  /\ mem[c].count = Occurrences(c, holders) + Within(mem, Alive(mem), c)
             /\ Occurrences(c, holders) \in Nat
             /\ Within(mem, Alive(mem), c) \in Nat
  <2>1. Occurrences(c, holders) \in Nat
    BY OccurrencesType DEF Exact
  <2>2. Within(mem, Alive(mem), c) \in Nat
    BY <1>1, <1>2, WithinPlaces
  <2>3. QED
    BY <2>1, <2>2 DEF Exact, Counted
<1>4. QED
  BY <1>1, <1>2, <1>3

\* What is held, and what a value that is alive refers to, is alive.
LEMMA HeldAlive ==
  ASSUME NEW mem, NEW holders, Exact(mem, holders),
         NEW c \in DOMAIN mem, c \in Range(holders)
  PROVE  c \in Alive(mem)
<1>1. Occurrences(c, holders) # 0
  BY OccurrencesType DEF Exact
<1>2. /\ mem[c].count = Occurrences(c, holders) + Within(mem, Alive(mem), c)
      /\ Occurrences(c, holders) \in Nat /\ Within(mem, Alive(mem), c) \in Nat
  BY ExactFacts
<1>3. QED
  BY <1>1, <1>2 DEF Alive

\* A value that somebody refers to is alive.
LEMMA ReferredAlive ==
  ASSUME NEW mem, NEW holders, Exact(mem, holders), NEW m \in Alive(mem),
         NEW c \in DOMAIN mem, c \in Range(mem[m].elems)
  PROVE  c \in Alive(mem)
<1> DEFINE A == Alive(mem)
<1>1. mem \in Seq(Cell) /\ A \in SUBSET DOMAIN mem /\ m \in DOMAIN mem
  BY ExactFacts
<1>2. Within(mem, {m}, c) # 0
  <2>1. mem[m].elems \in Seq(Nat)
    BY <1>1, CellFacts
  <2>2. QED
    BY <1>1, <2>1, WithinOne, OccurrencesType
<1>3. Within(mem, A, c) = Within(mem, A \ {m}, c) + Within(mem, {m}, c)
  <2>1. A = (A \ {m}) \cup {m} /\ (A \ {m}) \cap {m} = {}
    OBVIOUS
  <2>2. A \ {m} \in SUBSET DOMAIN mem /\ {m} \in SUBSET DOMAIN mem
    BY <1>1
  <2> HIDE DEF A
  <2>3. QED
    BY <1>1, <2>1, <2>2, WithinSplit
<1>4. Within(mem, A \ {m}, c) \in Nat /\ Within(mem, {m}, c) \in Nat
  <2>1. A \ {m} \in SUBSET DOMAIN mem /\ {m} \in SUBSET DOMAIN mem
    BY <1>1
  <2>2. QED
    BY <1>1, <2>1, WithinPlaces
<1>5. Within(mem, A, c) # 0
  BY <1>2, <1>3, <1>4
<1>6. mem[c].count > 0
  BY <1>5, ExactFacts
<1>7. QED
  BY <1>6 DEF Alive

\* What taking references does to each cell.
LEMMA AddRefsCells ==
  ASSUME NEW mem \in Seq(Cell), NEW vs \in Seq(Int)
  PROVE  LET new == AddRefs(mem, vs) IN
         /\ new \in Seq(Cell) /\ Len(new) = Len(mem) /\ DOMAIN new = DOMAIN mem
         /\ \A c \in DOMAIN mem :
              /\ new[c].count = mem[c].count + Occurrences(c, vs)
              /\ new[c].elems = mem[c].elems /\ new[c].kind = mem[c].kind
              /\ new[c].token = mem[c].token
<1> DEFINE new == AddRefs(mem, vs)
<1>1. DOMAIN new = 1..Len(mem) /\ DOMAIN mem = 1..Len(mem) /\ Len(mem) \in Nat
  BY DEF AddRefs
<1>2. ASSUME NEW c \in DOMAIN mem
      PROVE  /\ new[c] \in Cell
             /\ new[c].count = mem[c].count + Occurrences(c, vs)
             /\ new[c].elems = mem[c].elems /\ new[c].kind = mem[c].kind
             /\ new[c].token = mem[c].token
  <2>1. new[c] = [mem[c] EXCEPT !.count = @ + Occurrences(c, vs)]
    BY DEF AddRefs
  <2>2. mem[c] \in Cell
    BY CellFacts
  <2>3. Occurrences(c, vs) \in Nat
    BY OccurrencesType
  <2>4. mem[c].count + Occurrences(c, vs) \in Int
    BY <2>2, <2>3 DEF Cell
  <2>5. DOMAIN mem[c] = {"kind", "rule", "alt", "token", "elems", "count"}
    BY <2>2 DEF Cell
  <2> HIDE DEF new
  <2>6. new[c].count = mem[c].count + Occurrences(c, vs)
    BY <2>1, <2>5
  <2>7. /\ new[c].elems = mem[c].elems /\ new[c].kind = mem[c].kind
        /\ new[c].token = mem[c].token
    BY <2>1, <2>5
  <2>8. new[c] \in Cell
    BY <2>1, <2>2, <2>4 DEF Cell
  <2>9. QED
    BY <2>6, <2>7, <2>8
<1>3. new = [c \in 1..Len(mem) |-> new[c]]
  BY <1>1 DEF AddRefs
<1>4. new \in Seq(Cell) /\ Len(new) = Len(mem)
  <2> HIDE DEF new
  <2> QED BY <1>1, <1>2, <1>3
<1>5. QED
  BY <1>1, <1>2, <1>4

\* References are taken to values that are alive, one for each occurrence.
LEMMA AddRefsExact ==
  ASSUME NEW mem, NEW holders, Exact(mem, holders), NEW vs \in Seq(Int),
         NEW others \in Seq(Int),
         \A c \in DOMAIN mem :
           /\ Occurrences(c, others) = Occurrences(c, holders) + Occurrences(c, vs)
           /\ c \in Range(vs) => c \in Alive(mem)
  PROVE  /\ Exact(AddRefs(mem, vs), others)
         /\ Alive(AddRefs(mem, vs)) = Alive(mem)
<1> DEFINE new == AddRefs(mem, vs)
<1>1. /\ mem \in Seq(Cell) /\ Alive(mem) \in SUBSET DOMAIN mem
      /\ \A c \in DOMAIN mem :
           /\ mem[c].count = Occurrences(c, holders) + Within(mem, Alive(mem), c)
           /\ Occurrences(c, holders) \in Nat
           /\ Within(mem, Alive(mem), c) \in Nat
           /\ mem[c].count \in Nat
  BY ExactFacts
<1>2. /\ new \in Seq(Cell) /\ Len(new) = Len(mem) /\ DOMAIN new = DOMAIN mem
      /\ \A c \in DOMAIN mem :
           /\ new[c].count = mem[c].count + Occurrences(c, vs)
           /\ new[c].elems = mem[c].elems /\ new[c].kind = mem[c].kind
  BY <1>1, AddRefsCells
<1> HIDE DEF new
<1>3. \A c \in DOMAIN mem :
        Occurrences(c, vs) \in Nat /\ (Occurrences(c, vs) = 0 <=> c \notin Range(vs))
  BY OccurrencesType
<1>4. \A c \in DOMAIN mem : new[c].count > 0 <=> mem[c].count > 0
  <2>1. TAKE c \in DOMAIN mem
  <2>2. /\ new[c].count = mem[c].count + Occurrences(c, vs)
        /\ mem[c].count \in Nat /\ Occurrences(c, vs) \in Nat
    BY <1>1, <1>2, <1>3
  <2>3. CASE c \in Range(vs)
    <3>1. mem[c].count > 0
      BY <2>3 DEF Alive
    <3>2. QED
      BY <2>2, <3>1
  <2>4. CASE c \notin Range(vs)
    <3>1. Occurrences(c, vs) = 0
      BY <1>3, <2>4
    <3>2. QED
      BY <2>2, <3>1
  <2>5. QED
    BY <2>3, <2>4
<1>5. Alive(new) = Alive(mem)
  BY <1>2, <1>4 DEF Alive
<1>6. MemOK(new)
  BY <1>2 DEF MemOK, Exact
<1>7. Counted(new, others)
  <2>1. SUFFICES ASSUME NEW c \in DOMAIN new
                 PROVE  new[c].count = Occurrences(c, others) + Within(new, Alive(new), c)
    BY DEF Counted
  <2>2. \A n \in Alive(mem) : new[n].elems = mem[n].elems
    BY <1>1, <1>2
  <2>3. Within(new, Alive(mem), c) = Within(mem, Alive(mem), c)
    BY <2>2, WithinSame
  <2>4. c \in DOMAIN mem
    BY <1>2
  <2>5. /\ new[c].count = mem[c].count + Occurrences(c, vs)
        /\ mem[c].count = Occurrences(c, holders) + Within(mem, Alive(mem), c)
        /\ Occurrences(c, others) = Occurrences(c, holders) + Occurrences(c, vs)
        /\ Occurrences(c, holders) \in Nat /\ Occurrences(c, vs) \in Nat
        /\ Within(mem, Alive(mem), c) \in Nat
    BY <1>1, <1>2, <1>3, <2>4
  <2>6. QED
    BY <1>5, <2>3, <2>5
<1>8. QED
  BY <1>5, <1>6, <1>7 DEF Exact, new

\* A new array or object, which retains what it refers to.
LEMMA FreshExact ==
  ASSUME NEW mem, NEW holders, Exact(mem, holders),
         NEW kind \in {"token", "list", "object"}, NEW rule \in Names \cup {Null},
         NEW alt \in Nat, NEW elems \in Seq(Nat),
         \A v \in Range(elems) : v = 0 \/ v \in Alive(mem),
         NEW others \in Seq(Int),
         \A c \in DOMAIN mem : Occurrences(c, others) = Occurrences(c, holders),
         Occurrences(Len(mem) + 1, others) = 1
  PROVE  LET new == Fresh(mem, kind, rule, alt, elems) IN
         /\ Exact(new.mem, others)
         /\ new.value = Len(mem) + 1
         /\ Len(new.mem) = Len(mem) + 1
<1> DEFINE n == Len(mem)
           old == AddRefs(mem, elems)
           cell == [kind |-> kind, rule |-> rule, alt |-> alt, token |-> -1,
                    elems |-> elems, count |-> 1]
           new == Append(old, cell)
           A == Alive(mem)
<1>1. /\ mem \in Seq(Cell) /\ n \in Nat /\ DOMAIN mem = 1..n
      /\ A \in SUBSET DOMAIN mem
  BY ExactFacts
<1>2. elems \in Seq(Int)
  OBVIOUS
<1>3. /\ old \in Seq(Cell) /\ Len(old) = n /\ DOMAIN old = DOMAIN mem
      /\ \A c \in DOMAIN mem :
           /\ old[c].count = mem[c].count + Occurrences(c, elems)
           /\ old[c].elems = mem[c].elems
  BY <1>1, <1>2, AddRefsCells
<1>4. cell \in Cell
  BY DEF Cell
<1> HIDE DEF old
<1>5. /\ new \in Seq(Cell) /\ Len(new) = n + 1 /\ DOMAIN new = 1..(n + 1)
      /\ \A c \in 1..n : new[c] = old[c]
      /\ new[n + 1] = cell
  BY <1>1, <1>3, <1>4
<1>6. cell.count = 1 /\ cell.elems = elems
  OBVIOUS
<1> HIDE DEF cell, new
<1>7. /\ \A c \in 1..n : /\ new[c].count = mem[c].count + Occurrences(c, elems)
                         /\ new[c].elems = mem[c].elems
      /\ new[n + 1].count = 1 /\ new[n + 1].elems = elems
      /\ n + 1 \notin 1..n /\ \A c \in 1..(n + 1) : c \in 1..n \/ c = n + 1
  <2>1. n + 1 \notin 1..n /\ \A c \in 1..(n + 1) : c \in 1..n \/ c = n + 1
    BY <1>1
  <2>2. new[n + 1].count = 1 /\ new[n + 1].elems = elems
    BY <1>5, <1>6
  <2>3. \A c \in 1..n : /\ new[c].count = mem[c].count + Occurrences(c, elems)
                        /\ new[c].elems = mem[c].elems
    BY <1>1, <1>3, <1>5
  <2>4. QED
    BY <2>1, <2>2, <2>3
<1>8. \A c \in 1..n : Occurrences(c, elems) \in Nat
                        /\ (Occurrences(c, elems) = 0 <=> c \notin Range(elems))
  BY OccurrencesType
<1>9. \A c \in 1..n : new[c].count > 0 <=> c \in A
  <2>1. TAKE c \in 1..n
  <2>2. /\ new[c].count = mem[c].count + Occurrences(c, elems)
        /\ mem[c].count \in Nat /\ Occurrences(c, elems) \in Nat
    BY <1>1, <1>7, <1>8, ExactFacts
  <2>3. CASE c \in A
    <3>1. mem[c].count > 0
      BY <2>3 DEF Alive
    <3>2. QED
      BY <2>2, <2>3, <3>1
  <2>4. CASE c \notin A
    <3>1. ~ (mem[c].count > 0)
      BY <1>1, <2>4 DEF Alive
    <3>2. c # 0
      OBVIOUS
    <3>3. c \notin Range(elems)
      BY <2>4, <3>2
    <3>4. Occurrences(c, elems) = 0
      BY <1>8, <3>3
    <3>5. QED
      BY <2>2, <2>4, <3>1, <3>4
  <2>5. QED
    BY <2>3, <2>4
<1>10. Alive(new) = A \cup {n + 1}
  BY <1>1, <1>5, <1>7, <1>9 DEF Alive
<1>11. MemOK(new)
  <2>1. SUFFICES ASSUME NEW m \in 1..(n + 1), NEW k \in DOMAIN new[m].elems
                 PROVE  new[m].elems[k] < m
    BY <1>5 DEF MemOK
  <2>2. CASE m \in 1..n
    BY <1>1, <1>7, <2>2 DEF Exact, MemOK
  <2>3. CASE m = n + 1
    <3>1. k \in DOMAIN elems /\ new[m].elems[k] = elems[k]
      BY <1>7, <2>3
    <3>2. elems[k] \in Range(elems)
      BY <3>1 DEF Range
    <3>3. elems[k] = 0 \/ elems[k] \in 1..n
      BY <1>1, <3>2
    <3>4. QED
      BY <1>1, <2>3, <3>1, <3>3
  <2>4. QED
    BY <1>7, <2>2, <2>3
<1>12. ASSUME NEW c
       PROVE  /\ Within(new, A \cup {n + 1}, c)
                   = Within(new, A, c) + Within(new, {n + 1}, c)
              /\ Within(new, A, c) = Within(mem, A, c)
              /\ Within(new, {n + 1}, c) = Occurrences(c, elems)
  <2>1. /\ A \in SUBSET DOMAIN new /\ {n + 1} \in SUBSET DOMAIN new
        /\ A \cap {n + 1} = {} /\ n + 1 \in DOMAIN new
    BY <1>1, <1>5, <1>7
  <2>2. \A x \in A : new[x].elems = mem[x].elems
    BY <1>1, <1>7
  <2> HIDE DEF A
  <2>3. Within(new, {n + 1}, c) = Occurrences(c, new[n + 1].elems)
    BY <1>5, <2>1, WithinOne
  <2>4. new \in Seq(Cell) /\ mem \in Seq(Cell) /\ new[n + 1].elems = elems
    BY <1>1, <1>5, <1>7 DEF Exact, MemOK
  <2>5. Within(new, A \cup {n + 1}, c) = Within(new, A, c) + Within(new, {n + 1}, c)
    <3>1. ASSUME NEW B \in SUBSET DOMAIN new, NEW C \in SUBSET DOMAIN new, B \cap C = {}
          PROVE  Within(new, B \cup C, c) = Within(new, B, c) + Within(new, C, c)
      <4>1. new \in Seq(Cell)
        BY <2>4
      <4>2. QED
        BY ONLY <3>1, <4>1, WithinSplit
    <3>2. QED
      BY <2>1, <3>1
  <2>6. Within(new, A, c) = Within(mem, A, c)
    BY <1>5, <1>7, <2>1, <2>2, WithinSame
  <2>7. QED
    BY <2>3, <2>4, <2>5, <2>6
<1>13. Counted(new, others)
  <2>1. SUFFICES ASSUME NEW c \in 1..(n + 1)
                 PROVE  new[c].count
                          = Occurrences(c, others) + Within(new, A \cup {n + 1}, c)
    BY <1>5, <1>10 DEF Counted
  <2>2. CASE c \in 1..n
    <3>1. /\ mem[c].count = Occurrences(c, holders) + Within(mem, A, c)
          /\ Occurrences(c, holders) \in Nat /\ Within(mem, A, c) \in Nat
      BY <1>1, <2>2, ExactFacts
    <3>2. /\ new[c].count = mem[c].count + Occurrences(c, elems)
          /\ Occurrences(c, elems) \in Nat
          /\ Occurrences(c, others) = Occurrences(c, holders)
      BY <1>1, <1>7, <1>8, <2>2
    <3>3. Within(new, A \cup {n + 1}, c) = Within(mem, A, c) + Occurrences(c, elems)
      BY <1>12
    <3> HIDE DEF A
    <3>4. QED
      BY <3>1, <3>2, <3>3
  <2>3. CASE c = n + 1
    <3>1. Within(new, A \cup {n + 1}, c) = 0
      <4>1. \A x \in DOMAIN new : c \notin Range(new[x].elems)
        <5>1. SUFFICES ASSUME NEW x \in 1..(n + 1), NEW k \in DOMAIN new[x].elems
                       PROVE  new[x].elems[k] # c
          BY <1>5 DEF Range
        <5>2. new[x].elems \in Seq(Nat) /\ new[x].elems[k] < x
          BY <1>5, <1>11, CellFacts DEF MemOK
        <5>3. new[x].elems[k] \in Nat /\ x <= n + 1
          BY <5>2
        <5>4. QED
          BY <1>1, <2>3, <5>2, <5>3
      <4>2. A \cup {n + 1} \subseteq DOMAIN new
        BY <1>1, <1>5
      <4> HIDE DEF A
      <4>3. Within(new, A \cup {n + 1}, c) = Within(new, {}, c)
        BY <4>1, <4>2, WithinReferring
      <4>4. QED
        BY <4>3, WithinEmpty
    <3>2. QED
      BY <1>7, <2>3, <3>1
  <2>4. QED
    BY <1>7, <2>2, <2>3
<1>14. Exact(new, others)
  BY <1>11, <1>13 DEF Exact
<1>15. /\ Fresh(mem, kind, rule, alt, elems).mem = new
       /\ Fresh(mem, kind, rule, alt, elems).value = n + 1
  BY DEF Fresh, new, old, cell
<1>16. QED
  BY <1>5, <1>14, <1>15

-----------------------------------------------------------------------------
(* Release                                                                 *)

\* A value loses its last reference, if vs and the cells of K give up theirs.
Dies(mem, vs, m, K) ==
  /\ mem[m].count > 0
  /\ mem[m].count = Occurrences(m, vs) + Within(mem, {n \in Referring(mem, m) : n \in K}, m)

\* What is freed can be told, the newest value first.
LEMMA FreedExists ==
  ASSUME NEW mem, MemOK(mem), NEW vs
  PROVE  \E K \in SUBSET DOMAIN mem :
           \A m \in DOMAIN mem : m \in K <=> Dies(mem, vs, m, K)
<1> DEFINE n == Len(mem)
           V == SUBSET (1..n)
           F == [p \in (1..n) \X V |->
                   IF Dies(mem, vs, p[1], p[2]) THEN p[2] \cup {p[1]} ELSE p[2]]
<1>1. mem \in Seq(Cell) /\ n \in Nat /\ DOMAIN mem = 1..n
  BY DEF MemOK
<1>2. F \in [(1..n) \X V -> V]
  OBVIOUS
<1>3. {} \in V
  OBVIOUS
<1>4. PICK g : Descends(g, n, V, {}, F)
  <2> HIDE DEF F, V
  <2> QED BY <1>1, <1>2, <1>3, Recursion
<1>5. /\ g \in [1..(n + 1) -> V] /\ g[n + 1] = {}
      /\ \A m \in 1..n : g[m] = F[<<m, g[m + 1]>>]
  BY <1>4 DEF Descends
<1>6. ASSUME NEW m \in 1..n
      PROVE  g[m] = IF Dies(mem, vs, m, g[m + 1]) THEN g[m + 1] \cup {m} ELSE g[m + 1]
  <2>1. m + 1 \in 1..(n + 1)
    BY <1>1
  <2>2. <<m, g[m + 1]>> \in (1..n) \X V
    BY <1>5, <2>1
  <2>3. QED
    BY <1>5, <2>2
<1> HIDE DEF F
<1> DEFINE S == {j \in 1..(n + 1) : \A x \in 1..n : x \in g[j] <=> (x >= j /\ x \in g[x])}
<1>7. n + 1 \in S
  <2>1. n + 1 \in 1..(n + 1)
    BY <1>1
  <2>2. \A x \in 1..n : ~ (x >= n + 1)
    BY <1>1
  <2>3. QED
    BY <1>5, <2>1, <2>2
<1>8. ASSUME NEW j \in 1..n, j + 1 \in S PROVE j \in S
  <2>1. j \in 1..(n + 1)
    BY <1>1
  <2>2. ASSUME NEW x \in 1..n PROVE x \in g[j] <=> (x >= j /\ x \in g[x])
    <3>1. CASE x = j
      BY <1>1, <3>1
    <3>2. CASE x # j
      <4>1. x \in g[j] <=> x \in g[j + 1]
        BY <1>6, <3>2
      <4>2. x \in g[j + 1] <=> (x >= j + 1 /\ x \in g[x])
        BY <1>8
      <4>3. x >= j + 1 <=> x >= j
        BY <1>1, <3>2
      <4>4. QED
        BY <4>1, <4>2, <4>3
    <3>3. QED
      BY <3>1, <3>2
  <2>3. QED
    BY <2>1, <2>2
<1>9. 1..(n + 1) \subseteq S
  <2> HIDE DEF S
  <2> QED BY <1>1, <1>7, <1>8, DownInduction
<1> DEFINE K == g[1]
<1>10. K \in SUBSET DOMAIN mem
  <2>1. 1 \in 1..(n + 1)
    BY <1>1
  <2>2. QED
    BY <1>1, <1>5, <2>1
<1>11. \A x \in 1..n : x \in K <=> x \in g[x]
  <2>1. 1 \in S
    BY <1>1, <1>9
  <2>2. QED
    BY <2>1
<1>12. ASSUME NEW m \in 1..n PROVE m \in K <=> Dies(mem, vs, m, K)
  <2>1. m + 1 \in S /\ m + 1 \in 1..(n + 1)
    BY <1>1, <1>9
  <2>2. m \notin g[m + 1]
    <3>1. ~ (m >= m + 1)
      OBVIOUS
    <3>2. QED
      BY <2>1, <3>1
  <2>3. m \in K <=> Dies(mem, vs, m, g[m + 1])
    BY <1>6, <1>11, <2>2
  <2>4. ASSUME NEW x \in Referring(mem, m) PROVE x \in g[m + 1] <=> x \in K
    <3>1. x \in 1..n /\ m \in Range(mem[x].elems)
      BY <1>1 DEF Referring
    <3>2. m < x
      BY <1>1, <3>1 DEF MemOK, Range
    <3>3. x >= m + 1
      BY <3>1, <3>2
    <3>4. QED
      BY <1>11, <2>1, <3>1, <3>3
  <2>5. {x \in Referring(mem, m) : x \in g[m + 1]} = {x \in Referring(mem, m) : x \in K}
    BY <2>4
  <2>6. QED
    BY <2>3, <2>5 DEF Dies
<1>13. QED
  BY <1>1, <1>10, <1>12

FreedBy(mem, vs) ==
  CHOOSE freed : freed = [m \in DOMAIN mem |->
    /\ mem[m].count > 0
    /\ mem[m].count
         = Occurrences(m, vs) + Within(mem, {n \in Referring(mem, m) : freed[n]}, m)]

\* Release, cell by cell.
LEMMA ReleaseIs ==
  \A mem, vs : Release(mem, vs) =
    [c \in DOMAIN mem |->
       [mem[c] EXCEPT !.count =
          @ - Occurrences(c, vs)
            - Within(mem, {n \in Referring(mem, c) : FreedBy(mem, vs)[n]}, c)]]
  BY DEF Release, FreedBy

Lost(mem, vs) == {m \in DOMAIN mem : FreedBy(mem, vs)[m]}

\* The cells that Release frees are those it leaves with a count of 0.
LEMMA LostDie ==
  ASSUME NEW mem, MemOK(mem), NEW vs
  PROVE  \A m \in DOMAIN mem :
           m \in Lost(mem, vs) <=> Dies(mem, vs, m, Lost(mem, vs))
<1> DEFINE Step(h) == [m \in DOMAIN mem |->
             /\ mem[m].count > 0
             /\ mem[m].count
                  = Occurrences(m, vs) + Within(mem, {n \in Referring(mem, m) : h[n]}, m)]
           freed == FreedBy(mem, vs)
<1>1. PICK K \in SUBSET DOMAIN mem :
        \A m \in DOMAIN mem : m \in K <=> Dies(mem, vs, m, K)
  BY FreedExists
<1> DEFINE g == [m \in DOMAIN mem |-> m \in K]
<1>2. \A m : Referring(mem, m) \subseteq DOMAIN mem
  BY DEF Referring
<1>3. g = Step(g)
  <2>1. ASSUME NEW m \in DOMAIN mem
        PROVE  (m \in K) = (/\ mem[m].count > 0
                            /\ mem[m].count = Occurrences(m, vs)
                                 + Within(mem, {n \in Referring(mem, m) : g[n]}, m))
    <3>1. {n \in Referring(mem, m) : g[n]} = {n \in Referring(mem, m) : n \in K}
      BY <1>2
    <3>2. m \in K <=> /\ mem[m].count > 0
                      /\ mem[m].count = Occurrences(m, vs)
                           + Within(mem, {n \in Referring(mem, m) : g[n]}, m)
      <4> HIDE DEF g
      <4> QED BY <1>1, <3>1 DEF Dies
    <3> DEFINE P == /\ mem[m].count > 0
                    /\ mem[m].count = Occurrences(m, vs)
                         + Within(mem, {n \in Referring(mem, m) : g[n]}, m)
    <3>3. P \in BOOLEAN /\ (m \in K) \in BOOLEAN /\ (m \in K <=> P)
      BY <3>2
    <3> HIDE DEF P
    <3>4. (m \in K) = P
      BY <3>3
    <3>5. QED
      BY <3>4 DEF P
  <2>2. QED
    BY <2>1, Zenon
<1>4. freed = Step(freed)
  <2>1. freed = CHOOSE h : h = Step(h)
    BY DEF FreedBy
  <2> HIDE DEF Step, freed, g
  <2>2. QED
    BY <1>3, <2>1
<1>5. ASSUME NEW m \in DOMAIN mem
      PROVE  m \in Lost(mem, vs) <=> Dies(mem, vs, m, Lost(mem, vs))
  <2>1. freed[m] <=> /\ mem[m].count > 0
                     /\ mem[m].count = Occurrences(m, vs)
                          + Within(mem, {n \in Referring(mem, m) : freed[n]}, m)
    <3> HIDE DEF freed
    <3> QED BY <1>4
  <2>2. {n \in Referring(mem, m) : freed[n]} = {n \in Referring(mem, m) : n \in Lost(mem, vs)}
    BY <1>2 DEF Lost
  <2>3. QED
    BY <2>1, <2>2 DEF Lost, Dies
<1>6. QED
  BY <1>5

\* Releasing what some of the holders hold leaves the counts of the others.
LEMMA ReleaseExact ==
  ASSUME NEW mem, NEW holders, Exact(mem, holders), NEW vs \in Seq(Int),
         NEW others \in Seq(Int),
         \A c \in DOMAIN mem :
           Occurrences(c, holders) = Occurrences(c, others) + Occurrences(c, vs)
  PROVE  /\ Exact(Release(mem, vs), others)
         /\ Len(Release(mem, vs)) = Len(mem)
<1> DEFINE new == Release(mem, vs)
           A == Alive(mem)
           L == Lost(mem, vs)
           freeing(c) == {n \in Referring(mem, c) : FreedBy(mem, vs)[n]}
<1>1. /\ mem \in Seq(Cell) /\ A \in SUBSET DOMAIN mem /\ MemOK(mem)
      /\ Len(mem) \in Nat /\ DOMAIN mem = 1..Len(mem)
      /\ \A c \in DOMAIN mem :
           /\ mem[c].count = Occurrences(c, holders) + Within(mem, A, c)
           /\ Occurrences(c, holders) \in Nat
           /\ Within(mem, A, c) \in Nat
           /\ mem[c].count \in Nat
  BY ExactFacts DEF Exact
<1>2. /\ L \in SUBSET DOMAIN mem
      /\ \A c \in DOMAIN mem : c \in L <=> Dies(mem, vs, c, L)
  BY <1>1, LostDie DEF Lost
<1>3. L \subseteq A
  BY <1>2 DEF Dies, Alive
<1>4. ASSUME NEW c \in DOMAIN mem PROVE Within(mem, freeing(c), c) = Within(mem, L, c)
  <2>1. freeing(c) \in SUBSET L
    BY DEF Lost, Referring
  <2>2. \A n \in L \ freeing(c) : c \notin Range(mem[n].elems)
    BY DEF Lost, Referring
  <2> HIDE DEF freeing, L
  <2>3. QED
    BY <2>1, <2>2, WithinReferring
<1>5. ASSUME NEW c \in DOMAIN mem
      PROVE  /\ {n \in Referring(mem, c) : n \in L} = freeing(c)
             /\ c \in L <=> /\ mem[c].count > 0
                            /\ mem[c].count = Occurrences(c, vs) + Within(mem, L, c)
  <2>1. {n \in Referring(mem, c) : n \in L} = freeing(c)
    BY DEF Lost, Referring
  <2> HIDE DEF freeing, L
  <2>2. QED
    BY <1>2, <1>4, <2>1 DEF Dies
<1>6. DOMAIN new = 1..Len(mem)
  BY <1>1, ReleaseIs
<1>7. ASSUME NEW c \in DOMAIN mem
      PROVE  /\ new[c] \in Cell
             /\ new[c].count = mem[c].count - Occurrences(c, vs) - Within(mem, L, c)
             /\ new[c].elems = mem[c].elems
  <2> HIDE DEF L
  <2>1. new[c] = [mem[c] EXCEPT !.count = @ - Occurrences(c, vs) - Within(mem, freeing(c), c)]
    BY ReleaseIs
  <2>2. mem[c] \in Cell
    BY <1>1, CellFacts
  <2>3. Occurrences(c, vs) \in Nat
    BY OccurrencesType
  <2> HIDE DEF new, freeing
  <2>4. Within(mem, L, c) \in Nat
    BY <1>1, <1>2, WithinPlaces
  <2>5. new[c] = [mem[c] EXCEPT !.count = @ - Occurrences(c, vs) - Within(mem, L, c)]
    BY <1>4, <2>1
  <2>6. mem[c].count - Occurrences(c, vs) - Within(mem, L, c) \in Int
    BY <2>2, <2>3, <2>4 DEF Cell
  <2>7. DOMAIN mem[c] = {"kind", "rule", "alt", "token", "elems", "count"}
    BY <2>2 DEF Cell
  <2>8. new[c].count = mem[c].count - Occurrences(c, vs) - Within(mem, L, c)
    BY <2>5, <2>7
  <2>9. new[c].elems = mem[c].elems
    BY <2>5, <2>7
  <2>10. new[c] \in Cell
    BY <2>2, <2>5, <2>6 DEF Cell
  <2>11. QED
    BY <2>8, <2>9, <2>10
<1> HIDE DEF freeing, L
<1>8. new = [c \in 1..Len(mem) |-> new[c]]
  BY <1>1, ReleaseIs
<1> HIDE DEF new
<1>9. new \in Seq(Cell) /\ Len(new) = Len(mem) /\ DOMAIN new = DOMAIN mem
  BY <1>1, <1>6, <1>7, <1>8
<1>10. \A c \in DOMAIN mem : new[c].elems = mem[c].elems
  BY <1>7
<1>11. MemOK(new)
  BY <1>1, <1>9, <1>10 DEF MemOK
<1>12. ASSUME NEW c \in DOMAIN mem
       PROVE  /\ Within(mem, A, c) = Within(mem, A \ L, c) + Within(mem, L, c)
              /\ Within(mem, A \ L, c) \in Nat /\ Within(mem, L, c) \in Nat
  <2>1. /\ A \ L \in SUBSET DOMAIN mem /\ L \in SUBSET DOMAIN mem
        /\ (A \ L) \cap L = {} /\ A = (A \ L) \cup L
    BY <1>1, <1>2, <1>3
  <2> HIDE DEF A
  <2>2. mem \in Seq(Cell)
    BY <1>1
  <2>3. ASSUME NEW B \in SUBSET DOMAIN mem, NEW C \in SUBSET DOMAIN mem, B \cap C = {}
        PROVE  /\ Within(mem, B \cup C, c) = Within(mem, B, c) + Within(mem, C, c)
               /\ Within(mem, B, c) \in Nat /\ Within(mem, C, c) \in Nat
    BY <2>2, <2>3, WithinSplit, WithinPlaces
  <2>4. QED
    BY <2>1, <2>3
<1>13. ASSUME NEW c \in DOMAIN mem
       PROVE  /\ new[c].count = Occurrences(c, others) + Within(mem, A \ L, c)
              /\ new[c].count \in Nat
  <2>1. Occurrences(c, others) \in Nat /\ Occurrences(c, vs) \in Nat
    BY OccurrencesType
  <2>2. /\ Occurrences(c, holders) = Occurrences(c, others) + Occurrences(c, vs)
        /\ mem[c].count = Occurrences(c, holders) + Within(mem, A, c)
        /\ new[c].count = mem[c].count - Occurrences(c, vs) - Within(mem, L, c)
        /\ Within(mem, A, c) = Within(mem, A \ L, c) + Within(mem, L, c)
        /\ Within(mem, A \ L, c) \in Nat /\ Within(mem, L, c) \in Nat
    BY <1>1, <1>7, <1>12
  <2>3. QED
    BY ONLY <2>1, <2>2
<1>14. Alive(new) = A \ L
  <2>1. ASSUME NEW c \in DOMAIN mem PROVE new[c].count > 0 <=> c \in A /\ c \notin L
    <3>1. Occurrences(c, vs) \in Nat /\ Within(mem, L, c) \in Nat
      BY <1>12, OccurrencesType
    <3>2. c \in A <=> mem[c].count > 0
      BY DEF Alive
    <3>3. /\ c \in L <=> /\ mem[c].count > 0
                        /\ mem[c].count = Occurrences(c, vs) + Within(mem, L, c)
          /\ new[c].count = mem[c].count - Occurrences(c, vs) - Within(mem, L, c)
          /\ new[c].count \in Nat /\ mem[c].count \in Nat
      BY <1>1, <1>5, <1>7, <1>13
    <3> DEFINE x == mem[c].count
               y == new[c].count
               o == Occurrences(c, vs)
               w == Within(mem, L, c)
    <3>4. /\ o \in Nat /\ w \in Nat /\ x \in Nat /\ y \in Nat /\ y = x - o - w
          /\ c \in A <=> x > 0
          /\ c \in L <=> x > 0 /\ x = o + w
      BY <3>1, <3>2, <3>3
    <3> HIDE DEF x, y, o, w, A
    <3>5. y > 0 <=> c \in A /\ c \notin L
      BY ONLY <3>4
    <3>6. QED
      BY <3>5 DEF y, A
  <2>2. QED
    BY <1>1, <1>9, <2>1 DEF Alive
<1>15. Counted(new, others)
  <2>1. SUFFICES ASSUME NEW c \in DOMAIN mem
                 PROVE  new[c].count = Occurrences(c, others) + Within(new, A \ L, c)
    BY <1>9, <1>14 DEF Counted
  <2>2. \A n \in A \ L : new[n].elems = mem[n].elems
    BY <1>1, <1>10
  <2>3. Within(new, A \ L, c) = Within(mem, A \ L, c)
    BY <2>2, WithinSame
  <2>4. QED
    BY <1>13, <2>3
<1>16. Exact(new, others)
  BY <1>11, <1>15 DEF Exact
<1>17. QED
  BY <1>9, <1>16 DEF new

-----------------------------------------------------------------------------
(* New references                                                          *)

\* The memory new.mem is exact for the holders and one of the value new.value.
GrownBy(mem, holders, new) ==
  /\ new.value \in 0..Len(new.mem)
  /\ Len(new.mem) \in Nat /\ Len(new.mem) >= Len(mem)
  /\ \A others \in Seq(Int) :
       (\A v \in Nat : Occurrences(v, others)
                         = Occurrences(v, holders) + Occurrences(v, <<new.value>>))
         => Exact(new.mem, others)

\* A value one may refer to.
Usable(mem, v) == v = NullValue \/ v \in Alive(mem)

\* A reference more to a value that is alive.
LEMMA SharedGrown ==
  ASSUME NEW mem, NEW holders, Exact(mem, holders), NEW v, Usable(mem, v)
  PROVE  GrownBy(mem, holders, Shared(mem, v))
<1>1. /\ mem \in Seq(Cell) /\ Len(mem) \in Nat /\ DOMAIN mem = 1..Len(mem)
      /\ Alive(mem) \in SUBSET DOMAIN mem
  BY ExactFacts
<1>2. v \in 0..Len(mem)
  BY <1>1 DEF Usable, NullValue
<1>3. <<v>> \in Seq(Int) /\ Range(<<v>>) = {v}
  BY <1>2 DEF Range
<1>4. Len(AddRefs(mem, <<v>>)) = Len(mem)
  BY <1>1, <1>3, AddRefsCells
<1>5. ASSUME NEW others \in Seq(Int),
             \A c \in Nat : Occurrences(c, others)
                              = Occurrences(c, holders) + Occurrences(c, <<v>>)
      PROVE  Exact(AddRefs(mem, <<v>>), others)
  <2>1. \A c \in DOMAIN mem :
          /\ Occurrences(c, others) = Occurrences(c, holders) + Occurrences(c, <<v>>)
          /\ c \in Range(<<v>>) => c \in Alive(mem)
    BY <1>1, <1>3, <1>5 DEF Usable, NullValue
  <2>2. QED
    BY <1>3, <2>1, AddRefsExact
<1>6. Shared(mem, v).mem = AddRefs(mem, <<v>>) /\ Shared(mem, v).value = v
  BY DEF Shared
<1>7. QED
  BY <1>1, <1>2, <1>4, <1>5, <1>6 DEF GrownBy

\* A new cell takes a reference to each of its elements.
LEMMA FreshGrown ==
  ASSUME NEW mem, NEW holders, Exact(mem, holders),
         \A v \in Range(holders) : v <= Len(mem),
         NEW kind \in {"token", "list", "object"}, NEW rule \in Names \cup {Null},
         NEW alt \in Nat, NEW elems \in Seq(Nat),
         \A v \in Range(elems) : Usable(mem, v)
  PROVE  GrownBy(mem, holders, Fresh(mem, kind, rule, alt, elems))
<1> DEFINE new == Fresh(mem, kind, rule, alt, elems)
           n == Len(mem)
<1>1. /\ mem \in Seq(Cell) /\ n \in Nat /\ DOMAIN mem = 1..n
      /\ holders \in Seq(Int)
  BY ExactFacts DEF Exact
<1>2. new.value = n + 1
  BY DEF Fresh
<1>3. Len(new.mem) = n + 1
  <2>1. elems \in Seq(Int)
    OBVIOUS
  <2>2. AddRefs(mem, elems) \in Seq(Cell) /\ Len(AddRefs(mem, elems)) = n
    BY <1>1, <2>1, AddRefsCells
  <2>3. QED
    BY <1>1, <2>2 DEF Fresh
<1>4. Occurrences(n + 1, holders) = 0
  <2>1. n + 1 \notin Range(holders)
    BY <1>1
  <2>2. QED
    BY <1>1, <2>1, OccurrencesType
<1> HIDE DEF new
<1>5. ASSUME NEW others \in Seq(Int),
             \A v \in Nat : Occurrences(v, others)
                              = Occurrences(v, holders) + Occurrences(v, <<n + 1>>)
      PROVE  Exact(new.mem, others)
  <2>1. \A c \in DOMAIN mem : Occurrences(c, others) = Occurrences(c, holders)
    <3>1. ASSUME NEW c \in DOMAIN mem
          PROVE  Occurrences(c, others) = Occurrences(c, holders)
      <4>1. c \in Nat /\ n + 1 # c
        BY <1>1
      <4>2. Occurrences(c, <<n + 1>>) = 0
        BY <4>1, OccurrencesOne
      <4>3. Occurrences(c, holders) \in Nat
        BY <1>1, OccurrencesType
      <4>4. QED
        BY <1>5, <4>1, <4>2, <4>3
    <3>2. QED
      BY <3>1
  <2>2. Occurrences(n + 1, others) = 1
    <3>1. Occurrences(n + 1, <<n + 1>>) = 1
      BY OccurrencesOne
    <3>2. QED
      BY <1>1, <1>4, <1>5, <3>1
  <2>3. \A v \in Range(elems) : v = 0 \/ v \in Alive(mem)
    BY DEF Usable, NullValue
  <2>4. QED
    BY <2>1, <2>2, <2>3, FreshExact DEF new
<1>6. \A others \in Seq(Int) :
        (\A v \in Nat : Occurrences(v, others)
                          = Occurrences(v, holders) + Occurrences(v, <<new.value>>))
          => Exact(new.mem, others)
  BY <1>2, <1>5
<1>7. new.value \in 0..Len(new.mem) /\ Len(new.mem) \in Nat /\ Len(new.mem) >= Len(mem)
  BY <1>1, <1>2, <1>3
<1>8. GrownBy(mem, holders, new)
  BY <1>6, <1>7 DEF GrownBy
<1>9. QED
  BY <1>8 DEF new

\* The values an array holds can be referred to.
LEMMA SpreadUsable ==
  ASSUME NEW mem, NEW holders, Exact(mem, holders), NEW v, Usable(mem, v)
  PROVE  /\ Spread(mem, v) \in Seq(Nat)
         /\ \A x \in Range(Spread(mem, v)) : Usable(mem, x)
<1>1. /\ mem \in Seq(Cell) /\ Len(mem) \in Nat /\ DOMAIN mem = 1..Len(mem)
      /\ Alive(mem) \in SUBSET DOMAIN mem
  BY ExactFacts
<1>2. CASE ~ (v > 0 /\ mem[v].kind = "list")
  BY <1>2 DEF Spread, Range
<1>3. CASE v > 0 /\ mem[v].kind = "list"
  <2>1. v \in Alive(mem) /\ v \in DOMAIN mem /\ Spread(mem, v) = mem[v].elems
    BY <1>1, <1>3 DEF Usable, NullValue, Spread
  <2>2. mem[v].elems \in Seq(Nat)
    BY <1>1, <2>1, CellFacts
  <2>3. ASSUME NEW x \in Range(mem[v].elems) PROVE Usable(mem, x)
    <3>1. x \in Nat /\ x < v
      BY <2>1, <2>2 DEF Exact, MemOK, Range
    <3>2. CASE x = 0
      BY <3>2 DEF Usable, NullValue
    <3>3. CASE x # 0
      <4>1. x \in DOMAIN mem
        BY <1>1, <2>1, <3>1, <3>3
      <4>2. QED
        BY <2>1, <4>1, ReferredAlive DEF Usable
    <3>4. QED
      BY <3>2, <3>3
  <2>4. QED
    BY <2>1, <2>2, <2>3
<1>4. QED
  BY <1>2, <1>3

\* The value of an alternative without symbols.
LEMMA EmptyGrown ==
  ASSUME NEW mem, NEW holders, Exact(mem, holders),
         \A v \in Range(holders) : v <= Len(mem), NEW a
  PROVE  GrownBy(mem, holders, EmptyValue(a, mem))
<1>1. mem \in Seq(Cell) /\ Len(mem) \in Nat /\ holders \in Seq(Int)
  BY ExactFacts DEF Exact
<1>2. CASE a.synthetic # "none"
  <2>1. << >> \in Seq(Nat) /\ \A v \in Range(<< >>) : Usable(mem, v)
    BY DEF Range
  <2>2. GrownBy(mem, holders, Fresh(mem, "list", Null, 0, << >>))
    BY <2>1, FreshGrown
  <2>3. QED
    BY <1>2, <2>2 DEF EmptyValue, FreshList
<1>3. CASE ~ a.synthetic # "none"
  <2> DEFINE new == [mem |-> mem, value |-> NullValue]
  <2>1. new.mem = mem /\ new.value = 0
    BY DEF NullValue
  <2> HIDE DEF new
  <2>2. ASSUME NEW others \in Seq(Int),
               \A v \in Nat : Occurrences(v, others)
                                = Occurrences(v, holders) + Occurrences(v, << 0 >>)
        PROVE  Exact(mem, others)
    <3>1. DOMAIN mem = 1..Len(mem)
      BY <1>1
    <3>2. \A c \in DOMAIN mem : Occurrences(c, others) = Occurrences(c, holders)
      <4>1. ASSUME NEW c \in DOMAIN mem
            PROVE  Occurrences(c, others) = Occurrences(c, holders)
        <5>1. c \in Nat /\ 0 # c
          BY <1>1
        <5>2. Occurrences(c, <<0>>) = 0
          BY <5>1, OccurrencesOne
        <5>3. Occurrences(c, holders) \in Nat
          BY <1>1, OccurrencesType
        <5>4. QED
          BY <2>2, <5>1, <5>2, <5>3
      <4>2. QED
        BY <4>1
    <3>3. QED
      BY <3>2 DEF Exact, Counted
  <2>3. GrownBy(mem, holders, new)
    BY <1>1, <2>1, <2>2 DEF GrownBy
  <2>4. QED
    BY <1>3, <2>3 DEF EmptyValue, new
<1>4. QED
  BY <1>2, <1>3

\* apply gives a value of which the caller has the only new reference.
LEMMA AppliedGrown ==
  ASSUME NEW mem, NEW holders, Exact(mem, holders),
         \A v \in Range(holders) : v <= Len(mem),
         NEW a \in Alternatives, NEW rule \in Names, NEW alt \in Nat,
         NEW args \in Seq(Nat), args # << >>, Len(args) = Len(a.symbols),
         \A v \in Range(args) : Usable(mem, v)
  PROVE  GrownBy(mem, holders, Applied(a, rule, alt, mem, args))
<1>1. \A k \in 1..Len(args) : args[k] \in Nat /\ Usable(mem, args[k])
  BY DEF Range
<1>2. Len(args) \in Nat \ {0}
  OBVIOUS
<1>3. GrownBy(mem, holders, Shared(mem, args[1]))
  BY <1>1, <1>2, SharedGrown
<1>4. CASE a.action # Null
  <2>1. Applied(a, rule, alt, mem, args) = Called(mem, rule, alt, a.action, args)
    BY <1>4 DEF Applied
  <2>2. CASE a.action = "object"
    <3>1. GrownBy(mem, holders, Fresh(mem, "object", rule, alt, args))
      BY FreshGrown
    <3>2. QED
      BY <2>1, <2>2, <3>1 DEF Called
  <2>3. CASE a.action # "object"
    BY <1>3, <2>1, <2>3 DEF Called
  <2>4. QED
    BY <2>2, <2>3
<1>5. CASE a.action = Null /\ a.synthetic \in {"star", "plus"}
  <2> DEFINE elems == IF Len(a.symbols) = 2 THEN Append(Spread(mem, args[1]), args[2])
                                            ELSE <<args[1]>>
  <2>1. Applied(a, rule, alt, mem, args) = Fresh(mem, "list", Null, 0, elems)
    BY <1>5 DEF Applied, FreshList
  <2>2. elems \in Seq(Nat) /\ \A v \in Range(elems) : Usable(mem, v)
    <3>1. CASE Len(a.symbols) = 2
      <4> DEFINE s == Spread(mem, args[1])
      <4>1. s \in Seq(Nat) /\ \A x \in Range(s) : Usable(mem, x)
        BY <1>1, <1>2, SpreadUsable
      <4>2. args[2] \in Nat /\ Usable(mem, args[2])
        BY <1>1, <3>1
      <4> HIDE DEF s
      <4>3. Append(s, args[2]) \in Seq(Nat)
        BY <4>1, <4>2
      <4>4. \A v \in Range(Append(s, args[2])) : v \in Range(s) \/ v = args[2]
        BY <4>1, <4>2 DEF Range
      <4>5. QED
        BY <3>1, <4>1, <4>2, <4>3, <4>4 DEF s
    <3>2. CASE Len(a.symbols) # 2
      <4>1. <<args[1]>> \in Seq(Nat) /\ Range(<<args[1]>>) = {args[1]}
        BY <1>1, <1>2 DEF Range
      <4>2. QED
        BY <1>1, <1>2, <3>2, <4>1
    <3>3. QED
      BY <3>1, <3>2
  <2> HIDE DEF elems
  <2>3. GrownBy(mem, holders, Fresh(mem, "list", Null, 0, elems))
    BY <2>2, FreshGrown
  <2>4. QED
    BY <2>1, <2>3
<1>6. CASE a.action = Null /\ a.synthetic = "optional"
  <2>1. Applied(a, rule, alt, mem, args) = Shared(mem, args[1])
    BY <1>6 DEF Applied
  <2>2. QED
    BY <1>3, <2>1
<1>7. CASE a.action = Null /\ a.synthetic = "none"
  <2>1. Applied(a, rule, alt, mem, args)
          = IF Len(args) = 1 THEN Shared(mem, args[1]) ELSE Fresh(mem, "list", Null, 0, args)
    BY <1>7 DEF Applied, FreshList
  <2>2. GrownBy(mem, holders, Fresh(mem, "list", Null, 0, args))
    BY FreshGrown
  <2>3. QED
    BY <1>3, <2>1, <2>2
<1>8. QED
  BY <1>4, <1>5, <1>6, <1>7, QuantifierAssumption

-----------------------------------------------------------------------------
(* The references frames hold                                              *)

Flattened(seqs) ==
  CHOOSE flatten : flatten = [i \in 1..Len(seqs) |->
    IF i = 1 THEN seqs[i] ELSE flatten[i - 1] \o seqs[i]]

\* Flattening, step by step.
LEMMA FlattenedSteps ==
  ASSUME NEW T, NEW seqs \in Seq(Seq(T)), seqs # << >>
  PROVE  /\ FlattenSeq(seqs) = Flattened(seqs)[Len(seqs)]
         /\ Flattened(seqs)[1] = seqs[1]
         /\ \A i \in 2..Len(seqs) : Flattened(seqs)[i] = Flattened(seqs)[i - 1] \o seqs[i]
<1> DEFINE n == Len(seqs)
           V == Seq(T)
           F == [p \in (1..n) \X V |-> p[2] \o seqs[p[1]]]
           Step(h) == [i \in 1..n |-> IF i = 1 THEN seqs[i] ELSE h[i - 1] \o seqs[i]]
           flat == Flattened(seqs)
<1>1. n \in Nat \ {0} /\ DOMAIN seqs = 1..n /\ \A i \in 1..n : seqs[i] \in V
  OBVIOUS
<1>2. FlattenSeq(seqs) = flat[n]
  BY <1>1 DEF FlattenSeq, Flattened
<1>3. << >> \in V /\ F \in [(1..n) \X V -> V]
  <2>1. ASSUME NEW p \in (1..n) \X V PROVE p[2] \o seqs[p[1]] \in V
    <3>1. p[2] \in Seq(T) /\ seqs[p[1]] \in Seq(T)
      BY <1>1
    <3>2. QED
      BY <3>1
  <2>2. QED
    BY <2>1
<1>4. PICK g : Ascends(g, n, V, << >>, F)
  <2> HIDE DEF F, V, n
  <2> QED BY <1>1, <1>3, Ascent
<1>5. ASSUME NEW m \in 1..n PROVE g[m] = g[m - 1] \o seqs[m]
  <2>1. m - 1 \in 0..n
    BY <1>1
  <2>2. <<m, g[m - 1]>> \in (1..n) \X V
    BY <1>4, <2>1 DEF Ascends
  <2>3. F[<<m, g[m - 1]>>] = g[m - 1] \o seqs[m]
    BY <2>2
  <2>4. QED
    BY <1>4, <2>3 DEF Ascends
<1> DEFINE w == [i \in 1..n |-> g[i]]
<1>6. w = Step(w)
  <2>1. ASSUME NEW i \in 1..n
        PROVE  g[i] = IF i = 1 THEN seqs[i] ELSE w[i - 1] \o seqs[i]
    <3>1. CASE i = 1
      <4>1. g[1] = << >> \o seqs[1]
        <5>1. 1 \in 1..n /\ 1 - 1 = 0
          BY <1>1
        <5>2. g[1] = g[1 - 1] \o seqs[1]
          BY <1>5, <5>1
        <5>3. g[0] = << >>
          BY <1>4 DEF Ascends
        <5>4. QED
          BY <5>1, <5>2, <5>3
      <4>2. seqs[1] \in Seq(T)
        BY <1>1, <3>1
      <4>3. << >> \o seqs[1] = seqs[1]
        BY <4>2
      <4>4. QED
        BY <3>1, <4>1, <4>3
    <3>2. CASE i # 1
      <4>1. i - 1 \in 1..n
        BY <1>1, <3>2
      <4>2. w[i - 1] = g[i - 1]
        BY <4>1
      <4> HIDE DEF w
      <4>3. QED
        BY <1>5, <3>2, <4>2
    <3>3. QED
      BY <3>1, <3>2
  <2>2. QED
    BY <2>1, Zenon
<1>7. flat = Step(flat)
  <2>1. flat = CHOOSE h : h = Step(h)
    BY DEF Flattened
  <2> HIDE DEF Step, flat, w
  <2>2. QED
    BY <1>6, <2>1
<1> HIDE DEF flat
<1>8. flat[1] = seqs[1]
  <2>1. 1 \in 1..n
    BY <1>1
  <2>2. QED
    BY <1>7, <2>1
<1>9. ASSUME NEW i \in 2..n PROVE flat[i] = flat[i - 1] \o seqs[i]
  <2>1. i \in 1..n /\ i # 1
    BY <1>1
  <2>2. QED
    BY <1>7, <2>1
<1>10. QED
  BY <1>2, <1>8, <1>9 DEF flat

LEMMA FlattenEmpty == FlattenSeq(<< >>) = << >>
  BY DEF FlattenSeq

\* Flattening goes on where the sequence before it ends.
LEMMA FlattenAppend ==
  ASSUME NEW T, NEW seqs \in Seq(Seq(T)), NEW x \in Seq(T), FlattenSeq(seqs) \in Seq(T)
  PROVE  /\ FlattenSeq(Append(seqs, x)) = FlattenSeq(seqs) \o x
         /\ FlattenSeq(Append(seqs, x)) \in Seq(T)
<1> DEFINE n == Len(seqs)
           more == Append(seqs, x)
           flat == Flattened(seqs)
           long == Flattened(more)
<1>1. /\ n \in Nat /\ more \in Seq(Seq(T)) /\ more # << >> /\ Len(more) = n + 1
      /\ \A i \in 1..n : more[i] = seqs[i]
  <2> DEFINE U == Seq(T)
  <2>1. seqs \in Seq(U) /\ x \in U
    OBVIOUS
  <2> HIDE DEF U
  <2>2. /\ n \in Nat /\ more \in Seq(U) /\ Len(more) = n + 1
        /\ \A i \in 1..n : more[i] = seqs[i]
    BY <2>1
  <2>3. more # << >>
    <3>1. Len(more) # 0
      BY <2>2
    <3> HIDE DEF more
    <3>2. QED
      BY <3>1
  <2>4. QED
    BY <2>2, <2>3 DEF U
<1> HIDE DEF more
<1>2. /\ FlattenSeq(more) = long[n + 1] /\ long[1] = more[1]
      /\ \A i \in 2..(n + 1) : long[i] = long[i - 1] \o more[i]
  BY <1>1, FlattenedSteps
<1>3. CASE n = 0
  <2>1. more[1] = x
    <3>1. n + 1 = 1
      BY <1>3
    <3>2. QED
      BY <3>1 DEF more
  <2>2. FlattenSeq(seqs) = << >>
    <3>1. seqs = << >>
      BY <1>3
    <3>2. QED
      BY <3>1, FlattenEmpty
  <2>3. << >> \o x = x
    OBVIOUS
  <2>4. FlattenSeq(more) = x
    BY <1>1, <1>2, <1>3, <2>1
  <2>5. QED
    BY <2>2, <2>3, <2>4 DEF more
<1>4. CASE n # 0
  <2>1. seqs # << >>
    BY <1>4
  <2>2. /\ FlattenSeq(seqs) = flat[n] /\ flat[1] = seqs[1]
        /\ \A i \in 2..n : flat[i] = flat[i - 1] \o seqs[i]
    BY <2>1, FlattenedSteps
  <2> DEFINE S == {m \in Nat : m >= 1 /\ m <= n => long[m] = flat[m]}
  <2>3. 0 \in S
    OBVIOUS
  <2>4. ASSUME NEW m \in Nat, m \in S PROVE m + 1 \in S
    <3>1. SUFFICES ASSUME m + 1 <= n PROVE long[m + 1] = flat[m + 1]
      BY <1>1
    <3>2. CASE m = 0
      <4>1. more[1] = seqs[1]
        BY <1>1, <1>4
      <4>2. QED
        BY <1>2, <2>2, <3>2, <4>1
    <3>3. CASE m # 0
      <4>1. /\ m + 1 \in 2..n /\ m + 1 \in 2..(n + 1) /\ (m + 1) - 1 = m
            /\ m + 1 \in 1..n /\ m >= 1 /\ m <= n
        BY <1>1, <3>1, <3>3
      <4>2. long[m] = flat[m]
        BY <2>4, <4>1
      <4>3. /\ long[m + 1] = long[(m + 1) - 1] \o more[m + 1]
            /\ flat[m + 1] = flat[(m + 1) - 1] \o seqs[m + 1]
        BY <1>2, <2>2, <4>1
      <4>4. more[m + 1] = seqs[m + 1]
        BY <1>1, <4>1
      <4>5. QED
        BY <4>1, <4>2, <4>3, <4>4
    <3>4. QED
      BY <3>2, <3>3
  <2>5. Nat \subseteq S
    <3> HIDE DEF S
    <3> QED BY <2>3, <2>4, Induction
  <2>6. long[n] = flat[n]
    BY <1>1, <1>4, <2>5
  <2>7. more[n + 1] = x
    BY DEF more
  <2>8. n + 1 \in 2..(n + 1) /\ (n + 1) - 1 = n
    BY <1>1, <1>4
  <2>9. long[n + 1] = long[(n + 1) - 1] \o more[n + 1]
    BY <1>2, <2>8
  <2>10. FlattenSeq(more) = flat[n] \o x
    BY <1>2, <2>6, <2>7, <2>8, <2>9
  <2>11. FlattenSeq(seqs) \o x \in Seq(T)
    OBVIOUS
  <2>12. QED
    BY <2>2, <2>10, <2>11 DEF more
<1>5. QED
  BY <1>3, <1>4

\* A sequence of frames, as far as the references they hold go.
Holding(stack) ==
  /\ DOMAIN stack = 1..Len(stack) /\ Len(stack) \in Nat
  /\ \A f \in DOMAIN stack : stack[f].partial \in Seq(Int)

PartialsOf(stack) == [f \in DOMAIN stack |-> stack[f].partial]

\* The frames pushed and popped one at a time.
LEMMA HeldAppend ==
  ASSUME NEW T, NEW stack \in Seq(T), NEW f \in T,
         \A x \in T : x.partial \in Seq(Int), HeldBy(stack) \in Seq(Int)
  PROVE  /\ HeldBy(Append(stack, f)) = HeldBy(stack) \o f.partial
         /\ HeldBy(Append(stack, f)) \in Seq(Int)
<1> DEFINE seqs == PartialsOf(stack)
           U == Seq(Int)
           n == Len(stack)
           more == Append(stack, f)
<1>1. n \in Nat /\ DOMAIN stack = 1..n /\ \A k \in 1..n : stack[k] \in T
  OBVIOUS
<1>2. seqs \in Seq(U) /\ Len(seqs) = n
  <2>1. \A k \in 1..n : stack[k].partial \in U
    BY <1>1
  <2>2. seqs = [k \in 1..n |-> stack[k].partial]
    BY <1>1 DEF PartialsOf
  <2> HIDE DEF U, seqs
  <2>3. QED
    BY <1>1, <2>1, <2>2
<1>3. PartialsOf(more) = Append(seqs, f.partial)
  <2>1. /\ Len(more) = n + 1 /\ DOMAIN more = 1..(n + 1)
        /\ \A k \in 1..n : more[k] = stack[k]
        /\ more[n + 1] = f
    OBVIOUS
  <2> DEFINE long == Append(seqs, f.partial)
  <2>2. /\ DOMAIN long = 1..(n + 1)
        /\ \A k \in 1..n : long[k] = stack[k].partial
        /\ long[n + 1] = f.partial
    BY <1>1, <1>2 DEF PartialsOf
  <2>3. long = [k \in DOMAIN long |-> long[k]]
    OBVIOUS
  <2> HIDE DEF long, more
  <2>4. \A k \in 1..(n + 1) : long[k] = more[k].partial
    <3>1. ASSUME NEW k \in 1..(n + 1) PROVE long[k] = more[k].partial
      <4>1. CASE k = n + 1
        BY <2>1, <2>2, <4>1
      <4>2. CASE k # n + 1
        <5>1. k \in 1..n
          BY <1>1, <4>2
        <5>2. QED
          BY <2>1, <2>2, <5>1
      <4>3. QED
        BY <4>1, <4>2
    <3>2. QED
      BY <3>1
  <2>5. QED
    BY <2>1, <2>2, <2>3, <2>4 DEF PartialsOf, long
<1>4. FlattenSeq(seqs) = HeldBy(stack) /\ FlattenSeq(PartialsOf(more)) = HeldBy(more)
  BY DEF HeldBy, PartialsOf
<1>5. f.partial \in Seq(Int)
  OBVIOUS
<1> HIDE DEF seqs, more
<1>6. /\ FlattenSeq(Append(seqs, f.partial)) = FlattenSeq(seqs) \o f.partial
      /\ FlattenSeq(Append(seqs, f.partial)) \in Seq(Int)
  BY <1>2, <1>4, <1>5, FlattenAppend
<1>7. QED
  BY <1>3, <1>4, <1>6 DEF more

\* No frame holds nothing.
LEMMA HeldEmpty == HeldBy(<< >>) = << >>
<1>1. [f \in DOMAIN << >> |-> << >>[f].partial] = << >>
  OBVIOUS
<1>2. QED
  BY <1>1, FlattenEmpty DEF HeldBy

\* A stack that is not empty, taken apart.
LEMMA LastFront ==
  ASSUME NEW T, NEW stack \in Seq(T), stack # << >>
  PROVE  /\ stack = Append(Front(stack), Last(stack))
         /\ Front(stack) \in Seq(T) /\ Last(stack) \in T
         /\ Len(Front(stack)) = Len(stack) - 1 /\ Len(Front(stack)) \in Nat
         /\ \A k \in 1..(Len(stack) - 1) : Front(stack)[k] = stack[k]
<1>1. PICK m \in Nat : Len(stack) = m + 1
  <2>1. Len(stack) \in Nat /\ Len(stack) # 0
    OBVIOUS
  <2>2. Len(stack) - 1 \in Nat /\ Len(stack) = (Len(stack) - 1) + 1
    BY <2>1
  <2>3. QED
    BY <2>2
<1> DEFINE front == Front(stack)
           last == Last(stack)
<1>2. (m + 1) - 1 = m /\ m \in 0..(m + 1) /\ m + 1 \in 1..(m + 1)
  OBVIOUS
<1>3. front \in Seq(T) /\ Len(front) = m /\ \A k \in 1..m : front[k] = stack[k]
  BY <1>1, <1>2 DEF Front
<1>4. last = stack[m + 1] /\ last \in T
  BY <1>1, <1>2 DEF Last
<1> HIDE DEF front, last
<1> DEFINE new == Append(front, last)
<1>5. /\ new \in Seq(T) /\ Len(new) = m + 1
      /\ \A k \in 1..m : new[k] = front[k]
      /\ new[m + 1] = last
  BY <1>3, <1>4
<1> HIDE DEF new
<1>6. ASSUME NEW k \in 1..(m + 1) PROVE new[k] = stack[k]
  <2>1. k = m + 1 \/ k \in 1..m
    OBVIOUS
  <2>2. QED
    BY <1>3, <1>4, <1>5, <2>1
<1>7. new = stack
  BY <1>1, <1>5, <1>6
<1>8. QED
  BY <1>1, <1>2, <1>3, <1>4, <1>7 DEF new, front, last

\* Frames: partial holds integers, slots naturals.
FrameSet(T) ==
  \A x \in T : /\ x.partial \in Seq(Int) /\ x.slots \in Seq(Nat)
               /\ x.kind \in {"select", "apply"}

\* The frames of a stack hold a sequence of references.
LEMMA HeldTypes ==
  ASSUME NEW T, FrameSet(T)
  PROVE  \A stack \in Seq(T) : HeldBy(stack) \in Seq(Int)
<1> DEFINE S == {n \in Nat : \A st \in Seq(T) : Len(st) = n => HeldBy(st) \in Seq(Int)}
<1>1. 0 \in S
  <2>1. ASSUME NEW st \in Seq(T), Len(st) = 0 PROVE HeldBy(st) \in Seq(Int)
    <3>1. st = << >>
      BY <2>1
    <3>2. HeldBy(st) = << >>
      BY <3>1, HeldEmpty
    <3>3. << >> \in Seq(Int)
      OBVIOUS
    <3>4. QED
      BY <3>2, <3>3
  <2>2. QED
    BY <2>1
<1>2. ASSUME NEW n \in Nat, n \in S PROVE n + 1 \in S
  <2>1. ASSUME NEW st \in Seq(T), Len(st) = n + 1 PROVE HeldBy(st) \in Seq(Int)
    <3>1. st # << >>
      <4>1. n + 1 # 0
        OBVIOUS
      <4>2. QED
        BY <2>1, <4>1
    <3>2. /\ st = Append(Front(st), Last(st)) /\ Front(st) \in Seq(T) /\ Last(st) \in T
          /\ Len(Front(st)) = Len(st) - 1
      BY <3>1, LastFront
    <3>3. HeldBy(Front(st)) \in Seq(Int)
      <4>1. Len(Front(st)) = n
        BY <2>1, <3>2
      <4>2. QED
        BY <1>2, <3>2, <4>1
    <3>4. HeldBy(Append(Front(st), Last(st))) \in Seq(Int)
      BY <3>2, <3>3, HeldAppend DEF FrameSet
    <3>5. QED
      BY <3>2, <3>4
  <2>2. QED
    BY <2>1
<1>3. Nat \subseteq S
  <2> HIDE DEF S
  <2> QED BY <1>1, <1>2, Induction
<1>4. ASSUME NEW st \in Seq(T) PROVE HeldBy(st) \in Seq(Int)
  <2>1. Len(st) \in S
    BY <1>3
  <2>2. QED
    BY <2>1
<1>5. QED
  BY <1>4

\* A frame pushed holds its partial array.
LEMMA HeldPush ==
  ASSUME NEW T, FrameSet(T), NEW stack \in Seq(T), NEW f \in T
  PROVE  /\ HeldBy(stack) \in Seq(Int) /\ HeldBy(Append(stack, f)) \in Seq(Int)
         /\ HeldBy(Append(stack, f)) = HeldBy(stack) \o f.partial
  BY HeldTypes, HeldAppend DEF FrameSet

\* The top frame gives up what it holds.
LEMMA HeldPop ==
  ASSUME NEW T, FrameSet(T), NEW stack \in Seq(T), stack # << >>
  PROVE  /\ HeldBy(stack) \in Seq(Int) /\ HeldBy(Front(stack)) \in Seq(Int)
         /\ HeldBy(stack) = HeldBy(Front(stack)) \o Last(stack).partial
<1>1. /\ stack = Append(Front(stack), Last(stack))
      /\ Front(stack) \in Seq(T) /\ Last(stack) \in T
  BY LastFront
<1>2. HeldBy(Append(Front(stack), Last(stack)))
        = HeldBy(Front(stack)) \o Last(stack).partial
  BY <1>1, HeldPush
<1>3. HeldBy(stack) \in Seq(Int) /\ HeldBy(Front(stack)) \in Seq(Int)
  BY <1>1, HeldTypes
<1>4. QED
  BY <1>1, <1>2, <1>3

-----------------------------------------------------------------------------
(* The arrays of the frames                                                *)

Applying(stack) == {f \in DOMAIN stack : stack[f].kind = "apply"}

\* The frames that own arrays are finitely many.
LEMMA ArraysType ==
  ASSUME NEW T, NEW stack \in Seq(T)
  PROVE  /\ IsFiniteSet(Applying(stack)) /\ Cardinality(Applying(stack)) \in Nat
         /\ ArraysOf(stack) = 2 * Cardinality(Applying(stack))
         /\ ArraysOf(stack) \in Nat
<1>1. Applying(stack) \subseteq 1..Len(stack) /\ Len(stack) \in Nat
  BY DEF Applying
<1>2. IsFiniteSet(1..Len(stack))
  BY <1>1, FS_Interval
<1>3. IsFiniteSet(Applying(stack))
  BY <1>1, <1>2, FS_Subset
<1>4. Cardinality(Applying(stack)) \in Nat
  BY <1>3, FS_CardinalityType
<1>5. ArraysOf(stack) = 2 * Cardinality(Applying(stack))
  BY DEF ArraysOf, Applying
<1>6. QED
  BY <1>3, <1>4, <1>5

\* An apply frame owns two arrays, a select frame none.
LEMMA ArraysPush ==
  ASSUME NEW T, NEW stack \in Seq(T), NEW f \in T
  PROVE  ArraysOf(Append(stack, f))
           = ArraysOf(stack) + IF f.kind = "apply" THEN 2 ELSE 0
<1> DEFINE more == Append(stack, f)
           n == Len(stack)
<1>1. /\ n \in Nat /\ DOMAIN stack = 1..n /\ DOMAIN more = 1..(n + 1)
      /\ more \in Seq(T) /\ \A k \in 1..n : more[k] = stack[k]
  OBVIOUS
<1>2. more[n + 1] = f
  OBVIOUS
<1>3. /\ ArraysOf(more) = 2 * Cardinality(Applying(more))
      /\ ArraysOf(stack) = 2 * Cardinality(Applying(stack))
      /\ IsFiniteSet(Applying(stack)) /\ Cardinality(Applying(stack)) \in Nat
  <2> HIDE DEF more
  <2> QED BY <1>1, ArraysType
<1> HIDE DEF more
<1>4. CASE f.kind = "apply"
  <2>1. Applying(more) = Applying(stack) \cup {n + 1}
    BY <1>1, <1>2, <1>4 DEF Applying
  <2>2. n + 1 \notin Applying(stack)
    BY <1>1 DEF Applying
  <2>3. Cardinality(Applying(more)) = Cardinality(Applying(stack)) + 1
    BY <1>3, <2>1, <2>2, FS_AddElement
  <2>4. QED
    BY <1>3, <1>4, <2>3 DEF more
<1>5. CASE f.kind # "apply"
  <2>1. Applying(more) = Applying(stack)
    BY <1>1, <1>2, <1>5 DEF Applying
  <2>2. ArraysOf(more) = ArraysOf(stack) /\ ArraysOf(stack) \in Nat
    BY <1>3, <2>1
  <2>3. QED
    BY <1>5, <2>2 DEF more
<1>6. QED
  BY <1>4, <1>5

LEMMA ArraysPop ==
  ASSUME NEW T, NEW stack \in Seq(T), stack # << >>
  PROVE  ArraysOf(stack)
           = ArraysOf(Front(stack)) + IF Last(stack).kind = "apply" THEN 2 ELSE 0
<1>1. /\ stack = Append(Front(stack), Last(stack))
      /\ Front(stack) \in Seq(T) /\ Last(stack) \in T
  BY LastFront
<1>2. ArraysOf(Append(Front(stack), Last(stack)))
        = ArraysOf(Front(stack)) + IF Last(stack).kind = "apply" THEN 2 ELSE 0
  BY <1>1, ArraysPush
<1>3. QED
  BY <1>1, <1>2

-----------------------------------------------------------------------------
(* Balance                                                                 *)

\* How many values there are before frame f is pushed, if n are there above all.
Sizes(stack, n) ==
  CHOOSE size : size = [f \in 1..(Len(stack) + 1) |->
    IF f > Len(stack) THEN n ELSE size[f + 1] + 1 - Len(stack[f].slots)]

BalancedAt(stack, n) ==
  /\ Sizes(stack, n)[1] = 1
  /\ \A f \in DOMAIN stack : Sizes(stack, n)[f + 1] >= Len(stack[f].slots)

\* The balance depends on the heap by its length only.
LEMMA BalancedIs == \A stack, heap : Balanced(stack, heap) <=> BalancedAt(stack, Len(heap))
  BY DEF Balanced, BalancedAt, Sizes

\* The sizes of the heap, from the top frame down.
LEMMA SizesSteps ==
  ASSUME NEW T, FrameSet(T), NEW stack \in Seq(T), NEW n \in Int
  PROVE  LET size == Sizes(stack, n) IN
         /\ size[Len(stack) + 1] = n
         /\ \A f \in 1..Len(stack) :
              /\ size[f + 1] \in Int
              /\ size[f] = (size[f + 1] + 1) - Len(stack[f].slots)
<1> DEFINE l == Len(stack)
           size == Sizes(stack, n)
           F == [p \in (1..l) \X Int |-> (p[2] + 1) - Len(stack[p[1]].slots)]
           Step(h) == [f \in 1..(l + 1) |->
             IF f > l THEN n ELSE h[f + 1] + 1 - Len(stack[f].slots)]
<1>1. l \in Nat /\ \A f \in 1..l : Len(stack[f].slots) \in Nat
  <2>1. l \in Nat /\ \A f \in 1..l : stack[f] \in T
    OBVIOUS
  <2>2. QED
    BY <2>1 DEF FrameSet
<1>2. F \in [(1..l) \X Int -> Int]
  <2>1. ASSUME NEW p \in (1..l) \X Int PROVE (p[2] + 1) - Len(stack[p[1]].slots) \in Int
    <3>1. p[2] \in Int /\ Len(stack[p[1]].slots) \in Nat
      BY <1>1
    <3>2. QED
      BY <3>1
  <2>2. QED
    BY <2>1
<1>3. PICK g : Descends(g, l, Int, n, F)
  <2> HIDE DEF F, l
  <2> QED BY <1>1, <1>2, Recursion
<1>4. /\ g \in [1..(l + 1) -> Int] /\ g[l + 1] = n
      /\ \A f \in 1..l : g[f] = F[<<f, g[f + 1]>>]
  BY <1>3 DEF Descends
<1>5. ASSUME NEW f \in 1..l
      PROVE  g[f] = g[f + 1] + 1 - Len(stack[f].slots) /\ g[f + 1] \in Int
  <2>1. f + 1 \in 1..(l + 1)
    BY <1>1
  <2>2. g[f + 1] \in Int /\ <<f, g[f + 1]>> \in (1..l) \X Int
    BY <1>4, <2>1
  <2>3. F[<<f, g[f + 1]>>] = (g[f + 1] + 1) - Len(stack[f].slots)
    BY <2>2
  <2>4. (g[f + 1] + 1) - Len(stack[f].slots) = g[f + 1] + 1 - Len(stack[f].slots)
    BY <1>1, <2>2
  <2>5. QED
    BY <1>4, <2>2, <2>3, <2>4
<1>6. g = Step(g)
  <2>1. \A f \in 1..(l + 1) : g[f] = Step(g)[f]
    <3>1. ASSUME NEW f \in 1..(l + 1)
          PROVE  g[f] = IF f > l THEN n ELSE g[f + 1] + 1 - Len(stack[f].slots)
      <4>1. CASE f > l
        <5>1. f = l + 1
          BY <1>1, <4>1
        <5>2. QED
          BY <1>4, <4>1, <5>1
      <4>2. CASE ~ f > l
        <5>1. f \in 1..l
          BY <1>1, <4>2
        <5>2. QED
          BY <1>5, <4>2, <5>1
      <4>3. QED
        BY <4>1, <4>2
    <3>2. QED
      BY <3>1, Zenon
  <2>2. QED
    BY <1>4, <2>1
<1>7. size = Step(size)
  <2>1. size = CHOOSE h : h = Step(h)
    BY DEF Sizes
  <2> HIDE DEF Step, size
  <2>2. QED
    BY <1>6, <2>1
<1> HIDE DEF size
<1>8. size[l + 1] = n
  <2>1. l + 1 \in 1..(l + 1) /\ l + 1 > l
    BY <1>1
  <2>2. QED
    BY <1>7, <2>1
<1>9. ASSUME NEW f \in 1..l
      PROVE  size[f] = size[f + 1] + 1 - Len(stack[f].slots)
  <2>1. f \in 1..(l + 1) /\ ~ f > l
    BY <1>1
  <2>2. QED
    BY <1>7, <2>1
<1> DEFINE S == {f \in 1..(l + 1) : size[f] \in Int}
<1>10. 1..(l + 1) \subseteq S
  <2>1. l + 1 \in S
    <3>1. l + 1 \in 1..(l + 1)
      BY <1>1
    <3>2. QED
      BY <1>8, <3>1
  <2>2. ASSUME NEW f \in 1..l, f + 1 \in S PROVE f \in S
    <3>1. f \in 1..(l + 1) /\ size[f + 1] \in Int
      BY <1>1, <2>2
    <3>2. size[f] = size[f + 1] + 1 - Len(stack[f].slots) /\ Len(stack[f].slots) \in Nat
      BY <1>1, <1>9
    <3>3. size[f] \in Int
      BY ONLY <3>1, <3>2
    <3>4. QED
      BY <3>1, <3>3
  <2> HIDE DEF S, l
  <2>3. QED
    BY <1>1, <2>1, <2>2, DownInduction
<1>11. ASSUME NEW f \in 1..l
       PROVE  /\ size[f + 1] \in Int
              /\ size[f] = (size[f + 1] + 1) - Len(stack[f].slots)
  <2>1. f + 1 \in 1..(l + 1)
    BY <1>1
  <2>2. size[f + 1] \in Int
    BY <1>10, <2>1
  <2>3. QED
    BY <1>1, <1>9, <2>2
<1>12. QED
  BY <1>8, <1>11 DEF size

\* The frames below one do not depend on how the values above came about.
LEMMA BalancedPush ==
  ASSUME NEW T, FrameSet(T), NEW stack \in Seq(T), NEW f \in T, NEW n \in Int
  PROVE  BalancedAt(Append(stack, f), n)
           <=> BalancedAt(stack, (n + 1) - Len(f.slots)) /\ n >= Len(f.slots)
<1> DEFINE l == Len(stack)
           more == Append(stack, f)
           m == (n + 1) - Len(f.slots)
           size == Sizes(stack, m)
           long == Sizes(more, n)
<1>1. /\ l \in Nat /\ DOMAIN stack = 1..l /\ DOMAIN more = 1..(l + 1)
      /\ more \in Seq(T) /\ Len(more) = l + 1
  OBVIOUS
<1>2. (\A k \in 1..l : more[k] = stack[k]) /\ more[l + 1] = f
  OBVIOUS
<1>3. Len(f.slots) \in Nat /\ m \in Int
  BY DEF FrameSet
<1> HIDE DEF m, more
<1>4. /\ size[l + 1] = m
      /\ \A k \in 1..l : /\ size[k + 1] \in Int
                         /\ size[k] = (size[k + 1] + 1) - Len(stack[k].slots)
  BY <1>1, <1>3, SizesSteps
<1>5. /\ long[(l + 1) + 1] = n
      /\ \A k \in 1..(l + 1) : /\ long[k + 1] \in Int
                               /\ long[k] = (long[k + 1] + 1) - Len(more[k].slots)
  <2>1. /\ long[Len(more) + 1] = n
        /\ \A k \in 1..Len(more) :
             /\ long[k + 1] \in Int
             /\ long[k] = (long[k + 1] + 1) - Len(more[k].slots)
    <3>1. more \in Seq(T)
      BY <1>1
    <3>2. QED
      BY <3>1, SizesSteps
  <2> HIDE DEF long
  <2>2. QED
    BY <1>1, <2>1
<1> HIDE DEF size, long
<1>6. long[l + 1] = m
  <2>1. l + 1 \in 1..(l + 1)
    BY <1>1
  <2>2. QED
    BY <1>2, <1>5, <2>1 DEF m
<1> DEFINE S == {k \in 1..(l + 1) : long[k] = size[k]}
<1>7. 1..(l + 1) \subseteq S
  <2>1. l + 1 \in S
    <3>1. l + 1 \in 1..(l + 1)
      BY <1>1
    <3>2. QED
      BY <1>4, <1>6, <3>1
  <2>2. ASSUME NEW k \in 1..l, k + 1 \in S PROVE k \in S
    <3>1. k \in 1..(l + 1) /\ long[k + 1] = size[k + 1]
      BY <1>1, <2>2
    <3>2. QED
      BY <1>2, <1>4, <1>5, <3>1
  <2> HIDE DEF S, l
  <2>3. QED
    BY <1>1, <2>1, <2>2, DownInduction
<1>8. long[1] = size[1]
  <2>1. 1 \in 1..(l + 1)
    BY <1>1
  <2>2. QED
    BY <1>7, <2>1
<1>9. \A k \in 1..l : long[k + 1] = size[k + 1]
  <2>1. ASSUME NEW k \in 1..l PROVE long[k + 1] = size[k + 1]
    <3>1. k + 1 \in 1..(l + 1)
      BY <1>1
    <3>2. QED
      BY <1>7, <3>1
  <2>2. QED
    BY <2>1
<1>10. (\A k \in DOMAIN more : long[k + 1] >= Len(more[k].slots))
         <=> /\ \A k \in DOMAIN stack : size[k + 1] >= Len(stack[k].slots)
             /\ n >= Len(f.slots)
  <2>1. ASSUME NEW k \in 1..(l + 1) PROVE k \in 1..l \/ k = l + 1
    BY <1>1
  <2>2. l + 1 \in 1..(l + 1) /\ \A k \in 1..l : k \in 1..(l + 1)
    BY <1>1
  <2>3. QED
    BY <1>1, <1>2, <1>5, <1>9, <2>1, <2>2
<1>11. QED
  BY <1>8, <1>10 DEF BalancedAt, size, long, m, more

\* The top frame runs first, on the heap as it is.
LEMMA BalancedPop ==
  ASSUME NEW T, FrameSet(T), NEW stack \in Seq(T), stack # << >>, NEW n \in Int
  PROVE  BalancedAt(stack, n)
           <=> /\ BalancedAt(Front(stack), (n + 1) - Len(Last(stack).slots))
               /\ n >= Len(Last(stack).slots)
<1>1. /\ stack = Append(Front(stack), Last(stack))
      /\ Front(stack) \in Seq(T) /\ Last(stack) \in T
  BY LastFront
<1>2. BalancedAt(Append(Front(stack), Last(stack)), n)
        <=> /\ BalancedAt(Front(stack), (n + 1) - Len(Last(stack).slots))
            /\ n >= Len(Last(stack).slots)
  BY <1>1, BalancedPush
<1>3. QED
  BY <1>1, <1>2

\* Without frames the heap has the result alone.
LEMMA BalancedEmpty == \A n \in Int : BalancedAt(<< >>, n) <=> n = 1
<1>1. FrameSet({}) /\ << >> \in Seq({})
  BY DEF FrameSet
<1>2. ASSUME NEW n \in Int PROVE Sizes(<< >>, n)[1] = n
  <2>1. Sizes(<< >>, n)[Len(<< >>) + 1] = n
    BY <1>1, SizesSteps
  <2>2. Len(<< >>) + 1 = 1
    OBVIOUS
  <2>3. QED
    BY <2>1, <2>2
<1>3. \A n, f : f \notin DOMAIN << >>
  OBVIOUS
<1>4. QED
  BY <1>2, <1>3 DEF BalancedAt

-----------------------------------------------------------------------------
(* Select frames pushed for a list of items                                *)

SelectsOf(items) == [k \in DOMAIN items |-> SelectFrame(items[k])]

\* The fields of a frame.
LEMMA SelectFields ==
  \A item : /\ SelectFrame(item).kind = "select" /\ SelectFrame(item).item = item
            /\ SelectFrame(item).partial = << >> /\ SelectFrame(item).slots = << >>
  BY DEF SelectFrame

LEMMA ApplyFields ==
  \A item, partial, slots :
    LET f == ApplyFrame(item, partial, slots) IN
    /\ f.kind = "apply" /\ f.item = item /\ f.partial = partial /\ f.slots = slots
  BY DEF ApplyFrame

\* One more item, one more frame.
\* The frame of one more item is above those of the others.
SelectsOneMore(stack, items, item) ==
  stack \o SelectsOf(Append(items, item))
    = Append(stack \o SelectsOf(items), SelectFrame(item))

LEMMA SelectsAppend ==
  ASSUME NEW T, NEW U, \A i \in U : SelectFrame(i) \in T,
         NEW stack \in Seq(T), NEW items \in Seq(U), NEW item \in U
  PROVE  /\ SelectsOf(items) \in Seq(T) /\ stack \o SelectsOf(items) \in Seq(T)
         /\ Len(SelectsOf(items)) = Len(items)
         /\ SelectsOneMore(stack, items, item)
<1> DEFINE n == Len(items)
           more == Append(items, item)
           old == SelectsOf(items)
           new == SelectsOf(more)
<1>1. n \in Nat /\ DOMAIN items = 1..n /\ \A k \in 1..n : items[k] \in U
  OBVIOUS
<1>2. /\ DOMAIN more = 1..(n + 1) /\ Len(more) = n + 1
      /\ \A k \in 1..n : more[k] = items[k]
  OBVIOUS
<1>3. more[n + 1] = item
  OBVIOUS
<1> HIDE DEF more
<1>4. old \in Seq(T) /\ Len(old) = n
  <2>1. old = [k \in 1..n |-> SelectFrame(items[k])]
    BY <1>1 DEF SelectsOf
  <2>2. QED
    BY <1>1, <2>1
<1>5. new = Append(old, SelectFrame(item))
  <2>1. new = [k \in 1..(n + 1) |-> SelectFrame(more[k])]
    BY <1>2 DEF SelectsOf
  <2>2. \A k \in 1..n : old[k] = SelectFrame(items[k])
    BY <1>1 DEF SelectsOf
  <2> HIDE DEF old, new
  <2> DEFINE app == Append(old, SelectFrame(item))
  <2>3. /\ DOMAIN app = 1..(n + 1) /\ app \in Seq(T)
        /\ \A k \in 1..n : app[k] = old[k]
    BY <1>4
  <2>4. app[n + 1] = SelectFrame(item)
    BY <1>4
  <2> HIDE DEF app
  <2>5. \A k \in 1..(n + 1) : new[k] = app[k]
    <3>1. ASSUME NEW k \in 1..(n + 1) PROVE new[k] = app[k]
      <4>1. k = n + 1 \/ k \in 1..n
        BY <1>1
      <4>2. new[k] = SelectFrame(more[k])
        BY <2>1
      <4>3. QED
        BY <1>2, <1>3, <2>2, <2>3, <2>4, <4>1, <4>2
    <3>2. QED
      BY <3>1
  <2>6. app = [k \in 1..(n + 1) |-> app[k]]
    BY <2>3
  <2>7. QED
    BY <2>1, <2>5, <2>6 DEF app
<1> HIDE DEF old, new
<1>6. stack \o Append(old, SelectFrame(item)) = Append(stack \o old, SelectFrame(item))
  <2> DEFINE f == SelectFrame(item)
  <2>1. f \in T
    OBVIOUS
  <2> HIDE DEF f
  <2>2. stack \o Append(old, f) = Append(stack \o old, f)
    BY <1>4, <2>1
  <2>3. QED
    BY <2>2 DEF f
<1>7. SelectsOneMore(stack, items, item)
  BY <1>5, <1>6 DEF SelectsOneMore, old, new, more
<1>8. QED
  BY <1>4, <1>7 DEF old

\* Select frames hold nothing and give one value each.
LEMMA SelectsPushed ==
  ASSUME NEW T, FrameSet(T), NEW U, \A i \in U : SelectFrame(i) \in T,
         NEW stack \in Seq(T)
  PROVE  \A items \in Seq(U) :
           LET new == stack \o SelectsOf(items) IN
           /\ new \in Seq(T)
           /\ HeldBy(new) = HeldBy(stack)
           /\ ArraysOf(new) = ArraysOf(stack)
           /\ \A n \in Nat : BalancedAt(new, n) <=> BalancedAt(stack, n + Len(items))
<1> DEFINE Good(items) ==
             LET new == stack \o SelectsOf(items) IN
             /\ new \in Seq(T)
             /\ HeldBy(new) = HeldBy(stack)
             /\ ArraysOf(new) = ArraysOf(stack)
             /\ \A n \in Nat : BalancedAt(new, n) <=> BalancedAt(stack, n + Len(items))
           S == {l \in Nat : \A items \in Seq(U) : Len(items) = l => Good(items)}
<1>1. 0 \in S
  <2>1. ASSUME NEW items \in Seq(U), Len(items) = 0 PROVE Good(items)
    <3>1. items = << >>
      BY <2>1
    <3>2. SelectsOf(items) = << >>
      BY <3>1 DEF SelectsOf
    <3>3. stack \o << >> = stack
      OBVIOUS
    <3>4. \A n \in Nat : n + Len(items) = n
      BY <2>1
    <3>5. QED
      BY <3>2, <3>3, <3>4
  <2>2. QED
    BY <2>1
<1>2. ASSUME NEW l \in Nat, l \in S PROVE l + 1 \in S
  <2>1. ASSUME NEW items \in Seq(U), Len(items) = l + 1 PROVE Good(items)
    <3> DEFINE front == Front(items)
               last == Last(items)
               old == stack \o SelectsOf(front)
               new == stack \o SelectsOf(items)
    <3>1. items # << >>
      <4>1. l + 1 # 0
        OBVIOUS
      <4>2. QED
        BY <2>1, <4>1
    <3>2. /\ items = Append(front, last) /\ front \in Seq(U) /\ last \in U
          /\ Len(front) = Len(items) - 1
      BY <3>1, LastFront
    <3> HIDE DEF front, last
    <3>3. Len(front) = l
      BY <2>1, <3>2
    <3>4. old \in Seq(T) /\ old = stack \o SelectsOf(front)
      BY <3>2, SelectsAppend
    <3>5. new = Append(old, SelectFrame(last))
      <4>1. stack \o SelectsOf(Append(front, last))
              = Append(stack \o SelectsOf(front), SelectFrame(last))
        <5>1. SelectsOneMore(stack, front, last)
          BY <3>2, SelectsAppend
        <5>2. QED
          BY <5>1 DEF SelectsOneMore
      <4>2. QED
        BY <3>2, <4>1
    <3>6. /\ HeldBy(old) = HeldBy(stack)
          /\ ArraysOf(old) = ArraysOf(stack)
          /\ \A n \in Nat : BalancedAt(old, n) <=> BalancedAt(stack, n + Len(front))
      BY <1>2, <3>2, <3>3
    <3> HIDE DEF old, new
    <3> DEFINE f == SelectFrame(last)
    <3>7. f \in T /\ f.kind = "select" /\ f.partial = << >> /\ f.slots = << >>
      BY <3>2, SelectFields
    <3> HIDE DEF f
    <3>8. new = Append(old, f) /\ new \in Seq(T)
      BY <3>4, <3>5, <3>7 DEF f
    <3>9. HeldBy(new) = HeldBy(stack)
      <4>1. /\ HeldBy(old) \in Seq(Int)
            /\ HeldBy(Append(old, f)) = HeldBy(old) \o f.partial
        BY <3>4, <3>7, HeldPush
      <4>2. HeldBy(old) \o << >> = HeldBy(old)
        BY <4>1
      <4>3. QED
        BY <3>6, <3>7, <3>8, <4>1, <4>2
    <3>10. ArraysOf(new) = ArraysOf(stack)
      <4>1. ArraysOf(Append(old, f)) = ArraysOf(old) + IF f.kind = "apply" THEN 2 ELSE 0
        BY <3>4, <3>7, ArraysPush
      <4>2. ArraysOf(old) \in Nat
        BY <3>4, ArraysType
      <4>3. QED
        BY <3>6, <3>7, <3>8, <4>1, <4>2
    <3>11. ASSUME NEW n \in Nat
           PROVE  BalancedAt(new, n) <=> BalancedAt(stack, n + Len(items))
      <4>1. Len(f.slots) = 0
        BY <3>7
      <4>2. BalancedAt(Append(old, f), n)
              <=> BalancedAt(old, (n + 1) - Len(f.slots)) /\ n >= Len(f.slots)
        <5>1. n \in Int
          OBVIOUS
        <5>2. QED
          BY <3>4, <3>7, <5>1, BalancedPush
      <4>3. (n + 1) - 0 = n + 1 /\ n >= 0 /\ n + 1 \in Nat
        OBVIOUS
      <4>4. (n + 1) + l = n + (l + 1)
        OBVIOUS
      <4>5. BalancedAt(new, n) <=> BalancedAt(old, n + 1)
        BY <3>8, <4>1, <4>2, <4>3
      <4>6. BalancedAt(old, n + 1) <=> BalancedAt(stack, (n + 1) + l)
        BY <3>3, <3>6, <4>3
      <4>7. QED
        BY <2>1, <4>4, <4>5, <4>6
    <3>12. QED
      BY <3>8, <3>9, <3>10, <3>11 DEF new
  <2>2. QED
    BY <2>1
<1> HIDE DEF Good
<1>3. Nat \subseteq S
  <2> HIDE DEF S
  <2> QED BY <1>1, <1>2, Induction
<1>4. ASSUME NEW items \in Seq(U) PROVE Good(items)
  <2>1. Len(items) \in S
    BY <1>3
  <2>2. QED
    BY <2>1
<1>5. QED
  BY <1>4 DEF Good

-----------------------------------------------------------------------------
(* Holders that are cells of the memory                                    *)

MemSound(mem, holders) ==
  /\ Exact(mem, holders)
  /\ \A v \in Range(holders) : v <= Len(mem)

\* As many references, value by value.
SameHeld(some, others) ==
  \A v \in Nat : Occurrences(v, others) = Occurrences(v, some)

\* An entry occurs.
LEMMA InRange ==
  ASSUME NEW vs \in Seq(Int), NEW v
  PROVE  v \in Range(vs) <=> Occurrences(v, vs) # 0
  BY OccurrencesType

\* References that do not occur past the end of memory are within it.
LEMMA Beneath ==
  ASSUME NEW n \in Nat, NEW vs \in Seq(Int),
         \A v \in Nat : v > n => Occurrences(v, vs) = 0
  PROVE  \A v \in Range(vs) : v <= n
<1>1. ASSUME NEW v \in Range(vs) PROVE v <= n
  <2>1. v \in Int /\ Occurrences(v, vs) # 0
    BY InRange DEF Range
  <2>2. CASE v \in Nat
    BY <2>1, <2>2
  <2>3. CASE v \notin Nat
    BY <2>1, <2>3
  <2>4. QED
    BY <2>2, <2>3
<1>2. QED
  BY <1>1

\* What MemSound says, value by value.
LEMMA SoundFacts ==
  ASSUME NEW mem, NEW holders, MemSound(mem, holders)
  PROVE  /\ Exact(mem, holders) /\ holders \in Seq(Int)
         /\ Len(mem) \in Nat /\ DOMAIN mem = 1..Len(mem)
         /\ \A v \in Nat : v > Len(mem) => Occurrences(v, holders) = 0
<1>1. Exact(mem, holders) /\ holders \in Seq(Int) /\ Len(mem) \in Nat /\ DOMAIN mem = 1..Len(mem)
  BY ExactFacts DEF MemSound, Exact
<1>2. ASSUME NEW v \in Nat, v > Len(mem) PROVE Occurrences(v, holders) = 0
  <2>1. v \notin Range(holders)
    BY <1>1, <1>2 DEF MemSound
  <2>2. QED
    BY <1>1, <2>1, InRange
<1>3. QED
  BY <1>1, <1>2

\* A value that is held can be referred to.
LEMMA HeldUsable ==
  ASSUME NEW mem, NEW holders, MemSound(mem, holders), NEW v \in Nat,
         Occurrences(v, holders) # 0
  PROVE  Usable(mem, v) /\ v \in 0..Len(mem)
<1>1. holders \in Seq(Int) /\ Exact(mem, holders) /\ Len(mem) \in Nat /\ DOMAIN mem = 1..Len(mem)
  BY SoundFacts
<1>2. v \in Range(holders)
  BY <1>1, InRange
<1>3. v <= Len(mem)
  BY <1>2 DEF MemSound
<1>4. CASE v = 0
  BY <1>1, <1>4 DEF Usable, NullValue
<1>5. CASE v # 0
  <2>1. v \in DOMAIN mem
    BY <1>1, <1>3, <1>5
  <2>2. v \in Alive(mem)
    BY <1>1, <1>2, <2>1, HeldAlive
  <2>3. QED
    BY <1>1, <1>3, <2>2 DEF Usable
<1>6. QED
  BY <1>4, <1>5

\* Exact counts depend on how often each value is held, not on by whom.
LEMMA SameExact ==
  ASSUME NEW mem, NEW holders, Exact(mem, holders), NEW others \in Seq(Int),
         \A v \in Nat : v > 0 => Occurrences(v, others) = Occurrences(v, holders)
  PROVE  Exact(mem, others)
<1>1. DOMAIN mem = 1..Len(mem) /\ Len(mem) \in Nat
  BY ExactFacts
<1>2. \A c \in DOMAIN mem : c \in Nat /\ c > 0
  BY <1>1
<1>3. QED
  BY <1>2 DEF Exact, Counted

LEMMA SameSound ==
  ASSUME NEW mem, NEW holders, MemSound(mem, holders), NEW others \in Seq(Int),
         SameHeld(holders, others)
  PROVE  MemSound(mem, others)
<1>1. /\ Exact(mem, holders) /\ Len(mem) \in Nat
      /\ \A v \in Nat : v > Len(mem) => Occurrences(v, holders) = 0
  BY SoundFacts
<1>2. Exact(mem, others)
  BY <1>1, SameExact DEF SameHeld
<1>3. \A v \in Nat : v > Len(mem) => Occurrences(v, others) = 0
  BY <1>1 DEF SameHeld
<1>4. \A v \in Range(others) : v <= Len(mem)
  BY <1>1, <1>3, Beneath
<1>5. QED
  BY <1>2, <1>4 DEF MemSound

\* One reference to x more.
OneMore(some, others, x) ==
  \A v \in Nat : Occurrences(v, others) = Occurrences(v, some) + Occurrences(v, <<x>>)

\* A value that is made is held once more.
LEMMA GrownSound ==
  ASSUME NEW mem, NEW holders, MemSound(mem, holders), NEW new, GrownBy(mem, holders, new),
         NEW others \in Seq(Int), OneMore(holders, others, new.value)
  PROVE  MemSound(new.mem, others)
<1>1. /\ Exact(mem, holders) /\ Len(mem) \in Nat
      /\ \A v \in Nat : v > Len(mem) => Occurrences(v, holders) = 0
  BY SoundFacts
<1>2. /\ Exact(new.mem, others) /\ new.value \in 0..Len(new.mem)
      /\ Len(new.mem) \in Nat /\ Len(new.mem) >= Len(mem)
  <2>1. \A v \in Nat : Occurrences(v, others)
                          = Occurrences(v, holders) + Occurrences(v, <<new.value>>)
    BY DEF OneMore
  <2>2. QED
    BY <2>1 DEF GrownBy
<1>3. ASSUME NEW v \in Nat, v > Len(new.mem) PROVE Occurrences(v, others) = 0
  <2>1. v > Len(mem) /\ new.value # v
    BY <1>1, <1>2, <1>3
  <2>2. Occurrences(v, <<new.value>>) = 0
    BY <2>1, OccurrencesOne
  <2>3. Occurrences(v, holders) = 0
    BY <1>1, <2>1
  <2>4. Occurrences(v, others) = Occurrences(v, holders) + Occurrences(v, <<new.value>>)
    BY <1>2, <1>3 DEF OneMore
  <2>5. QED
    BY <2>2, <2>3, <2>4
<1>4. \A v \in Range(others) : v <= Len(new.mem)
  BY <1>2, <1>3, Beneath
<1>5. QED
  BY <1>2, <1>4 DEF MemSound

\* What is released is no longer held.
LEMMA ReleaseSound ==
  ASSUME NEW mem, NEW holders, MemSound(mem, holders), NEW vs \in Seq(Int),
         NEW others \in Seq(Int),
         \A v \in Nat : Occurrences(v, holders) = Occurrences(v, others) + Occurrences(v, vs)
  PROVE  /\ MemSound(Release(mem, vs), others)
         /\ Len(Release(mem, vs)) = Len(mem)
<1>1. /\ Exact(mem, holders) /\ Len(mem) \in Nat /\ DOMAIN mem = 1..Len(mem)
      /\ \A v \in Nat : v > Len(mem) => Occurrences(v, holders) = 0
  BY SoundFacts
<1>2. \A c \in DOMAIN mem :
        Occurrences(c, holders) = Occurrences(c, others) + Occurrences(c, vs)
  BY <1>1
<1>3. Exact(Release(mem, vs), others) /\ Len(Release(mem, vs)) = Len(mem)
  BY <1>1, <1>2, ReleaseExact
<1>4. ASSUME NEW v \in Nat, v > Len(mem) PROVE Occurrences(v, others) = 0
  <2>1. Occurrences(v, others) \in Nat /\ Occurrences(v, vs) \in Nat
    BY OccurrencesType
  <2>2. Occurrences(v, others) + Occurrences(v, vs) = 0
    BY <1>1, <1>4
  <2>3. QED
    BY <2>1, <2>2
<1>5. \A v \in Range(others) : v <= Len(mem)
  BY <1>1, <1>4, Beneath
<1>6. QED
  BY <1>3, <1>5 DEF MemSound

\* What is held already is held once more for each reference taken.
LEMMA AddRefsSound ==
  ASSUME NEW mem, NEW holders, MemSound(mem, holders), NEW vs \in Seq(Int),
         NEW others \in Seq(Int),
         \A v \in Nat : Occurrences(v, others) = Occurrences(v, holders) + Occurrences(v, vs),
         \A v \in Nat : Occurrences(v, vs) # 0 => Occurrences(v, holders) # 0
  PROVE  /\ MemSound(AddRefs(mem, vs), others)
         /\ Len(AddRefs(mem, vs)) = Len(mem)
<1>1. /\ Exact(mem, holders) /\ Len(mem) \in Nat /\ DOMAIN mem = 1..Len(mem)
      /\ \A v \in Nat : v > Len(mem) => Occurrences(v, holders) = 0
  BY SoundFacts
<1>2. ASSUME NEW c \in DOMAIN mem, c \in Range(vs) PROVE c \in Alive(mem)
  <2>1. c \in Nat /\ c # 0
    BY <1>1
  <2>2. Occurrences(c, holders) # 0
    BY <1>2, <2>1, InRange
  <2>3. Usable(mem, c)
    BY <2>1, <2>2, HeldUsable
  <2> QED BY <2>1, <2>3 DEF Usable, NullValue
<1>3. \A c \in DOMAIN mem :
        Occurrences(c, others) = Occurrences(c, holders) + Occurrences(c, vs)
  BY <1>1
<1>4. Exact(AddRefs(mem, vs), others)
  BY <1>1, <1>2, <1>3, AddRefsExact
<1>5. Len(AddRefs(mem, vs)) = Len(mem)
  <2>1. mem \in Seq(Cell)
    BY <1>1 DEF Exact, MemOK
  <2> QED BY <2>1, AddRefsCells
<1>6. ASSUME NEW v \in Nat, v > Len(mem) PROVE Occurrences(v, others) = 0
  <2>1. Occurrences(v, holders) = 0
    BY <1>1, <1>6
  <2>2. Occurrences(v, vs) = 0
    BY <2>1
  <2> QED BY <2>1, <2>2
<1>7. \A v \in Range(others) : v <= Len(AddRefs(mem, vs))
  BY <1>1, <1>5, <1>6, Beneath
<1> QED BY <1>4, <1>5, <1>7 DEF MemSound

-----------------------------------------------------------------------------
(* The memory of __invoke                                                  *)

\* The cells of the tokens, each held once.
LEMMA TokensExact ==
  ASSUME NEW n \in Nat, NEW holders \in Seq(Int),
         \A v \in Nat : v > 0 => Occurrences(v, holders) = IF v \in 1..n THEN 1 ELSE 0
  PROVE  MemSound(TokenCells(n), holders) /\ Len(TokenCells(n)) = n
<1> DEFINE mem == TokenCells(n)
<1>1. ASSUME NEW k \in 1..n
      PROVE  /\ mem[k] \in Cell /\ mem[k].elems = << >> /\ mem[k].count = 1
  <2>1. mem[k] = [kind |-> "token", rule |-> Null, alt |-> 0, token |-> k - 1,
                  elems |-> << >>, count |-> 1]
    BY DEF TokenCells
  <2>2. k - 1 \in Int /\ << >> \in Seq(Nat)
    OBVIOUS
  <2>3. QED
    BY <2>1, <2>2 DEF Cell
<1>2. mem = [k \in 1..n |-> mem[k]]
  BY DEF TokenCells
<1> HIDE DEF mem
<1>3. mem \in Seq(Cell) /\ DOMAIN mem = 1..n /\ Len(mem) = n
  BY <1>1, <1>2
<1>4. MemOK(mem)
  BY <1>1, <1>3 DEF MemOK
<1>5. ASSUME NEW c \in DOMAIN mem PROVE Within(mem, Alive(mem), c) = 0
  <2>1. \A m \in Alive(mem) \ {} : c \notin Range(mem[m].elems)
    BY <1>1, <1>3 DEF Alive, Range
  <2>2. Within(mem, Alive(mem), c) = Within(mem, {}, c)
    BY <2>1, WithinReferring
  <2>3. QED
    BY <2>2, WithinEmpty
<1>6. \A c \in DOMAIN mem : Occurrences(c, holders) = 1
  BY <1>3
<1>7. Counted(mem, holders)
  BY <1>1, <1>3, <1>5, <1>6 DEF Counted
<1>8. \A v \in Range(holders) : v <= n
  <2>1. \A v \in Nat : v > n => Occurrences(v, holders) = 0
    OBVIOUS
  <2>2. QED
    BY <2>1, Beneath
<1>9. QED
  BY <1>3, <1>4, <1>7, <1>8 DEF MemSound, Exact, mem

\* The references of a chart with n tokens.
TokensOf(n) == [k \in 1..n |-> k]

\* Each token is held once by the chart.
LEMMA ChartTokens ==
  ASSUME NEW n \in Nat
  PROVE  /\ TokensOf(n) \in Seq(Int)
         /\ \A v \in Nat : Occurrences(v, TokensOf(n)) = IF v \in 1..n THEN 1 ELSE 0
<1>1. ASSUME NEW v \in Nat
      PROVE  Occurrences(v, TokensOf(n)) = IF v \in 1..n THEN 1 ELSE 0
  <2>1. PlacesOf(v, TokensOf(n)) = IF v \in 1..n THEN {v} ELSE {}
    BY DEF PlacesOf, TokensOf
  <2>2. Occurrences(v, TokensOf(n)) = Cardinality(PlacesOf(v, TokensOf(n)))
    BY DEF Occurrences, PlacesOf
  <2>3. QED
    BY <2>1, <2>2, FS_EmptySet, FS_Singleton
<1>2. QED
  BY <1>1 DEF TokensOf

-----------------------------------------------------------------------------
(* The holders of an evaluator                                             *)

\* The references of the chart, the frames, an array, the heap and the caller.
AllHolders(n, stack, array, heap, v) ==
  TokensOf(n) \o HeldBy(stack) \o array \o heap \o <<v>>

\* The occurrences among all holders are those in each of them.
LEMMA HoldersCount ==
  ASSUME NEW n \in Nat, NEW stack, HeldBy(stack) \in Seq(Int), NEW array \in Seq(Int),
         NEW heap \in Seq(Int), NEW x \in Int, NEW v
  PROVE  /\ AllHolders(n, stack, array, heap, x) \in Seq(Int)
         /\ Occurrences(v, AllHolders(n, stack, array, heap, x))
              = (((Occurrences(v, TokensOf(n)) + Occurrences(v, HeldBy(stack)))
                  + Occurrences(v, array)) + Occurrences(v, heap)) + Occurrences(v, <<x>>)
         /\ Occurrences(v, TokensOf(n)) \in Nat
         /\ Occurrences(v, HeldBy(stack)) \in Nat
         /\ Occurrences(v, array) \in Nat
         /\ Occurrences(v, heap) \in Nat
         /\ Occurrences(v, <<x>>) \in Nat
<1> DEFINE a == TokensOf(n)
           b == HeldBy(stack)
           e == <<x>>
<1>1. a \in Seq(Int) /\ b \in Seq(Int) /\ e \in Seq(Int)
  BY DEF TokensOf
<1> HIDE DEF a, b, e
<1>2. /\ a \o b \in Seq(Int)
      /\ Occurrences(v, a \o b) = Occurrences(v, a) + Occurrences(v, b)
  BY <1>1, OccurrencesConcat
<1> DEFINE ab == a \o b
<1> HIDE DEF ab
<1>3. /\ ab \in Seq(Int)
      /\ Occurrences(v, ab) = Occurrences(v, a) + Occurrences(v, b)
  BY <1>2 DEF ab
<1> DEFINE c == ab \o array
<1>4. c \in Seq(Int) /\ Occurrences(v, c) = Occurrences(v, ab) + Occurrences(v, array)
  BY <1>3, OccurrencesConcat
<1> HIDE DEF c
<1>5. /\ c \o heap \in Seq(Int)
      /\ Occurrences(v, c \o heap) = Occurrences(v, c) + Occurrences(v, heap)
  BY <1>4, OccurrencesConcat
<1> DEFINE d == c \o heap
<1> HIDE DEF d
<1>6. d \in Seq(Int) /\ Occurrences(v, d) = Occurrences(v, c) + Occurrences(v, heap)
  BY <1>5 DEF d
<1>7. /\ d \o e \in Seq(Int)
      /\ Occurrences(v, d \o e) = Occurrences(v, d) + Occurrences(v, e)
  BY <1>1, <1>6, OccurrencesConcat
<1>8. AllHolders(n, stack, array, heap, x) = d \o e
  BY DEF AllHolders, a, b, ab, c, d, e
<1>9. /\ Occurrences(v, a) \in Nat /\ Occurrences(v, b) \in Nat
      /\ Occurrences(v, array) \in Nat /\ Occurrences(v, heap) \in Nat
      /\ Occurrences(v, e) \in Nat
  BY <1>1, OccurrencesType
<1>10. QED
  BY <1>3, <1>4, <1>6, <1>7, <1>8, <1>9 DEF a, b, e

\* An entry that was not known is filled in.
LEMMA OccurrencesSet ==
  ASSUME NEW vs \in Seq(Int), NEW k \in DOMAIN vs, vs[k] = Undef, NEW x \in Nat
  PROVE  LET new == [vs EXCEPT ![k] = x] IN
         /\ new \in Seq(Int) /\ Len(new) = Len(vs)
         /\ \A v \in Nat : Occurrences(v, new) = Occurrences(v, vs) + Occurrences(v, <<x>>)
<1> DEFINE new == [vs EXCEPT ![k] = x]
<1>1. /\ new \in Seq(Int) /\ Len(new) = Len(vs) /\ DOMAIN new = DOMAIN vs
      /\ new[k] = x /\ \A j \in DOMAIN vs \ {k} : new[j] = vs[j]
  OBVIOUS
<1> HIDE DEF new
<1>2. ASSUME NEW v \in Nat
      PROVE  Occurrences(v, new) = Occurrences(v, vs) + Occurrences(v, <<x>>)
  <2>1. /\ IsFiniteSet(PlacesOf(v, vs)) /\ Occurrences(v, vs) = Cardinality(PlacesOf(v, vs))
        /\ Occurrences(v, vs) \in Nat
    BY OccurrencesType
  <2>2. Occurrences(v, new) = Cardinality(PlacesOf(v, new))
    BY <1>1, OccurrencesType
  <2>3. k \notin PlacesOf(v, vs)
    BY DEF PlacesOf, Undef
  <2>4. CASE x = v
    <3>1. PlacesOf(v, new) = PlacesOf(v, vs) \cup {k}
      BY <1>1, <2>4 DEF PlacesOf
    <3>2. Cardinality(PlacesOf(v, new)) = Cardinality(PlacesOf(v, vs)) + 1
      BY <2>1, <2>3, <3>1, FS_AddElement
    <3>3. Occurrences(v, <<x>>) = 1
      BY <2>4, OccurrencesOne
    <3>4. QED
      BY <2>1, <2>2, <3>2, <3>3
  <2>5. CASE x # v
    <3>1. PlacesOf(v, new) = PlacesOf(v, vs)
      <4>1. ASSUME NEW j PROVE j \in PlacesOf(v, new) <=> j \in PlacesOf(v, vs)
        BY <1>1, <2>3, <2>5 DEF PlacesOf
      <4>2. QED
        BY <4>1
    <3>2. Occurrences(v, <<x>>) = 0
      BY <2>5, OccurrencesOne
    <3>3. QED
      BY <2>1, <2>2, <3>1, <3>2
  <2>6. QED
    BY <2>4, <2>5
<1>3. QED
  BY <1>1, <1>2 DEF new

\* What the arguments are held by may refer to them.
HeldToo(args, holders) ==
  \A v \in Nat : Occurrences(v, args) # 0 => Occurrences(v, holders) # 0

\* The holders give up the arguments and take the value x.
Exchanged(holders, others, args, x) ==
  \A v \in Nat : Occurrences(v, others) + Occurrences(v, args)
                 = Occurrences(v, holders) + Occurrences(v, <<x>>)

\* apply, before the arguments are released.
LEMMA ArgsGrown ==
  ASSUME NEW mem, NEW holders, MemSound(mem, holders),
         NEW a \in Alternatives, NEW rule \in Names, NEW alt \in Nat,
         NEW args \in Seq(Nat), args # << >>, Len(args) = Len(a.symbols),
         HeldToo(args, holders)
  PROVE  LET new == Applied(a, rule, alt, mem, args) IN
         /\ GrownBy(mem, holders, new)
         /\ new.value \in Nat /\ Len(new.mem) \in Nat /\ Len(new.mem) >= Len(mem)
<1> DEFINE new == Applied(a, rule, alt, mem, args)
<1>1. /\ Exact(mem, holders) /\ \A v \in Range(holders) : v <= Len(mem)
  BY SoundFacts DEF MemSound
<1>2. args \in Seq(Int)
  OBVIOUS
<1>3. ASSUME NEW v \in Range(args) PROVE Usable(mem, v)
  <2>1. v \in Nat
    BY DEF Range
  <2>2. Occurrences(v, args) # 0
    BY <1>2, InRange
  <2>3. QED
    BY <2>1, <2>2, HeldUsable DEF HeldToo
<1>4. GrownBy(mem, holders, new)
  BY <1>1, <1>3, AppliedGrown
<1> HIDE DEF new
<1>5. new.value \in Nat /\ Len(new.mem) \in Nat /\ Len(new.mem) >= Len(mem)
  BY <1>4 DEF GrownBy
<1>6. QED
  BY <1>4, <1>5 DEF new

\* apply, with the arguments released: the holders give up the arguments and take
\* the value.
LEMMA ApplySound ==
  ASSUME NEW mem, NEW holders, MemSound(mem, holders),
         NEW a \in Alternatives, NEW rule \in Names, NEW alt \in Nat,
         NEW args \in Seq(Nat), args # << >>, Len(args) = Len(a.symbols),
         HeldToo(args, holders), NEW others \in Seq(Int),
         Exchanged(holders, others, args, Applied(a, rule, alt, mem, args).value)
  PROVE  LET new == Applied(a, rule, alt, mem, args)
             left == Release(new.mem, args)
         IN  /\ MemSound(left, others) /\ new.value \in Nat
             /\ Len(left) \in Nat /\ Len(left) >= Len(mem)
<1> DEFINE new == Applied(a, rule, alt, mem, args)
           x == new.value
           more == Append(holders, x)
<1>1. holders \in Seq(Int) /\ args \in Seq(Int)
  BY SoundFacts
<1>2. /\ GrownBy(mem, holders, new)
      /\ x \in Nat /\ Len(new.mem) \in Nat /\ Len(new.mem) >= Len(mem)
  BY ArgsGrown
<1> HIDE DEF new
<1>3. more \in Seq(Int) /\ \A v \in Nat : Occurrences(v, more)
                                           = Occurrences(v, holders) + Occurrences(v, <<x>>)
  <2> HIDE DEF x
  <2>1. x \in Int
    BY <1>2
  <2>2. ASSUME NEW v \in Nat
        PROVE  Occurrences(v, more) = Occurrences(v, holders) + Occurrences(v, <<x>>)
    <3>1. Occurrences(v, more) = Occurrences(v, holders) + IF x = v THEN 1 ELSE 0
      BY <1>1, <2>1, OccurrencesAppend
    <3>2. Occurrences(v, <<x>>) = IF x = v THEN 1 ELSE 0
      BY OccurrencesOne
    <3>3. QED
      BY <3>1, <3>2
  <2>3. more \in Seq(Int)
    BY <1>1, <2>1
  <2>4. QED
    BY <2>2, <2>3
<1> HIDE DEF more
<1>4. MemSound(new.mem, more)
  <2>1. OneMore(holders, more, new.value)
    BY <1>3 DEF OneMore
  <2>2. QED
    BY <1>2, <1>3, <2>1, GrownSound
<1>5. \A v \in Nat : Occurrences(v, more) = Occurrences(v, others) + Occurrences(v, args)
  BY <1>3 DEF new, Exchanged
<1>6. MemSound(Release(new.mem, args), others) /\ Len(Release(new.mem, args)) = Len(new.mem)
  BY <1>1, <1>4, <1>5, ReleaseSound
<1>7. QED
  BY <1>2, <1>6 DEF new

-----------------------------------------------------------------------------
(* The tokens in a value                                                   *)

\* What TokensIn finds in each cell, given what it finds in the older ones.
InCell(mem, inside, c) ==
  IF mem[c].kind = "token" THEN {mem[c].token}
  ELSE UNION {inside[e] : e \in Range(mem[c].elems) \ {NullValue}}

\* The function TokensIn is defined by.
Inside(mem) == CHOOSE inside : inside = [c \in DOMAIN mem |-> InCell(mem, inside, c)]

\* Only the cells it refers to matter.
LEMMA InCellSame ==
  ASSUME NEW mem, NEW c, NEW g, NEW h,
         \A e \in Range(mem[c].elems) \ {NullValue} : g[e] = h[e]
  PROVE  InCell(mem, g, c) = InCell(mem, h, c)
<1>1. {g[e] : e \in Range(mem[c].elems) \ {NullValue}}
        = {h[e] : e \in Range(mem[c].elems) \ {NullValue}}
  OBVIOUS
<1>2. QED
  BY <1>1 DEF InCell

\* The elements of a cell are older.
LEMMA Older ==
  ASSUME NEW mem, MemOK(mem), NEW c \in DOMAIN mem
  PROVE  /\ mem[c] \in Cell /\ mem[c].elems \in Seq(Nat)
         /\ DOMAIN mem = 1..Len(mem) /\ Len(mem) \in Nat /\ c \in Nat
         /\ \A e \in Range(mem[c].elems) : e \in Nat /\ e < c
<1>1. mem \in Seq(Cell)
  BY DEF MemOK
<1>2. mem[c] \in Cell /\ mem[c].elems \in Seq(Nat) /\ c \in 1..Len(mem)
  BY <1>1, CellFacts
<1>3. \A k \in DOMAIN mem[c].elems : mem[c].elems[k] < c /\ mem[c].elems[k] \in Nat
  BY <1>2 DEF MemOK
<1>4. QED
  BY <1>1, <1>2, <1>3 DEF Range

\* Since the elements are older, there is such a function.
LEMMA InsideSteps ==
  ASSUME NEW mem, MemOK(mem)
  PROVE  /\ \A v : TokensIn(mem, v) = IF v = NullValue THEN {} ELSE Inside(mem)[v]
         /\ \A c \in DOMAIN mem : Inside(mem)[c] = InCell(mem, Inside(mem), c)
<1> DEFINE IsUpTo(g, m) == g = [c \in 1..m |-> InCell(mem, g, c)]
           D == {m \in Nat : m <= Len(mem) => \E g : IsUpTo(g, m)}
<1>1. mem \in Seq(Cell) /\ Len(mem) \in Nat /\ DOMAIN mem = 1..Len(mem)
  BY DEF MemOK
<1>2. 0 \in D
  <2>1. IsUpTo([c \in 1..0 |-> {}], 0)
    OBVIOUS
  <2>2. QED
    BY <2>1
<1>3. ASSUME NEW m \in Nat, m \in D PROVE m + 1 \in D
  <2>1. SUFFICES ASSUME m + 1 <= Len(mem) PROVE \E g : IsUpTo(g, m + 1)
    OBVIOUS
  <2>2. PICK g : IsUpTo(g, m)
    BY <1>1, <1>3, <2>1
  <2> DEFINE h == [c \in 1..(m + 1) |-> IF c = m + 1 THEN InCell(mem, g, m + 1) ELSE g[c]]
  <2>3. \A c \in 1..m : g[c] = InCell(mem, g, c)
    BY <2>2
  <2>4. \A c \in 1..m : h[c] = g[c]
    OBVIOUS
  <2>5. h[m + 1] = InCell(mem, g, m + 1) /\ h = [c \in 1..(m + 1) |-> h[c]]
    OBVIOUS
  <2> HIDE DEF h
  <2>6. ASSUME NEW c \in 1..(m + 1) PROVE h[c] = InCell(mem, h, c)
    <3>1. c \in DOMAIN mem /\ (c \in 1..m \/ c = m + 1)
      BY <1>1, <2>1
    <3>2. \A e \in Range(mem[c].elems) \ {NullValue} : e \in 1..m
      <4>1. \A e \in Range(mem[c].elems) : e \in Nat /\ e < c
        BY <3>1, Older
      <4>2. QED
        BY <4>1 DEF NullValue
    <3>3. \A e \in Range(mem[c].elems) \ {NullValue} : h[e] = g[e]
      BY <2>4, <3>2
    <3>4. InCell(mem, h, c) = InCell(mem, g, c)
      BY <3>3, InCellSame
    <3>5. QED
      BY <2>3, <2>4, <2>5, <3>1, <3>4
  <2>7. IsUpTo(h, m + 1)
    BY <2>5, <2>6, Zenon
  <2>8. QED
    BY <2>7
<1>4. Nat \subseteq D
  <2> HIDE DEF D
  <2>1. QED
    BY <1>2, <1>3, Induction
<1>5. PICK g : IsUpTo(g, Len(mem))
  <2>1. Len(mem) \in D
    BY <1>1, <1>4
  <2>2. QED
    BY <1>1, <2>1
<1>6. g = [c \in DOMAIN mem |-> InCell(mem, g, c)]
  BY <1>1, <1>5
<1>7. Inside(mem) = [c \in DOMAIN mem |-> InCell(mem, Inside(mem), c)]
  BY <1>6 DEF Inside
<1>8. \A c \in DOMAIN mem : Inside(mem)[c] = InCell(mem, Inside(mem), c)
  BY <1>7
<1>9. \A v : TokensIn(mem, v) = IF v = NullValue THEN {} ELSE Inside(mem)[v]
  BY DEF TokensIn, Inside, InCell
<1>10. QED
  BY <1>8, <1>9

\* A token has itself in it, another value what its elements have.
LEMMA TokensSteps ==
  ASSUME NEW mem, MemOK(mem)
  PROVE  /\ TokensIn(mem, NullValue) = {}
         /\ \A c \in DOMAIN mem :
              /\ mem[c].kind = "token" => TokensIn(mem, c) = {mem[c].token}
              /\ mem[c].kind # "token" =>
                   \A t : t \in TokensIn(mem, c)
                            <=> \E e \in Range(mem[c].elems) : t \in TokensIn(mem, e)
<1>1. /\ \A v : TokensIn(mem, v) = IF v = NullValue THEN {} ELSE Inside(mem)[v]
      /\ \A c \in DOMAIN mem : Inside(mem)[c] = InCell(mem, Inside(mem), c)
  BY InsideSteps
<1>2. TokensIn(mem, NullValue) = {}
  BY <1>1
<1>3. ASSUME NEW c \in DOMAIN mem
      PROVE  TokensIn(mem, c) = InCell(mem, Inside(mem), c)
  <2>1. c # NullValue
    <3>1. c \in 1..Len(mem)
      BY Older
    <3>2. QED
      BY <3>1 DEF NullValue
  <2>2. QED
    BY <1>1, <2>1
<1>4. ASSUME NEW c \in DOMAIN mem, mem[c].kind # "token", NEW t
      PROVE  t \in TokensIn(mem, c)
               <=> \E e \in Range(mem[c].elems) : t \in TokensIn(mem, e)
  <2>1. t \in TokensIn(mem, c)
          <=> \E e \in Range(mem[c].elems) \ {NullValue} : t \in Inside(mem)[e]
    BY <1>3, <1>4 DEF InCell
  <2>2. \A e : e # NullValue => TokensIn(mem, e) = Inside(mem)[e]
    BY <1>1
  <2>3. QED
    BY <1>2, <2>1, <2>2
<1>5. QED
  BY <1>2, <1>3, <1>4 DEF InCell

\* What memory goes through: counts change and values are added, nothing else.
Kept(mem, new) ==
  /\ MemOK(mem) /\ MemOK(new) /\ Len(mem) <= Len(new)
  /\ \A c \in 1..Len(mem) : /\ new[c].kind = mem[c].kind
                            /\ new[c].token = mem[c].token
                            /\ new[c].elems = mem[c].elems

\* The tokens in a value stay the same.
LEMMA TokensKept ==
  ASSUME NEW mem, NEW new, Kept(mem, new)
  PROVE  \A v \in 0..Len(mem) : TokensIn(new, v) = TokensIn(mem, v)
<1> DEFINE D == {n \in Nat : \A v \in 0..n : v <= Len(mem) =>
                               TokensIn(new, v) = TokensIn(mem, v)}
<1>1. /\ MemOK(mem) /\ MemOK(new) /\ Len(mem) <= Len(new)
      /\ mem \in Seq(Cell) /\ new \in Seq(Cell)
      /\ DOMAIN mem = 1..Len(mem) /\ Len(mem) \in Nat
      /\ DOMAIN new = 1..Len(new) /\ Len(new) \in Nat
  BY DEF Kept, MemOK
<1>2. TokensIn(mem, NullValue) = {} /\ TokensIn(new, NullValue) = {}
  BY <1>1, TokensSteps
<1>3. 0 \in D
  BY <1>2 DEF NullValue
<1>4. ASSUME NEW n \in Nat, n \in D PROVE n + 1 \in D
  <2>1. SUFFICES ASSUME n + 1 <= Len(mem)
                 PROVE  TokensIn(new, n + 1) = TokensIn(mem, n + 1)
    <3>1. \A v \in 0..(n + 1) : v \in 0..n \/ v = n + 1
      OBVIOUS
    <3>2. QED
      BY <1>4, <3>1
  <2> DEFINE c == n + 1
  <2>2. c \in DOMAIN mem /\ c \in DOMAIN new /\ c \in 1..Len(mem)
    BY <1>1, <2>1
  <2> HIDE DEF c
  <2>3. /\ new[c].kind = mem[c].kind /\ new[c].token = mem[c].token
        /\ new[c].elems = mem[c].elems
    BY <2>2 DEF Kept
  <2>4. CASE mem[c].kind = "token"
    <3>1. TokensIn(mem, c) = {mem[c].token}
      BY <1>1, <2>2, <2>4, TokensSteps
    <3>2. TokensIn(new, c) = {new[c].token}
      BY <1>1, <2>2, <2>3, <2>4, TokensSteps
    <3>3. QED
      BY <2>3, <3>1, <3>2 DEF c
  <2>5. CASE mem[c].kind # "token"
    <3>1. \A t : t \in TokensIn(mem, c)
                   <=> \E e \in Range(mem[c].elems) : t \in TokensIn(mem, e)
      BY <1>1, <2>2, <2>5, TokensSteps
    <3>2. \A t : t \in TokensIn(new, c)
                   <=> \E e \in Range(new[c].elems) : t \in TokensIn(new, e)
      BY <1>1, <2>2, <2>3, <2>5, TokensSteps
    <3>3. \A e \in Range(mem[c].elems) : TokensIn(new, e) = TokensIn(mem, e)
      <4>1. \A e \in Range(mem[c].elems) : e \in Nat /\ e < c
        BY <1>1, <2>2, Older
      <4>2. \A e \in Range(mem[c].elems) : e \in 0..n /\ e <= Len(mem)
        BY <1>1, <2>1, <4>1 DEF c
      <4>3. QED
        BY <1>4, <4>2
    <3>4. \A t : t \in TokensIn(new, c) <=> t \in TokensIn(mem, c)
      BY <2>3, <3>1, <3>2, <3>3
    <3>5. TokensIn(new, c) = TokensIn(mem, c)
      BY <3>4
    <3>6. QED
      BY <3>5 DEF c
  <2>6. QED
    BY <2>4, <2>5
<1>5. Nat \subseteq D
  <2> HIDE DEF D
  <2>1. QED
    BY <1>3, <1>4, Induction
<1>6. Len(mem) \in D
  BY <1>1, <1>5
<1>7. QED
  BY <1>1, <1>6

\* What is kept twice is kept.
LEMMA KeptOn ==
  ASSUME NEW mem, NEW new, NEW other, Kept(mem, new), Kept(new, other)
  PROVE  Kept(mem, other)
<1>1. Len(mem) \in Nat /\ Len(new) \in Nat /\ Len(other) \in Nat
  BY DEF Kept, MemOK
<1>2. \A c \in 1..Len(mem) : c \in 1..Len(new)
  BY <1>1 DEF Kept
<1>3. QED
  BY <1>1, <1>2 DEF Kept

\* Counting references changes nothing else, and giving them up neither.
LEMMA AddRefsKept ==
  ASSUME NEW mem, MemOK(mem), NEW vs \in Seq(Int)
  PROVE  Kept(mem, AddRefs(mem, vs)) /\ Len(AddRefs(mem, vs)) = Len(mem)
<1> DEFINE new == AddRefs(mem, vs)
<1>1. mem \in Seq(Cell) /\ Len(mem) \in Nat /\ DOMAIN mem = 1..Len(mem)
  BY DEF MemOK
<1>2. /\ new \in Seq(Cell) /\ Len(new) = Len(mem) /\ DOMAIN new = DOMAIN mem
      /\ \A c \in DOMAIN mem : /\ new[c].elems = mem[c].elems /\ new[c].kind = mem[c].kind
                               /\ new[c].token = mem[c].token
  BY <1>1, AddRefsCells
<1> HIDE DEF new
<1>3. MemOK(new)
  BY <1>2 DEF MemOK
<1>4. Kept(mem, new)
  BY <1>1, <1>2, <1>3 DEF Kept
<1>5. QED
  BY <1>2, <1>4 DEF new

LEMMA ReleaseKept ==
  ASSUME NEW mem, MemOK(mem), NEW vs, MemOK(Release(mem, vs))
  PROVE  Kept(mem, Release(mem, vs))
<1> DEFINE new == Release(mem, vs)
<1>1. mem \in Seq(Cell) /\ Len(mem) \in Nat /\ DOMAIN mem = 1..Len(mem)
  BY DEF MemOK
<1>2. new \in Seq(Cell) /\ DOMAIN new = 1..Len(new) /\ Len(new) \in Nat
  BY DEF MemOK
<1>3. PICK G : new = [c \in DOMAIN mem |-> [mem[c] EXCEPT !.count = G[c]]]
  <2> DEFINE G == [c \in DOMAIN mem |->
                     mem[c].count - Occurrences(c, vs)
                       - Within(mem, {n \in Referring(mem, c) : FreedBy(mem, vs)[n]}, c)]
  <2>1. \A c \in DOMAIN mem : G[c] =
          mem[c].count - Occurrences(c, vs)
            - Within(mem, {n \in Referring(mem, c) : FreedBy(mem, vs)[n]}, c)
    OBVIOUS
  <2> HIDE DEF G
  <2>2. new = [c \in DOMAIN mem |-> [mem[c] EXCEPT !.count = G[c]]]
    BY <2>1, ReleaseIs, Zenon
  <2>3. QED
    BY <2>2
<1> HIDE DEF new
<1>4. DOMAIN new = DOMAIN mem /\ Len(new) = Len(mem)
  BY <1>1, <1>2, <1>3
<1>5. ASSUME NEW c \in 1..Len(mem)
      PROVE  /\ new[c].kind = mem[c].kind /\ new[c].token = mem[c].token
             /\ new[c].elems = mem[c].elems
  <2>1. new[c] = [mem[c] EXCEPT !.count = G[c]]
    BY <1>1, <1>3
  <2>2. mem[c] \in Cell
    BY <1>1, CellFacts
  <2>3. DOMAIN mem[c] = {"kind", "rule", "alt", "token", "elems", "count"}
    BY <2>2 DEF Cell
  <2>4. QED
    BY <2>1, <2>3
<1>6. QED
  BY <1>1, <1>4, <1>5 DEF Kept, new

-----------------------------------------------------------------------------
(* Where the tokens of a value lie                                         *)

\* A value, and its tokens lie in a span <<from, to>> of the input.
Lies(mem, v, s) ==
  /\ v \in 0..Len(mem)
  /\ TokensIn(mem, v) \subseteq s[1]..(s[2] - 1)

\* A value lies where it did for as long as the memory is kept.
LEMMA LiesKept ==
  ASSUME NEW mem, NEW new, Kept(mem, new), NEW v, NEW s, Lies(mem, v, s)
  PROVE  Lies(new, v, s)
<1>1. v \in 0..Len(mem) /\ Len(mem) \in Nat /\ Len(new) \in Nat /\ Len(mem) <= Len(new)
  BY DEF Lies, Kept, MemOK
<1>2. TokensIn(new, v) = TokensIn(mem, v)
  BY <1>1, TokensKept
<1>3. v \in 0..Len(new)
  BY <1>1
<1>4. QED
  BY <1>2, <1>3 DEF Lies

\* In a wider span it lies too.
LEMMA LiesWider ==
  ASSUME NEW mem, MemOK(mem), NEW v, NEW s \in Int \X Int, Lies(mem, v, s),
         NEW r \in Int \X Int, r[1] <= s[1], s[2] <= r[2]
  PROVE  Lies(mem, v, r)
<1>1. s[1] \in Int /\ s[2] \in Int /\ r[1] \in Int /\ r[2] \in Int
  OBVIOUS
<1>2. s[1]..(s[2] - 1) \subseteq r[1]..(r[2] - 1)
  BY <1>1
<1>3. QED
  BY <1>2 DEF Lies

\* null has no tokens.
LEMMA NullLies ==
  ASSUME NEW mem, MemOK(mem), NEW s
  PROVE  Lies(mem, NullValue, s)
<1>1. TokensIn(mem, NullValue) = {}
  BY TokensSteps
<1>2. NullValue \in 0..Len(mem)
  BY DEF NullValue, MemOK
<1>3. QED
  BY <1>1, <1>2 DEF Lies

\* A value that refers to values in a span lies in it.
LEMMA FreshLies ==
  ASSUME NEW mem, MemOK(mem), NEW kind \in {"list", "object"},
         NEW rule \in Names \cup {Null}, NEW alt \in Nat, NEW elems \in Seq(Nat),
         NEW s, \A v \in Range(elems) : Lies(mem, v, s)
  PROVE  LET new == Fresh(mem, kind, rule, alt, elems) IN
         Kept(mem, new.mem) /\ Lies(new.mem, new.value, s)
<1> DEFINE n == Len(mem)
           old == AddRefs(mem, elems)
           cell == [kind |-> kind, rule |-> rule, alt |-> alt, token |-> -1,
                    elems |-> elems, count |-> 1]
           new == Append(old, cell)
<1>1. mem \in Seq(Cell) /\ n \in Nat /\ DOMAIN mem = 1..n /\ elems \in Seq(Int)
  BY DEF MemOK
<1>2. Kept(mem, old) /\ Len(old) = n
  BY <1>1, AddRefsKept
<1>3. cell \in Cell /\ cell.kind = kind /\ cell.elems = elems
  BY DEF Cell
<1>4. MemOK(old) /\ old \in Seq(Cell) /\ DOMAIN old = 1..n
  <2>1. MemOK(old) /\ old \in Seq(Cell)
    BY <1>2 DEF Kept, MemOK
  <2> HIDE DEF old
  <2>2. QED
    BY <1>2, <2>1
<1> HIDE DEF old
<1>5. /\ new \in Seq(Cell) /\ Len(new) = n + 1 /\ DOMAIN new = 1..(n + 1)
      /\ \A c \in 1..n : new[c] = old[c]
      /\ new[n + 1] = cell
  BY <1>1, <1>2, <1>3, <1>4
<1> HIDE DEF cell, new
<1>6. \A v \in Range(elems) : v \in 0..n
  BY DEF Lies
<1>7. MemOK(new)
  <2>1. SUFFICES ASSUME NEW m \in DOMAIN new, NEW k \in DOMAIN new[m].elems
                 PROVE  new[m].elems[k] < m
    BY <1>5 DEF MemOK
  <2>2. CASE m \in 1..n
    BY <1>4, <1>5, <2>2 DEF MemOK
  <2>3. CASE m = n + 1
    <3>1. new[m].elems = elems
      BY <1>3, <1>5, <2>3
    <3>2. elems[k] \in Range(elems)
      BY <3>1 DEF Range
    <3>3. elems[k] \in 0..n
      BY <1>6, <3>2
    <3>4. QED
      BY <1>1, <2>3, <3>1, <3>3
  <2>4. QED
    BY <1>1, <1>5, <2>2, <2>3
<1>8. Kept(old, new)
  BY <1>1, <1>2, <1>4, <1>5, <1>7 DEF Kept
<1>9. Kept(mem, new)
  BY <1>2, <1>8, KeptOn
<1>10. Lies(new, n + 1, s)
  <2>1. new[n + 1].kind # "token" /\ new[n + 1].elems = elems /\ n + 1 \in DOMAIN new
    BY <1>1, <1>3, <1>5
  <2>2. \A t : t \in TokensIn(new, n + 1) <=> \E e \in Range(elems) : t \in TokensIn(new, e)
    BY <1>7, <2>1, TokensSteps
  <2>3. \A e \in Range(elems) : Lies(new, e, s)
    BY <1>9, LiesKept
  <2>4. n + 1 \in 0..Len(new)
    BY <1>1, <1>5
  <2>5. TokensIn(new, n + 1) \subseteq s[1]..(s[2] - 1)
    BY <2>2, <2>3 DEF Lies
  <2>6. QED
    BY <2>4, <2>5 DEF Lies
<1>11. /\ Fresh(mem, kind, rule, alt, elems).mem = new
       /\ Fresh(mem, kind, rule, alt, elems).value = n + 1
  BY DEF Fresh, new, old, cell
<1>12. QED
  BY <1>9, <1>10, <1>11

\* A value shared lies where it did.
LEMMA SharedLies ==
  ASSUME NEW mem, MemOK(mem), NEW v \in Nat, NEW s, Lies(mem, v, s)
  PROVE  LET new == Shared(mem, v) IN
         Kept(mem, new.mem) /\ Lies(new.mem, new.value, s)
<1>1. <<v>> \in Seq(Int)
  OBVIOUS
<1>2. Kept(mem, AddRefs(mem, <<v>>))
  BY <1>1, AddRefsKept
<1>3. Lies(AddRefs(mem, <<v>>), v, s)
  BY <1>2, LiesKept
<1>4. Shared(mem, v).mem = AddRefs(mem, <<v>>) /\ Shared(mem, v).value = v
  BY DEF Shared
<1>5. QED
  BY <1>2, <1>3, <1>4

\* The elements of a list lie where the list does.
LEMMA SpreadLies ==
  ASSUME NEW mem, MemOK(mem), NEW v, NEW s, Lies(mem, v, s)
  PROVE  /\ Spread(mem, v) \in Seq(Nat)
         /\ \A x \in Range(Spread(mem, v)) : Lies(mem, x, s)
<1>1. mem \in Seq(Cell) /\ Len(mem) \in Nat /\ DOMAIN mem = 1..Len(mem)
  BY DEF MemOK
<1>2. CASE ~ (v > 0 /\ mem[v].kind = "list")
  BY <1>2 DEF Spread, Range
<1>3. CASE v > 0 /\ mem[v].kind = "list"
  <2>1. v \in DOMAIN mem /\ Spread(mem, v) = mem[v].elems /\ mem[v].kind # "token"
    BY <1>1, <1>3 DEF Lies, Spread
  <2>2. /\ mem[v].elems \in Seq(Nat)
        /\ \A e \in Range(mem[v].elems) : e \in Nat /\ e < v
    BY <2>1, Older
  <2>3. \A t : t \in TokensIn(mem, v)
                 <=> \E e \in Range(mem[v].elems) : t \in TokensIn(mem, e)
    BY <2>1, TokensSteps
  <2>4. \A e \in Range(mem[v].elems) : e \in 0..Len(mem)
    BY <1>1, <2>1, <2>2
  <2>5. \A e \in Range(mem[v].elems) : Lies(mem, e, s)
    BY <2>3, <2>4 DEF Lies
  <2>6. QED
    BY <2>1, <2>2, <2>5
<1>4. QED
  BY <1>2, <1>3

\* The value of an alternative without symbols has no tokens.
LEMMA EmptyLies ==
  ASSUME NEW mem, MemOK(mem), NEW a, NEW s
  PROVE  LET new == EmptyValue(a, mem) IN
         Kept(mem, new.mem) /\ Lies(new.mem, new.value, s)
<1>1. CASE a.synthetic # "none"
  <2>1. << >> \in Seq(Nat) /\ \A v \in Range(<< >>) : Lies(mem, v, s)
    BY DEF Range
  <2>2. LET new == Fresh(mem, "list", Null, 0, << >>) IN
        Kept(mem, new.mem) /\ Lies(new.mem, new.value, s)
    BY <2>1, FreshLies
  <2>3. QED
    BY <1>1, <2>2 DEF EmptyValue, FreshList
<1>2. CASE ~ a.synthetic # "none"
  <2>1. Lies(mem, NullValue, s)
    BY NullLies
  <2>2. Kept(mem, mem)
    BY DEF Kept, MemOK
  <2>3. EmptyValue(a, mem).mem = mem /\ EmptyValue(a, mem).value = NullValue
    BY <1>2 DEF EmptyValue
  <2>4. QED
    BY <2>1, <2>2, <2>3
<1>3. QED
  BY <1>1, <1>2

\* What apply makes of values in a span lies in it.
LEMMA AppliedLies ==
  ASSUME NEW mem, MemOK(mem), NEW a \in Alternatives, NEW rule \in Names, NEW alt \in Nat,
         NEW args \in Seq(Nat), args # << >>, Len(args) = Len(a.symbols), NEW s,
         \A k \in DOMAIN args : Lies(mem, args[k], s)
  PROVE  LET new == Applied(a, rule, alt, mem, args) IN
         Kept(mem, new.mem) /\ Lies(new.mem, new.value, s)
<1> DEFINE Good(new) == Kept(mem, new.mem) /\ Lies(new.mem, new.value, s)
<1>1. /\ \A k \in 1..Len(args) : args[k] \in Nat /\ Lies(mem, args[k], s)
      /\ \A v \in Range(args) : Lies(mem, v, s)
  BY DEF Range
<1>2. Len(args) \in Nat \ {0}
  OBVIOUS
<1>3. Good(Shared(mem, args[1]))
  BY <1>1, <1>2, SharedLies
<1>4. CASE a.action # Null
  <2>1. Applied(a, rule, alt, mem, args) = Called(mem, rule, alt, a.action, args)
    BY <1>4 DEF Applied
  <2>2. CASE a.action = "object"
    <3>1. Good(Fresh(mem, "object", rule, alt, args))
      BY <1>1, FreshLies
    <3>2. QED
      BY <2>1, <2>2, <3>1 DEF Called
  <2>3. CASE a.action # "object"
    BY <1>3, <2>1, <2>3 DEF Called
  <2>4. QED
    BY <2>2, <2>3
<1>5. CASE a.action = Null /\ a.synthetic \in {"star", "plus"}
  <2> DEFINE elems == IF Len(a.symbols) = 2 THEN Append(Spread(mem, args[1]), args[2])
                                            ELSE <<args[1]>>
  <2>1. Applied(a, rule, alt, mem, args) = Fresh(mem, "list", Null, 0, elems)
    BY <1>5 DEF Applied, FreshList
  <2>2. elems \in Seq(Nat) /\ \A v \in Range(elems) : Lies(mem, v, s)
    <3>1. CASE Len(a.symbols) = 2
      <4> DEFINE l == Spread(mem, args[1])
      <4>1. l \in Seq(Nat) /\ \A x \in Range(l) : Lies(mem, x, s)
        BY <1>1, <1>2, SpreadLies
      <4>2. args[2] \in Nat /\ Lies(mem, args[2], s)
        BY <1>1, <3>1
      <4> HIDE DEF l
      <4>3. Append(l, args[2]) \in Seq(Nat)
        BY <4>1, <4>2
      <4>4. \A v \in Range(Append(l, args[2])) : v \in Range(l) \/ v = args[2]
        BY <4>1, <4>2 DEF Range
      <4>5. QED
        BY <3>1, <4>1, <4>2, <4>3, <4>4 DEF l
    <3>2. CASE Len(a.symbols) # 2
      <4>1. <<args[1]>> \in Seq(Nat) /\ Range(<<args[1]>>) = {args[1]}
        BY <1>1, <1>2 DEF Range
      <4>2. QED
        BY <1>1, <1>2, <3>2, <4>1
    <3>3. QED
      BY <3>1, <3>2
  <2> HIDE DEF elems
  <2>3. Good(Fresh(mem, "list", Null, 0, elems))
    BY <2>2, FreshLies
  <2>4. QED
    BY <2>1, <2>3
<1>6. CASE a.action = Null /\ a.synthetic = "optional"
  <2>1. Applied(a, rule, alt, mem, args) = Shared(mem, args[1])
    BY <1>6 DEF Applied
  <2>2. QED
    BY <1>3, <2>1
<1>7. CASE a.action = Null /\ a.synthetic = "none"
  <2>1. Applied(a, rule, alt, mem, args)
          = IF Len(args) = 1 THEN Shared(mem, args[1]) ELSE Fresh(mem, "list", Null, 0, args)
    BY <1>7 DEF Applied, FreshList
  <2>2. Good(Fresh(mem, "list", Null, 0, args))
    BY <1>1, FreshLies
  <2>3. QED
    BY <1>3, <2>1, <2>2
<1>8. QED
  BY <1>4, <1>5, <1>6, <1>7, QuantifierAssumption

\* The tokens of the chart come first, each with its own place in the input.
TokensFirst(mem, n) ==
  /\ MemOK(mem) /\ n \in Nat /\ n <= Len(mem)
  /\ \A k \in 1..n : mem[k].kind = "token" /\ mem[k].token = k - 1

\* The tokens stay first.
LEMMA TokensFirstKept ==
  ASSUME NEW mem, NEW new, Kept(mem, new), NEW n, TokensFirst(mem, n)
  PROVE  TokensFirst(new, n)
<1>1. Len(mem) \in Nat /\ Len(new) \in Nat /\ n \in Nat /\ n <= Len(mem)
      /\ Len(mem) <= Len(new) /\ MemOK(new)
  BY DEF Kept, MemOK, TokensFirst
<1>2. \A k \in 1..n : k \in 1..Len(mem)
  BY <1>1
<1>3. QED
  BY <1>1, <1>2 DEF Kept, TokensFirst

\* A token of the input lies in a span around its place.
LEMMA TokenLies ==
  ASSUME NEW mem, NEW n, TokensFirst(mem, n), NEW t \in 0..(n - 1), NEW s,
         t \in s[1]..(s[2] - 1)
  PROVE  Lies(mem, TokenValue(t), s)
<1>1. MemOK(mem) /\ n \in Nat /\ n <= Len(mem)
      /\ DOMAIN mem = 1..Len(mem) /\ Len(mem) \in Nat
  BY DEF TokensFirst, MemOK
<1>2. t + 1 \in 1..n /\ t + 1 \in DOMAIN mem /\ t + 1 \in 0..Len(mem) /\ (t + 1) - 1 = t
  BY <1>1
<1>3. mem[t + 1].kind = "token" /\ mem[t + 1].token = t
  BY <1>2 DEF TokensFirst
<1>4. TokensIn(mem, t + 1) = {mem[t + 1].token}
  BY <1>1, <1>2, <1>3, TokensSteps
<1>5. QED
  BY <1>2, <1>3, <1>4 DEF Lies, TokenValue

-----------------------------------------------------------------------------
(* The order of the values                                                 *)
(*                                                                         *)
(* A heap is laid over spans of the input, one for each value and each     *)
(* behind the one below it.  A frame takes the values in its own span off  *)
(* the heap and leaves one that lies there.                                *)

Span == Int \X Int

\* The values of a heap lie in the spans of h, which do not overlap.
Laid(mem, heap, h) ==
  /\ h \in Seq(Span) /\ Len(h) = Len(heap)
  /\ \A m, n \in DOMAIN h : m < n => h[m][2] <= h[n][1]
  /\ \A k \in DOMAIN h : Lies(mem, heap[k], h[k])

\* A frame over the span s finds, on a heap laid over h, the values of its slots at the
\* top, all in s, and the others before s; its other values are in s.
Finds(mem, f, s, h) ==
  /\ h \in Seq(Span) /\ Len(f.slots) <= Len(h)
  /\ \A k \in 1..(Len(h) - Len(f.slots)) : h[k][2] <= s[1]
  /\ \A k \in DOMAIN h : k > Len(h) - Len(f.slots) => s[1] <= h[k][1] /\ h[k][2] <= s[2]
  /\ \A k \in DOMAIN f.partial : f.partial[k] # Undef => Lies(mem, f.partial[k], s)

\* The spans of the heap the frame leaves.
Leaves(f, s, h) == Append(Popped(h, Len(f.slots)), s)

\* Each frame of a stack finds this when the frames above it have run; at has the span of
\* every item.
RunsOver(mem, at, stack, h) ==
  \E after \in [1..(Len(stack) + 1) -> Seq(Span)] :
    /\ after[Len(stack) + 1] = h
    /\ \A f \in 1..Len(stack) :
         /\ Finds(mem, stack[f], at[stack[f].item], after[f + 1])
         /\ after[f] = Leaves(stack[f], at[stack[f].item], after[f + 1])

\* The values of a heap that is laid are in order.
LEMMA LaidOrder ==
  ASSUME NEW mem, NEW heap \in Seq(Nat), NEW h, Laid(mem, heap, h)
  PROVE  InOrder(mem, heap)
<1>1. DOMAIN heap = DOMAIN h
  BY DEF Laid
<1>2. SUFFICES ASSUME NEW m \in DOMAIN heap, NEW n \in DOMAIN heap, m < n,
                      NEW s \in TokensIn(mem, heap[m]), NEW t \in TokensIn(mem, heap[n])
               PROVE  s < t
  BY DEF InOrder
<1>3. h[m] \in Span /\ h[n] \in Span
  <2>1. h \in Seq(Span)
    BY DEF Laid
  <2>2. QED
    BY <1>1, <2>1
<1>4. h[m][2] <= h[n][1]
  BY <1>1, <1>2 DEF Laid
<1>5. s \in h[m][1]..(h[m][2] - 1) /\ t \in h[n][1]..(h[n][2] - 1)
  BY <1>1, <1>2 DEF Laid, Lies
<1>6. h[m][1] \in Int /\ h[m][2] \in Int /\ h[n][1] \in Int /\ h[n][2] \in Int
  BY <1>3 DEF Span
<1>7. QED
  BY <1>4, <1>5, <1>6

\* A heap that is laid stays so for as long as the memory is kept.
LEMMA LaidKept ==
  ASSUME NEW mem, NEW new, Kept(mem, new), NEW heap, NEW h, Laid(mem, heap, h)
  PROVE  Laid(new, heap, h)
<1>1. \A k \in DOMAIN h : Lies(new, heap[k], h[k])
  BY LiesKept DEF Laid
<1>2. QED
  BY <1>1 DEF Laid

\* So it does when a value behind all the others is pushed.
LEMMA LaidPush ==
  ASSUME NEW mem, NEW heap \in Seq(Nat), NEW h, Laid(mem, heap, h),
         NEW v \in Nat, NEW s \in Span, Lies(mem, v, s),
         \A k \in 1..Len(h) : h[k][2] <= s[1]
  PROVE  Laid(mem, Append(heap, v), Append(h, s))
<1> DEFINE new == Append(h, s)
           more == Append(heap, v)
<1>1. h \in Seq(Span) /\ Len(h) = Len(heap) /\ Len(h) \in Nat
  BY DEF Laid
<1>2. /\ new \in Seq(Span) /\ Len(new) = Len(h) + 1 /\ DOMAIN new = 1..(Len(h) + 1)
      /\ \A k \in 1..Len(h) : new[k] = h[k]
      /\ new[Len(h) + 1] = s
  BY <1>1
<1>3. /\ Len(more) = Len(h) + 1
      /\ \A k \in 1..Len(h) : more[k] = heap[k]
      /\ more[Len(h) + 1] = v
  BY <1>1
<1>4. \A k \in DOMAIN new : k \in 1..Len(h) \/ k = Len(h) + 1
  BY <1>1, <1>2
<1> HIDE DEF new, more
<1>5. ASSUME NEW m \in DOMAIN new, NEW n \in DOMAIN new, m < n
      PROVE  new[m][2] <= new[n][1]
  <2>1. m \in 1..Len(h)
    BY <1>1, <1>2, <1>5
  <2>2. CASE n \in 1..Len(h)
    <3>1. m \in DOMAIN h /\ n \in DOMAIN h
      BY <1>1, <2>1, <2>2
    <3>2. h[m][2] <= h[n][1]
      BY <1>5, <3>1 DEF Laid
    <3>3. QED
      BY <1>2, <2>1, <2>2, <3>2
  <2>3. CASE n = Len(h) + 1
    BY <1>2, <2>1, <2>3
  <2>4. QED
    BY <1>4, <2>2, <2>3
<1>6. ASSUME NEW k \in DOMAIN new PROVE Lies(mem, more[k], new[k])
  <2>1. CASE k \in 1..Len(h)
    BY <1>1, <1>2, <1>3, <2>1 DEF Laid
  <2>2. CASE k = Len(h) + 1
    BY <1>2, <1>3, <2>2
  <2>3. QED
    BY <1>4, <2>1, <2>2
<1>7. QED
  BY <1>2, <1>3, <1>5, <1>6 DEF Laid, new, more

\* What is left when n values are popped.
LEMMA PoppedIs ==
  ASSUME NEW T, NEW h \in Seq(T), NEW n \in 0..Len(h)
  PROVE  /\ Popped(h, n) \in Seq(T) /\ Len(Popped(h, n)) = Len(h) - n
         /\ Len(h) - n \in Nat
         /\ \A k \in 1..(Len(h) - n) : k \in DOMAIN h /\ Popped(h, n)[k] = h[k]
<1>1. Len(h) \in Nat /\ Len(h) - n \in Nat /\ Len(h) - n <= Len(h)
  OBVIOUS
<1>2. /\ Popped(h, n) \in Seq(T) /\ Len(Popped(h, n)) = Len(h) - n
      /\ \A k \in 1..(Len(h) - n) : Popped(h, n)[k] = h[k]
  <2>1. ASSUME NEW v
        PROVE  /\ Popped(h, n) \in Seq(T) /\ Len(Popped(h, n)) = Len(h) - n
               /\ \A k \in 1..(Len(h) - n) : Popped(h, n)[k] = h[k]
    BY OccurrencesPopped
  <2>2. QED
    BY <2>1
<1>3. \A k \in 1..(Len(h) - n) : k \in DOMAIN h
  BY <1>1
<1>4. QED
  BY <1>1, <1>2, <1>3

\* And when values are popped.
LEMMA LaidPop ==
  ASSUME NEW mem, NEW heap \in Seq(Nat), NEW h, Laid(mem, heap, h), NEW n \in 0..Len(h)
  PROVE  /\ Laid(mem, Popped(heap, n), Popped(h, n))
         /\ Popped(heap, n) \in Seq(Nat) /\ Len(Popped(heap, n)) = Len(heap) - n
<1>1. h \in Seq(Span) /\ Len(h) = Len(heap) /\ Len(h) \in Nat /\ n \in 0..Len(heap)
  BY DEF Laid
<1>2. /\ Popped(h, n) \in Seq(Span) /\ Len(Popped(h, n)) = Len(h) - n
      /\ \A k \in 1..(Len(h) - n) : k \in DOMAIN h /\ Popped(h, n)[k] = h[k]
  BY <1>1, PoppedIs
<1>3. /\ Popped(heap, n) \in Seq(Nat) /\ Len(Popped(heap, n)) = Len(heap) - n
      /\ \A k \in 1..(Len(h) - n) : Popped(heap, n)[k] = heap[k]
  BY <1>1, PoppedIs
<1> DEFINE g == Popped(h, n)
           left == Popped(heap, n)
<1> HIDE DEF g, left
<1>4. DOMAIN g = 1..(Len(h) - n)
  BY <1>2 DEF g
<1>5. \A k \in DOMAIN g : Lies(mem, left[k], g[k])
  BY <1>2, <1>3, <1>4 DEF Laid, g, left
<1>6. \A k, m \in DOMAIN g : k < m => g[k][2] <= g[m][1]
  BY <1>2, <1>4 DEF Laid, g
<1>7. Laid(mem, left, g)
  BY <1>1, <1>2, <1>3, <1>5, <1>6 DEF Laid, g, left
<1>8. QED
  BY <1>3, <1>7 DEF g, left

\* The heap a frame leaves is laid, if the value it gives lies in its span.
LEMMA LaidOn ==
  ASSUME NEW mem, NEW heap \in Seq(Nat), NEW h, Laid(mem, heap, h),
         NEW f, f.slots \in Seq(Nat), NEW s \in Span, Finds(mem, f, s, h),
         NEW new, Kept(mem, new), NEW v \in Nat, Lies(new, v, s)
  PROVE  Laid(new, Append(Popped(heap, Len(f.slots)), v), Leaves(f, s, h))
<1> DEFINE n == Len(f.slots)
<1>1. h \in Seq(Span) /\ Len(h) \in Nat /\ n \in 0..Len(h)
  BY DEF Finds
<1> HIDE DEF n
<1>2. /\ Laid(mem, Popped(heap, n), Popped(h, n)) /\ Popped(heap, n) \in Seq(Nat)
  BY <1>1, LaidPop
<1>3. Laid(new, Popped(heap, n), Popped(h, n))
  BY <1>2, LaidKept
<1>4. /\ Len(Popped(h, n)) = Len(h) - n
      /\ \A k \in 1..(Len(h) - n) : Popped(h, n)[k] = h[k]
  BY <1>1, PoppedIs
<1>5. \A k \in 1..Len(Popped(h, n)) : Popped(h, n)[k][2] <= s[1]
  BY <1>4 DEF Finds, n
<1>6. QED
  BY <1>2, <1>3, <1>5, LaidPush DEF Leaves, n

\* The arguments of a frame lie in its span.
LEMMA ArgsLie ==
  ASSUME NEW mem, MemOK(mem), NEW heap \in Seq(Nat), NEW h, Laid(mem, heap, h),
         NEW f, Open(f.partial, f.slots), NEW s \in Span, Finds(mem, f, s, h)
  PROVE  LET args == Filled(f.partial, f.slots, heap) IN
         \A k \in DOMAIN args : Lies(mem, args[k], s)
<1> DEFINE args == Filled(f.partial, f.slots, heap)
           n == Len(f.slots)
<1>1. /\ h \in Seq(Span) /\ Len(h) = Len(heap) /\ Len(heap) \in Nat
      /\ n <= Len(heap) /\ n \in Nat /\ f.slots \in Seq(Nat) /\ f.partial \in Seq(Int)
  BY DEF Laid, Finds, Open
<1>2. /\ args \in Seq(Nat) /\ Len(args) = Len(f.partial)
      /\ \A t \in DOMAIN f.slots : args[f.slots[t]] = heap[(Len(heap) + 1) - t]
      /\ \A k \in DOMAIN f.partial : k \notin Range(f.slots) => args[k] = f.partial[k]
  <2>1. Len(f.slots) <= Len(heap)
    BY <1>1
  <2>2. QED
    BY <2>1, FilledEntries
<1> HIDE DEF args
<1>3. DOMAIN args = DOMAIN f.partial
  BY <1>1, <1>2
<1>4. ASSUME NEW k \in DOMAIN args PROVE Lies(mem, args[k], s)
  <2>1. CASE k \in Range(f.slots)
    <3>1. PICK t \in DOMAIN f.slots : f.slots[t] = k
      BY <2>1 DEF Range
    <3> DEFINE p == (Len(heap) + 1) - t
    <3>2. t \in 1..n
      BY <1>1
    <3>3. p \in DOMAIN h /\ p > Len(h) - n
      BY <1>1, <3>2
    <3>4. args[k] = heap[p]
      BY <1>2, <3>1
    <3> HIDE DEF p
    <3>5. Lies(mem, heap[p], h[p]) /\ h[p] \in Span
      BY <1>1, <3>3 DEF Laid
    <3>6. s[1] <= h[p][1] /\ h[p][2] <= s[2]
      BY <3>3 DEF Finds, n
    <3>7. QED
      BY <3>4, <3>5, <3>6, LiesWider DEF Span
  <2>2. CASE k \notin Range(f.slots)
    <3>1. args[k] = f.partial[k] /\ args[k] \in Nat
      BY <1>2, <1>3, <2>2
    <3>2. f.partial[k] # Undef
      BY <3>1 DEF Undef
    <3>3. QED
      BY <1>3, <3>1, <3>2 DEF Finds
  <2>3. QED
    BY <2>1, <2>2
<1>5. QED
  BY <1>4 DEF args

-----------------------------------------------------------------------------
(* Frames pushed and popped                                                *)

\* What a frame finds it finds for as long as the memory is kept.
LEMMA FindsKept ==
  ASSUME NEW mem, NEW new, Kept(mem, new), NEW f, NEW s, NEW h, Finds(mem, f, s, h)
  PROVE  Finds(new, f, s, h)
<1>1. \A k \in DOMAIN f.partial : f.partial[k] # Undef => Lies(new, f.partial[k], s)
  BY LiesKept DEF Finds
<1>2. QED
  BY <1>1 DEF Finds

LEMMA RunsKept ==
  ASSUME NEW mem, NEW new, Kept(mem, new), NEW at, NEW stack, NEW h,
         RunsOver(mem, at, stack, h)
  PROVE  RunsOver(new, at, stack, h)
<1>1. PICK after \in [1..(Len(stack) + 1) -> Seq(Span)] :
        /\ after[Len(stack) + 1] = h
        /\ \A f \in 1..Len(stack) :
             /\ Finds(mem, stack[f], at[stack[f].item], after[f + 1])
             /\ after[f] = Leaves(stack[f], at[stack[f].item], after[f + 1])
  BY DEF RunsOver
<1>2. \A f \in 1..Len(stack) : Finds(new, stack[f], at[stack[f].item], after[f + 1])
  BY <1>1, FindsKept
<1>3. QED
  BY <1>1, <1>2 DEF RunsOver

\* A stack without frames runs over any heap.
LEMMA RunsEmpty ==
  ASSUME NEW mem, NEW at, NEW h \in Seq(Span)
  PROVE  RunsOver(mem, at, << >>, h)
<1> DEFINE after == [f \in 1..1 |-> h]
<1>1. Len(<< >>) = 0 /\ 0 + 1 = 1 /\ 1..0 = {}
  OBVIOUS
<1>2. after \in [1..(Len(<< >>) + 1) -> Seq(Span)] /\ after[Len(<< >>) + 1] = h
  BY <1>1
<1> HIDE DEF after
<1>3. QED
  BY <1>1, <1>2 DEF RunsOver

\* With a frame more it runs if that finds its values and the others run over what it
\* leaves.
LEMMA RunsPush ==
  ASSUME NEW mem, NEW at, NEW T, NEW stack \in Seq(T), NEW f \in T, NEW h \in Seq(Span),
         Finds(mem, f, at[f.item], h),
         RunsOver(mem, at, stack, Leaves(f, at[f.item], h))
  PROVE  RunsOver(mem, at, Append(stack, f), h)
<1> DEFINE n == Len(stack)
           new == Append(stack, f)
           left == Leaves(f, at[f.item], h)
<1>1. n \in Nat
  OBVIOUS
<1>2. /\ Len(new) = n + 1 /\ new[n + 1] = f /\ \A k \in 1..n : new[k] = stack[k]
  OBVIOUS
<1>3. PICK after \in [1..(n + 1) -> Seq(Span)] :
        /\ after[n + 1] = left
        /\ \A k \in 1..n :
             /\ Finds(mem, stack[k], at[stack[k].item], after[k + 1])
             /\ after[k] = Leaves(stack[k], at[stack[k].item], after[k + 1])
  BY DEF RunsOver
<1> DEFINE more == [k \in 1..((n + 1) + 1) |-> IF k <= n + 1 THEN after[k] ELSE h]
<1>4. more \in [1..((n + 1) + 1) -> Seq(Span)]
  BY <1>1, <1>3
<1>5. more[(n + 1) + 1] = h /\ \A k \in 1..(n + 1) : more[k] = after[k]
  BY <1>1
<1> HIDE DEF new, left, more
<1>6. ASSUME NEW k \in 1..(n + 1)
      PROVE  /\ Finds(mem, new[k], at[new[k].item], more[k + 1])
             /\ more[k] = Leaves(new[k], at[new[k].item], more[k + 1])
  <2>1. CASE k = n + 1
    BY <1>2, <1>3, <1>5, <2>1 DEF left
  <2>2. CASE k \in 1..n
    <3>1. k \in 1..(n + 1) /\ k + 1 \in 1..(n + 1)
      BY <1>1, <2>2
    <3>2. new[k] = stack[k] /\ more[k] = after[k] /\ more[k + 1] = after[k + 1]
      BY <1>2, <1>5, <2>2, <3>1
    <3>3. QED
      BY <1>3, <2>2, <3>2
  <2>3. QED
    BY <1>1, <2>1, <2>2
<1>7. QED
  BY <1>2, <1>4, <1>5, <1>6 DEF RunsOver, new

\* Conversely, where a stack runs the frame on top finds its values.
LEMMA RunsPop ==
  ASSUME NEW mem, NEW at, NEW T, NEW stack \in Seq(T), stack # << >>, NEW h,
         RunsOver(mem, at, stack, h)
  PROVE  LET f == Last(stack) IN
         /\ h \in Seq(Span)
         /\ Finds(mem, f, at[f.item], h)
         /\ Leaves(f, at[f.item], h) \in Seq(Span)
         /\ RunsOver(mem, at, Front(stack), Leaves(f, at[f.item], h))
<1> DEFINE n == Len(stack)
           f == Last(stack)
           low == Front(stack)
<1>1. n \in Nat /\ n >= 1 /\ (n - 1) + 1 = n /\ n - 1 \in Nat
  <2>1. n \in Nat /\ n # 0
    OBVIOUS
  <2>2. QED
    BY <2>1
<1>2. /\ stack = Append(low, f) /\ low \in Seq(T) /\ f \in T /\ Len(low) = n - 1
  BY LastFront
<1> HIDE DEF f, low
<1>3. stack[n] = f /\ \A k \in 1..(n - 1) : stack[k] = low[k]
  BY <1>1, <1>2
<1>4. PICK after \in [1..(n + 1) -> Seq(Span)] :
        /\ after[n + 1] = h
        /\ \A k \in 1..n :
             /\ Finds(mem, stack[k], at[stack[k].item], after[k + 1])
             /\ after[k] = Leaves(stack[k], at[stack[k].item], after[k + 1])
  BY DEF RunsOver
<1>5. n \in 1..n /\ n \in 1..(n + 1) /\ n + 1 \in 1..(n + 1)
  BY <1>1
<1>6. /\ Finds(mem, f, at[f.item], h)
      /\ after[n] = Leaves(f, at[f.item], h)
      /\ after[n] \in Seq(Span) /\ h \in Seq(Span)
  BY <1>3, <1>4, <1>5
<1> DEFINE less == [k \in 1..((n - 1) + 1) |-> after[k]]
<1>7. less \in [1..((n - 1) + 1) -> Seq(Span)]
  BY <1>1, <1>4
<1>8. \A k \in 1..n : less[k] = after[k]
  BY <1>1
<1> HIDE DEF less
<1>9. ASSUME NEW k \in 1..(n - 1)
      PROVE  /\ Finds(mem, low[k], at[low[k].item], less[k + 1])
             /\ less[k] = Leaves(low[k], at[low[k].item], less[k + 1])
  <2>1. k \in 1..n /\ k + 1 \in 1..n
    BY <1>1
  <2>2. QED
    BY <1>3, <1>4, <1>8, <2>1
<1>10. less[(n - 1) + 1] = Leaves(f, at[f.item], h)
  BY <1>1, <1>5, <1>6, <1>8
<1> DEFINE left == Leaves(f, at[f.item], h)
<1>11. RunsOver(mem, at, low, left)
  <2>1. Len(low) = n - 1
    BY <1>2
  <2>2. less \in [1..(Len(low) + 1) -> Seq(Span)]
    BY <1>7, <2>1
  <2>3. less[Len(low) + 1] = left
    BY <1>10, <2>1
  <2>4. \A k \in 1..Len(low) : /\ Finds(mem, low[k], at[low[k].item], less[k + 1])
                              /\ less[k] = Leaves(low[k], at[low[k].item], less[k + 1])
    BY <1>9, <2>1
  <2> HIDE DEF left
  <2>5. QED
    BY ONLY <2>2, <2>3, <2>4 DEF RunsOver
<1>12. QED
  BY <1>6, <1>11 DEF f, low

-----------------------------------------------------------------------------
(* The frame of a node and those of its children                           *)

\* The spans g are those of h and then those of some items, the last one first: in the
\* order their frames run.
Adds(at, h, items, g) ==
  /\ h \in Seq(Span) /\ g \in Seq(Span) /\ Len(g) = Len(h) + Len(items)
  /\ \A k \in 1..Len(h) : g[k] = h[k]
  /\ \A k \in 1..Len(items) : g[Len(h) + k] = at[items[(Len(items) + 1) - k]]

\* A later item lies before an earlier one, and all of them behind what is on the heap.
Backwards(at, h, items) ==
  /\ \A s, t \in DOMAIN items : s < t => at[items[t]][2] <= at[items[s]][1]
  /\ \A k \in DOMAIN h : \A t \in DOMAIN items : h[k][2] <= at[items[t]][1]

\* A select frame finds its span free, and adds it.
LEMMA SelectRuns ==
  ASSUME NEW mem, NEW at, NEW T, NEW stack \in Seq(T), NEW item, SelectFrame(item) \in T,
         NEW h \in Seq(Span), at[item] \in Span,
         \A k \in 1..Len(h) : h[k][2] <= at[item][1],
         RunsOver(mem, at, stack, Append(h, at[item]))
  PROVE  RunsOver(mem, at, Append(stack, SelectFrame(item)), h)
<1> DEFINE f == SelectFrame(item)
           s == at[item]
<1>1. f \in T /\ f.item = item /\ f.partial = << >> /\ f.slots = << >>
  BY SelectFields
<1> HIDE DEF f
<1>2. Len(f.slots) = 0 /\ Len(h) \in Nat /\ Len(h) - 0 = Len(h) /\ DOMAIN f.partial = {}
  BY <1>1
<1>3. \A k \in DOMAIN h : ~ k > Len(h)
  OBVIOUS
<1>4. Finds(mem, f, s, h)
  BY <1>2, <1>3 DEF Finds
<1>5. Popped(h, 0) = h
  <2>1. SubSeq(h, 1, Len(h)) = h
    OBVIOUS
  <2>2. QED
    BY <1>2, <2>1 DEF Popped
<1>6. Leaves(f, s, h) = Append(h, s)
  BY <1>2, <1>5 DEF Leaves
<1>7. QED
  BY <1>1, <1>4, <1>6, RunsPush DEF f

\* Several items pushed for the last one to run first: the frames below run over the
\* spans of all of them.
LEMMA SelectsRun ==
  ASSUME NEW mem, NEW at, NEW T, NEW U, \A i \in U : SelectFrame(i) \in T,
         \A i \in U : at[i] \in Span,
         NEW stack \in Seq(T)
  PROVE  \A items \in Seq(U) : \A h, g :
           Adds(at, h, items, g) /\ Backwards(at, h, items) /\ RunsOver(mem, at, stack, g)
             => RunsOver(mem, at, stack \o SelectsOf(items), h)
<1> DEFINE Good(items) ==
             \A h, g : Adds(at, h, items, g) /\ Backwards(at, h, items)
                         /\ RunsOver(mem, at, stack, g)
                       => RunsOver(mem, at, stack \o SelectsOf(items), h)
           S == {l \in Nat : \A items \in Seq(U) : Len(items) = l => Good(items)}
<1>1. 0 \in S
  <2>1. ASSUME NEW items \in Seq(U), Len(items) = 0 PROVE Good(items)
    <3>1. items = << >>
      BY <2>1
    <3>2. SelectsOf(items) = << >>
      BY <3>1 DEF SelectsOf
    <3>3. stack \o << >> = stack
      OBVIOUS
    <3>4. ASSUME NEW h, NEW g, Adds(at, h, items, g) PROVE g = h
      <4>1. /\ h \in Seq(Span) /\ g \in Seq(Span) /\ Len(g) = Len(h) + 0
            /\ \A k \in 1..Len(h) : g[k] = h[k]
        BY <2>1, <3>4 DEF Adds
      <4>2. Len(g) = Len(h)
        BY <4>1
      <4>3. QED
        BY <4>1, <4>2
    <3>5. QED
      BY <3>2, <3>3, <3>4
  <2>2. QED
    BY <2>1
<1>2. ASSUME NEW l \in Nat, l \in S PROVE l + 1 \in S
  <2>1. ASSUME NEW items \in Seq(U), Len(items) = l + 1,
               NEW h, NEW g, Adds(at, h, items, g), Backwards(at, h, items),
               RunsOver(mem, at, stack, g)
        PROVE  RunsOver(mem, at, stack \o SelectsOf(items), h)
    <3> DEFINE front == Front(items)
               last == Last(items)
               old == stack \o SelectsOf(front)
               mid == Append(h, at[last])
    <3>1. items # << >>
      <4>1. l + 1 # 0
        OBVIOUS
      <4>2. QED
        BY <2>1, <4>1
    <3>2. /\ items = Append(front, last) /\ front \in Seq(U) /\ last \in U
          /\ Len(front) = Len(items) - 1
      BY <3>1, LastFront
    <3> HIDE DEF front, last
    <3>3. Len(front) = l /\ DOMAIN items = 1..(l + 1) /\ DOMAIN front = 1..l
      BY <2>1, <3>2
    <3>4. items[l + 1] = last /\ \A k \in 1..l : items[k] = front[k]
      BY <3>2, <3>3
    <3>5. old \in Seq(T) /\ stack \o SelectsOf(items) = Append(old, SelectFrame(last))
      <4>1. SelectsOneMore(stack, front, last)
        BY <3>2, SelectsAppend
      <4>2. QED
        BY <3>2, <4>1, SelectsAppend DEF SelectsOneMore
    <3>6. at[last] \in Span /\ SelectFrame(last) \in T
      BY <3>2
    <3>7. /\ h \in Seq(Span) /\ g \in Seq(Span) /\ Len(g) = Len(h) + (l + 1)
          /\ \A k \in 1..Len(h) : g[k] = h[k]
          /\ \A k \in 1..(l + 1) : g[Len(h) + k] = at[items[((l + 1) + 1) - k]]
      BY <2>1 DEF Adds
    <3>8. Len(h) \in Nat /\ DOMAIN h = 1..Len(h)
      BY <3>7
    <3>9. /\ mid \in Seq(Span) /\ Len(mid) = Len(h) + 1 /\ mid[Len(h) + 1] = at[last]
          /\ \A k \in 1..Len(h) : mid[k] = h[k]
      BY <3>6, <3>7
    <3>10. DOMAIN mid = 1..(Len(h) + 1)
      BY <3>9
    <3> HIDE DEF old, mid
    <3>11. Adds(at, mid, front, g)
      <4>1. Len(g) = Len(mid) + Len(front)
        BY <3>3, <3>7, <3>8, <3>9
      <4>2. ASSUME NEW k \in 1..Len(mid) PROVE g[k] = mid[k]
        <5>1. CASE k = Len(h) + 1
          <6>1. 1 \in 1..(l + 1) /\ ((l + 1) + 1) - 1 = l + 1
            OBVIOUS
          <6>2. g[Len(h) + 1] = at[items[l + 1]]
            BY <3>7, <6>1
          <6>3. QED
            BY <3>4, <3>9, <5>1, <6>2
        <5>2. CASE k \in 1..Len(h)
          BY <3>7, <3>9, <5>2
        <5>3. QED
          BY <3>8, <3>9, <5>1, <5>2
      <4>3. ASSUME NEW k \in 1..Len(front)
            PROVE  g[Len(mid) + k] = at[front[(Len(front) + 1) - k]]
        <5> DEFINE j == (l + 1) - k
        <5>1. /\ k \in 1..l /\ k + 1 \in 1..(l + 1) /\ ((l + 1) + 1) - (k + 1) = j
              /\ j \in 1..l /\ Len(h) + (k + 1) = Len(mid) + k /\ (Len(front) + 1) - k = j
          BY <3>3, <3>8, <3>9
        <5> HIDE DEF j
        <5>2. g[Len(h) + (k + 1)] = at[items[j]]
          BY <3>7, <5>1
        <5>3. items[j] = front[j]
          BY <3>4, <5>1
        <5>4. QED
          BY <5>1, <5>2, <5>3
      <4>4. QED
        BY <3>7, <3>9, <4>1, <4>2, <4>3 DEF Adds
    <3>12. Backwards(at, mid, front)
      <4>1. ASSUME NEW t \in DOMAIN front
            PROVE  t \in DOMAIN items /\ l + 1 \in DOMAIN items /\ t < l + 1
                   /\ front[t] = items[t]
        BY <3>3, <3>4
      <4>2. ASSUME NEW s \in DOMAIN front, NEW t \in DOMAIN front, s < t
            PROVE  at[front[t]][2] <= at[front[s]][1]
        <5>1. at[items[t]][2] <= at[items[s]][1]
          BY <2>1, <4>1, <4>2 DEF Backwards
        <5>2. QED
          BY <4>1, <5>1
      <4>3. ASSUME NEW k \in DOMAIN mid, NEW t \in DOMAIN front
            PROVE  mid[k][2] <= at[front[t]][1]
        <5>1. CASE k = Len(h) + 1
          <6>1. at[items[l + 1]][2] <= at[items[t]][1]
            BY <2>1, <4>1 DEF Backwards
          <6>2. QED
            BY <3>4, <3>9, <4>1, <5>1, <6>1
        <5>2. CASE k \in 1..Len(h)
          <6>1. h[k][2] <= at[items[t]][1]
            BY <2>1, <3>8, <4>1, <5>2 DEF Backwards
          <6>2. QED
            BY <3>9, <4>1, <5>2, <6>1
        <5>3. QED
          BY <3>8, <3>10, <5>1, <5>2
      <4>4. QED
        BY <4>2, <4>3 DEF Backwards
    <3>13. RunsOver(mem, at, old, mid)
      <4>1. Good(front)
        BY <1>2, <3>2, <3>3
      <4>2. QED
        BY <2>1, <3>11, <3>12, <4>1 DEF old
    <3>14. \A k \in 1..Len(h) : h[k][2] <= at[last][1]
      <4>1. l + 1 \in DOMAIN items
        BY <3>3
      <4>2. QED
        BY <2>1, <3>4, <3>8, <4>1 DEF Backwards
    <3>15. RunsOver(mem, at, Append(old, SelectFrame(last)), h)
      BY <3>5, <3>6, <3>7, <3>13, <3>14, SelectRuns DEF mid
    <3>16. QED
      BY <3>5, <3>15
  <2>2. QED
    BY <2>1
<1> HIDE DEF Good
<1>3. Nat \subseteq S
  <2> HIDE DEF S
  <2> QED BY <1>1, <1>2, Induction
<1>4. ASSUME NEW items \in Seq(U) PROVE Good(items)
  <2>1. Len(items) \in S
    BY <1>3
  <2>2. QED
    BY <2>1
<1>5. QED
  BY <1>4 DEF Good

\* The items of a node's children lie in its span s, the last one first.
ChildrenIn(at, items, s) ==
  /\ \A t \in DOMAIN items : s[1] <= at[items[t]][1] /\ at[items[t]][2] <= s[2]
  /\ \A t, u \in DOMAIN items : t < u => at[items[u]][2] <= at[items[t]][1]

\* A frame for the node and, above it, one for each child run where one for the node did.
LEMMA ExpandedRuns ==
  ASSUME NEW mem, NEW at, NEW T, NEW U, \A i \in U : SelectFrame(i) \in T,
         \A i \in U : at[i] \in Span,
         NEW stack \in Seq(T), NEW f \in T, f.item \in U, f.slots \in Seq(Nat),
         NEW items \in Seq(U), Len(items) = Len(f.slots), ChildrenIn(at, items, at[f.item]),
         \A k \in DOMAIN f.partial : f.partial[k] # Undef => Lies(mem, f.partial[k], at[f.item]),
         NEW h \in Seq(Span), \A k \in 1..Len(h) : h[k][2] <= at[f.item][1],
         RunsOver(mem, at, stack, Append(h, at[f.item]))
  PROVE  RunsOver(mem, at, Append(stack, f) \o SelectsOf(items), h)
<1> DEFINE n == Len(items)
           s == at[f.item]
           up == [k \in 1..n |-> at[items[(n + 1) - k]]]
           g == h \o up
<1>1. n \in Nat /\ DOMAIN items = 1..n /\ \A k \in 1..n : (n + 1) - k \in 1..n
  OBVIOUS
<1>2. s \in Span /\ s[1] \in Int /\ s[2] \in Int
  BY DEF Span
<1>3. \A t \in 1..n : at[items[t]] \in Span /\ at[items[t]][1] \in Int /\ at[items[t]][2] \in Int
  BY <1>1 DEF Span
<1>4. up \in Seq(Span) /\ Len(up) = n
  BY <1>1, <1>3
<1>5. \A k \in 1..n : up[k] = at[items[(n + 1) - k]]
  OBVIOUS
<1> HIDE DEF up
<1>6. /\ g \in Seq(Span) /\ Len(g) = Len(h) + n
      /\ \A k \in 1..Len(h) : g[k] = h[k]
      /\ \A k \in 1..n : g[Len(h) + k] = up[k]
  <2>1. /\ h \o up \in Seq(Span) /\ Len(h \o up) = Len(h) + Len(up)
        /\ \A k \in 1..Len(h) : (h \o up)[k] = h[k]
        /\ \A k \in 1..Len(up) : (h \o up)[Len(h) + k] = up[k]
    <3>1. h \in Seq(Span) /\ up \in Seq(Span)
      BY <1>4
    <3>2. h \o up \in Seq(Span)
      BY <3>1, ConcatFacts
    <3>3. Len(h \o up) = Len(h) + Len(up)
      BY <3>1, ConcatFacts
    <3>4. \A k \in 1..Len(h) : (h \o up)[k] = h[k]
      BY <3>1, ConcatFacts
    <3>5. \A k \in 1..Len(up) : (h \o up)[Len(h) + k] = up[k]
      BY <3>1, ConcatFacts
    <3>6. QED
      BY <3>2, <3>3, <3>4, <3>5
  <2>2. QED
    BY <1>4, <2>1
<1> HIDE DEF g
<1>7. Len(h) \in Nat /\ DOMAIN h = 1..Len(h) /\ DOMAIN g = 1..(Len(h) + n)
  BY <1>1, <1>6
<1>8. Adds(at, h, items, g)
  BY <1>5, <1>6 DEF Adds
<1>9. Backwards(at, h, items)
  <2>1. ASSUME NEW k \in DOMAIN h, NEW t \in DOMAIN items
        PROVE  h[k][2] <= at[items[t]][1]
    <3>1. h[k][2] <= s[1] /\ s[1] <= at[items[t]][1]
      BY <1>7 DEF ChildrenIn
    <3>2. h[k][2] \in Int
      <4>1. h[k] \in Span
        OBVIOUS
      <4>2. QED
        BY <4>1 DEF Span
    <3>3. at[items[t]][1] \in Int
      BY <1>1, <1>3
    <3>4. \A x, y, z \in Int : x <= y /\ y <= z => x <= z
      OBVIOUS
    <3>5. QED
      BY <1>2, <3>1, <3>2, <3>3, <3>4, Zenon
  <2>2. QED
    BY <2>1 DEF Backwards, ChildrenIn
<1>10. Finds(mem, f, s, g)
  <2>1. (Len(h) + n) - n = Len(h) /\ n <= Len(h) + n
    BY <1>1, <1>7
  <2>2. ASSUME NEW k \in DOMAIN g, k > Len(h) PROVE s[1] <= g[k][1] /\ g[k][2] <= s[2]
    <3> DEFINE j == k - Len(h)
    <3>1. j \in 1..n /\ Len(h) + j = k
      BY <1>1, <1>7, <2>2
    <3> HIDE DEF j
    <3>2. g[k] = at[items[(n + 1) - j]] /\ (n + 1) - j \in DOMAIN items
      BY <1>1, <1>5, <1>6, <3>1
    <3>3. QED
      BY <3>2 DEF ChildrenIn
  <2>3. \A k \in 1..Len(h) : g[k][2] <= s[1]
    BY <1>6
  <2>4. QED
    BY <1>6, <2>1, <2>2, <2>3 DEF Finds
<1>11. Popped(g, n) = h
  <2>1. n \in 0..Len(g)
    BY <1>1, <1>6, <1>7
  <2>2. /\ Popped(g, n) \in Seq(Span) /\ Len(Popped(g, n)) = Len(g) - n
        /\ \A k \in 1..(Len(g) - n) : Popped(g, n)[k] = g[k]
    BY <1>6, <2>1, PoppedIs
  <2>3. Len(g) - n = Len(h)
    BY <1>1, <1>6, <1>7
  <2> DEFINE p == Popped(g, n)
  <2>4. p \in Seq(Span) /\ Len(p) = Len(h) /\ \A k \in 1..Len(h) : p[k] = h[k]
    BY <1>6, <2>2, <2>3
  <2> HIDE DEF p
  <2>5. p = h
    BY <2>4
  <2>6. QED
    BY <2>5 DEF p
<1>12. Leaves(f, s, g) = Append(h, s)
  BY <1>11 DEF Leaves
<1>13. RunsOver(mem, at, Append(stack, f), g)
  BY <1>6, <1>10, <1>12, RunsPush
<1>14. Append(stack, f) \in Seq(T)
  OBVIOUS
<1>15. QED
  BY <1>8, <1>9, <1>13, <1>14, SelectsRun
============================================================================
