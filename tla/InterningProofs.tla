--------------------------- MODULE InterningProofs ---------------------------
(***************************************************************************)
(* What is proved of Interning, for any number of grammars, names and      *)
(* addresses, and every layout.                                            *)
(***************************************************************************)
EXTENDS Interning, SequenceTheorems, FunctionTheorems, FiniteSetTheorems, TLAPS

(***************************************************************************)
(* The inductive invariant.                                                *)
(***************************************************************************)

\* The places a string is held at.
Places(a) == {gk \in Grammars \X DOMAIN Layout : gk[2] \in Positions(gk[1], a)}

\* A grammar has no more names than its layout.
Fits == \A g \in Grammars : Len(held[g]) <= Len(Layout)

\* A string is held at finitely many places, so they can be counted.
Counted ==
  \A a \in Addresses : IsFiniteSet(Places(a)) /\ strings[a].refs = Cardinality(Places(a))

\* There is one interned string of a name.
OnePerName ==
  \A a, b \in Addresses :
    strings[a].interned /\ strings[b].interned /\ strings[a].name = strings[b].name => a = b

\* The names fetch has visited are interned, and a fetched grammar is complete.
VisitedInterned ==
  \A g \in Grammars :
    at[g] # NotFetched =>
      /\ Len(held[g]) = Len(Layout)
      /\ \A k \in 1..at[g] : strings[held[g][k]].interned

Inv == TypeOK /\ Fits /\ Counted /\ OnePerName /\ VisitedInterned

-----------------------------------------------------------------------------
(* Places                                                                  *)

LEMMA LayoutFacts == Len(Layout) \in Nat /\ DOMAIN Layout = 1..Len(Layout)
BY InterningAssumption

\* A place a string is held at: it is in Addresses, referenced, and so not unused.
LEMMA HeldAt ==
  ASSUME Inv, NEW g \in Grammars, NEW k \in DOMAIN held[g]
  PROVE  /\ held[g][k] \in Addresses /\ k \in DOMAIN Layout
         /\ <<g, k>> \in Places(held[g][k])
         /\ strings[held[g][k]].refs \in Nat /\ strings[held[g][k]].refs > 0
         /\ held[g][k] \notin Unused(strings)
<1>1. held[g] \in Seq(Addresses) /\ Len(held[g]) \in Nat /\ Len(held[g]) <= Len(Layout)
  BY DEF Inv, TypeOK, Fits
<1>2. k \in DOMAIN Layout /\ held[g][k] \in Addresses
  BY <1>1, LayoutFacts, ElementOfSeq
<1> PICK a : a = held[g][k]
  OBVIOUS
<1>3. <<g, k>> \in Places(a)
  BY <1>2 DEF Places, Positions
<1>4. IsFiniteSet(Places(a)) /\ strings[a].refs = Cardinality(Places(a))
  BY <1>2 DEF Inv, Counted
<1>5. Cardinality(Places(a)) \in Nat /\ Cardinality(Places(a)) # 0
  BY <1>3, <1>4, FS_CardinalityType, FS_EmptySet
<1>6. a \notin Unused(strings)
  BY <1>4, <1>5 DEF Unused
<1> QED BY <1>2, <1>3, <1>4, <1>5, <1>6

\* An unused string is nowhere held.
LEMMA UnusedNowhere ==
  ASSUME Inv, NEW a \in Unused(strings)
  PROVE  a \in Addresses /\ Places(a) = {} /\ ~ strings[a].interned
<1>1. a \in Addresses /\ strings[a].refs = 0
  BY DEF Unused
<1>2. IsFiniteSet(Places(a)) /\ Cardinality(Places(a)) = 0
  BY <1>1 DEF Inv, Counted
<1> QED BY <1>1, <1>2, FS_EmptySet DEF Unused

\* One more name of a grammar is one more place of its string.
LEMMA PlaceAdded ==
  ASSUME Inv, NEW g \in Grammars, NEW a \in Addresses, NEW k \in DOMAIN Layout,
         k = Len(held[g]) + 1, held' = [held EXCEPT ![g] = Append(@, a)],
         NEW b \in Addresses
  PROVE  /\ <<g, k>> \notin Places(b)
         /\ Places(b)' = IF b = a THEN Places(b) \cup {<<g, k>>} ELSE Places(b)
<1>1. held \in [Grammars -> Seq(Addresses)] /\ held[g] \in Seq(Addresses)
  BY DEF Inv, TypeOK
<1>2. k \notin DOMAIN held[g] /\ DOMAIN held'[g] = DOMAIN held[g] \cup {k}
  BY <1>1
<1>3. held'[g][k] = a /\ \A l \in DOMAIN held[g] : held'[g][l] = held[g][l]
  BY <1>1
<1>4. \A h \in Grammars : h # g => held'[h] = held[h]
  BY <1>1
<1>5. <<g, k>> \notin Places(b)
  BY <1>2 DEF Places, Positions
<1>6. ASSUME NEW h \in Grammars, NEW l \in DOMAIN Layout
      PROVE  <<h, l>> \in Places(b)'
               <=> IF h = g /\ l = k THEN b = a ELSE <<h, l>> \in Places(b)
  <2>1. CASE h # g
    BY <1>4, <2>1 DEF Places, Positions
  <2>2. CASE h = g
    BY <1>2, <1>3, <2>2 DEF Places, Positions
  <2> QED BY <2>1, <2>2
<1>7. /\ Places(b) \subseteq Grammars \X DOMAIN Layout
      /\ Places(b)' \subseteq Grammars \X DOMAIN Layout
  BY DEF Places
<1>8. Places(b)' = IF b = a THEN Places(b) \cup {<<g, k>>} ELSE Places(b)
  <2> k \in DOMAIN Layout
    OBVIOUS
  <2> QED BY ONLY <1>5, <1>6, <1>7, k \in DOMAIN Layout, g \in Grammars
<1> QED BY <1>5, <1>8

\* A name replaced is a place that goes from one string to the other.
LEMMA PlaceMoved ==
  ASSUME Inv, NEW g \in Grammars, NEW k \in DOMAIN held[g],
         NEW a \in Addresses, a = held[g][k],
         NEW c \in Addresses,
         DOMAIN held'[g] = DOMAIN held[g], held'[g][k] = c,
         \A l \in DOMAIN held[g] : l # k => held'[g][l] = held[g][l],
         \A h \in Grammars : h # g => held'[h] = held[h],
         NEW b \in Addresses
  PROVE  Places(b)' = IF b = c THEN Places(b) \cup {<<g, k>>}
                      ELSE IF b = a THEN Places(b) \ {<<g, k>>} ELSE Places(b)
<1>1. ASSUME NEW h \in Grammars, NEW l \in DOMAIN Layout
      PROVE  <<h, l>> \in Places(b)'
               <=> IF h = g /\ l = k THEN b = c ELSE <<h, l>> \in Places(b)
  <2>1. CASE h # g
    BY <2>1 DEF Places, Positions
  <2>2. CASE h = g /\ l # k
    BY <2>2 DEF Places, Positions
  <2>3. CASE h = g /\ l = k
    BY <2>3 DEF Places, Positions
  <2> QED BY <2>1, <2>2, <2>3
<1>2. /\ Places(b) \subseteq Grammars \X DOMAIN Layout
      /\ Places(b)' \subseteq Grammars \X DOMAIN Layout
      /\ k \in DOMAIN Layout
  BY HeldAt DEF Places
<1>3. <<g, k>> \in Places(b) <=> b = a
  BY <1>2 DEF Places, Positions
<1> QED BY <1>1, <1>2, <1>3

\* Whoever gives up a grammar gives up as many places as it counts.
LEMMA PlacesDropped ==
  ASSUME Inv, NEW g \in Grammars, held' = [held EXCEPT ![g] = << >>],
         NEW b \in Addresses
  PROVE  /\ IsFiniteSet(Places(b)')
         /\ Cardinality(Places(b)') = Cardinality(Places(b)) - Cardinality(Positions(g, b))
<1> DEFINE P == Positions(g, b)
           Q == {g} \X P
<1>1. held \in [Grammars -> Seq(Addresses)] /\ held[g] \in Seq(Addresses)
  BY DEF Inv, TypeOK
<1>2. Len(held[g]) \in Nat /\ DOMAIN held[g] = 1..Len(held[g])
  BY <1>1
<1>3. IsFiniteSet(P)
  <2>1. IsFiniteSet(DOMAIN held[g])
    BY <1>2, FS_Interval
  <2>2. P \in SUBSET DOMAIN held[g]
    BY DEF Positions
  <2> HIDE DEF P
  <2> QED BY <2>1, <2>2, FS_Subset
<1>4. P \subseteq DOMAIN Layout
  BY HeldAt DEF Positions
<1>5. Places(b)' = Places(b) \ Q
  <2>1. DOMAIN held'[g] = {} /\ \A h \in Grammars : h # g => held'[h] = held[h]
    BY <1>1
  <2>2. ASSUME NEW h \in Grammars, NEW l \in DOMAIN Layout
        PROVE  <<h, l>> \in Places(b)' <=> (<<h, l>> \in Places(b) /\ <<h, l>> \notin Q)
    <3>1. CASE h # g
      BY <2>1, <3>1 DEF Places, Positions
    <3>2. CASE h = g
      BY <2>1, <3>2 DEF Places, Positions
    <3> QED BY <3>1, <3>2
  <2>3. /\ Places(b) \subseteq Grammars \X DOMAIN Layout
        /\ Places(b)' \subseteq Grammars \X DOMAIN Layout
    BY DEF Places
  <2> HIDE DEF Q
  <2> QED BY <2>2, <2>3
<1>6. Q \subseteq Places(b)
  BY <1>4 DEF Places
<1>7. IsFiniteSet(Q) /\ Cardinality(Q) = Cardinality(P)
  <2>1. IsFiniteSet({g}) /\ Cardinality({g}) = 1
    BY FS_Singleton
  <2>2. Cardinality(P) \in Nat
    BY <1>3, FS_CardinalityType
  <2> HIDE DEF P
  <2>3. IsFiniteSet(Q) /\ Cardinality(Q) = 1 * Cardinality(P)
    BY ONLY <1>3, <2>1, FS_Product
  <2> QED BY <2>2, <2>3
<1>8. IsFiniteSet(Places(b))
  BY DEF Inv, Counted
<1>9. Places(b) \cap Q = Q
  BY <1>6
<1> HIDE DEF Q, P
<1>10. /\ IsFiniteSet(Places(b) \ Q)
       /\ Cardinality(Places(b) \ Q) = Cardinality(Places(b)) - Cardinality(Places(b) \cap Q)
  BY <1>8, FS_Difference
<1> QED BY <1>5, <1>7, <1>9, <1>10 DEF P

-----------------------------------------------------------------------------
(* Building and dropping a grammar                                         *)

\* A grammar that is built is at no name fetch has yet to visit.
LEMMA NotFetching ==
  ASSUME Inv, NEW g \in Grammars, Building(g), Len(held[g]) + 1 \in DOMAIN Layout
  PROVE  at[g] = NotFetched
<1>1. at[g] \in {Len(Layout), NotFetched}
  BY DEF Building, Idle
<1>2. Len(held[g]) # Len(Layout)
  BY LayoutFacts
<1> QED BY <1>1, <1>2, LayoutFacts DEF Inv, VisitedInterned, NotFetched

\* What fetch has visited is held.
LEMMA VisitedHeld ==
  ASSUME Inv, NEW g \in Grammars, at[g] # NotFetched, NEW k \in 1..at[g]
  PROVE  k \in DOMAIN held[g]
<1>1. at[g] \in 0..NotFetched /\ held[g] \in Seq(Addresses)
  BY DEF Inv, TypeOK
<1>2. Len(held[g]) = Len(Layout)
  BY DEF Inv, VisitedInterned
<1> QED BY <1>1, <1>2, LayoutFacts DEF NotFetched

\* The parts of the invariant that do not look at the strings, when a name is added.
LEMMA HeldAppended ==
  ASSUME Inv, NEW g \in Grammars, NEW a \in Addresses,
         Len(held[g]) + 1 \in DOMAIN Layout,
         held' = [held EXCEPT ![g] = Append(@, a)]
  PROVE  /\ held' \in [Grammars -> Seq(Addresses)] /\ Fits'
         /\ \A h \in Grammars : h # g => held'[h] = held[h]
<1>1. held \in [Grammars -> Seq(Addresses)] /\ held[g] \in Seq(Addresses)
  BY DEF Inv, TypeOK
<1>2. held' \in [Grammars -> Seq(Addresses)]
  BY <1>1
<1>3. Len(held'[g]) = Len(held[g]) + 1
  BY <1>1
<1>4. \A h \in Grammars : h # g => held'[h] = held[h]
  BY <1>1
<1>5. Fits'
  <2> SUFFICES ASSUME NEW h \in Grammars PROVE Len(held'[h]) <= Len(Layout)
    BY DEF Fits
  <2>1. CASE h = g
    BY <1>3, <2>1, LayoutFacts
  <2>2. CASE h # g
    BY <1>4, <2>2 DEF Inv, Fits
  <2> QED BY <2>1, <2>2
<1> QED BY <1>2, <1>4, <1>5

LEMMA NewNameKeeps ==
  ASSUME Inv, NEW g \in Grammars, NEW n \in Names, NEW literal \in BOOLEAN,
         NewName(g, n, literal)
  PROVE  Inv'
<1>1. PICK a \in Unused(strings) :
        /\ strings' = [strings EXCEPT ![a] = [name |-> n, refs |-> 1, interned |-> literal]]
        /\ Holds(g, a, n)
  BY DEF NewName
<1> DEFINE k == Len(held[g]) + 1
<1>2. /\ k \in DOMAIN Layout
      /\ held' = [held EXCEPT ![g] = Append(@, a)] /\ at' = at
  BY <1>1 DEF Holds
<1>3. a \in Addresses /\ Places(a) = {} /\ ~ strings[a].interned
  BY UnusedNowhere
<1>4. strings \in [Addresses -> [name : Names, refs : Nat, interned : BOOLEAN]]
  BY DEF Inv, TypeOK
<1>5. strings' \in [Addresses -> [name : Names, refs : Nat, interned : BOOLEAN]]
  BY <1>1, <1>3, <1>4
<1>6. /\ strings'[a].name = n /\ strings'[a].refs = 1 /\ strings'[a].interned = literal
      /\ \A b \in Addresses : b # a => strings'[b] = strings[b]
  BY <1>1, <1>3, <1>4
<1>7. /\ held' \in [Grammars -> Seq(Addresses)] /\ Fits'
      /\ \A h \in Grammars : h # g => held'[h] = held[h]
  BY <1>2, <1>3, HeldAppended
<1>8. TypeOK'
  BY <1>2, <1>5, <1>7 DEF Inv, TypeOK, NotFetched
<1>9. Counted'
  <2> SUFFICES ASSUME NEW b \in Addresses
               PROVE  IsFiniteSet(Places(b)') /\ strings'[b].refs = Cardinality(Places(b)')
    BY DEF Counted
  <2>1. Places(b)' = IF b = a THEN Places(b) \cup {<<g, k>>} ELSE Places(b)
    BY <1>2, <1>3, PlaceAdded
  <2>2. CASE b = a
    <3>1. Places(b)' = {<<g, k>>}
      BY <1>3, <2>1, <2>2
    <3> QED BY <1>6, <2>2, <3>1, FS_Singleton
  <2>3. CASE b # a
    BY <1>6, <2>1, <2>3 DEF Inv, Counted
  <2> QED BY <2>2, <2>3
<1>10. OnePerName'
  <2> SUFFICES ASSUME NEW b \in Addresses, NEW c \in Addresses,
                      strings'[b].interned, strings'[c].interned,
                      strings'[b].name = strings'[c].name, b # c
               PROVE  FALSE
    BY DEF OnePerName
  <2>1. literal => Interned(strings, n) = {}
    BY DEF NewName
  <2>2. CASE b # a /\ c # a
    BY <1>6, <2>2 DEF Inv, OnePerName
  <2>3. CASE b = a
    BY <1>6, <2>1, <2>3 DEF Interned
  <2>4. CASE c = a
    BY <1>6, <2>1, <2>4 DEF Interned
  <2> QED BY <2>2, <2>3, <2>4
<1>11. VisitedInterned'
  <2> SUFFICES ASSUME NEW h \in Grammars, at[h] # NotFetched
               PROVE  /\ Len(held'[h]) = Len(Layout)
                      /\ \A l \in 1..at[h] : strings'[held'[h][l]].interned
    BY <1>2 DEF VisitedInterned, NotFetched
  <2>1. h # g
    BY <1>2, NotFetching DEF NewName
  <2>2. held'[h] = held[h] /\ Len(held[h]) = Len(Layout)
    BY <1>7, <2>1 DEF Inv, VisitedInterned
  <2>3. ASSUME NEW l \in 1..at[h] PROVE strings'[held[h][l]].interned
    <3>1. l \in DOMAIN held[h]
      BY VisitedHeld
    <3>2. held[h][l] \in Addresses /\ held[h][l] # a
      BY <3>1, HeldAt
    <3> QED BY <1>6, <3>2 DEF Inv, VisitedInterned
  <2> QED BY <2>2, <2>3
<1> QED BY <1>7, <1>8, <1>9, <1>10, <1>11 DEF Inv

LEMMA ShareNameKeeps ==
  ASSUME Inv, NEW g \in Grammars, NEW a \in Addresses, ShareName(g, a)
  PROVE  Inv'
<1> PICK k : k = Len(held[g]) + 1
  OBVIOUS
<1>1. /\ k \in DOMAIN Layout /\ k = Len(held[g]) + 1
      /\ held' = [held EXCEPT ![g] = Append(@, a)] /\ at' = at
  BY DEF ShareName, Holds
<1>2. strings \in [Addresses -> [name : Names, refs : Nat, interned : BOOLEAN]]
  BY DEF Inv, TypeOK
<1>3. strings' = [strings EXCEPT ![a].refs = @ + 1]
  BY DEF ShareName
<1>4. strings' \in [Addresses -> [name : Names, refs : Nat, interned : BOOLEAN]]
  BY <1>2, <1>3
<1>5. /\ strings'[a].refs = strings[a].refs + 1
      /\ \A b \in Addresses : /\ strings'[b].name = strings[b].name
                              /\ strings'[b].interned = strings[b].interned
                              /\ b # a => strings'[b].refs = strings[b].refs
  BY <1>2, <1>3
<1>6. /\ held' \in [Grammars -> Seq(Addresses)] /\ Fits'
      /\ \A h \in Grammars : h # g => held'[h] = held[h]
  BY <1>1, HeldAppended
<1>7. TypeOK'
  BY <1>1, <1>4, <1>6 DEF Inv, TypeOK, NotFetched
<1>8. Counted'
  <2> SUFFICES ASSUME NEW b \in Addresses
               PROVE  IsFiniteSet(Places(b)') /\ strings'[b].refs = Cardinality(Places(b)')
    BY DEF Counted
  <2>1. /\ <<g, k>> \notin Places(b)
        /\ Places(b)' = IF b = a THEN Places(b) \cup {<<g, k>>} ELSE Places(b)
    BY <1>1, PlaceAdded
  <2>2. IsFiniteSet(Places(b)) /\ strings[b].refs = Cardinality(Places(b))
    BY DEF Inv, Counted
  <2>3. CASE b = a
    <3>1. /\ IsFiniteSet(Places(b) \cup {<<g, k>>})
          /\ Cardinality(Places(b) \cup {<<g, k>>}) = Cardinality(Places(b)) + 1
      BY <2>1, <2>2, FS_AddElement
    <3> QED BY <1>5, <2>1, <2>2, <2>3, <3>1
  <2>4. CASE b # a
    BY <1>5, <2>1, <2>2, <2>4
  <2> QED BY <2>3, <2>4
<1>9. OnePerName'
  BY <1>5 DEF Inv, OnePerName
<1>10. VisitedInterned'
  <2> SUFFICES ASSUME NEW h \in Grammars, at[h] # NotFetched
               PROVE  /\ Len(held'[h]) = Len(Layout)
                      /\ \A l \in 1..at[h] : strings'[held'[h][l]].interned
    BY <1>1 DEF VisitedInterned, NotFetched
  <2>1. h # g
    BY <1>1, NotFetching DEF ShareName
  <2>2. held'[h] = held[h] /\ Len(held[h]) = Len(Layout)
    BY <1>6, <2>1 DEF Inv, VisitedInterned
  <2>3. ASSUME NEW l \in 1..at[h] PROVE strings'[held[h][l]].interned
    <3>1. l \in DOMAIN held[h]
      BY VisitedHeld
    <3>2. held[h][l] \in Addresses
      BY <3>1, HeldAt
    <3> QED BY <1>5, <3>2 DEF Inv, VisitedInterned
  <2> QED BY <2>2, <2>3
<1> QED BY <1>6, <1>7, <1>8, <1>9, <1>10 DEF Inv

LEMMA DropKeeps ==
  ASSUME Inv, NEW g \in Grammars, Drop(g)
  PROVE  Inv'
<1>1. /\ held' = [held EXCEPT ![g] = << >>]
      /\ at' = [at EXCEPT ![g] = NotFetched]
      /\ strings' = [a \in Addresses |->
                       [strings[a] EXCEPT !.refs = @ - Cardinality(Positions(g, a))]]
  BY DEF Drop
<1>2. /\ strings \in [Addresses -> [name : Names, refs : Nat, interned : BOOLEAN]]
      /\ held \in [Grammars -> Seq(Addresses)] /\ at \in [Grammars -> 0..NotFetched]
  BY DEF Inv, TypeOK
<1>3. /\ at'[g] = NotFetched /\ NotFetched \in 0..NotFetched /\ Len(held'[g]) = 0
      /\ \A h \in Grammars : h # g => held'[h] = held[h] /\ at'[h] = at[h]
  BY <1>1, <1>2, LayoutFacts DEF NotFetched
<1>4. \A b \in Addresses :
        /\ strings'[b].name = strings[b].name /\ strings'[b].interned = strings[b].interned
        /\ strings'[b].refs = strings[b].refs - Cardinality(Positions(g, b))
        /\ strings'[b] = [name |-> strings[b].name, interned |-> strings[b].interned,
                          refs |-> strings[b].refs - Cardinality(Positions(g, b))]
  BY <1>1, <1>2
<1>5. ASSUME NEW b \in Addresses
      PROVE  /\ IsFiniteSet(Places(b)') /\ strings'[b].refs = Cardinality(Places(b)')
             /\ strings'[b].refs \in Nat
  <2>1. IsFiniteSet(Places(b)) /\ strings[b].refs = Cardinality(Places(b))
    BY DEF Inv, Counted
  <2>2. /\ IsFiniteSet(Places(b)')
        /\ Cardinality(Places(b)') = Cardinality(Places(b)) - Cardinality(Positions(g, b))
    BY <1>1, PlacesDropped
  <2>3. Cardinality(Places(b)') \in Nat
    BY <2>2, FS_CardinalityType
  <2> QED BY <1>4, <2>1, <2>2, <2>3
<1>6. strings' \in [Addresses -> [name : Names, refs : Nat, interned : BOOLEAN]]
  <2>1. ASSUME NEW b \in Addresses
        PROVE  strings'[b] \in [name : Names, refs : Nat, interned : BOOLEAN]
    <3>1. strings[b].name \in Names /\ strings[b].interned \in BOOLEAN
      BY <1>2
    <3>2. strings[b].refs - Cardinality(Positions(g, b)) \in Nat
      BY <1>4, <1>5
    <3>3. strings'[b] = [name |-> strings[b].name, interned |-> strings[b].interned,
                         refs |-> strings[b].refs - Cardinality(Positions(g, b))]
      BY <1>4
    <3> QED BY ONLY <3>1, <3>2, <3>3
  <2> QED BY <1>1, <2>1
<1>7. held' \in [Grammars -> Seq(Addresses)] /\ at' \in [Grammars -> 0..NotFetched]
  BY <1>1, <1>2, <1>3
<1>8. TypeOK'
  BY <1>6, <1>7 DEF TypeOK, NotFetched
<1>9. Fits'
  <2> SUFFICES ASSUME NEW h \in Grammars PROVE Len(held'[h]) <= Len(Layout)
    BY DEF Fits
  <2>1. CASE h = g
    BY <1>3, <2>1, LayoutFacts
  <2>2. CASE h # g
    BY <1>3, <2>2 DEF Inv, Fits
  <2> QED BY <2>1, <2>2
<1>10. Counted'
  BY <1>5 DEF Counted
<1>11. OnePerName'
  BY <1>4 DEF Inv, OnePerName
<1>12. VisitedInterned'
  <2> SUFFICES ASSUME NEW h \in Grammars, at'[h] # NotFetched
               PROVE  /\ Len(held'[h]) = Len(Layout)
                      /\ \A l \in 1..at'[h] : strings'[held'[h][l]].interned
    BY DEF VisitedInterned, NotFetched
  <2>1. h # g
    BY <1>3
  <2>2. /\ held'[h] = held[h] /\ at'[h] = at[h]
        /\ Len(held[h]) = Len(Layout)
    BY <1>3, <2>1 DEF Inv, VisitedInterned
  <2>3. ASSUME NEW l \in 1..at[h] PROVE strings'[held[h][l]].interned
    <3>1. l \in DOMAIN held[h]
      BY <2>2, VisitedHeld
    <3>2. held[h][l] \in Addresses
      BY <3>1, HeldAt
    <3> QED BY <1>4, <2>2, <3>2 DEF Inv, VisitedInterned
  <2> QED BY <2>2, <2>3
<1> QED BY <1>8, <1>9, <1>10, <1>11, <1>12 DEF Inv

-----------------------------------------------------------------------------
(* fetch                                                                   *)

LEMMA FetchKeeps ==
  ASSUME Inv, NEW g \in Grammars, Fetch(g)
  PROVE  Inv'
<1>1. /\ at' = [at EXCEPT ![g] = 0] /\ strings' = strings /\ held' = held
      /\ Len(held[g]) = Len(Layout)
  BY DEF Fetch
<1>2. at \in [Grammars -> 0..NotFetched]
  BY DEF Inv, TypeOK
<1>3. at'[g] = 0 /\ \A h \in Grammars : h # g => at'[h] = at[h]
  BY <1>1, <1>2
<1>4. TypeOK'
  BY <1>1, <1>2, LayoutFacts DEF Inv, TypeOK, NotFetched
<1>5. Fits' /\ OnePerName'
  BY <1>1 DEF Inv, Fits, OnePerName
<1>6. Counted'
  BY <1>1 DEF Inv, Counted, Places, Positions
<1>7. VisitedInterned'
  <2> SUFFICES ASSUME NEW h \in Grammars, at'[h] # NotFetched
               PROVE  /\ Len(held[h]) = Len(Layout)
                      /\ \A l \in 1..at'[h] : strings[held[h][l]].interned
    BY <1>1 DEF VisitedInterned, NotFetched
  <2>1. CASE h = g
    BY <1>1, <1>3, <2>1
  <2>2. CASE h # g
    BY <1>3, <2>2 DEF Inv, VisitedInterned
  <2> QED BY <2>1, <2>2
<1> QED BY <1>4, <1>5, <1>6, <1>7 DEF Inv

\* A grammar that fetch is visiting has the name it is about to visit.
LEMMA VisitingHolds ==
  ASSUME Inv, NEW g \in Grammars, at[g] < Len(Layout)
  PROVE  /\ at[g] \in Nat /\ at[g] + 1 \in DOMAIN held[g]
         /\ at[g] # NotFetched /\ at[g] + 1 # NotFetched /\ at[g] + 1 \in 0..NotFetched
         /\ Len(held[g]) = Len(Layout)
<1>1. at[g] \in 0..NotFetched /\ held[g] \in Seq(Addresses)
  BY DEF Inv, TypeOK
<1>2. at[g] # NotFetched
  BY <1>1, LayoutFacts DEF NotFetched
<1>3. Len(held[g]) = Len(Layout)
  BY <1>2 DEF Inv, VisitedInterned
<1> QED BY <1>1, <1>2, <1>3, LayoutFacts DEF NotFetched

\* What zend_new_interned_string may return: the interned string of the name, or,
\* if there is none, the string or a copy.
LEMMA TargetFacts ==
  ASSUME Inv, NEW a \in Addresses, ~ strings[a].interned, strings[a].refs > 0,
         NEW b \in Targets(strings, a)
  PROVE  /\ b \in Addresses
         /\ strings[b].interned => b # a /\ strings[b].name = strings[a].name
         /\ ~ strings[b].interned =>
              /\ Interned(strings, strings[a].name) = {}
              /\ b # a => b \in Unused(strings)
<1> DEFINE canonical == Interned(strings, strings[a].name)
<1>1. CASE canonical # {}
  BY <1>1 DEF Targets, Interned
<1>2. CASE canonical = {} /\ strings[a].refs = 1
  BY <1>2 DEF Targets
<1>3. CASE canonical = {} /\ strings[a].refs # 1
  BY <1>3, UnusedNowhere DEF Targets
<1> QED BY <1>1, <1>2, <1>3

\* What interning does to the strings, by field.
LEMMA ReplacedFacts ==
  ASSUME Inv, NEW a \in Addresses, NEW b \in Addresses, ~ strings[a].interned,
         strings[a].refs \in Nat, strings[a].refs > 0,
         strings' = Replaced(strings, a, b)
  PROVE  /\ strings' \in [Addresses -> [name : Names, refs : Nat, interned : BOOLEAN]]
         /\ strings'[b].interned /\ strings'[b].name = strings[a].name
         /\ b = a => strings'[b].refs = strings[b].refs
         /\ b # a =>
              /\ strings'[b].refs = IF strings[b].interned THEN strings[b].refs + 1 ELSE 1
              /\ strings'[a].refs = strings[a].refs - 1
              /\ ~ strings'[a].interned
         /\ \A c \in Addresses : c # a /\ c # b => strings'[c] = strings[c]
<1>1. strings \in [Addresses -> [name : Names, refs : Nat, interned : BOOLEAN]]
  BY DEF Inv, TypeOK
<1>2. \A c \in Addresses : c # a /\ c # b => strings'[c] = strings[c]
  BY DEF Replaced
<1>3. CASE b = a
  <2>1. strings'[a] = [strings[a] EXCEPT !.interned = TRUE]
    BY <1>3 DEF Replaced
  <2>2. /\ strings'[a].interned /\ strings'[a].name = strings[a].name
        /\ strings'[a].refs = strings[a].refs
        /\ strings'[a] \in [name : Names, refs : Nat, interned : BOOLEAN]
    BY <1>1, <2>1
  <2>3. \A c \in Addresses : strings'[c] \in [name : Names, refs : Nat, interned : BOOLEAN]
    BY <1>1, <1>2, <1>3, <2>2
  <2> QED BY <1>2, <1>3, <2>2, <2>3 DEF Replaced
<1>4. CASE b # a
  <2> DEFINE r == IF strings[b].interned THEN strings[b].refs + 1 ELSE 1
  <2>1. /\ strings'[b] = [strings[a] EXCEPT !.interned = TRUE, !.refs = r]
        /\ strings'[a] = [strings[a] EXCEPT !.refs = @ - 1]
    BY <1>4 DEF Replaced
  <2>2. r \in Nat
    BY <1>1
  <2> HIDE DEF r
  <2>3. /\ strings'[b].interned /\ strings'[b].name = strings[a].name
        /\ strings'[b].refs = r
        /\ strings'[b] \in [name : Names, refs : Nat, interned : BOOLEAN]
    BY <1>1, <2>1, <2>2
  <2>4. /\ strings'[a].refs = strings[a].refs - 1 /\ ~ strings'[a].interned
        /\ strings'[a] \in [name : Names, refs : Nat, interned : BOOLEAN]
    BY <1>1, <2>1
  <2>5. \A c \in Addresses : strings'[c] \in [name : Names, refs : Nat, interned : BOOLEAN]
    BY <1>1, <1>2, <2>3, <2>4
  <2> QED BY <1>2, <1>4, <2>3, <2>4, <2>5 DEF Replaced, r
<1> QED BY <1>3, <1>4

LEMMA InternKeeps ==
  ASSUME Inv, NEW g \in Grammars, at[g] < Len(Layout), Intern(g), Visited(g)
  PROVE  Inv'
<1>0. PICK k : k = at[g] + 1
  OBVIOUS
<1>a. PICK a : a = held[g][k]
  OBVIOUS
<1>1. /\ at[g] \in Nat /\ k \in DOMAIN held[g] /\ Len(held[g]) = Len(Layout)
      /\ at[g] # NotFetched /\ k # NotFetched /\ k \in 0..NotFetched
  BY <1>0, VisitingHolds
<1>2. a \in Addresses /\ strings[a].refs \in Nat /\ strings[a].refs > 0
  BY <1>a, <1>1, HeldAt
<1>3. ~ strings[a].interned
  BY <1>0, <1>a DEF Intern
<1>4. PICK b \in Targets(strings, a) :
        strings' = Replaced(strings, a, b) /\ held' = [held EXCEPT ![g][k] = b]
  BY <1>0, <1>a DEF Intern
<1>5. /\ b \in Addresses
      /\ strings[b].interned => b # a /\ strings[b].name = strings[a].name
      /\ ~ strings[b].interned =>
           /\ Interned(strings, strings[a].name) = {}
           /\ b # a => b \in Unused(strings)
  BY <1>2, <1>3, TargetFacts
<1>6. /\ strings' \in [Addresses -> [name : Names, refs : Nat, interned : BOOLEAN]]
      /\ strings'[b].interned /\ strings'[b].name = strings[a].name
      /\ b = a => strings'[b].refs = strings[b].refs
      /\ b # a =>
           /\ strings'[b].refs = IF strings[b].interned THEN strings[b].refs + 1 ELSE 1
           /\ strings'[a].refs = strings[a].refs - 1
           /\ ~ strings'[a].interned
      /\ \A c \in Addresses : c # a /\ c # b => strings'[c] = strings[c]
  BY <1>2, <1>3, <1>4, <1>5, ReplacedFacts
<1>7. /\ held \in [Grammars -> Seq(Addresses)] /\ held[g] \in Seq(Addresses)
      /\ at \in [Grammars -> 0..NotFetched]
  BY DEF Inv, TypeOK
<1>8. /\ held' \in [Grammars -> Seq(Addresses)]
      /\ held'[g][k] = b /\ Len(held'[g]) = Len(held[g]) /\ DOMAIN held'[g] = DOMAIN held[g]
      /\ \A l \in DOMAIN held[g] : l # k => held'[g][l] = held[g][l]
      /\ \A h \in Grammars : h # g => held'[h] = held[h]
  <2>1. [held[g] EXCEPT ![k] = b] \in Seq(Addresses)
    BY <1>1, <1>5, <1>7, ExceptSeq
  <2>2. held' = [held EXCEPT ![g] = [held[g] EXCEPT ![k] = b]]
    BY <1>4, <1>7
  <2> QED BY <1>1, <1>7, <2>1, <2>2
<1>9. /\ at' \in [Grammars -> 0..NotFetched] /\ at'[g] = k
      /\ \A h \in Grammars : h # g => at'[h] = at[h]
  BY <1>0, <1>1, <1>7 DEF Visited
<1>10. TypeOK'
  BY <1>6, <1>8, <1>9 DEF TypeOK, NotFetched
<1>11. Fits'
  <2> SUFFICES ASSUME NEW h \in Grammars PROVE Len(held'[h]) <= Len(Layout)
    BY DEF Fits
  <2>1. CASE h = g
    BY <1>1, <1>8, <2>1, LayoutFacts
  <2>2. CASE h # g
    BY <1>8, <2>2 DEF Inv, Fits
  <2> QED BY <2>1, <2>2
<1>12. Counted'
  <2> SUFFICES ASSUME NEW c \in Addresses
               PROVE  IsFiniteSet(Places(c)') /\ strings'[c].refs = Cardinality(Places(c)')
    BY DEF Counted
  <2>1. Places(c)' = IF c = b THEN Places(c) \cup {<<g, k>>}
                     ELSE IF c = a THEN Places(c) \ {<<g, k>>} ELSE Places(c)
    BY <1>a, <1>1, <1>2, <1>5, <1>8, PlaceMoved
  <2>2. IsFiniteSet(Places(c)) /\ strings[c].refs = Cardinality(Places(c))
    BY DEF Inv, Counted
  <2>3. <<g, k>> \in Places(c) <=> c = a
    <3>1. k \in DOMAIN Layout
      BY <1>1, HeldAt
    <3> QED BY <1>a, <1>1, <3>1 DEF Places, Positions
  <2>4. CASE c = b /\ c = a
    <3>1. Places(c)' = Places(c)
      BY <2>1, <2>3, <2>4
    <3> QED BY <1>6, <2>2, <2>4, <3>1
  <2>5. CASE c = b /\ c # a
    <3>1. /\ IsFiniteSet(Places(c) \cup {<<g, k>>})
          /\ Cardinality(Places(c) \cup {<<g, k>>}) = Cardinality(Places(c)) + 1
      BY <2>2, <2>3, <2>5, FS_AddElement
    <3>2. ~ strings[c].interned => strings[c].refs = 0
      BY <1>5, <2>5 DEF Unused
    <3> QED BY <1>6, <2>1, <2>2, <2>5, <3>1, <3>2
  <2>6. CASE c # b /\ c = a
    <3>1. /\ IsFiniteSet(Places(c) \ {<<g, k>>})
          /\ Cardinality(Places(c) \ {<<g, k>>}) = Cardinality(Places(c)) - 1
      BY <2>2, <2>3, <2>6, FS_RemoveElement
    <3> QED BY <1>6, <2>1, <2>2, <2>6, <3>1
  <2>7. CASE c # b /\ c # a
    BY <1>6, <2>1, <2>2, <2>7
  <2> QED BY <2>4, <2>5, <2>6, <2>7
<1>13. OnePerName'
  <2> SUFFICES ASSUME NEW c \in Addresses, NEW d \in Addresses,
                      strings'[c].interned, strings'[d].interned,
                      strings'[c].name = strings'[d].name, c # d
               PROVE  FALSE
    BY DEF OnePerName
  <2>1. c # b => c # a /\ strings'[c] = strings[c]
    BY <1>6
  <2>2. d # b => d # a /\ strings'[d] = strings[d]
    BY <1>6
  <2>3. ASSUME NEW e \in Addresses, e # b, strings[e].interned,
               strings[e].name = strings[a].name
        PROVE  FALSE
    BY <1>5, <2>3 DEF Inv, OnePerName, Interned
  <2>4. CASE c = b
    BY <1>6, <2>2, <2>3, <2>4
  <2>5. CASE d = b
    BY <1>6, <2>1, <2>3, <2>5
  <2>6. CASE c # b /\ d # b
    BY <2>1, <2>2, <2>6 DEF Inv, OnePerName
  <2> QED BY <2>4, <2>5, <2>6
<1>14. VisitedInterned'
  <2>1. \A c \in Addresses : strings[c].interned => strings'[c].interned
    BY <1>3, <1>6
  <2> SUFFICES ASSUME NEW h \in Grammars, at'[h] # NotFetched
               PROVE  /\ Len(held'[h]) = Len(Layout)
                      /\ \A l \in 1..at'[h] : strings'[held'[h][l]].interned
    BY DEF VisitedInterned, NotFetched
  <2>2. CASE h = g
    <3>1. ASSUME NEW l \in 1..at'[g] PROVE strings'[held'[g][l]].interned
      <4>1. CASE l = k
        BY <1>6, <1>8, <4>1
      <4>2. CASE l # k
        <5>1. l \in 1..at[g]
          BY <1>0, <1>1, <1>9, <4>2
        <5>2. l \in DOMAIN held[g]
          BY <1>1, <5>1, VisitedHeld
        <5>3. held'[g][l] = held[g][l] /\ held[g][l] \in Addresses
          BY <1>8, <4>2, <5>2, HeldAt
        <5>4. strings[held[g][l]].interned
          BY <1>1, <5>1 DEF Inv, VisitedInterned
        <5> QED BY <2>1, <5>3, <5>4
      <4> QED BY <4>1, <4>2
    <3> QED BY <1>1, <1>8, <2>2, <3>1
  <2>3. CASE h # g
    <3>1. held'[h] = held[h] /\ at'[h] = at[h] /\ Len(held[h]) = Len(Layout)
      BY <1>8, <1>9, <2>3 DEF Inv, VisitedInterned
    <3>2. ASSUME NEW l \in 1..at[h] PROVE strings'[held[h][l]].interned
      <4>1. l \in DOMAIN held[h]
        BY <3>1, VisitedHeld
      <4>2. held[h][l] \in Addresses
        BY <4>1, HeldAt
      <4> QED BY <2>1, <3>1, <4>2 DEF Inv, VisitedInterned
    <3> QED BY <3>1, <3>2
  <2> QED BY <2>2, <2>3
<1> QED BY <1>10, <1>11, <1>12, <1>13, <1>14 DEF Inv

LEMMA KeepKeeps ==
  ASSUME Inv, NEW g \in Grammars, at[g] < Len(Layout), Keep(g), Visited(g)
  PROVE  Inv'
<1>1. /\ at[g] \in Nat /\ at[g] + 1 \in DOMAIN held[g]
      /\ at[g] # NotFetched /\ at[g] + 1 \in 0..NotFetched
      /\ Len(held[g]) = Len(Layout)
  BY VisitingHolds
<1>2. /\ strings' = strings /\ held' = held /\ strings[held[g][at[g] + 1]].interned
      /\ at' = [at EXCEPT ![g] = @ + 1] /\ at \in [Grammars -> 0..NotFetched]
  BY DEF Keep, Visited, Inv, TypeOK
<1>3. /\ at' \in [Grammars -> 0..NotFetched] /\ at'[g] = at[g] + 1
      /\ \A h \in Grammars : h # g => at'[h] = at[h]
  BY <1>1, <1>2
<1>4. TypeOK'
  BY <1>2, <1>3 DEF Inv, TypeOK, NotFetched
<1>5. Fits' /\ OnePerName'
  BY <1>2 DEF Inv, Fits, OnePerName
<1>6. Counted'
  BY <1>2 DEF Inv, Counted, Places, Positions
<1>7. VisitedInterned'
  <2> SUFFICES ASSUME NEW h \in Grammars, at'[h] # NotFetched
               PROVE  /\ Len(held[h]) = Len(Layout)
                      /\ \A l \in 1..at'[h] : strings[held[h][l]].interned
    BY <1>2 DEF VisitedInterned, NotFetched
  <2>1. CASE h = g
    <3>1. ASSUME NEW l \in 1..(at[g] + 1) PROVE strings[held[g][l]].interned
      <4>1. CASE l = at[g] + 1
        BY <1>2, <4>1
      <4>2. CASE l # at[g] + 1
        <5>1. l \in 1..at[g]
          BY <1>1, <4>2
        <5> QED BY <1>1, <5>1 DEF Inv, VisitedInterned
      <4> QED BY <4>1, <4>2
    <3> QED BY <1>1, <1>3, <2>1, <3>1
  <2>2. CASE h # g
    BY <1>3, <2>2 DEF Inv, VisitedInterned
  <2> QED BY <2>1, <2>2
<1> QED BY <1>4, <1>5, <1>6, <1>7 DEF Inv

-----------------------------------------------------------------------------
(* The invariant                                                           *)

LEMMA InvInit == Init => Inv
<1> SUFFICES ASSUME Init PROVE Inv
  OBVIOUS
<1>1. PICK n \in Names :
        strings = [a \in Addresses |-> [name |-> n, refs |-> 0, interned |-> FALSE]]
  BY DEF Init
<1>2. held = [g \in Grammars |-> << >>] /\ at = [g \in Grammars |-> NotFetched]
  BY DEF Init
<1>3. NotFetched \in 0..NotFetched
  BY LayoutFacts DEF NotFetched
<1>4. TypeOK
  BY <1>1, <1>2, <1>3 DEF TypeOK
<1>5. Fits
  BY <1>2, LayoutFacts DEF Fits
<1>6. Counted
  <2> SUFFICES ASSUME NEW a \in Addresses
               PROVE  IsFiniteSet(Places(a)) /\ strings[a].refs = Cardinality(Places(a))
    BY DEF Counted
  <2>1. Places(a) = {}
    BY <1>2 DEF Places, Positions
  <2> QED BY <1>1, <2>1, FS_EmptySet
<1>7. OnePerName
  BY <1>1 DEF OnePerName
<1>8. VisitedInterned
  BY <1>2 DEF VisitedInterned
<1> QED BY <1>4, <1>5, <1>6, <1>7, <1>8 DEF Inv

LEMMA InvNext == Inv /\ [Next]_vars => Inv'
<1> SUFFICES ASSUME Inv, [Next]_vars PROVE Inv'
  OBVIOUS
<1>1. CASE UNCHANGED vars
  BY <1>1 DEF vars, Inv, TypeOK, Fits, Counted, OnePerName, VisitedInterned, NotFetched,
              Places, Positions
<1>2. ASSUME NEW g \in Grammars, NEW n \in Names, NEW literal \in BOOLEAN,
             NewName(g, n, literal)
      PROVE  Inv'
  BY <1>2, NewNameKeeps
<1>3. ASSUME NEW g \in Grammars, NEW a \in Addresses, ShareName(g, a) PROVE Inv'
  BY <1>3, ShareNameKeeps
<1>4. ASSUME NEW g \in Grammars, Drop(g) PROVE Inv'
  BY <1>4, DropKeeps
<1>5. ASSUME NEW g \in Grammars, Fetch(g) PROVE Inv'
  BY <1>5, FetchKeeps
<1>6. ASSUME NEW g \in Grammars, at[g] < Len(Layout), Intern(g) \/ Keep(g), Visited(g)
      PROVE  Inv'
  BY <1>6, InternKeeps, KeepKeeps
<1>7. ASSUME NEW g \in Grammars, FetchStart(g) PROVE Inv'
  BY <1>6, <1>7 DEF FetchStart, Visiting
<1>8. ASSUME NEW g \in Grammars, FetchKey(g) PROVE Inv'
  BY <1>6, <1>8 DEF FetchKey, Visiting
<1>9. ASSUME NEW g \in Grammars, FetchSymbol(g) PROVE Inv'
  BY <1>6, <1>9 DEF FetchSymbol, Visiting
<1> QED BY <1>1, <1>2, <1>3, <1>4, <1>5, <1>7, <1>8, <1>9 DEF Next

\* All the names of a fetched grammar are interned, and there is one interned
\* string of each name.
LEMMA InvCanonical ==
  ASSUME Inv
  PROVE  NamesCanonical
<1> SUFFICES ASSUME NEW g \in {f \in Grammars : at[f] = Len(Layout)},
                    NEW h \in {f \in Grammars : at[f] = Len(Layout)},
                    NEW k \in DOMAIN Layout, NEW l \in DOMAIN Layout
             PROVE  (held[g][k] = held[h][l])
                      <=> (strings[held[g][k]].name = strings[held[h][l]].name)
  BY DEF NamesCanonical
<1>1. at[g] # NotFetched /\ at[h] # NotFetched /\ k \in 1..at[g] /\ l \in 1..at[h]
  BY LayoutFacts DEF NotFetched
<1>2. strings[held[g][k]].interned /\ strings[held[h][l]].interned
  BY <1>1 DEF Inv, VisitedInterned
<1>3. k \in DOMAIN held[g] /\ l \in DOMAIN held[h]
  BY <1>1, VisitedHeld
<1>4. held[g][k] \in Addresses /\ held[h][l] \in Addresses
  BY <1>3, HeldAt
<1> QED BY <1>2, <1>4 DEF Inv, OnePerName

\* Whatever is built, shared, fetched and dropped in whatever order, the names of
\* fetched grammars are equal exactly when their addresses are (grammar_fetch and
\* zend_new_interned_string), and each string has a reference for every place that
\* holds it: none is leaked, none is freed early.
THEOREM InterningCorrect == Spec => []InterningInvariant
<1>1. Inv => InterningInvariant
  <2> SUFFICES ASSUME Inv PROVE InterningInvariant
    OBVIOUS
  <2>1. NamesCounted
    BY DEF Inv, Counted, NamesCounted, Places
  <2> QED BY <2>1, InvCanonical DEF InterningInvariant, Inv
<1> QED BY <1>1, InvInit, InvNext, PTL DEF Spec
=============================================================================
