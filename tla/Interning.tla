------------------------------ MODULE Interning ------------------------------
(***************************************************************************)
(* The names of a grammar (src/grammar.h).  The charts compare names by    *)
(* their address, so fetch replaces every name of a grammar by the         *)
(* interned string that spells it.  A string is modelled by its address;   *)
(* userland builds the grammars, from names it has computed and from       *)
(* literals, and drops them.                                               *)
(***************************************************************************)
EXTENDS Naturals, Sequences, FiniteSets

CONSTANTS
  Grammars,    \* the grammar objects
  Names,       \* what a name can spell
  Addresses,   \* where a string can be
  Layout       \* the names of a grammar in the order fetch visits them

ASSUME InterningAssumption ==
  /\ IsFiniteSet(Addresses) /\ IsFiniteSet(Names)
  /\ Layout \in Seq({"start", "key", "symbol"})

VARIABLES
  strings,   \* by address: what it spells, its references, whether it is interned
  held,      \* by grammar: the addresses of its names, while it is built and after
  at         \* by grammar: the names fetch has visited, or NotFetched

vars == <<strings, held, at>>

NotFetched == Len(Layout) + 1

\* Every name of a grammar is at an address.
TypeOK ==
  /\ strings \in [Addresses -> [name : Names, refs : Nat, interned : BOOLEAN]]
  /\ held \in [Grammars -> Seq(Addresses)]
  /\ at \in [Grammars -> 0..NotFetched]

Unused(memory)  == {a \in Addresses : memory[a].refs = 0 /\ ~ memory[a].interned}
Interned(memory, n) == {a \in Addresses : memory[a].interned /\ memory[a].name = n}

\* The names of a grammar that are at an address.
Positions(g, a) == {k \in DOMAIN held[g] : held[g][k] = a}

\* A bound: userland leaves an address for every name still to be interned.
Room == Cardinality(Unused(strings))
          > Cardinality({n \in Names : Interned(strings, n) = {}})

Init ==
  /\ \E n \in Names :
       strings = [a \in Addresses |-> [name |-> n, refs |-> 0, interned |-> FALSE]]
  /\ held = [g \in Grammars |-> << >>]
  /\ at = [g \in Grammars |-> NotFetched]

Idle == \A g \in Grammars : at[g] \in {Len(Layout), NotFetched}

\* A bound: userland builds one grammar after the other.
Building(g) ==
  /\ Idle
  /\ \A h \in Grammars \ {g} : Len(held[h]) \in {0, Len(Layout)}

-----------------------------------------------------------------------------
(* Userland                                                                *)

\* The next name of a grammar is at an address; the keys of its rules differ.
Holds(g, a, n) ==
  LET k == Len(held[g]) + 1
  IN  /\ k \in DOMAIN Layout
      /\ Layout[k] = "key" =>
           \A j \in 1..(k - 1) : Layout[j] = "key" => strings[held[g][j]].name # n
      /\ held' = [held EXCEPT ![g] = Append(@, a)]
      /\ UNCHANGED at

NewName(g, n, literal) ==
  /\ Building(g) /\ Room
  /\ literal => Interned(strings, n) = {}
  /\ \E a \in Unused(strings) :
       /\ strings' = [strings EXCEPT ![a] =
                        [name |-> n, refs |-> 1, interned |-> literal]]
       /\ Holds(g, a, n)

ShareName(g, a) ==
  /\ Building(g) /\ a \notin Unused(strings)
  /\ strings' = [strings EXCEPT ![a].refs = @ + 1]
  /\ Holds(g, a, strings[a].name)

Drop(g) ==
  /\ Building(g) /\ held[g] # << >>
  /\ strings' = [a \in Addresses |->
                   [strings[a] EXCEPT !.refs = @ - Cardinality(Positions(g, a))]]
  /\ held' = [held EXCEPT ![g] = << >>]
  /\ at' = [at EXCEPT ![g] = NotFetched]

-----------------------------------------------------------------------------
(* zend_new_interned_string: the interned string of that name; if there is none, *)
(* the string itself, or a copy where it is shared.  The caller gives its        *)
(* reference to the string and has one to the result.                            *)

Targets(memory, a) ==
  LET canonical == Interned(memory, memory[a].name)
  IN  CASE canonical # {}        -> canonical
        [] canonical = {} /\ memory[a].refs = 1 -> {a}
        [] canonical = {} /\ memory[a].refs # 1 -> Unused(memory)

Replaced(memory, a, b) ==
  [c \in Addresses |->
     CASE c = b /\ c = a -> [memory[a] EXCEPT !.interned = TRUE]
       [] c = b /\ c # a -> [memory[a] EXCEPT !.interned = TRUE,
                               !.refs = IF memory[b].interned THEN memory[b].refs + 1 ELSE 1]
       [] c = a /\ c # b -> [memory[a] EXCEPT !.refs = @ - 1]
       [] OTHER          -> memory[c]]

-----------------------------------------------------------------------------
(* fetch                                                                   *)

Fetch(g) ==
  /\ Idle /\ Len(held[g]) = Len(Layout)
  /\ at' = [at EXCEPT ![g] = 0]
  /\ UNCHANGED <<strings, held>>

Visiting(g, kind) == at[g] < Len(Layout) /\ Layout[at[g] + 1] = kind

Visited(g) == at' = [at EXCEPT ![g] = @ + 1]

Intern(g) ==
  LET k == at[g] + 1
      a == held[g][k]
  IN  /\ ~ strings[a].interned
      /\ \E b \in Targets(strings, a) :
           /\ strings' = Replaced(strings, a, b)
           /\ held' = [held EXCEPT ![g][k] = b]

Keep(g) == strings[held[g][at[g] + 1]].interned /\ UNCHANGED <<strings, held>>

FetchStart(g) == Visiting(g, "start") /\ (Intern(g) \/ Keep(g)) /\ Visited(g)

\* Mutant of FetchKey: only the names of symbols are interned.
FetchKeyAsIs(g) == Visiting(g, "key") /\ UNCHANGED <<strings, held>> /\ Visited(g)

FetchKey(g) == Visiting(g, "key") /\ (Intern(g) \/ Keep(g)) /\ Visited(g)

FetchSymbol(g) == Visiting(g, "symbol") /\ (Intern(g) \/ Keep(g)) /\ Visited(g)

-----------------------------------------------------------------------------

Next ==
  \E g \in Grammars :
    \/ \E n \in Names, literal \in BOOLEAN : NewName(g, n, literal)
    \/ \E a \in Addresses : ShareName(g, a)
    \/ Drop(g)
    \/ Fetch(g) \/ FetchStart(g) \/ FetchKey(g) \/ FetchSymbol(g)

Spec == Init /\ [][Next]_vars

-----------------------------------------------------------------------------
(* Properties                                                              *)

\* What the keys of the charts rest on: among the names of all grammars that have
\* been fetched, two spell the same exactly where they are at the same address,
\* whatever userland shares with whom, and whether it was built before or after
\* another grammar was fetched.
NamesCanonical ==
  \A g, h \in {f \in Grammars : at[f] = Len(Layout)} :
    \A k, l \in DOMAIN Layout :
      (held[g][k] = held[h][l]) <=> (strings[held[g][k]].name = strings[held[h][l]].name)

\* Replacing a name neither leaks nor frees a string: every string is referenced
\* as often as grammars hold it.
NamesCounted ==
  \A a \in Addresses :
    strings[a].refs =
      Cardinality({gk \in Grammars \X DOMAIN Layout : gk[2] \in Positions(gk[1], a)})

\* Interning makes the names of all fetched grammars comparable by address, and
\* in doing so keeps every string exactly as long as a grammar holds it.
InterningInvariant == TypeOK /\ NamesCanonical /\ NamesCounted
=============================================================================
