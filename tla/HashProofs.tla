------------------------------ MODULE HashProofs ------------------------------
(***************************************************************************)
(* What is proved of Hash, for every set of keys, hashes and sizes.        *)
(***************************************************************************)
EXTENDS Hash, SequenceTheorems, FunctionTheorems, FiniteSetTheorems, TLAPS

(***************************************************************************)
(* The inductive invariant.                                                *)
(***************************************************************************)

Calls == pc # "idle"

\* Every key in use has a hash.
KeysOK ==
  /\ \A n \in 1..entries.used : EntryAt(n).key \in DOMAIN hashOf
  /\ Calls => call \in Entry /\ call.key \in DOMAIN hashOf

\* There is room: the entries stay within the limit of the buckets, and below
\* it once buckets_extend has been called for the one that is to be inserted.
SizesOK ==
  /\ buckets.size > 1 /\ entries.size > 0
  /\ entries.used <= buckets.limit
  /\ pc \in {"reindex", "entries", "select"} => entries.used < buckets.limit
  /\ pc = "reindex" => position \in 1..(entries.used + 1)

\* In a list the key of an entry is the number of entries before it.
ListOK ==
  use.as = "list" =>
    /\ \A n \in 1..entries.used : EntryAt(n).key = Index(n - 1)
    /\ Calls => call.key = Index(entries.used)

\* A loop over a snapshot reads entries that were filled when it began.
SnapshotOK ==
  /\ use.as = "map" => snapshot.snap = 0
  /\ snapshot.data = entries.data => snapshot.snap <= entries.used

Inv == TypeOK /\ HashInvariant /\ KeysOK /\ SizesOK /\ ListOK /\ SnapshotOK

-----------------------------------------------------------------------------
(* Sizes, offsets and searches                                             *)

\* Seven tenths of a size are something, less than all, and less than seven
\* tenths of twice the size.
LEMMA LimitBounds ==
  ASSUME NEW s \in Nat, s > 1
  PROVE  /\ Limit(s) \in Nat /\ Limit(s) > 0
         /\ Limit(s) < s
         /\ Limit(s) < Limit(2 * s)
BY DEF Limit

\* A search stays within the buckets.
LEMMA OffsetInRange ==
  ASSUME NEW k, hashOf[k] \in Nat, buckets.size \in Nat, buckets.size > 1,
         NEW d \in Nat
  PROVE  Offset(k, d) \in Offsets
<1> DEFINE h == hashOf[k] + d
<1>1. h \in Nat
  OBVIOUS
<1> HIDE DEF h
<1>2. h % buckets.size \in 0..(buckets.size - 1)
  BY <1>1
<1> QED BY <1>2 DEF Offset, Offsets, h

\* What the invariant says of the records of the table.
LEMMA Typed ==
  ASSUME Inv
  PROVE  /\ use \in Uses /\ use.as \in {"list", "map"}
         /\ arrays \in Seq(Seq(Entry \cup {Unset}))
         /\ entries \in [data : DOMAIN arrays, used : Nat, size : Nat]
         /\ arrays[entries.data] \in Seq(Entry \cup {Unset})
         /\ DOMAIN arrays[entries.data] = 1..entries.size
         /\ buckets \in [data : [Offsets -> Nat], used : Nat, size : Nat, limit : Nat]
         /\ position \in Nat /\ Indexed \in Nat
         /\ \A k \in DOMAIN hashOf : k \in Keys /\ hashOf[k] \in Nat
<1>1. TypeOK
  BY DEF Inv
<1>2. entries \in [data : DOMAIN arrays, used : Nat, size : Nat]
  BY <1>1 DEF TypeOK
<1>3. arrays[entries.data] \in Seq(Entry \cup {Unset})
  BY <1>1, <1>2, ElementOfSeq, LenProperties DEF TypeOK
<1>4. DOMAIN arrays[entries.data] = 1..entries.size
  BY <1>1, <1>3, LenProperties DEF TypeOK
<1>5. \A k \in DOMAIN hashOf : k \in Keys /\ hashOf[k] \in Nat
  BY <1>1, HashAssumption DEF TypeOK, hashOf
<1>6. Indexed \in Nat
  BY <1>1 DEF TypeOK, Indexed, Inv, SizesOK
<1> QED BY <1>1, <1>2, <1>3, <1>4, <1>5, <1>6, HashAssumption DEF TypeOK

\* A search that ends at a bucket in use has found its key.
LEMMA SearchHit ==
  ASSUME NEW k, NEW o, Selects(k, o), buckets.data[o] # Empty
  PROVE  EntryAt(buckets.data[o]).key = k
BY DEF Selects, Stops, Hit

\* A search that ends at an empty bucket was for a key no indexed entry has.
LEMMA SearchMiss ==
  ASSUME Inv, NEW k, NEW o, Selects(k, o), buckets.data[o] = Empty,
         NEW n \in 1..Indexed
  PROVE  EntryAt(n).key # k
<1> SUFFICES ASSUME EntryAt(n).key = k PROVE FALSE
  OBVIOUS
<1>1. buckets.size \in Nat /\ Indexed \in Nat
  BY Typed
<1>2. PICK d \in 0..(buckets.size - 1) :
        o = Offset(k, d) /\ \A e \in 0..(d - 1) : ~ Stops(k, Offset(k, e))
  BY DEF Selects
<1>3. PICK f \in 0..(buckets.size - 1) :
        /\ buckets.data[Offset(k, f)] = n
        /\ \A e \in 0..(f - 1) : buckets.data[Offset(k, e)] # Empty
  BY DEF Inv, HashInvariant, ProbesUnbroken, Offsets
<1>4. n # Empty
  BY <1>1 DEF Empty
<1>5. CASE d < f
  BY <1>1, <1>2, <1>3, <1>5
<1>6. CASE d = f
  BY <1>2, <1>3, <1>4, <1>6
<1>7. CASE f < d
  <2>1. ~ Stops(k, Offset(k, f))
    BY <1>1, <1>2, <1>7
  <2>2. Hit(k, Offset(k, f))
    BY <1>3, <1>4 DEF Hit
  <2> QED BY <2>1, <2>2 DEF Stops
<1> QED BY <1>1, <1>5, <1>6, <1>7

\* Giving the next entry the empty bucket the search for its key ended at keeps
\* the buckets in agreement with the entries.
LEMMA IndexNext ==
  ASSUME Inv, NEW k \in DOMAIN hashOf, NEW o \in Offsets,
         Selects(k, o), buckets.data[o] = Empty,
         buckets' = [buckets EXCEPT !.data[o] = Indexed + 1, !.used = @ + 1],
         UNCHANGED use, Indexed' = Indexed + 1,
         \A n \in 1..Indexed : EntryAt(n)'.key = EntryAt(n).key,
         \A n : n = Indexed + 1 => EntryAt(n)'.key = k
  PROVE  /\ buckets' \in [data : [Offsets' -> Nat], used : Nat, size : Nat, limit : Nat]
         /\ buckets'.size = buckets.size /\ buckets'.limit = buckets.limit
         /\ BucketsOK' /\ ProbesUnbroken'
<1>1. /\ buckets \in [data : [Offsets -> Nat], used : Nat, size : Nat, limit : Nat]
      /\ buckets.size > 1 /\ Indexed \in Nat
      /\ \A m \in DOMAIN hashOf : hashOf[m] \in Nat
  BY Typed DEF Inv, SizesOK
<1>2. /\ buckets'.size = buckets.size /\ buckets'.limit = buckets.limit
      /\ buckets'.used = buckets.used + 1
      /\ buckets'.data = [buckets.data EXCEPT ![o] = Indexed + 1]
      /\ Offsets' = Offsets
      /\ buckets' \in [data : [Offsets -> Nat], used : Nat, size : Nat, limit : Nat]
  <2> DEFINE new == [buckets.data EXCEPT ![o] = Indexed + 1]
  <2>1. new \in [Offsets -> Nat]
    BY <1>1
  <2>2. buckets' = [data |-> new, used |-> buckets.used + 1,
                    size |-> buckets.size, limit |-> buckets.limit]
    BY <1>1
  <2> HIDE DEF new
  <2>3. buckets' \in [data : [Offsets -> Nat], used : Nat, size : Nat, limit : Nat]
    BY <1>1, <2>1, <2>2
  <2> USE DEF new
  <2> QED BY <2>2, <2>3 DEF Offsets
<1>3. /\ \A p \in Offsets : p # o => buckets'.data[p] = buckets.data[p]
      /\ buckets'.data[o] = Indexed + 1
  BY <1>1, <1>2
<1>4. BucketsOK'
  <2>1. BucketsOK
    BY DEF Inv, HashInvariant
  <2>2. \A p \in Offsets : buckets'.data[p] \in 0..(Indexed + 1)
    BY <1>1, <1>3, <2>1 DEF BucketsOK
  <2>3. \A n \in 1..(Indexed + 1) : \E p \in Offsets : buckets'.data[p] = n
    <3> SUFFICES ASSUME NEW n \in 1..(Indexed + 1)
                 PROVE  \E p \in Offsets : buckets'.data[p] = n
      OBVIOUS
    <3>1. CASE n = Indexed + 1
      BY <1>3, <3>1
    <3>2. CASE n \in 1..Indexed
      BY <1>1, <1>3, <2>1, <3>2 DEF BucketsOK, Empty
    <3> QED BY <1>1, <3>1, <3>2
  <2>4. \A p, q \in Offsets :
          p # q /\ buckets'.data[p] # Empty => buckets'.data[p] # buckets'.data[q]
    <3>1. \A p \in Offsets : buckets.data[p] # Indexed + 1
      BY <1>1, <2>1 DEF BucketsOK
    <3> QED BY <1>3, <2>1, <3>1 DEF BucketsOK
  <2> QED BY <1>1, <1>2, <2>1, <2>2, <2>3, <2>4 DEF BucketsOK
<1>5. \A m, d : Offset(m, d)' = Offset(m, d)
  BY <1>2 DEF Offset, hashOf
<1>6. \A p \in Offsets : buckets.data[p] # Empty => buckets'.data[p] # Empty
  BY <1>1, <1>3 DEF Empty
<1>7. ProbesUnbroken'
  <2> SUFFICES ASSUME NEW n \in 1..(Indexed + 1)
               PROVE  \E d \in Offsets :
                        /\ buckets'.data[Offset(EntryAt(n)'.key, d)] = n
                        /\ \A e \in 0..(d - 1) :
                             buckets'.data[Offset(EntryAt(n)'.key, e)] # Empty
    BY <1>2, <1>5 DEF ProbesUnbroken
  <2>1. CASE n = Indexed + 1
    <3>1. PICK d \in 0..(buckets.size - 1) :
            o = Offset(k, d) /\ \A e \in 0..(d - 1) : ~ Stops(k, Offset(k, e))
      BY DEF Selects
    <3>2. \A e \in 0..(d - 1) : buckets'.data[Offset(k, e)] # Empty
      BY <1>1, <1>6, <3>1, OffsetInRange DEF Stops
    <3> QED BY <1>3, <2>1, <3>1, <3>2 DEF Offsets
  <2>2. CASE n \in 1..Indexed
    <3> DEFINE m == EntryAt(n).key
    <3>1. PICK d \in Offsets :
            /\ buckets.data[Offset(m, d)] = n
            /\ \A e \in 0..(d - 1) : buckets.data[Offset(m, e)] # Empty
      BY <2>2 DEF Inv, HashInvariant, ProbesUnbroken
    <3>2. m \in DOMAIN hashOf
      <4>1. Indexed <= entries.used
        BY Typed DEF Indexed, Inv, SizesOK
      <4> QED BY <1>1, <2>2, <4>1, Typed DEF Inv, KeysOK
    <3>3. \A e \in 0..d : Offset(m, e) \in Offsets
      BY <1>1, <3>2, OffsetInRange DEF Offsets
    <3>4. buckets'.data[Offset(m, d)] = n
      BY <1>1, <1>3, <2>2, <3>1, <3>3 DEF Empty, Offsets
    <3>5. \A e \in 0..(d - 1) : buckets'.data[Offset(m, e)] # Empty
      BY <1>1, <1>6, <3>1, <3>3 DEF Offsets
    <3>6. EntryAt(n)'.key = m
      BY <2>2
    <3> HIDE DEF m
    <3> QED BY <3>4, <3>5, <3>6
  <2> QED BY <1>1, <2>1, <2>2
<1> QED BY <1>2, <1>4, <1>7

-----------------------------------------------------------------------------
(* The invariant                                                           *)

\* New buckets are empty, and none of them is any entry's.
LEMMA FreshBuckets ==
  ASSUME NEW s \in Nat, s > 1, buckets' = NewBuckets(s), Indexed' = 0
  PROVE  /\ buckets' \in [data : [Offsets' -> Nat], used : Nat, size : Nat, limit : Nat]
         /\ buckets'.size = s /\ buckets'.limit = Limit(s)
         /\ BucketsOK' /\ ProbesUnbroken'
<1>1. Limit(s) \in Nat
  BY LimitBounds
<1>2. /\ buckets'.data = [o \in 0..(s - 1) |-> Empty]
      /\ buckets'.used = 0 /\ buckets'.size = s /\ buckets'.limit = Limit(s)
      /\ Offsets' = 0..(s - 1)
  BY DEF NewBuckets, Offsets
<1>3. buckets' \in [data : [Offsets' -> Nat], used : Nat, size : Nat, limit : Nat]
  BY <1>1, <1>2 DEF NewBuckets, Empty
<1>4. BucketsOK'
  BY <1>2 DEF BucketsOK, Empty
<1>5. ProbesUnbroken'
  BY DEF ProbesUnbroken
<1> QED BY <1>2, <1>3, <1>4, <1>5

LEMMA InitInv == Init => Inv
<1> SUFFICES ASSUME Init PROVE Inv
  OBVIOUS
<1>1. MinSize \in Nat /\ MinSize > 1
  BY HashAssumption
<1>2. NewArray(MinSize) \in Seq({Unset}) /\ Len(NewArray(MinSize)) = MinSize
  <2>1. NewArray(MinSize) \in [1..MinSize -> {Unset}]
    BY DEF NewArray
  <2> QED BY <1>1, <2>1, SeqDef, LenProperties
<1>3. NewArray(MinSize) \in Seq(Entry \cup {Unset})
  BY <1>2, SeqMonotonic
<1>4. /\ arrays \in Seq(Seq(Entry \cup {Unset}))
      /\ DOMAIN arrays = {1} /\ arrays[1] = NewArray(MinSize)
  BY <1>3 DEF Init
<1>5. Limit(MinSize) \in Nat /\ Limit(MinSize) > 0
  BY <1>1, LimitBounds
<1>6. /\ buckets.data = [o \in 0..(MinSize - 1) |-> Empty]
      /\ buckets.used = 0 /\ buckets.size = MinSize /\ buckets.limit = Limit(MinSize)
      /\ Offsets = 0..(MinSize - 1)
      /\ buckets \in [data : [Offsets -> Nat], used : Nat, size : Nat, limit : Nat]
  BY <1>5, <1>1 DEF Init, NewBuckets, Offsets, Empty
<1>7. entries = [data |-> 1, used |-> 0, size |-> MinSize] /\ pc = "idle"
  BY DEF Init
<1>8. TypeOK
  BY <1>1, <1>2, <1>4, <1>6, <1>7 DEF Init, TypeOK, Unset
<1>9. EntriesOK /\ BucketsOK /\ ProbesUnbroken
  BY <1>1, <1>6, <1>7 DEF EntriesOK, BucketsOK, ProbesUnbroken, Indexed, Empty
<1>10. KeysOK /\ SizesOK /\ ListOK
  BY <1>1, <1>5, <1>6, <1>7 DEF KeysOK, SizesOK, ListOK, Calls
<1>11. SnapshotOK
  BY <1>7 DEF Init, SnapshotOK
<1> QED BY <1>8, <1>9, <1>10, <1>11 DEF Inv, HashInvariant

\* A step that leaves the table alone leaves what is known of it.
LEMMA SameTable ==
  ASSUME Inv, UNCHANGED <<use, arrays, entries, buckets>>, Indexed' = Indexed
  PROVE  /\ BucketsOK' /\ ProbesUnbroken'
         /\ Offsets' = Offsets
         /\ \A n : EntryAt(n)' = EntryAt(n)
<1>1. \A n : EntryAt(n)' = EntryAt(n)
  BY DEF EntryAt
<1>2. \A k, d : Offset(k, d)' = Offset(k, d)
  BY DEF Offset, hashOf
<1>3. Offsets' = Offsets
  BY DEF Offsets
<1> QED BY <1>1, <1>2, <1>3 DEF Inv, HashInvariant, BucketsOK, ProbesUnbroken

\* A call begins.
LEMMA EnterInv ==
  ASSUME Inv, NEW k \in DOMAIN hashOf, NEW v \in Values, Enter(k, v),
         use.as = "list" => k = Index(entries.used)
  PROVE  Inv'
<1>1. /\ UNCHANGED <<use, arrays, entries, buckets, position, snapshot, visited, result>>
      /\ pc = "idle" /\ pc' = "buckets" /\ call' = [key |-> k, value |-> v]
  BY DEF Enter, Loops
<1>2. Indexed' = Indexed
  BY <1>1 DEF Indexed
<1>3. call' \in Entry /\ call'.key = k
  BY <1>1, Typed DEF Entry
<1>4. TypeOK'
  BY <1>1, <1>3 DEF Inv, TypeOK, Offsets
<1>5. HashInvariant'
  BY <1>1, <1>2, SameTable DEF Inv, HashInvariant, EntriesOK
<1>6. KeysOK'
  BY <1>1, <1>2, <1>3, SameTable DEF Inv, KeysOK, Calls, hashOf
<1>7. SizesOK' /\ SnapshotOK'
  BY <1>1 DEF Inv, SizesOK, SnapshotOK
<1>8. ListOK'
  BY <1>1, <1>2, <1>3, SameTable DEF Inv, ListOK, Calls
<1> QED BY <1>4, <1>5, <1>6, <1>7, <1>8 DEF Inv

\* A slot call moves on without touching the table.
LEMMA MoveOnInv ==
  ASSUME Inv, KeepBuckets \/ Reindexed \/ KeepEntries
  PROVE  Inv'
<1>1. /\ UNCHANGED <<use, arrays, entries, buckets, call, position, result>>
      /\ UNCHANGED <<snapshot, visited>>
      /\ pc # "idle" /\ pc' \in {"entries", "select"}
      /\ pc = "buckets" => entries.used < buckets.limit
      /\ pc = "reindex" => position > entries.used
      /\ pc' = "select" => entries.used < entries.size
  BY Typed DEF KeepBuckets, Reindexed, KeepEntries, Loops, Inv, HashInvariant,
       BucketsOK, Indexed
<1>2. Indexed' = Indexed
  BY <1>1, Typed DEF Indexed, Inv, SizesOK
<1>3. TypeOK'
  BY <1>1 DEF Inv, TypeOK, Offsets
<1>4. HashInvariant'
  BY <1>1, <1>2, SameTable DEF Inv, HashInvariant, EntriesOK
<1>5. KeysOK'
  BY <1>1, <1>2, SameTable DEF Inv, KeysOK, Calls, hashOf
<1>6. SizesOK'
  BY <1>1 DEF Inv, SizesOK, TypeOK
<1>7. ListOK'
  BY <1>1, <1>2, SameTable DEF Inv, ListOK, Calls
<1>8. SnapshotOK'
  BY <1>1 DEF Inv, SnapshotOK
<1> QED BY <1>3, <1>4, <1>5, <1>6, <1>7, <1>8 DEF Inv

LEMMA ExtendBucketsInv == ASSUME Inv, ExtendBuckets PROVE Inv'
<1>1. /\ UNCHANGED <<use, arrays, entries, call, result, snapshot, visited>>
      /\ pc = "buckets" /\ pc' = "reindex" /\ position' = 1
      /\ buckets' = NewBuckets(2 * buckets.size)
  BY DEF ExtendBuckets, Loops
<1>2. 2 * buckets.size \in Nat /\ 2 * buckets.size > 1 /\ Indexed' = 0
  BY <1>1, Typed DEF Inv, SizesOK, Indexed
<1>3. /\ buckets' \in [data : [Offsets' -> Nat], used : Nat, size : Nat, limit : Nat]
      /\ buckets'.size = 2 * buckets.size /\ buckets'.limit = Limit(2 * buckets.size)
      /\ BucketsOK' /\ ProbesUnbroken'
  BY <1>1, <1>2, FreshBuckets
<1>4. entries.used < buckets'.limit
  BY <1>3, Typed, LimitBounds DEF Inv, SizesOK, HashInvariant, BucketsOK
<1>5. \A n : EntryAt(n)' = EntryAt(n)
  BY <1>1 DEF EntryAt
<1>6. TypeOK'
  BY <1>1, <1>3 DEF Inv, TypeOK
<1>7. HashInvariant'
  BY <1>1, <1>3, <1>5 DEF Inv, HashInvariant, EntriesOK
<1>8. KeysOK'
  BY <1>1, <1>5 DEF Inv, KeysOK, Calls, hashOf
<1>9. SizesOK'
  BY <1>1, <1>2, <1>3, <1>4, Typed DEF Inv, SizesOK
<1>10. ListOK'
  BY <1>1, <1>5 DEF Inv, ListOK, Calls
<1>11. SnapshotOK'
  BY <1>1 DEF Inv, SnapshotOK
<1> QED BY <1>6, <1>7, <1>8, <1>9, <1>10, <1>11 DEF Inv

\* The next entry gets a bucket of its own in the larger table.
LEMMA ReindexInv == ASSUME Inv, Reindex PROVE Inv'
<1> DEFINE k == EntryAt(position).key
<1>1. /\ UNCHANGED <<use, arrays, entries, call, result, snapshot, visited, pc>>
      /\ pc = "reindex" /\ position' = position + 1 /\ position <= entries.used
  BY DEF Reindex, Loops
<1>2. PICK o \in Offsets :
        /\ Selects(k, o)
        /\ buckets' = [buckets EXCEPT !.data[o] = position, !.used = @ + 1]
  BY DEF Reindex
<1>3. /\ position \in 1..entries.used /\ Indexed = position - 1
      /\ position = Indexed + 1 /\ Indexed' = Indexed + 1
  BY <1>1, Typed DEF Inv, SizesOK, Indexed
<1>4. k \in DOMAIN hashOf
  BY <1>3 DEF Inv, KeysOK
<1>5. buckets.data[o] = Empty
  <2> SUFFICES ASSUME buckets.data[o] # Empty PROVE FALSE
    OBVIOUS
  <2>1. buckets.data[o] \in 1..Indexed
    BY <1>3, Typed DEF Inv, HashInvariant, BucketsOK, Empty
  <2>2. EntryAt(buckets.data[o]).key = k
    BY <1>2, SearchHit
  <2>3. buckets.data[o] \in 1..entries.used /\ buckets.data[o] # position
    BY <1>3, <2>1, Typed
  <2>4. EntryAt(buckets.data[o]).key # EntryAt(position).key
    BY <1>3, <2>3 DEF Inv, HashInvariant, EntriesOK
  <2> QED BY <2>2, <2>4
<1>6. \A n : EntryAt(n)' = EntryAt(n)
  BY <1>1 DEF EntryAt
<1>7. \A n : n = Indexed + 1 => EntryAt(n)'.key = k
  BY <1>3, <1>6
<1> HIDE DEF k
<1>8. /\ buckets' \in [data : [Offsets' -> Nat], used : Nat, size : Nat, limit : Nat]
      /\ buckets'.size = buckets.size /\ buckets'.limit = buckets.limit
      /\ BucketsOK' /\ ProbesUnbroken'
  BY <1>1, <1>2, <1>3, <1>4, <1>5, <1>6, <1>7, IndexNext
<1>9. TypeOK'
  <2>1. position' \in Nat
    BY <1>1, Typed
  <2> QED BY <1>1, <1>8, <2>1 DEF Inv, TypeOK
<1>10. HashInvariant'
  BY <1>1, <1>6, <1>8 DEF Inv, HashInvariant, EntriesOK
<1>11. KeysOK'
  BY <1>1, <1>6 DEF Inv, KeysOK, Calls, hashOf
<1>12. SizesOK'
  BY <1>1, <1>3, <1>8, Typed DEF Inv, SizesOK
<1>13. ListOK'
  BY <1>1, <1>6 DEF Inv, ListOK, Calls
<1>14. SnapshotOK'
  BY <1>1 DEF Inv, SnapshotOK
<1> QED BY <1>9, <1>10, <1>11, <1>12, <1>13, <1>14 DEF Inv

\* The entries move to an array of twice the size; the one they were in stays.
LEMMA ExtendedEntries ==
  ASSUME Inv, ExtendEntries
  PROVE  /\ arrays' \in Seq(Seq(Entry \cup {Unset}))
         /\ entries' \in [data : DOMAIN arrays', used : Nat, size : Nat]
         /\ entries'.used = entries.used /\ entries'.size = 2 * entries.size
         /\ entries'.data \notin DOMAIN arrays
         /\ Len(arrays'[entries'.data]) = entries'.size
         /\ DOMAIN arrays \subseteq DOMAIN arrays'
         /\ \A a \in DOMAIN arrays : arrays'[a] = arrays[a]
         /\ \A n \in 1..entries.used : EntryAt(n)' = EntryAt(n)
<1> DEFINE new == [n \in 1..(2 * entries.size) |->
                     IF n <= entries.used THEN EntryAt(n) ELSE Unset]
<1>1. /\ arrays' = Append(arrays, new)
      /\ entries' = [entries EXCEPT !.data = Len(arrays) + 1, !.size = 2 * @]
  BY DEF ExtendEntries
<1>2. /\ entries.used \in Nat /\ entries.size \in Nat /\ 2 * entries.size \in Nat
      /\ entries.used <= entries.size
  BY Typed DEF Inv, HashInvariant, EntriesOK
<1>3. new \in Seq(Entry \cup {Unset}) /\ Len(new) = 2 * entries.size
  <2>1. \A n \in 1..(2 * entries.size) : new[n] \in Entry \cup {Unset}
    BY <1>2 DEF Inv, HashInvariant, EntriesOK
  <2>2. new \in [1..(2 * entries.size) -> Entry \cup {Unset}]
    BY <2>1
  <2> HIDE DEF new
  <2>3. new \in Seq(Entry \cup {Unset})
    BY <1>2, <2>2, SeqDef
  <2> QED BY <1>2, <2>2, <2>3, LenProperties
<1>4. \A n \in 1..entries.used : new[n] = EntryAt(n)
  BY <1>2
<1> HIDE DEF new
<1>5. /\ arrays' \in Seq(Seq(Entry \cup {Unset}))
      /\ DOMAIN arrays = 1..Len(arrays) /\ DOMAIN arrays' = 1..(Len(arrays) + 1)
      /\ Len(arrays) \in Nat
      /\ \A a \in DOMAIN arrays : arrays'[a] = arrays[a]
      /\ arrays'[Len(arrays) + 1] = new
  BY <1>1, <1>3, Typed, AppendProperties, LenProperties
<1>6. /\ entries'.data = Len(arrays) + 1 /\ entries'.used = entries.used
      /\ entries'.size = 2 * entries.size
      /\ entries' \in [data : DOMAIN arrays', used : Nat, size : Nat]
  <2>1. entries' = [data |-> Len(arrays) + 1, used |-> entries.used,
                    size |-> 2 * entries.size]
    BY <1>1, <1>2, Typed
  <2>2. Len(arrays) + 1 \in DOMAIN arrays'
    BY <1>5
  <2> QED BY <1>2, <2>1, <2>2
<1>7. \A n \in 1..entries.used : EntryAt(n)' = EntryAt(n)
  BY <1>4, <1>5, <1>6 DEF EntryAt
<1> QED BY <1>3, <1>5, <1>6, <1>7

LEMMA ExtendEntriesInv == ASSUME Inv, ExtendEntries PROVE Inv'
<1>1. /\ UNCHANGED <<use, buckets, call, position, result, snapshot, visited>>
      /\ pc = "entries" /\ pc' = "select"
  BY DEF ExtendEntries, Loops
<1>2. /\ Indexed = entries.used /\ Indexed' = entries.used
      /\ entries'.used = entries.used /\ entries.used \in Nat
      /\ entries'.size = 2 * entries.size /\ entries.size \in Nat
      /\ entries.size > 0 /\ entries.used <= entries.size
      /\ \A n \in 1..entries.used : EntryAt(n)' = EntryAt(n)
  BY <1>1, ExtendedEntries, Typed DEF Indexed, Inv, SizesOK, HashInvariant, EntriesOK
<1>3. TypeOK'
  <2>1. snapshot' \in [data : DOMAIN arrays', snap : Nat, at : Nat]
    BY <1>1, ExtendedEntries DEF Inv, TypeOK
  <2>2. snapshot'.snap <= Len(arrays'[snapshot'.data])
    BY <1>1, ExtendedEntries DEF Inv, TypeOK
  <2>3. Offsets' = Offsets
    BY <1>1 DEF Offsets
  <2> QED BY <1>1, <2>1, <2>2, <2>3, ExtendedEntries DEF Inv, TypeOK
<1>4. EntriesOK'
  BY <1>2 DEF Inv, HashInvariant, EntriesOK
<1>5. BucketsOK'
  BY <1>1, <1>2 DEF Inv, HashInvariant, BucketsOK, Offsets
<1>6. ProbesUnbroken'
  BY <1>1, <1>2 DEF Inv, HashInvariant, ProbesUnbroken, Offsets, Offset, hashOf
<1>7. KeysOK'
  BY <1>1, <1>2 DEF Inv, KeysOK, Calls, hashOf
<1>8. SizesOK'
  BY <1>1, <1>2 DEF Inv, SizesOK
<1>9. ListOK'
  BY <1>1, <1>2 DEF Inv, ListOK, Calls
<1>10. SnapshotOK'
  BY <1>1, ExtendedEntries DEF Inv, SnapshotOK, TypeOK
<1> QED BY <1>3, <1>4, <1>5, <1>6, <1>7, <1>8, <1>9, <1>10 DEF Inv, HashInvariant

\* A call that ends at an empty bucket finds its key in no entry, and adds one.
LEMMA InsertedEntry ==
  ASSUME Inv, Insert
  PROVE  /\ \A n \in 1..entries.used : EntryAt(n).key # call.key
         /\ arrays' \in Seq(Seq(Entry \cup {Unset}))
         /\ DOMAIN arrays' = DOMAIN arrays
         /\ \A a \in DOMAIN arrays : Len(arrays'[a]) = Len(arrays[a])
         /\ \A a \in DOMAIN arrays : \A n \in 1..Len(arrays[a]) :
              a # entries.data \/ n # entries.used + 1 => arrays'[a][n] = arrays[a][n]
         /\ entries' \in [data : DOMAIN arrays, used : Nat, size : Nat]
         /\ entries'.data = entries.data /\ entries'.size = entries.size
         /\ entries'.used = entries.used + 1
         /\ \A n \in 1..entries.used : EntryAt(n)' = EntryAt(n)
         /\ \A n : n = entries.used + 1 => EntryAt(n)' = call
<1> DEFINE a  == entries.data
           m  == entries.used + 1
           row == [arrays[a] EXCEPT ![m] = call]
<1>1. /\ arrays' = [arrays EXCEPT ![a] = row]
      /\ entries' = [entries EXCEPT !.used = @ + 1]
      /\ pc = "select"
  BY DEF Insert
<1>2. /\ a \in DOMAIN arrays /\ arrays[a] \in Seq(Entry \cup {Unset})
      /\ Len(arrays[a]) = entries.size /\ m \in 1..Len(arrays[a])
      /\ entries.used \in Nat /\ entries.size \in Nat /\ entries.used < entries.size
      /\ DOMAIN arrays = 1..Len(arrays) /\ Len(arrays) \in Nat
      /\ arrays \in Seq(Seq(Entry \cup {Unset}))
    <2>1. Len(arrays[a]) = entries.size
      BY DEF Inv, TypeOK
    <2>2. DOMAIN arrays = 1..Len(arrays) /\ Len(arrays) \in Nat
      BY Typed, LenProperties
    <2> QED BY <1>1, <2>1, <2>2, Typed DEF Inv, HashInvariant, EntriesOK
<1>3. call \in Entry \cup {Unset}
  BY DEF Inv, TypeOK
<1>4. \A n \in 1..entries.used : EntryAt(n).key # call.key
  BY <1>1, SearchMiss DEF Insert, Indexed
<1>5. /\ row \in Seq(Entry \cup {Unset}) /\ Len(row) = Len(arrays[a])
      /\ row[m] = call
      /\ \A n \in 1..Len(arrays[a]) : n # m => row[n] = arrays[a][n]
  BY <1>2, <1>3, ExceptSeq
<1> HIDE DEF row
<1>6. /\ arrays' \in Seq(Seq(Entry \cup {Unset})) /\ Len(arrays') = Len(arrays)
      /\ \A b \in DOMAIN arrays : arrays'[b] = IF b = a THEN row ELSE arrays[b]
  BY ONLY <1>1, <1>2, <1>5, ExceptSeq, SMTT(30)
<1>7. DOMAIN arrays' = DOMAIN arrays
  BY <1>1
<1>8. /\ entries'.data = a /\ entries'.size = entries.size /\ entries'.used = m
      /\ entries' \in [data : DOMAIN arrays, used : Nat, size : Nat]
  <2>1. entries' = [data |-> a, used |-> m, size |-> entries.size]
    BY <1>1, <1>2, Typed
  <2> QED BY <1>2, <2>1
<1>9. \A n : EntryAt(n)' = row[n]
  BY <1>2, <1>6, <1>8 DEF EntryAt
<1>10. ASSUME NEW n \in 1..entries.used PROVE EntryAt(n)' = EntryAt(n)
  <2>1. n \in 1..Len(arrays[a]) /\ n # m
    BY <1>2
  <2> QED BY <1>5, <1>9, <2>1 DEF EntryAt
<1>11. \A b \in DOMAIN arrays : Len(arrays'[b]) = Len(arrays[b])
  BY <1>5, <1>6
<1>12. \A b \in DOMAIN arrays : \A n \in 1..Len(arrays[b]) :
         b # a \/ n # m => arrays'[b][n] = arrays[b][n]
  BY <1>5, <1>6
<1> QED BY <1>4, <1>5, <1>6, <1>7, <1>8, <1>9, <1>10, <1>11, <1>12

LEMMA InsertInv == ASSUME Inv, Insert PROVE Inv'
<1> USE InsertedEntry
<1>1. /\ UNCHANGED <<use, position, snapshot, visited>>
      /\ pc = "select" /\ pc' = "idle" /\ call' = Unset
      /\ result' = [key |-> call.key, value |-> call.value]
  BY DEF Insert, Loops, Done, Returns
<1>2. PICK o \in Offsets :
        /\ Selects(call.key, o) /\ buckets.data[o] = Empty
        /\ buckets' = [buckets EXCEPT !.data[o] = entries.used + 1, !.used = @ + 1]
  BY DEF Insert
<1>3. /\ Indexed = entries.used /\ Indexed' = entries.used + 1
      /\ entries.used \in Nat
  BY <1>1, Typed DEF Indexed
<1>4. call \in Entry /\ call.key \in DOMAIN hashOf
  BY <1>1 DEF Inv, KeysOK, Calls
<1>5. /\ buckets' \in [data : [Offsets' -> Nat], used : Nat, size : Nat, limit : Nat]
      /\ buckets'.size = buckets.size /\ buckets'.limit = buckets.limit
      /\ BucketsOK' /\ ProbesUnbroken'
  BY <1>1, <1>2, <1>3, <1>4, IndexNext
<1>6. TypeOK'
  <2>1. /\ snapshot' \in [data : DOMAIN arrays', snap : Nat, at : Nat]
        /\ snapshot'.snap <= Len(arrays'[snapshot'.data])
        /\ snapshot'.at <= snapshot'.snap
    BY <1>1 DEF Inv, TypeOK
  <2>2. result' \in [key : Keys \cup {Null}, value : Values \cup {Null}]
    BY <1>1, <1>4 DEF Entry
  <2>3. /\ entries' \in [data : DOMAIN arrays', used : Nat, size : Nat]
        /\ Len(arrays'[entries'.data]) = entries'.size
    BY Typed DEF Inv, TypeOK
  <2> QED BY <1>1, <1>5, <2>1, <2>2, <2>3 DEF Inv, TypeOK
<1>7. EntriesOK'
  <2>1. \A n \in 1..entries'.used : n \in 1..entries.used \/ n = entries.used + 1
    BY <1>3
  <2>2. \A n \in 1..entries'.used : EntryAt(n)' \in Entry
    BY <1>4, <2>1 DEF Inv, HashInvariant, EntriesOK
  <2>3. \A m, n \in 1..entries'.used : m # n => EntryAt(m)'.key # EntryAt(n)'.key
    BY <2>1 DEF Inv, HashInvariant, EntriesOK
  <2>4. entries'.used <= entries'.size
    <3>1. entries.used < entries.size /\ entries.size \in Nat
      BY <1>1, Typed DEF Inv, HashInvariant, EntriesOK
    <3> QED BY <1>3, <3>1
  <2> QED BY <1>1, <2>2, <2>3, <2>4 DEF EntriesOK
<1>8. KeysOK'
  <2>1. \A n \in 1..entries.used : EntryAt(n).key \in DOMAIN hashOf
    BY DEF Inv, KeysOK
  <2>2. ASSUME NEW n \in 1..(entries.used + 1)
        PROVE  EntryAt(n)'.key \in DOMAIN hashOf
    <3>1. n \in 1..entries.used \/ n = entries.used + 1
      BY <1>3
    <3> QED BY <1>4, <2>1, <3>1
  <2> QED BY <1>1, <2>2 DEF KeysOK, Calls, hashOf
<1>9. SizesOK'
  BY <1>1, <1>3, <1>5, Typed DEF Inv, SizesOK
<1>10. ListOK'
  <2> SUFFICES ASSUME use.as = "list", NEW n \in 1..(entries.used + 1)
               PROVE  EntryAt(n)'.key = Index(n - 1)
    BY <1>1 DEF ListOK, Calls
  <2>1. CASE n \in 1..entries.used
    BY <2>1 DEF Inv, ListOK
  <2>2. CASE n = entries.used + 1
    BY <1>1, <1>3, <2>2 DEF Inv, ListOK, Calls
  <2> QED BY <1>3, <2>1, <2>2
<1>11. SnapshotOK'
  <2>1. snapshot.snap \in Nat
    BY DEF Inv, TypeOK
  <2>2. SnapshotOK
    BY DEF Inv
  <2> QED BY <1>1, <1>3, <2>1, <2>2 DEF SnapshotOK
<1> QED BY <1>5, <1>6, <1>7, <1>8, <1>9, <1>10, <1>11 DEF Inv, HashInvariant

\* Overwriting the value of an entry changes nothing else.
LEMMA Overwritten ==
  ASSUME Inv, NEW n \in 1..entries.used, NEW v \in Values,
         arrays' = [arrays EXCEPT ![entries.data][n].value = v],
         UNCHANGED entries
  PROVE  /\ arrays' \in Seq(Seq(Entry \cup {Unset}))
         /\ DOMAIN arrays' = DOMAIN arrays
         /\ \A a \in DOMAIN arrays : Len(arrays'[a]) = Len(arrays[a])
         /\ EntryAt(n)' = [key |-> EntryAt(n).key, value |-> v]
         /\ \A m \in 1..entries.used : m # n => EntryAt(m)' = EntryAt(m)
<1> DEFINE a   == entries.data
           new == [EntryAt(n) EXCEPT !.value = v]
           row == [arrays[a] EXCEPT ![n] = new]
<1>1. arrays' = [arrays EXCEPT ![a] = row]
  BY DEF EntryAt
<1>2. /\ a \in DOMAIN arrays /\ arrays[a] \in Seq(Entry \cup {Unset})
      /\ n \in 1..Len(arrays[a]) /\ 1..entries.used \subseteq 1..Len(arrays[a])
      /\ DOMAIN arrays = 1..Len(arrays) /\ Len(arrays) \in Nat
      /\ arrays \in Seq(Seq(Entry \cup {Unset}))
  <2>1. Len(arrays[a]) = entries.size
    BY DEF Inv, TypeOK
  <2>2. DOMAIN arrays = 1..Len(arrays) /\ Len(arrays) \in Nat
    BY Typed, LenProperties
  <2>3. entries.used <= entries.size
    BY DEF Inv, HashInvariant, EntriesOK
  <2> QED BY <2>1, <2>2, <2>3, Typed
<1>3. EntryAt(n) \in Entry
  BY DEF Inv, HashInvariant, EntriesOK
<1>4. new \in Entry /\ new = [key |-> EntryAt(n).key, value |-> v]
  BY <1>3 DEF Entry
<1> HIDE DEF new
<1>5. /\ row \in Seq(Entry \cup {Unset}) /\ Len(row) = Len(arrays[a])
      /\ row[n] = new
      /\ \A m \in 1..Len(arrays[a]) : m # n => row[m] = arrays[a][m]
  BY <1>2, <1>4, ExceptSeq
<1> HIDE DEF row
<1>6. /\ arrays' \in Seq(Seq(Entry \cup {Unset})) /\ Len(arrays') = Len(arrays)
      /\ \A b \in DOMAIN arrays : arrays'[b] = IF b = a THEN row ELSE arrays[b]
  BY ONLY <1>1, <1>2, <1>5, ExceptSeq, SMTT(30)
<1>7. DOMAIN arrays' = DOMAIN arrays
  BY <1>1
<1>8. \A m : EntryAt(m)' = row[m]
  BY <1>2, <1>6 DEF EntryAt
<1>9. ASSUME NEW m \in 1..entries.used, m # n PROVE EntryAt(m)' = EntryAt(m)
  BY <1>2, <1>5, <1>8, <1>9 DEF EntryAt
<1>10. \A b \in DOMAIN arrays : Len(arrays'[b]) = Len(arrays[b])
  BY <1>5, <1>6
<1> QED BY <1>4, <1>5, <1>6, <1>7, <1>8, <1>9, <1>10

\* A call that ends at a bucket in use finds its key in the entry it holds.
LEMMA FoundEntry ==
  ASSUME Inv, Update
  PROVE  \E n \in 1..entries.used :
           /\ EntryAt(n).key = call.key
           /\ \/ result' = [key |-> call.key, value |-> EntryAt(n).value]
                   /\ UNCHANGED arrays
              \/ result' = [key |-> call.key, value |-> call.value]
                   /\ arrays' = [arrays EXCEPT ![entries.data][n].value = call.value]
<1>1. pc = "select" /\ Indexed = entries.used /\ Indexed \in Nat
  BY Typed DEF Update, Indexed
<1>2. PICK o \in Offsets :
        /\ Selects(call.key, o) /\ buckets.data[o] # Empty
        /\ \/ /\ Returns(call.key, EntryAt(buckets.data[o]).value)
              /\ UNCHANGED arrays
           \/ /\ Returns(call.key, call.value)
              /\ arrays' = [arrays EXCEPT ![entries.data][buckets.data[o]].value = call.value]
  BY DEF Update
<1>3. buckets.data[o] \in 1..entries.used
  BY <1>1, <1>2, Typed DEF Inv, HashInvariant, BucketsOK, Empty
<1>4. EntryAt(buckets.data[o]).key = call.key
  BY <1>2, SearchHit
<1> QED BY <1>2, <1>3, <1>4 DEF Returns

LEMMA UpdateInv == ASSUME Inv, Update PROVE Inv'
<1>1. /\ UNCHANGED <<use, entries, buckets, position, snapshot, visited>>
      /\ pc = "select" /\ pc' = "idle" /\ call' = Unset
  BY DEF Update, Loops, Done
<1>2. Indexed = entries.used /\ Indexed' = Indexed
  BY <1>1 DEF Indexed
<1>3. call \in Entry
  BY <1>1 DEF Inv, KeysOK, Calls
<1>4. /\ arrays' \in Seq(Seq(Entry \cup {Unset}))
      /\ DOMAIN arrays' = DOMAIN arrays
      /\ \A a \in DOMAIN arrays : Len(arrays'[a]) = Len(arrays[a])
      /\ \A m \in 1..entries.used : EntryAt(m)' \in Entry
      /\ \A m \in 1..entries.used : EntryAt(m)'.key = EntryAt(m).key
      /\ result' \in Entry
  <2>1. PICK n \in 1..entries.used :
          /\ EntryAt(n).key = call.key
          /\ \/ result' = [key |-> call.key, value |-> EntryAt(n).value]
                  /\ UNCHANGED arrays
             \/ result' = [key |-> call.key, value |-> call.value]
                  /\ arrays' = [arrays EXCEPT ![entries.data][n].value = call.value]
    BY FoundEntry
  <2>2. \A m \in 1..entries.used : EntryAt(m) \in Entry
    BY DEF Inv, HashInvariant, EntriesOK
  <2>3. call.key \in Keys /\ call.value \in Values /\ EntryAt(n).value \in Values
    BY <1>3, <2>2 DEF Entry
  <2>4. result' \in Entry
    BY <2>1, <2>3 DEF Entry
  <2>5. CASE UNCHANGED arrays
    BY <1>1, <2>2, <2>4, <2>5, Typed DEF EntryAt
  <2>6. CASE arrays' = [arrays EXCEPT ![entries.data][n].value = call.value]
    <3>1. /\ arrays' \in Seq(Seq(Entry \cup {Unset}))
          /\ DOMAIN arrays' = DOMAIN arrays
          /\ \A a \in DOMAIN arrays : Len(arrays'[a]) = Len(arrays[a])
          /\ EntryAt(n)' = [key |-> EntryAt(n).key, value |-> call.value]
          /\ \A m \in 1..entries.used : m # n => EntryAt(m)' = EntryAt(m)
      BY <1>1, <2>3, <2>6, Overwritten
    <3>2. EntryAt(n)' \in Entry /\ EntryAt(n)'.key = EntryAt(n).key
      BY <2>1, <2>3, <3>1 DEF Entry
    <3> QED BY <2>2, <2>4, <3>1, <3>2
  <2> QED BY <2>1, <2>5, <2>6
<1>5. TypeOK'
  <2>1. /\ snapshot' \in [data : DOMAIN arrays', snap : Nat, at : Nat]
        /\ snapshot'.snap <= Len(arrays'[snapshot'.data])
        /\ snapshot'.at <= snapshot'.snap
    BY <1>1, <1>4 DEF Inv, TypeOK
  <2>2. result' \in [key : Keys \cup {Null}, value : Values \cup {Null}]
    BY <1>4 DEF Entry
  <2>3. /\ entries' \in [data : DOMAIN arrays', used : Nat, size : Nat]
        /\ Len(arrays'[entries'.data]) = entries'.size
    BY <1>1, <1>4, Typed DEF Inv, TypeOK
  <2>4. Offsets' = Offsets
    BY <1>1 DEF Offsets
  <2> QED BY <1>1, <1>4, <2>1, <2>2, <2>3, <2>4 DEF Inv, TypeOK
<1>6. EntriesOK'
  <2>1. EntriesOK
    BY DEF Inv, HashInvariant
  <2>2. \A m, n \in 1..entries.used : m # n => EntryAt(m)'.key # EntryAt(n)'.key
    BY <1>4, <2>1 DEF EntriesOK
  <2> QED BY <1>1, <1>4, <2>1, <2>2 DEF EntriesOK
<1>7. BucketsOK'
  BY <1>1, <1>2 DEF Inv, HashInvariant, BucketsOK, Offsets
<1>8. ProbesUnbroken'
  BY <1>1, <1>2, <1>4 DEF Inv, HashInvariant, ProbesUnbroken, Offsets, Offset, hashOf
<1>9. KeysOK'
  BY <1>1, <1>4 DEF Inv, KeysOK, Calls, hashOf
<1>10. SizesOK' /\ SnapshotOK'
  BY <1>1 DEF Inv, SizesOK, SnapshotOK
<1>11. ListOK'
  BY <1>1, <1>4 DEF Inv, ListOK, Calls
<1> QED BY <1>5, <1>6, <1>7, <1>8, <1>9, <1>10, <1>11 DEF Inv, HashInvariant

\* find and the loops read the table.
LEMMA ReadInv ==
  ASSUME Inv, \/ \E k \in DOMAIN hashOf : Find(k)
              \/ Current \/ CurrentNext \/ Concurrent \/ ConcurrentNext
  PROVE  Inv'
<1>1. /\ UNCHANGED <<use, arrays, entries, buckets, call, position, pc>>
      /\ pc = "idle"
  BY DEF Find, Current, CurrentNext, Concurrent, ConcurrentNext, Looping
<1>2. Indexed' = Indexed
  BY <1>1 DEF Indexed
<1>3. HashInvariant'
  BY <1>1, <1>2, SameTable DEF Inv, HashInvariant, EntriesOK
<1>4. KeysOK' /\ SizesOK' /\ ListOK'
  BY <1>1, <1>2, SameTable DEF Inv, KeysOK, SizesOK, ListOK, Calls, hashOf
<1>5. \A n \in 1..entries.used : EntryAt(n).value \in Values
  BY DEF Inv, HashInvariant, EntriesOK, Entry
<1>6. ASSUME NEW n \in 1..snapshot.snap
      PROVE  arrays[snapshot.data][n].value \in Values \cup {Null}
  <2>1. /\ snapshot.data \in DOMAIN arrays
        /\ snapshot.snap \in Nat /\ snapshot.snap <= Len(arrays[snapshot.data])
    BY DEF Inv, TypeOK
  <2>2. arrays[snapshot.data] \in Seq(Entry \cup {Unset})
    BY <2>1, Typed, ElementOfSeq, LenProperties
  <2>3. arrays[snapshot.data][n] \in Entry \cup {Unset}
    BY <2>1, <2>2, ElementOfSeq, LenProperties
  <2> QED BY <2>3 DEF Entry, Unset
<1>7. /\ result' \in [key : Keys \cup {Null}, value : Values \cup {Null}]
      /\ visited' \in Nat
  <2>1. CASE UNCHANGED <<result, visited>>
    BY <2>1 DEF Inv, TypeOK
  <2>2. ASSUME NEW k \in DOMAIN hashOf, Find(k)
        PROVE  /\ result' \in [key : Keys \cup {Null}, value : Values \cup {Null}]
               /\ visited' \in Nat
    <3>1. PICK o \in Offsets :
            Returns(k, IF buckets.data[o] = Empty THEN Null
                       ELSE EntryAt(buckets.data[o]).value)
      BY <2>2 DEF Find
    <3>2. buckets.data[o] # Empty => buckets.data[o] \in 1..entries.used
      BY <1>1, Typed DEF Inv, HashInvariant, BucketsOK, Empty, Indexed
    <3>3. k \in Keys
      BY Typed
    <3>4. visited' = visited /\ visited \in Nat
      BY <2>2 DEF Find, Loops, Inv, TypeOK
    <3> QED BY <1>5, <3>1, <3>2, <3>3, <3>4 DEF Returns
  <2>3. CASE CurrentNext
    <3>1. snapshot.at + 1 \in 1..snapshot.snap /\ visited' = visited /\ visited \in Nat
      BY <2>3 DEF CurrentNext, Inv, TypeOK
    <3> QED BY <1>6, <2>3, <3>1 DEF CurrentNext, Yields
  <2>4. CASE Concurrent
    BY <2>4 DEF Concurrent, Inv, TypeOK
  <2>5. CASE ConcurrentNext
    <3>1. visited \in Nat /\ visited < entries.used
      BY <2>5 DEF ConcurrentNext, Inv, TypeOK
    <3>2. visited + 1 \in 1..entries.used
      BY <3>1, Typed
    <3> QED BY <1>5, <2>5, <3>1, <3>2 DEF ConcurrentNext, Yields
  <2> QED BY <2>1, <2>2, <2>3, <2>4, <2>5 DEF Current
<1>8. /\ snapshot' \in [data : DOMAIN arrays, snap : Nat, at : Nat]
      /\ snapshot'.at <= snapshot'.snap
      /\ snapshot'.snap <= Len(arrays[snapshot'.data])
      /\ SnapshotOK'
  <2>1. CASE UNCHANGED snapshot
    BY <1>1, <2>1 DEF Inv, TypeOK, SnapshotOK
  <2>2. CASE CurrentNext
    <3>1. snapshot' = [data |-> snapshot.data, snap |-> snapshot.snap,
                       at |-> snapshot.at + 1]
      BY <2>2 DEF CurrentNext, Inv, TypeOK
    <3>2. /\ snapshot.snap \in Nat /\ snapshot.at \in Nat
          /\ snapshot.data \in DOMAIN arrays /\ snapshot.at < snapshot.snap
          /\ snapshot.snap <= Len(arrays[snapshot.data])
          /\ SnapshotOK
      BY <2>2 DEF CurrentNext, Inv, TypeOK
    <3>3. snapshot.at + 1 \in Nat /\ snapshot.at + 1 <= snapshot.snap
      BY <3>2
    <3> QED BY <1>1, <3>1, <3>2, <3>3 DEF SnapshotOK
  <2>3. CASE Current
    <3>1. /\ snapshot' = [data |-> entries.data, snap |-> entries.used, at |-> 0]
          /\ use.as = "list"
      BY <2>3 DEF Current, Looping
    <3>2. entries.used <= Len(arrays[entries.data])
      BY DEF Inv, TypeOK, HashInvariant, EntriesOK
    <3> QED BY <1>1, <3>1, <3>2, Typed DEF SnapshotOK
  <2> QED BY <2>1, <2>2, <2>3 DEF Find, Loops, Concurrent, ConcurrentNext
<1>9. TypeOK'
  BY <1>1, <1>7, <1>8 DEF Inv, TypeOK, Offsets
<1> QED BY <1>3, <1>4, <1>8, <1>9 DEF Inv

\* The invariant is inductive.
LEMMA NextInv == Inv /\ [Next]_vars => Inv'
<1> SUFFICES ASSUME Inv, [Next]_vars PROVE Inv'
  OBVIOUS
<1>1. ASSUME NEW k \in DOMAIN hashOf, NEW v \in Values, Slot(k, v) PROVE Inv'
  <2>1. Enter(k, v) /\ use.as # "list"
    BY <1>1 DEF Slot
  <2> QED BY <2>1, EnterInv
<1>2. ASSUME NEW v \in Values, AppendValue(v) PROVE Inv'
  <2>1. Enter(Index(entries.used), v) /\ use.as = "list" /\ entries.used < MaxUsed
    BY <1>2 DEF AppendValue
  <2>2. entries.used \in 0..MaxUsed
    BY <2>1, Typed, HashAssumption
  <2>3. Index(entries.used) \in DOMAIN hashOf
    BY <2>1, <2>2, Typed, HashAssumption DEF hashOf
  <2> QED BY <2>1, <2>3, EnterInv
<1>3. CASE Growing
  BY <1>3, ExtendBucketsInv, MoveOnInv, ReindexInv, ExtendEntriesInv DEF Growing
<1>4. CASE Insert \/ Update
  BY <1>4, InsertInv, UpdateInv
<1>5. CASE \/ \E k \in DOMAIN hashOf : Find(k)
           \/ Current \/ CurrentNext \/ Concurrent \/ ConcurrentNext
  BY <1>5, ReadInv
<1>6. CASE UNCHANGED vars
  <2>1. /\ UNCHANGED <<use, arrays, entries, buckets, call, position>>
        /\ UNCHANGED <<snapshot, visited, result, pc>>
    BY <1>6 DEF vars
  <2>2. Indexed' = Indexed
    BY <2>1 DEF Indexed
  <2>3. TypeOK'
    BY <2>1 DEF Inv, TypeOK, Offsets
  <2>4. HashInvariant'
    BY <2>1, <2>2, SameTable DEF Inv, HashInvariant, EntriesOK
  <2>5. KeysOK' /\ SizesOK' /\ ListOK' /\ SnapshotOK'
    BY <2>1, <2>2, SameTable
       DEF Inv, KeysOK, SizesOK, ListOK, SnapshotOK, Calls, hashOf
  <2> QED BY <2>3, <2>4, <2>5 DEF Inv
<1> QED BY <1>1, <1>2, <1>3, <1>4, <1>5, <1>6 DEF Next

LEMMA InvCorrect == Spec => []Inv
BY InitInv, NextInv, PTL DEF Spec

\* There is a bucket for every entry and one more: 0..(size - 1) does not map
\* one to one into the places of at most limit entries.
LEMMA RoomLeft == Inv => EmptyBucket
<1> SUFFICES ASSUME Inv, \A o \in Offsets : buckets.data[o] # Empty PROVE FALSE
  BY DEF EmptyBucket
<1> DEFINE size == buckets.size
<1>1. /\ size \in Nat /\ size > 1
      /\ Indexed \in Nat /\ Indexed < size
      /\ buckets.data \in [Offsets -> Nat]
  <2>1. /\ size \in Nat /\ size > 1 /\ Indexed \in Nat /\ Indexed <= entries.used
        /\ entries.used \in Nat /\ entries.used <= buckets.limit
        /\ buckets.data \in [Offsets -> Nat]
    BY Typed DEF Indexed, Inv, SizesOK
  <2>2. buckets.limit < size /\ buckets.limit \in Nat
    BY <2>1, LimitBounds DEF Inv, HashInvariant, BucketsOK
  <2> QED BY <2>1, <2>2
<1>2. \A o \in Offsets : buckets.data[o] \in 1..Indexed
  BY <1>1 DEF Inv, HashInvariant, BucketsOK, Empty
<1>3. buckets.data \in [Offsets -> 1..Indexed]
  BY <1>1, <1>2
<1>4. \A o, p \in Offsets : buckets.data[o] = buckets.data[p] => o = p
  BY DEF Inv, HashInvariant, BucketsOK
<1>5. buckets.data \in Injection(Offsets, 1..Indexed)
  BY <1>3, <1>4, Fun_IsInj
<1>6. IsFiniteSet(1..Indexed) /\ Cardinality(1..Indexed) = Indexed
  BY <1>1, FS_Interval
<1>7. Cardinality(Offsets) <= Indexed
  BY <1>5, <1>6, FS_Injection
<1>8. Cardinality(Offsets) = size
  BY <1>1, FS_Interval DEF Offsets
<1> QED BY <1>1, <1>7, <1>8

\* A set of numbers that is not empty has a least one.
LEMMA LeastNumber ==
  ASSUME NEW G \in SUBSET Nat, G # {}
  PROVE  \E d \in G : \A e \in G : d <= e
<1> DEFINE Below == {0..(d - 1) : d \in G}
<1>1. Below \subseteq FiniteSubsetsOf(Nat)
  <2> SUFFICES ASSUME NEW d \in G PROVE 0..(d - 1) \in FiniteSubsetsOf(Nat)
    OBVIOUS
  <2>1. d \in Nat /\ 0 \in Int /\ d - 1 \in Int
    OBVIOUS
  <2>2. IsFiniteSet(0..(d - 1))
    BY <2>1, FS_Interval
  <2>3. 0..(d - 1) \in SUBSET Nat
    BY <2>1
  <2> QED BY <2>2, <2>3 DEF FiniteSubsetsOf
<1>2. Below # {}
  OBVIOUS
<1>3. PICK x \in Below : \A y \in Below : <<y, x>> \notin StrictSubsetOrdering(Nat)
  <2> HIDE DEF Below
  <2> QED BY <1>1, <1>2, FS_StrictSubsetOrderingWellFounded, WFMin
<1>4. PICK d \in G : x = 0..(d - 1)
  OBVIOUS
<1>5. ASSUME NEW e \in G, e < d PROVE FALSE
  <2> DEFINE y == 0..(e - 1)
  <2>1. y \in Below
    OBVIOUS
  <2>2. y \in SUBSET Nat /\ x \in SUBSET Nat /\ y \subseteq x
    BY <1>4, <1>5
  <2>3. e \in x /\ e \notin y
    BY <1>4, <1>5
  <2> HIDE DEF y
  <2>4. <<y, x>> \in StrictSubsetOrdering(Nat)
    BY <2>2, <2>3 DEF StrictSubsetOrdering
  <2> QED BY <1>3, <2>1, <2>4
<1> QED BY <1>5

\* A search that goes on long enough comes to every bucket.
LEMMA EveryBucketProbed ==
  ASSUME NEW h \in Nat, NEW s \in Nat, s > 0, NEW o \in 0..(s - 1)
  PROVE  \E d \in 0..(s - 1) : (h + d) % s = o
<1> DEFINE r == h % s
           q == h \div s
<1>1. h = s * q + r /\ r \in 0..(s - 1) /\ q \in Int
  OBVIOUS
<1> HIDE DEF r, q
<1>2. ASSUME NEW k \in Int PROVE (s * k + o) % s = o
  BY Z3
<1>3. CASE r <= o
  <2> DEFINE d == o - r
  <2>1. d \in 0..(s - 1) /\ h + d = s * q + o
    BY <1>1, <1>3
  <2> HIDE DEF d
  <2>2. (h + d) % s = o
    BY <1>1, <1>2, <2>1
  <2> QED BY <2>1, <2>2
<1>4. CASE r > o
  <2> DEFINE d == o + s - r
  <2>1. d \in 0..(s - 1) /\ h + d = s * (q + 1) + o /\ q + 1 \in Int
    BY <1>1, <1>4
  <2> HIDE DEF d
  <2>2. (s * (q + 1) + o) % s = o
    BY <1>2, <2>1
  <2>3. (h + d) % s = o
    BY <2>1, <2>2
  <2> QED BY <2>1, <2>3
<1> QED BY <1>1, <1>3, <1>4

\* bucket_select returns, whatever key it is called for.
SearchesEnd == \A k \in DOMAIN hashOf : \E o \in Offsets : Selects(k, o)

LEMMA SearchReturns == Inv => SearchesEnd
<1> SUFFICES ASSUME Inv, NEW k \in DOMAIN hashOf
             PROVE  \E o \in Offsets : Selects(k, o)
  BY DEF SearchesEnd
<1> DEFINE Good == {d \in 0..(buckets.size - 1) : Stops(k, Offset(k, d))}
<1>1. buckets.size \in Nat /\ buckets.size > 1 /\ hashOf[k] \in Nat
  BY Typed DEF Inv, SizesOK
<1>2. PICK o \in Offsets : buckets.data[o] = Empty
  BY RoomLeft DEF EmptyBucket
<1>3. PICK d \in 0..(buckets.size - 1) : Offset(k, d) = o
  <2>1. o \in 0..(buckets.size - 1) /\ buckets.size > 0
    BY <1>1 DEF Offsets
  <2>2. \E d \in 0..(buckets.size - 1) : (hashOf[k] + d) % buckets.size = o
    BY <1>1, <2>1, EveryBucketProbed
  <2> QED BY <2>2 DEF Offset
<1>4. d \in Good
  BY <1>2, <1>3 DEF Stops
<1>5. Good \in SUBSET Nat /\ Good # {}
  BY <1>1, <1>4
<1>6. PICK m \in Good : \A e \in Good : m <= e
  <2> HIDE DEF Good
  <2> QED BY <1>5, LeastNumber
<1>7. \A e \in 0..(m - 1) : ~ Stops(k, Offset(k, e))
  <2> SUFFICES ASSUME NEW e \in 0..(m - 1), Stops(k, Offset(k, e)) PROVE FALSE
    OBVIOUS
  <2>1. e \in 0..(buckets.size - 1) /\ e < m
    BY <1>1, <1>6
  <2>2. e \in Good
    BY <2>1
  <2>3. m <= e
    BY <1>6, <2>2
  <2> QED BY <1>1, <1>6, <2>1, <2>3
<1>8. Offset(k, m) \in Offsets
  BY <1>1, <1>6, OffsetInRange
<1> QED BY <1>6, <1>7, <1>8 DEF Selects

-----------------------------------------------------------------------------
(* The invariants of the specification                                     *)

\* The state of a table has the type it should have.
THEOREM TypeCorrect == Spec => []TypeOK
<1>1. Inv => TypeOK
  BY DEF Inv
<1> QED BY <1>1, InvCorrect, PTL

\* However insertions, collisions and growth of either array follow one another,
\* every entry has one bucket, the search for its key reaches it before an empty
\* one, and no key has two entries.
THEOREM InvariantCorrect == Spec => []HashInvariant
<1>1. Inv => HashInvariant
  BY DEF Inv
<1> QED BY <1>1, InvCorrect, PTL

\* No sequence of calls fills the buckets, so bucket_select has where to stop.
THEOREM EmptyBucketLeft == Spec => []EmptyBucket
BY RoomLeft, InvCorrect, PTL

\* Every search of a table in any reachable state ends, and at a bucket that
\* is empty or holds the key: the probes come to every bucket, and one is empty.
THEOREM SearchTerminates == Spec => []SearchesEnd
BY SearchReturns, InvCorrect, PTL

\* An append always inserts.
THEOREM AppendsInsert == Spec => []AppendInserts
<1>1. Inv => AppendInserts
  <2> SUFFICES ASSUME Inv, use.as = "list", pc = "select",
                      NEW n \in 1..entries.used
               PROVE  EntryAt(n).key # call.key
    BY DEF AppendInserts
  <2>1. EntryAt(n).key = Index(n - 1) /\ call.key = Index(entries.used)
    BY DEF Inv, ListOK, Calls
  <2>2. n - 1 # entries.used
    BY Typed
  <2> QED BY <2>1, <2>2 DEF Index
<1> QED BY <1>1, InvCorrect, PTL

-----------------------------------------------------------------------------
(* The table implements the ordered map                                    *)

\* The pairs are the entries in use.
PairsMatch ==
  /\ Pairs \in Seq(Entry) /\ Len(Pairs) = entries.used
  /\ DOMAIN Pairs = 1..entries.used
  /\ \A n \in 1..entries.used : Pairs[n] = EntryAt(n)

LEMMA PairsList == Inv => PairsMatch
<1> SUFFICES ASSUME Inv PROVE PairsMatch
  OBVIOUS
<1>1. entries.used \in Nat
  BY Typed
<1>2. Pairs \in [1..entries.used -> Entry]
  BY DEF Pairs, Inv, HashInvariant, EntriesOK
<1>3. Pairs \in Seq(Entry)
  BY <1>1, <1>2, SeqDef
<1> QED BY <1>1, <1>2, <1>3, LenProperties DEF Pairs, PairsMatch

LEMMA PairsListNext == Inv' => PairsMatch'
BY PairsList, PTL

\* What a loop over a snapshot has still to yield, whatever array it reads.
PendingMatch ==
  /\ snapshot.snap - snapshot.at \in Nat
  /\ Pending \in Seq(Values \cup {Null})
  /\ Len(Pending) = snapshot.snap - snapshot.at
  /\ \A n \in 1..(snapshot.snap - snapshot.at) :
       /\ snapshot.at + n \in 1..snapshot.snap
       /\ Pending[n] = arrays[snapshot.data][snapshot.at + n].value

LEMMA PendingList == Inv => PendingMatch
<1> SUFFICES ASSUME Inv PROVE PendingMatch
  OBVIOUS
<1> DEFINE left == snapshot.snap - snapshot.at
<1>1. /\ snapshot.snap \in Nat /\ snapshot.at \in Nat
      /\ snapshot.at <= snapshot.snap
      /\ snapshot.snap <= Len(arrays[snapshot.data])
      /\ snapshot.data \in DOMAIN arrays
  BY DEF Inv, TypeOK
<1>2. left \in Nat
  BY <1>1
<1>3. \A n \in 1..left : snapshot.at + n \in 1..snapshot.snap
  BY <1>1
<1>4. arrays[snapshot.data] \in Seq(Entry \cup {Unset})
  BY <1>1, Typed, ElementOfSeq, LenProperties
<1>5. \A n \in 1..snapshot.snap :
        arrays[snapshot.data][n].value \in Values \cup {Null}
  <2> SUFFICES ASSUME NEW n \in 1..snapshot.snap
               PROVE  arrays[snapshot.data][n].value \in Values \cup {Null}
    OBVIOUS
  <2>1. arrays[snapshot.data][n] \in Entry \cup {Unset}
    BY <1>1, <1>4, ElementOfSeq, LenProperties
  <2> QED BY <2>1 DEF Entry, Unset
<1>6. Pending \in [1..left -> Values \cup {Null}]
  BY <1>3, <1>5 DEF Pending
<1>7. Pending \in Seq(Values \cup {Null})
  BY <1>2, <1>6, SeqDef
<1> QED BY <1>2, <1>3, <1>6, <1>7, LenProperties DEF Pending, PendingMatch

LEMMA PendingListNext == Inv' => PendingMatch'
BY PendingList, PTL

\* A step that moves the entries, if at all, without changing what they hold is
\* none of the map's.
LEMMA GrowingStutters ==
  ASSUME Inv, Growing \/ (\E k, v : Enter(k, v))
  PROVE  UNCHANGED Abs!vars
<1>1. UNCHANGED <<snapshot, visited, result>>
  BY DEF Growing, Enter, ExtendBuckets, KeepBuckets, Reindex, Reindexed,
         ExtendEntries, KeepEntries, Loops
<1>2. CASE UNCHANGED <<arrays, entries>>
  BY <1>1, <1>2 DEF Abs!vars, Pairs, Pending, EntryAt
<1>3. CASE ExtendEntries
  <2>1. /\ entries'.used = entries.used
        /\ \A n \in 1..entries.used : EntryAt(n)' = EntryAt(n)
        /\ arrays'[snapshot.data] = arrays[snapshot.data]
    BY <1>3, ExtendedEntries DEF Inv, TypeOK
  <2>2. Pairs' = Pairs
    BY <2>1 DEF Pairs
  <2>3. Pending' = Pending
    BY <1>1, <2>1 DEF Pending
  <2> QED BY <1>1, <2>2, <2>3 DEF Abs!vars
<1> QED BY <1>2, <1>3 DEF Growing, Enter, ExtendBuckets, KeepBuckets, Reindex,
                          Reindexed, KeepEntries

\* An insertion is one of the map's, and no loop over a snapshot sees it.
LEMMA InsertRefines ==
  ASSUME Inv, Inv', Insert
  PROVE  Abs!Insert(call.key, call.value) /\ call \in Entry
<1> USE InsertedEntry
<1>1. /\ UNCHANGED <<snapshot, visited>> /\ pc = "select"
      /\ result' = [key |-> call.key, value |-> call.value]
  BY DEF Insert, Loops, Returns
<1>2. call \in Entry /\ call = [key |-> call.key, value |-> call.value]
  BY <1>1 DEF Inv, KeysOK, Calls, Entry
<1>3. ~ Abs!Has(call.key)
  BY PairsList DEF Abs!Has, PairsMatch
<1>4. Pairs' = Append(Pairs, [key |-> call.key, value |-> call.value])
  <2>1. /\ Pairs' \in Seq(Entry) /\ Len(Pairs') = entries.used + 1
        /\ \A n \in 1..(entries.used + 1) : Pairs'[n] = EntryAt(n)'
    BY PairsListNext DEF PairsMatch
  <2>2. /\ Append(Pairs, call) \in Seq(Entry)
        /\ Len(Append(Pairs, call)) = entries.used + 1
        /\ \A n \in 1..(entries.used + 1) : Append(Pairs, call)[n] = EntryAt(n)'
    BY <1>2, PairsList, Typed, AppendProperties DEF PairsMatch
  <2>3. Pairs' = Append(Pairs, call)
    <3>1. /\ entries'.used = entries.used + 1
          /\ \A n \in 1..Len(Pairs') : Pairs'[n] = Append(Pairs, call)[n]
      BY <2>1, <2>2 DEF PairsMatch
    <3> QED BY <2>1, <2>2, <3>1, SeqEqual DEF PairsMatch
  <2> QED BY <1>2, <2>3
<1>5. Pending' = Pending
  <2>1. ASSUME NEW n \in 1..(snapshot.snap - snapshot.at)
        PROVE  arrays'[snapshot.data][snapshot.at + n]
                 = arrays[snapshot.data][snapshot.at + n]
    <3>1. snapshot.at + n \in 1..snapshot.snap
      BY PendingList DEF PendingMatch
    <3>2. /\ snapshot.snap \in Nat /\ snapshot.snap <= Len(arrays[snapshot.data])
          /\ snapshot.data \in DOMAIN arrays
          /\ snapshot.data = entries.data => snapshot.snap <= entries.used
      BY DEF Inv, TypeOK, SnapshotOK
    <3>3. Len(arrays[snapshot.data]) \in Nat /\ entries.used \in Nat
      BY <3>2, Typed, ElementOfSeq, LenProperties
    <3>4. /\ snapshot.at + n \in 1..Len(arrays[snapshot.data])
          /\ snapshot.data # entries.data \/ snapshot.at + n # entries.used + 1
      BY <3>1, <3>2, <3>3
    <3> QED BY <3>2, <3>4
  <2> QED BY <1>1, <2>1 DEF Pending
<1> QED BY <1>1, <1>2, <1>3, <1>4, <1>5 DEF Abs!Insert, Abs!Returns

\* A call that finds its key is one of the map's, whether the caller leaves the
\* value or replaces it.  Only a map makes one, and there no snapshot is open.
LEMMA UpdateRefines ==
  ASSUME Inv, Inv', Update
  PROVE  /\ call \in Entry
         /\ Abs!Found(call.key) \/ Abs!Replace(call.key, call.value)
<1>1. /\ UNCHANGED <<snapshot, visited, entries>> /\ pc = "select"
      /\ call \in Entry /\ call.key \in Keys /\ call.value \in Values
  BY DEF Update, Loops, Inv, KeysOK, Calls, Entry
<1>2. PICK n \in 1..entries.used :
        /\ EntryAt(n).key = call.key
        /\ \/ result' = [key |-> call.key, value |-> EntryAt(n).value]
                /\ UNCHANGED arrays
           \/ result' = [key |-> call.key, value |-> call.value]
                /\ arrays' = [arrays EXCEPT ![entries.data][n].value = call.value]
  BY FoundEntry
<1>3. use.as = "map"
  <2>1. use.as = "list" => FALSE
    <3>1. n - 1 # entries.used
      BY Typed
    <3> QED BY <1>1, <1>2, <3>1 DEF Inv, ListOK, Calls, Index
  <2> QED BY <2>1, Typed
<1>4. Pending' = Pending
  <2>1. 1..(snapshot.snap - snapshot.at) = {}
    <3>1. snapshot.snap = 0 /\ snapshot.at \in Nat
      BY <1>3 DEF Inv, SnapshotOK, TypeOK
    <3> QED BY <3>1
  <2> QED BY <1>1, <2>1 DEF Pending
<1>5. n \in DOMAIN Pairs /\ Pairs[n] = EntryAt(n)
  BY PairsList DEF PairsMatch
<1>6. CASE /\ result' = [key |-> call.key, value |-> EntryAt(n).value]
           /\ UNCHANGED arrays
  <2>1. Pairs' = Pairs
    BY <1>1, <1>6 DEF Pairs, EntryAt
  <2>2. Abs!Found(call.key)
    BY <1>1, <1>2, <1>4, <1>5, <1>6, <2>1 DEF Abs!Found, Abs!Returns
  <2> QED BY <1>1, <2>2
<1>7. CASE /\ result' = [key |-> call.key, value |-> call.value]
           /\ arrays' = [arrays EXCEPT ![entries.data][n].value = call.value]
  <2>1. /\ EntryAt(n)' = [key |-> EntryAt(n).key, value |-> call.value]
        /\ \A m \in 1..entries.used : m # n => EntryAt(m)' = EntryAt(m)
    BY <1>1, <1>7, Overwritten
  <2>2. Pairs[n] \in Entry
    BY <1>5, PairsList, ElementOfSeq DEF PairsMatch
  <2>3. [Pairs[n] EXCEPT !.value = call.value]
          = [key |-> EntryAt(n).key, value |-> call.value]
    BY <1>5, <2>2 DEF Entry
  <2>4. Pairs' = [Pairs EXCEPT ![n].value = call.value]
    <3> DEFINE new == [Pairs EXCEPT ![n].value = call.value]
    <3>1. /\ DOMAIN new = 1..entries.used
          /\ new = [m \in DOMAIN new |-> new[m]]
          /\ \A m \in 1..entries.used : new[m] = EntryAt(m)'
      BY <1>5, <2>1, <2>3, PairsList DEF PairsMatch
    <3>2. Pairs' = [m \in 1..entries.used |-> EntryAt(m)']
      BY <1>1 DEF Pairs
    <3> HIDE DEF new
    <3> QED BY <3>1, <3>2 DEF new
  <2>5. Abs!Replace(call.key, call.value)
    BY <1>1, <1>2, <1>4, <1>5, <1>7, <2>4 DEF Abs!Replace, Abs!Returns
  <2> QED BY <1>1, <2>5
<1> QED BY <1>2, <1>6, <1>7

\* find returns the value of the entry that has the key, or NULL if none has.
LEMMA FindRefines ==
  ASSUME Inv, NEW k \in DOMAIN hashOf, Find(k)
  PROVE  k \in Keys /\ (Abs!Found(k) \/ Abs!Missing(k))
<1>1. /\ UNCHANGED <<arrays, entries, snapshot, visited>> /\ pc = "idle"
      /\ UNCHANGED <<Pairs, Pending>>
  BY DEF Find, Loops, Pairs, Pending, EntryAt
<1>2. PICK o \in Offsets :
        /\ Selects(k, o)
        /\ Returns(k, IF buckets.data[o] = Empty THEN Null
                      ELSE EntryAt(buckets.data[o]).value)
  BY DEF Find
<1>3. k \in Keys
  BY Typed
<1>4. CASE buckets.data[o] = Empty
  <2>1. ~ Abs!Has(k)
    BY <1>1, <1>2, <1>4, SearchMiss, PairsList DEF Abs!Has, Indexed, PairsMatch
  <2>2. Abs!Missing(k)
    BY <1>1, <1>2, <1>4, <2>1 DEF Abs!Missing, Abs!Returns, Returns
  <2> QED BY <1>3, <2>2
<1>5. CASE buckets.data[o] # Empty
  <2> DEFINE n == buckets.data[o]
  <2>1. n \in 1..entries.used
    BY <1>1, <1>5, Typed DEF Inv, HashInvariant, BucketsOK, Empty, Indexed
  <2>2. EntryAt(n).key = k
    BY <1>2, <1>5, SearchHit
  <2>3. result' = [key |-> k, value |-> EntryAt(n).value]
    BY <1>2, <1>5 DEF Returns
  <2> HIDE DEF n
  <2>4. n \in DOMAIN Pairs /\ Pairs[n] = EntryAt(n)
    BY <2>1, PairsList DEF PairsMatch
  <2>5. Abs!Found(k)
    BY <1>1, <2>2, <2>3, <2>4 DEF Abs!Found, Abs!Returns
  <2> QED BY <1>3, <2>5
<1> QED BY <1>4, <1>5

\* The loops are the map's.
LEMMA LoopsRefine ==
  ASSUME Inv, Inv', Current \/ CurrentNext \/ Concurrent \/ ConcurrentNext
  PROVE  Abs!Current \/ Abs!CurrentNext \/ Abs!Concurrent \/ Abs!ConcurrentNext
<1>1. UNCHANGED <<arrays, entries>> /\ Pairs' = Pairs
  BY DEF Current, CurrentNext, Concurrent, ConcurrentNext, Pairs, EntryAt
<1>2. CASE Current
  <2>1. /\ snapshot' = [data |-> entries.data, snap |-> entries.used, at |-> 0]
        /\ UNCHANGED <<visited, result>>
    BY <1>2 DEF Current
  <2>2. snapshot'.snap - snapshot'.at = entries.used
    BY <2>1, Typed
  <2>3. \A n \in 1..entries.used :
          arrays'[snapshot'.data][snapshot'.at + n].value = Pairs[n].value
    BY <1>1, <2>1, PairsList DEF EntryAt, PairsMatch
  <2>4. Pending' = [n \in DOMAIN Pairs |-> Pairs[n].value]
    BY <2>2, <2>3, PairsList DEF Pending, PairsMatch
  <2> QED BY <1>1, <2>1, <2>4 DEF Abs!Current
<1>3. CASE CurrentNext
  <2>1. /\ snapshot.at < snapshot.snap /\ UNCHANGED visited
        /\ result' = [key |-> Null, value |-> arrays[snapshot.data][snapshot.at + 1].value]
        /\ snapshot' = [snapshot EXCEPT !.at = @ + 1]
        /\ snapshot \in [data : DOMAIN arrays, snap : Nat, at : Nat]
    BY <1>3 DEF CurrentNext, Yields, Inv, TypeOK
  <2>2. /\ snapshot'.data = snapshot.data /\ snapshot'.snap = snapshot.snap
        /\ snapshot'.at = snapshot.at + 1
        /\ snapshot.at \in Nat /\ snapshot.snap \in Nat
    BY <2>1
  <2> DEFINE left == snapshot.snap - snapshot.at
  <2>3. left \in Nat /\ left > 0 /\ snapshot'.snap - snapshot'.at = left - 1
    BY <2>1, <2>2
  <2>4. Pending # << >> /\ Head(Pending) = Pending[1] /\ 1 \in 1..left
    BY <2>3, PendingList DEF PendingMatch
  <2>5. Head(Pending) = arrays[snapshot.data][snapshot.at + 1].value
    BY <2>3, <2>4, PendingList DEF PendingMatch
  <2>6. /\ Tail(Pending) \in Seq(Values \cup {Null})
        /\ Len(Tail(Pending)) = left - 1
        /\ \A n \in 1..(left - 1) : Tail(Pending)[n] = Pending[n + 1]
    BY <2>4, PendingList, HeadTailProperties DEF PendingMatch
  <2>7. /\ Pending' \in Seq(Values \cup {Null})
        /\ Len(Pending') = left - 1
        /\ \A n \in 1..(left - 1) :
             Pending'[n] = arrays[snapshot.data][(snapshot.at + 1) + n].value
    BY <1>1, <2>2, <2>3, PendingListNext DEF PendingMatch
  <2>8. ASSUME NEW n \in 1..(left - 1) PROVE Pending'[n] = Tail(Pending)[n]
    <3>1. n + 1 \in 1..left /\ (snapshot.at + 1) + n = snapshot.at + (n + 1)
      BY <2>2, <2>3
    <3>2. Pending[n + 1] = arrays[snapshot.data][snapshot.at + (n + 1)].value
      BY <3>1, PendingList DEF PendingMatch
    <3> QED BY <2>6, <2>7, <3>1, <3>2
  <2>9. Pending' = Tail(Pending)
    BY <2>6, <2>7, <2>8, SeqEqual
  <2>10. Abs!CurrentNext
    BY <1>1, <2>1, <2>4, <2>5, <2>9 DEF Abs!CurrentNext, Abs!Yields
  <2> QED BY <2>10
<1>4. CASE Concurrent
  BY <1>1, <1>4 DEF Concurrent, Pending, Abs!Concurrent
<1>5. CASE ConcurrentNext
  <2>1. /\ visited < entries.used /\ visited' = visited + 1
        /\ result' = [key |-> Null, value |-> EntryAt(visited + 1).value]
        /\ UNCHANGED snapshot /\ visited \in Nat
    BY <1>5 DEF ConcurrentNext, Yields, Inv, TypeOK
  <2>2. visited + 1 \in 1..entries.used
    BY <2>1, Typed
  <2>3. Pending' = Pending
    BY <1>1, <2>1 DEF Pending
  <2> QED BY <1>1, <2>1, <2>2, <2>3, PairsList DEF Abs!ConcurrentNext, Abs!Yields, PairsMatch
<1> QED BY <1>2, <1>3, <1>4, <1>5

\* The table is a map that remembers the order of insertion: a slot call inserts
\* or finds exactly what the map would, growth changes nothing, and a loop sees
\* the insertions made during it or not according to its kind.
THEOREM ImplementsMap == Spec => ImplementsOrderedMap
<1>1. Init => Abs!Init
  <2> SUFFICES ASSUME Init PROVE Abs!Init
    OBVIOUS
  <2>1. Inv
    BY InitInv
  <2>2. Len(Pairs) = 0 /\ Len(Pending) = 0 /\ visited = 0 /\ result = Unset
    BY <2>1, PairsList, PendingList DEF Init, PairsMatch, PendingMatch
  <2>3. Pairs = << >> /\ Pending = << >>
    BY <2>1, <2>2, PairsList, PendingList, EmptySeq DEF PairsMatch, PendingMatch
  <2> QED BY <2>2, <2>3 DEF Abs!Init, Abs!Nothing, Unset
<1>2. Inv /\ Inv' /\ [Next]_vars => [Abs!Next]_(Abs!vars)
  <2> SUFFICES ASSUME Inv, Inv', [Next]_vars
               PROVE  Abs!Next \/ UNCHANGED Abs!vars
    OBVIOUS
  <2>1. CASE Growing \/ (\E k, v : Enter(k, v))
    BY <2>1, GrowingStutters
  <2>2. CASE Insert
    BY <2>2, InsertRefines DEF Abs!Next, Entry
  <2>3. CASE Update
    BY <2>3, UpdateRefines DEF Abs!Next, Entry
  <2>4. CASE \E k \in DOMAIN hashOf : Find(k)
    BY <2>4, FindRefines DEF Abs!Next
  <2>5. CASE Current \/ CurrentNext \/ Concurrent \/ ConcurrentNext
    BY <2>5, LoopsRefine DEF Abs!Next
  <2>6. CASE UNCHANGED vars
    BY <2>6 DEF vars, Abs!vars, Pairs, Pending, EntryAt
  <2> QED BY <2>1, <2>2, <2>3, <2>4, <2>5, <2>6 DEF Next, Slot, AppendValue
<1> QED BY <1>1, <1>2, InvCorrect, PTL DEF Spec, ImplementsOrderedMap, Abs!Spec
===============================================================================
