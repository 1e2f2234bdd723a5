-------------------------------- MODULE Hash --------------------------------
(***************************************************************************)
(* The table every part of the extension keeps its state in (src/hash.h):  *)
(* entries in order of insertion, and an open-addressed table of buckets   *)
(* that holds their places.  Both are arrays in an arena: an array that    *)
(* was replaced by a larger one is still there, and a loop that began with *)
(* it goes on reading it.                                                  *)
(*                                                                         *)
(* A table is used in one of two ways: as a list (only appended to, and    *)
(* looped over while it grows), or as a map (slot and find).  One action   *)
(* is one call, except that a slot call that has to grow the table takes   *)
(* one action for each pass of its loops.                                  *)
(***************************************************************************)
EXTENDS Integers, Sequences, Functions

CONSTANTS
  Keys,       \* what keys hold; equal keys are one element
  Values,     \* what callers store
  Uses,       \* how a table is used, "list" or "map", and what its keys hash to
  MinSize,    \* the smallest size php_phathom_hash_roundup returns: 8
  MaxUsed,    \* bound of the model: entries in the table
  Null        \* the C NULL

\* A key of kind PHP_PHATHOM_HASH_INDEX
Index(n) == <<"index", n>>

\* php_phathom_hash_key makes every hash odd.
ASSUME HashAssumption ==
  /\ MinSize \in Nat /\ MinSize > 1
  /\ MaxUsed \in Nat
  /\ Null \notin Keys \cup Values
  /\ \A w \in Uses :
       /\ w.as \in {"list", "map"}
       /\ DOMAIN w.hash \subseteq Keys
       /\ \A k \in DOMAIN w.hash : w.hash[k] \in Nat /\ w.hash[k] % 2 = 1
       /\ w.as = "list" => \A n \in 0..MaxUsed : Index(n) \in DOMAIN w.hash

VARIABLES
  use,        \* one of Uses
  arrays,     \* the arrays of entries in the arena, by address
  entries,    \* hash->entries: data (an address), used, size
  buckets,    \* hash->buckets: data, used, size, limit
  call,       \* the key and the value of the slot call in progress
  position,   \* the loop of buckets_extend
  snapshot,   \* the loop FOREACH_CURRENT: data, snap, and passes made
  visited,    \* the loop FOREACH_CONCURRENT: passes made
  result,     \* the key the last call was for, and the value it returned
  pc          \* "idle", or where the slot call is

vars == <<use, arrays, entries, buckets, call, position,
          snapshot, visited, result, pc>>

\* The hash of every key the table is used with.
hashOf == use.hash

Entry == [key : Keys, value : Values]
Unset == [key |-> Null, value |-> Null]

\* A call for k returns v; a pass of a loop yields v.
Returns(k, v) == result' = [key |-> k, value |-> v]
Yields(v)     == result' = [key |-> Null, value |-> v]

Empty == 0    \* PHP_PHATHOM_HASH_EMPTY_BUCKET

-----------------------------------------------------------------------------
\* Mutant of Limit: the buckets may fill up.
LimitFull(size) == size

Limit(size) == (size * 7) \div 10

NewBuckets(size) ==
  [data |-> [o \in 0..(size - 1) |-> Empty], used |-> 0, size |-> size,
   limit |-> Limit(size)]

NewArray(size) == [n \in 1..size |-> Unset]

EntryAt(n) == arrays[entries.data][n]

\* php_phathom_hash_bucket_select: the bucket d places after the one the hash
\* selects, and whether the search stops there.  The sizes are powers of two,
\* so that & mask is the remainder.
Offset(k, d) == (hashOf[k] + d) % buckets.size

\* Mutant of Hit: equal hashes are taken for equal keys.
HitByHash(k, o) ==
  buckets.data[o] # Empty /\ hashOf[EntryAt(buckets.data[o]).key] = hashOf[k]

Hit(k, o)   == buckets.data[o] # Empty /\ EntryAt(buckets.data[o]).key = k
Stops(k, o) == buckets.data[o] = Empty \/ Hit(k, o)

\* The search for k ends at bucket o.
Selects(k, o) ==
  \E d \in 0..(buckets.size - 1) :
    /\ o = Offset(k, d)
    /\ Stops(k, o)
    /\ \A e \in 0..(d - 1) : ~ Stops(k, Offset(k, e))

Offsets == 0..(buckets.size - 1)

-----------------------------------------------------------------------------
Init ==
  /\ use \in Uses
  /\ arrays = <<NewArray(MinSize)>>
  /\ entries = [data |-> 1, used |-> 0, size |-> MinSize]
  /\ buckets = NewBuckets(MinSize)
  /\ call = Unset
  /\ position = 1
  /\ snapshot = [data |-> 1, snap |-> 0, at |-> 0]
  /\ visited = 0
  /\ result = Unset
  /\ pc = "idle"

-----------------------------------------------------------------------------
(* php_phathom_hash_slot, and the caller's write to the slot it returns.   *)

Loops == <<snapshot, visited>>

Enter(k, v) ==
  /\ pc = "idle"
  /\ call' = [key |-> k, value |-> v]
  /\ pc' = "buckets"
  /\ UNCHANGED <<use, arrays, entries, buckets, position, result>>
  /\ UNCHANGED Loops

Slot(k, v) == use.as = "map" /\ Enter(k, v)

\* Mutant of AppendValue: the size is taken for the number of entries.
AppendAtSize(v) ==
  use.as = "list" /\ entries.used < MaxUsed /\ entries.size <= MaxUsed
    /\ Enter(Index(entries.size), v)

\* php_phathom_hash_append
AppendValue(v) ==
  use.as = "list" /\ entries.used < MaxUsed /\ Enter(Index(entries.used), v)

\* Mutant of ExtendBuckets: the buckets in use are not reset.
ExtendBuckets ==
  /\ pc = "buckets" /\ buckets.used >= buckets.limit
  /\ buckets' = NewBuckets(2 * buckets.size)
  /\ position' = 1
  /\ pc' = "reindex"
  /\ UNCHANGED <<use, arrays, entries, call, result>>
  /\ UNCHANGED Loops

KeepBuckets ==
  /\ pc = "buckets" /\ buckets.used < buckets.limit
  /\ pc' = "entries"
  /\ UNCHANGED <<use, arrays, entries, buckets, call, position, result>>
  /\ UNCHANGED Loops

Reindex ==
  /\ pc = "reindex" /\ position <= entries.used
  /\ \E o \in Offsets :
       /\ Selects(EntryAt(position).key, o)
       /\ buckets' = [buckets EXCEPT !.data[o] = position, !.used = @ + 1]
  /\ position' = position + 1
  /\ UNCHANGED <<use, arrays, entries, call, result, pc>>
  /\ UNCHANGED Loops

Reindexed ==
  /\ pc = "reindex" /\ position > entries.used
  /\ pc' = "entries"
  /\ UNCHANGED <<use, arrays, entries, buckets, call, position, result>>
  /\ UNCHANGED Loops

\* Mutant of ExtendEntries: the larger size is recorded and not allocated.
ExtendSizeOnly ==
  /\ pc = "entries" /\ entries.used >= entries.size
  /\ arrays' = Append(arrays, arrays[entries.data])
  /\ entries' = [entries EXCEPT !.data = Len(arrays) + 1, !.size = 2 * @]
  /\ pc' = "select"
  /\ UNCHANGED <<use, buckets, call, position, result>>
  /\ UNCHANGED Loops

ExtendEntries ==
  /\ pc = "entries" /\ entries.used >= entries.size
  /\ arrays' = Append(arrays, [n \in 1..(2 * entries.size) |->
                                 IF n <= entries.used THEN EntryAt(n) ELSE Unset])
  /\ entries' = [entries EXCEPT !.data = Len(arrays) + 1, !.size = 2 * @]
  /\ pc' = "select"
  /\ UNCHANGED <<use, buckets, call, position, result>>
  /\ UNCHANGED Loops

KeepEntries ==
  /\ pc = "entries" /\ entries.used < entries.size
  /\ pc' = "select"
  /\ UNCHANGED <<use, arrays, entries, buckets, call, position, result>>
  /\ UNCHANGED Loops

Done == pc' = "idle" /\ call' = Unset

\* Mutant of Insert: the first bucket is taken, empty or not.
InsertAtHome ==
  /\ pc = "select"
  /\ \A o \in Offsets : Selects(call.key, o) => buckets.data[o] = Empty
  /\ buckets' = [buckets EXCEPT !.data[Offset(call.key, 0)] = entries.used + 1,
                                !.used = @ + 1]
  /\ entries' = [entries EXCEPT !.used = @ + 1]
  /\ arrays' = [arrays EXCEPT ![entries.data][entries.used + 1] = call]
  /\ Returns(call.key, call.value)
  /\ Done
  /\ UNCHANGED <<use, position>>
  /\ UNCHANGED Loops

\* The key is new: the next entry is its own, and the caller fills it.
Insert ==
  /\ pc = "select"
  /\ \E o \in Offsets :
       /\ Selects(call.key, o) /\ buckets.data[o] = Empty
       /\ buckets' = [buckets EXCEPT !.data[o] = entries.used + 1, !.used = @ + 1]
  /\ entries' = [entries EXCEPT !.used = @ + 1]
  /\ arrays' = [arrays EXCEPT ![entries.data][entries.used + 1] = call]
  /\ Returns(call.key, call.value)
  /\ Done
  /\ UNCHANGED <<use, position>>
  /\ UNCHANGED Loops

\* The key is there: the caller reads the slot, or overwrites it.
Update ==
  /\ pc = "select"
  /\ \E o \in Offsets :
       /\ Selects(call.key, o) /\ buckets.data[o] # Empty
       /\ \/ /\ Returns(call.key, EntryAt(buckets.data[o]).value)
             /\ UNCHANGED arrays
          \/ /\ Returns(call.key, call.value)
             /\ arrays' = [arrays EXCEPT ![entries.data][buckets.data[o]].value = call.value]
  /\ Done
  /\ UNCHANGED <<use, entries, buckets, position>>
  /\ UNCHANGED Loops

-----------------------------------------------------------------------------
\* php_phathom_hash_find
Find(k) ==
  /\ pc = "idle" /\ use.as = "map"
  /\ \E o \in Offsets :
       /\ Selects(k, o)
       /\ Returns(k, IF buckets.data[o] = Empty THEN Null
                     ELSE EntryAt(buckets.data[o]).value)
  /\ UNCHANGED <<use, arrays, entries, buckets, call, position, pc>>
  /\ UNCHANGED Loops

(* The loops over a list; their bodies append to it.                       *)

Looping == pc = "idle" /\ use.as = "list"

Current ==
  /\ Looping
  /\ snapshot' = [data |-> entries.data, snap |-> entries.used, at |-> 0]
  /\ UNCHANGED <<use, arrays, entries, buckets, call, position,
                 visited, result, pc>>

CurrentNext ==
  /\ Looping /\ snapshot.at < snapshot.snap
  /\ Yields(arrays[snapshot.data][snapshot.at + 1].value)
  /\ snapshot' = [snapshot EXCEPT !.at = @ + 1]
  /\ UNCHANGED <<use, arrays, entries, buckets, call, position, visited, pc>>

Concurrent ==
  /\ Looping
  /\ visited' = 0
  /\ UNCHANGED <<use, arrays, entries, buckets, call, position,
                 snapshot, result, pc>>

ConcurrentNext ==
  /\ Looping /\ visited < entries.used
  /\ Yields(EntryAt(visited + 1).value)
  /\ visited' = visited + 1
  /\ UNCHANGED <<use, arrays, entries, buckets, call, position, snapshot, pc>>

-----------------------------------------------------------------------------
Growing == ExtendBuckets \/ KeepBuckets \/ Reindex \/ Reindexed \/ ExtendEntries
           \/ KeepEntries

Next ==
  \/ \E k \in DOMAIN hashOf, v \in Values : Slot(k, v)
  \/ \E v \in Values : AppendValue(v)
  \/ Growing \/ Insert \/ Update
  \/ \E k \in DOMAIN hashOf : Find(k)
  \/ Current \/ CurrentNext \/ Concurrent \/ ConcurrentNext

Spec == Init /\ [][Next]_vars

-----------------------------------------------------------------------------
(* Properties                                                              *)

\* The type invariant.
TypeOK ==
  /\ use \in Uses
  /\ arrays \in Seq(Seq(Entry \cup {Unset}))
  /\ entries \in [data : DOMAIN arrays, used : Nat, size : Nat]
  /\ Len(arrays[entries.data]) = entries.size
  /\ buckets \in [data : [Offsets -> Nat], used : Nat, size : Nat, limit : Nat]
  /\ {position, visited} \subseteq Nat
  /\ call \in Entry \cup {Unset}
  /\ snapshot \in [data : DOMAIN arrays, snap : Nat, at : Nat]
  /\ snapshot.at <= snapshot.snap
  /\ snapshot.snap <= Len(arrays[snapshot.data])
  /\ result \in [key : Keys \cup {Null}, value : Values \cup {Null}]
  /\ pc \in {"idle", "buckets", "reindex", "entries", "select"}

\* The entries the buckets hold: all of them, or those indexed again so far.
Indexed == IF pc = "reindex" THEN position - 1 ELSE entries.used

EntriesOK ==
  /\ entries.used <= entries.size
  /\ pc = "select" => entries.used < entries.size
  /\ \A n \in 1..entries.used : EntryAt(n) \in Entry
  /\ \A m, n \in 1..entries.used : m # n => EntryAt(m).key # EntryAt(n).key

BucketsOK ==
  /\ buckets.used = Indexed
  /\ buckets.limit = Limit(buckets.size)
  /\ \A o \in Offsets : buckets.data[o] \in 0..Indexed
  /\ \A n \in 1..Indexed : \E o \in Offsets : buckets.data[o] = n
  /\ \A o, p \in Offsets :
       o # p /\ buckets.data[o] # Empty => buckets.data[o] # buckets.data[p]

\* No bucket between the one the hash of a key selects and the one that holds
\* its entry is empty.
ProbesUnbroken ==
  \A n \in 1..Indexed : \E d \in Offsets :
    /\ buckets.data[Offset(EntryAt(n).key, d)] = n
    /\ \A e \in 0..(d - 1) : buckets.data[Offset(EntryAt(n).key, e)] # Empty

\* Buckets and entries describe each other however insertions, collisions and
\* growth of either array follow one another: every entry has one bucket, which
\* the search for its key reaches before it reaches an empty one, and no key has
\* two entries.
HashInvariant == EntriesOK /\ BucketsOK /\ ProbesUnbroken

\* The search for a key, present or not, is never endless: there is an empty
\* bucket whenever bucket_select may be called, although find never grows the
\* table and buckets_extend fills one without looking at its limit.
EmptyBucket == \E o \in Offsets : buckets.data[o] = Empty

\* ZEND_ASSERT(inserted) in append: in a table that is only appended to, the
\* number of entries is a key that none of them has.
AppendInserts ==
  use.as = "list" /\ pc = "select" =>
    \A n \in 1..entries.used : EntryAt(n).key # call.key

Pairs == [n \in 1..entries.used |-> EntryAt(n)]

Pending == [n \in 1..(snapshot.snap - snapshot.at) |->
              arrays[snapshot.data][snapshot.at + n].value]

Abs == INSTANCE OrderedMap WITH pairs <- Pairs, pending <- Pending

\* The table is a map that remembers the order of insertion; an append during a
\* FOREACH_CURRENT is invisible to it, though the array it reads may be the one
\* that grows, and is visible to a FOREACH_CONCURRENT, though it has to follow
\* the entries to another array.
ImplementsOrderedMap == Abs!Spec
=============================================================================
