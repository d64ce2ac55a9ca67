------------------------------ MODULE LRUShard ------------------------------
(***************************************************************************)
(* One shard of the LRU cache in lib/leveldb/util/cache.cc, the engine of  *)
(* fs/icache: each operation as a function from the shard's state to the   *)
(* state it leaves.  A shard is a record                                   *)
(*   table : key -> handle (HandleTable table_), NoHandle when absent      *)
(*   lru   : the list of handles, lru_.next (oldest) first                 *)
(*   key   : the key a handle was inserted under, NoKey once freed         *)
(*   refs  : LRUHandle::refs, 0 once freed                                 *)
(*   usage : usage_; InodeCache charges 1 for every handle                 *)
(* Shards share nothing, a key always hashes to the same one.              *)
(***************************************************************************)
EXTENDS Naturals, FiniteSets, Functions, LinkedList

CONSTANTS Keys,       \* tfs_meta_key_t
          Handles,    \* the addresses the allocator hands out for handles
          NoKey,
          NoHandle,   \* NULL
          Capacity    \* capacity_ of the shard, MAX_OPEN_FILES / kNumShards

ASSUME CapacityAssumption == Capacity \in Nat
ASSUME FiniteHandlesAssumption == IsFiniteSet(Handles)
ASSUME HandleSentinelAssumption == NoHandle \notin Handles /\ NoKey \notin Keys

ShardType ==
  [table : [Keys -> Handles \cup {NoHandle}], lru : Seq(Handles),
   key : [Handles -> Keys \cup {NoKey}], refs : [Handles -> Nat], usage : Nat]

EmptyShard ==
  [table |-> [k \in Keys |-> NoHandle], lru |-> <<>>,
   key |-> [h \in Handles |-> NoKey], refs |-> [h \in Handles |-> 0], usage |-> 0]

Live(c) == {h \in Handles : c.refs[h] > 0}

Cached(c) == Range(c.lru)

(* Mutant: the charge of a freed handle is not given back.                  *)
UnrefKeepsCharge(c, h) ==
  IF c.refs[h] > 1
  THEN [c EXCEPT !.refs[h] = @ - 1]
  ELSE [c EXCEPT !.refs[h] = 0, !.key[h] = NoKey]

(* Mutant: the charge is given back with every reference.                   *)
UnrefAlwaysCharges(c, h) ==
  IF c.refs[h] > 1
  THEN [c EXCEPT !.refs[h] = @ - 1, !.usage = @ - 1]
  ELSE [c EXCEPT !.refs[h] = 0, !.usage = @ - 1, !.key[h] = NoKey]

(* LRUCache::Unref: the last reference frees the handle.                   *)
Unref(c, h) ==
  IF c.refs[h] > 1
  THEN [c EXCEPT !.refs[h] = @ - 1]
  ELSE [c EXCEPT !.refs[h] = 0, !.usage = @ - 1, !.key[h] = NoKey]

(* LRUCache::Lookup: a hit is referenced and becomes the newest.           *)
Lookup(c, k) ==
  LET h == c.table[k]
  IN  IF h = NoHandle THEN c
      ELSE [c EXCEPT !.refs[h] = @ + 1, !.lru = Append(Unlinked(@, h), h)]

(* LRUCache::Erase *)
Erase(c, k) ==
  LET h == c.table[k]
  IN  IF h = NoHandle THEN c
      ELSE Unref([c EXCEPT !.table[k] = NoHandle, !.lru = Unlinked(@, h)], h)

-----------------------------------------------------------------------------
(* Insert's loop "while (usage_ > capacity_ && lru_.next != &lru_)" takes   *)
(* handles from the old end of the list.  One that a caller still holds     *)
(* leaves the table and the list like the others but keeps its charge, so   *)
(* the loop goes on past it.                                                *)
Unheld(c, n) == {i \in 1 .. n : c.refs[c.lru[i]] = 1}

UsageAfter(c, n) == c.usage - Cardinality(Unheld(c, n))

(* Mutant: the loop stops one handle early.                                 *)
LoopEndsEarly(c, n) ==
  /\ n \in 0 .. Len(c.lru)
  /\ UsageAfter(c, n) <= Capacity + 1 \/ n = Len(c.lru)
  /\ \A m \in 0 .. n - 1 : UsageAfter(c, m) > Capacity + 1

(* Mutant: the loop stops one handle late, "usage_ >= capacity_".           *)
LoopEndsLate(c, n) ==
  /\ n \in 0 .. Len(c.lru)
  /\ UsageAfter(c, n) < Capacity \/ n = Len(c.lru)
  /\ \A m \in 0 .. n - 1 : UsageAfter(c, m) >= Capacity

LoopEndsAt(c, n) ==
  /\ n \in 0 .. Len(c.lru)
  /\ UsageAfter(c, n) <= Capacity \/ n = Len(c.lru)
  /\ \A m \in 0 .. n - 1 : UsageAfter(c, m) > Capacity

(* Mutant: the loop leaves the dropped handles in the hash table.           *)
DropKeepsTable(c, n) ==
  LET dropped == {c.lru[i] : i \in 1 .. n}
      freed   == {h \in dropped : c.refs[h] = 1}
  IN  [table |-> c.table,
       lru   |-> SubSeq(c.lru, n + 1, Len(c.lru)),
       key   |-> [h \in Handles |-> IF h \in freed THEN NoKey ELSE c.key[h]],
       refs  |-> [h \in Handles |-> IF h \in dropped THEN c.refs[h] - 1 ELSE c.refs[h]],
       usage |-> UsageAfter(c, n)]

(* The first n handles of the list are dropped: each gives up its table     *)
(* slot and the reference the cache had to it.                              *)
Drop(c, n) ==
  LET dropped == {c.lru[i] : i \in 1 .. n}
      freed   == {h \in dropped : c.refs[h] = 1}
      gone    == {c.key[h] : h \in dropped}
  IN  [table |-> [k \in Keys |-> IF k \in gone THEN NoHandle ELSE c.table[k]],
       lru   |-> SubSeq(c.lru, n + 1, Len(c.lru)),
       key   |-> [h \in Handles |-> IF h \in freed THEN NoKey ELSE c.key[h]],
       refs  |-> [h \in Handles |-> IF h \in dropped THEN c.refs[h] - 1 ELSE c.refs[h]],
       usage |-> UsageAfter(c, n)]

Shrink(c) == Drop(c, CHOOSE n \in 0 .. Len(c.lru) : LoopEndsAt(c, n))

(* Mutant: no reference for the caller.                                     *)
LinkOneReference(c, k, h) ==
  LET old    == c.table[k]
      linked == [c EXCEPT !.table[k] = h, !.key[h] = k, !.refs[h] = 1,
                          !.lru = Append(@, h), !.usage = @ + 1]
  IN  IF old = NoHandle THEN linked
      ELSE Unref([linked EXCEPT !.lru = Unlinked(@, old)], old)

(* Insert up to its loop: the new handle h has two references, one from     *)
(* the cache and one for the caller; a handle of the same key is replaced.  *)
Link(c, k, h) ==
  LET old    == c.table[k]
      linked == [c EXCEPT !.table[k] = h, !.key[h] = k, !.refs[h] = 2,
                          !.lru = Append(@, h), !.usage = @ + 1]
  IN  IF old = NoHandle THEN linked
      ELSE Unref([linked EXCEPT !.lru = Unlinked(@, old)], old)

(* LRUCache::Insert *)
Insert(c, k, h) == Shrink(Link(c, k, h))

-----------------------------------------------------------------------------
(* A shard is sound for the references p that its callers hold: the list   *)
(* and the table agree, references are exact, and usage_ counts handles.   *)
TablesAgree(c) ==
  /\ Distinct(c.lru)
  /\ \A h \in Cached(c) : c.key[h] \in Keys /\ c.table[c.key[h]] = h
  /\ \A k \in Keys : c.table[k] # NoHandle =>
       c.table[k] \in Cached(c) /\ c.key[c.table[k]] = k

RefsCount(c, p) ==
  \A h \in Handles : c.refs[h] = p[h] + IF h \in Cached(c) THEN 1 ELSE 0

Sound(c, p) ==
  /\ c \in ShardType
  /\ p \in [Handles -> Nat]
  /\ TablesAgree(c)
  /\ RefsCount(c, p)
  /\ c.usage = Cardinality(Live(c))

(* A shard over its capacity caches nothing.                               *)
Fits(c) == c.usage > Capacity => c.lru = <<>>

(* What the operations leave of a shard they found as c: no handle that was *)
(* not in the list enters it, and live handles keep their keys.             *)
Follows(c, d) ==
  /\ Cached(d) \subseteq Cached(c)
  /\ \A h \in Live(d) : d.key[h] = c.key[h]
=============================================================================
