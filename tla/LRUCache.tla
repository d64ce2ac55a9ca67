------------------------------ MODULE LRUCache ------------------------------
(***************************************************************************)
(* A shard of the LRU cache under any callers that keep the Cache          *)
(* interface: they release each handle they were given once.  Every        *)
(* operation holds the shard's mutex, so the steps of concurrent callers   *)
(* interleave as whole operations.                                         *)
(***************************************************************************)
EXTENDS LRUShard

CONSTANT MaxPins      \* bound on the references held to one handle

VARIABLES shard,
          pins        \* the references callers hold to each handle

cacheVars == <<shard, pins>>

CacheInit ==
  /\ shard = EmptyShard
  /\ pins = [h \in Handles |-> 0]

CacheLookup(k) ==
  LET h == shard.table[k]
  IN  /\ h # NoHandle => pins[h] < MaxPins
      /\ shard' = Lookup(shard, k)
      /\ pins' = IF h = NoHandle THEN pins ELSE [pins EXCEPT ![h] = @ + 1]

(* malloc returns an address that is not in use.                           *)
CacheInsert(k) ==
  \E h \in Handles \ Live(shard) :
    /\ shard' = Insert(shard, k, h)
    /\ pins' = [pins EXCEPT ![h] = 1]

CacheRelease(h) ==
  /\ pins[h] > 0
  /\ shard' = Unref(shard, h)
  /\ pins' = [pins EXCEPT ![h] = @ - 1]

CacheErase(k) ==
  /\ shard' = Erase(shard, k)
  /\ UNCHANGED pins

CacheNext ==
  \/ \E k \in Keys : CacheLookup(k) \/ CacheInsert(k) \/ CacheErase(k)
  \/ \E h \in Handles : CacheRelease(h)

CacheSpec == CacheInit /\ [][CacheNext]_cacheVars
-----------------------------------------------------------------------------
CacheTypeOK ==
  /\ shard \in ShardType
  /\ pins \in [Handles -> Nat]

(***************************************************************************)
(* Reference counts are exact: one reference for the cache while the       *)
(* handle is in the list, one for each caller that holds it.  So no caller *)
(* holds a freed handle, the assertion "e->refs > 0" of Unref holds, and a *)
(* handle that nobody holds and that has left the cache has been freed.    *)
(***************************************************************************)
RefsExact ==
  \A h \in Handles :
    shard.refs[h] = pins[h] + IF h \in Cached(shard) THEN 1 ELSE 0

(***************************************************************************)
(* The hash table and the list hold the same handles, each under its own   *)
(* key, whichever of Insert (which replaces and evicts), Erase and Lookup  *)
(* moved them.                                                             *)
(***************************************************************************)
TableMatchesList ==
  /\ Distinct(shard.lru)
  /\ \A h \in Cached(shard) : shard.key[h] \in Keys /\ shard.table[shard.key[h]] = h
  /\ \A k \in Keys : shard.table[k] # NoHandle =>
       shard.table[k] \in Cached(shard) /\ shard.key[shard.table[k]] = k

(***************************************************************************)
(* usage_ counts the live handles, those in the list and those that only   *)
(* callers still hold, after any number of evictions of held handles.      *)
(***************************************************************************)
UsageExact == shard.usage = Cardinality(Live(shard))

(***************************************************************************)
(* The cache is over its capacity only when it caches nothing: everything  *)
(* still charged is held by a caller.                                      *)
(***************************************************************************)
CapacityRespected == shard.usage > Capacity => shard.lru = <<>>

(***************************************************************************)
(* The shard keeps its accounts: table and list agree, usage_ counts the   *)
(* live handles, and only held handles exceed the capacity.                *)
(***************************************************************************)
AccountsExact == TableMatchesList /\ UsageExact /\ CapacityRespected

(***************************************************************************)
(* Insert evicts in order of use and no more than it must: when it drops a *)
(* handle of another key from the list, every older handle goes as well,   *)
(* and the shard is then at its capacity or above it.                      *)
(***************************************************************************)
EvictsOldestAndOnlyWhenFull ==
  [][\A j \in DOMAIN shard.lru, k \in Keys :
       /\ shard.lru[j] \notin Cached(shard') /\ shard.key[shard.lru[j]] # k
       /\ CacheInsert(k)
       => /\ shard'.usage >= Capacity
          /\ \A i \in 1 .. j : shard.lru[i] \notin Cached(shard')]_cacheVars
=============================================================================
