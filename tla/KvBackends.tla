----------------------------- MODULE KvBackends -----------------------------
(***************************************************************************)
(* The back ends of TableFS: the classes derived from KvWrapper and        *)
(* KvIterator (adaptor/), one of which is chosen when TableFS is built.    *)
(* What they differ in is a record of constants for each: how a batch is   *)
(* applied, which writes they ask to be synced, and how they iterate.      *)
(* The stores below them are external.                                     *)
(***************************************************************************)
EXTENDS Integers, Sequences, FiniteSets, SequencesExt

CONSTANTS Backend,              \* the back end that is compiled in
          Keys, Values,
          sync_size_limit,      \* 0: the limit is on time
          sync_time_limit,
          MaxCalls, MaxTime     \* bounds

None == "none"

(* batch: applied as one write of the store, or update by update.           *)
(* policy: whether Put passes on the sync flag it works out.                *)
(* vector: Seek copies the result of a scan, and a cursor moves over it;    *)
(* prev: what Prev does to the place.                                       *)
LeveldbWrapper == [batch |-> "whole", policy |-> TRUE]
LeveldbIterator == [vector |-> FALSE, prev |-> 1]
RocksdbWrapper == [batch |-> "whole", policy |-> FALSE]
RocksdbIterator == [vector |-> FALSE, prev |-> 1]
TlhashWrapper == [batch |-> "each", policy |-> FALSE]
TlhashIterator == [vector |-> TRUE, prev |-> -1]
uTreeWrapper == [batch |-> "each", policy |-> FALSE]
uTreeIterator == [vector |-> TRUE, prev |-> -1]
RoartWrapper == [batch |-> "each", policy |-> FALSE]
RoartIterator == [vector |-> TRUE, prev |-> -1]
MetaKVWrapper == [batch |-> "each", policy |-> FALSE]
MetaKVIterator == [vector |-> TRUE, prev |-> -1]
HikvWrapper == [batch |-> "each", policy |-> FALSE]
HikvIterator == [vector |-> TRUE, prev |-> -1]

Wrapper ==
  CASE Backend = "LEVELDB" -> LeveldbWrapper [] Backend = "ROCKSDB" -> RocksdbWrapper
    [] Backend = "TLHASH" -> TlhashWrapper [] Backend = "UTREE" -> uTreeWrapper
    [] Backend = "ROART" -> RoartWrapper [] Backend = "METAKV" -> MetaKVWrapper
    [] Backend = "HIKV" -> HikvWrapper
Iterator ==
  CASE Backend = "LEVELDB" -> LeveldbIterator [] Backend = "ROCKSDB" -> RocksdbIterator
    [] Backend = "TLHASH" -> TlhashIterator [] Backend = "UTREE" -> uTreeIterator
    [] Backend = "ROART" -> RoartIterator [] Backend = "METAKV" -> MetaKVIterator
    [] Backend = "HIKV" -> HikvIterator

VARIABLES store,        \* what the store holds
          pending,      \* the updates of a batch that are not applied yet
          calls,        \* the batches of the calls so far
          async_data_size, last_sync_time, now,
          unsynced,     \* when the updates were put that no sync has followed
          it            \* the iterator: where its items come from, and its place
vars == <<store, pending, calls, async_data_size, last_sync_time, now, unsynced, it>>
policy == <<async_data_size, last_sync_time, now, unsynced>>

NoIterator == [open |-> FALSE, made |-> {}, seen |-> <<>>, items |-> {}, at |-> 0]

Put(k, v) == [key |-> k, value |-> v]
Delete(k) == [key |-> k, value |-> None]
Applied(st, op) == [st EXCEPT ![op.key] = op.value]
Contents(ops) == FoldLeft(LAMBDA st, op : Applied(st, op), [k \in Keys |-> None], ops)

Init ==
  /\ store = [k \in Keys |-> None] /\ pending = <<>> /\ calls = <<>>
  /\ async_data_size = 0 /\ last_sync_time = 0 /\ now = 0 /\ unsynced = <<>>
  /\ it = NoIterator
-----------------------------------------------------------------------------
(* Mutant: the write itself is not counted, or a time limit reached is one  *)
(* not yet passed.                                                          *)
SyncsLate ==
  IF sync_size_limit > 0 THEN async_data_size > sync_size_limit
  ELSE sync_time_limit > 0 /\ now - last_sync_time > sync_time_limit + 1

(* Put of LeveldbWrapper and RocksdbWrapper: a record has size 1.           *)
Syncs ==
  IF sync_size_limit > 0 THEN async_data_size + 1 > sync_size_limit
  ELSE sync_time_limit > 0 /\ now - last_sync_time > sync_time_limit

PutCall(k, v) ==
  /\ pending = <<>> /\ Len(calls) < MaxCalls
  /\ calls' = Append(calls, <<Put(k, v)>>)
  /\ store' = Applied(store, Put(k, v))
  /\ async_data_size' = IF sync_size_limit = 0 \/ Syncs THEN 0 ELSE async_data_size + 1
  /\ last_sync_time' = IF sync_size_limit = 0 /\ Syncs THEN now ELSE last_sync_time
  /\ unsynced' = IF Wrapper.policy /\ Syncs THEN <<>> ELSE Append(unsynced, now)
  /\ UNCHANGED <<pending, now, it>>

(* Delete is written without a sync and without being counted.              *)
DeleteCall(k) ==
  /\ pending = <<>> /\ Len(calls) < MaxCalls
  /\ calls' = Append(calls, <<Delete(k)>>)
  /\ store' = Applied(store, Delete(k))
  /\ UNCHANGED <<pending, policy, it>>

(* Mutant: the store gets the updates of a batch one by one.                *)
UpdatesAtOnceFirst(ops) == 1

(* How many updates of a batch the store takes at once.                     *)
UpdatesAtOnce(ops) == IF Wrapper.batch = "whole" THEN Len(ops) ELSE 1

(* Write, as InodeCache::BatchCommit calls it: the old key goes first.      *)
WriteCall(old, new) ==
  /\ pending = <<>> /\ Len(calls) < MaxCalls
  /\ old # new /\ store[old] # None
  /\ LET ops == <<Delete(old), Put(new, store[old])>>
         n   == UpdatesAtOnce(ops)
     IN /\ calls' = Append(calls, ops)
        /\ store' = FoldLeft(LAMBDA st, op : Applied(st, op), store, SubSeq(ops, 1, n))
        /\ pending' = SubSeq(ops, n + 1, Len(ops))
  /\ UNCHANGED <<policy, it>>

(* Mutant: the rest of the batch is dropped.                                *)
WriteNextDrops ==
  /\ pending # <<>> /\ pending' = <<>>
  /\ UNCHANGED <<store, calls, policy, it>>

(* The inserters' Put and Delete, called by WriteBatch::Iterate.            *)
WriteNext ==
  /\ pending # <<>>
  /\ store' = Applied(store, Head(pending))
  /\ pending' = Tail(pending)
  /\ UNCHANGED <<calls, policy, it>>

(* Sync puts the key "sync", which is no key of a record, with sync.        *)
SyncCall ==
  /\ pending = <<>> /\ Wrapper.batch = "whole"
  /\ unsynced' = <<>>
  /\ UNCHANGED <<store, pending, calls, async_data_size, last_sync_time, now, it>>

Tick ==
  /\ now < MaxTime /\ now' = now + 1
  /\ UNCHANGED <<store, pending, calls, async_data_size, last_sync_time, unsynced, it>>
-----------------------------------------------------------------------------
Present == {k \in Keys : store[k] # None}
Sorted(items) == SetToSortSeq(items, LAMBDA a, b : a < b)

(* Mutant: the iterator shows the store as it is.                           *)
SourceLive == Present

(* What Seek positions in: the result of a scan that it copies, or the      *)
(* store as it was when NewIterator was called.                             *)
Source == IF Iterator.vector THEN Present ELSE it.made

NewIterator ==
  /\ ~it.open
  /\ it' = [NoIterator EXCEPT !.open = TRUE, !.made = Present]
  /\ UNCHANGED <<store, pending, calls, policy>>

(* Mutant: the cursor starts at the second item.                            *)
SeekSecond ==
  /\ it.open /\ it.at = 0
  /\ it' = [it EXCEPT !.items = Source, !.at = 2, !.made = Source]
  /\ UNCHANGED <<store, pending, calls, policy>>

(* Seek to the first key of a directory, on a new iterator.                 *)
Seek ==
  /\ it.open /\ it.at = 0
  /\ it' = [it EXCEPT !.items = Source, !.at = 1,
                      !.made = IF Iterator.vector THEN Present ELSE @]
  /\ UNCHANGED <<store, pending, calls, policy>>

Valid == it.open /\ it.at \in 1 .. Cardinality(it.items)

(* The loop of ReadDir: key(), value(), Next().                             *)
IteratorNext ==
  /\ Valid
  /\ it' = [it EXCEPT !.seen = Append(@, Sorted(it.items)[it.at]), !.at = @ + 1]
  /\ UNCHANGED <<store, pending, calls, policy>>

IteratorPrev ==
  /\ Valid /\ it.at > 1
  /\ it' = [it EXCEPT !.at = @ + Iterator.prev]
  /\ UNCHANGED <<store, pending, calls, policy>>

DeleteIterator ==
  /\ it.open
  /\ it' = NoIterator
  /\ UNCHANGED <<store, pending, calls, policy>>

Next ==
  \/ \E k \in Keys : DeleteCall(k) \/ \E v \in Values : PutCall(k, v)
  \/ \E old, new \in Keys : WriteCall(old, new)
  \/ WriteNext \/ SyncCall \/ Tick
  \/ NewIterator \/ Seek \/ IteratorNext \/ DeleteIterator

(* With Prev, which TableFS itself never calls.                             *)
NextWithPrev == Next \/ IteratorPrev

Spec == Init /\ [][Next]_vars
SpecWithPrev == Init /\ [][NextWithPrev]_vars
-----------------------------------------------------------------------------
TypeOK ==
  /\ store \in [Keys -> Values \cup {None}]
  /\ Len(pending) <= 1 /\ Len(calls) <= MaxCalls
  /\ async_data_size \in 0 .. sync_size_limit /\ last_sync_time \in 0 .. now

(***************************************************************************)
(* write_batch.h: a WriteBatch holds updates to apply atomically.  At any  *)
(* moment, and so after a crash, the store holds the updates of whole      *)
(* calls only; a rename has either not happened or happened.               *)
(***************************************************************************)
BatchesAtomic ==
  \E n \in {Len(calls) - 1, Len(calls)} \cap Nat : store = Contents(FlattenSeq(SubSeq(calls, 1, n)))

(***************************************************************************)
(* Between calls every back end holds what the calls so far put and        *)
(* deleted, in their order.                                                *)
(***************************************************************************)
CallsApplied == pending = <<>> => store = Contents(FlattenSeq(calls))

(***************************************************************************)
(* LeveldbWrapper::Put asks for a sync so often that the records put       *)
(* since the last one are never more than sync_size_limit, or, when the    *)
(* limit is on time, were put within sync_time_limit of each other.        *)
(***************************************************************************)
SyncsOften ==
  IF sync_size_limit > 0 THEN Len(unsynced) <= sync_size_limit
  ELSE \A i, j \in DOMAIN unsynced : unsynced[j] - unsynced[i] <= sync_time_limit

(***************************************************************************)
(* ReadDir's loop shows every record once, as the store was at one moment, *)
(* while other threads put, delete and rename.                             *)
(***************************************************************************)
ListsOneMoment ==
  it.open /\ it.at > Cardinality(it.items) => it.seen = Sorted(it.made)

(***************************************************************************)
(* iterator.h: Prev moves to the previous entry.                           *)
(***************************************************************************)
PrevMovesBack == [][IteratorPrev => it'.at = it.at - 1]_vars
=============================================================================
