----------------------------- MODULE InodeCache -----------------------------
(***************************************************************************)
(* The inode cache of fs/icache.{h,cpp}: an LRU shard whose handles carry  *)
(* a copy of an inode record and an access mode, in front of the metadata  *)
(* store.  Each method is a function from the state of the store to the    *)
(* state it leaves.  A store is a record                                   *)
(*   shard : the shard of the LRU cache                                    *)
(*   value : handle -> InodeCacheHandle::value_                            *)
(*   mode  : handle -> InodeCacheHandle::mode_                             *)
(*   db    : key -> record in the metadata store, NoValue when absent      *)
(* InodeCacheHandle::key_ is the key the handle was inserted under.        *)
(***************************************************************************)
EXTENDS LRUShard

CONSTANTS Versions,   \* the contents a record can have
          NoValue     \* no record

ASSUME VersionsAssumption == NoValue \notin Versions

(* enum InodeAccessMode, in its order *)
INODE_READ   == 0
INODE_DELETE == 1
INODE_WRITE  == 2

EmptyStore(db) ==
  [shard |-> EmptyShard, value |-> [h \in Handles |-> NoValue],
   mode |-> [h \in Handles |-> INODE_READ], db |-> db]

(* What writing back one handle does to the metadata store.                *)
Flushed(db, k, mode, value) ==
  CASE mode = INODE_WRITE  -> [db EXCEPT ![k] = value]
    [] mode = INODE_DELETE -> [db EXCEPT ![k] = NoValue]
    [] OTHER               -> db

(* CleanInodeHandle, the deleter, runs on every handle whose last           *)
(* reference the shard gives up on its way to the state c.  No two of them  *)
(* have the same key: at most one of a key is in the table.                 *)
Clean(st, c) ==
  LET freed == Live(st.shard) \ Live(c)
      flushes == {h \in freed : st.mode[h] # INODE_READ}
      Of(k) == {h \in flushes : st.shard.key[h] = k}
  IN  [shard |-> c,
       value |-> [h \in Handles |-> IF h \in freed THEN NoValue ELSE st.value[h]],
       mode  |-> [h \in Handles |-> IF h \in freed THEN INODE_READ ELSE st.mode[h]],
       db    |-> [k \in Keys |->
                    IF Of(k) = {} THEN st.db[k]
                    ELSE LET h == CHOOSE h \in Of(k) : TRUE
                         IN  Flushed(st.db, k, st.mode[h], st.value[h])[k]]]

(* "new InodeCacheHandle" and cache->Insert                                *)
NewHandle(st) == CHOOSE h \in Handles : h \notin Live(st.shard)

Inserted(st, k, h, value, mode) ==
  Clean([st EXCEPT !.value[h] = value, !.mode[h] = mode], Insert(st.shard, k, h))

(* InodeCache::Insert(key, value): the handle is NewHandle(st).            *)
InsertInode(st, k, value) == Inserted(st, k, NewHandle(st), value, INODE_WRITE)

(* InodeCache::Get: the handle returned, and the state it leaves.  A hit   *)
(* takes over the stronger modes; a miss loads the record from the store.  *)
Handle(st, k) ==
  IF st.shard.table[k] # NoHandle THEN st.shard.table[k]
  ELSE IF st.db[k] # NoValue THEN NewHandle(st) ELSE NoHandle

Get(st, k, mode) ==
  LET hit == st.shard.table[k]
  IN  IF hit # NoHandle
      THEN [st EXCEPT !.shard = Lookup(@, k),
                      !.mode[hit] = IF mode > INODE_READ THEN mode ELSE @]
      ELSE IF st.db[k] # NoValue
           THEN Inserted(st, k, NewHandle(st), st.db[k], mode)
           ELSE st

(* InodeCache::Release *)
Release(st, h) == Clean(st, Unref(st.shard, h))

(* InodeCache::Evict *)
Evict(st, k) == Clean(st, Erase(st.shard, k))

(* Mutant: the mode is not reset after a write-back.                        *)
SettledStaysDirty(st, h) ==
  IF st.mode[h] = INODE_DELETE THEN Evict(st, st.shard.key[h]) ELSE st

(* One half of BatchCommit, and WriteBack: an INODE_WRITE handle becomes    *)
(* clean, an INODE_DELETE handle leaves the cache and keeps its mode.       *)
Settled(st, h) ==
  CASE st.mode[h] = INODE_WRITE  -> [st EXCEPT !.mode[h] = INODE_READ]
    [] st.mode[h] = INODE_DELETE -> Evict(st, st.shard.key[h])
    [] OTHER                     -> st

(* InodeCache::WriteBack *)
WriteBack(st, h) ==
  Settled([st EXCEPT !.db = Flushed(@, st.shard.key[h], st.mode[h], st.value[h])], h)

(* InodeCache::BatchCommit: both handles are settled while the batch is     *)
(* built, the batch is applied to the store last, in order.                 *)
BatchCommit(st, h1, h2) ==
  LET one == Settled(st, h1)
      two == Settled(one, h2)
  IN  [two EXCEPT !.db =
         Flushed(Flushed(@, st.shard.key[h1], st.mode[h1], st.value[h1]),
                 st.shard.key[h2], one.mode[h2], one.value[h2])]
=============================================================================
