----------------------------- MODULE InodeCalls -----------------------------
(***************************************************************************)
(* The calls of class TableFS (fs/tablefs.cpp) as they act on inode        *)
(* records: which handle of the inode cache each one takes, changes,       *)
(* writes back, gives up and evicts, as functions from the store a call    *)
(* finds to the store it leaves.  The path is already resolved to a key.   *)
(* A call on a key without a record fails and changes nothing.             *)
(***************************************************************************)
EXTENDS InodeCache

Exists(st, k) == Handle(st, k) # NoHandle

(* Mutant: the handle is released twice.                                    *)
GetAttrReleasesTwice(st, k) ==
  LET h == Handle(st, k)
  IN  IF h = NoHandle THEN st
      ELSE Release(Release(Get(st, k, INODE_READ), h), h)

(* TableFS::GetAttr                                                         *)
GetAttr(st, k) ==
  LET h == Handle(st, k)
  IN  IF h = NoHandle THEN st ELSE Release(Get(st, k, INODE_READ), h)

(* TableFS::Open, and OpenDir with INODE_READ; the caller keeps the handle. *)
Open(st, k, mode) == Get(st, k, mode)

(* TableFS::Write marks the handle before it touches the record.            *)
Write(st, h, v) == [st EXCEPT !.mode[h] = INODE_WRITE, !.value[h] = v]

(* TableFS::Release.  The access times it sets are not part of the version. *)
Close(st, h) == Evict(Release(WriteBack(st, h), h), st.shard.key[h])

(* TableFS::ReleaseDir                                                      *)
CloseDir(st, h) == Release(st, h)

(* Mutant: the handle is not released.                                      *)
SetAttrKeepsHandle(st, k, v) ==
  LET h   == Handle(st, k)
      got == Get(st, k, INODE_WRITE)
  IN  IF h = NoHandle THEN st ELSE WriteBack([got EXCEPT !.value[h] = v], h)

(* Mutant: the update stays in the cache.                                   *)
SetAttrInCache(st, k, v) ==
  LET h   == Handle(st, k)
      got == Get(st, k, INODE_WRITE)
  IN  IF h = NoHandle THEN st ELSE Release([got EXCEPT !.value[h] = v], h)

(* TableFS::Chmod, Chown, UpdateTimens, and Truncate as far as the record   *)
(* goes.                                                                    *)
SetAttr(st, k, v) ==
  LET h   == Handle(st, k)
      got == Get(st, k, INODE_WRITE)
  IN  IF h = NoHandle THEN st ELSE Release(WriteBack([got EXCEPT !.value[h] = v], h), h)

(* TableFS::MakeNode, MakeDir and Symlink put the record into the metadata  *)
(* store behind the cache's back.                                           *)
Make(st, k, v) == [st EXCEPT !.db[k] = v]

(* Mutant: the handle stays in the cache.                                   *)
UnlinkKeepsCached(st, k) ==
  LET h == Handle(st, k)
  IN  IF h = NoHandle THEN st ELSE Release(Get(st, k, INODE_DELETE), h)

(* TableFS::Unlink and RemoveDir                                            *)
Unlink(st, k) ==
  LET h == Handle(st, k)
  IN  IF h = NoHandle THEN st ELSE Evict(Release(Get(st, k, INODE_DELETE), h), k)

(* TableFS::Rename                                                          *)
Rename(st, old, new) ==
  LET oldh == Handle(st, old)
      got  == Get(st, old, INODE_DELETE)
      newh == NewHandle(got)
      done == BatchCommit(InsertInode(got, new, got.value[oldh]), oldh, newh)
  IN  IF oldh = NoHandle THEN st
      ELSE Evict(Release(Release(done, newh), oldh), old)

(* What the calls find under a key: the cached record, else the store's.    *)
Found(st, k) ==
  LET h == st.shard.table[k]
  IN  IF h # NoHandle THEN st.value[h] ELSE st.db[k]

(* TableFS::Destroy deletes the cache: ~LRUCache gives up the cache's       *)
(* reference to every handle in the list.                                   *)
Destroyed(st) == Clean(st, Drop(st.shard, Len(st.shard.lru)))
=============================================================================
