------------------------------ MODULE FSWrapper ------------------------------
(***************************************************************************)
(* TableFSWrapper of fs/fswrapper.{h,cpp}: TableFS linked into a program   *)
(* (fsbench, fswrapper_test) without the kernel in between, used by one    *)
(* thread.  Each method is one step; a method that makes several TableFS   *)
(* calls makes them in the order of the code.  The program closes its      *)
(* descriptors before it deletes the wrapper.                              *)
(***************************************************************************)
EXTENDS InodeCalls, SequencesExt

CONSTANTS Children,      \* key of a directory -> keys of its entries, in key order
          FdLimit,       \* FDLIMIT
          MaxListings    \* bound on the listings between Setup and Destroy

ASSUME FdLimitAssumption == FdLimit \in Nat

VARIABLES store,         \* the inode cache and the metadata store
          fds,           \* freefd and fis: the handle open under a descriptor, if any
          listings,      \* handle -> listings that have taken it
          latest,        \* key -> the content the last completed call gave it
          raced,         \* keys one of whose open handles left the cache, or
                         \* that were renamed to themselves
          strayed        \* a method has used descriptor -1: anything may follow

vars == <<store, fds, listings, latest, raced, strayed>>

Fds == 0 .. FdLimit - 1

FreeFds == {fd \in Fds : fds[fd] = NoHandle}

(* The lowest free one, or -1.                                              *)
GetFileDescriptor == IF FreeFds = {} THEN -1 ELSE Min(FreeFds)

NoListings == [h \in Handles |-> 0]

Init ==
  /\ \E db \in [Keys -> Versions \cup {NoValue}] : store = EmptyStore(db) /\ latest = db
  /\ fds = [fd \in Fds |-> NoHandle]
  /\ listings = NoListings
  /\ raced = {}
  /\ strayed = FALSE

DetachedKeys ==
  {store.shard.key[fds[fd]] :
     fd \in {g \in Fds \ FreeFds : store.shard.table[store.shard.key[fds[g]]] # fds[g]}}

(* What a method leaves behind, and what happens to the keys of open files. *)
Leaves(st, files, content) ==
  /\ store' = st
  /\ fds' = files
  /\ latest' = content
  /\ raced' = raced \cup DetachedKeys'

Leave(st, files, content) ==
  /\ ~strayed /\ UNCHANGED strayed
  /\ Leaves(st, files, content)

(* A method that ends with the use of descriptor fd.  After a use of        *)
(* paths[-1] or fis[-1] anything may follow, which is not modelled.         *)
LeaveUsing(fd, st, files, content) ==
  /\ ~strayed /\ strayed' = (fd = -1)
  /\ Leaves(st, files, content)

Stat(k) ==
  /\ Leave(GetAttr(store, k), fds, latest)
  /\ UNCHANGED listings

(* Mutant: the record is made without looking for one.                      *)
MknodBlind(k, v) ==
  /\ Leave(GetAttr(Make(store, k, v), k), fds, [latest EXCEPT ![k] = v])
  /\ UNCHANGED listings

(* Mknod and Mkdir: Stat, MakeNode or MakeDir when that fails, Stat.        *)
Mknod(k, v) ==
  /\ IF Exists(store, k)
     THEN Leave(GetAttr(store, k), fds, latest)
     ELSE Leave(GetAttr(Make(store, k, v), k), fds, [latest EXCEPT ![k] = v])
  /\ UNCHANGED listings

Utime(k, v) ==
  /\ Exists(store, k)
  /\ Leave(SetAttr(store, k, v), fds, [latest EXCEPT ![k] = v])
  /\ UNCHANGED listings

Chmod(k, v) ==
  /\ Exists(store, k)
  /\ Leave(GetAttr(SetAttr(GetAttr(store, k), k, v), k), fds,
           [latest EXCEPT ![k] = v])
  /\ UNCHANGED listings

(* Open does not look whether there was a free descriptor.  When            *)
(* TableFS::Open fails, the descriptor is given back.                       *)
OpenFd(k, mode) ==
  LET fd == GetFileDescriptor
  IN  /\ \/ fd = -1 /\ LeaveUsing(fd, store, fds, latest)
         \/ /\ fd # -1
            /\ Exists(store, k)
            /\ LeaveUsing(fd, Open(store, k, mode), [fds EXCEPT ![fd] = Handle(store, k)], latest)
      /\ UNCHANGED listings

(* Neither Write asks how the file was opened.                              *)
WriteFd(fd, v) ==
  /\ fd \notin FreeFds
  /\ Leave(Write(store, fds[fd], v), fds, [latest EXCEPT ![store.shard.key[fds[fd]]] = v])
  /\ UNCHANGED listings

(* Mutant: the handle is written back and evicted, not released.            *)
CloseFdKeepsHandle(fd) ==
  LET h == fds[fd]
  IN  /\ fd \notin FreeFds
      /\ Leave(Evict(WriteBack(store, h), store.shard.key[h]), [fds EXCEPT ![fd] = NoHandle], latest)
      /\ UNCHANGED listings

CloseFd(fd) ==
  /\ fd \notin FreeFds
  /\ Leave(Close(store, fds[fd]), [fds EXCEPT ![fd] = NoHandle], latest)
  /\ UNCHANGED listings

(* Unlink leaves the deletion of the record to the deleter of its handle.   *)
UnlinkPath(k) ==
  /\ Exists(store, k)
  /\ Leave(Unlink(store, k), fds, [latest EXCEPT ![k] = NoValue])
  /\ UNCHANGED listings

RenamePath(old, new) ==
  /\ old # new
  /\ Exists(store, old)
  /\ Leave(Rename(store, old, new), fds,
           [latest EXCEPT ![old] = NoValue, ![new] = Found(store, old)])
  /\ UNCHANGED listings

(* Nothing keeps a program from renaming a path to itself.  The deleter of  *)
(* the old handle then takes away the record that was just written.         *)
RenameToItself(k) ==
  /\ Exists(store, k) /\ ~strayed
  /\ store' = Rename(store, k, k)
  /\ UNCHANGED <<fds, listings, latest, strayed>>
  /\ raced' = raced \cup {k} \cup DetachedKeys'

-----------------------------------------------------------------------------
(* Listdir, Lsstat and Scanfile open the directory, visit the entries that  *)
(* ReadDir finds in the metadata store, and return: no ReleaseDir.          *)
OpenedDir(k) == Open(store, k, INODE_READ)

Entries(k) == SelectSeq(Children[k], LAMBDA c : OpenedDir(k).db[c] # NoValue)

CountListing(k) ==
  /\ FoldFunction(+, 0, listings) < MaxListings
  /\ listings' = [listings EXCEPT ![Handle(store, k)] = @ + 1]

(* fuse_filler_dir only counts the entries.                                 *)
Listdir(k) ==
  /\ Exists(store, k)
  /\ CountListing(k)
  /\ Leave(OpenedDir(k), fds, latest)

(* lsstat_filler makes a Stat of each entry; "." and ".." have no record.   *)
(* It returns no value, which ReadDir may take for a failure at any entry.  *)
Lsstat(k) ==
  /\ Exists(store, k)
  /\ CountListing(k)
  /\ \E n \in 0 .. Len(Entries(k)) :
       Leave(FoldLeft(GetAttr, OpenedDir(k), SubSeq(Entries(k), 1, n)), fds, latest)

(* scanfile_filler makes a Stat of the entry, opens it, reads it and closes *)
(* the descriptor, without a look at what Open returned.  "." and "..",     *)
(* which ReadDir reports first, have no record (NoKey).                     *)
Scanned(scan, c) ==
  LET found == c \in Keys /\ Exists(scan.store, c)
      stat  == GetAttr(scan.store, c)
  IN  CASE scan.fd = -1 -> scan
        [] ~found -> [scan EXCEPT !.fd = -1]
        [] found /\ GetFileDescriptor = -1 -> [store |-> stat, fd |-> -1]
        [] OTHER -> [store |-> Close(Open(stat, c, INODE_READ), Handle(stat, c)),
                     fd |-> GetFileDescriptor]

Scanfile(k) ==
  /\ Exists(store, k)
  /\ CountListing(k)
  /\ LET names == <<NoKey, NoKey>> \o Entries(k)
     IN  \E n \in DOMAIN names :
           LET scan == FoldLeft(Scanned, [store |-> OpenedDir(k), fd |-> 0], SubSeq(names, 1, n))
           IN  LeaveUsing(scan.fd, scan.store, fds, latest)

-----------------------------------------------------------------------------
(* The record of a directory whose handle a listing holds is still there    *)
(* after an unlink: the deleter has not run.                                *)
UnlinkPending(k) ==
  \E h \in Handles :
    listings[h] > 0 /\ store.shard.key[h] = k /\ store.mode[h] = INODE_DELETE

(* ~TableFSWrapper, and the Setup of the next one.                          *)
Destroy ==
  LET last == Destroyed(store)
  IN  /\ FreeFds = Fds /\ ~strayed
      /\ store' = EmptyStore(last.db)
      /\ listings' = NoListings
      /\ latest' = [k \in Keys |->
                      IF k \in raced \/ UnlinkPending(k) THEN last.db[k] ELSE latest[k]]
      /\ raced' = {}
      /\ UNCHANGED <<fds, strayed>>

Next ==
  \/ \E k \in Keys : Stat(k) \/ UnlinkPath(k) \/ RenameToItself(k)
  \/ \E k \in DOMAIN Children : Listdir(k) \/ Lsstat(k) \/ Scanfile(k)
  \/ \E k \in Keys, v \in Versions : Mknod(k, v) \/ Utime(k, v) \/ Chmod(k, v)
  \/ \E old, new \in Keys : RenamePath(old, new)
  \/ \E k \in Keys, mode \in {INODE_READ, INODE_WRITE} : OpenFd(k, mode)
  \/ \E fd \in Fds, v \in Versions : WriteFd(fd, v)
  \/ \E fd \in Fds : CloseFd(fd)
  \/ Destroy

Spec == Init /\ [][Next]_vars
-----------------------------------------------------------------------------
TypeOK ==
  /\ store.shard \in ShardType
  /\ store.value \in [Handles -> Versions \cup {NoValue}]
  /\ store.mode \in [Handles -> {INODE_READ, INODE_DELETE, INODE_WRITE}]
  /\ store.db \in [Keys -> Versions \cup {NoValue}]
  /\ fds \in [Fds -> Handles \cup {NoHandle}]
  /\ listings \in [Handles -> 0 .. MaxListings]
  /\ latest \in [Keys -> Versions \cup {NoValue}]
  /\ raced \subseteq Keys
  /\ strayed \in BOOLEAN

(***************************************************************************)
(* Every method of the wrapper gives back the handles it takes, except     *)
(* those of open descriptors and one for each listing: a listed directory  *)
(* that the cache no longer finds stays allocated, with its charge.        *)
(***************************************************************************)
OnlyListingsLeak ==
  \A h \in Handles :
    store.shard.refs[h] = Cardinality({fd \in Fds : fds[fd] = h}) + listings[h]
                          + IF h \in Cached(store.shard) THEN 1 ELSE 0

(***************************************************************************)
(* A key shows the content of the last call, before and after a restart,   *)
(* although listings leave handles behind: none of them is written back,   *)
(* and none hides a newer record.  Three exceptions: a directory that was  *)
(* unlinked while a listing holds its handle keeps its record, a record    *)
(* renamed to itself is lost, and an open descriptor whose handle has left *)
(* the cache (raced), which the charge of leaked handles brings about      *)
(* sooner, may overwrite or revive one.                                    *)
(***************************************************************************)
ListingsOnlyBlockUnlink ==
  \A k \in Keys \ raced :
    Found(store, k) = latest[k] \/ (latest[k] = NoValue /\ UnlinkPending(k))

(***************************************************************************)
(* When the wrapper is deleted with all descriptors closed, the cache is   *)
(* the only owner of the handles in its list: the assertion                *)
(* "e->refs == 1" of ~LRUCache.                                            *)
(***************************************************************************)
NoUnreleasedHandle ==
  [][Destroy => \A h \in Cached(store.shard) : store.shard.refs[h] = 1]_vars

(***************************************************************************)
(* A descriptor is used only if Open has returned one, as fsbench does     *)
(* with "if (fd >= 0)" before its own calls of Read, Write and Close.      *)
(***************************************************************************)
DescriptorsChecked == ~strayed
=============================================================================
