--------------------------- MODULE InodeHandlers ----------------------------
(***************************************************************************)
(* TableFS under the kernel: FUSE runs single-threaded (tablefs_main       *)
(* passes "-s"), so a call of class TableFS is one step, and between two   *)
(* calls only open files and directories hold handles of the inode cache.  *)
(* A record is abstracted to the version of its content: every update of   *)
(* an attribute or of data makes some version.                             *)
(***************************************************************************)
EXTENDS InodeCalls

CONSTANTS Files,      \* the open files and directories there can be
          Root        \* the key of the root's record, or NoKey: not among Keys

(* "new InodeCacheHandle" finds memory: a call holds at most one handle     *)
(* more than the open files and directories when it makes another.          *)
ASSUME HandlesAssumption ==
  /\ IsFiniteSet(Files)
  /\ Cardinality(Handles) > Capacity /\ Cardinality(Handles) > Cardinality(Files) + 1

VARIABLES store,      \* the inode cache and the metadata store
          open,       \* Files -> [handle, how]; how is NotOpen when closed
          latest,     \* key -> the content the last completed call gave it
          raced,      \* keys one of whose open handles left the cache
          numbered,   \* max_inode_num > 0: this mount knows of an inode
          saved       \* the number in root.dat > 0

vars == <<store, open, latest, raced, numbered, saved>>

NotOpen == "closed"
Reading == "read"
Writing == "write"
Listing == "dir"

Closed == [handle |-> NoHandle, how |-> NotOpen]

HandleKey(h) == store.shard.key[h]

OpenFiles == {f \in Files : open[f].how # NotOpen}

(* A key with an open handle that is not the one the cache now finds.       *)
DetachedKeys ==
  {store.shard.key[open[f].handle] :
     f \in {g \in OpenFiles :
              store.shard.table[store.shard.key[open[g].handle]] # open[g].handle}}

(* Mutant: a file system that knows of inodes gets a new root, too.         *)
MountedAlwaysFresh(db, known) ==
  IF Root \in Keys THEN {[db EXCEPT ![Root] = v] : v \in Versions} ELSE {db}

(* TableFS::Init puts a new record for the root when IsEmpty, that is, when *)
(* no inode is known: what it can leave of a store db.                      *)
Mounted(db, known) ==
  IF Root \in Keys /\ ~known THEN {[db EXCEPT ![Root] = v] : v \in Versions} ELSE {db}

(* The numbers decide about the root only: without it they stay positive.   *)
Init ==
  /\ \E db \in [Keys -> Versions \cup {NoValue}] :
       /\ Root \in Keys => db[Root] # NoValue
       /\ store = EmptyStore(db) /\ latest = db
  /\ open = [f \in Files |-> Closed]
  /\ raced = {}
  /\ saved \in BOOLEAN /\ numbered = saved
  /\ Root \notin Keys => saved

(* Every handler ends here: the state it leaves, and what it changed.       *)
LeaveNumbered(st, files, content, known) ==
  /\ store' = st
  /\ open' = files
  /\ latest' = content
  /\ raced' = raced \cup DetachedKeys'
  /\ numbered' = known
  /\ UNCHANGED saved

Leave(st, files, content) == LeaveNumbered(st, files, content, numbered)

GetAttrStep(k) ==
  /\ Exists(store, k)
  /\ Leave(GetAttr(store, k), open, latest)

OpenStep(f, k, how) ==
  /\ f \notin OpenFiles
  /\ k = Root => how = Listing
  /\ Exists(store, k)
  /\ Leave(Open(store, k, IF how = Writing THEN INODE_WRITE ELSE INODE_READ),
           [open EXCEPT ![f] = [handle |-> Handle(store, k), how |-> how]], latest)

WriteStep(f, v) ==
  LET h == open[f].handle
  IN  /\ open[f].how = Writing
      /\ Leave(Write(store, h, v), open, [latest EXCEPT ![HandleKey(h)] = v])

ReleaseStep(f) ==
  /\ open[f].how \in {Reading, Writing}
  /\ Leave(Close(store, open[f].handle), [open EXCEPT ![f] = Closed], latest)

ReleaseDirStep(f) ==
  /\ open[f].how = Listing
  /\ Leave(CloseDir(store, open[f].handle), [open EXCEPT ![f] = Closed], latest)

SetAttrStep(k, v) ==
  /\ Exists(store, k)
  /\ Leave(SetAttr(store, k, v), open, [latest EXCEPT ![k] = v])

(* The kernel makes a node only after a lookup of its name has failed.  The *)
(* node takes the next inode number (NewInode).                             *)
MakeStep(k, v) ==
  /\ ~Exists(store, k)
  /\ LeaveNumbered(Make(store, k, v), open, [latest EXCEPT ![k] = v], TRUE)

(* The kernel neither removes nor renames the root, nor opens it as a file. *)
UnlinkStep(k) ==
  /\ k # Root
  /\ Exists(store, k)
  /\ Leave(Unlink(store, k), open, [latest EXCEPT ![k] = NoValue])

(* The kernel answers a rename of a path to itself without a call.          *)
RenameStep(old, new) ==
  /\ old # new /\ Root \notin {old, new}
  /\ Exists(store, old)
  /\ Leave(Rename(store, old, new), open,
           [latest EXCEPT ![new] = Found(store, old), ![old] = NoValue])

(* What a key holds once everything in memory is gone: a file that was      *)
(* open or raced has what reached the store, and the root what Init gives a *)
(* file system without inodes.                                              *)
Surviving(db, known) ==
  [k \in Keys |->
     IF \/ k \in raced
        \/ \E f \in OpenFiles : HandleKey(open[f].handle) = k
        \/ k = Root /\ ~known
     THEN db[k] ELSE latest[k]]

(* The next FileSystemState::Setup and TableFS::Init on what is left.       *)
MountOn(left, known) ==
  /\ \E db \in Mounted(left, known) :
       store' = EmptyStore(db) /\ latest' = Surviving(db, known)
  /\ open' = [f \in Files |-> Closed]
  /\ raced' = {}
  /\ numbered' = known

(* A crash and a restart: the store and root.dat are all that is left.      *)
Crash ==
  /\ MountOn(store.db, saved)
  /\ UNCHANGED saved

(* TableFS::Destroy, which saves the number of inodes, and the next mount.  *)
Remount ==
  /\ MountOn(Destroyed(store).db, numbered)
  /\ saved' = numbered

Next ==
  \/ \E k \in Keys : GetAttrStep(k) \/ UnlinkStep(k)
  \/ \E k \in Keys, v \in Versions : SetAttrStep(k, v) \/ MakeStep(k, v)
  \/ \E old, new \in Keys : RenameStep(old, new)
  \/ \E f \in Files, k \in Keys, how \in {Reading, Writing, Listing} : OpenStep(f, k, how)
  \/ \E f \in Files, v \in Versions : WriteStep(f, v)
  \/ \E f \in Files : ReleaseStep(f) \/ ReleaseDirStep(f)
  \/ Crash
  \/ Remount

Spec == Init /\ [][Next]_vars
-----------------------------------------------------------------------------
TypeOK ==
  /\ store.shard \in ShardType
  /\ store.value \in [Handles -> Versions \cup {NoValue}]
  /\ store.mode \in [Handles -> {INODE_READ, INODE_DELETE, INODE_WRITE}]
  /\ store.db \in [Keys -> Versions \cup {NoValue}]
  /\ open \in [Files -> [handle : Handles \cup {NoHandle},
                         how : {NotOpen, Reading, Writing, Listing}]]
  /\ latest \in [Keys -> Versions \cup {NoValue}]
  /\ raced \subseteq Keys
  /\ numbered \in BOOLEAN /\ saved \in BOOLEAN

(***************************************************************************)
(* Every Get and Insert of a handler is paired with its Release on every   *)
(* path: between two calls a live handle has one reference from the cache  *)
(* while it is cached and one from each open file or directory.            *)
(***************************************************************************)
HandlesBalanced ==
  \A h \in Handles :
    store.shard.refs[h] = Cardinality({f \in Files : open[f].handle = h})
                          + IF h \in Cached(store.shard) THEN 1 ELSE 0

(***************************************************************************)
(* As long as no open handle of a key has been pushed out of the cache (by *)
(* the close of another descriptor, an unlink, a rename, or the LRU), the  *)
(* cache and the store together answer with the content the last call gave *)
(* it, through any evictions, write-backs, crashes and remounts.           *)
(***************************************************************************)
Coherent ==
  \A k \in Keys \ raced : Found(store, k) = latest[k]

(***************************************************************************)
(* Close is durable: with the same proviso, once nothing has the file open *)
(* the store itself holds the latest content, so a handle that only the    *)
(* cache holds is clean and dropping it, or crashing, loses nothing.       *)
(***************************************************************************)
DurableWhenClosed ==
  \A k \in Keys \ raced :
    (\A f \in OpenFiles : HandleKey(open[f].handle) # k) => store.db[k] = latest[k]

(***************************************************************************)
(* A handle in the cache that no file has open needs no writing back: the  *)
(* deleter that the LRU runs in the middle of an unrelated call never      *)
(* writes to the store on its behalf, raced or not.                        *)
(***************************************************************************)
CachedUnopenedIsClean ==
  \A h \in Cached(store.shard) :
    (\A f \in Files : open[f].handle # h) => store.mode[h] = INODE_READ

(***************************************************************************)
(* All of it: handles are released, reads see the last content, closed     *)
(* files are durable and eviction has nothing to write.                    *)
(***************************************************************************)
CacheSound == HandlesBalanced /\ Coherent /\ DurableWhenClosed /\ CachedUnopenedIsClean
=============================================================================
