------------------------------ MODULE Namespace ------------------------------
(***************************************************************************)
(* The name space of TableFS: how a path leads to a record (class TableFS, *)
(* PathLookup and the calls that make, remove, rename and list entries,    *)
(* fs/tablefs.cpp) and how inode numbers and data directories are handed   *)
(* out and kept over a remount (class FileSystemState, fs/tfs_state.cpp).  *)
(*                                                                         *)
(* A record is found under its parent's inode number and the hash of its   *)
(* name; a name stands for its hash, hashes do not collide.  Calls come    *)
(* one at a time from FUSE (tablefs -s), whose checks are Kernel.  The     *)
(* inode cache is left out: InodeHandlers shows that it agrees with the    *)
(* store between calls.                                                    *)
(***************************************************************************)
EXTENDS Integers, Sequences, FiniteSets, SequencesExt

CONSTANTS Names,
          LowZero,      \* the names whose hash has 0 for its lowest byte
          Paths,        \* the paths of the calls: sequences of names, of a bounded length
          MaxInodes,    \* bound on the inode numbers handed out
          MaxRemounts,
          DirBits,      \* NUM_FILES_IN_DATADIR is 2 ^ DirBits
          IntBits       \* the width of int

VARIABLES db,             \* the metadata store: <<parent, name>> to [ino, dir]
          dentry_cache,   \* <<parent, name>> to inode number
          max_inode_num,
          root_dat,       \* the number in root.dat, -1 if there is no file
          datadirs,       \* the subdirectories of the data directory
          files,          \* what the calls so far have made, by path
          remounts
vars == <<db, dentry_cache, max_inode_num, root_dat, datadirs, files, remounts>>

ROOT_INODE_ID == 0
RootKey == <<ROOT_INODE_ID, "">>
Key(parent, name) == <<parent, name>>
With(f, k, v) == [x \in DOMAIN f \cup {k} |-> IF x = k THEN v ELSE f[x]]
Without(f, gone) == [x \in DOMAIN f \ gone |-> f[x]]
-----------------------------------------------------------------------------
(* FileSystemState: (int) n, >> and %, as the compiler does them.           *)
Int32(n) == IF n >= 2 ^ (IntBits - 1) THEN n - 2 ^ IntBits ELSE n
ShiftRight(i) == i \div (2 ^ DirBits)
Remainder(i) == IF i >= 0 THEN i % 2 ^ DirBits ELSE -((-i) % 2 ^ DirBits)

(* Mutant: the directory is made one number late.                          *)
NeedsDataDirLate(n) == n % 2 ^ DirBits = 1

(* NewInode: ++max_inode_num, and a directory for the next block of files.  *)
NeedsDataDir(n) == n % 2 ^ DirBits = 0

NewInode ==
  /\ max_inode_num < MaxInodes
  /\ max_inode_num' = max_inode_num + 1
  /\ datadirs' = IF NeedsDataDir(max_inode_num')
                 THEN datadirs \cup {ShiftRight(Int32(max_inode_num'))} ELSE datadirs

(* TableFS::GetDiskFilePath *)
GetDiskFilePath(ino) == <<ShiftRight(Int32(ino)), Remainder(Int32(ino))>>
-----------------------------------------------------------------------------
(* Mutant: the cache is filled under the new directory's number.            *)
StepCachesChild(walk, name) ==
  LET key == Key(walk.ino, name)
  IN IF ~walk.found THEN walk
     ELSE IF key \in DOMAIN walk.cache THEN [walk EXCEPT !.ino = walk.cache[key]]
     ELSE IF key \notin DOMAIN db THEN [walk EXCEPT !.found = FALSE]
     ELSE [walk EXCEPT !.ino = db[key].ino,
                       !.cache = With(@, Key(db[key].ino, name), db[key].ino)]

(* One component of ParentPathLookup: the cache, or else the store.         *)
Step(walk, name) ==
  LET key == Key(walk.ino, name)
  IN IF ~walk.found THEN walk
     ELSE IF key \in DOMAIN walk.cache THEN [walk EXCEPT !.ino = walk.cache[key]]
     ELSE IF key \notin DOMAIN db THEN [walk EXCEPT !.found = FALSE]
     ELSE [walk EXCEPT !.ino = db[key].ino, !.cache = With(@, key, db[key].ino)]

ParentPathLookup(cache, path) ==
  LET walk[i \in 0 .. Len(path) - 1] ==
        IF i = 0 THEN [found |-> TRUE, ino |-> ROOT_INODE_ID, cache |-> cache]
        ELSE Step(walk[i - 1], path[i])
  IN walk[Len(path) - 1]

(* PathLookup: the key of a path, whose record need not exist.              *)
PathLookup(cache, path) ==
  LET walk == ParentPathLookup(cache, path)
  IN [found |-> walk.found, cache |-> walk.cache, key |-> Key(walk.ino, Last(path))]

(* What GetAttr answers: the inode number, -1 for ENOENT.                   *)
Answer(path) ==
  LET l == PathLookup(dentry_cache, path)
  IN IF l.found /\ l.key \in DOMAIN db THEN db[l.key].ino ELSE -1
IsDir(path) ==
  LET l == PathLookup(dentry_cache, path)
  IN l.found /\ l.key \in DOMAIN db /\ db[l.key].dir

(* What FUSE and the kernel have made sure of, with GetAttr, before a call: *)
(* Unlink, RemoveDir and Rename get a path that exists.                     *)
KernelFound == {path \in Paths : Answer(path) # -1}
KernelParent(path) == Len(path) > 1 => IsDir(Front(path))
KernelMayMake(path) == KernelParent(path) /\ Answer(path) = -1
KernelMayRename(old, new) ==
  /\ ~IsPrefix(old, new) /\ ~IsPrefix(new, old)
  /\ KernelParent(new)
  /\ Answer(new) # -1 => IsDir(new) = IsDir(old)

Below(path) == {p \in DOMAIN files : IsPrefix(path, p)}
-----------------------------------------------------------------------------
(* FileSystemState::Setup without a root.dat, and TableFS::Init.            *)
Init ==
  /\ db = (RootKey :> [ino |-> ROOT_INODE_ID, dir |-> TRUE])
  /\ dentry_cache = <<>> /\ max_inode_num = 0 /\ root_dat = 0 /\ datadirs = {0}
  /\ files = <<>> /\ remounts = 0

(* GetAttr, OpenDir, Access, and the lookups of the calls on open files.    *)
GetAttr(path) ==
  /\ dentry_cache' = PathLookup(dentry_cache, path).cache
  /\ UNCHANGED <<db, max_inode_num, root_dat, datadirs, files, remounts>>

(* MakeNode, MakeDir and Symlink.                                           *)
Make(path, dir) ==
  LET l == PathLookup(dentry_cache, path)
  IN /\ KernelMayMake(path) /\ l.found
     /\ NewInode
     /\ db' = With(db, l.key, [ino |-> max_inode_num', dir |-> dir])
     /\ dentry_cache' = l.cache
     /\ files' = With(files, path, max_inode_num')
     /\ UNCHANGED <<root_dat, remounts>>

(* Mutant: the directory stays in the cache.                                *)
EvictedNothing(cache, keys) == cache

(* DentryCache::Evict *)
Evicted(cache, keys) == Without(cache, keys)

(* Unlink and RemoveDir; the entries of a directory are not looked at.      *)
Unlink(path) ==
  LET l == PathLookup(dentry_cache, path)
  IN /\ db' = Without(db, {l.key})
     /\ dentry_cache' = Evicted(l.cache, {l.key})
     /\ files' = Without(files, Below(path))
     /\ UNCHANGED <<max_inode_num, root_dat, datadirs, remounts>>

(* Rename: two lookups, then the record moves to the new key.               *)
Rename(old, new) ==
  LET lo == PathLookup(dentry_cache, old)
      ln == PathLookup(lo.cache, new)
      moved == {new \o SubSeq(p, Len(old) + 1, Len(p)) : p \in Below(old)}
  IN /\ KernelMayRename(old, new)
     /\ db' = Without(With(db, ln.key, db[lo.key]), {lo.key})
     /\ dentry_cache' = Evicted(ln.cache, {lo.key, ln.key})
     /\ moved \subseteq Paths
     /\ LET kept == DOMAIN files \ (Below(old) \cup Below(new))
        IN files' = [p \in kept \cup moved |->
                       IF p \in moved THEN files[old \o SubSeq(p, Len(new) + 1, Len(p))]
                       ELSE files[p]]
     /\ UNCHANGED <<max_inode_num, root_dat, datadirs, remounts>>

(* Mutant: root.dat is left as Setup wrote it.                              *)
NumberSavedNever == root_dat

(* FileSystemState::Destroy *)
NumberSaved == max_inode_num

(* TableFS::Destroy, then Setup and Init of the next mount.  The root's     *)
(* record is made again when no number was ever handed out.                 *)
Remount ==
  /\ remounts < MaxRemounts /\ remounts' = remounts + 1
  /\ root_dat' = NumberSaved /\ max_inode_num' = root_dat'
  /\ dentry_cache' = <<>>
  /\ db' = IF max_inode_num' = 0
           THEN With(db, RootKey, [ino |-> ROOT_INODE_ID, dir |-> TRUE]) ELSE db
  /\ UNCHANGED <<datadirs, files>>

Next ==
  \/ \E path \in Paths : GetAttr(path) \/ \E dir \in BOOLEAN : Make(path, dir)
  \/ \E path \in KernelFound : Unlink(path) \/ \E new \in Paths : Rename(path, new)
  \/ Remount

Spec == Init /\ [][Next]_vars
-----------------------------------------------------------------------------
(* Mutant: the listing of every directory starts at hash 1.                 *)
SeekSkipsLow(ino) == TRUE

(* ReadDir seeks to hash 1 in the root and to hash 0 elsewhere; keys are    *)
(* compared byte by byte, the lowest byte of the hash first.                *)
SeekSkips(ino) == ino = ROOT_INODE_ID

ReadDir(ino) ==
  {k[2] : k \in {key \in DOMAIN db : key[1] = ino /\ key[2] # "" /\
                                     ~(SeekSkips(ino) /\ key[2] \in LowZero)}}

TypeOK ==
  /\ RootKey \in DOMAIN db
  /\ \A k \in DOMAIN db : k[1] \in 0 .. max_inode_num /\ db[k].ino \in 0 .. max_inode_num
  /\ \A k \in DOMAIN dentry_cache : dentry_cache[k] \in 0 .. max_inode_num
  /\ \A p \in DOMAIN files : p \in Paths

(***************************************************************************)
(* Every path leads to the entry that the calls so far have put there,     *)
(* whatever the dentry cache holds from before renames and removals of     *)
(* the directories on the way.                                             *)
(***************************************************************************)
LookupsAgree ==
  \A p \in Paths : Answer(p) = IF p \in DOMAIN files THEN files[p] ELSE -1

(***************************************************************************)
(* ReadDir lists a directory's entries and nothing else.  In the root it   *)
(* passes over names whose hash has a zero byte first, and only those.     *)
(***************************************************************************)
ListsDirectory ==
  /\ \A p \in DOMAIN files :
       IsDir(p) => ReadDir(files[p]) = {n \in Names : Append(p, n) \in DOMAIN files}
  /\ ReadDir(ROOT_INODE_ID) = {n \in Names \ LowZero : <<n>> \in DOMAIN files}

(***************************************************************************)
(* No two entries have the same inode number, over remounts too, so that   *)
(* no two files share a disk file and no two directories their entries.    *)
(***************************************************************************)
InodesUnique == \A p, q \in DOMAIN files : p # q => files[p] # files[q]

(***************************************************************************)
(* The disk file of every inode number has a directory that exists and a   *)
(* path of its own, also for numbers that are negative as an int.          *)
(***************************************************************************)
DiskFilesDistinct ==
  \A i \in 1 .. max_inode_num :
    /\ GetDiskFilePath(i)[1] \in datadirs
    /\ \A j \in 1 .. max_inode_num : i # j => GetDiskFilePath(i) # GetDiskFilePath(j)
=============================================================================
