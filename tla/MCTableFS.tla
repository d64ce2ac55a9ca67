------------------------------ MODULE MCTableFS ------------------------------
(* Parts of TableFS: the dentry cache, the namespace with path lookups,     *)
(* listings and inode numbers, a file whose I/O fails, and the wrapper's    *)
(* descriptors.  They share no state, so it is enough to let one of them    *)
(* run: v1 .. v10 are its variables, and those of the dentry cache stay as  *)
(* they were.                                                               *)
(* Three keys, two inode numbers and a list of three nodes are enough for   *)
(* stale nodes of a key to be popped while a newer node of the key, or an   *)
(* entry of another key, is live.                                           *)
EXTENDS DentryCache, TLC

CONSTANTS x, zero

VARIABLES part, v1, v2, v3, v4, v5, v6, v7, v8, v9, v10

(* Nodes are alike.  Three of them are permuted: every state of every part *)
(* pays for a permutation.                                                 *)
Symmetry == Permutations(Nodes \ {CHOOSE n \in Nodes : TRUE})

PathsUpTo(depth) == UNION {[1 .. n -> {"a", "b"}] : n \in 1 .. depth}
ShortPaths == PathsUpTo(2)
LongPaths == PathsUpTo(3)

(* Two names, directories in directories.                                   *)
Tree == INSTANCE Namespace WITH
  Names <- {"a", "b"}, LowZero <- {"b"}, Paths <- ShortPaths, MaxInodes <- 4, MaxRemounts <- 0,
  DirBits <- 1, IntBits <- 3, db <- v1, dentry_cache <- v2, max_inode_num <- v3,
  root_dat <- v4, datadirs <- v5, files <- v6, remounts <- v7

(* Paths of three names and a remount, in a smaller file system.            *)
DeepNames == INSTANCE Namespace WITH
  Names <- {"a", "b"}, LowZero <- {"b"}, Paths <- LongPaths, MaxInodes <- 3, MaxRemounts <- 1,
  DirBits <- 1, IntBits <- 2, db <- v1, dentry_cache <- v2, max_inode_num <- v3,
  root_dat <- v4, datadirs <- v5, files <- v6, remounts <- v7

FailingFile == INSTANCE FileFaults WITH
  Bytes <- {x}, Zero <- zero, Threshold <- 2, MaxFileSize <- 3, MaxWrite <- 2, rec <- v1,
  stored <- v2, dirty <- v3, disk <- v4, fd <- v5, orphan <- v6, content <- v7,
  tainted <- v8, leaked <- v9, damaged <- v10

Fds == INSTANCE Descriptors WITH
  Threads <- {1, 2, 3}, FdLimit <- 2, MaxOpens <- 3, freefd <- v1, fis <- v2,
  offsets <- v3, pc <- v4, fd <- v5, arg <- v6, mine <- v7, opens <- v8, raced <- v9,
  strayed <- v10

after7 == <<v8, v9, v10>>

Unused8 == v8 = 0 /\ v9 = 0 /\ v10 = 0
Unused1 == v1 = 0 /\ v2 = 0 /\ v3 = 0 /\ v4 = 0 /\ v5 = 0 /\ v6 = 0 /\ v7 = 0 /\ Unused8

Rubbish == CHOOSE e \in [key : Keys, inode : Inodes] : TRUE

PartsInit ==
  /\ Init
  /\ \/ part = "dentries" /\ Unused1
     \/ part = "names" /\ Tree!Init /\ Unused8
     \/ part = "deep names" /\ DeepNames!Init /\ Unused8
     \/ part = "faults" /\ FailingFile!FaultInit
     \/ part = "descriptors" /\ Fds!Init
  /\ part # "dentries" => entry = [n \in Nodes |-> Rubbish]

PartsNext ==
  /\ UNCHANGED part
  /\ \/ part = "dentries" /\ Next /\ UNCHANGED <<v1, v2, v3, v4, v5, v6, v7, after7>>
     \/ /\ UNCHANGED vars
        /\ \/ part = "names" /\ Tree!Next /\ UNCHANGED after7
           \/ part = "deep names" /\ DeepNames!Next /\ UNCHANGED after7
           \/ part = "faults" /\ FailingFile!FaultNext
           \/ part = "descriptors" /\ Fds!Next

PartsSpec ==
  PartsInit /\ [][PartsNext]_<<part, vars, v1, v2, v3, v4, v5, v6, v7, v8, v9, v10>>
-----------------------------------------------------------------------------
(* Every path leads to the entry that the calls so far have put there,      *)
(* whatever the dentry cache kept from before a rename or a removal, and    *)
(* ReadDir lists it (Namespace).                                            *)
LookupsAgree ==
  /\ part = "names" => Tree!LookupsAgree /\ Tree!ListsDirectory
  /\ part = "deep names" => DeepNames!LookupsAgree /\ DeepNames!ListsDirectory

(* No two files share an inode number or a disk file, over remounts and     *)
(* past the largest int (Namespace).                                        *)
DiskFilesDistinct ==
  /\ part = "names" => Tree!InodesUnique /\ Tree!DiskFilesDistinct
  /\ part = "deep names" => DeepNames!InodesUnique /\ DeepNames!DiskFilesDistinct

(* Failing and short writes to the disk file of a file leave has_blob on    *)
(* the side of the threshold the size is on, and cost no earlier byte       *)
(* unless a migration failed (FileFaults).                                  *)
OldBytesKept == part = "faults" => FailingFile!FlagMatchesSize /\ FailingFile!OldBytesKept

(* Threads that share the wrapper's descriptors write to the files they     *)
(* opened, until two of them slip through GetFileDescriptor together        *)
(* (Descriptors).                                                           *)
WritesOwnFile ==
  part = "descriptors" =>
    Fds!OneUserUnlessRaced /\ Fds!WritesOwnFile /\ Fds!DescriptorsReturned
=============================================================================
