------------------------------- MODULE MCReads -------------------------------
(* What readers of the key-value store find while others write, part by     *)
(* part: LevelDB's skip list, memtable, levels and versions, and the back   *)
(* ends of TableFS.  The parts share no state, so it is enough to let one   *)
(* of them run: v1 .. v14 are its variables.                                *)
EXTENDS Naturals

VARIABLES part, v1, v2, v3, v4, v5, v6, v7, v8, v9, v10, v11, v12, v13, v14

List == INSTANCE SkipList WITH
  MaxKey <- 3, kMaxHeight <- 2, next <- v1, max_height <- v2, inserting <- v3,
  reader <- v4, node <- v5

(* 2 * 2 * (MaxSeq + 1) internal keys.                                      *)
Mem == INSTANCE MemTable WITH
  MaxKey <- 16, kMaxHeight <- 2, UserKeys <- {1, 2}, MaxSeq <- 3, MaxBatch <- 2,
  next <- v1, max_height <- v2, inserting <- v3, reader <- v4, node <- v5,
  last_sequence <- v6, batch <- v7, base <- v8, entries <- v9, lookup <- v10

(* Levels with a snapshot, and with a key between two others.               *)
Tables == INSTANCE Compactions WITH
  Keys <- {1, 2}, MaxSeq <- 3, MaxSnapshots <- 1, NumLevels <- 4, MemLevel <- 2,
  Manual <- TRUE, CutManual <- FALSE, CutKeys <- FALSE, GapFlush <- FALSE,
  last_sequence <- v1, written <- v2, mem <- v3, imm <- v4, files <- v5, snapshots <- v6,
  compaction <- v7

WideTables == INSTANCE Compactions WITH
  Keys <- {1, 2, 3}, MaxSeq <- 3, MaxSnapshots <- 0, NumLevels <- 3, MemLevel <- 1,
  Manual <- TRUE, CutManual <- FALSE, CutKeys <- FALSE, GapFlush <- FALSE,
  last_sequence <- v1, written <- v2, mem <- v3, imm <- v4, files <- v5, snapshots <- v6,
  compaction <- v7

Refs == INSTANCE VersionRefs WITH
  Readers <- {1}, Versions <- 1 .. 4, Mems <- 1 .. 3, None <- 0, MaxFile <- 3,
  files <- v1, refs <- v2, fileRefs <- v3, current <- v4, mem <- v5, imm <- v6,
  memRefs <- v7, pending_outputs <- v8, next_file <- v9, disk <- v10, cached <- v11,
  reads <- v12, flush <- v13, compact <- v14

(* The LevelDB back end with a limit on size, and on time.                  *)
Leveldb == INSTANCE KvBackends WITH
  Backend <- "LEVELDB", Keys <- {1, 2}, Values <- {"v", "w"}, sync_size_limit <- 2,
  sync_time_limit <- 5, MaxCalls <- 4, MaxTime <- 0, store <- v1, pending <- v2,
  calls <- v3, async_data_size <- v4, last_sync_time <- v5, now <- v6, unsynced <- v7,
  it <- v8

LeveldbTime == INSTANCE KvBackends WITH
  Backend <- "LEVELDB", Keys <- {1, 2}, Values <- {"v"}, sync_size_limit <- 0,
  sync_time_limit <- 1, MaxCalls <- 4, MaxTime <- 2, store <- v1, pending <- v2,
  calls <- v3, async_data_size <- v4, last_sync_time <- v5, now <- v6, unsynced <- v7,
  it <- v8

(* The hash table back end.                                                 *)
Tlhash == INSTANCE KvBackends WITH
  Backend <- "TLHASH", Keys <- {1, 2}, Values <- {"v", "w"}, sync_size_limit <- 0,
  sync_time_limit <- 0, MaxCalls <- 4, MaxTime <- 0, store <- v1, pending <- v2,
  calls <- v3, async_data_size <- v4, last_sync_time <- v5, now <- v6, unsynced <- v7,
  it <- v8

after5 == <<v6, v7, v8, v9, v10, v11, v12, v13, v14>>
after7 == <<v8, v9, v10, v11, v12, v13, v14>>
after8 == <<v9, v10, v11, v12, v13, v14>>
after10 == <<v11, v12, v13, v14>>

Unused11 == v11 = 0 /\ v12 = 0 /\ v13 = 0 /\ v14 = 0
Unused9 == v9 = 0 /\ v10 = 0 /\ Unused11
Unused8 == v8 = 0 /\ Unused9
Unused6 == v6 = 0 /\ v7 = 0 /\ Unused8

PartsInit ==
  \/ part = "list" /\ List!ListInit /\ Unused6
  \/ part = "memtable" /\ Mem!MemInit /\ Unused11
  \/ part = "levels" /\ Tables!Init /\ Unused8
  \/ part = "wide levels" /\ WideTables!Init /\ Unused8
  \/ part = "versions" /\ Refs!Init
  \/ part = "leveldb" /\ Leveldb!Init /\ Unused9
  \/ part = "leveldb time" /\ LeveldbTime!Init /\ Unused9
  \/ part = "tlhash" /\ Tlhash!Init /\ Unused9

PartsNext ==
  /\ UNCHANGED part
  /\ \/ part = "list" /\ List!ListNext /\ UNCHANGED after5
     \/ part = "memtable" /\ Mem!MemNext /\ UNCHANGED after10
     \/ part = "levels" /\ Tables!Next /\ UNCHANGED after7
     \/ part = "wide levels" /\ WideTables!Next /\ UNCHANGED after7
     \/ part = "versions" /\ Refs!Next
     \/ part = "leveldb" /\ Leveldb!Next /\ UNCHANGED after8
     \/ part = "leveldb time" /\ LeveldbTime!Next /\ UNCHANGED after8
     \/ part = "tlhash" /\ Tlhash!Next /\ UNCHANGED after8

allVars == <<part, v1, v2, v3, v4, v5, v6, v7, v8, v9, v10, v11, v12, v13, v14>>
PartsSpec == PartsInit /\ [][PartsNext]_allVars
-----------------------------------------------------------------------------
(* A search of the skip list that races with an Insert never loads an unset *)
(* link, and returns the right neighbour (SkipList).                        *)
SearchesExact ==
  [][part = "list" =>
       (List!LevelsNested /\ List!NeverReadsUninitialized)' /\ List!SearchExact]_allVars

(* A Get at a snapshot returns the newest entry up to it while later        *)
(* batches are being linked around that entry (MemTable).                   *)
GetsSnapshot == [][part = "memtable" => Mem!GetsSnapshot]_allVars

(* The memtable holds the batches added to it; at every snapshot Get and a  *)
(* scan return what was written last, whatever has been flushed, compacted, *)
(* moved or dropped (MemTable, Compactions).                                *)
ReadsLatest ==
  /\ part = "memtable" => Mem!HoldsBatches
  /\ part = "levels" => Tables!ReadsLatest /\ Tables!ScansLatest /\ Tables!LevelsDisjoint
  /\ part = "wide levels" =>
       WideTables!ReadsLatest /\ WideTables!ScansLatest /\ WideTables!LevelsDisjoint

(* The tables of every version in use are on disk, versions, files and      *)
(* memtables are counted exactly, the table cache follows, and no           *)
(* compaction loses a table that was flushed meanwhile (VersionRefs).       *)
LiveTablesOnDisk ==
  part = "versions" =>
    /\ Refs!LiveTablesOnDisk /\ Refs!CacheFollowsDisk /\ Refs!FlushSurvivesCompaction
    /\ Refs!VersionRefsExact /\ Refs!FileRefsExact /\ Refs!MemRefsExact

(* A back end holds the updates of the calls, LevelDB those of whole calls  *)
(* at any moment and never more than the limit unsynced, and a listing      *)
(* shows one moment (KvBackends).                                           *)
BackendsAgree ==
  /\ part = "leveldb" => Leveldb!BatchesAtomic /\ Leveldb!SyncsOften /\ Leveldb!ListsOneMoment
  /\ part = "leveldb time" => LeveldbTime!SyncsOften
  /\ part = "tlhash" => Tlhash!CallsApplied /\ Tlhash!ListsOneMoment
=============================================================================
