------------------------------ MODULE MCStorage ------------------------------
(* What LevelDB keeps in files, part by part: the lock of the database, the *)
(* log format, DB::Open after crashes, the MANIFEST, RepairDB, and the two  *)
(* environments the files live in.  The parts share no state, so it is      *)
(* enough to let one of them run: v1 .. v11 are its variables, or those of  *)
(* the lock, or those of Recovery, and all others stay as they were.        *)
EXTENDS FileLock, Recovery

CONSTANTS nameA, nameB, handle1, handle2

VARIABLES part, v1, v2, v3, v4, v5, v6, v7, v8, v9, v10, v11

Log == INSTANCE LogFormat WITH
  BlockSize <- 6, Lengths <- {0, 1, 4, 8}, MaxRecords <- 3, Preallocated <- {0, 2, 4},
  BadCells <- {0, 9}, Offsets <- {0, 1, 4, 6, 9, 17},
  file <- v1, block_offset <- v2, records <- v3, failed <- v4, fault <- v5, r <- v6

(* An Open that cannot write a table.                                       *)
FailedOpen == INSTANCE Recovery WITH
  MaxSequence <- 2, MaxFile <- 4, MaxCrashes <- 1, MaxFaults <- 1, Faults <- {"table"},
  logs <- v1, manifests <- v2, tables <- v3, current <- v4, m <- v5, job <- v6,
  acked <- v7, safe <- v8, upto <- v9, crashes <- v10, faults <- v11

(* An edit that cannot be added to the MANIFEST.                            *)
FailedEdit == INSTANCE Recovery WITH
  MaxSequence <- 3, MaxFile <- 9, MaxCrashes <- 0, MaxFaults <- 1, Faults <- {"manifest"},
  logs <- v1, manifests <- v2, tables <- v3, current <- v4, m <- v5, job <- v6,
  acked <- v7, safe <- v8, upto <- v9, crashes <- v10, faults <- v11

Manifest == INSTANCE VersionEdit WITH
  Radix <- 4, MaxBytes <- 3, kNumLevels <- 3, MaxKey <- 3, MaxNumber <- 8,
  current <- v1, compact_pointer_ <- v2, vset <- v3, manifest <- v4, edit <- v5, installed <- v6

Repairs == INSTANCE Repair WITH
  Keys <- {1}, LastSeq <- 4, MaxFile <- 4, MaxCrashes <- 2, Corrupt <- FALSE,
  logs <- v1, tables <- v2, descriptor <- v3, r <- v4, written <- v5, failed <- v6, crashes <- v7

Mmap == INSTANCE MmapFile WITH
  PageSize <- 2, FirstMap <- 3, MaxMap <- 8, MaxAppend <- 5, MaxBytes <- 14,
  f <- v1, file <- v2, durable <- v3, copied <- v4, calls <- v5

Memory == INSTANCE MemEnv WITH
  Names <- {nameA, nameB}, Handles <- {handle1, handle2}, kBlockSize <- 2, MaxFiles <- 2, MaxSize <- 3, MaxIO <- 2,
  made <- v1, file <- v2, file_map_ <- v3, alive <- v4, handle <- v5, answer <- v6

after5 == <<v6, v7, v8, v9, v10, v11>>
after6 == <<v7, v8, v9, v10, v11>>
after7 == <<v8, v9, v10, v11>>

Unused8 == v8 = 0 /\ v9 = 0 /\ v10 = 0 /\ v11 = 0
Unused7 == v7 = 0 /\ Unused8
Unused6 == v6 = 0 /\ Unused7
Unused1 == v1 = 0 /\ v2 = 0 /\ v3 = 0 /\ v4 = 0 /\ v5 = 0 /\ Unused6

PartsInit ==
  /\ LockInit /\ Init
  /\ \/ part \in {"lock", "crashes"} /\ Unused1
     \/ part = "log" /\ Log!Init /\ Unused7
     \/ part = "failed open" /\ FailedOpen!Init
     \/ part = "failed edit" /\ FailedEdit!Init
     \/ part = "manifest" /\ Manifest!Init /\ Unused7
     \/ part = "repair" /\ Repairs!Init /\ Unused8
     \/ part = "mmap" /\ Mmap!Init /\ Unused6
     \/ part = "memory" /\ Memory!Init /\ Unused7

PartsNext ==
  /\ UNCHANGED part
  /\ \/ part = "lock" /\ LockNext /\ UNCHANGED <<vars, v1, v2, v3, v4, v5, after5>>
     \/ part = "crashes" /\ Next /\ UNCHANGED <<lockVars, v1, v2, v3, v4, v5, after5>>
     \/ /\ UNCHANGED <<lockVars, vars>>
        /\ \/ part = "log" /\ Log!Next /\ UNCHANGED after6
           \/ part = "failed open" /\ FailedOpen!Next
           \/ part = "failed edit" /\ FailedEdit!Next
           \/ part = "manifest" /\ Manifest!Next /\ UNCHANGED after6
           \/ part = "repair" /\ Repairs!Next /\ UNCHANGED after7
           \/ part = "mmap" /\ Mmap!Next /\ UNCHANGED after5
           \/ part = "memory" /\ Memory!Next /\ UNCHANGED after6

allVars == <<part, lockVars, vars, v1, v2, v3, v4, v5, v6, v7, v8, v9, v10, v11>>
PartsSpec == PartsInit /\ [][PartsNext]_allVars
-----------------------------------------------------------------------------
(* log::Reader returns the records that log::Writer added from any initial  *)
(* offset on; after a crash, a beginning of them; and a bad cell costs only *)
(* the records of its block (LogFormat).                                    *)
ReadsBack ==
  part = "log" => Log!ReadsFromOffset /\ Log!CrashKeepsPrefix /\ Log!DamageConfined

(* VersionSet::Recover reads from the MANIFEST the version and the compact  *)
(* pointers that LogAndApply had installed edit by edit, levels stay in     *)
(* order, and a record that is cut within a field is refused (VersionEdit). *)
ManifestFaithful ==
  part = "manifest" => Manifest!ReplayMatches /\ Manifest!LevelsSorted /\ Manifest!CutsDetected

(* A failed Open or edit loses nothing while the database stays up          *)
(* (Recovery).  RepairDB loses no readable entry, reuses no file number,    *)
(* and leaves a descriptor that lists every table, over crashes and reruns  *)
(* (Repair).                                                                *)
FailuresLoseNothing ==
  /\ part = "failed open" => FailedOpen!ProcessCrashLosesNothing /\ FailedOpen!OpenShowsAcked
  /\ part = "failed edit" => FailedEdit!OpenShowsAcked /\ FailedEdit!NumbersFresh
  /\ part = "repair" => Repairs!NothingLost /\ Repairs!FreshNumbers /\ Repairs!DescriptorComplete

(* PosixMmapFile puts bytes in order over its windows, Sync makes them      *)
(* durable and Close trims the file, whichever call fails (MmapFile).       *)
MmapKeepsBytes ==
  part = "mmap" => Mmap!BytesInPlace /\ Mmap!SyncedIsDurable /\ Mmap!CloseTrims

(* The files of InMemoryEnv live exactly as long as a name or a handle      *)
(* leads to them, and reads return what was appended (MemEnv).              *)
MemoryFilesSound ==
  part = "memory" => Memory!NoDanglingFile /\ Memory!NoLeak /\ Memory!ReadsWritten
=============================================================================
