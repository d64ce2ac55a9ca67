------------------------------ MODULE MCTables -------------------------------
(* How an entry is found below LevelDB's levels, part by part: the LRU      *)
(* cache, blocks, tables over it, and the iterators.  The parts share no    *)
(* state, so it is enough to let one of them run: v1 .. v7 are its          *)
(* variables, and those of the LRU cache stay as they were.                 *)
EXTENDS LRUCache

VARIABLES part, v1, v2, v3, v4, v5, v6, v7

Blocks == INSTANCE Block WITH
  MaxByte <- 1, MaxSequence <- 0, MaxKeyLength <- 2, MaxEntries <- 5, Intervals <- {1, 2, 3},
  interval <- v1, builder <- v2, added <- v3, bad <- v4, it <- v5, call <- v6

(* A table of keys of up to two bytes.                                      *)
Keyed == INSTANCE Table WITH
  MaxByte <- 1, MaxSequence <- 3, MaxKeyLength <- 2, Seqs <- {1}, BlockSize <- 2,
  FilterBase <- 2, BitsPerKey <- 2, MinBits <- 3, HashBits <- 4,
  MaxEntries <- 3, MaxTables <- 1, MaxOpens <- 1,
  b <- v1, added <- v2, built <- v3, table <- v4, lastId <- v5, cache <- v6, got <- v7

(* Two tables one after another, opened twice, over one block cache.        *)
BlockCache == INSTANCE Table WITH
  MaxByte <- 1, MaxSequence <- 3, MaxKeyLength <- 1, Seqs <- {1}, BlockSize <- 2,
  FilterBase <- 2, BitsPerKey <- 2, MinBits <- 3, HashBits <- 4,
  MaxEntries <- 3, MaxTables <- 2, MaxOpens <- 2,
  b <- v1, added <- v2, built <- v3, table <- v4, lastId <- v5, cache <- v6, got <- v7

(* Several entries of a user key, and a block for each.                     *)
Versioned == INSTANCE Table WITH
  MaxByte <- 0, MaxSequence <- 3, MaxKeyLength <- 1, Seqs <- {1, 2}, BlockSize <- 1,
  FilterBase <- 2, BitsPerKey <- 2, MinBits <- 3, HashBits <- 4,
  MaxEntries <- 4, MaxTables <- 1, MaxOpens <- 1,
  b <- v1, added <- v2, built <- v3, table <- v4, lastId <- v5, cache <- v6, got <- v7

Iter == INSTANCE Iterators WITH
  Keys <- {1, 2}, LastSeq <- 3, MaxWrites <- 1, Faults <- FALSE, mem <- v1, tables <- v2,
  bad <- v3, snapshot <- v4, merged <- v5, db <- v6, call <- v7

(* The same over tables that cannot be read.                                *)
IterFaults == INSTANCE Iterators WITH
  Keys <- {1, 2}, LastSeq <- 3, MaxWrites <- 0, Faults <- TRUE, mem <- v1,
  tables <- v2, bad <- v3, snapshot <- v4, merged <- v5, db <- v6, call <- v7

Unused7 == v7 = 0
Unused1 == v1 = 0 /\ v2 = 0 /\ v3 = 0 /\ v4 = 0 /\ v5 = 0 /\ v6 = 0 /\ Unused7

PartsInit ==
  /\ CacheInit
  /\ \/ part = "lru" /\ Unused1
     \/ part = "block" /\ Blocks!Init /\ Unused7
     \/ part = "table" /\ Keyed!Init
     \/ part = "block cache" /\ BlockCache!Init
     \/ part = "table versions" /\ Versioned!Init
     \/ part = "iterator" /\ Iter!Init
     \/ part = "iterator faults" /\ IterFaults!Init

PartsNext ==
  /\ UNCHANGED part
  /\ \/ part = "lru" /\ CacheNext /\ UNCHANGED <<v1, v2, v3, v4, v5, v6, v7>>
     \/ /\ UNCHANGED cacheVars
        /\ \/ part = "block" /\ Blocks!Next /\ UNCHANGED v7
           \/ part = "table" /\ Keyed!Next
           \/ part = "block cache" /\ BlockCache!Next
           \/ part = "table versions" /\ Versioned!Next
           \/ part = "iterator" /\ Iter!Next
           \/ part = "iterator faults" /\ IterFaults!Next

allVars == <<part, cacheVars, v1, v2, v3, v4, v5, v6, v7>>
PartsSpec == PartsInit /\ [][PartsNext]_allVars
-----------------------------------------------------------------------------
(* Every call of Block::Iter ends on the entry iterator.h names or leaves   *)
(* an error, which only a bad entry causes, and rebuilds the key that was   *)
(* added there from shared prefixes (Block).                                *)
BlockCallsLand ==
  [][part = "block" =>
       /\ (Blocks!DecodesKeys /\ Blocks!RegionBounds /\ Blocks!NoFalseAlarm)'
       /\ Blocks!CallsLand]_allVars

(* Table::InternalGet finds the newest entry of a key up to its sequence    *)
(* number whatever filters and block cache hold; a finished table has every *)
(* key added, and its index leads to the one block of a key (Table).        *)
GetFinds ==
  /\ part = "table" => Keyed!GetFinds /\ Keyed!IndexSeparates /\ Keyed!FinishIsComplete
  /\ part = "block cache" => BlockCache!GetFinds /\ BlockCache!CacheMatchesFile /\ BlockCache!OffsetsOrdered
  /\ part = "table versions" => Versioned!GetFinds /\ Versioned!IndexSeparates

(* Every call of an iterator ends where iterator.h says on the contents at  *)
(* its snapshot, or status() tells of a table it could not read; but for    *)
(* the turn described there (Iterators).                                    *)
IteratesSnapshot ==
  [][/\ part = "iterator" => Iter!ValueOfSnapshot' /\ Iter!IteratesSnapshot
     /\ part = "iterator faults" => IterFaults!ErrorsReported]_allVars
=============================================================================
