---------------------------- MODULE VersionRefs -----------------------------
(***************************************************************************)
(* What keeps a LevelDB table file or a memtable alive: the references of  *)
(* DBImpl, of readers and of compactions to Versions and memtables         *)
(* (db/db_impl.cc, db/version_set.cc), pending_outputs_, the deletion of   *)
(* obsolete files and the table cache (db/table_cache.cc).  A Version is   *)
(* the set of the numbers of its files.  A step holds the mutex, except    *)
(* those named as running without it: reads, building tables, the write of *)
(* the MANIFEST.                                                           *)
(***************************************************************************)
EXTENDS Naturals, FiniteSets

CONSTANTS Readers,     \* callers of Get, and iterators
          Versions,    \* Version objects, by address
          Mems,        \* MemTable objects, by address
          None,        \* NULL
          MaxFile      \* bound on file numbers

VARIABLES files,       \* Version -> its files, None when there is no such object
          refs,        \* Version -> refs_
          fileRefs,    \* file -> FileMetaData::refs, 0 when there is none
          current,     \* versions_->current()
          mem, imm, memRefs,
          pending_outputs, next_file, disk,
          cached,      \* the tables open in the table cache
          reads,       \* reader -> what it has referenced
          flush,       \* the memtable compaction under way
          compact      \* the compaction under way

vars == <<files, refs, fileRefs, current, mem, imm, memRefs, pending_outputs,
          next_file, disk, cached, reads, flush, compact>>
versionVars == <<files, refs, fileRefs, current>>
memVars == <<mem, imm, memRefs>>

Files == 1 .. MaxFile
Idle == [at |-> "idle"]
Exists(v) == files[v] # {None}

(* Where new puts an object: objects differ only by what refers to them, so *)
(* the lowest free address stands for all of them.                          *)
Lowest(S) == {x \in S : \A y \in S : x <= y}
Free(s) == Lowest({v \in Versions : s.files[v] = {None}})

(* The objects as one value, so that calls compose.                         *)
VS == [files |-> files, refs |-> refs, fileRefs |-> fileRefs, current |-> current]

SetVersions(s) ==
  /\ files' = s.files /\ refs' = s.refs
  /\ fileRefs' = s.fileRefs /\ current' = s.current

(* Builder::SaveTo: a new Version with references to its files.             *)
NewVersion(s, v, fs) ==
  [s EXCEPT !.files[v] = fs, !.refs[v] = 0,
            !.fileRefs = [f \in Files |-> s.fileRefs[f] + IF f \in fs THEN 1 ELSE 0]]

(* Mutant: ~Version leaves the references to its files.                     *)
DeleteVersionKeepsFiles(s, v) == [s EXCEPT !.files[v] = {None}]

(* ~Version.                                                                *)
DeleteVersion(s, v) ==
  [s EXCEPT !.files[v] = {None},
            !.fileRefs = [f \in Files |-> s.fileRefs[f] - IF f \in s.files[v] THEN 1 ELSE 0]]

Ref(s, v) == [s EXCEPT !.refs[v] = @ + 1]

Unref(s, v) ==
  LET t == [s EXCEPT !.refs[v] = @ - 1]
  IN  IF t.refs[v] = 0 THEN DeleteVersion(t, v) ELSE t

(* Mutant: the previous version keeps the reference of the set.             *)
AppendVersionKeeps(s, v) == Ref([s EXCEPT !.current = v], v)

AppendVersion(s, v) == Ref([Unref(s, s.current) EXCEPT !.current = v], v)

Init ==
  \E v \in Lowest(Versions), m \in Lowest(Mems) :
      /\ files = [w \in Versions |-> IF w = v THEN {} ELSE {None}]
      /\ refs = [w \in Versions |-> IF w = v THEN 1 ELSE 0]
      /\ fileRefs = [f \in Files |-> 0]
      /\ current = v
      /\ mem = m /\ imm = None
      /\ memRefs = [n \in Mems |-> IF n = m THEN 1 ELSE 0]
      /\ pending_outputs = {} /\ next_file = 1 /\ disk = {} /\ cached = {}
      /\ reads = [r \in Readers |-> Idle]
      /\ flush = Idle /\ compact = Idle

(* Mutant: files being written are not counted as live.                     *)
LiveWithoutPending(s) == UNION {s.files[v] : v \in {w \in Versions : s.refs[w] > 0}}

(* pending_outputs_ and AddLiveFiles: the list has every version but the    *)
(* one whose edit is being written, which nobody has referenced yet.        *)
Live(s) ==
  pending_outputs' \cup UNION {s.files[v] : v \in {w \in Versions : s.refs[w] > 0}}

(* Mutant: the table cache keeps the tables of deleted files.               *)
EvictNothing(s) == cached

Evict(s) == cached \cap Live(s)

DeleteObsoleteFiles(s) == disk' = disk \cap Live(s) /\ cached' = Evict(s)

-----------------------------------------------------------------------------
(* Get and NewInternalIterator: reference mem_, imm_ and the version.       *)
(* Mutant: imm_ as it is when the reader is done.                           *)
MemsOfLater(read) == {read.mem, imm}

MemsOf(read) == {read.mem, read.imm}

Taken == [at |-> "reading", mem |-> mem, imm |-> imm, version |-> current]

(* Mutant: the version is used without a reference.                         *)
ReadRefNothing(s) == s

ReadRef(s) == Ref(s, current)

StartRead(r) ==
  /\ reads[r] = Idle
  /\ reads' = [reads EXCEPT ![r] = Taken]
  /\ SetVersions(ReadRef(VS))
  /\ memRefs' = [m \in Mems |-> IF m \in MemsOf(Taken) THEN memRefs[m] + 1 ELSE memRefs[m]]
  /\ UNCHANGED <<mem, imm, pending_outputs, next_file, disk, cached, flush, compact>>

(* Without the mutex: TableCache::FindTable for a file of the version.      *)
(* Errors are not cached.                                                   *)
OpenTable(r) ==
  /\ reads[r].at = "reading"
  /\ \E f \in files[reads[r].version] \ cached :
       cached' = IF f \in disk THEN cached \cup {f} ELSE cached
  /\ UNCHANGED <<versionVars, memVars, pending_outputs, next_file, disk, reads, flush, compact>>

(* The cache closes the table used longest ago.                             *)
CacheForgets(f) ==
  /\ f \in cached /\ cached' = cached \ {f}
  /\ UNCHANGED <<versionVars, memVars, pending_outputs, next_file, disk, reads, flush, compact>>

(* The end of Get, and CleanupIteratorState.                                *)
EndRead(r) ==
  /\ reads[r].at = "reading"
  /\ reads' = [reads EXCEPT ![r] = Idle]
  /\ SetVersions(Unref(VS, reads[r].version))
  /\ memRefs' = [m \in Mems |-> IF m \in MemsOf(reads[r]) THEN memRefs[m] - 1 ELSE memRefs[m]]
  /\ UNCHANGED <<mem, imm, pending_outputs, next_file, disk, cached, flush, compact>>

(* MakeRoomForWrite: the memtable is full.                                  *)
SwitchMemTable ==
  /\ imm = None
  /\ \E m \in Lowest({n \in Mems : memRefs[n] = 0}) :
       mem' = m /\ imm' = mem /\ memRefs' = [memRefs EXCEPT ![m] = 1]
  /\ UNCHANGED <<versionVars, pending_outputs, next_file, disk, cached, reads, flush, compact>>

-----------------------------------------------------------------------------
(* The background thread.  A compaction of tables stops to compact a        *)
(* memtable between two keys, so flush may be under way inside compact.     *)
MayFlush == imm # None /\ flush = Idle /\ compact.at \in {"idle", "working"}

NewFile == next_file <= MaxFile /\ next_file' = next_file + 1

(* CompactMemTable and WriteLevel0Table, to the mutex being given up.       *)
StartFlush ==
  /\ MayFlush /\ NewFile
  /\ pending_outputs' = pending_outputs \cup {next_file}
  /\ flush' = [at |-> "building", file |-> next_file, base |-> current]
  /\ SetVersions(Ref(VS, current))
  /\ UNCHANGED <<memVars, disk, cached, reads, compact>>

(* Without the mutex: BuildTable.  It opens the table to see that it can be *)
(* read, and deletes the file when something fails.                         *)
BuildTable ==
  /\ flush.at = "building"
  /\ \/ /\ disk' = disk \cup {flush.file} /\ cached' = cached \cup {flush.file}
        /\ flush' = [flush EXCEPT !.at = "built"]
     \/ /\ flush' = [flush EXCEPT !.at = "failed"]
        /\ UNCHANGED <<disk, cached>>
  /\ UNCHANGED <<versionVars, memVars, pending_outputs, next_file, reads, compact>>

(* The mutex again; on success LogAndApply makes the next version.          *)
EndBuild ==
  /\ flush.at \in {"built", "failed"}
  /\ pending_outputs' = pending_outputs \ {flush.file}
  /\ IF flush.at = "failed"
     THEN flush' = Idle /\ SetVersions(Unref(VS, flush.base))
     ELSE LET s == Unref(VS, flush.base)
          IN  \E v \in Free(s) :
                /\ SetVersions(NewVersion(s, v, s.files[current] \cup {flush.file}))
                /\ flush' = [at |-> "logging", version |-> v]
  /\ UNCHANGED <<memVars, next_file, disk, cached, reads, compact>>

(* The MANIFEST is written without the mutex; then the version is installed *)
(* and the memtable dropped, or, after an error, the version is deleted.    *)
EndFlush ==
  /\ flush.at = "logging"
  /\ flush' = Idle
  /\ UNCHANGED pending_outputs
  /\ \/ LET s == AppendVersion(VS, flush.version)
        IN  /\ SetVersions(s)
            /\ imm' = None /\ memRefs' = [memRefs EXCEPT ![imm] = @ - 1]
            /\ DeleteObsoleteFiles(s)
            /\ UNCHANGED mem
     \/ /\ SetVersions(DeleteVersion(VS, flush.version))
        /\ UNCHANGED <<memVars, disk, cached>>
  /\ UNCHANGED <<next_file, reads, compact>>

(* PickCompaction or CompactRange: input_version_ is referenced.            *)
StartCompaction ==
  /\ imm = None /\ flush = Idle /\ compact = Idle
  /\ \E inputs \in SUBSET files[current] \ {{}} :
       compact' = [at |-> "working", inputs |-> inputs, base |-> current,
                   outputs |-> {}, moves |-> FALSE]
  /\ SetVersions(Ref(VS, current))
  /\ UNCHANGED <<memVars, pending_outputs, next_file, disk, cached, reads, flush>>

(* IsTrivialMove: the files of the next version are the same.               *)
StartMove ==
  /\ imm = None /\ flush = Idle /\ compact = Idle
  /\ \E f \in files[current], v \in Free(VS) :
       /\ compact' = [at |-> "logging", inputs |-> {f}, base |-> current,
                      outputs |-> {f}, moves |-> TRUE, version |-> v]
       /\ SetVersions(NewVersion(Ref(VS, current), v, files[current]))
  /\ UNCHANGED <<memVars, pending_outputs, next_file, disk, cached, reads, flush>>

Working == flush = Idle /\ compact.at = "working"

(* OpenCompactionOutputFile to FinishCompactionOutputFile.                  *)
WriteOutput ==
  /\ Working /\ NewFile
  /\ pending_outputs' = pending_outputs \cup {next_file}
  /\ disk' = disk \cup {next_file} /\ cached' = cached \cup {next_file}
  /\ compact' = [compact EXCEPT !.outputs = @ \cup {next_file}]
  /\ UNCHANGED <<versionVars, memVars, reads, flush>>

(* Mutant: the edit is applied to the version the inputs were picked from.  *)
EditedBase(c) == (files[c.base] \ c.inputs) \cup c.outputs

(* InstallCompactionResults: LogAndApply on the version current by now.     *)
Edited(c) == (files[current] \ c.inputs) \cup c.outputs

Install ==
  /\ Working
  /\ \E v \in Free(VS) :
       /\ SetVersions(NewVersion(VS, v, Edited(compact)))
       /\ compact' = [at |-> "logging", inputs |-> compact.inputs, base |-> compact.base,
                      outputs |-> compact.outputs, moves |-> FALSE, version |-> v]
  /\ UNCHANGED <<memVars, pending_outputs, next_file, disk, cached, reads, flush>>

(* CleanupCompaction, ReleaseInputs, DeleteObsoleteFiles and the end of     *)
(* BackgroundCompaction.  After a move no file is deleted.                  *)
Cleanup(s) ==
  /\ compact' = Idle
  /\ LET t == Unref(s, compact.base)
     IN  /\ SetVersions(t)
         /\ IF compact.moves
            THEN UNCHANGED <<pending_outputs, disk, cached>>
            ELSE /\ pending_outputs' = pending_outputs \ compact.outputs
                 /\ DeleteObsoleteFiles(t)
  /\ UNCHANGED <<memVars, next_file, reads, flush>>

EndCompaction ==
  /\ compact.at = "logging" /\ flush = Idle
  /\ \/ Cleanup(AppendVersion(VS, compact.version))
     \/ Cleanup(DeleteVersion(VS, compact.version))

FailCompaction == Working /\ Cleanup(VS)

(* The numbers are used up, nothing is under way: where the bound ends.     *)
Bounded == next_file > MaxFile /\ UNCHANGED vars

Next ==
  \/ \E r \in Readers : StartRead(r) \/ OpenTable(r) \/ EndRead(r)
  \/ \E f \in Files : CacheForgets(f)
  \/ SwitchMemTable \/ StartFlush \/ BuildTable \/ EndBuild \/ EndFlush
  \/ StartCompaction \/ StartMove \/ WriteOutput \/ Install
  \/ EndCompaction \/ FailCompaction \/ Bounded

Spec == Init /\ [][Next]_vars

-----------------------------------------------------------------------------
TypeOK ==
  /\ \A v \in Versions : files[v] \subseteq Files \/ files[v] = {None}
  /\ refs \in [Versions -> Nat] /\ fileRefs \in [Files -> Nat]
  /\ current \in Versions /\ mem \in Mems /\ imm \in Mems \cup {None}
  /\ memRefs \in [Mems -> Nat]
  /\ pending_outputs \cup disk \cup cached \subseteq Files /\ next_file \in Nat

Holders(v) ==
  (IF current = v THEN 1 ELSE 0)
  + Cardinality({r \in Readers : reads[r].at = "reading" /\ reads[r].version = v})
  + (IF flush.at \in {"building", "built", "failed"} /\ flush.base = v THEN 1 ELSE 0)
  + (IF compact # Idle /\ compact.base = v THEN 1 ELSE 0)

Logged == {c.version : c \in {x \in {flush, compact} : x.at = "logging"}}

(* A Version object lives exactly as long as someone refers to it, or its   *)
(* edit is being written (Version::Ref, Unref, LogAndApply).                *)
VersionRefsExact ==
  \A v \in Versions : /\ Exists(v) => refs[v] = Holders(v)
                      /\ Exists(v) <=> Holders(v) > 0 \/ v \in Logged

(* FileMetaData objects count the versions they are in (Builder, ~Version). *)
FileRefsExact ==
  \A f \in Files : fileRefs[f] = Cardinality({v \in Versions : f \in files[v]})

(* A memtable lives while it is mem_, imm_ or referenced by a reader.       *)
MemRefsExact ==
  \A m \in Mems : memRefs[m] = (IF m \in {mem, imm} THEN 1 ELSE 0)
    + Cardinality({r \in Readers : reads[r].at = "reading" /\ m \in {reads[r].mem, reads[r].imm}})

(* The files of every version somebody reads, compacts or is about to       *)
(* install are on disk, and so are the tables being written                 *)
(* (DeleteObsoleteFiles, pending_outputs_, AddLiveFiles).                   *)
LiveTablesOnDisk ==
  /\ \A v \in Versions : Exists(v) => files[v] \subseteq disk
  /\ flush.at = "built" => flush.file \in disk
  /\ compact # Idle => compact.outputs \subseteq disk

(* No table a flush added is lost by the compaction it interrupted: the     *)
(* version that InstallCompactionResults logs has every table of the        *)
(* current one that was not compacted away.                                 *)
FlushSurvivesCompaction ==
  compact.at = "logging" => files[current] \ compact.inputs \subseteq files[compact.version]

(* The table cache has no table of a deleted file (TableCache::Evict).      *)
CacheFollowsDisk == cached \subseteq disk
=============================================================================
