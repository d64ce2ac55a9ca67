------------------------------- MODULE Recovery -------------------------------
(***************************************************************************)
(* LevelDB's files and what survives a crash: log files, table files, the  *)
(* MANIFEST of version edits and CURRENT (DBImpl::NewDB, Recover,          *)
(* RecoverLogFile, CompactMemTable, DeleteObsoleteFiles and DB::Open in    *)
(* db/db_impl.cc; VersionSet::LogAndApply and Recover in                   *)
(* db/version_set.cc; SetCurrentFile in db/filename.cc).  A crash of the   *)
(* process keeps the files as they are; a crash of the machine may take    *)
(* from each what was not synced, from the end.  Creating, renaming and    *)
(* deleting a file are taken to be durable at once.                        *)
(*                                                                         *)
(* An update is its sequence number; keys and levels are not told apart.   *)
(***************************************************************************)
EXTENDS Naturals, Sequences, FiniteSets, FiniteSetsExt, Functions

CONSTANTS MaxSequence,    \* bound on the updates
          MaxFile,        \* bound on the file numbers while open
          MaxCrashes,
          MaxFaults,      \* bound on the operations that fail
          Faults          \* what may fail: "table" or "manifest" writes

VARIABLES logs, manifests,  \* by number: contents, and how much was synced
          tables,           \* by number: the updates; synced when finished
          current,          \* the number in CURRENT, 0 if there is none
          m,                \* what the process knows, and where it is
          job,              \* the background thread's work
          acked, safe,      \* updates that must be found after a crash of the
                            \* process, and after one of the machine
          upto,             \* the last update written with sync
          crashes, faults

vars == <<logs, manifests, tables, current, m, job, acked, safe, upto, crashes, faults>>

Down == [pc |-> "down", version |-> {}, log_number |-> 0, manifest |-> 0, next_file |-> 0,
         last_sequence |-> 0, logfile |-> 0, mem |-> <<>>, imm |-> <<>>, has_imm |-> FALSE,
         add |-> {}, todo |-> {}, ok |-> TRUE]
NoJob == [stage |-> "none"]

File(contents) == [contents |-> contents, synced |-> 0]
Synced(f) == [f EXCEPT !.synced = Len(f.contents)]
With(f, x) == [f EXCEPT !.contents = Append(@, x)]
Updated(files, n, f) == [k \in DOMAIN files \cup {n} |-> IF k = n THEN f ELSE files[k]]
Without(files, gone) == [k \in DOMAIN files \ gone |-> files[k]]

(* VersionEdit; WriteSnapshot writes one without the numbers.               *)
Edit(add, del, log, next, seq) ==
  [add |-> add, del |-> del, numbers |-> TRUE, log |-> log, next |-> next, seq |-> seq]
Snapshot(add) == [add |-> add, del |-> {}, numbers |-> FALSE]

(* VersionSet::Recover: the version and the numbers a MANIFEST leads to.    *)
(* A table is in it that an edit adds and none deletes from there on; the   *)
(* last numbers count.                                                      *)
Replayed(edits) ==
  {n \in UNION {edits[i].add : i \in DOMAIN edits} :
     \E i \in DOMAIN edits :
       n \in edits[i].add /\ \A j \in DOMAIN edits : j > i => n \notin edits[j].del}
HasNumbers(edits) == \E i \in DOMAIN edits : edits[i].numbers
Numbers(edits) ==
  edits[CHOOSE i \in DOMAIN edits :
          edits[i].numbers /\ \A j \in DOMAIN edits : j > i => ~edits[j].numbers]
Readable(ms) == current \in DOMAIN ms /\ HasNumbers(ms[current].contents)

Init ==
  /\ logs = <<>> /\ manifests = <<>> /\ tables = <<>> /\ current = 0
  /\ m = Down /\ job = NoJob
  /\ acked = {} /\ safe = {} /\ upto = 0 /\ crashes = 0 /\ faults = 0

promises == <<acked, safe, upto, crashes, faults>>
-----------------------------------------------------------------------------
(* DB::Open and DBImpl::Recover, with create_if_missing.  NewDB closes the  *)
(* first MANIFEST without a sync; SetCurrentFile syncs and renames.         *)
OpenStart ==
  /\ m.pc = "down"
  /\ m' = [Down EXCEPT !.pc = IF current = 0 THEN "newdb" ELSE "recover"]
  /\ manifests' = IF current = 0
                  THEN Updated(manifests, 1, File(<<Edit({}, {}, 0, 2, 0)>>)) ELSE manifests
  /\ UNCHANGED <<logs, tables, current, job, promises>>

NewDBCurrent ==
  /\ m.pc = "newdb"
  /\ current' = 1
  /\ m' = [m EXCEPT !.pc = "recover"]
  /\ UNCHANGED <<logs, manifests, tables, job, promises>>

(* MarkFileNumberUsed *)
MarkFileNumberUsed(next, number) == IF next <= number THEN number + 1 ELSE next

RecoverManifest ==
  /\ m.pc = "recover" /\ Readable(manifests)
  /\ LET edits == manifests[current].contents
         e     == Numbers(edits)
     IN m' = [m EXCEPT !.pc = "logs", !.version = Replayed(edits), !.manifest = e.next,
                !.next_file = MarkFileNumberUsed(e.next + 1, e.log),
                !.log_number = e.log, !.last_sequence = e.seq,
                !.todo = {n \in DOMAIN logs : n >= e.log}]
  /\ UNCHANGED <<logs, manifests, tables, current, job, promises>>

(* Open returns the error of a MANIFEST that cannot be read.                *)
OpenFails ==
  /\ m.pc = "recover" /\ ~Readable(manifests)
  /\ m' = Down
  /\ UNCHANGED <<logs, manifests, tables, current, job, promises>>

(* Mutant: the numbers of the logs are not marked as used.                  *)
NextAfterLogSame(next, n) == next

NextAfterLog(next, n) == MarkFileNumberUsed(next, n)

(* RecoverLogFile for the oldest log left: its updates become a table of    *)
(* level 0; s is what the last log left behind.                             *)
RecoverLogFile(fails) ==
  LET n   == Min(m.todo)
      ids == Range(logs[n].contents)
  IN /\ m.pc = "logs" /\ m.todo # {}
     /\ fails => ids # {} /\ "table" \in Faults
     /\ faults' = IF fails THEN faults + 1 ELSE faults
     /\ faults' <= MaxFaults
     /\ tables' = IF ids = {} \/ fails THEN tables ELSE Updated(tables, m.next_file, ids)
     /\ m' = [m EXCEPT !.todo = @ \ {n}, !.ok = ~fails,
                !.add = IF ids = {} \/ fails THEN @ ELSE @ \cup {m.next_file},
                !.next_file = NextAfterLog(IF ids = {} THEN @ ELSE @ + 1, n),
                !.last_sequence = Max({@} \cup ids)]
     /\ UNCHANGED <<logs, manifests, current, job, acked, safe, upto, crashes>>

(* Mutant: the status of Recover is not looked at.                          *)
OpenProceedsAnyway == TRUE

OpenProceeds == m.ok

(* DB::Open after Recover: a new log, and LogAndApply with a new MANIFEST.  *)
OpenNewLog ==
  /\ m.pc = "logs" /\ m.todo = {}
  /\ IF OpenProceeds
     THEN /\ logs' = Updated(logs, m.next_file, File(<<>>))
          /\ m' = [m EXCEPT !.pc = "manifest", !.logfile = m.next_file, !.next_file = @ + 1]
          /\ UNCHANGED manifests
     ELSE m' = Down /\ UNCHANGED <<logs, manifests>>
  /\ UNCHANGED <<tables, current, job, promises>>

OpenNewManifest ==
  /\ m.pc = "manifest"
  /\ manifests' = Updated(manifests, m.manifest,
       Synced(File(<<Snapshot(m.version),
                     Edit(m.add, {}, m.logfile, m.next_file, m.last_sequence)>>)))
  /\ m' = [m EXCEPT !.pc = "current"]
  /\ UNCHANGED <<logs, tables, current, job, promises>>

OpenCurrent ==
  /\ m.pc = "current"
  /\ current' = m.manifest
  /\ m' = [m EXCEPT !.pc = "cleanup", !.version = @ \cup m.add, !.log_number = m.logfile,
                    !.add = {}]
  /\ UNCHANGED <<logs, manifests, tables, job, promises>>
-----------------------------------------------------------------------------
(* DBImpl::Write with the log on; a sync reaches all of the current log.    *)
Write(sync) ==
  LET id == m.last_sequence + 1
      l  == With(logs[m.logfile], id)
  IN /\ m.pc = "open" /\ id <= MaxSequence
     /\ logs' = [logs EXCEPT ![m.logfile] = IF sync THEN Synced(l) ELSE l]
     /\ m' = [m EXCEPT !.last_sequence = id, !.mem = Append(@, id)]
     /\ acked' = acked \cup {id}
     /\ safe' = IF sync THEN safe \cup Range(l.contents) ELSE safe
     /\ upto' = IF sync THEN id ELSE upto
     /\ UNCHANGED <<manifests, tables, current, job, crashes, faults>>

(* MakeRoomForWrite: the old log is closed, not synced.                     *)
SwitchLog ==
  /\ m.pc = "open" /\ ~m.has_imm /\ m.next_file < MaxFile
  /\ logs' = Updated(logs, m.next_file, File(<<>>))
  /\ m' = [m EXCEPT !.logfile = m.next_file, !.next_file = @ + 1,
                    !.imm = m.mem, !.mem = <<>>, !.has_imm = TRUE]
  /\ UNCHANGED <<manifests, tables, current, job, promises>>

(* Mutant: the number of a new table is not taken.                          *)
AfterBuildSame == m

(* NewFileNumber *)
AfterBuild == [m EXCEPT !.next_file = @ + 1]

(* CompactMemTable up to the table, and DoCompactionWork up to the outputs. *)
(* An empty memtable makes no table.                                        *)
BuildTable ==
  /\ m.pc = "open" /\ m.has_imm /\ job = NoJob /\ m.next_file < MaxFile
  /\ LET none == m.imm = <<>>
     IN /\ tables' = IF none THEN tables ELSE Updated(tables, m.next_file, Range(m.imm))
        /\ job' = [stage |-> "built", flush |-> TRUE, add |-> IF none THEN {} ELSE {m.next_file},
                   del |-> {}]
  /\ m' = AfterBuild
  /\ UNCHANGED <<logs, manifests, current, promises>>

Compact(inputs) ==
  /\ m.pc = "open" /\ ~m.has_imm /\ job = NoJob /\ m.next_file < MaxFile
  /\ inputs # {}
  /\ tables' = Updated(tables, m.next_file, UNION {tables[n] : n \in inputs})
  /\ job' = [stage |-> "built", flush |-> FALSE, add |-> {m.next_file}, del |-> inputs]
  /\ m' = AfterBuild
  /\ UNCHANGED <<logs, manifests, current, promises>>

(* Mutant: the flush keeps no log, not even the one in use.                 *)
LogAfterFlushNext == m.next_file

(* CompactMemTable: edit.SetLogNumber(logfile_number_)                      *)
LogAfterFlush == m.logfile

(* LogAndApply: the record is added, synced, and the version installed.     *)
LogEdit ==
  /\ job.stage = "built"
  /\ LET log == IF job.flush THEN LogAfterFlush ELSE m.log_number
     IN manifests' = [manifests EXCEPT ![m.manifest] =
                        With(@, Edit(job.add, job.del, log, m.next_file, m.last_sequence))]
  /\ job' = [job EXCEPT !.stage = "logged"]
  /\ UNCHANGED <<logs, tables, current, m, promises>>

(* Mutant: the version is installed before the MANIFEST is synced.          *)
ManifestUnsynced == manifests

ManifestSynced == [manifests EXCEPT ![m.manifest] = Synced(@)]

Installed ==
  [m EXCEPT !.version = (@ \ job.del) \cup job.add, !.pc = "cleanup",
            !.log_number = IF job.flush THEN LogAfterFlush ELSE @,
            !.imm = IF job.flush THEN <<>> ELSE @, !.has_imm = IF job.flush THEN FALSE ELSE @]

ApplyEdit ==
  /\ job.stage = "logged"
  /\ manifests' = ManifestSynced
  /\ m' = Installed
  /\ job' = NoJob
  /\ UNCHANGED <<logs, tables, current, promises>>

(* Mutant: the version is installed although the sync failed, without the   *)
(* tables it should gain.                                                   *)
AfterFailedEditInstalled ==
  [m EXCEPT !.version = @ \ job.del, !.pc = IF job.flush THEN @ ELSE "cleanup"]

AfterFailedEdit == [m EXCEPT !.pc = IF job.flush THEN @ ELSE "cleanup"]

(* The sync fails: nothing is installed, the outputs are no longer pending, *)
(* and a compaction goes on to delete them; a flush is tried again.         *)
ApplyFails ==
  /\ job.stage = "logged" /\ faults < MaxFaults /\ "manifest" \in Faults
  /\ faults' = faults + 1
  /\ job' = NoJob
  /\ m' = AfterFailedEdit
  /\ UNCHANGED <<logs, manifests, tables, current, acked, safe, upto, crashes>>

(* Mutant: only the tables are looked at to decide about logs.              *)
ObsoleteLogsAll == {n \in DOMAIN logs : n < m.logfile}

(* Mutant: a table is kept only if its number is new.                       *)
ObsoleteTablesAny == {n \in DOMAIN tables : n < m.log_number}

(* DeleteObsoleteFiles, which a crash may cut short after any file.         *)
ObsoleteLogs == {n \in DOMAIN logs : n < m.log_number}
ObsoleteManifests == {n \in DOMAIN manifests : n < m.manifest}
ObsoleteTables == DOMAIN tables \ m.version

DeleteObsoleteFile ==
  /\ m.pc = "cleanup"
  /\ \/ /\ \E n \in ObsoleteLogs : logs' = Without(logs, {n})
        /\ UNCHANGED <<manifests, tables>>
     \/ /\ \E n \in ObsoleteManifests : manifests' = Without(manifests, {n})
        /\ UNCHANGED <<logs, tables>>
     \/ /\ \E n \in ObsoleteTables : tables' = Without(tables, {n})
        /\ UNCHANGED <<logs, manifests>>
  /\ UNCHANGED <<current, m, job, promises>>

CleanupEnds ==
  /\ m.pc = "cleanup"
  /\ ObsoleteLogs = {} /\ ObsoleteManifests = {} /\ ObsoleteTables = {}
  /\ m' = [m EXCEPT !.pc = "open"]
  /\ UNCHANGED <<logs, manifests, tables, current, job, promises>>
-----------------------------------------------------------------------------
ProcessCrash ==
  /\ crashes < MaxCrashes /\ crashes' = crashes + 1
  /\ m' = Down /\ job' = NoJob
  /\ UNCHANGED <<logs, manifests, tables, current, acked, safe, upto, faults>>

(* What the disk may keep of a file: what was synced, and any number of     *)
(* records after it.                                                        *)
LeftOf(f) == {Synced(File(SubSeq(f.contents, 1, k))) : k \in f.synced .. Len(f.contents)}
Survivors(files) ==
  {left \in [DOMAIN files -> UNION {LeftOf(files[n]) : n \in DOMAIN files}] :
     \A n \in DOMAIN files : left[n] \in LeftOf(files[n])}
OnlySynced(files) ==
  [n \in DOMAIN files |-> Synced(File(SubSeq(files[n].contents, 1, files[n].synced)))]

MachineCrash ==
  /\ crashes < MaxCrashes /\ crashes' = crashes + 1
  /\ logs' \in Survivors(logs) /\ manifests' \in Survivors(manifests)
  /\ m' = Down /\ job' = NoJob /\ acked' = safe
  /\ UNCHANGED <<tables, current, safe, upto, faults>>

Next ==
  \/ OpenStart \/ NewDBCurrent \/ RecoverManifest \/ OpenFails \/ OpenNewLog
  \/ OpenNewManifest \/ OpenCurrent \/ SwitchLog \/ BuildTable \/ LogEdit \/ ApplyEdit \/ ApplyFails
  \/ DeleteObsoleteFile \/ CleanupEnds \/ ProcessCrash \/ MachineCrash
  \/ \E fails \in BOOLEAN : RecoverLogFile(fails)
  \/ \E sync \in BOOLEAN : Write(sync)
  \/ \E inputs \in SUBSET m.version : Compact(inputs)

Spec == Init /\ [][Next]_vars
-----------------------------------------------------------------------------
(* What DB::Open would find: the tables of the MANIFEST that exist, and the *)
(* logs from its log number on.                                             *)
Recoverable(ls, ms) ==
  IF ~Readable(ms) THEN {}
  ELSE LET edits == ms[current].contents
       IN (UNION {tables[n] : n \in Replayed(edits) \cap DOMAIN tables}) \cup
          (UNION {Range(ls[n].contents) : n \in {k \in DOMAIN ls : k >= Numbers(edits).log}})

TypeOK ==
  /\ current \in {0} \cup DOMAIN manifests
  /\ m.last_sequence <= MaxSequence
  /\ m.version \cup m.add \subseteq DOMAIN tables
  /\ safe \subseteq acked

(***************************************************************************)
(* options.h: if just the process crashes, no writes are lost.  At every   *)
(* step of a write, a flush, a compaction, an Open or a deletion of files, *)
(* the files hold every update that was acknowledged.                      *)
(***************************************************************************)
ProcessCrashLosesNothing == acked \subseteq Recoverable(logs, manifests)

(***************************************************************************)
(* If the machine crashes at any step, updates written with sync, and the  *)
(* ones before them in their log, are found again from what was synced.    *)
(***************************************************************************)
MachineCrashKeepsSynced ==
  safe \subseteq Recoverable(OnlySynced(logs), OnlySynced(manifests))

(***************************************************************************)
(* An open database shows every acknowledged update, and new updates get   *)
(* sequence numbers above all those in its files and memtables.            *)
(***************************************************************************)
OpenShowsAcked ==
  m.pc = "open" =>
    LET shown == (UNION {tables[n] : n \in m.version}) \cup Range(m.imm) \cup Range(m.mem)
    IN acked \subseteq shown /\ \A id \in shown : id <= m.last_sequence

(***************************************************************************)
(* NewFileNumber never returns the number of a log that is in use, and     *)
(* tables that a version needs are not written again.                      *)
(***************************************************************************)
NumbersFresh ==
  m.pc = "open" =>
    /\ \A n \in DOMAIN logs \cup m.version : n < m.next_file
    /\ job = NoJob \/ m.version \cap job.add = {}

(***************************************************************************)
(* Whatever step DB::Open, a write, a flush, a compaction or the deletion  *)
(* of files has reached, and whatever came before, a crash of the process  *)
(* loses no acknowledged update and a crash of the machine none that was   *)
(* synced; an open database shows them all and hands out fresh numbers.    *)
(***************************************************************************)
CrashSafe ==
  ProcessCrashLosesNothing /\ MachineCrashKeepsSynced /\ OpenShowsAcked /\ NumbersFresh

(***************************************************************************)
(* The comment in DBImpl::Recover: the creation of the database is         *)
(* committed when the descriptor is created.  Once CURRENT names it, a     *)
(* crash of the machine leaves a database that can be opened.              *)
(***************************************************************************)
CreatedCanBeOpened == current # 0 => Readable(OnlySynced(manifests))

(***************************************************************************)
(* doc/index.html on synchronous writes: after a crash a bulk load can be  *)
(* restarted just after the last synchronous write, so that everything     *)
(* before such a write is there.                                           *)
(***************************************************************************)
SyncCoversEarlier ==
  m.pc = "open" /\ job = NoJob /\ crashes = 0 =>
    1 .. upto \subseteq Recoverable(OnlySynced(logs), OnlySynced(manifests))
=============================================================================
