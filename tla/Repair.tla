------------------------------- MODULE Repair -------------------------------
(***************************************************************************)
(* RepairDB (db/repair.cc): a descriptor is put together again from the    *)
(* logs and tables found.  The repair may crash at any step and be run     *)
(* again, tables may be unreadable and table builds may fail.  An entry is *)
(* [key, seq, bad]; bad marks what was read from a log record that does    *)
(* not match its checksum.                                                 *)
(***************************************************************************)
EXTENDS Integers, FiniteSets, FiniteSetsExt, Functions, TLC

CONSTANTS Keys, LastSeq,   \* keys, and how many entries were written
          MaxFile,         \* bound on the numbers of the files at first
          MaxCrashes,      \* bound on crashes of the repair
          Corrupt          \* whether log records can be corrupt

VARIABLES logs,        \* number -> entries of the log files
          tables,      \* number -> [entries, ok] of the table files
          descriptor,  \* what CURRENT leads to, or NoDescriptor
          r,           \* the Repairer
          written,     \* entries in readable files at first
          failed,      \* entries of logs no table could be built from
          crashes

vars == <<logs, tables, descriptor, r, written, failed, crashes>>

NoDescriptor == [files |-> {}, next |-> 0, last |-> 0]
Idle == [pc |-> "idle", logs |-> {}, log |-> 0, numbers |-> {}, kept |-> {}, next |-> 1]
Numbers == DOMAIN logs \cup DOMAIN tables

-----------------------------------------------------------------------------
(* FindFiles: the descriptor files do not count for next_file_number_.      *)
(* Mutant: the largest number found is given out again.                     *)
NextAfterSame(numbers) == Max(numbers \cup {1})

NextAfter(numbers) == Max(numbers \cup {0}) + 1

FindFiles ==
  /\ r.pc = "idle"
  /\ r' = [Idle EXCEPT !.pc = "logs", !.logs = DOMAIN logs, !.numbers = DOMAIN tables,
                       !.next = NextAfter(Numbers)]
  /\ UNCHANGED <<logs, tables, descriptor, written, failed, crashes>>

(* log::Reader as ConvertLogToTable makes it, without checksums.            *)
ReadRecords(l) == logs[l]

(* ConvertLogToTable: the logs come in the order the directory lists them.  *)
(* An unreadable log or a failing BuildTable gives no table.                *)
ConvertLogToTable(l, built) ==
  /\ r.pc = "logs" /\ r.log = 0 /\ l \in r.logs
  /\ IF built /\ ReadRecords(l) # {}
     THEN /\ tables' = tables @@ (r.next :> [entries |-> ReadRecords(l), ok |-> TRUE])
          /\ r' = [r EXCEPT !.log = l, !.next = @ + 1, !.numbers = @ \cup {r.next}]
     ELSE /\ UNCHANGED tables
          /\ r' = [r EXCEPT !.log = l, !.next = @ + 1]
  /\ failed' = IF built THEN failed ELSE failed \cup logs[l]
  /\ UNCHANGED <<logs, descriptor, written, crashes>>

(* Mutant: the log is put aside before it has been converted.               *)
ArchivableEarly(l) == l \in r.logs

Archivable(l) == l = r.log

(* ArchiveFile of a log, whatever came of it.                               *)
ArchiveLog ==
  /\ r.pc = "logs"
  /\ \E l \in DOMAIN logs :
       /\ Archivable(l)
       /\ logs' = Restrict(logs, DOMAIN logs \ {l})
       /\ r' = [r EXCEPT !.log = 0, !.logs = @ \ {l}]
  /\ UNCHANGED <<tables, descriptor, written, failed, crashes>>

LogsDone ==
  /\ r.pc = "logs" /\ r.logs = {}
  /\ r' = [r EXCEPT !.pc = "scan"]
  /\ UNCHANGED <<logs, tables, descriptor, written, failed, crashes>>

(* Mutant: a table is kept whatever the scan of it says.                    *)
KeptAlways(t) == t \in DOMAIN tables

Kept(t) == tables[t].ok

(* ScanTable, and ArchiveFile of a table that cannot be read.               *)
ExtractMetaData(t) ==
  /\ r.pc = "scan" /\ t \in r.numbers
  /\ r' = [r EXCEPT !.numbers = @ \ {t}, !.kept = IF Kept(t) THEN @ \cup {t} ELSE @]
  /\ tables' = IF tables[t].ok THEN tables ELSE Restrict(tables, DOMAIN tables \ {t})
  /\ UNCHANGED <<logs, descriptor, written, failed, crashes>>

Entries(files) == UNION {tables[t].entries : t \in files}

(* WriteDescriptor: the new one is written to a temporary file ...          *)
WriteTemp(good) ==
  /\ r.pc = "scan" /\ r.numbers = {}
  /\ r' = [r EXCEPT !.pc = IF good THEN "archive" ELSE "idle"]
  /\ UNCHANGED <<logs, tables, descriptor, written, failed, crashes>>

(* ... the old ones are put aside ...                                       *)
ArchiveManifests ==
  /\ r.pc = "archive"
  /\ descriptor' = NoDescriptor
  /\ r' = [r EXCEPT !.pc = "install"]
  /\ UNCHANGED <<logs, tables, written, failed, crashes>>

(* Mutant: the last sequence number is that of the last table scanned.      *)
LastSequenceOfOne == Max({e.seq : e \in Entries({Max(r.kept \cup {0})} \cap r.kept)} \cup {0})

LastSequence == Max({e.seq : e \in Entries(r.kept)} \cup {0})

(* ... and the new one is renamed and made current, or is not.              *)
Install(good) ==
  /\ r.pc = "install"
  /\ descriptor' = IF good THEN [files |-> r.kept, next |-> r.next, last |-> LastSequence]
                   ELSE descriptor
  /\ r' = [r EXCEPT !.pc = IF good THEN "done" ELSE "idle"]
  /\ UNCHANGED <<logs, tables, written, failed, crashes>>

Crash ==
  /\ r.pc \notin {"idle", "done"} /\ crashes < MaxCrashes
  /\ crashes' = crashes + 1
  /\ r' = Idle
  /\ UNCHANGED <<logs, tables, descriptor, written, failed>>

-----------------------------------------------------------------------------
(* A database as it may be found: an older and a newer table, either of     *)
(* which may have the larger number (the older data may have been compacted *)
(* since), and the logs of the immutable and of the current memtable.       *)
NonEmpty(f) == Restrict(f, {n \in DOMAIN f : f[n] # {}})

Init ==
  \E key \in [1 .. LastSeq -> Keys], a, b, c \in 0 .. LastSeq,
     x, y, l, m \in 1 .. MaxFile, bads \in SUBSET (IF Corrupt THEN 1 .. LastSeq ELSE {}) :
    LET E(i, j) == {[key |-> key[n], seq |-> n, bad |-> n \in bads] : n \in i + 1 .. j}
        file == (x :> E(0, a)) @@ (y :> E(a, b)) @@ (l :> E(b, c)) @@ (m :> E(c, LastSeq))
    IN  /\ a <= b /\ b <= c
        /\ Cardinality({x, y, l, m}) = 4 /\ l < m
        /\ \A n \in bads : n > b
        /\ logs = NonEmpty(Restrict(file, {l, m}))
        /\ \E ok \in SUBSET {x, y} :
             tables = [n \in DOMAIN NonEmpty(Restrict(file, {x, y})) |->
                         [entries |-> file[n], ok |-> n \in ok]]
        /\ descriptor = NoDescriptor /\ r = Idle
        /\ written = UNION {logs[n] : n \in DOMAIN logs}
                       \cup UNION {tables[n].entries : n \in {k \in DOMAIN tables : tables[k].ok}}
        /\ failed = {} /\ crashes = 0

Next ==
  \/ FindFiles
  \/ \E l \in r.logs, built \in BOOLEAN : ConvertLogToTable(l, built)
  \/ ArchiveLog \/ LogsDone
  \/ \E t \in r.numbers : ExtractMetaData(t)
  \/ \E good \in BOOLEAN : WriteTemp(good)
  \/ ArchiveManifests
  \/ \E good \in BOOLEAN : Install(good)
  \/ Crash

Spec == Init /\ [][Next]_vars

-----------------------------------------------------------------------------
Readable == {t \in DOMAIN tables : tables[t].ok}

(* Representation: what the Repairer works on is there.                     *)
TypeOK ==
  /\ r.logs \subseteq DOMAIN logs
  /\ r.kept \subseteq Readable
  /\ r.log \in r.logs \cup {0}

(* No crash, rerun or failure loses an entry that could be read: it is in a *)
(* log not yet put aside or in a table, unless no table could be built.     *)
NothingLost ==
  written \subseteq Entries(Readable) \cup UNION {logs[l] : l \in DOMAIN logs} \cup failed

(* The file number given out next was never used by a file that is still    *)
(* there: no table is overwritten, now or when the database is opened.      *)
FreshNumbers ==
  /\ r.pc # "idle" => \A n \in Numbers : n < r.next
  /\ \A n \in descriptor.files : n < descriptor.next

(* When the repair reports success the new descriptor lists every readable  *)
(* table, no log is left, and the last sequence number is not below that of *)
(* any entry: later writes are newer than all of them.                      *)
DescriptorComplete ==
  r.pc = "done" =>
    /\ descriptor.files = Readable /\ DOMAIN logs = {}
    /\ \A e \in Entries(descriptor.files) : e.seq <= descriptor.last

(* Version::Get on a key after the repair: the tables of level 0 by their   *)
(* numbers, largest first.                                                  *)
FoundAt(k) ==
  LET holding == {t \in descriptor.files : \E e \in tables[t].entries : e.key = k}
  IN  Max({e.seq : e \in {d \in tables[Max(holding)].entries : d.key = k}})

(* Version::Get meets the newest entry of a key first.                      *)
NewestFirst ==
  r.pc = "done" =>
    \A e \in Entries(descriptor.files) : FoundAt(e.key) >= e.seq

(* Corrupt log records are skipped, never put into a table.                 *)
CorruptSkipped == r.pc = "done" => \A e \in Entries(descriptor.files) : ~e.bad
=============================================================================
