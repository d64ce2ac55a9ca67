---------------------------- MODULE StorageProofs ----------------------------
(***************************************************************************)
(* What LevelDB's files promise, for any number of processes, updates,     *)
(* files and crashes:                                                      *)
(*   - LOCK keeps a database to one process (FileLock), as long as each    *)
(*     process opens it once and nobody calls DestroyDB;                   *)
(*   - no crash loses what was acknowledged or synced (Recovery), as long  *)
(*     as no write of a table or of the MANIFEST fails.                    *)
(* RecoveryProofs has the invariant of the second and the steps of         *)
(* DB::Open; here are the writes, the background work and the crashes.     *)
(***************************************************************************)
EXTENDS FileLock, RecoveryProofs

(* What an open database knows of its files.                                *)
LEMMA WhileOpen ==
  ASSUME CrashInv, m.pc \in {"cleanup", "open"}
  PROVE  /\ current # 0 /\ m.manifest = current /\ HasNumbers(Few) /\ HasNumbers(All)
         /\ m \in Memory /\ m.next_file \in Nat /\ m.last_sequence \in Nat /\ m.logfile \in Nat
         /\ m.log_number \in Nat /\ m.version \in SUBSET Nat
         /\ m.mem \in Seq(Nat) /\ m.imm \in Seq(Nat)
         /\ m.version = Replayed(Few) /\ m.log_number = Numbers(Few).log
         /\ Numbers(Few).next <= m.next_file /\ Numbers(Few).next \in Nat
         /\ Numbers(All).next <= m.next_file /\ Numbers(All).next \in Nat
         /\ current < m.next_file
         /\ \A n \in m.version : /\ n \in DOMAIN tables /\ n < m.next_file
                                 /\ \A x \in tables[n] : x \in Nat /\ x <= m.last_sequence
         /\ Numbers(All).log <= m.logfile /\ Numbers(All).log >= m.log_number
         /\ Numbers(All).log \in Nat
         /\ m.logfile \in DOMAIN logs /\ m.logfile < m.next_file
<1>1. /\ current # 0 /\ m.manifest = current /\ HasNumbers(Few)
      /\ m.version = Replayed(Few) /\ m.log_number = Numbers(Few).log
      /\ Numbers(Few).next <= m.next_file /\ Numbers(Few).seq <= m.last_sequence
      /\ m.logfile \in DOMAIN logs /\ m.log_number <= m.logfile
      /\ \A n \in DOMAIN logs : n < m.next_file
      /\ (job = NoJob \/ job.stage = "built") => All = Few
  BY Zenon DEF CrashInv, Running
<1>2. HasNumbers(All)
  BY <1>1, OnDisk, Zenon
<1>3. /\ m \in Memory /\ m.next_file \in Nat /\ m.last_sequence \in Nat /\ m.logfile \in Nat
      /\ m.log_number \in Nat /\ m.version \in SUBSET Nat /\ m.mem \in Seq(Nat) /\ m.imm \in Seq(Nat)
  BY Zenon DEF CrashInv, Memory
<1>4. /\ Numbers(Few).next \in Nat /\ Numbers(All).next \in Nat /\ Numbers(All).log \in Nat
      /\ Numbers(Few).seq \in Nat /\ current < Numbers(Few).next /\ current \in Nat
  BY <1>1, <1>2, OnDisk, Zenon DEF Sane
<1>5. /\ Numbers(All).next <= m.next_file
      /\ Numbers(All).log <= m.logfile /\ Numbers(All).log >= m.log_number
  <2>1. CASE job = NoJob \/ job.stage = "built"
    BY <1>1, <1>3, <2>1
  <2>2. CASE ~(job = NoJob \/ job.stage = "built")
    <3>1. job.stage = "logged"
      BY <2>2, Zenon DEF CrashInv, Working, Jobs
    <3> QED BY <1>1, <1>3, <2>2, <3>1 DEF CrashInv, Working
  <2> QED BY <2>1, <2>2, Zenon
<1>6. current < m.next_file
  BY <1>1, <1>3, <1>4, SMTT(30)
<1>7. ASSUME NEW n \in m.version
      PROVE  /\ n \in DOMAIN tables /\ n < m.next_file
             /\ \A x \in tables[n] : x \in Nat /\ x <= m.last_sequence
  <2>1. n \in DOMAIN tables /\ n < Numbers(Few).next /\ \A x \in tables[n] : x <= Numbers(Few).seq
    BY <1>1, OnDisk, Zenon DEF Sane
  <2>2. n \in Nat /\ tables[n] \in SUBSET Nat
    BY <1>1, <2>1, OnDisk, Zenon DEF FilesOK
  <2>3. n < m.next_file
    BY <1>1, <1>3, <1>4, <2>1, <2>2, SMTT(30)
  <2>4. \A x \in tables[n] : x \in Nat /\ x <= m.last_sequence
    BY <1>1, <1>3, <1>4, <2>1, <2>2, SMTT(30)
  <2> QED BY <2>1, <2>3, <2>4, Zenon
<1> QED BY <1>1, <1>2, <1>3, <1>4, <1>5, <1>6, <1>7, Zenon

(* The elements of a longer sequence.                                       *)
LEMMA AppendSet ==
  ASSUME NEW S, NEW s \in Seq(S), NEW x \in S
  PROVE  /\ Append(s, x) \in Seq(S) /\ Len(Append(s, x)) = Len(s) + 1
         /\ Range(Append(s, x)) = Range(s) \cup {x}
         /\ \A i \in 1 .. Len(s) : Append(s, x)[i] = s[i]
<1> DEFINE l == Append(s, x)
<1>1. /\ l \in Seq(S) /\ Len(s) \in Nat /\ DOMAIN s = 1 .. Len(s) /\ DOMAIN l = 1 .. Len(s) + 1
      /\ Len(l) = Len(s) + 1
      /\ l[Len(s) + 1] = x /\ \A i \in 1 .. Len(s) : l[i] = s[i]
  OBVIOUS
<1> HIDE DEF l
<1>2. Range(l) = Range(s) \cup {x}
  BY <1>1 DEF Range
<1> QED BY <1>1, <1>2, Zenon DEF l

(* One more update in a log ...                                             *)
LEMMA NewContents ==
  ASSUME NEW A, NEW B, NEW f \in [contents : A, synced : B], NEW s
  PROVE  [f EXCEPT !.contents = s] = [contents |-> s, synced |-> f.synced]
OBVIOUS

(* ... which the process does not sync by itself.                           *)
LEMMA LongerLog ==
  ASSUME NEW f \in LogFile, f.synced <= Len(f.contents), NEW x \in Nat
  PROVE  /\ With(f, x) \in LogFile
         /\ With(f, x).contents = Append(f.contents, x) /\ With(f, x).synced = f.synced
         /\ Len(With(f, x).contents) = Len(f.contents) + 1
         /\ Kept(With(f, x)) = Kept(f)
         /\ Range(With(f, x).contents) = Range(f.contents) \cup {x}
<1> DEFINE s == f.contents
           l == Append(s, x)
           g == With(f, x)
<1>1. s \in Seq(Nat) /\ f.synced \in Nat /\ Len(s) \in Nat
  BY DEF LogFile
<1>2. g = [contents |-> l, synced |-> f.synced]
  <2>1. g = [f EXCEPT !.contents = l]
    BY Zenon DEF With
  <2> HIDE DEF l, g, s
  <2> QED BY <2>1, NewContents, Zenon DEF LogFile
<1> HIDE DEF s
<1>3. /\ l \in Seq(Nat) /\ Len(l) = Len(s) + 1 /\ Range(l) = Range(s) \cup {x}
      /\ \A i \in 1 .. Len(s) : l[i] = s[i]
  BY <1>1, AppendSet
<1> HIDE DEF l, g
<1>4. g \in LogFile /\ g.contents = l /\ g.synced = f.synced
  BY <1>1, <1>2, <1>3, Zenon DEF LogFile
<1>5. f.synced <= Len(s) /\ f.synced <= Len(l)
  BY <1>1, <1>3 DEF s
<1>6. /\ Kept(f) \in Seq(Nat) /\ Len(Kept(f)) = f.synced
      /\ \A i \in 1 .. f.synced : Kept(f)[i] = s[i]
  BY KeptFile, Zenon DEF LogFile, s
<1>7. /\ Kept(g) \in Seq(Nat) /\ Len(Kept(g)) = f.synced
      /\ \A i \in 1 .. f.synced : Kept(g)[i] = l[i]
  BY <1>4, <1>5, KeptFile, Zenon DEF LogFile
<1>8. \A i \in 1 .. f.synced : l[i] = s[i]
  BY <1>1, <1>3, <1>5
<1>9. Kept(g) = Kept(f)
  BY <1>6, <1>7, <1>8, SeqEqual, Zenon
<1> QED BY <1>3, <1>4, <1>9, Zenon DEF g, l, s

(* The log in use is read by recovery from either state of the MANIFEST, so *)
(* what is appended to it is covered, and after a sync sure to stay.        *)
LEMMA WriteSafe ==
  ASSUME NEW sync \in BOOLEAN
  PROVE  CrashInv /\ Write(sync) => CrashInv'
<1> SUFFICES ASSUME CrashInv, Write(sync) PROVE CrashInv'
  BY Zenon
<1> DEFINE id == m.last_sequence + 1
           lf == m.logfile
           l  == With(logs[lf], id)
           f  == IF sync THEN Synced(l) ELSE l
           log == [logs EXCEPT ![lf] = f]
<1>1. /\ m.pc = "open" /\ logs' = [logs EXCEPT ![lf] = f]
      /\ m' = [m EXCEPT !.last_sequence = id, !.mem = Append(m.mem, id)]
      /\ acked' = acked \cup {id}
      /\ safe' = IF sync THEN safe \cup Range(l.contents) ELSE safe
      /\ UNCHANGED <<manifests, tables, current, job>>
  BY Zenon DEF Write
<1>2. current # 0 /\ lf \in DOMAIN logs /\ lf \in Nat /\ id \in Nat
  BY <1>1, WhileOpen
<1>3. logs \in [DOMAIN logs -> LogFile] /\ logs[lf] \in LogFile
      /\ logs[lf].synced <= Len(logs[lf].contents)
  BY <1>2, OnDisk, Zenon DEF FilesOK
<1>4. /\ l \in LogFile /\ l.contents = Append(logs[lf].contents, id)
      /\ l.synced = logs[lf].synced /\ Len(l.contents) = Len(logs[lf].contents) + 1
      /\ Kept(l) = Kept(logs[lf]) /\ Range(l.contents) = Range(logs[lf].contents) \cup {id}
  <2> HIDE DEF id, lf
  <2> QED BY <1>2, <1>3, LongerLog, Zenon
<1>5. /\ logs[lf].synced \in Nat /\ Len(logs[lf].contents) \in Nat
  BY <1>3 DEF LogFile
<1> HIDE DEF id, l, lf
<1>6. /\ f \in LogFile /\ f.contents = l.contents /\ f.synced <= Len(f.contents)
      /\ Range(Kept(f)) = IF sync THEN Range(l.contents) ELSE Range(Kept(logs[lf]))
  <2>1. CASE sync
    <3>1. /\ Synced(l) \in LogFile /\ Synced(l).contents = l.contents
          /\ Synced(l).synced = Len(l.contents) /\ Kept(Synced(l)) = l.contents
      BY <1>4, SyncedFile, Zenon DEF LogFile
    <3>2. Len(l.contents) \in Nat
      BY <1>4, <1>5
    <3> QED BY <2>1, <3>1, <3>2
  <2>2. CASE ~sync
    <3>1. l.synced <= Len(l.contents)
      BY <1>3, <1>4, <1>5
    <3> QED BY <1>4, <2>2, <3>1, Zenon
  <2> QED BY <2>1, <2>2, Zenon
<1>7. Range(Kept(logs[lf])) \subseteq Range(logs[lf].contents)
  BY <1>3, KeptFile, Zenon DEF LogFile
<1> HIDE DEF f
<1>8. logs' = Updated(logs, lf, f)
  BY <1>1, <1>2, <1>3, Zenon DEF Updated
<1>9. /\ DOMAIN logs' = DOMAIN logs /\ logs'[lf] = f
      /\ \A k \in DOMAIN logs : k # lf => logs'[k] = logs[k]
  BY <1>2, <1>8, Zenon DEF Updated
<1>10. FilesOK(logs', manifests', tables')
  <2>1. FilesOK(Updated(logs, lf, f), manifests, tables)
    BY <1>2, <1>6, OnDisk, LogWritten, Zenon
  <2> QED BY <1>1, <1>8, <2>1, Zenon
<1>11. \A k \in DOMAIN logs : /\ Range(logs[k].contents) \subseteq Range(logs'[k].contents)
                              /\ Range(Kept(logs[k])) \subseteq Range(Kept(logs'[k]))
  <2> TAKE k \in DOMAIN logs
  <2>1. CASE k = lf
    BY <1>4, <1>6, <1>7, <1>9, <2>1, Zenon
  <2>2. CASE k # lf
    BY <1>9, <2>2, Zenon
  <2> QED BY <2>1, <2>2, Zenon
<1>12. \A E \in {All, Few} : HasNumbers(E) => \A k \in Replayed(E) : k \in DOMAIN tables
  BY <1>2, OnDisk, Zenon DEF Sane
<1>13. PromisesKept(logs', manifests, tables, current, acked, safe)
  <2>1. PromisesKept(logs, manifests, tables, current, acked, safe)
    BY <1>2, OnDisk, Zenon
  <2>2. NeededFilesStay(manifests[current], logs, tables, logs', tables)
    BY <1>9, <1>11, <1>12, Zenon DEF NeededFilesStay, All, Few
  <2> QED BY <2>1, <2>2, PromisesMore, Zenon
<1>14. /\ HasNumbers(All) /\ HasNumbers(Few) /\ lf >= Numbers(All).log /\ lf >= Numbers(Few).log
  BY <1>1, WhileOpen, Zenon DEF CrashInv, Running, lf
<1>15. id \in Range(logs'[lf].contents) /\ (sync => Range(l.contents) \subseteq Range(Kept(logs'[lf])))
  BY <1>4, <1>6, <1>9, Zenon
<1>16. Covered(All, acked', AllIds(logs'), tables)
  <2>1. Covered(All, acked, AllIds(logs'), tables)
    BY <1>13, Zenon DEF PromisesKept, All
  <2>2. lf \in DOMAIN AllIds(logs') /\ id \in AllIds(logs')[lf]
    BY <1>2, <1>9, <1>15, LogIds, Zenon
  <2> QED BY <1>1, <1>14, <2>1, <2>2, Zenon DEF Covered
<1>17. Covered(All, safe', KeptIds(logs'), tables) /\ Covered(Few, safe', KeptIds(logs'), tables)
  <2>1. Covered(All, safe, KeptIds(logs'), tables) /\ Covered(Few, safe, KeptIds(logs'), tables)
    BY <1>13, Zenon DEF PromisesKept, All, Few
  <2>2. lf \in DOMAIN KeptIds(logs') /\ KeptIds(logs')[lf] = Range(Kept(logs'[lf]))
    BY <1>2, <1>9, LogIds, Zenon
  <2>3. CASE sync
    BY <1>1, <1>14, <1>15, <2>1, <2>2, <2>3, Zenon DEF Covered
  <2>4. CASE ~sync
    BY <1>1, <2>1, <2>4, Zenon
  <2> QED BY <2>3, <2>4, Zenon
<1>18. PromisesKept(logs', manifests, tables, current, acked', safe')
  BY <1>13, <1>16, <1>17, Zenon DEF PromisesKept, All, Few
<1>19. acked' \subseteq Nat /\ safe' \subseteq Nat
  <2>1. acked \subseteq Nat /\ safe \subseteq Nat
    BY Zenon DEF CrashInv, DiskInv
  <2>2. Range(l.contents) \subseteq Nat
    BY <1>4, SMTT(30) DEF LogFile, Range
  <2> QED BY <1>1, <1>2, <2>1, <2>2, Zenon
<1>20. DiskInv'
  BY <1>1, <1>2, <1>10, <1>18, <1>19, Zenon DEF CrashInv, DiskInv
<1>21. /\ m \in Memory /\ m.mem \in Seq(Nat) /\ m.last_sequence \in Nat /\ m.imm \in Seq(Nat)
  BY <1>1, WhileOpen, Zenon
<1>22. Append(m.mem, id) \in Seq(Nat) /\ Range(Append(m.mem, id)) = Range(m.mem) \cup {id}
  BY <1>2, <1>21, AppendSet, SMTT(30)
<1>23. m' \in Memory
  BY <1>1, <1>2, <1>21, <1>22, Zenon DEF Memory
<1>24. /\ m'.pc = m.pc /\ m'.version = m.version /\ m'.log_number = m.log_number
       /\ m'.manifest = m.manifest /\ m'.next_file = m.next_file
       /\ m'.last_sequence = id /\ m'.logfile = lf /\ m'.mem = Append(m.mem, id)
       /\ m'.imm = m.imm /\ m'.has_imm = m.has_imm
  BY <1>1, <1>21, Zenon DEF Memory, lf
<1>25. All' = All /\ Few' = Few
  BY <1>1, Zenon DEF All, Few
<1>26. \A x \in Nat : x <= m.last_sequence => x <= id
  BY <1>21 DEF id
<1>27. Running'
  <2>1. logs[lf].contents = m.mem
    BY <1>1, Zenon DEF CrashInv, Running, lf
  <2>2. logs'[lf].contents = Append(m.mem, id)
    BY <1>4, <1>6, <1>9, <2>1, Zenon
  <2>3. m.has_imm => m.log_number < lf /\ logs'[m.log_number].contents = m.imm
    <3> HAVE m.has_imm
    <3>1. m.log_number < lf /\ logs[m.log_number].contents = m.imm /\ m.log_number \in DOMAIN logs
      BY <1>1, Zenon DEF CrashInv, Running, lf
    <3>2. m.log_number # lf
      BY <1>1, <1>2, <3>1, WhileOpen
    <3> QED BY <1>9, <3>1, <3>2, Zenon
  <2>4. \A x \in Range(Append(m.mem, id)) \cup Range(m.imm) : x <= id
    <3>1. \A x \in Range(m.mem) \cup Range(m.imm) : x \in Nat /\ x <= m.last_sequence
      BY <1>1, <1>21, SMTT(30) DEF CrashInv, Running, Range
    <3>2. id <= id
      BY <1>2
    <3> QED BY <1>22, <1>26, <3>1, <3>2, Zenon
  <2>5. Numbers(Few).seq <= id
    <3>1. Numbers(Few).seq \in Nat /\ Numbers(Few).seq <= m.last_sequence
      BY <1>1, <1>2, <1>14, OnDisk, Zenon DEF Sane, CrashInv, Running
    <3> QED BY <1>26, <3>1, Zenon
  <2> QED BY <1>1, <1>9, <1>24, <1>25, <2>2, <2>3, <2>4, <2>5, SMTT(30) DEF CrashInv, Running, lf
<1>28. Working'
  <2> SUFFICES ASSUME job # NoJob PROVE Working'
    BY <1>1, Zenon DEF Working
  <2>1. \A n \in job.add : \A x \in tables[n] : x <= id
    <3>1. \A n \in job.add : n \in DOMAIN tables /\ \A x \in tables[n] : x <= m.last_sequence
      BY Zenon DEF CrashInv, Working
    <3>2. \A n \in DOMAIN tables : tables[n] \in SUBSET Nat
      BY <1>2, OnDisk, Zenon DEF FilesOK
    <3> QED BY <1>26, <3>1, <3>2, Zenon
  <2>2. job.stage = "logged" => Numbers(All).seq <= id
    <3> HAVE job.stage = "logged"
    <3>1. Numbers(All).seq \in Nat /\ Numbers(All).seq <= m.last_sequence
      BY <1>2, <1>14, OnDisk, Zenon DEF Sane, CrashInv, Working
    <3> QED BY <1>26, <3>1, Zenon
  <2> QED BY <1>1, <1>24, <1>25, <2>1, <2>2, SMTT(30) DEF CrashInv, Working, lf
<1> QED BY <1>1, <1>20, <1>23, <1>24, <1>27, <1>28, Zenon DEF CrashInv, Starting, Recovering, Switching

-----------------------------------------------------------------------------
(* MakeRoomForWrite: the log that is left is the one of the memtable that   *)
(* is to be flushed.                                                        *)
LEMMA SwitchLogSafe == CrashInv /\ SwitchLog => CrashInv'
<1> SUFFICES ASSUME CrashInv, SwitchLog PROVE CrashInv'
  BY Zenon
<1> DEFINE nf == m.next_file
<1>1. /\ m.pc = "open" /\ ~m.has_imm /\ logs' = Updated(logs, nf, File(<<>>))
      /\ m' = [m EXCEPT !.logfile = nf, !.next_file = nf + 1, !.imm = m.mem, !.mem = <<>>,
                        !.has_imm = TRUE]
      /\ UNCHANGED <<manifests, tables, current, job, acked, safe>>
  BY Zenon DEF SwitchLog, promises
<1>2. /\ current # 0 /\ m \in Memory /\ nf \in Nat /\ nf + 1 \in Nat /\ m.mem \in Seq(Nat)
      /\ m.log_number \in Nat /\ m.logfile \in Nat
  BY <1>1, WhileOpen
<1>3. /\ m.logfile \in DOMAIN logs /\ logs[m.logfile].contents = m.mem
      /\ m.log_number = m.logfile /\ m.imm = <<>>
      /\ \A n \in DOMAIN logs : n < nf /\ (n >= m.log_number => n \in {m.log_number, m.logfile})
      /\ \A x \in Range(m.mem) \cup Range(m.imm) : x <= m.last_sequence
  BY <1>1, Zenon DEF CrashInv, Running
<1>4. \A n \in DOMAIN logs : n \in Nat
  BY <1>2, OnDisk, Zenon
<1>5. nf \notin DOMAIN logs
  BY <1>2, <1>3, <1>4
<1>6. /\ DiskInv' /\ DOMAIN logs' = DOMAIN logs \cup {nf} /\ logs'[nf].contents = <<>>
      /\ \A k \in DOMAIN logs : logs'[k] = logs[k]
  BY <1>1, <1>2, <1>5, NewLog, Zenon
<1>7. m' \in Memory
  <2>1. <<>> \in Seq(Nat)
    OBVIOUS
  <2> HIDE DEF nf
  <2> QED BY <1>1, <1>2, <2>1, Zenon DEF Memory
<1>8. /\ m'.pc = m.pc /\ m'.version = m.version /\ m'.log_number = m.log_number
      /\ m'.manifest = m.manifest /\ m'.next_file = nf + 1
      /\ m'.last_sequence = m.last_sequence /\ m'.logfile = nf /\ m'.mem = <<>>
      /\ m'.imm = m.mem /\ m'.has_imm
  BY <1>1, <1>2, Zenon DEF Memory
<1> HIDE DEF nf
<1>9. All' = All /\ Few' = Few
  BY <1>1, Zenon DEF All, Few
<1>10. \A x \in Nat : x <= nf => x <= nf + 1
  BY <1>2
<1>11. Running'
  <2>1. Numbers(Few).next <= nf + 1
    BY <1>1, <1>10, WhileOpen, Zenon DEF nf
  <2>2. m.log_number < nf /\ m.log_number <= nf /\ nf < nf + 1
    BY <1>2, <1>3
  <2>3. \A n \in DOMAIN logs' : n < nf + 1 /\ (n >= m.log_number => n \in {m.log_number, nf})
    <3> TAKE n \in DOMAIN logs'
    <3>1. CASE n = nf
      BY <2>2, <3>1, Zenon
    <3>2. CASE n \in DOMAIN logs
      <4>1. n \in Nat /\ n < nf /\ (n >= m.log_number => n \in {m.log_number, m.logfile})
        BY <1>3, <1>4, <3>2, Zenon
      <4> QED BY <1>2, <1>3, <4>1
    <3> QED BY <1>6, <3>1, <3>2, Zenon
  <2>4. \A x \in Range(<<>>) \cup Range(m.mem) : x <= m.last_sequence
    <3>1. Range(<<>>) = {}
      BY DEF Range
    <3> QED BY <1>3, <3>1, Zenon
  <2>5. logs'[m.log_number].contents = m.mem /\ m.log_number \in DOMAIN logs'
    BY <1>3, <1>6, Zenon
  <2> QED BY <1>1, <1>6, <1>8, <1>9, <2>1, <2>2, <2>3, <2>4, <2>5, SMTT(30) DEF CrashInv, Running
<1>12. Working'
  <2> SUFFICES ASSUME job # NoJob PROVE Working'
    BY <1>1, Zenon DEF Working
  <2>1. /\ job \in Jobs /\ ~job.flush
        /\ \A n \in job.add : /\ n \in DOMAIN tables /\ n < nf /\ n \notin m.version
                              /\ \A x \in tables[n] : x <= m.last_sequence
        /\ job.del \subseteq m.version
        /\ \A n \in job.del : \A x \in tables[n] : \E k \in job.add : x \in tables[k]
        /\ \A k \in job.add : \A x \in tables[k] : \E n \in job.del : x \in tables[n]
        /\ job.stage = "logged" =>
             /\ HasNumbers(All) /\ Replayed(All) = (m.version \ job.del) \cup job.add
             /\ Numbers(All).log = m.log_number
             /\ Numbers(All).seq <= m.last_sequence
    BY <1>1, Zenon DEF CrashInv, Working, nf
  <2>2. Numbers(All).next <= nf + 1
    BY <1>1, <1>10, WhileOpen, Zenon DEF nf
  <2>3. \A n \in job.add : n < nf + 1
    <3>1. \A n \in job.add : n \in Nat /\ n < nf
      BY <2>1, Zenon DEF Jobs
    <3> QED BY <1>2, <3>1
  <2> QED BY <1>1, <1>8, <1>9, <2>1, <2>2, <2>3, SMTT(30) DEF Working
<1> QED BY <1>1, <1>6, <1>7, <1>8, <1>11, <1>12, Zenon DEF CrashInv, Starting, Recovering, Switching

(* A table that is built is fresh, and in no version yet.                   *)
LEMMA TableBuilt ==
  ASSUME CrashInv, m.pc = "open", job = NoJob, NEW ids \in SUBSET Nat,
         \A x \in ids : x <= m.last_sequence,
         tables' = Updated(tables, m.next_file, ids) \/ (ids = {} /\ tables' = tables),
         m' = AfterBuild, UNCHANGED <<logs, manifests, current, acked, safe>>,
         job'.stage = "built"
  PROVE  /\ DiskInv' /\ m' \in Memory /\ Running'
         /\ m'.pc = m.pc /\ m'.version = m.version /\ m'.next_file = m.next_file + 1
         /\ m'.imm = m.imm /\ m'.has_imm = m.has_imm /\ m'.last_sequence = m.last_sequence
         /\ m.next_file < m'.next_file /\ m.next_file \notin m.version
         /\ \A n \in m.version : tables'[n] = tables[n]
         /\ ids # {} => m.next_file \in DOMAIN tables' /\ tables'[m.next_file] = ids
<1> DEFINE nf == m.next_file
<1>1. /\ current # 0 /\ m \in Memory /\ nf \in Nat /\ nf + 1 \in Nat /\ HasNumbers(All)
      /\ nf >= Numbers(All).next /\ m.last_sequence \in Nat
      /\ \A n \in m.version : n \in DOMAIN tables /\ n < nf /\ n \in Nat
  BY WhileOpen, SMTT(30)
<1>2. m' = [m EXCEPT !.next_file = nf + 1]
  BY Zenon DEF AfterBuild
<1> HIDE DEF nf
<1>3. m' \in Memory
  BY <1>1, <1>2, Zenon DEF Memory
<1>4. /\ m'.pc = m.pc /\ m'.version = m.version /\ m'.log_number = m.log_number
      /\ m'.manifest = m.manifest /\ m'.next_file = nf + 1
      /\ m'.last_sequence = m.last_sequence /\ m'.logfile = m.logfile /\ m'.mem = m.mem
      /\ m'.imm = m.imm /\ m'.has_imm = m.has_imm
  BY <1>1, <1>2, Zenon DEF Memory
<1>5. nf \notin m.version /\ nf < nf + 1
  BY <1>1
<1>6. DiskInv'
  <2>1. CASE tables' = Updated(tables, m.next_file, ids)
    BY <1>1, <2>1, NewTable, Zenon DEF nf
  <2>2. CASE tables' = tables
    BY <2>2, DiskSame, Zenon DEF CrashInv
  <2> QED BY <2>1, <2>2, Zenon
<1>7. \A n \in m.version : tables'[n] = tables[n]
  BY <1>1, <1>5, Zenon DEF Updated, nf
<1>8. ids # {} => nf \in DOMAIN tables' /\ tables'[nf] = ids
  BY Zenon DEF Updated, nf
<1>9. All' = All /\ Few' = Few
  BY Zenon DEF All, Few
<1>10. Running'
  <2>1. Numbers(Few).next <= nf + 1
    <3>1. Numbers(Few).next <= nf /\ Numbers(Few).next \in Nat
      BY WhileOpen, Zenon DEF nf
    <3> QED BY <1>1, <3>1
  <2>2. \A n \in DOMAIN logs : n < nf + 1
    <3>1. \A n \in DOMAIN logs : n \in Nat /\ n < nf
      BY <1>1, OnDisk, Zenon DEF CrashInv, Running, nf
    <3> QED BY <1>1, <3>1, SMTT(30)
  <2> QED BY <1>4, <1>9, <2>1, <2>2, Zenon DEF CrashInv, Running
<1> QED BY <1>3, <1>4, <1>5, <1>6, <1>7, <1>8, <1>10, Zenon DEF nf

(* CompactMemTable: the new table holds the memtable.                       *)
LEMMA BuildTableSafe == CrashInv /\ BuildTable => CrashInv'
<1> SUFFICES ASSUME CrashInv, BuildTable PROVE CrashInv'
  BY Zenon
<1> DEFINE ids == Range(m.imm)
           nf  == m.next_file
           adds == IF m.imm = <<>> THEN {} ELSE {nf}
<1>1. /\ m.pc = "open" /\ m.has_imm /\ job = NoJob
      /\ tables' = IF m.imm = <<>> THEN tables ELSE Updated(tables, nf, ids)
      /\ job' = [stage |-> "built", flush |-> TRUE, add |-> adds, del |-> {}]
      /\ m' = AfterBuild /\ UNCHANGED <<logs, manifests, current, acked, safe>>
  BY Zenon DEF BuildTable, promises
<1>2. m.imm \in Seq(Nat) /\ nf \in Nat
  BY <1>1, WhileOpen, Zenon
<1>3. ids \in SUBSET Nat /\ (m.imm = <<>> <=> ids = {})
  <2>1. m.imm = <<>> => ids = {}
    BY DEF Range
  <2>2. m.imm # <<>> => 1 \in DOMAIN m.imm
    BY <1>2
  <2>3. m.imm # <<>> => ids # {}
    BY <2>2, Zenon DEF Range
  <2>4. ids \in SUBSET Nat
    BY <1>2 DEF Range
  <2> QED BY <2>1, <2>3, <2>4, Zenon
<1>4. \A x \in ids : x <= m.last_sequence
  BY <1>1, Zenon DEF CrashInv, Running
<1>5. job'.stage = "built" /\ job'.flush /\ job'.add = adds /\ job'.del = {} /\ job' # NoJob
  BY <1>1, Zenon DEF NoJob
<1>6. job' \in Jobs
  <2>1. adds \in SUBSET Nat
    BY <1>2, Zenon
  <2> HIDE DEF adds
  <2> QED BY <1>1, <2>1, Zenon DEF Jobs
<1> HIDE DEF ids
<1>7. tables' = Updated(tables, nf, ids) \/ (ids = {} /\ tables' = tables)
  <2>1. CASE m.imm = <<>>
    BY <1>1, <1>3, <2>1, Zenon
  <2>2. CASE m.imm # <<>>
    BY <1>1, <2>2, Zenon
  <2> QED BY <2>1, <2>2, Zenon
<1>8. /\ DiskInv' /\ m' \in Memory /\ Running'
      /\ m'.pc = m.pc /\ m'.version = m.version /\ m'.next_file = m.next_file + 1
      /\ m'.imm = m.imm /\ m'.has_imm = m.has_imm /\ m'.last_sequence = m.last_sequence
      /\ nf < m'.next_file /\ nf \notin m.version
      /\ ids # {} => nf \in DOMAIN tables' /\ tables'[nf] = ids
  <2> HIDE DEF adds
  <2> QED BY <1>1, <1>3, <1>4, <1>5, <1>7, TableBuilt, Zenon
<1> HIDE DEF nf
<1>9. \A n \in adds : n = nf /\ ids # {}
  BY <1>3, Zenon
<1>10. \A x \in ids : \E n \in adds : x \in tables'[n]
  BY <1>3, <1>8, Zenon
<1> HIDE DEF adds
<1>11. /\ \A n \in job'.add : /\ n \in DOMAIN tables' /\ n < m'.next_file /\ n \notin m'.version
                              /\ \A x \in tables'[n] : x <= m'.last_sequence
       /\ \A n \in job'.add : tables'[n] \subseteq ids
  BY <1>4, <1>5, <1>8, <1>9, Zenon
<1>12. Working'
  BY <1>1, <1>5, <1>6, <1>8, <1>10, <1>11, Zenon DEF Working, ids
<1> QED BY <1>1, <1>8, <1>12, Zenon DEF CrashInv, Starting, Recovering, Switching

(* DoCompactionWork: the output holds what its inputs hold.                 *)
LEMMA CompactSafe ==
  ASSUME NEW inputs \in SUBSET m.version
  PROVE  CrashInv /\ Compact(inputs) => CrashInv'
<1> SUFFICES ASSUME CrashInv, Compact(inputs) PROVE CrashInv'
  BY Zenon
<1> DEFINE ids == UNION {tables[n] : n \in inputs}
           nf  == m.next_file
<1>1. /\ m.pc = "open" /\ ~m.has_imm /\ job = NoJob
      /\ tables' = Updated(tables, nf, ids)
      /\ job' = [stage |-> "built", flush |-> FALSE, add |-> {nf}, del |-> inputs]
      /\ m' = AfterBuild /\ UNCHANGED <<logs, manifests, current, acked, safe>>
  BY Zenon DEF Compact, promises
<1>2. /\ nf \in Nat /\ inputs \in SUBSET Nat
      /\ \A n \in inputs : \A x \in tables[n] : x \in Nat /\ x <= m.last_sequence
  BY <1>1, WhileOpen, Zenon
<1>3. ids \in SUBSET Nat /\ \A x \in ids : x <= m.last_sequence
  BY <1>2, Zenon
<1>4. /\ job'.stage = "built" /\ ~job'.flush /\ job'.add = {nf} /\ job'.del = inputs
      /\ job' # NoJob /\ job' \in Jobs
  BY <1>1, <1>2, Zenon DEF NoJob, Jobs
<1>5. \A x \in ids : \E n \in inputs : x \in tables[n]
  BY Zenon
<1>6. \A n \in inputs : \A x \in tables[n] : x \in ids
  BY Zenon
<1> HIDE DEF ids
<1>7. /\ DiskInv' /\ m' \in Memory /\ Running'
      /\ m'.pc = m.pc /\ m'.version = m.version /\ m'.next_file = m.next_file + 1
      /\ m'.imm = m.imm /\ m'.has_imm = m.has_imm /\ m'.last_sequence = m.last_sequence
      /\ nf < m'.next_file /\ nf \notin m.version
      /\ \A n \in m.version : tables'[n] = tables[n]
  <2>1. tables' = Updated(tables, m.next_file, ids) \/ (ids = {} /\ tables' = tables)
    BY <1>1, Zenon
  <2>2. job'.stage = "built" /\ m.pc = "open" /\ job = NoJob /\ m' = AfterBuild
        /\ UNCHANGED <<logs, manifests, current, acked, safe>>
    BY <1>1, <1>4, Zenon
  <2> QED BY <1>3, <2>1, <2>2, TableBuilt, Zenon
<1>8. nf \in DOMAIN tables' /\ tables'[nf] = ids
  BY <1>1, Zenon DEF Updated
<1> HIDE DEF nf
<1>9. /\ \A n \in job'.add : /\ n \in DOMAIN tables' /\ n < m'.next_file /\ n \notin m'.version
                             /\ \A x \in tables'[n] : x <= m'.last_sequence
  BY <1>3, <1>4, <1>7, <1>8, Zenon
<1>10. /\ \A n \in job'.del : \A x \in tables'[n] : \E k \in job'.add : x \in tables'[k]
       /\ \A k \in job'.add : \A x \in tables'[k] : \E n \in job'.del : x \in tables'[n]
  BY <1>4, <1>5, <1>6, <1>7, <1>8, Zenon
<1>11. Working'
  BY <1>1, <1>4, <1>7, <1>9, <1>10, Zenon DEF Working
<1> QED BY <1>1, <1>7, <1>11, Zenon DEF CrashInv, Starting, Recovering, Switching

-----------------------------------------------------------------------------
(* One more edit in a MANIFEST, not synced yet.                             *)
LEMMA LongerManifest ==
  ASSUME NEW f \in ManifestFile, f.synced <= Len(f.contents), NEW x \in Edits
  PROVE  /\ With(f, x) \in ManifestFile
         /\ With(f, x).contents = Append(f.contents, x) /\ With(f, x).synced = f.synced
         /\ Len(With(f, x).contents) = Len(f.contents) + 1
         /\ Kept(With(f, x)) = Kept(f)
<1> DEFINE S == Edits
<1>1. f \in [contents : Seq(S), synced : Nat] /\ x \in S
  BY Zenon DEF ManifestFile
<1>2. ManifestFile = [contents : Seq(S), synced : Nat]
  BY Zenon DEF ManifestFile
<1> HIDE DEF S
<1>3. With(f, x) \in [contents : Seq(S), synced : Nat]
  BY <1>1, LongerFile, Zenon
<1>4. With(f, x).contents = Append(f.contents, x)
  BY <1>1, LongerFile, SMTT(30)
<1>5. Kept(With(f, x)) = Kept(f)
  BY <1>1, LongerFile
<1>6. With(f, x).synced = f.synced
  BY <1>1, LongerFile
<1>7. Len(With(f, x).contents) = Len(f.contents) + 1
  BY <1>1, LongerFile
<1> QED BY <1>2, <1>3, <1>4, <1>5, <1>6, <1>7, Zenon

(* LogAndApply adds a record to the MANIFEST: with it recovery finds in the *)
(* new tables what the old tables or the flushed log held, and without it   *)
(* everything is where it was.                                              *)
LEMMA LogEditSafe == CrashInv /\ LogEdit => CrashInv'
<1> SUFFICES ASSUME CrashInv, LogEdit PROVE CrashInv'
  BY Zenon
<1> DEFINE log == IF job.flush THEN m.logfile ELSE m.log_number
           e   == Edit(job.add, job.del, log, m.next_file, m.last_sequence)
           old == manifests[current]
           f   == With(old, e)
<1>1. /\ job.stage = "built" /\ job' = [job EXCEPT !.stage = "logged"]
      /\ manifests' = [manifests EXCEPT ![m.manifest] = With(manifests[m.manifest], e)]
      /\ UNCHANGED <<logs, tables, current, m, acked, safe>>
  BY Zenon DEF LogEdit, LogAfterFlush, promises
<1>2. job # NoJob
  BY <1>1, SMTT(30) DEF NoJob
<1>3. /\ m.pc = "open" /\ job \in Jobs
      /\ \A n \in job.add : /\ n \in DOMAIN tables /\ n < m.next_file /\ n \notin m.version
                            /\ \A x \in tables[n] : x <= m.last_sequence
      /\ job.flush => /\ m.has_imm /\ job.del = {}
                      /\ \A x \in Range(m.imm) : \E n \in job.add : x \in tables[n]
                      /\ \A n \in job.add : tables[n] \subseteq Range(m.imm)
      /\ ~job.flush => /\ job.del \subseteq m.version
                       /\ \A n \in job.del : \A x \in tables[n] : \E k \in job.add : x \in tables[k]
                       /\ \A k \in job.add : \A x \in tables[k] : \E n \in job.del : x \in tables[n]
  BY <1>2, Zenon DEF CrashInv, Working
<1>4. /\ current # 0 /\ m.manifest = current /\ m.next_file \in Nat /\ m.last_sequence \in Nat
      /\ m.logfile \in Nat /\ m.log_number \in Nat /\ current < m.next_file
      /\ m.version = Replayed(Few) /\ m.log_number = Numbers(Few).log
      /\ HasNumbers(Few) /\ HasNumbers(All) /\ Numbers(Few).next <= m.next_file
      /\ m.logfile < m.next_file
      /\ \A n \in m.version : /\ n \in DOMAIN tables /\ n < m.next_file
                              /\ \A x \in tables[n] : x <= m.last_sequence
  BY <1>3, WhileOpen, Zenon
<1>5. /\ m.log_number <= m.logfile /\ All = Few
      /\ m.has_imm => m.log_number < m.logfile /\ logs[m.log_number].contents = m.imm
      /\ \A n \in DOMAIN logs : n >= m.log_number => n \in {m.log_number, m.logfile}
  BY <1>1, <1>3, Zenon DEF CrashInv, Running
<1>6. job.add \in SUBSET Nat /\ job.del \in SUBSET Nat /\ job.flush \in BOOLEAN
  BY <1>3, Zenon DEF Jobs
<1>7. log \in Nat /\ log < m.next_file /\ log <= m.logfile
  <2>1. CASE job.flush
    BY <1>4, <2>1, SMTT(30)
  <2>2. CASE ~job.flush
    BY <1>4, <1>5, <2>2, SMTT(30)
  <2> QED BY <2>1, <2>2, Zenon
<1>8. /\ e \in Edits /\ e.numbers /\ e.add = job.add /\ e.del = job.del /\ e.log = log
      /\ e.next = m.next_file /\ e.seq = m.last_sequence
  <2> HIDE DEF log
  <2> QED BY <1>4, <1>6, <1>7, Zenon DEF Edit, Edits
<1> HIDE DEF e, log
<1>9. /\ manifests \in [DOMAIN manifests -> ManifestFile] /\ current \in DOMAIN manifests
      /\ current \in Nat \ {0} /\ old \in ManifestFile /\ old.synced <= Len(old.contents)
      /\ old.contents \in Seq(Edits) /\ old.contents = All /\ Kept(old) = Few
  BY <1>4, OnDisk, Zenon DEF FilesOK, All, Few
<1> HIDE DEF old
<1>10. /\ f \in ManifestFile /\ f.contents = Append(All, e) /\ Kept(f) = Few
       /\ f.synced <= Len(f.contents) /\ OneUnsynced(f)
  <2>1. /\ f \in ManifestFile /\ f.contents = Append(All, e) /\ Kept(f) = Few
        /\ f.synced = old.synced /\ Len(f.contents) = Len(old.contents) + 1
    BY <1>8, <1>9, LongerManifest, Zenon
  <2>2. old.synced \in Nat /\ Len(old.contents) \in Nat
    BY <1>9, SMTT(30) DEF ManifestFile
  <2>3. Len(old.contents) = old.synced
    BY <1>5, <1>9, KeptFile, Zenon DEF ManifestFile
  <2> QED BY <1>9, <2>1, <2>2, <2>3, SMTT(30) DEF OneUnsynced
<1> HIDE DEF f
<1>11. manifests' = Updated(manifests, current, f)
  BY <1>1, <1>4, <1>9, Zenon DEF Updated, f, old
<1>12. DOMAIN manifests' = DOMAIN manifests /\ manifests'[current] = f
  BY <1>9, <1>11, Zenon DEF Updated
<1>13. FilesOK(logs', manifests', tables')
  <2>1. FilesOK(logs, Updated(manifests, current, f), tables)
    BY <1>4, <1>9, <1>10, OnDisk, ManifestWritten, Zenon
  <2> QED BY <1>1, <1>11, <2>1, Zenon
<1> DEFINE edits == Append(All, e)
<1>14. /\ HasNumbers(edits) /\ Numbers(edits) = e
       /\ Replayed(edits) = (m.version \ job.del) \cup job.add
  BY <1>4, <1>5, <1>8, <1>9, ReplayAppend, SMTT(30)
<1> HIDE DEF edits
<1>15. Sane(edits, tables, current)
  <2>1. \A n \in Replayed(edits) :
          n \in DOMAIN tables /\ n < m.next_file /\ \A x \in tables[n] : x <= m.last_sequence
    BY <1>3, <1>4, <1>14, Zenon
  <2> QED BY <1>4, <1>7, <1>8, <1>14, <2>1, Zenon DEF Sane
<1>16. ASSUME NEW S, NEW ids, DOMAIN ids = DOMAIN logs,
              \A n \in DOMAIN logs : ids[n] \subseteq Range(logs[n].contents),
              Covered(All, S, ids, tables)
       PROVE  Covered(edits, S, ids, tables)
  <2> SUFFICES ASSUME NEW x \in S
               PROVE  \/ \E n \in Replayed(edits) : x \in tables[n]
                      \/ \E n \in DOMAIN ids : n >= log /\ x \in ids[n]
    BY <1>8, <1>14, Zenon DEF Covered
  <2>1. \/ \E n \in m.version : x \in tables[n]
        \/ \E n \in DOMAIN ids : n >= m.log_number /\ x \in ids[n]
    BY <1>4, <1>5, <1>16, Zenon DEF Covered
  <2>2. CASE \E n \in m.version : x \in tables[n]
    <3>1. PICK n \in m.version : x \in tables[n]
      BY <2>2, Zenon
    <3>2. CASE n \in job.del
      BY <1>3, <1>14, <3>1, <3>2, Zenon
    <3>3. CASE n \notin job.del
      BY <1>14, <3>1, <3>3, Zenon
    <3> QED BY <3>2, <3>3, Zenon
  <2>3. CASE \E n \in DOMAIN ids : n >= m.log_number /\ x \in ids[n]
    <3>1. PICK n \in DOMAIN ids : n >= m.log_number /\ x \in ids[n]
      BY <2>3, Zenon
    <3>2. n \in {m.log_number, m.logfile} /\ x \in Range(logs[n].contents)
      BY <1>5, <1>16, <3>1, Zenon
    <3>3. CASE ~job.flush
      BY <3>1, <3>3, Zenon DEF log
    <3>4. CASE job.flush /\ n = m.logfile
      BY <1>4, <3>1, <3>4, SMTT(30) DEF log
    <3>5. CASE job.flush /\ n = m.log_number
      <4>1. x \in Range(m.imm)
        BY <1>3, <1>5, <3>2, <3>5, Zenon
      <4> QED BY <1>3, <1>14, <3>5, <4>1, Zenon
    <3> QED BY <1>6, <3>2, <3>3, <3>4, <3>5, Zenon
  <2> QED BY <2>1, <2>2, <2>3, Zenon
<1>17. \A n \in DOMAIN logs : Range(Kept(logs[n])) \subseteq Range(logs[n].contents)
  BY <1>4, OnDisk, KeptFile, Zenon DEF FilesOK, LogFile
<1>18. Covered(edits, acked, AllIds(logs), tables)
  <2>1. Covered(All, acked, AllIds(logs), tables)
    BY <1>4, OnDisk, Zenon
  <2> QED BY <1>16, <2>1, LogIds, Zenon
<1>19. Covered(edits, safe, KeptIds(logs), tables)
  BY <1>4, <1>16, <1>17, OnDisk, LogIds, Zenon
<1>20. PromisesKept(logs', manifests', tables', current', acked', safe')
  <2>1. /\ manifests'[current].contents = edits /\ Kept(manifests'[current]) = Few
        /\ OneUnsynced(manifests'[current])
    BY <1>10, <1>12, Zenon DEF edits
  <2>2. Sane(Few, tables, current) /\ Covered(Few, safe, KeptIds(logs), tables)
    BY <1>4, OnDisk, Zenon
  <2>3. Numbers(Few).next <= Numbers(edits).next
    BY <1>4, <1>8, <1>14, Zenon
  <2> QED BY <1>1, <1>14, <1>15, <1>18, <1>19, <2>1, <2>2, <2>3, Zenon DEF PromisesKept
<1>21. DiskInv'
  BY <1>1, <1>4, <1>9, <1>12, <1>13, <1>20, Zenon DEF CrashInv, DiskInv
<1>22. All' = edits /\ Few' = Few
  BY <1>1, <1>10, <1>12, Zenon DEF All, Few, edits
<1>23. /\ job' \in Jobs /\ job'.stage = "logged" /\ job'.flush = job.flush /\ job'.add = job.add
       /\ job'.del = job.del /\ job' # NoJob
  BY <1>1, <1>3, Zenon DEF Jobs, NoJob
<1>24. Running'
  BY <1>1, <1>22, <1>23, Zenon DEF CrashInv, Running
<1>25. Working'
  <2>1. /\ HasNumbers(edits) /\ Replayed(edits) = (m.version \ job.del) \cup job.add
        /\ Numbers(edits).log = log
        /\ Numbers(edits).next <= m.next_file /\ Numbers(edits).seq <= m.last_sequence
    BY <1>4, <1>8, <1>14, SMTT(30)
  <2> QED BY <1>1, <1>3, <1>22, <1>23, <2>1, Zenon DEF Working, log
<1> QED BY <1>1, <1>3, <1>21, <1>24, <1>25, Zenon DEF CrashInv, Starting, Recovering, Switching

(* The version is installed once the MANIFEST is synced: from then on both  *)
(* of its states are the new one.                                           *)
LEMMA ApplyEditSafe == CrashInv /\ ApplyEdit => CrashInv'
<1> SUFFICES ASSUME CrashInv, ApplyEdit PROVE CrashInv'
  BY Zenon
<1> DEFINE old == manifests[current]
           f   == Synced(old)
           log == IF job.flush THEN m.logfile ELSE m.log_number
           imm == IF job.flush THEN <<>> ELSE m.imm
           has == IF job.flush THEN FALSE ELSE m.has_imm
           version == (m.version \ job.del) \cup job.add
<1>1. /\ job.stage = "logged" /\ job' = NoJob
      /\ manifests' = [manifests EXCEPT ![m.manifest] = Synced(manifests[m.manifest])]
      /\ m' = [m EXCEPT !.version = version, !.pc = "cleanup", !.log_number = log, !.imm = imm,
                        !.has_imm = has]
      /\ UNCHANGED <<logs, tables, current, acked, safe>>
  BY Zenon DEF ApplyEdit, ManifestSynced, Installed, LogAfterFlush, promises
<1>2. job # NoJob
  BY <1>1, SMTT(30) DEF NoJob
<1>3. /\ m.pc = "open" /\ job \in Jobs /\ (job.flush => m.has_imm)
      /\ HasNumbers(All) /\ Replayed(All) = version /\ Numbers(All).log = log
      /\ Numbers(All).next <= m.next_file /\ Numbers(All).seq <= m.last_sequence
  BY <1>1, <1>2, Zenon DEF CrashInv, Working
<1>4. /\ current # 0 /\ m.manifest = current /\ m \in Memory /\ m.next_file \in Nat
      /\ m.logfile \in Nat /\ m.log_number \in Nat /\ m.version \in SUBSET Nat
  BY <1>3, WhileOpen, Zenon
<1>5. /\ m.logfile \in DOMAIN logs /\ logs[m.logfile].contents = m.mem
      /\ m.log_number \in DOMAIN logs /\ m.log_number <= m.logfile
      /\ m.has_imm => m.log_number < m.logfile /\ logs[m.log_number].contents = m.imm
      /\ ~m.has_imm => m.log_number = m.logfile /\ m.imm = <<>>
      /\ \A n \in DOMAIN logs :
           n < m.next_file /\ (n >= m.log_number => n \in {m.log_number, m.logfile})
      /\ \A x \in Range(m.mem) \cup Range(m.imm) : x <= m.last_sequence
  BY <1>3, Zenon DEF CrashInv, Running
<1>6. job.add \in SUBSET Nat /\ job.flush \in BOOLEAN
  BY <1>3, Zenon DEF Jobs
<1>7. /\ version \in SUBSET Nat /\ log \in Nat /\ imm \in Seq(Nat) /\ has \in BOOLEAN
  <2>1. m.imm \in Seq(Nat) /\ m.has_imm \in BOOLEAN /\ <<>> \in Seq(Nat)
    BY <1>4 DEF Memory
  <2>2. CASE job.flush
    BY <1>4, <1>6, <2>1, <2>2, Zenon
  <2>3. CASE ~job.flush
    BY <1>4, <1>6, <2>1, <2>3, Zenon
  <2> QED BY <2>2, <2>3, Zenon
<1>8. /\ log \in DOMAIN logs /\ log <= m.logfile
      /\ has => log < m.logfile /\ logs[log].contents = imm
      /\ ~has => log = m.logfile /\ imm = <<>>
      /\ \A n \in DOMAIN logs : n >= log => n \in {log, m.logfile}
      /\ \A x \in Range(m.mem) \cup Range(imm) : x <= m.last_sequence
  <2>1. CASE job.flush
    <3>1. log = m.logfile /\ imm = <<>> /\ ~has
      BY <2>1, Zenon
    <3>2. Range(<<>>) = {}
      BY DEF Range
    <3>3. \A n \in DOMAIN logs : n >= m.logfile => n = m.logfile
      <4> SUFFICES ASSUME NEW n \in DOMAIN logs, n >= m.logfile PROVE n = m.logfile
        BY Zenon
      <4>1. n \in Nat /\ m.log_number < m.logfile
        BY <1>3, <1>4, <1>5, <2>1, OnDisk, Zenon
      <4>2. n >= m.log_number /\ n # m.log_number
        BY <1>4, <4>1, SMTT(30)
      <4> QED BY <1>5, <4>2, Zenon
    <3> HIDE DEF log, imm, has
    <3> QED BY <1>4, <1>5, <3>1, <3>2, <3>3, SMTT(30)
  <2>2. CASE ~job.flush
    <3>1. log = m.log_number /\ imm = m.imm /\ has = m.has_imm
      BY <2>2, Zenon
    <3> HIDE DEF log, imm, has
    <3> QED BY <1>5, <3>1, Zenon
  <2> QED BY <2>1, <2>2, Zenon
<1> HIDE DEF log, imm, has, version
<1>9. m' \in Memory
  BY <1>1, <1>4, <1>7, Zenon DEF Memory
<1>10. /\ m'.pc = "cleanup" /\ m'.version = version /\ m'.log_number = log
       /\ m'.manifest = m.manifest /\ m'.next_file = m.next_file
       /\ m'.last_sequence = m.last_sequence /\ m'.logfile = m.logfile /\ m'.mem = m.mem
       /\ m'.imm = imm /\ m'.has_imm = has
  BY <1>1, <1>4, Zenon DEF Memory
<1>11. /\ manifests \in [DOMAIN manifests -> ManifestFile] /\ current \in DOMAIN manifests
       /\ current \in Nat \ {0} /\ old \in ManifestFile /\ old.contents \in Seq(Edits)
       /\ old.contents = All
  BY <1>4, OnDisk, Zenon DEF FilesOK, All
<1> HIDE DEF old
<1>12. /\ f \in ManifestFile /\ f.contents = All /\ Kept(f) = All /\ f.synced <= Len(f.contents)
       /\ OneUnsynced(f)
  <2>1. f \in ManifestFile /\ f.contents = All /\ Kept(f) = All /\ f.synced = Len(All)
    BY <1>11, SyncedFile, Zenon DEF ManifestFile
  <2>2. Len(All) <= Len(All) /\ Len(All) <= Len(All) + 1
    BY <1>11
  <2> QED BY <2>1, <2>2, Zenon DEF OneUnsynced
<1> HIDE DEF f
<1>13. manifests' = Updated(manifests, current, f)
  BY <1>1, <1>4, <1>11, Zenon DEF Updated, f, old
<1>14. DOMAIN manifests' = DOMAIN manifests /\ manifests'[current] = f
  BY <1>11, <1>13, Zenon DEF Updated
<1>15. FilesOK(logs', manifests', tables')
  <2>1. FilesOK(logs, Updated(manifests, current, f), tables)
    BY <1>4, <1>11, <1>12, OnDisk, ManifestWritten, Zenon
  <2> QED BY <1>1, <1>13, <2>1, Zenon
<1>16. PromisesKept(logs', manifests', tables', current', acked', safe')
  <2>1. /\ manifests'[current].contents = All /\ Kept(manifests'[current]) = All
        /\ OneUnsynced(manifests'[current])
    BY <1>12, <1>14, Zenon
  <2>2. Sane(All, tables, current) /\ Covered(All, safe, KeptIds(logs), tables)
        /\ Covered(All, acked, AllIds(logs), tables)
    BY <1>4, OnDisk, Zenon
  <2>3. Numbers(All).next <= Numbers(All).next
    BY <1>3, <2>2, SMTT(30) DEF Sane
  <2> QED BY <1>1, <1>3, <2>1, <2>2, <2>3, Zenon DEF PromisesKept
<1>17. DiskInv'
  BY <1>1, <1>4, <1>11, <1>14, <1>15, <1>16, Zenon DEF CrashInv, DiskInv
<1>18. All' = All /\ Few' = All
  BY <1>1, <1>12, <1>14, Zenon DEF All, Few
<1>19. Running'
  BY <1>1, <1>3, <1>4, <1>5, <1>8, <1>10, <1>18, Zenon DEF Running
<1> QED BY <1>1, <1>9, <1>10, <1>17, <1>19, Zenon DEF CrashInv, Starting, Recovering, Switching, Working

-----------------------------------------------------------------------------
(* DeleteObsoleteFiles takes logs, MANIFESTs and tables that no recovery    *)
(* looks at.                                                                *)
LEMMA DeleteObsoleteFileSafe == CrashInv /\ DeleteObsoleteFile => CrashInv'
<1> SUFFICES ASSUME CrashInv, DeleteObsoleteFile PROVE CrashInv'
  BY Zenon
<1>1. m.pc = "cleanup" /\ job = NoJob /\ UNCHANGED <<current, m, job, acked, safe>>
  BY Idle, Zenon DEF DeleteObsoleteFile, promises
<1>2. /\ current # 0 /\ m.manifest = current /\ m.version = Replayed(Few)
      /\ m.log_number = Numbers(Few).log /\ m.log_number \in Nat /\ m.logfile \in Nat
      /\ HasNumbers(Few) /\ current \in Nat
  BY <1>1, WhileOpen, OnDisk, Zenon
<1>3. /\ All = Few /\ m.logfile \in DOMAIN logs /\ m.log_number \in DOMAIN logs
      /\ m.log_number <= m.logfile
  BY <1>1, Zenon DEF CrashInv, Running
<1>4. \A n \in m.version : n \in DOMAIN tables
  BY <1>1, WhileOpen, Zenon
<1>5. FilesOK(logs, manifests, tables) /\ current \in DOMAIN manifests /\ DOMAIN logs \subseteq Nat
      /\ PromisesKept(logs, manifests, tables, current, acked, safe)
  BY <1>2, OnDisk, Zenon
<1>6. ASSUME FilesOK(logs', manifests', tables'), current \in DOMAIN manifests',
             manifests'[current] = manifests[current],
             DOMAIN logs' \subseteq DOMAIN logs,
             \A n \in DOMAIN logs : n >= m.log_number => n \in DOMAIN logs' /\ logs'[n] = logs[n],
             \A n \in m.version : n \in DOMAIN tables' /\ tables'[n] = tables[n]
      PROVE  CrashInv'
  <2>1. PromisesKept(logs', manifests', tables', current, acked, safe)
    <3>1. \A E \in {manifests[current].contents, Kept(manifests[current])} : E = Few
      BY <1>3, Zenon DEF All, Few
    <3>2. NeededFilesStay(manifests[current], logs, tables, logs', tables')
      BY <1>2, <1>6, <3>1, Zenon DEF NeededFilesStay
    <3> QED BY <1>5, <1>6, <3>2, PromisesMore, Zenon
  <2>2. DiskInv'
    BY <1>1, <1>2, <1>6, <2>1, Zenon DEF CrashInv, DiskInv
  <2>3. All' = All /\ Few' = Few
    BY <1>1, <1>6, Zenon DEF All, Few
  <2>4. /\ m.logfile \in DOMAIN logs' /\ logs'[m.logfile] = logs[m.logfile]
        /\ m.log_number \in DOMAIN logs' /\ logs'[m.log_number] = logs[m.log_number]
    BY <1>2, <1>3, <1>6, SMTT(30)
  <2>5. Running'
    <3>1. Running
      BY Zenon DEF CrashInv
    <3>2. m' = m /\ job' = job /\ current' = current /\ \A n \in DOMAIN logs' : n \in DOMAIN logs
      BY <1>1, <1>6, Zenon
    <3> QED BY <2>3, <2>4, <3>1, <3>2, Zenon DEF Running
  <2> QED BY <1>1, <2>2, <2>5, Zenon DEF CrashInv, Starting, Recovering, Switching, Working
<1>7. ASSUME NEW n \in ObsoleteLogs, logs' = Without(logs, {n}), UNCHANGED <<manifests, tables>>
      PROVE  CrashInv'
  <2>1. /\ DOMAIN logs' = DOMAIN logs \ {n} /\ \A k \in DOMAIN logs \ {n} : logs'[k] = logs[k]
    BY <1>7, Zenon DEF Without
  <2>2. FilesOK(logs', manifests', tables')
    BY <1>5, <1>7, LogDeleted, Zenon
  <2>3. \A k \in DOMAIN logs : k >= m.log_number => k # n
    BY <1>2, <1>5 DEF ObsoleteLogs
  <2> QED BY <1>4, <1>5, <1>6, <1>7, <2>1, <2>2, <2>3, Zenon
<1>8. ASSUME NEW n \in ObsoleteManifests, manifests' = Without(manifests, {n}),
             UNCHANGED <<logs, tables>>
      PROVE  CrashInv'
  <2>1. n # current
    BY <1>2 DEF ObsoleteManifests
  <2>2. current \in DOMAIN manifests' /\ manifests'[current] = manifests[current]
    BY <1>5, <1>8, <2>1, Zenon DEF Without
  <2>3. FilesOK(logs', manifests', tables')
    BY <1>5, <1>8, ManifestDeleted, Zenon
  <2> QED BY <1>4, <1>6, <1>8, <2>2, <2>3, Zenon
<1>9. ASSUME NEW n \in ObsoleteTables, tables' = Without(tables, {n}),
             UNCHANGED <<logs, manifests>>
      PROVE  CrashInv'
  <2>1. /\ DOMAIN tables' = DOMAIN tables \ {n}
        /\ \A k \in DOMAIN tables \ {n} : tables'[k] = tables[k]
    BY <1>9, Zenon DEF Without
  <2>2. FilesOK(logs', manifests', tables')
    BY <1>5, <1>9, TableDeleted, Zenon
  <2>3. \A k \in m.version : k \in DOMAIN tables' /\ tables'[k] = tables[k]
    BY <1>4, <2>1, Zenon DEF ObsoleteTables
  <2> QED BY <1>5, <1>6, <1>9, <2>2, <2>3, Zenon
<1> QED BY <1>7, <1>8, <1>9, Zenon DEF DeleteObsoleteFile

(* What is left of a file after a crash of the machine.                     *)
LEMMA LeftOfFile ==
  ASSUME NEW S, NEW f \in [contents : Seq(S), synced : Nat], f.synced <= Len(f.contents),
         NEW k \in f.synced .. Len(f.contents)
  PROVE  LET left == Synced(File(SubSeq(f.contents, 1, k)))
         IN /\ left \in [contents : Seq(S), synced : Nat]
            /\ left.contents = SubSeq(f.contents, 1, k) /\ left.synced = Len(left.contents)
            /\ Kept(left) = left.contents /\ left.synced <= Len(left.contents)
            /\ Range(Kept(f)) \subseteq Range(left.contents)
            /\ k = f.synced => left.contents = Kept(f)
            /\ OneUnsynced(f) => left.contents \in {f.contents, Kept(f)}
<1> DEFINE s == SubSeq(f.contents, 1, k)
           left == Synced(File(s))
<1>1. f.contents \in Seq(S) /\ f.synced \in Nat /\ Len(f.contents) \in Nat /\ k \in Nat
  OBVIOUS
<1>2. s \in Seq(S) /\ Len(s) = k /\ DOMAIN s = 1 .. k /\ \A i \in 1 .. k : s[i] = f.contents[i]
  BY <1>1
<1>3. /\ k = f.synced => s = Kept(f)
      /\ k = Len(f.contents) => s = f.contents
  <2>1. SubSeq(f.contents, 1, Len(f.contents)) = f.contents
    BY <1>1
  <2> QED BY <2>1, Zenon DEF Kept
<1>4. OneUnsynced(f) => s \in {f.contents, Kept(f)}
  <2>1. OneUnsynced(f) => k = f.synced \/ k = Len(f.contents)
    BY <1>1, SMTT(30) DEF OneUnsynced
  <2> QED BY <1>3, <2>1, Zenon
<1>5. Range(Kept(f)) \subseteq Range(s)
  <2>1. /\ Len(Kept(f)) = f.synced /\ \A i \in 1 .. f.synced : Kept(f)[i] = f.contents[i]
        /\ Kept(f) \in Seq(S)
    BY KeptFile, Zenon
  <2>2. DOMAIN Kept(f) = 1 .. f.synced
    BY <2>1
  <2> HIDE DEF s
  <2>3. \A i \in 1 .. f.synced : i \in 1 .. k /\ Kept(f)[i] = s[i]
    BY <1>1, <1>2, <2>1, SMTT(30)
  <2> QED BY <1>2, <2>2, <2>3, Zenon DEF Range
<1> HIDE DEF s
<1>6. File(s) \in [contents : Seq(S), synced : Nat] /\ File(s).contents = s
  BY <1>2, NewFile, Zenon
<1>7. /\ left \in [contents : Seq(S), synced : Nat] /\ left.contents = s
      /\ left.synced = Len(s) /\ Kept(left) = s
  BY <1>6, SyncedFile, Zenon
<1> HIDE DEF left
<1>8. left.synced = Len(left.contents) /\ left.synced <= Len(left.contents)
  BY <1>1, <1>2, <1>7, SMTT(30)
<1> QED BY <1>3, <1>4, <1>5, <1>7, <1>8, Zenon DEF left, s

(* The same for a directory of files.                                       *)
LEMMA SurvivingFiles ==
  ASSUME NEW S, NEW old, old \in [DOMAIN old -> [contents : Seq(S), synced : Nat]],
         \A n \in DOMAIN old : old[n].synced <= Len(old[n].contents),
         NEW left \in Survivors(old)
  PROVE  /\ left \in [DOMAIN old -> [contents : Seq(S), synced : Nat]] /\ DOMAIN left = DOMAIN old
         /\ \A n \in DOMAIN old :
              /\ Kept(left[n]) = left[n].contents /\ left[n].synced <= Len(left[n].contents)
              /\ left[n].synced = Len(left[n].contents)
              /\ Range(Kept(old[n])) \subseteq Range(left[n].contents)
              /\ OneUnsynced(old[n]) => left[n].contents \in {old[n].contents, Kept(old[n])}
<1> DEFINE F == [contents : Seq(S), synced : Nat]
           U == UNION {LeftOf(old[n]) : n \in DOMAIN old}
<1>1. left \in [DOMAIN old -> U] /\ \A n \in DOMAIN old : left[n] \in LeftOf(old[n])
  BY Zenon DEF Survivors
<1>2. DOMAIN left = DOMAIN old /\ left = [n \in DOMAIN old |-> left[n]]
  BY <1>1, Zenon
<1>3. ASSUME NEW n \in DOMAIN old
      PROVE  /\ left[n] \in F
             /\ Kept(left[n]) = left[n].contents /\ left[n].synced <= Len(left[n].contents)
             /\ left[n].synced = Len(left[n].contents)
             /\ Range(Kept(old[n])) \subseteq Range(left[n].contents)
             /\ OneUnsynced(old[n]) => left[n].contents \in {old[n].contents, Kept(old[n])}
  <2>1. old[n] \in F /\ old[n].synced <= Len(old[n].contents)
    BY Zenon
  <2>2. PICK k \in old[n].synced .. Len(old[n].contents) :
          left[n] = Synced(File(SubSeq(old[n].contents, 1, k)))
    BY <1>1, Zenon DEF LeftOf
  <2> QED BY <2>1, <2>2, LeftOfFile
<1> HIDE DEF F
<1>4. left \in [DOMAIN old -> F]
  BY <1>2, <1>3, Zenon
<1> QED BY <1>2, <1>3, <1>4, Zenon DEF F


(* What is left of the logs ...                                             *)
LEMMA SurvivingLogs ==
  ASSUME NEW ls, NEW ms, NEW ts, FilesOK(ls, ms, ts), NEW left \in Survivors(ls)
  PROVE  /\ left \in [DOMAIN ls -> LogFile] /\ DOMAIN left = DOMAIN ls
         /\ \A n \in DOMAIN ls :
              /\ Kept(left[n]) = left[n].contents /\ left[n].synced <= Len(left[n].contents)
              /\ Range(Kept(ls[n])) \subseteq Range(left[n].contents)
<1> DEFINE S == Nat
<1>1. LogFile = [contents : Seq(S), synced : Nat]
  BY Zenon DEF LogFile
<1> HIDE DEF S
<1>2. /\ ls \in [DOMAIN ls -> [contents : Seq(S), synced : Nat]]
      /\ \A n \in DOMAIN ls : ls[n].synced <= Len(ls[n].contents)
  BY <1>1, Zenon DEF FilesOK
<1> QED BY <1>1, <1>2, SurvivingFiles, SMTT(30)

(* ... and of the MANIFESTs: all, or all but the last record.               *)
LEMMA SurvivingManifests ==
  ASSUME NEW ls, NEW ms, NEW ts, FilesOK(ls, ms, ts), NEW left \in Survivors(ms)
  PROVE  /\ left \in [DOMAIN ms -> ManifestFile] /\ DOMAIN left = DOMAIN ms
         /\ \A n \in DOMAIN ms :
              /\ Kept(left[n]) = left[n].contents /\ left[n].synced <= Len(left[n].contents)
              /\ OneUnsynced(left[n])
              /\ OneUnsynced(ms[n]) => left[n].contents \in {ms[n].contents, Kept(ms[n])}
<1> DEFINE S == Edits
<1>1. ManifestFile = [contents : Seq(S), synced : Nat]
  BY Zenon DEF ManifestFile
<1> HIDE DEF S
<1>2. /\ ms \in [DOMAIN ms -> [contents : Seq(S), synced : Nat]]
      /\ \A n \in DOMAIN ms : ms[n].synced <= Len(ms[n].contents)
  BY <1>1, Zenon DEF FilesOK
<1>3. /\ left \in [DOMAIN ms -> ManifestFile] /\ DOMAIN left = DOMAIN ms
      /\ \A n \in DOMAIN ms :
           /\ Kept(left[n]) = left[n].contents /\ left[n].synced <= Len(left[n].contents)
           /\ left[n].synced = Len(left[n].contents)
           /\ OneUnsynced(ms[n]) => left[n].contents \in {ms[n].contents, Kept(ms[n])}
  BY <1>1, <1>2, SurvivingFiles, SMTT(30)
<1>4. ASSUME NEW n \in DOMAIN ms PROVE OneUnsynced(left[n])
  <2>1. left[n].synced \in Nat /\ left[n].synced = Len(left[n].contents)
    BY <1>3, Zenon DEF ManifestFile
  <2> QED BY <2>1, SMTT(30) DEF OneUnsynced
<1> QED BY <1>3, <1>4, Zenon

(* The least that can be left.                                              *)
LEMMA OnlySyncedFiles ==
  ASSUME NEW old
  PROVE  /\ DOMAIN OnlySynced(old) = DOMAIN old
         /\ \A n \in DOMAIN old : OnlySynced(old)[n].contents = Kept(old[n])
BY Zenon DEF OnlySynced, Synced, File, Kept

(* Either state of the MANIFEST may be left, and covers what was synced.    *)
LEMMA MachineCrashSafe == CrashInv /\ MachineCrash => CrashInv'
<1> SUFFICES ASSUME CrashInv, MachineCrash PROVE CrashInv'
  BY Zenon
<1>1. /\ m' = Down /\ job' = NoJob /\ acked' = safe
      /\ UNCHANGED <<tables, current, safe>>
  BY Zenon DEF MachineCrash
<1>2. logs' \in Survivors(logs) /\ manifests' \in Survivors(manifests)
  BY Zenon DEF MachineCrash
<1>3. FilesOK(logs, manifests, tables)
  BY Zenon DEF CrashInv, DiskInv
<1>4. /\ logs' \in [DOMAIN logs -> LogFile] /\ DOMAIN logs' = DOMAIN logs
      /\ \A n \in DOMAIN logs :
           /\ Kept(logs'[n]) = logs'[n].contents /\ logs'[n].synced <= Len(logs'[n].contents)
           /\ Range(Kept(logs[n])) \subseteq Range(logs'[n].contents)
  BY <1>2, <1>3, SurvivingLogs, Zenon
<1>5. /\ manifests' \in [DOMAIN manifests -> ManifestFile] /\ DOMAIN manifests' = DOMAIN manifests
      /\ \A n \in DOMAIN manifests :
           /\ Kept(manifests'[n]) = manifests'[n].contents
           /\ manifests'[n].synced <= Len(manifests'[n].contents) /\ OneUnsynced(manifests'[n])
           /\ OneUnsynced(manifests[n]) =>
                manifests'[n].contents \in {manifests[n].contents, Kept(manifests[n])}
  BY <1>2, <1>3, SurvivingManifests, Zenon
<1>6. FilesOK(logs', manifests', tables')
  BY <1>1, <1>3, <1>4, <1>5, Zenon DEF FilesOK
<1>7. CASE current = 0
  <2>1. DiskInv'
    BY <1>1, <1>5, <1>6, <1>7, Zenon DEF CrashInv, DiskInv
  <2> QED BY <1>1, <2>1, ProcessLost, Zenon
<1>8. CASE current # 0
  <2> DEFINE c == manifests'[current].contents
  <2>1. /\ c \in {All, Few} /\ Kept(manifests'[current]) = c /\ current \in DOMAIN manifests
        /\ OneUnsynced(manifests'[current])
    BY <1>5, <1>8, OnDisk, Zenon DEF All, Few
  <2>2. \A n \in DOMAIN logs : /\ Range(Kept(logs[n])) \subseteq Range(logs'[n].contents)
                               /\ Range(Kept(logs'[n])) = Range(logs'[n].contents)
    BY <1>4, Zenon
  <2> HIDE DEF c
  <2>3. Sane(c, tables, current) /\ Covered(c, safe, KeptIds(logs), tables)
    BY <1>8, <2>1, OnDisk, Zenon
  <2>4. \A n \in DOMAIN KeptIds(logs) :
          /\ n \in DOMAIN KeptIds(logs') /\ KeptIds(logs)[n] \subseteq KeptIds(logs')[n]
          /\ n \in DOMAIN AllIds(logs') /\ KeptIds(logs)[n] \subseteq AllIds(logs')[n]
    <3> SUFFICES ASSUME NEW n \in DOMAIN logs
                 PROVE  /\ n \in DOMAIN KeptIds(logs') /\ KeptIds(logs)[n] \subseteq KeptIds(logs')[n]
                        /\ n \in DOMAIN AllIds(logs') /\ KeptIds(logs)[n] \subseteq AllIds(logs')[n]
      BY LogIds, Zenon
    <3> QED BY <1>4, <2>2, LogIds, SMTT(30)
  <2>5. Covered(c, safe, KeptIds(logs'), tables)
    BY <2>3, <2>4, CoveredMore, Zenon
  <2>6. Covered(c, safe, AllIds(logs'), tables)
    BY <2>3, <2>4, CoveredMore, Zenon
  <2>7. HasNumbers(c) => Numbers(c).next <= Numbers(c).next
    BY <2>3, SMTT(30) DEF Sane
  <2>8. PromisesKept(logs', manifests', tables, current, safe, safe)
    BY <2>1, <2>3, <2>5, <2>6, <2>7, Zenon DEF PromisesKept, c
  <2>9. DiskInv'
    BY <1>1, <1>5, <1>6, <1>8, <2>1, <2>8, Zenon DEF CrashInv, DiskInv
  <2> QED BY <1>1, <2>9, ProcessLost, Zenon
<1> QED BY <1>7, <1>8, Zenon
-----------------------------------------------------------------------------
(* An empty directory satisfies the invariant ...                           *)
LEMMA CrashInit == Init => CrashInv
<1> SUFFICES ASSUME Init PROVE CrashInv
  BY Zenon
<1>1. /\ logs = <<>> /\ manifests = <<>> /\ tables = <<>> /\ current = 0 /\ m = Down /\ job = NoJob
      /\ acked = {} /\ safe = {}
  BY Zenon DEF Init
<1>2. FilesOK(logs, manifests, tables)
  BY <1>1 DEF FilesOK
<1>3. DiskInv
  BY <1>1, <1>2, Zenon DEF DiskInv
<1>4. m.pc = "down" /\ m.mem = <<>> /\ m.imm = <<>> /\ ~m.has_imm /\ m.add = {} /\ m \in Memory
  BY <1>1, SMTT(30) DEF Down, Memory
<1> QED BY <1>1, <1>3, <1>4, Zenon DEF CrashInv, Starting, Recovering, Switching, Running, Working

(* ... and every step of Recovery keeps it, as long as no write fails.      *)
LEMMA CrashStep ==
  ASSUME Faults = {}
  PROVE  CrashInv /\ [Next]_vars => CrashInv'
<1> SUFFICES ASSUME CrashInv, [Next]_vars PROVE CrashInv'
  BY Zenon
<1>1. CASE UNCHANGED vars
  BY <1>1, ZenonT(30) DEF vars, CrashInv, DiskInv, Starting, Recovering, Switching, Running, Working, All, Few
<1>2. CASE OpenStart \/ NewDBCurrent \/ RecoverManifest \/ OpenFails \/ OpenNewLog
  BY <1>2, OpenStartSafe, NewDBCurrentSafe, RecoverManifestSafe, OpenFailsSafe, OpenNewLogSafe, Zenon
<1>3. CASE OpenNewManifest \/ OpenCurrent \/ SwitchLog \/ BuildTable \/ LogEdit \/ ApplyEdit
  BY <1>3, OpenNewManifestSafe, OpenCurrentSafe, SwitchLogSafe, BuildTableSafe, LogEditSafe,
     ApplyEditSafe, Zenon
<1>4. CASE ApplyFails
  BY <1>4, Zenon DEF ApplyFails
<1>5. CASE DeleteObsoleteFile \/ CleanupEnds \/ ProcessCrash \/ MachineCrash
  BY <1>5, DeleteObsoleteFileSafe, CleanupEndsSafe, ProcessCrashSafe, MachineCrashSafe, Zenon
<1>6. ASSUME NEW fails \in BOOLEAN, RecoverLogFile(fails) PROVE CrashInv'
  BY <1>6, RecoverLogFileSafe, Zenon
<1>7. ASSUME NEW sync \in BOOLEAN, Write(sync) PROVE CrashInv'
  BY <1>7, WriteSafe, Zenon
<1>8. ASSUME NEW inputs \in SUBSET m.version, Compact(inputs) PROVE CrashInv'
  BY <1>8, CompactSafe, Zenon
<1> QED BY <1>1, <1>2, <1>3, <1>4, <1>5, <1>6, <1>7, <1>8, Zenon DEF Next

(* What a version and the two memtables show.                               *)
LEMMA InUnion ==
  ASSUME NEW f, NEW D, NEW A, NEW B
  PROVE  \A x : x \in (UNION {f[n] : n \in D}) \cup A \cup B <=>
                 (\E n \in D : x \in f[n]) \/ x \in A \/ x \in B
<1> DEFINE U == UNION {f[n] : n \in D}
<1>1. \A x : x \in U <=> \E n \in D : x \in f[n]
  BY Zenon
<1> HIDE DEF U
<1>2. \A x : x \in U \cup A \cup B <=> (\E n \in D : x \in f[n]) \/ x \in A \/ x \in B
  BY <1>1, Zenon
<1> QED BY <1>2, Zenon DEF U

(* An update in a table of the version, or in a log from its number on.     *)
LEMMA FoundIn ==
  ASSUME NEW ls, NEW ms, Readable(ms),
         NEW x, LET E == ms[current].contents
                IN \/ \E n \in Replayed(E) \cap DOMAIN tables : x \in tables[n]
                   \/ \E n \in DOMAIN ls : n >= Numbers(E).log /\ x \in Range(ls[n].contents)
  PROVE  x \in Recoverable(ls, ms)
<1> DEFINE E == ms[current].contents
           D == Replayed(E) \cap DOMAIN tables
           L == {k \in DOMAIN ls : k >= Numbers(E).log}
<1>1. Recoverable(ls, ms) =
        (UNION {tables[n] : n \in D}) \cup (UNION {Range(ls[n].contents) : n \in L})
  BY Zenon DEF Recoverable
<1>2. (\E n \in D : x \in tables[n]) \/ \E n \in L : x \in Range(ls[n].contents)
  BY Zenon
<1> HIDE DEF D, L
<1>3. CASE \E n \in D : x \in tables[n]
  <2>1. x \in UNION {tables[n] : n \in D}
    BY <1>3, Zenon
  <2> QED BY <1>1, <2>1, Zenon
<1>4. CASE \E n \in L : x \in Range(ls[n].contents)
  <2>1. x \in UNION {Range(ls[n].contents) : n \in L}
    BY <1>4, Zenon
  <2> QED BY <1>1, <2>1, Zenon
<1> QED BY <1>2, <1>3, <1>4, Zenon

(* A covered update is in a table of the version or in a log it needs.      *)
LEMMA FoundInLogs ==
  ASSUME NEW edits, NEW S, NEW ls, NEW ts, HasNumbers(edits),
         Covered(edits, S, AllIds(ls), ts), NEW x \in S
  PROVE  \/ \E n \in Replayed(edits) : x \in ts[n]
         \/ \E n \in DOMAIN ls : n >= Numbers(edits).log /\ x \in Range(ls[n].contents)
BY LogIds, SMTT(30) DEF Covered

LEMMA FoundInKept ==
  ASSUME NEW edits, NEW S, NEW ls, NEW ts, HasNumbers(edits),
         Covered(edits, S, KeptIds(ls), ts), NEW x \in S
  PROVE  \/ \E n \in Replayed(edits) : x \in ts[n]
         \/ \E n \in DOMAIN ls : n >= Numbers(edits).log /\ x \in Range(Kept(ls[n]))
BY LogIds, SMTT(30) DEF Covered

(* The invariant implies what is promised.                                  *)
LEMMA CrashInvSafe == CrashInv => CrashSafe
<1> SUFFICES ASSUME CrashInv PROVE CrashSafe
  BY Zenon
<1>1. ProcessCrashLosesNothing
  <2>1. CASE current = 0
    BY <2>1, Zenon DEF CrashInv, DiskInv, ProcessCrashLosesNothing
  <2>2. CASE current # 0 /\ ~HasNumbers(All)
    BY <2>2, OnDisk, Zenon DEF Covered, ProcessCrashLosesNothing
  <2>3. CASE current # 0 /\ HasNumbers(All)
    <3>1. Readable(manifests)
      BY <2>3, OnDisk, Zenon DEF Readable, All
    <3> SUFFICES ASSUME NEW x \in acked PROVE x \in Recoverable(logs, manifests)
      BY Zenon DEF ProcessCrashLosesNothing
    <3>2. \/ \E n \in Replayed(All) : x \in tables[n]
          \/ \E n \in DOMAIN logs : n >= Numbers(All).log /\ x \in Range(logs[n].contents)
      <4>1. Covered(All, acked, AllIds(logs), tables)
        BY <2>3, OnDisk, Zenon
      <4> QED BY <2>3, <4>1, FoundInLogs, Zenon
    <3>3. \A n \in Replayed(All) : n \in DOMAIN tables
      BY <2>3, OnDisk, Zenon DEF Sane
    <3> QED BY <3>1, <3>2, <3>3, FoundIn, Zenon DEF All
  <2> QED BY <2>1, <2>2, <2>3, Zenon
<1>2. MachineCrashKeepsSynced
  <2> DEFINE ls == OnlySynced(logs)
             ms == OnlySynced(manifests)
  <2>1. CASE current = 0
    BY <2>1, Zenon DEF CrashInv, DiskInv, MachineCrashKeepsSynced
  <2>2. CASE current # 0 /\ ~HasNumbers(Few)
    BY <2>2, OnDisk, Zenon DEF Covered, MachineCrashKeepsSynced
  <2>3. CASE current # 0 /\ HasNumbers(Few)
    <3>1. FilesOK(logs, manifests, tables) /\ current \in DOMAIN manifests
      BY <2>3, OnDisk, Zenon
    <3>2. DOMAIN ls = DOMAIN logs /\ \A n \in DOMAIN logs : ls[n].contents = Kept(logs[n])
      BY OnlySyncedFiles, Zenon
    <3>3. current \in DOMAIN ms /\ ms[current].contents = Few
      BY <3>1, OnlySyncedFiles, Zenon DEF Few
    <3> HIDE DEF ls, ms
    <3>4. Readable(ms)
      BY <2>3, <3>3, Zenon DEF Readable
    <3> SUFFICES ASSUME NEW x \in safe PROVE x \in Recoverable(ls, ms)
      BY Zenon DEF MachineCrashKeepsSynced, ls, ms
    <3>5. \/ \E n \in Replayed(Few) : x \in tables[n]
          \/ \E n \in DOMAIN logs : n >= Numbers(Few).log /\ x \in Range(Kept(logs[n]))
      <4>1. Covered(Few, safe, KeptIds(logs), tables)
        BY <2>3, OnDisk, Zenon
      <4> QED BY <2>3, <4>1, FoundInKept, Zenon
    <3>6. \A n \in Replayed(Few) : n \in DOMAIN tables
      BY <2>3, OnDisk, Zenon DEF Sane
    <3> QED BY <3>2, <3>3, <3>4, <3>5, <3>6, FoundIn, Zenon
  <2> QED BY <2>1, <2>2, <2>3, Zenon
<1>3. OpenShowsAcked
  <2> SUFFICES ASSUME m.pc = "open"
               PROVE  LET shown == (UNION {tables[n] : n \in m.version}) \cup Range(m.imm) \cup Range(m.mem)
                      IN acked \subseteq shown /\ \A id \in shown : id <= m.last_sequence
    BY Zenon DEF OpenShowsAcked
  <2> DEFINE shown == (UNION {tables[n] : n \in m.version}) \cup Range(m.imm) \cup Range(m.mem)
  <2>1. \A x : x \in shown <=>
          (\E n \in m.version : x \in tables[n]) \/ x \in Range(m.imm) \/ x \in Range(m.mem)
    BY InUnion, Zenon
  <2> HIDE DEF shown
  <2>2. /\ \A n \in m.version : \A x \in tables[n] : x <= m.last_sequence
        /\ current # 0 /\ HasNumbers(All) /\ m.version = Replayed(Few)
        /\ Numbers(All).log \in Nat /\ Numbers(All).log >= m.log_number /\ m.log_number \in Nat
    BY WhileOpen, Zenon
  <2>3. /\ \A x \in Range(m.imm) \cup Range(m.mem) : x <= m.last_sequence
        /\ logs[m.logfile].contents = m.mem
        /\ m.has_imm => logs[m.log_number].contents = m.imm
        /\ ~m.has_imm => m.log_number = m.logfile
        /\ \A n \in DOMAIN logs : n >= m.log_number => n \in {m.log_number, m.logfile}
        /\ m.has_imm \in BOOLEAN
    BY Zenon DEF CrashInv, Running, Memory
  <2>4. \A x \in shown : x <= m.last_sequence
    BY <2>1, <2>2, <2>3, Zenon
  <2>5. ASSUME NEW x \in acked PROVE x \in shown
    <3>1. \/ \E n \in Replayed(All) : x \in tables[n]
          \/ \E n \in DOMAIN logs : n >= Numbers(All).log /\ x \in Range(logs[n].contents)
      <4>1. Covered(All, acked, AllIds(logs), tables)
        BY <2>2, OnDisk, Zenon
      <4> QED BY <2>2, <4>1, FoundInLogs, Zenon
    <3>2. ASSUME NEW n \in DOMAIN logs, n >= Numbers(All).log, x \in Range(logs[n].contents)
          PROVE  x \in shown
      <4>1. n \in Nat
        BY <2>2, OnDisk, Zenon
      <4>2. n >= m.log_number
        <5> DEFINE lo == Numbers(All).log
        <5>1. lo \in Nat /\ lo >= m.log_number /\ m.log_number \in Nat /\ n >= lo
          BY <2>2, <3>2, Zenon
        <5> HIDE DEF lo
        <5> QED BY <4>1, <5>1, SMTT(30)
      <4>3. n \in {m.log_number, m.logfile}
        BY <2>3, <4>2, Zenon
      <4> QED BY <2>1, <2>3, <3>2, <4>3, Zenon
    <3>3. ASSUME NEW n \in Replayed(All), x \in tables[n]
          PROVE  x \in shown
      <4>1. CASE n \in m.version
        BY <2>1, <3>3, <4>1, Zenon
      <4>2. CASE n \notin m.version
        <5>1. All # Few
          BY <2>2, <4>2, Zenon
        <5>2. job # NoJob /\ job.stage # "built"
          BY <5>1, Zenon DEF CrashInv, Running
        <5>3. job.stage = "logged" /\ job.flush \in BOOLEAN
          BY <5>2, Zenon DEF CrashInv, Working, Jobs
        <5>4. /\ Replayed(All) = (m.version \ job.del) \cup job.add
              /\ job.flush => \A k \in job.add : tables[k] \subseteq Range(m.imm)
              /\ ~job.flush => /\ job.del \subseteq m.version
                               /\ \A k \in job.add : \A y \in tables[k] :
                                    \E j \in job.del : y \in tables[j]
          BY <5>2, <5>3, Zenon DEF CrashInv, Working
        <5>5. n \in job.add
          BY <4>2, <5>4, Zenon
        <5>6. CASE job.flush
          BY <2>1, <3>3, <5>4, <5>5, <5>6, Zenon
        <5>7. CASE ~job.flush
          BY <2>1, <3>3, <5>4, <5>5, <5>7, Zenon
        <5> QED BY <5>6, <5>7, Zenon
      <4> QED BY <4>1, <4>2, Zenon
    <3> QED BY <3>1, <3>2, <3>3, Zenon
  <2> QED BY <2>4, <2>5, Zenon DEF shown
<1>4. NumbersFresh
  <2> SUFFICES ASSUME m.pc = "open"
               PROVE  /\ \A n \in DOMAIN logs \cup m.version : n < m.next_file
                      /\ job = NoJob \/ m.version \cap job.add = {}
    BY Zenon DEF NumbersFresh
  <2>1. \A n \in m.version : n < m.next_file
    BY WhileOpen, Zenon
  <2>2. \A n \in DOMAIN logs : n < m.next_file
    BY Zenon DEF CrashInv, Running
  <2>3. job # NoJob => \A n \in job.add : n \notin m.version
    BY Zenon DEF CrashInv, Working
  <2> QED BY <2>1, <2>2, <2>3, Zenon
<1> QED BY <1>1, <1>2, <1>3, <1>4, Zenon DEF CrashSafe

(* No crash loses what was promised.  In every execution in which no write  *)
(* of a table or of the MANIFEST fails, with any number of updates, files   *)
(* and crashes, DBImpl::Recover and DB::Open find every acknowledged update *)
(* after a crash of the process, every synced one after a crash of the      *)
(* machine, and the database that opens shows them and hands out fresh      *)
(* numbers: CrashSafe is an invariant.                                      *)
THEOREM CrashSafety ==
  ASSUME Faults = {}
  PROVE  Spec => []CrashSafe
<1>1. Init => CrashInv
  BY CrashInit, Zenon
<1>2. CrashInv /\ [Next]_vars => CrashInv'
  BY CrashStep, Zenon
<1>3. CrashInv => CrashSafe
  BY CrashInvSafe, Zenon
<1> QED BY <1>1, <1>2, <1>3, PTL DEF Spec
-----------------------------------------------------------------------------
Uses == [st : {"closed", "opened", "locked", "deleting"}, file : Nat, destroy : BOOLEAN]

FileLockType ==
  /\ path \in Nat /\ files \in Nat
  /\ path \in {0, files} /\ files <= MaxFiles
  /\ owner \in [1 .. MaxFiles -> Procs \cup {NoProc}]
  /\ open \in [Procs -> [Slots -> Uses]]

(* Every file in use is the one LOCK leads to; what is locked is owned.     *)
InUse ==
  \A p \in Procs, s \in Slots :
    /\ open[p][s].st \in {"closed", "opened", "locked"}
    /\ open[p][s].st # "closed" => open[p][s].file = path /\ path \in 1 .. MaxFiles
    /\ open[p][s].st = "closed" => open[p][s] = Closed
    /\ ~open[p][s].destroy
    /\ open[p][s].st = "locked" => owner[open[p][s].file] = p

FileLockInv == FileLockType /\ InUse /\ NoStaleLock

(* The invariant of LockFile and UnlockFile is inductive when a process has *)
(* one open at a time.                                                      *)
LEMMA FileLockInductive ==
  ASSUME \A s, t \in Slots : s = t, FileLockInv, [LockNext]_lockVars
  PROVE  FileLockInv'
<1> USE FileLockAssumption DEF FileLockInv, FileLockType
<1>1. CASE UNCHANGED lockVars
  BY <1>1 DEF lockVars, InUse, NoStaleLock
<1>2. ASSUME NEW p \in Procs, Exit(p) PROVE FileLockInv'
  <2>1. FileLockType'
    BY <1>2, Zenon DEF Exit, Released, Closed, Uses
  <2>2. InUse'
    BY <1>2, SMTT(30) DEF Exit, Released, Closed, Uses, InUse
  <2>3. NoStaleLock'
    BY <1>2 DEF Exit, Released, Closed, Uses, InUse, NoStaleLock
  <2> QED BY <2>1, <2>2, <2>3, Zenon
<1>3. ASSUME NEW p \in Procs, NEW s \in Slots, OpenFile(p, s, FALSE) PROVE FileLockInv'
  <2>0. /\ path' \in 1 .. MaxFiles /\ files' \in Nat /\ path' = files' /\ files' <= MaxFiles
        /\ \A q \in Procs, t \in Slots : open[q][t].st # "closed" => path' = path
    BY <1>3, SMTT(30) DEF OpenFile, InUse
  <2>1. FileLockType'
    BY <1>3, <2>0, Zenon DEF OpenFile, Put, Closed, Uses
  <2>2. InUse'
    BY <1>3, <2>0, <2>1, SMTT(30) DEF OpenFile, Put, Closed, Uses, InUse
  <2>3. NoStaleLock'
    BY <1>3 DEF OpenFile, Put, Closed, Uses, NoStaleLock
  <2> QED BY <2>1, <2>2, <2>3, Zenon
<1>4. ASSUME NEW p \in Procs, NEW s \in Slots, LockOrUnlock(p, s) PROVE FileLockInv'
  <2> DEFINE f == open[p][s].file
  <2>0. f \in 1 .. MaxFiles /\ path' = path /\ files' = files /\ open[p][s] \in Uses
    BY <1>4, SMTT(30) DEF LockOrUnlock, InUse
  <2>1. CASE Grants(p, f)
    <3> DEFINE u == [open[p][s] EXCEPT !.st = "locked"]
    <3>1. owner' = [owner EXCEPT ![f] = p] /\ open' = [open EXCEPT ![p][s] = u]
      BY <1>4, <2>1, Zenon DEF LockOrUnlock, Put
    <3>2. u \in Uses /\ u.st = "locked" /\ u.file = f /\ u.destroy = open[p][s].destroy
      BY <2>0, Zenon DEF Uses
    <3>3. open[p][s].st = "opened" /\ owner[f] \in {NoProc, p}
      BY <1>4, <2>1, Zenon DEF LockOrUnlock, Grants
    <3> HIDE DEF u, f
    <3>4. FileLockType'
      BY <2>0, <3>1, <3>2, Zenon
    <3>5. InUse'
      BY <2>0, <3>1, <3>2, <3>3, SMTT(30) DEF InUse, f
    <3>6. NoStaleLock'
      BY <2>0, <3>1, <3>2, <3>3, SMTT(30) DEF NoStaleLock
    <3> QED BY <3>4, <3>5, <3>6, Zenon
  <2>2. CASE ~Grants(p, f)
    <3>1. owner' = owner /\ open' = [open EXCEPT ![p][s] = Closed] /\ open[p][s].st = "opened"
      BY <1>4, <2>2, Zenon DEF LockOrUnlock, Put
    <3>2. Closed \in Uses /\ Closed.st = "closed" /\ ~Closed.destroy
      BY Zenon DEF Closed, Uses
    <3>3. FileLockType'
      BY <2>0, <3>1, <3>2, Zenon
    <3>4. InUse'
      BY <2>0, <3>1, <3>2, SMTT(30) DEF InUse
    <3>5. NoStaleLock'
      BY <2>0, <3>1, <3>2, SMTT(30) DEF NoStaleLock
    <3> QED BY <3>3, <3>4, <3>5, Zenon
  <2> QED BY <2>1, <2>2, Zenon
<1>5. ASSUME NEW p \in Procs, NEW s \in Slots, UnlockFile(p, s) PROVE FileLockInv'
  <2>0. open[p][s].file \in 1 .. MaxFiles /\ ~open[p][s].destroy
    BY <1>5 DEF UnlockFile, InUse
  <2>1. FileLockType'
    BY <1>5, <2>0, Zenon DEF UnlockFile, Put, Closed, Uses
  <2>2. InUse'
    BY <1>5, <2>0, SMTT(30) DEF UnlockFile, Put, Closed, Uses, InUse
  <2>3. NoStaleLock'
    BY <1>5, <2>0 DEF UnlockFile, Put, Closed, Uses, InUse, NoStaleLock
  <2> QED BY <2>1, <2>2, <2>3, Zenon
<1> QED BY <1>1, <1>2, <1>3, <1>4, <1>5, Zenon DEF LockNext

(* A database is open in one process at a time, and a process that is gone  *)
(* locks nobody out, for any number of processes: LockFile, UnlockFile and  *)
(* exits, when no process opens the database twice and none calls DestroyDB.*)
THEOREM FileLockExclusive ==
  ASSUME \A s, t \in Slots : s = t
  PROVE  LockSpec => [](OneProcess /\ NoStaleLock)
<1>1. LockInit => FileLockInv
  BY FileLockAssumption DEF LockInit, FileLockInv, FileLockType, InUse, NoStaleLock, Closed, Uses
<1>2. FileLockInv /\ [LockNext]_lockVars => FileLockInv'
  BY FileLockInductive, Zenon
<1>3. FileLockInv => OneProcess /\ NoStaleLock
  BY DEF FileLockInv, FileLockType, InUse, OneProcess, Users
<1> QED BY <1>1, <1>2, <1>3, PTL DEF LockSpec
=============================================================================
