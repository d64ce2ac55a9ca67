---------------------------- MODULE RecoveryProofs ----------------------------
(***************************************************************************)
(* The invariant behind the promise that no crash loses what LevelDB       *)
(* acknowledged or synced (CrashSafe of Recovery), and the steps of        *)
(* DB::Open, which keep it.                                                *)
(* CrashSafe alone is not inductive: it does not say where an update is    *)
(* found while DB::Open has read some of the logs, nor what the MANIFEST   *)
(* will lead to when its last record is lost.  CrashInv says that what is  *)
(* promised is covered by the MANIFEST as it is and as a crash of the      *)
(* machine may leave it (DiskInv), and, phase by phase of DB::Open and of  *)
(* the background work, how the state of the process relates to the two.   *)
(***************************************************************************)
EXTENDS TLAPS, SequenceTheorems, WellFoundedInduction, Recovery

(* The files of a database.                                                 *)
LogFile == [contents : Seq(Nat), synced : Nat]
Edits == [add : SUBSET Nat, del : SUBSET Nat, numbers : {TRUE}, log : Nat, next : Nat, seq : Nat]
           \cup [add : SUBSET Nat, del : {{}}, numbers : {FALSE}]
ManifestFile == [contents : Seq(Edits), synced : Nat]

(* What a crash of the machine is sure to leave of a file.                  *)
Kept(f) == SubSeq(f.contents, 1, f.synced)

(* The updates in every log, and those sure to stay.                        *)
AllIds(ls) == [n \in DOMAIN ls |-> Range(ls[n].contents)]
KeptIds(ls) == [n \in DOMAIN ls |-> Range(Kept(ls[n]))]

(* Recovery from the edits finds the updates of S, given what logs and      *)
(* tables hold.                                                             *)
Covered(edits, S, ids, ts) ==
  IF HasNumbers(edits)
  THEN \A x \in S : \/ \E n \in Replayed(edits) : x \in ts[n]
                    \/ \E n \in DOMAIN ids : n >= Numbers(edits).log /\ x \in ids[n]
  ELSE S = {}

(* The version of the edits is on disk, and its numbers are behind those    *)
(* that a recovery hands out.                                               *)
Sane(edits, ts, cur) ==
  HasNumbers(edits) =>
    LET e == Numbers(edits)
    IN /\ e \in Edits /\ e.log \in Nat /\ e.next \in Nat /\ e.seq \in Nat
       /\ e.log < e.next /\ cur < e.next
       /\ \A n \in Replayed(edits) :
            n \in DOMAIN ts /\ n < e.next /\ \A x \in ts[n] : x <= e.seq

FilesOK(ls, ms, ts) ==
  /\ ls \in [DOMAIN ls -> LogFile] /\ DOMAIN ls \subseteq Nat
  /\ \A n \in DOMAIN ls : ls[n].synced <= Len(ls[n].contents)
  /\ ms \in [DOMAIN ms -> ManifestFile] /\ DOMAIN ms \subseteq Nat \ {0}
  /\ \A n \in DOMAIN ms : ms[n].synced <= Len(ms[n].contents)
  /\ ts \in [DOMAIN ts -> SUBSET Nat] /\ DOMAIN ts \subseteq Nat

(* At most the last record of a file is not synced.                         *)
OneUnsynced(f) == Len(f.contents) <= f.synced + 1

(* What is promised is covered by the MANIFEST that CURRENT names, as it is *)
(* and as a crash of the machine may leave it.                              *)
PromisesKept(ls, ms, ts, cur, ack, saf) ==
  LET all == ms[cur].contents
      few == Kept(ms[cur])
  IN /\ OneUnsynced(ms[cur])
     /\ Sane(all, ts, cur) /\ Sane(few, ts, cur)
     /\ HasNumbers(few) => HasNumbers(all) /\ Numbers(few).next <= Numbers(all).next
     /\ Covered(all, ack, AllIds(ls), ts)
     /\ Covered(all, saf, KeptIds(ls), ts)
     /\ Covered(few, saf, KeptIds(ls), ts)

DiskInv ==
  /\ FilesOK(logs, manifests, tables)
  /\ current \in {0} \cup DOMAIN manifests
  /\ acked \subseteq Nat /\ safe \subseteq Nat
  /\ IF current = 0 THEN acked = {} /\ safe = {}
     ELSE PromisesKept(logs, manifests, tables, current, acked, safe)

Memory ==
  [pc : {"down", "newdb", "recover", "logs", "manifest", "current", "cleanup", "open"},
   version : SUBSET Nat, log_number : Nat, manifest : Nat, next_file : Nat, last_sequence : Nat,
   logfile : Nat, mem : Seq(Nat), imm : Seq(Nat), has_imm : BOOLEAN, add : SUBSET Nat,
   todo : SUBSET Nat, ok : BOOLEAN]

All == manifests[current].contents
Few == Kept(manifests[current])

(* Before a database is open.                                               *)
Starting ==
  m.pc \notin {"cleanup", "open"} =>
    /\ m.mem = <<>> /\ m.imm = <<>> /\ ~m.has_imm
    /\ m.pc \in {"down", "newdb", "recover"} => m.add = {}
    /\ m.pc = "newdb" => /\ current = 0 /\ 1 \in DOMAIN manifests
                         /\ manifests[1] = File(<<Edit({}, {}, 0, 2, 0)>>)
    /\ m.pc = "recover" => current # 0

(* DBImpl::Recover and the end of DB::Open: the logs that are not read yet  *)
(* are to do, the others are in tables.                                     *)
Recovering ==
  m.pc \in {"logs", "manifest", "current"} =>
    /\ current # 0 /\ HasNumbers(All)
    /\ m.version = Replayed(All) /\ m.log_number = Numbers(All).log
    /\ m.manifest = Numbers(All).next /\ m.manifest < m.next_file
    /\ Numbers(All).seq <= m.last_sequence
    /\ \A n \in m.add : /\ n \in DOMAIN tables /\ m.manifest < n /\ n < m.next_file
                        /\ \A x \in tables[n] : x <= m.last_sequence
    /\ \A n \in m.todo : n \in DOMAIN logs
    /\ \A n \in DOMAIN logs \ m.todo :
         /\ n < m.next_file
         /\ n >= m.log_number => \A x \in Range(logs[n].contents) : \E k \in m.add : x \in tables[k]

Switching ==
  m.pc \in {"manifest", "current"} =>
    /\ m.todo = {} /\ m.logfile \in DOMAIN logs /\ logs[m.logfile].contents = <<>>
    /\ \A n \in DOMAIN logs : n <= m.logfile
    /\ m.manifest < m.logfile /\ m.logfile < m.next_file
    /\ m.pc = "current" =>
         /\ m.manifest \in DOMAIN manifests
         /\ manifests[m.manifest] =
              Synced(File(<<Snapshot(m.version),
                            Edit(m.add, {}, m.logfile, m.next_file, m.last_sequence)>>))

(* An open database: its version is the one that is synced, and the logs    *)
(* hold the memtables.                                                      *)
Running ==
  m.pc \in {"cleanup", "open"} =>
    /\ current # 0 /\ m.manifest = current /\ HasNumbers(Few)
    /\ m.version = Replayed(Few) /\ m.log_number = Numbers(Few).log
    /\ Numbers(Few).next <= m.next_file /\ Numbers(Few).seq <= m.last_sequence
    /\ m.logfile \in DOMAIN logs /\ logs[m.logfile].contents = m.mem
    /\ m.log_number \in DOMAIN logs /\ m.log_number <= m.logfile
    /\ m.has_imm => m.log_number < m.logfile /\ logs[m.log_number].contents = m.imm
    /\ ~m.has_imm => m.log_number = m.logfile /\ m.imm = <<>>
    /\ \A n \in DOMAIN logs :
         n < m.next_file /\ (n >= m.log_number => n \in {m.log_number, m.logfile})
    /\ \A x \in Range(m.mem) \cup Range(m.imm) : x <= m.last_sequence
    /\ (job = NoJob \/ job.stage = "built") => All = Few

Jobs == [stage : {"built", "logged"}, flush : BOOLEAN, add : SUBSET Nat, del : SUBSET Nat]

(* What a flush or a compaction has done so far.                            *)
Working ==
  job # NoJob =>
    /\ m.pc = "open" /\ job \in Jobs
    /\ \A n \in job.add : /\ n \in DOMAIN tables /\ n < m.next_file /\ n \notin m.version
                          /\ \A x \in tables[n] : x <= m.last_sequence
    /\ job.flush => /\ m.has_imm /\ job.del = {}
                    /\ \A x \in Range(m.imm) : \E n \in job.add : x \in tables[n]
                    /\ \A n \in job.add : tables[n] \subseteq Range(m.imm)
    /\ ~job.flush => /\ job.del \subseteq m.version
                     /\ \A n \in job.del : \A x \in tables[n] : \E k \in job.add : x \in tables[k]
                     /\ \A k \in job.add : \A x \in tables[k] : \E n \in job.del : x \in tables[n]
    /\ job.stage = "logged" =>
         /\ HasNumbers(All) /\ Replayed(All) = (m.version \ job.del) \cup job.add
         /\ Numbers(All).log = IF job.flush THEN m.logfile ELSE m.log_number
         /\ Numbers(All).next <= m.next_file /\ Numbers(All).seq <= m.last_sequence

CrashInv ==
  /\ DiskInv /\ m \in Memory
  /\ Starting /\ Recovering /\ Switching /\ Running /\ Working
-----------------------------------------------------------------------------
(* A set of numbers that is not empty has a least element.                  *)
LEMMA Least ==
  ASSUME NEW S \in SUBSET Nat, S # {}
  PROVE  \E n \in S : \A k \in S : n <= k
<1> DEFINE less == OpToRel(<, Nat)
<1>1. IsWellFoundedOn(less, Nat) BY NatLessThanWellFounded, Zenon
<1>2. \A k, n \in Nat : k < n => <<k, n>> \in less BY Zenon DEF OpToRel
<1> HIDE DEF less
<1>3. \E n \in S : \A k \in S : ~(<<k, n>> \in less)
  BY <1>1, WFMin, Zenon
<1>4. PICK n \in S : \A k \in S : ~(<<k, n>> \in less)
  BY <1>3, Zenon
<1>5. ASSUME NEW k \in S PROVE n <= k
  <2>1. k \in Nat /\ n \in Nat
    BY Zenon
  <2>2. ~(k < n)
    BY <1>2, <1>4, <2>1, Zenon
  <2> QED BY <2>1, <2>2
<1> QED BY <1>5, Zenon

(* Min of a set of file numbers, as RecoverLogFile takes the oldest log.    *)
LEMMA MinOf ==
  ASSUME NEW S \in SUBSET Nat, S # {}
  PROVE  Min(S) \in S
BY Least, Zenon DEF Min

(* The numbers in a sequence are bounded.                                   *)
LEMMA Bounded ==
  ASSUME NEW s \in Seq(Nat)
  PROVE  \E b \in Nat : \A x \in Range(s) : x <= b
<1> DEFINE P(n) == \E b \in Nat : \A i \in 1 .. n : s[i] <= b
           bad == {n \in 0 .. Len(s) : ~P(n)}
<1>1. Len(s) \in Nat /\ DOMAIN s = 1 .. Len(s) /\ \A i \in 1 .. Len(s) : s[i] \in Nat
  OBVIOUS
<1>2. ASSUME bad # {} PROVE FALSE
  <2>0. bad \in SUBSET Nat /\ 0 \in Nat /\ \A i \in 1 .. 0 : s[i] <= 0
    BY <1>1
  <2>1. PICK n \in bad : \A k \in bad : n <= k
    <3> HIDE DEF bad
    <3> QED BY <1>2, <2>0, Least, Zenon
  <2>2. P(0)
    BY <2>0, Zenon
  <2>3. n \in 1 .. Len(s) /\ n - 1 \in 0 .. Len(s) /\ n \in Nat
    BY <1>1, <2>1, <2>2
  <2>4. P(n - 1)
    <3>1. n - 1 \notin bad
      <4> HIDE DEF bad
      <4> QED BY <2>1, <2>3
    <3> QED BY <2>3, <3>1, Zenon
  <2>5. PICK b \in Nat : \A i \in 1 .. n - 1 : s[i] <= b
    BY <2>4, Zenon
  <2> DEFINE c == IF s[n] <= b THEN b ELSE s[n]
  <2>6. c \in Nat /\ b <= c /\ s[n] <= c
    <3>1. s[n] \in Nat
      BY <1>1, <2>3, Zenon
    <3> HIDE DEF bad, P
    <3> QED BY <3>1
  <2> HIDE DEF c, bad
  <2>7. P(n)
    <3>1. ASSUME NEW i \in 1 .. n PROVE s[i] <= c
      <4>1. CASE i = n
        BY <2>6, <4>1, Zenon
      <4>2. CASE i \in 1 .. n - 1
        <5>1. s[i] \in Nat /\ s[i] <= b
          BY <1>1, <2>3, <2>5, <4>2
        <5> QED BY <2>6, <5>1
      <4> QED BY <2>3, <4>1, <4>2
    <3> QED BY <2>6, <3>1, Zenon
  <2> USE DEF bad
  <2> QED BY <2>1, <2>7, Zenon
<1>3. Len(s) \in 0 .. Len(s)
  BY <1>1
<1>4. P(Len(s))
  BY <1>2, <1>3, Zenon
<1> QED BY <1>1, <1>4, Zenon DEF Range

(* Max of a last sequence number and the updates of a log.                  *)
LEMMA MaxOf ==
  ASSUME NEW s \in Seq(Nat), NEW n \in Nat
  PROVE  LET S == {n} \cup Range(s)
         IN Max(S) \in Nat /\ n <= Max(S) /\ \A x \in Range(s) : x <= Max(S)
<1> DEFINE S == {n} \cup Range(s)
           above == {b \in Nat : \A x \in S : x <= b}
<1>1. S \subseteq Nat
  BY DEF Range
<1>2. above # {}
  <2>1. PICK b \in Nat : \A x \in Range(s) : x <= b
    BY Bounded, Zenon
  <2>2. (IF n <= b THEN b ELSE n) \in above
    BY <1>1, <2>1
  <2> QED BY <2>2, Zenon
<1>3. PICK b \in above : \A k \in above : b <= k
  BY <1>2, Least, Zenon
<1>4. b \in S
  <2> SUFFICES ASSUME b \notin S PROVE FALSE
    BY Zenon
  <2>1. b # 0 /\ \A x \in S : x <= b - 1
    BY <1>1
  <2>2. b - 1 \in above
    BY <2>1
  <2>3. b <= b - 1 /\ b \in Nat
    BY <1>3, <2>2, Zenon
  <2> QED BY <2>3
<1>5. \E x \in S : \A y \in S : x >= y
  BY <1>1, <1>4, Zenon
<1> HIDE DEF S
<1>6. Max(S) \in S /\ \A y \in S : Max(S) >= y
  BY <1>5, Zenon DEF Max
<1> QED BY <1>1, <1>6, Zenon DEF S

(* One more edit with numbers.                                              *)
LEMMA ReplayAppend ==
  ASSUME NEW edits \in Seq(Edits), NEW e \in Edits, e.numbers
  PROVE  /\ HasNumbers(Append(edits, e)) /\ Numbers(Append(edits, e)) = e
         /\ Replayed(Append(edits, e)) = (Replayed(edits) \ e.del) \cup e.add
<1> DEFINE l == Append(edits, e)
           n == Len(edits)
<1>1. /\ n \in Nat /\ DOMAIN edits = 1 .. n /\ DOMAIN l = 1 .. n + 1
      /\ \A i \in 1 .. n : l[i] = edits[i]
      /\ l[n + 1] = e
  OBVIOUS
<1> HIDE DEF l, n
<1>2. n + 1 \in DOMAIN l /\ \A i \in 1 .. n : i \in DOMAIN l /\ i < n + 1
  BY <1>1
<1>3. HasNumbers(l)
  BY <1>1, <1>2, Zenon DEF HasNumbers
<1>4. Numbers(l) = e
  <2>1. ASSUME NEW i \in DOMAIN l, l[i].numbers, \A j \in DOMAIN l : j > i => ~l[j].numbers
        PROVE  i = n + 1
    BY <1>1, <1>2, <2>1
  <2>2. \A j \in DOMAIN l : ~(j > n + 1)
    BY <1>1
  <2>3. (CHOOSE i \in DOMAIN l : l[i].numbers /\ \A j \in DOMAIN l : j > i => ~l[j].numbers) = n + 1
    BY <1>1, <1>2, <2>1, <2>2, Zenon
  <2> QED BY <1>1, <2>3, Zenon DEF Numbers
<1>5. ASSUME NEW k \in Replayed(l) PROVE k \in (Replayed(edits) \ e.del) \cup e.add
  <2>1. PICK i \in DOMAIN l : k \in l[i].add /\ \A j \in DOMAIN l : j > i => k \notin l[j].del
    BY Zenon DEF Replayed
  <2>2. CASE i = n + 1
    BY <1>1, <2>1, <2>2, Zenon
  <2>3. CASE i \in 1 .. n
    <3>1. k \notin e.del
      BY <1>1, <1>2, <2>1, <2>3, Zenon
    <3>2. k \in edits[i].add /\ \A j \in 1 .. n : j > i => k \notin edits[j].del
      BY <1>1, <1>2, <2>1, <2>3, Zenon
    <3>3. k \in Replayed(edits)
      BY <1>1, <2>3, <3>2, Zenon DEF Replayed
    <3> QED BY <3>1, <3>3, Zenon
  <2> QED BY <1>1, <2>2, <2>3
<1>6. ASSUME NEW k \in e.add PROVE k \in Replayed(l)
  <2>1. \A j \in DOMAIN l : ~(j > n + 1)
    BY <1>1
  <2> QED BY <1>1, <1>2, <2>1, Zenon DEF Replayed
<1>7. ASSUME NEW k \in Replayed(edits), k \notin e.del PROVE k \in Replayed(l)
  <2>1. PICK i \in 1 .. n : k \in edits[i].add /\ \A j \in 1 .. n : j > i => k \notin edits[j].del
    BY <1>1, Zenon DEF Replayed
  <2>2. \A j \in DOMAIN l : j > i => k \notin l[j].del
    <3> TAKE j \in DOMAIN l
    <3>1. CASE j = n + 1
      BY <1>1, <1>7, <3>1, Zenon
    <3>2. CASE j \in 1 .. n
      BY <1>1, <2>1, <3>2, Zenon
    <3> QED BY <1>1, <3>1, <3>2
  <2>3. i \in DOMAIN l /\ k \in l[i].add
    BY <1>1, <1>2, <2>1, Zenon
  <2> QED BY <2>2, <2>3, Zenon DEF Replayed
<1>8. Replayed(l) = (Replayed(edits) \ e.del) \cup e.add
  BY <1>5, <1>6, <1>7, Zenon
<1> QED BY <1>3, <1>4, <1>8, Zenon DEF l

(* The MANIFEST of NewDB, and the one that an Open starts with.             *)
LEMMA EditsTyped ==
  ASSUME NEW add \in SUBSET Nat, NEW del \in SUBSET Nat, NEW log \in Nat, NEW next \in Nat,
         NEW seq \in Nat
  PROVE  /\ Edit(add, del, log, next, seq) \in Edits /\ Snapshot(add) \in Edits
         /\ Edit(add, del, log, next, seq).numbers /\ ~Snapshot(add).numbers
         /\ Edit(add, del, log, next, seq).add = add /\ Snapshot(add).add = add
         /\ Edit(add, del, log, next, seq).del = del /\ Snapshot(add).del = {}
         /\ Edit(add, del, log, next, seq).log = log
         /\ Edit(add, del, log, next, seq).next = next
         /\ Edit(add, del, log, next, seq).seq = seq
BY Zenon DEF Edit, Snapshot, Edits

(* What VersionSet::Recover reads from the MANIFEST of NewDB.               *)
LEMMA ReplayFirst ==
  ASSUME NEW e \in Edits, e.numbers
  PROVE  /\ <<e>> \in Seq(Edits) /\ Len(<<e>>) = 1
         /\ HasNumbers(<<e>>) /\ Numbers(<<e>>) = e /\ Replayed(<<e>>) = e.add
<1>1. <<>> \in Seq(Edits) /\ Append(<<>>, e) = <<e>> /\ <<e>> \in Seq(Edits) /\ Len(<<e>>) = 1
  OBVIOUS
<1> DEFINE none == <<>>
<1>2. Replayed(none) = {}
  BY DEF Replayed
<1>3. none \in Seq(Edits) /\ Append(none, e) = <<e>>
  OBVIOUS
<1> HIDE DEF none
<1>4. /\ HasNumbers(Append(none, e)) /\ Numbers(Append(none, e)) = e
      /\ Replayed(Append(none, e)) = (Replayed(none) \ e.del) \cup e.add
  BY <1>3, ReplayAppend, Zenon
<1> QED BY <1>1, <1>2, <1>3, <1>4, Zenon

(* A sequence of two is a sequence of one with an element appended.         *)
LEMMA AppendSecond ==
  ASSUME NEW S, NEW a \in S, NEW b \in S, NEW s \in Seq(S)
  PROVE  Len(s) = 1 /\ s[1] = a => Append(s, b) = <<a, b>>
<1> DEFINE l == Append(s, b)
           t == <<a, b>>
<1>1. /\ l \in Seq(S) /\ Len(l) = Len(s) + 1 /\ l[Len(s) + 1] = b
      /\ \A i \in 1 .. Len(s) : l[i] = s[i]
  OBVIOUS
<1>2. t \in Seq(S) /\ Len(t) = 2 /\ t[1] = a /\ t[2] = b
  OBVIOUS
<1> HIDE DEF l, t
<1> HAVE Len(s) = 1 /\ s[1] = a
<1>3. Len(l) = 2 /\ l[1] = a /\ l[2] = b
  BY <1>1
<1>4. \A i \in 1 .. Len(l) : l[i] = t[i]
  BY <1>2, <1>3
<1>5. l = t
  BY <1>1, <1>2, <1>3, <1>4, SeqEqual, Zenon
<1> QED BY <1>5, Zenon DEF l, t

(* What it reads from a snapshot followed by the first edit.                *)
LEMMA ReplaySnapshot ==
  ASSUME NEW version \in SUBSET Nat, NEW e \in Edits, e.numbers
  PROVE  LET s == <<Snapshot(version), e>>
         IN /\ s \in Seq(Edits) /\ Len(s) = 2 /\ HasNumbers(s) /\ Numbers(s) = e
            /\ Replayed(s) = (version \ e.del) \cup e.add
<1> DEFINE one == Snapshot(version)
<1>1. one \in Edits /\ one.add = version
  BY Zenon DEF Snapshot, Edits
<1> HIDE DEF one
<1> DEFINE first == <<one>>
           s == <<one, e>>
<1>2. first \in Seq(Edits) /\ Len(first) = 1 /\ first[1] = one
  BY <1>1
<1>3. Replayed(first) = version
  BY <1>1 DEF Replayed
<1>4. s \in Seq(Edits) /\ Len(s) = 2
  BY <1>1
<1> HIDE DEF first
<1>5. Append(first, e) = s
  BY <1>1, <1>2, AppendSecond, Zenon
<1> HIDE DEF s
<1>6. HasNumbers(s) /\ Numbers(s) = e /\ Replayed(s) = (version \ e.del) \cup e.add
  BY <1>2, <1>3, <1>5, ReplayAppend, Zenon
<1> QED BY <1>4, <1>6, Zenon DEF s, one

(* A MANIFEST without records has no numbers.                               *)
LEMMA NothingReplayed == ~HasNumbers(<<>>)
BY DEF HasNumbers

(* What is sure to stay of a file, and what writing and syncing do to that. *)
LEMMA KeptFile ==
  ASSUME NEW S, NEW f \in [contents : Seq(S), synced : Nat], f.synced <= Len(f.contents)
  PROVE  /\ Kept(f) \in Seq(S) /\ Len(Kept(f)) = f.synced
         /\ \A i \in 1 .. f.synced : Kept(f)[i] = f.contents[i]
         /\ Range(Kept(f)) \subseteq Range(f.contents)
         /\ f.synced = Len(f.contents) => Kept(f) = f.contents
<1>1. f.contents \in Seq(S) /\ f.synced \in Nat /\ DOMAIN f.contents = 1 .. Len(f.contents)
      /\ Len(f.contents) \in Nat
  OBVIOUS
<1>2. /\ Kept(f) \in Seq(S) /\ Len(Kept(f)) = f.synced /\ DOMAIN Kept(f) = 1 .. f.synced
      /\ \A i \in 1 .. f.synced : Kept(f)[i] = f.contents[i]
  BY <1>1 DEF Kept
<1>3. Range(Kept(f)) \subseteq Range(f.contents)
  BY <1>1, <1>2 DEF Range
<1>4. f.synced = Len(f.contents) => Kept(f) = f.contents
  BY <1>1, <1>2
<1> QED BY <1>2, <1>3, <1>4, Zenon

(* All of a file is sure to stay once it is synced ...                      *)
LEMMA SyncedFile ==
  ASSUME NEW S, NEW f \in [contents : Seq(S), synced : Nat]
  PROVE  /\ Synced(f) \in [contents : Seq(S), synced : Nat]
         /\ Synced(f).contents = f.contents /\ Synced(f).synced = Len(f.contents)
         /\ Kept(Synced(f)) = f.contents
<1>1. /\ Synced(f) \in [contents : Seq(S), synced : Nat]
      /\ Synced(f).contents = f.contents /\ Synced(f).synced = Len(f.contents)
  BY DEF Synced
<1> HIDE DEF Synced
<1> QED BY <1>1, KeptFile

(* ... and nothing of a new one.                                            *)
LEMMA NewFile ==
  ASSUME NEW S, NEW s \in Seq(S)
  PROVE  /\ File(s) \in [contents : Seq(S), synced : Nat]
         /\ File(s).contents = s /\ File(s).synced = 0 /\ Kept(File(s)) = <<>>
BY DEF File, Kept

(* A record that is added is not synced yet.                                *)
LEMMA LongerFile ==
  ASSUME NEW S, NEW f \in [contents : Seq(S), synced : Nat], f.synced <= Len(f.contents),
         NEW x \in S
  PROVE  /\ With(f, x) \in [contents : Seq(S), synced : Nat]
         /\ With(f, x).contents = Append(f.contents, x) /\ With(f, x).synced = f.synced
         /\ Len(With(f, x).contents) = Len(f.contents) + 1
         /\ Kept(With(f, x)) = Kept(f)
         /\ Range(With(f, x).contents) = Range(f.contents) \cup {x}
<1> DEFINE g == With(f, x)
<1>1. /\ g \in [contents : Seq(S), synced : Nat]
      /\ g.contents = Append(f.contents, x) /\ g.synced = f.synced
      /\ Len(g.contents) = Len(f.contents) + 1
  BY SMTT(30) DEF With
<1>2. f.contents \in Seq(S) /\ f.synced \in Nat /\ Len(f.contents) \in Nat
  OBVIOUS
<1> HIDE DEF g
<1>3. /\ Kept(f) \in Seq(S) /\ Len(Kept(f)) = f.synced
      /\ \A i \in 1 .. f.synced : Kept(f)[i] = f.contents[i]
  BY KeptFile, Zenon
<1>4. /\ Kept(g) \in Seq(S) /\ Len(Kept(g)) = f.synced
      /\ \A i \in 1 .. f.synced : Kept(g)[i] = g.contents[i]
  BY <1>1, <1>2, KeptFile
<1>5. \A i \in 1 .. f.synced : g.contents[i] = f.contents[i]
  BY <1>1, <1>2
<1>6. Kept(g) = Kept(f)
  BY <1>3, <1>4, <1>5
<1>7. Range(g.contents) = Range(f.contents) \cup {x}
  BY <1>1, <1>2, SMTT(30) DEF Range
<1> QED BY <1>1, <1>6, <1>7, Zenon DEF g

-----------------------------------------------------------------------------
(* Files are added, replaced and deleted one at a time.                     *)
LEMMA UpdatedFile ==
  ASSUME NEW fs, NEW n, NEW f
  PROVE  /\ DOMAIN Updated(fs, n, f) = DOMAIN fs \cup {n}
         /\ Updated(fs, n, f)[n] = f
         /\ \A k \in DOMAIN fs : k # n => Updated(fs, n, f)[k] = fs[k]
         /\ \A T : (\A k \in DOMAIN fs : fs[k] \in T) /\ f \in T
                     => Updated(fs, n, f) \in [DOMAIN fs \cup {n} -> T]
BY Zenon DEF Updated

(* A file that is deleted is gone, and the others stay.                     *)
LEMMA WithoutFile ==
  ASSUME NEW fs, NEW n
  PROVE  /\ DOMAIN Without(fs, {n}) = DOMAIN fs \ {n}
         /\ \A k \in DOMAIN fs \ {n} : Without(fs, {n})[k] = fs[k]
         /\ \A T : (\A k \in DOMAIN fs : fs[k] \in T)
                     => Without(fs, {n}) \in [DOMAIN fs \ {n} -> T]
BY Zenon DEF Without

(* Logs stay well formed when one is written ...                            *)
LEMMA LogWritten ==
  ASSUME NEW ls, NEW ms, NEW ts, FilesOK(ls, ms, ts),
         NEW n \in Nat, NEW f \in LogFile, f.synced <= Len(f.contents)
  PROVE  FilesOK(Updated(ls, n, f), ms, ts)
<1> DEFINE us == Updated(ls, n, f)
<1>1. /\ DOMAIN us = DOMAIN ls \cup {n} /\ us[n] = f
      /\ \A k \in DOMAIN ls : k # n => us[k] = ls[k]
  BY Zenon DEF Updated
<1>2. us \in [DOMAIN ls \cup {n} -> LogFile]
  <2>1. \A k \in DOMAIN ls : ls[k] \in LogFile
    BY Zenon DEF FilesOK
  <2> QED BY <2>1, UpdatedFile, Zenon
<1> HIDE DEF us
<1>3. \A k \in DOMAIN us : us[k].synced <= Len(us[k].contents)
  BY <1>1, Zenon DEF FilesOK
<1> QED BY <1>1, <1>2, <1>3, Zenon DEF FilesOK, us

(* ... MANIFESTs too ...                                                    *)
LEMMA ManifestWritten ==
  ASSUME NEW ls, NEW ms, NEW ts, FilesOK(ls, ms, ts),
         NEW n \in Nat \ {0}, NEW f \in ManifestFile, f.synced <= Len(f.contents)
  PROVE  FilesOK(ls, Updated(ms, n, f), ts)
<1> DEFINE us == Updated(ms, n, f)
<1>1. /\ DOMAIN us = DOMAIN ms \cup {n} /\ us[n] = f
      /\ \A k \in DOMAIN ms : k # n => us[k] = ms[k]
  BY Zenon DEF Updated
<1>2. us \in [DOMAIN ms \cup {n} -> ManifestFile]
  <2>1. \A k \in DOMAIN ms : ms[k] \in ManifestFile
    BY Zenon DEF FilesOK
  <2> QED BY <2>1, UpdatedFile, Zenon
<1> HIDE DEF us
<1>3. \A k \in DOMAIN us : us[k].synced <= Len(us[k].contents)
  BY <1>1, Zenon DEF FilesOK
<1> QED BY <1>1, <1>2, <1>3, Zenon DEF FilesOK, us

(* ... and tables.                                                          *)
LEMMA TableWritten ==
  ASSUME NEW ls, NEW ms, NEW ts, FilesOK(ls, ms, ts), NEW n \in Nat, NEW ids \in SUBSET Nat
  PROVE  FilesOK(ls, ms, Updated(ts, n, ids))
<1>1. DOMAIN Updated(ts, n, ids) = DOMAIN ts \cup {n}
  BY UpdatedFile, Zenon
<1>2. Updated(ts, n, ids) \in [DOMAIN ts \cup {n} -> SUBSET Nat]
  BY UpdatedFile, Zenon DEF FilesOK
<1> QED BY <1>1, <1>2, Zenon DEF FilesOK

(* The same when one is deleted.                                            *)
LEMMA LogDeleted ==
  ASSUME NEW ls, NEW ms, NEW ts, FilesOK(ls, ms, ts), NEW n
  PROVE  FilesOK(Without(ls, {n}), ms, ts)
<1>1. /\ DOMAIN Without(ls, {n}) = DOMAIN ls \ {n}
      /\ \A k \in DOMAIN ls \ {n} : Without(ls, {n})[k] = ls[k]
  BY WithoutFile, Zenon
<1>2. Without(ls, {n}) \in [DOMAIN ls \ {n} -> LogFile]
  BY WithoutFile, Zenon DEF FilesOK
<1> QED BY <1>1, <1>2, Zenon DEF FilesOK

(* A MANIFEST is deleted.                                                   *)
LEMMA ManifestDeleted ==
  ASSUME NEW ls, NEW ms, NEW ts, FilesOK(ls, ms, ts), NEW n
  PROVE  FilesOK(ls, Without(ms, {n}), ts)
<1>1. /\ DOMAIN Without(ms, {n}) = DOMAIN ms \ {n}
      /\ \A k \in DOMAIN ms \ {n} : Without(ms, {n})[k] = ms[k]
  BY WithoutFile, Zenon
<1>2. Without(ms, {n}) \in [DOMAIN ms \ {n} -> ManifestFile]
  BY WithoutFile, Zenon DEF FilesOK
<1> QED BY <1>1, <1>2, Zenon DEF FilesOK

(* A table is deleted.                                                      *)
LEMMA TableDeleted ==
  ASSUME NEW ls, NEW ms, NEW ts, FilesOK(ls, ms, ts), NEW n
  PROVE  FilesOK(ls, ms, Without(ts, {n}))
<1>1. DOMAIN Without(ts, {n}) = DOMAIN ts \ {n}
  BY WithoutFile, Zenon
<1>2. Without(ts, {n}) \in [DOMAIN ts \ {n} -> SUBSET Nat]
  BY WithoutFile, Zenon DEF FilesOK
<1> QED BY <1>1, <1>2, Zenon DEF FilesOK

(* What was covered stays covered when fewer updates are promised, and logs *)
(* and tables hold at least what they held.                                 *)
LEMMA CoveredMore ==
  ASSUME NEW E, NEW S, NEW T \in SUBSET S, NEW L, NEW M, NEW ts, NEW us,
         Covered(E, S, L, ts),
         HasNumbers(E) => \A n \in Replayed(E) : ts[n] \subseteq us[n],
         HasNumbers(E) => \A n \in DOMAIN L : n >= Numbers(E).log => n \in DOMAIN M /\ L[n] \subseteq M[n]
  PROVE  Covered(E, T, M, us)
<1>1. CASE ~HasNumbers(E)
  BY <1>1, Zenon DEF Covered
<1>2. CASE HasNumbers(E)
  <2> SUFFICES ASSUME NEW x \in T
               PROVE  \/ \E n \in Replayed(E) : x \in us[n]
                      \/ \E n \in DOMAIN M : n >= Numbers(E).log /\ x \in M[n]
    BY <1>2, Zenon DEF Covered
  <2> QED BY <1>2, Zenon DEF Covered
<1> QED BY <1>1, <1>2, Zenon

(* A version stays on disk as long as its tables do.                        *)
LEMMA SaneMore ==
  ASSUME NEW E, NEW ts, NEW us, NEW cur, Sane(E, ts, cur),
         HasNumbers(E) => \A n \in Replayed(E) : n \in DOMAIN us /\ us[n] = ts[n]
  PROVE  Sane(E, us, cur)
BY Zenon DEF Sane

(* The sets of updates, log by log.                                         *)
LEMMA LogIds ==
  ASSUME NEW ls
  PROVE  /\ DOMAIN AllIds(ls) = DOMAIN ls /\ DOMAIN KeptIds(ls) = DOMAIN ls
         /\ \A n \in DOMAIN ls : AllIds(ls)[n] = Range(ls[n].contents)
                                 /\ KeptIds(ls)[n] = Range(Kept(ls[n]))
BY Zenon DEF AllIds, KeptIds

(* The tables of a MANIFEST stay, and the logs that it needs lose nothing.  *)
NeededFilesStay(manifest, ls, ts, ls2, us) ==
  \A E \in {manifest.contents, Kept(manifest)} : HasNumbers(E) =>
    /\ \A n \in Replayed(E) : n \in DOMAIN us /\ us[n] = ts[n]
    /\ \A n \in DOMAIN ls : n >= Numbers(E).log =>
         /\ n \in DOMAIN ls2 /\ Range(ls[n].contents) \subseteq Range(ls2[n].contents)
         /\ Range(Kept(ls[n])) \subseteq Range(Kept(ls2[n]))

(* The promises then stand while the MANIFEST in use is the same.           *)
LEMMA PromisesMore ==
  ASSUME NEW ls, NEW ms, NEW ts, NEW cur, NEW ack, NEW saf,
         NEW ls2, NEW ms2, NEW us,
         PromisesKept(ls, ms, ts, cur, ack, saf), ms2[cur] = ms[cur],
         NeededFilesStay(ms[cur], ls, ts, ls2, us)
  PROVE  PromisesKept(ls2, ms2, us, cur, ack, saf)
<1> DEFINE all == ms[cur].contents
           few == Kept(ms[cur])
<1>1. /\ OneUnsynced(ms[cur]) /\ Sane(all, ts, cur) /\ Sane(few, ts, cur)
      /\ HasNumbers(few) => HasNumbers(all) /\ Numbers(few).next <= Numbers(all).next
      /\ Covered(all, ack, AllIds(ls), ts)
      /\ Covered(all, saf, KeptIds(ls), ts)
      /\ Covered(few, saf, KeptIds(ls), ts)
  BY Zenon DEF PromisesKept
<1>2. ms2[cur].contents = all /\ Kept(ms2[cur]) = few
  BY Zenon
<1>3. \A E \in {all, few} : HasNumbers(E) =>
        /\ \A n \in Replayed(E) : n \in DOMAIN us /\ us[n] = ts[n]
        /\ \A n \in DOMAIN ls : n >= Numbers(E).log =>
             /\ n \in DOMAIN ls2 /\ Range(ls[n].contents) \subseteq Range(ls2[n].contents)
             /\ Range(Kept(ls[n])) \subseteq Range(Kept(ls2[n]))
  BY Zenon DEF NeededFilesStay
<1> HIDE DEF all, few
<1>4. Sane(all, us, cur) /\ Sane(few, us, cur)
  BY <1>1, <1>3, SaneMore, Zenon
<1>5. \A E \in {all, few} : HasNumbers(E) => \A n \in Replayed(E) : ts[n] \subseteq us[n]
  BY <1>3, Zenon
<1>6. \A E \in {all, few} : HasNumbers(E) =>
        \A n \in DOMAIN AllIds(ls) : n >= Numbers(E).log =>
          n \in DOMAIN AllIds(ls2) /\ AllIds(ls)[n] \subseteq AllIds(ls2)[n]
  <2> SUFFICES ASSUME NEW E \in {all, few}, HasNumbers(E), NEW n \in DOMAIN ls, n >= Numbers(E).log
               PROVE  n \in DOMAIN AllIds(ls2) /\ AllIds(ls)[n] \subseteq AllIds(ls2)[n]
    BY LogIds, Zenon
  <2>1. n \in DOMAIN ls2 /\ Range(ls[n].contents) \subseteq Range(ls2[n].contents)
    BY <1>3, Zenon
  <2> QED BY <2>1, LogIds, Zenon
<1>7. \A E \in {all, few} : HasNumbers(E) =>
        \A n \in DOMAIN KeptIds(ls) : n >= Numbers(E).log =>
          n \in DOMAIN KeptIds(ls2) /\ KeptIds(ls)[n] \subseteq KeptIds(ls2)[n]
  <2> SUFFICES ASSUME NEW E \in {all, few}, HasNumbers(E), NEW n \in DOMAIN ls, n >= Numbers(E).log
               PROVE  n \in DOMAIN KeptIds(ls2) /\ KeptIds(ls)[n] \subseteq KeptIds(ls2)[n]
    BY LogIds, Zenon
  <2>1. n \in DOMAIN ls2 /\ Range(Kept(ls[n])) \subseteq Range(Kept(ls2[n]))
    BY <1>3, Zenon
  <2> QED BY <2>1, LogIds, Zenon
<1>8. Covered(all, ack, AllIds(ls2), us)
  BY <1>1, <1>5, <1>6, CoveredMore, Zenon
<1>9. Covered(all, saf, KeptIds(ls2), us)
  BY <1>1, <1>5, <1>7, CoveredMore, Zenon
<1>10. Covered(few, saf, KeptIds(ls2), us)
  BY <1>1, <1>5, <1>7, CoveredMore, Zenon
<1> QED BY <1>1, <1>2, <1>4, <1>8, <1>9, <1>10, Zenon DEF PromisesKept

-----------------------------------------------------------------------------
(* Steps that leave the files alone, and every way to lose the process.     *)
LEMMA DiskSame ==
  ASSUME DiskInv, UNCHANGED <<logs, manifests, tables, current, acked, safe>>
  PROVE  DiskInv'
BY Zenon DEF DiskInv

(* A process that is gone has forgotten everything.                         *)
LEMMA ProcessLost ==
  ASSUME DiskInv', m' = Down, job' = NoJob
  PROVE  CrashInv'
<1>1. m'.pc = "down" /\ m'.mem = <<>> /\ m'.imm = <<>> /\ ~m'.has_imm /\ m'.add = {}
  BY Zenon DEF Down
<1>2. m' \in Memory
  BY SMTT(30) DEF Down, Memory
<1>3. Starting' /\ Recovering' /\ Switching' /\ Running' /\ Working'
  BY <1>1, Zenon DEF Starting, Recovering, Switching, Running, Working
<1> QED BY <1>2, <1>3, Zenon DEF CrashInv

(* There is background work only while the database is open.                *)
LEMMA Idle ==
  ASSUME CrashInv, m.pc # "open"
  PROVE  job = NoJob
BY Zenon DEF CrashInv, Working

(* DB::Open begins: the MANIFEST that NewDB writes is nobody's yet.         *)
LEMMA OpenStartSafe == CrashInv /\ OpenStart => CrashInv'
<1> SUFFICES ASSUME CrashInv, OpenStart PROVE CrashInv'
  BY Zenon
<1>1. m.pc = "down" /\ job = NoJob /\ job' = NoJob
  BY Idle, Zenon DEF OpenStart
<1>2. /\ m' \in Memory /\ m'.mem = <<>> /\ m'.imm = <<>> /\ ~m'.has_imm /\ m'.add = {}
      /\ m'.pc = IF current = 0 THEN "newdb" ELSE "recover"
  <2>1. m' = [Down EXCEPT !.pc = IF current = 0 THEN "newdb" ELSE "recover"]
    BY Zenon DEF OpenStart
  <2>2. Down \in Memory /\ Down.mem = <<>> /\ Down.imm = <<>> /\ ~Down.has_imm /\ Down.add = {}
    BY DEF Down, Memory
  <2>3. (IF current = 0 THEN "newdb" ELSE "recover") \in {"newdb", "recover"}
    BY Zenon
  <2>4. m' \in Memory
    BY <2>1, <2>2, <2>3, Zenon DEF Memory
  <2> QED BY <2>1, <2>2, <2>4, ZenonT(30) DEF Memory
<1>3. UNCHANGED <<logs, tables, current, acked, safe>>
  BY Zenon DEF OpenStart, promises
<1>4. CASE current = 0
  <2> DEFINE e == Edit({}, {}, 0, 2, 0)
             f == File(<<e>>)
  <2>1. e \in Edits
    BY EditsTyped, Zenon
  <2>2. manifests' = Updated(manifests, 1, f)
    BY <1>4, Zenon DEF OpenStart
  <2> HIDE DEF e
  <2>3. f \in ManifestFile /\ f.synced = 0 /\ f.contents \in Seq(Edits)
    <3> DEFINE s == <<e>>
    <3>1. s \in Seq(Edits)
      BY <2>1
    <3> HIDE DEF s
    <3>2. File(s) \in ManifestFile /\ File(s).synced = 0 /\ File(s).contents \in Seq(Edits)
      BY <3>1, NewFile, Zenon DEF ManifestFile
    <3> QED BY <3>2, Zenon DEF s
  <2> HIDE DEF f
  <2>4. 1 \in DOMAIN manifests' /\ manifests'[1] = f
    BY <2>2, Zenon DEF Updated
  <2>5. f.synced <= Len(f.contents)
    BY <2>3
  <2>6. FilesOK(logs', manifests', tables')
    BY <1>3, <2>2, <2>3, <2>5, ManifestWritten DEF CrashInv, DiskInv
  <2>7. DiskInv'
    BY <1>3, <1>4, <2>6, Zenon DEF CrashInv, DiskInv
  <2>8. Starting'
    BY <1>2, <1>3, <1>4, <2>4, Zenon DEF Starting, f, e
  <2> QED BY <1>1, <1>2, <1>4, <2>7, <2>8, Zenon DEF CrashInv, Recovering, Switching, Running, Working
<1>5. CASE current # 0
  <2>1. DiskInv'
    BY <1>3, <1>5, DiskSame, Zenon DEF CrashInv, OpenStart
  <2>2. Starting'
    BY <1>2, <1>3, <1>5, Zenon DEF Starting
  <2> QED BY <1>1, <1>2, <1>5, <2>1, <2>2, Zenon DEF CrashInv, Recovering, Switching, Running, Working
<1> QED BY <1>4, <1>5, Zenon

(* CURRENT names the first MANIFEST, and nothing was promised yet.          *)
LEMMA NewDBCurrentSafe == CrashInv /\ NewDBCurrent => CrashInv'
<1> SUFFICES ASSUME CrashInv, NewDBCurrent PROVE CrashInv'
  BY Zenon
<1> DEFINE e == Edit({}, {}, 0, 2, 0)
           f == File(<<e>>)
<1>1. m.pc = "newdb" /\ job = NoJob /\ job' = NoJob /\ current' = 1
  BY Idle, Zenon DEF NewDBCurrent
<1>2. /\ m' \in Memory /\ m'.mem = m.mem /\ m'.imm = m.imm /\ m'.has_imm = m.has_imm
      /\ m'.add = m.add /\ m'.pc = "recover"
  BY Zenon DEF NewDBCurrent, CrashInv, Memory
<1>3. UNCHANGED <<logs, manifests, tables, acked, safe>>
  BY Zenon DEF NewDBCurrent, promises
<1>4. current = 0 /\ acked = {} /\ safe = {} /\ 1 \in DOMAIN manifests /\ manifests[1] = f
  BY <1>1, Zenon DEF CrashInv, Starting, DiskInv
<1>5. /\ e \in Edits /\ e.numbers /\ e.add = {} /\ e.log = 0 /\ e.next = 2 /\ e.seq = 0
      /\ <<e>> \in Seq(Edits)
  BY EditsTyped
<1> HIDE DEF e
<1>6. HasNumbers(<<e>>) /\ Numbers(<<e>>) = e /\ Replayed(<<e>>) = {}
  BY <1>5, ReplayFirst, Zenon
<1>7. f.contents = <<e>> /\ Kept(f) = <<>> /\ OneUnsynced(f)
  <2>1. f.contents = <<e>> /\ Kept(f) = <<>> /\ f.synced = 0
    BY <1>5, NewFile, Zenon
  <2>2. Len(<<e>>) = 1
    BY Zenon
  <2>3. Len(f.contents) = 1 /\ f.synced = 0
    BY <2>1, <2>2, Zenon
  <2> HIDE DEF f
  <2> QED BY <2>1, <2>3 DEF OneUnsynced
<1> HIDE DEF f
<1>8. Sane(f.contents, tables, 1) /\ Sane(Kept(f), tables, 1)
  BY <1>5, <1>6, <1>7, NothingReplayed DEF Sane
<1>9. /\ Covered(f.contents, {}, AllIds(logs), tables) /\ Covered(f.contents, {}, KeptIds(logs), tables)
      /\ Covered(Kept(f), {}, KeptIds(logs), tables)
  BY Zenon DEF Covered
<1>10. PromisesKept(logs, manifests, tables, 1, {}, {})
  BY <1>4, <1>7, <1>8, <1>9, NothingReplayed, Zenon DEF PromisesKept
<1>11. DiskInv'
  BY <1>1, <1>3, <1>4, <1>10, Zenon DEF CrashInv, DiskInv
<1>12. Starting'
  BY <1>1, <1>2, SMTT(30) DEF CrashInv, Starting
<1> QED BY <1>1, <1>2, <1>11, <1>12, Zenon DEF CrashInv, Recovering, Switching, Running, Working

(* The numbers that recovery takes from the MANIFEST are ahead of its       *)
(* tables and of its log.                                                   *)
LEMMA RecoverManifestSafe == CrashInv /\ RecoverManifest => CrashInv'
<1> SUFFICES ASSUME CrashInv, RecoverManifest PROVE CrashInv'
  BY Zenon
<1> DEFINE e == Numbers(All)
<1>1. m.pc = "recover" /\ job = NoJob /\ job' = NoJob /\ HasNumbers(All)
  BY Idle, Zenon DEF RecoverManifest, Readable, All
<1>2. UNCHANGED <<logs, manifests, tables, current, acked, safe>>
  BY Zenon DEF RecoverManifest, promises
<1>3. DiskInv' /\ current # 0
  BY <1>1, <1>2, DiskSame, Zenon DEF CrashInv, Starting
<1>4. Sane(All, tables, current) /\ FilesOK(logs, manifests, tables)
  BY <1>3, Zenon DEF CrashInv, DiskInv, PromisesKept, All
<1>5. /\ e.log \in Nat /\ e.next \in Nat /\ e.seq \in Nat /\ e.log < e.next
      /\ \A n \in Replayed(All) : n \in DOMAIN tables
  BY <1>1, <1>4, Zenon DEF Sane
<1>6. Replayed(All) \in SUBSET Nat /\ DOMAIN logs \subseteq Nat
  BY <1>4, <1>5, Zenon DEF FilesOK
<1>7. m' = [m EXCEPT !.pc = "logs", !.version = Replayed(All), !.manifest = e.next,
                     !.next_file = MarkFileNumberUsed(e.next + 1, e.log),
                     !.log_number = e.log, !.last_sequence = e.seq,
                     !.todo = {n \in DOMAIN logs : n >= e.log}]
  BY Zenon DEF RecoverManifest, All
<1> HIDE DEF e
<1>8. MarkFileNumberUsed(e.next + 1, e.log) = e.next + 1
  BY <1>5 DEF MarkFileNumberUsed
<1>9. m' \in Memory
  <2>1. m \in Memory /\ e.next + 1 \in Nat /\ {n \in DOMAIN logs : n >= e.log} \in SUBSET Nat
    BY <1>5, <1>6 DEF CrashInv
  <2> QED BY <1>5, <1>6, <1>7, <1>8, <2>1, Zenon DEF Memory
<1>10. /\ m'.pc = "logs" /\ m'.version = Replayed(All) /\ m'.manifest = e.next
       /\ m'.next_file = e.next + 1 /\ m'.log_number = e.log /\ m'.last_sequence = e.seq
       /\ m'.todo = {n \in DOMAIN logs : n >= e.log}
       /\ m'.mem = m.mem /\ m'.imm = m.imm /\ m'.has_imm = m.has_imm /\ m'.add = m.add
  <2>1. m \in Memory
    BY Zenon DEF CrashInv
  <2> QED BY <1>7, <1>8, <2>1, Zenon DEF Memory
<1>11. m.mem = <<>> /\ m.imm = <<>> /\ ~m.has_imm /\ m.add = {}
  BY <1>1, Zenon DEF CrashInv, Starting
<1>12. Starting'
  BY <1>10, <1>11, Zenon DEF Starting
<1>13. All' = All
  BY <1>2, Zenon DEF All
<1>14. \A n \in DOMAIN logs \ m'.todo : n < m'.next_file /\ ~(n >= m'.log_number)
  BY <1>5, <1>6, <1>10, SMTT(30)
<1>15. Recovering'
  BY <1>1, <1>2, <1>3, <1>5, <1>10, <1>11, <1>13, <1>14, SMTT(30) DEF Recovering, e
<1> QED BY <1>1, <1>3, <1>9, <1>10, <1>12, <1>15, Zenon DEF CrashInv, Switching, Running, Working

(* An Open that fails forgets what it read.                                 *)
LEMMA OpenFailsSafe == CrashInv /\ OpenFails => CrashInv'
<1> SUFFICES ASSUME CrashInv, OpenFails PROVE CrashInv'
  BY Zenon
<1>1. m' = Down /\ job' = NoJob
  BY Idle, Zenon DEF OpenFails
<1>2. DiskInv'
  BY DiskSame, Zenon DEF OpenFails, CrashInv, promises
<1> QED BY <1>1, <1>2, ProcessLost, Zenon

(* A crash of the process leaves the files as they are.                     *)
LEMMA ProcessCrashSafe == CrashInv /\ ProcessCrash => CrashInv'
<1> SUFFICES ASSUME CrashInv, ProcessCrash PROVE CrashInv'
  BY Zenon
<1>1. m' = Down /\ job' = NoJob
  BY Zenon DEF ProcessCrash
<1>2. DiskInv'
  BY DiskSame, Zenon DEF ProcessCrash, CrashInv
<1> QED BY <1>1, <1>2, ProcessLost, Zenon

(* The database is open once nothing is left to delete.                     *)
LEMMA CleanupEndsSafe == CrashInv /\ CleanupEnds => CrashInv'
<1> SUFFICES ASSUME CrashInv, CleanupEnds PROVE CrashInv'
  BY Zenon
<1>1. m.pc = "cleanup" /\ job = NoJob /\ job' = NoJob
  BY Idle, Zenon DEF CleanupEnds
<1>2. UNCHANGED <<logs, manifests, tables, current, acked, safe>>
  BY Zenon DEF CleanupEnds, promises
<1>3. DiskInv'
  BY <1>2, DiskSame, Zenon DEF CrashInv
<1>4. m' = [m EXCEPT !.pc = "open"]
  BY Zenon DEF CleanupEnds
<1>5. m' \in Memory
  BY <1>4, Zenon DEF CrashInv, Memory
<1>6. /\ m'.pc = "open" /\ m'.version = m.version /\ m'.log_number = m.log_number
      /\ m'.manifest = m.manifest /\ m'.next_file = m.next_file
      /\ m'.last_sequence = m.last_sequence /\ m'.logfile = m.logfile /\ m'.mem = m.mem
      /\ m'.imm = m.imm /\ m'.has_imm = m.has_imm
  BY <1>4, Zenon DEF CrashInv, Memory
<1>7. All' = All /\ Few' = Few
  BY <1>2, Zenon DEF All, Few
<1>8. Running'
  BY <1>1, <1>2, <1>6, <1>7, Zenon DEF CrashInv, Running
<1> QED BY <1>1, <1>3, <1>5, <1>6, <1>8, Zenon DEF CrashInv, Starting, Recovering, Switching, Working

-----------------------------------------------------------------------------
(* What is on disk once CURRENT names a MANIFEST.                           *)
LEMMA OnDisk ==
  ASSUME CrashInv, current # 0
  PROVE  /\ FilesOK(logs, manifests, tables) /\ DOMAIN logs \subseteq Nat /\ DOMAIN tables \subseteq Nat
         /\ current \in DOMAIN manifests /\ current \in Nat \ {0}
         /\ manifests[current] \in ManifestFile
         /\ manifests[current].synced <= Len(manifests[current].contents)
         /\ All \in Seq(Edits) /\ Few \in Seq(Edits)
         /\ PromisesKept(logs, manifests, tables, current, acked, safe)
         /\ OneUnsynced(manifests[current])
         /\ Sane(All, tables, current) /\ Sane(Few, tables, current)
         /\ HasNumbers(Few) => HasNumbers(All) /\ Numbers(Few).next <= Numbers(All).next
         /\ Covered(All, acked, AllIds(logs), tables)
         /\ Covered(All, safe, KeptIds(logs), tables)
         /\ Covered(Few, safe, KeptIds(logs), tables)
<1>1. FilesOK(logs, manifests, tables) /\ current \in DOMAIN manifests
  BY Zenon DEF CrashInv, DiskInv
<1>2. /\ DOMAIN logs \subseteq Nat /\ DOMAIN tables \subseteq Nat /\ current \in Nat \ {0}
      /\ manifests[current] \in ManifestFile
      /\ manifests[current].synced <= Len(manifests[current].contents)
  BY <1>1, Zenon DEF FilesOK
<1>3. All \in Seq(Edits) /\ Few \in Seq(Edits)
  BY <1>2, KeptFile, Zenon DEF All, Few, ManifestFile
<1>4. PromisesKept(logs, manifests, tables, current, acked, safe)
  BY Zenon DEF CrashInv, DiskInv
<1> QED BY <1>1, <1>2, <1>3, <1>4, Zenon DEF PromisesKept, All, Few

(* A new table is no table of the version on disk: its number is newer.     *)
LEMMA NewTable ==
  ASSUME CrashInv, current # 0, HasNumbers(All), NEW n \in Nat, n >= Numbers(All).next,
         NEW ids \in SUBSET Nat, tables' = Updated(tables, n, ids),
         UNCHANGED <<logs, manifests, current, acked, safe>>
  PROVE  DiskInv' /\ n \notin Replayed(All) /\ (HasNumbers(Few) => n \notin Replayed(Few))
<1>1. \A E \in {All, Few} : HasNumbers(E) => \A k \in Replayed(E) : k \in DOMAIN tables /\ k # n
  <2> SUFFICES ASSUME NEW E \in {All, Few}, HasNumbers(E), NEW k \in Replayed(E)
               PROVE  k \in DOMAIN tables /\ k # n
    BY Zenon
  <2>0. /\ Sane(All, tables, current) /\ Sane(Few, tables, current)
        /\ HasNumbers(Few) => Numbers(Few).next <= Numbers(All).next
    BY OnDisk, Zenon
  <2>1. Sane(E, tables, current) /\ Numbers(E).next <= Numbers(All).next
    BY <2>0, SMTT(30) DEF Sane
  <2>2. k \in DOMAIN tables /\ k < Numbers(E).next /\ Numbers(E).next \in Nat
    BY <2>1, Zenon DEF Sane
  <2>3. Numbers(All).next \in Nat /\ k \in Nat
    BY <2>2, OnDisk, Zenon DEF Sane
  <2> QED BY <2>1, <2>2, <2>3
<1>2. \A E \in {All, Few} : HasNumbers(E) =>
        \A k \in Replayed(E) : k \in DOMAIN tables' /\ tables'[k] = tables[k]
  <2>1. /\ DOMAIN tables' = DOMAIN tables \cup {n}
        /\ \A k \in DOMAIN tables : k # n => tables'[k] = tables[k]
    BY Zenon DEF Updated
  <2> QED BY <1>1, <2>1, Zenon
<1>3. PromisesKept(logs', manifests', tables', current', acked', safe')
  <2>1. PromisesKept(logs, manifests, tables, current, acked, safe)
    BY OnDisk, Zenon
  <2>2. NeededFilesStay(manifests[current], logs, tables, logs, tables')
    BY <1>2, Zenon DEF NeededFilesStay, All, Few
  <2>3. PromisesKept(logs, manifests, tables', current, acked, safe)
    BY <2>1, <2>2, PromisesMore, Zenon
  <2> QED BY <2>3, Zenon
<1>4. FilesOK(logs', manifests', tables')
  BY OnDisk, TableWritten, Zenon
<1>5. DiskInv'
  BY <1>3, <1>4, Zenon DEF CrashInv, DiskInv
<1> QED BY <1>1, <1>5, Zenon

(* Recovery reads the oldest log that is left, and writes it to a table     *)
(* whose number is above those of the version on disk.                      *)
LEMMA RecoverLogFileSafe ==
  ASSUME Faults = {}, NEW fails \in BOOLEAN
  PROVE  CrashInv /\ RecoverLogFile(fails) => CrashInv'
<1> SUFFICES ASSUME CrashInv, RecoverLogFile(fails) PROVE CrashInv'
  BY Zenon
<1> DEFINE n    == Min(m.todo)
           ids  == Range(logs[n].contents)
           nf   == m.next_file
           taken == NextAfterLog(IF ids = {} THEN nf ELSE nf + 1, n)
           last == Max({m.last_sequence} \cup ids)
           adds == IF ids = {} THEN m.add ELSE m.add \cup {nf}
<1>1. m.pc = "logs" /\ m.todo # {} /\ ~fails /\ job = NoJob /\ job' = NoJob
  BY Idle, Zenon DEF RecoverLogFile
<1>2. /\ tables' = IF ids = {} THEN tables ELSE Updated(tables, nf, ids)
      /\ m' = [m EXCEPT !.todo = m.todo \ {n}, !.ok = TRUE, !.add = adds, !.next_file = taken,
                        !.last_sequence = last]
      /\ UNCHANGED <<logs, manifests, current, acked, safe>>
  BY <1>1, Zenon DEF RecoverLogFile
<1>3. /\ current # 0 /\ HasNumbers(All)
      /\ m.version = Replayed(All) /\ m.log_number = Numbers(All).log
      /\ m.manifest = Numbers(All).next /\ m.manifest < m.next_file
      /\ Numbers(All).seq <= m.last_sequence
      /\ \A k \in m.add : /\ k \in DOMAIN tables /\ m.manifest < k /\ k < m.next_file
                          /\ \A x \in tables[k] : x <= m.last_sequence
      /\ \A k \in m.todo : k \in DOMAIN logs
      /\ \A k \in DOMAIN logs \ m.todo :
           /\ k < m.next_file
           /\ k >= m.log_number => \A x \in Range(logs[k].contents) : \E j \in m.add : x \in tables[j]
  BY <1>1, Zenon DEF CrashInv, Recovering
<1>4. /\ m \in Memory /\ nf \in Nat /\ m.last_sequence \in Nat /\ m.todo \in SUBSET Nat
      /\ m.add \in SUBSET Nat /\ m.manifest \in Nat
  BY Zenon DEF CrashInv, Memory
<1>5. n \in m.todo /\ n \in Nat /\ n \in DOMAIN logs
  BY <1>1, <1>3, <1>4, MinOf, Zenon
<1>6. logs[n].contents \in Seq(Nat) /\ ids \in SUBSET Nat
  BY <1>3, <1>5, OnDisk, SMTT(30) DEF FilesOK, LogFile, Range
<1>7. last \in Nat /\ m.last_sequence <= last /\ \A x \in ids : x <= last
  BY <1>4, <1>6, MaxOf, Zenon
<1> HIDE DEF n, ids, last
<1>8. /\ taken \in Nat /\ n < taken /\ nf <= taken /\ (ids # {} => nf < taken)
  BY <1>4, <1>5 DEF NextAfterLog, MarkFileNumberUsed
<1>9. adds \in SUBSET Nat /\ m.todo \ {n} \in SUBSET Nat
  BY <1>4, Zenon
<1> HIDE DEF taken, adds, nf
<1>10. m' \in Memory
  BY <1>2, <1>4, <1>7, <1>8, <1>9, Zenon DEF Memory
<1>11. /\ m'.pc = m.pc /\ m'.version = m.version /\ m'.log_number = m.log_number
       /\ m'.manifest = m.manifest /\ m'.mem = m.mem /\ m'.imm = m.imm /\ m'.has_imm = m.has_imm
       /\ m'.todo = m.todo \ {n} /\ m'.add = adds /\ m'.next_file = taken
       /\ m'.last_sequence = last
  BY <1>2, <1>4, Zenon DEF Memory
<1>12. DiskInv'
  <2>1. CASE ids = {}
    BY <1>2, <2>1, DiskSame, Zenon DEF CrashInv
  <2>2. CASE ids # {}
    <3>1. nf >= Numbers(All).next
      BY <1>3, <1>4 DEF nf
    <3> QED BY <1>2, <1>3, <1>4, <1>6, <2>2, <3>1, NewTable, Zenon
  <2> QED BY <2>1, <2>2, Zenon
<1>13. All' = All
  BY <1>2, Zenon DEF All
<1>14. Starting'
  BY <1>1, <1>11, Zenon DEF CrashInv, Starting
<1>15. \A k \in m.add : k \in DOMAIN tables' /\ tables'[k] = tables[k]
  <2>1. \A k \in m.add : k \in DOMAIN tables /\ k # nf
    BY <1>3, <1>4 DEF nf
  <2> QED BY <1>2, <2>1, Zenon DEF Updated
<1>16. ids # {} => nf \in DOMAIN tables' /\ tables'[nf] = ids /\ nf \in adds
  BY <1>2, Zenon DEF adds, Updated
<1>17. \A k \in adds : /\ k \in DOMAIN tables' /\ m.manifest < k /\ k < taken
                       /\ \A x \in tables'[k] : x <= last
  <2>1. ASSUME NEW k \in m.add
        PROVE /\ k \in DOMAIN tables' /\ m.manifest < k /\ k < taken
              /\ \A x \in tables'[k] : x <= last
    <3>1. k \in Nat /\ k < nf /\ m.manifest < k /\ tables[k] \in SUBSET Nat
      BY <1>3, <1>4, OnDisk, Zenon DEF FilesOK, nf
    <3>2. \A x \in tables[k] : x \in Nat /\ x <= m.last_sequence
      BY <1>3, <3>1, Zenon
    <3> QED BY <1>4, <1>7, <1>8, <1>15, <3>1, <3>2, SMTT(30)
  <2>2. ASSUME ids # {}
        PROVE /\ nf \in DOMAIN tables' /\ m.manifest < nf /\ nf < taken
              /\ \A x \in tables'[nf] : x <= last
    BY <1>3, <1>7, <1>8, <1>16, <2>2, Zenon DEF nf
  <2> QED BY <2>1, <2>2, Zenon DEF adds
<1>18. \A k \in DOMAIN logs \ (m.todo \ {n}) :
         /\ k < taken
         /\ k >= m.log_number => \A x \in Range(logs[k].contents) : \E j \in adds : x \in tables'[j]
  <2> TAKE k \in DOMAIN logs \ (m.todo \ {n})
  <2>1. CASE k = n
    BY <1>8, <1>16, <2>1, Zenon DEF ids
  <2>2. CASE k \in DOMAIN logs \ m.todo
    <3>1. k \in Nat /\ k < nf
      BY <1>3, <2>2, OnDisk, Zenon DEF nf
    <3>2. k < taken
      BY <1>4, <1>8, <3>1, SMTT(30)
    <3>3. ASSUME k >= m.log_number, NEW x \in Range(logs[k].contents)
          PROVE  \E j \in adds : x \in tables'[j]
      <4>1. PICK j \in m.add : x \in tables[j]
        BY <1>3, <2>2, <3>3, Zenon
      <4>2. j \in adds
        BY Zenon DEF adds
      <4> QED BY <1>15, <4>1, <4>2, Zenon
    <3> QED BY <3>2, <3>3, Zenon
  <2> QED BY <2>1, <2>2, Zenon
<1>19. Recovering'
  <2>1. m'.manifest < m'.next_file
    BY <1>3, <1>4, <1>8, <1>11, SMTT(30) DEF nf
  <2>2. Numbers(All).seq <= m'.last_sequence
    <3>1. Numbers(All).seq \in Nat
      BY <1>3, OnDisk, Zenon DEF Sane
    <3> QED BY <1>3, <1>4, <1>7, <1>11, <3>1, SMTT(30)
  <2>3. \A k \in m'.todo : k \in DOMAIN logs'
    BY <1>2, <1>3, <1>11, Zenon
  <2> QED BY <1>2, <1>3, <1>11, <1>13, <1>17, <1>18, <2>1, <2>2, <2>3, SMTT(30) DEF Recovering
<1> QED BY <1>1, <1>10, <1>11, <1>12, <1>14, <1>19, Zenon DEF CrashInv, Switching, Running, Working

(* A log that is new is empty, and its number is above all others.          *)
LEMMA NewLog ==
  ASSUME CrashInv, current # 0, NEW n \in Nat, n \notin DOMAIN logs,
         logs' = Updated(logs, n, File(<<>>)),
         UNCHANGED <<manifests, tables, current, acked, safe>>
  PROVE  /\ DiskInv' /\ DOMAIN logs' = DOMAIN logs \cup {n} /\ logs'[n].contents = <<>>
         /\ \A k \in DOMAIN logs : logs'[k] = logs[k]
<1> DEFINE f == File(<<>>)
<1>1. f \in LogFile /\ f.contents = <<>> /\ f.synced = 0 /\ f.synced <= Len(f.contents)
  BY DEF File, LogFile
<1> HIDE DEF f
<1>2. logs' = Updated(logs, n, f)
  BY Zenon DEF f
<1>3. /\ DOMAIN logs' = DOMAIN logs \cup {n} /\ logs'[n].contents = <<>>
      /\ \A k \in DOMAIN logs : logs'[k] = logs[k]
  BY <1>1, <1>2, Zenon DEF Updated
<1>4. FilesOK(logs', manifests', tables')
  BY <1>1, <1>2, OnDisk, LogWritten, Zenon
<1>5. \A E \in {All, Few} : HasNumbers(E) => \A k \in Replayed(E) : k \in DOMAIN tables
  BY OnDisk, Zenon DEF Sane
<1>6. PromisesKept(logs', manifests', tables', current', acked', safe')
  <2>1. PromisesKept(logs, manifests, tables, current, acked, safe)
    BY OnDisk, Zenon
  <2>2. NeededFilesStay(manifests[current], logs, tables, logs', tables')
    BY <1>3, <1>5, Zenon DEF NeededFilesStay, All, Few
  <2>3. manifests'[current] = manifests[current]
    BY Zenon
  <2>4. PromisesKept(logs', manifests', tables', current, acked, safe)
    BY <2>1, <2>2, <2>3, PromisesMore, Zenon
  <2> QED BY <2>4, Zenon
<1>7. DiskInv'
  BY <1>4, <1>6, Zenon DEF CrashInv, DiskInv
<1> QED BY <1>3, <1>7, Zenon

(* DB::Open adds a log; all others have been read.                          *)
LEMMA OpenNewLogSafe == CrashInv /\ OpenNewLog => CrashInv'
<1> SUFFICES ASSUME CrashInv, OpenNewLog PROVE CrashInv'
  BY Zenon
<1> DEFINE nf == m.next_file
<1>1. /\ m.pc = "logs" /\ m.todo = {} /\ job = NoJob /\ job' = NoJob
      /\ UNCHANGED <<manifests, tables, current, acked, safe>>
  BY Idle, Zenon DEF OpenNewLog, promises
<1>2. /\ current # 0 /\ HasNumbers(All)
      /\ m.version = Replayed(All) /\ m.log_number = Numbers(All).log
      /\ m.manifest = Numbers(All).next /\ m.manifest < m.next_file
      /\ Numbers(All).seq <= m.last_sequence
      /\ \A k \in m.add : /\ k \in DOMAIN tables /\ m.manifest < k /\ k < m.next_file
                          /\ \A x \in tables[k] : x <= m.last_sequence
      /\ \A k \in DOMAIN logs :
           /\ k < m.next_file
           /\ k >= m.log_number => \A x \in Range(logs[k].contents) : \E j \in m.add : x \in tables[j]
  BY <1>1, Zenon DEF CrashInv, Recovering
<1>3. CASE ~OpenProceeds
  <2>1. DiskInv' /\ m' = Down
    BY <1>1, <1>3, DiskSame, Zenon DEF OpenNewLog, CrashInv
  <2> QED BY <1>1, <2>1, ProcessLost, Zenon
<1>4. CASE OpenProceeds
  <2>1. /\ logs' = Updated(logs, nf, File(<<>>))
        /\ m' = [m EXCEPT !.pc = "manifest", !.logfile = nf, !.next_file = nf + 1]
    BY <1>4, Zenon DEF OpenNewLog
  <2>2. /\ m \in Memory /\ nf \in Nat /\ nf + 1 \in Nat /\ m.manifest \in Nat /\ m.add \in SUBSET Nat
        /\ \A k \in DOMAIN logs : k \in Nat /\ k < nf
    <3>1. DOMAIN logs \subseteq Nat
      BY <1>2, OnDisk, Zenon
    <3> QED BY <1>2, <3>1, SMTT(30) DEF CrashInv, Memory
  <2> HIDE DEF nf
  <2>3. m' \in Memory
    BY <2>1, <2>2, Zenon DEF Memory
  <2>4. /\ m'.pc = "manifest" /\ m'.version = m.version /\ m'.log_number = m.log_number
        /\ m'.manifest = m.manifest /\ m'.mem = m.mem /\ m'.imm = m.imm /\ m'.has_imm = m.has_imm
        /\ m'.todo = m.todo /\ m'.add = m.add /\ m'.next_file = nf + 1 /\ m'.logfile = nf
        /\ m'.last_sequence = m.last_sequence
    BY <2>1, <2>2, Zenon DEF Memory
  <2>5. nf \notin DOMAIN logs
    BY <2>2
  <2>6. /\ DiskInv' /\ DOMAIN logs' = DOMAIN logs \cup {nf} /\ logs'[nf].contents = <<>>
        /\ \A k \in DOMAIN logs : logs'[k] = logs[k]
    BY <1>1, <1>2, <2>1, <2>2, <2>5, NewLog, Zenon
  <2>7. All' = All
    BY <1>1, Zenon DEF All
  <2>8. Starting'
    BY <1>1, <2>4, Zenon DEF CrashInv, Starting
  <2>9. \A k \in DOMAIN logs' :
          /\ k < nf + 1 /\ k <= nf
          /\ k >= m.log_number => \A x \in Range(logs'[k].contents) : \E j \in m.add : x \in tables[j]
    <3>1. Range(logs'[nf].contents) = {}
      BY <2>6 DEF Range
    <3> TAKE k \in DOMAIN logs'
    <3>2. CASE k = nf
      BY <2>2, <3>1, <3>2, SMTT(30)
    <3>3. CASE k \in DOMAIN logs
      <4>1. k \in Nat /\ k < nf /\ logs'[k] = logs[k]
        BY <2>2, <2>6, <3>3, Zenon
      <4>2. k < nf + 1 /\ k <= nf
        BY <2>2, <4>1, SMTT(30)
      <4> QED BY <1>2, <3>3, <4>1, <4>2, Zenon
    <3> QED BY <2>6, <3>2, <3>3, Zenon
  <2>10. \A k \in m.add : k < nf + 1
    BY <1>2, <2>2 DEF nf
  <2>11. m.manifest < nf /\ m.manifest < nf + 1 /\ nf < nf + 1
    BY <1>2, <2>2, SMTT(30) DEF nf
  <2>12. Recovering'
    BY <1>1, <1>2, <2>4, <2>7, <2>9, <2>10, <2>11, Zenon DEF Recovering
  <2>13. Switching'
    BY <1>1, <2>4, <2>6, <2>9, <2>11, Zenon DEF Switching
  <2> QED BY <1>1, <2>3, <2>4, <2>6, <2>8, <2>12, <2>13, Zenon DEF CrashInv, Running, Working
<1> QED BY <1>3, <1>4, Zenon

(* The new MANIFEST is written beside the one in use.                       *)
LEMMA OpenNewManifestSafe == CrashInv /\ OpenNewManifest => CrashInv'
<1> SUFFICES ASSUME CrashInv, OpenNewManifest PROVE CrashInv'
  BY Zenon
<1> DEFINE e == Edit(m.add, {}, m.logfile, m.next_file, m.last_sequence)
           s == <<Snapshot(m.version), e>>
           f == Synced(File(s))
<1>1. /\ m.pc = "manifest" /\ job = NoJob /\ job' = NoJob
      /\ UNCHANGED <<logs, tables, current, acked, safe>>
      /\ m' = [m EXCEPT !.pc = "current"]
  BY Idle, Zenon DEF OpenNewManifest, promises
<1>2. manifests' = Updated(manifests, m.manifest, f)
  BY Zenon DEF OpenNewManifest
<1>3. /\ m \in Memory /\ m.manifest \in Nat /\ m.add \in SUBSET Nat /\ m.version \in SUBSET Nat
      /\ m.logfile \in Nat /\ m.next_file \in Nat /\ m.last_sequence \in Nat
  BY Zenon DEF CrashInv, Memory
<1>4. e \in Edits /\ e.numbers
  BY <1>3, EditsTyped, Zenon
<1> HIDE DEF e
<1>5. s \in Seq(Edits)
  BY <1>3, <1>4, ReplaySnapshot, Zenon
<1> HIDE DEF s
<1>6. f \in ManifestFile /\ f.synced <= Len(f.contents)
  <2>1. File(s) \in ManifestFile /\ File(s).contents = s
    BY <1>5, NewFile, Zenon DEF ManifestFile
  <2>2. f \in ManifestFile /\ f.contents = s /\ f.synced = Len(s)
    BY <2>1, SyncedFile, Zenon DEF ManifestFile
  <2>3. Len(s) <= Len(s)
    BY <1>5
  <2> QED BY <2>2, <2>3, Zenon
<1> HIDE DEF f
<1>7. current # 0 /\ HasNumbers(All) /\ m.manifest = Numbers(All).next
  BY <1>1, Zenon DEF CrashInv, Recovering
<1>8. m.manifest # current /\ m.manifest \in Nat \ {0}
  <2>1. Sane(All, tables, current) /\ current \in Nat \ {0}
    BY <1>7, OnDisk, Zenon
  <2> QED BY <1>3, <1>7, <2>1 DEF Sane
<1>9. /\ DOMAIN manifests' = DOMAIN manifests \cup {m.manifest} /\ manifests'[m.manifest] = f
      /\ manifests'[current] = manifests[current]
  BY <1>2, <1>7, <1>8, OnDisk, Zenon DEF Updated
<1>10. FilesOK(logs', manifests', tables')
  BY <1>1, <1>2, <1>6, <1>7, <1>8, OnDisk, ManifestWritten, Zenon
<1>11. \A E \in {All, Few} : HasNumbers(E) => \A k \in Replayed(E) : k \in DOMAIN tables
  BY <1>7, OnDisk, Zenon DEF Sane
<1>12. PromisesKept(logs', manifests', tables', current', acked', safe')
  <2>1. PromisesKept(logs, manifests, tables, current, acked, safe)
    BY <1>7, OnDisk, Zenon
  <2>2. NeededFilesStay(manifests[current], logs, tables, logs, tables)
    BY <1>11, Zenon DEF NeededFilesStay, All, Few
  <2>3. PromisesKept(logs, manifests', tables, current, acked, safe)
    BY <1>9, <2>1, <2>2, PromisesMore, Zenon
  <2> QED BY <1>1, <2>3, Zenon
<1>13. DiskInv'
  BY <1>1, <1>7, <1>9, <1>10, <1>12, Zenon DEF CrashInv, DiskInv
<1>14. m' \in Memory
  BY <1>1, <1>3, Zenon DEF Memory
<1>15. /\ m'.pc = "current" /\ m'.version = m.version /\ m'.log_number = m.log_number
       /\ m'.manifest = m.manifest /\ m'.mem = m.mem /\ m'.imm = m.imm /\ m'.has_imm = m.has_imm
       /\ m'.todo = m.todo /\ m'.add = m.add /\ m'.next_file = m.next_file
       /\ m'.logfile = m.logfile /\ m'.last_sequence = m.last_sequence
  BY <1>1, <1>3, Zenon DEF Memory
<1>16. All' = All
  BY <1>1, <1>9, Zenon DEF All
<1>17. Starting'
  BY <1>1, <1>15, Zenon DEF CrashInv, Starting
<1>18. Recovering'
  BY <1>1, <1>15, <1>16, Zenon DEF CrashInv, Recovering
<1>19. Switching'
  BY <1>1, <1>9, <1>15, Zenon DEF CrashInv, Switching, f, s, e
<1> QED BY <1>1, <1>13, <1>14, <1>15, <1>17, <1>18, <1>19, Zenon DEF CrashInv, Running, Working

(* CURRENT moves to the new MANIFEST: what the old logs hold is in the      *)
(* tables that the new edit adds.                                           *)
LEMMA OpenCurrentSafe == CrashInv /\ OpenCurrent => CrashInv'
<1> SUFFICES ASSUME CrashInv, OpenCurrent PROVE CrashInv'
  BY Zenon
<1> DEFINE e == Edit(m.add, {}, m.logfile, m.next_file, m.last_sequence)
           s == <<Snapshot(m.version), e>>
           f == Synced(File(s))
<1>1. /\ m.pc = "current" /\ job = NoJob /\ job' = NoJob /\ current' = m.manifest
      /\ UNCHANGED <<logs, manifests, tables, acked, safe>>
      /\ m' = [m EXCEPT !.pc = "cleanup", !.version = m.version \cup m.add,
                        !.log_number = m.logfile, !.add = {}]
  BY Idle, Zenon DEF OpenCurrent, promises
<1>2. /\ m \in Memory /\ m.manifest \in Nat /\ m.add \in SUBSET Nat /\ m.version \in SUBSET Nat
      /\ m.logfile \in Nat /\ m.next_file \in Nat /\ m.last_sequence \in Nat
      /\ m.version \cup m.add \in SUBSET Nat /\ m.log_number \in Nat
  BY Zenon DEF CrashInv, Memory
<1>3. /\ e \in Edits /\ e.numbers /\ e.add = m.add /\ e.del = {} /\ e.log = m.logfile
      /\ e.next = m.next_file /\ e.seq = m.last_sequence
  BY <1>2, Zenon DEF Edit, Edits
<1>4. /\ m.manifest \in DOMAIN manifests /\ manifests[m.manifest] = f
      /\ m.todo = {} /\ m.logfile \in DOMAIN logs /\ logs[m.logfile].contents = <<>>
      /\ \A n \in DOMAIN logs : n <= m.logfile
      /\ m.manifest < m.logfile /\ m.logfile < m.next_file
  BY <1>1, Zenon DEF CrashInv, Switching
<1> HIDE DEF e
<1>5. /\ s \in Seq(Edits) /\ HasNumbers(s) /\ Numbers(s) = e
      /\ Replayed(s) = m.version \cup m.add
  BY <1>2, <1>3, ReplaySnapshot
<1> HIDE DEF s
<1>6. f.contents = s /\ Kept(f) = s /\ OneUnsynced(f)
  <2>1. File(s) \in ManifestFile /\ File(s).contents = s
    BY <1>5, NewFile, Zenon DEF ManifestFile
  <2>2. f.contents = s /\ Kept(f) = s /\ f.synced = Len(s)
    BY <2>1, SyncedFile, Zenon DEF ManifestFile
  <2>3. Len(s) <= Len(s) + 1
    BY <1>5
  <2> QED BY <2>2, <2>3, Zenon DEF OneUnsynced
<1> HIDE DEF f
<1>7. /\ current # 0 /\ HasNumbers(All)
      /\ m.version = Replayed(All) /\ m.log_number = Numbers(All).log
      /\ m.manifest = Numbers(All).next /\ m.manifest < m.next_file
      /\ Numbers(All).seq <= m.last_sequence
      /\ \A k \in m.add : /\ k \in DOMAIN tables /\ m.manifest < k /\ k < m.next_file
                          /\ \A x \in tables[k] : x <= m.last_sequence
      /\ \A k \in DOMAIN logs :
           k >= m.log_number => \A x \in Range(logs[k].contents) : \E j \in m.add : x \in tables[j]
  BY <1>1, <1>4, Zenon DEF CrashInv, Recovering
<1>8. \A k \in m.version : /\ k \in DOMAIN tables /\ k < m.next_file
                           /\ \A x \in tables[k] : x <= m.last_sequence
  <2> TAKE k \in m.version
  <2>1. /\ k \in DOMAIN tables /\ k < m.manifest /\ \A x \in tables[k] : x <= Numbers(All).seq
        /\ Numbers(All).seq \in Nat
    BY <1>7, OnDisk, Zenon DEF Sane
  <2>2. k \in Nat /\ tables[k] \in SUBSET Nat
    BY <1>7, <2>1, OnDisk, Zenon DEF FilesOK
  <2>3. k < m.next_file
    BY <1>2, <1>7, <2>1, <2>2, SMTT(30)
  <2>4. \A x \in tables[k] : x <= m.last_sequence
    BY <1>2, <1>7, <2>1, <2>2, SMTT(30)
  <2> QED BY <2>1, <2>3, <2>4, Zenon
<1>9. Sane(s, tables, m.manifest)
  BY <1>2, <1>3, <1>4, <1>5, <1>7, <1>8, Zenon DEF Sane
<1>10. \A x \in acked \cup safe : \E n \in Replayed(s) : x \in tables[n]
  <2>1. \A x \in acked \cup safe :
          \/ \E n \in Replayed(All) : x \in tables[n]
          \/ \E n \in DOMAIN logs : n >= Numbers(All).log /\ x \in Range(logs[n].contents)
    <3>1. \A n \in DOMAIN logs : Range(Kept(logs[n])) \subseteq Range(logs[n].contents)
      BY <1>7, OnDisk, KeptFile, Zenon DEF FilesOK, LogFile
    <3>2. Covered(All, acked, AllIds(logs), tables) /\ Covered(All, safe, KeptIds(logs), tables)
      BY <1>7, OnDisk, Zenon
    <3> QED BY <1>7, <3>1, <3>2, LogIds DEF Covered
  <2> QED BY <1>5, <1>7, <2>1, Zenon
<1>11. /\ Covered(s, acked, AllIds(logs), tables) /\ Covered(s, safe, KeptIds(logs), tables)
  BY <1>5, <1>10, Zenon DEF Covered
<1>12. PromisesKept(logs, manifests, tables, m.manifest, acked, safe)
  <2>1. Numbers(s).next <= Numbers(s).next
    BY <1>2, <1>3, <1>5, SMTT(30)
  <2> QED BY <1>4, <1>6, <1>9, <1>11, <2>1, Zenon DEF PromisesKept
<1>13. m.manifest # 0
  BY <1>4, <1>7, OnDisk, Zenon DEF FilesOK
<1>14. DiskInv'
  BY <1>1, <1>4, <1>12, <1>13, Zenon DEF CrashInv, DiskInv
<1>15. m' \in Memory
  BY <1>1, <1>2, Zenon DEF Memory
<1>16. /\ m'.pc = "cleanup" /\ m'.version = m.version \cup m.add /\ m'.log_number = m.logfile
       /\ m'.manifest = m.manifest /\ m'.mem = m.mem /\ m'.imm = m.imm /\ m'.has_imm = m.has_imm
       /\ m'.next_file = m.next_file /\ m'.logfile = m.logfile
       /\ m'.last_sequence = m.last_sequence
  BY <1>1, <1>2, Zenon DEF Memory
<1>17. All' = s /\ Few' = s
  BY <1>1, <1>4, <1>6, Zenon DEF All, Few
<1>18. m.mem = <<>> /\ m.imm = <<>> /\ ~m.has_imm
  BY <1>1, Zenon DEF CrashInv, Starting
<1>19. \A n \in DOMAIN logs : n < m.next_file /\ (n >= m.logfile => n = m.logfile)
  <2> TAKE n \in DOMAIN logs
  <2>1. n \in Nat /\ n <= m.logfile
    BY <1>4, <1>7, OnDisk, Zenon
  <2> QED BY <1>2, <1>4, <2>1
<1>20. Range(m.mem) = {} /\ Range(m.imm) = {}
  BY <1>18 DEF Range
<1>21. m.logfile <= m.logfile /\ m.next_file <= m.next_file /\ m.last_sequence <= m.last_sequence
  BY <1>2, SMTT(30)
<1>22. Running'
  <2> SUFFICES
        /\ m.manifest # 0 /\ HasNumbers(s)
        /\ m.version \cup m.add = Replayed(s) /\ m.logfile = Numbers(s).log
        /\ Numbers(s).next <= m.next_file /\ Numbers(s).seq <= m.last_sequence
        /\ m.logfile \in DOMAIN logs /\ logs[m.logfile].contents = m.mem
        /\ m.logfile <= m.logfile
        /\ \A n \in DOMAIN logs : n < m.next_file /\ (n >= m.logfile => n \in {m.logfile})
        /\ \A x \in Range(m.mem) \cup Range(m.imm) : x <= m.last_sequence
    BY <1>1, <1>16, <1>17, <1>18, Zenon DEF Running
  <2>1. Numbers(s).next <= m.next_file /\ Numbers(s).seq <= m.last_sequence
    BY <1>3, <1>5, <1>21, Zenon
  <2>2. m.logfile \in DOMAIN logs /\ logs[m.logfile].contents = m.mem
    BY <1>3, <1>4, <1>18, Zenon
  <2>3. \A n \in DOMAIN logs : n < m.next_file /\ (n >= m.logfile => n \in {m.logfile})
    BY <1>19, Zenon
  <2>4. \A x \in Range(m.mem) \cup Range(m.imm) : x <= m.last_sequence
    BY <1>20, Zenon
  <2> QED BY <1>3, <1>4, <1>5, <1>13, <1>21, <2>1, <2>2, <2>3, <2>4, Zenon
<1> QED BY <1>1, <1>14, <1>15, <1>16, <1>22, Zenon DEF CrashInv, Starting, Recovering, Switching, Working
=============================================================================
