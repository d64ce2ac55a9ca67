----------------------------- MODULE Compactions -----------------------------
(***************************************************************************)
(* The levels of LevelDB: memtables, table files, flushes, compactions and *)
(* reads (db/db_impl.cc, db/version_set.cc).  One background thread does   *)
(* flushes and compactions; it gives up the mutex while it merges, so that *)
(* writes, snapshots, reads and a flush come in between.                   *)
(*                                                                         *)
(* An entry is an internal key: a user key, a sequence number, which also  *)
(* stands for the value, and a type.  A table file is the set of its       *)
(* entries.  The sizes of files, which decide when and what to compact,    *)
(* are left open: whatever they may be, every choice is explored.          *)
(***************************************************************************)
EXTENDS Naturals, Sequences, FiniteSets, SequencesExt

CONSTANTS Keys,           \* the user keys, numbers
          MaxSeq,         \* bound on the sequence numbers
          MaxSnapshots,   \* bound on the snapshots held at a time
          NumLevels,      \* config::kNumLevels
          MemLevel,       \* config::kMaxMemCompactLevel
          Manual,         \* whether CompactRange is called
          CutManual,      \* whether CompactRange cuts its inputs by size
          CutKeys,        \* whether an output ends between entries of one key
          GapFlush        \* whether a flush lands amid the inputs of CompactRange

VARIABLES last_sequence,  \* VersionSet::last_sequence_
          written,        \* every entry ever written
          mem, imm,       \* the memtables; imm is empty when there is none
          files,          \* files_ of the current version
          snapshots,      \* DBImpl::snapshots_
          compaction      \* the compaction at work, with its input version

vars == <<last_sequence, written, mem, imm, files, snapshots, compaction>>

kTypeValue == "value"
kTypeDeletion == "deletion"
Entry == [key : Keys, seq : 1 .. MaxSeq, type : {kTypeValue, kTypeDeletion}]
Levels == 0 .. NumLevels - 1
NoCompaction == [level |-> NumLevels]

(* InternalKeyComparator::Compare: by key, and the newest first.            *)
Before(a, b) == a.key < b.key \/ (a.key = b.key /\ a.seq > b.seq)
Sorted(entries) == SetToSortSeq(entries, Before)
Smallest(f) == CHOOSE e \in f : \A x \in f : x = e \/ Before(e, x)
Largest(f) == CHOOSE e \in f : \A x \in f : x = e \/ Before(x, e)

(* The order of file numbers in level 0, which is that of the flushes.      *)
Newer(f, g) == Max({e.seq : e \in f}) > Max({e.seq : e \in g})

(* The order of files_ in a version: BySmallestKey.                         *)
InOrder(fs) ==
  SetToSortSeq(fs, LAMBDA f, g : \/ Before(Smallest(f), Smallest(g))
                                 \/ Smallest(f) = Smallest(g) /\ Newer(g, f))

Overlaps(f, lo, hi) == Largest(f).key >= lo /\ Smallest(f).key <= hi
Lo(fs) == Min({Smallest(f).key : f \in fs})
Hi(fs) == Max({Largest(f).key : f \in fs})

(* Version::OverlapInLevel, SomeFileOverlapsRange                           *)
OverlapInLevel(v, level, lo, hi) == \E f \in v[level] : Overlaps(f, lo, hi)

(* Version::GetOverlappingInputs; in level 0 the range grows with the files *)
GetOverlappingInputs(v, level, lo, hi) ==
  LET Grown[l \in Keys, h \in Keys] ==
        LET fs == {f \in v[level] : Overlaps(f, l, h)}
            nl == Min({l, Lo(fs)})
            nh == Max({h, Hi(fs)})
        IN IF level > 0 \/ fs = {} \/ <<nl, nh>> = <<l, h>> THEN fs ELSE Grown[nl, nh]
  IN Grown[lo, hi]
-----------------------------------------------------------------------------
(* DBImpl::Write with a batch of one update; the log is not modelled here.  *)
Write(key, type) ==
  LET e == [key |-> key, seq |-> last_sequence + 1, type |-> type]
  IN /\ last_sequence < MaxSeq
     /\ last_sequence' = e.seq
     /\ written' = written \cup {e}
     /\ mem' = mem \cup {e}
     /\ UNCHANGED <<imm, files, snapshots, compaction>>

(* MakeRoomForWrite switches to a new memtable.                             *)
SwitchMemTable ==
  /\ mem # {} /\ imm = {}
  /\ imm' = mem
  /\ mem' = {}
  /\ UNCHANGED <<last_sequence, written, files, snapshots, compaction>>

(* Mutant: the overlap is looked for in the next level only.                *)
PickLevelSkips(f) ==
  {level \in 0 .. MemLevel :
     level > 0 => ~OverlapInLevel(files, level, Smallest(f).key, Largest(f).key)}

(* Version::PickLevelForMemTableOutput; the bytes in the level after next   *)
(* may stop it anywhere.                                                    *)
PickLevelForMemTableOutput(f) ==
  {level \in 0 .. MemLevel :
     level > 0 => \A l \in 0 .. level :
                    ~OverlapInLevel(files, l, Smallest(f).key, Largest(f).key)}

(* The keys of f lie among those of the compaction whose outputs, which are *)
(* in no version yet, go to this level.                                     *)
InGap(f, level) ==
  /\ compaction # NoCompaction /\ level = compaction.level + 1
  /\ LET inputs == compaction.inputs[1] \cup compaction.inputs[2]
     IN  Overlaps(f, Lo(inputs), Hi(inputs))

(* CompactMemTable, by BackgroundCompaction or inside DoCompactionWork.     *)
CompactMemTable(level) ==
  /\ imm # {}
  /\ level \in PickLevelForMemTableOutput(imm)
  /\ ~GapFlush => ~InGap(imm, level)
  /\ files' = [files EXCEPT ![level] = @ \cup {imm}]
  /\ imm' = {}
  /\ UNCHANGED <<last_sequence, written, mem, snapshots, compaction>>
-----------------------------------------------------------------------------
(* Mutant: the files of the next level are left alone.                      *)
SetupOtherInputsAlone(level, inputs0, expand) == <<inputs0, {}>>

(* VersionSet::SetupOtherInputs; the sizes may forbid the expansion.        *)
SetupOtherInputs(level, inputs0, expand) ==
  LET inputs1   == GetOverlappingInputs(files, level + 1, Lo(inputs0), Hi(inputs0))
      all       == inputs0 \cup inputs1
      expanded0 == GetOverlappingInputs(files, level, Lo(all), Hi(all))
      expanded1 == GetOverlappingInputs(files, level + 1, Lo(expanded0), Hi(expanded0))
  IN IF /\ expand /\ inputs1 # {}
        /\ Cardinality(expanded0) > Cardinality(inputs0)
        /\ Cardinality(expanded1) = Cardinality(inputs1)
     THEN <<expanded0, expanded1>> ELSE <<inputs0, inputs1>>

(* Mutant: the snapshots are not looked at.                                 *)
SmallestSnapshotLatest == last_sequence

SmallestSnapshot == IF snapshots = {} THEN last_sequence ELSE Min(snapshots)

(* The start of DoCompactionWork, after which the mutex is released.        *)
Begin(level, inputs) ==
  /\ compaction = NoCompaction /\ imm = {}
  /\ compaction' = [level |-> level, inputs |-> inputs, version |-> files,
                    snapshot |-> SmallestSnapshot]
  /\ UNCHANGED <<last_sequence, written, mem, imm, files, snapshots>>

(* VersionSet::PickCompaction: by size or by seeks, a file of any level.    *)
Picked(level, f) ==
  IF level = 0 THEN GetOverlappingInputs(files, 0, Smallest(f).key, Largest(f).key) ELSE {f}

BackgroundCompaction(level, f, expand) ==
  Begin(level, SetupOtherInputs(level, Picked(level, f), expand))

(* Compaction::IsTrivialMove *)
TrivialMove(level, f) ==
  /\ compaction = NoCompaction /\ imm = {}
  /\ SetupOtherInputs(level, Picked(level, f), TRUE) = <<{f}, {}>>
  /\ files' = [files EXCEPT ![level] = @ \ {f}, ![level + 1] = @ \cup {f}]
  /\ UNCHANGED <<last_sequence, written, mem, imm, snapshots, compaction>>

(* VersionSet::CompactRange, called by DBImpl::CompactRange; it may keep    *)
(* only the first of its inputs, in the order of files_.                    *)
CompactRange(level, lo, hi) ==
  LET inputs == GetOverlappingInputs(files, level, lo, hi)
  IN /\ Manual /\ compaction = NoCompaction /\ inputs # {}
     /\ \E kept \in 1 .. Cardinality(inputs) :
          /\ ~CutManual => kept = Cardinality(inputs)
          /\ Begin(level, SetupOtherInputs(level, ToSet(SubSeq(InOrder(inputs), 1, kept)), TRUE))

(* Mutant: only the next level is searched.                                 *)
IsBaseLevelForKeyNext(c, key) ==
  ~OverlapInLevel(c.version, c.level + 1, key, key)

(* Compaction::IsBaseLevelForKey, in the version the compaction started on  *)
IsBaseLevelForKey(c, key) ==
  \A l \in c.level + 2 .. NumLevels - 1 : ~OverlapInLevel(c.version, l, key, key)

(* The entries of the inputs that DoCompactionWork keeps: not those hidden  *)
(* by a newer entry that every snapshot sees (A), nor deletions of nothing. *)
Kept(c) ==
  LET all == UNION (c.inputs[1] \cup c.inputs[2])
      Hidden(e) == \E x \in all : x.key = e.key /\ x.seq > e.seq /\ x.seq <= c.snapshot
      Obsolete(e) == /\ e.type = kTypeDeletion /\ e.seq <= c.snapshot
                     /\ IsBaseLevelForKey(c, e.key)
  IN {e \in all : ~Hidden(e) /\ ~Obsolete(e)}

(* Mutant: an output file is finished although nothing was added to it.     *)
CutsAlways(entries) == {{entries}}

(* The ways to cut the output into files, in the order of the keys.         *)
Cuts(entries) ==
  LET s == Sorted(entries)
      may == {i \in 1 .. Len(s) - 1 : CutKeys \/ s[i].key # s[i + 1].key}
  IN {{{s[i] : i \in {j \in DOMAIN s : {c \in cuts : c < j} = {c \in cuts : c < k}}} :
         k \in DOMAIN s} : cuts \in SUBSET may}

(* The end of DoCompactionWork, InstallCompactionResults, and LogAndApply   *)
FinishCompaction ==
  LET c == compaction
  IN /\ c # NoCompaction
     /\ \E outputs \in Cuts(Kept(c)) :
          files' = [files EXCEPT ![c.level] = @ \ c.inputs[1],
                                 ![c.level + 1] = (@ \ c.inputs[2]) \cup outputs]
     /\ compaction' = NoCompaction
     /\ UNCHANGED <<last_sequence, written, mem, imm, snapshots>>

(* An error, or shutting_down_: CleanupCompaction drops the outputs.        *)
AbandonCompaction ==
  /\ compaction # NoCompaction
  /\ compaction' = NoCompaction
  /\ UNCHANGED <<last_sequence, written, mem, imm, files, snapshots>>

GetSnapshot ==
  /\ Cardinality(snapshots) < MaxSnapshots
  /\ last_sequence \notin snapshots
  /\ snapshots' = snapshots \cup {last_sequence}
  /\ UNCHANGED <<last_sequence, written, mem, imm, files, compaction>>

ReleaseSnapshot(s) ==
  /\ snapshots' = snapshots \ {s}
  /\ UNCHANGED <<last_sequence, written, mem, imm, files, compaction>>
-----------------------------------------------------------------------------
(* What a table or a memtable holds for a key at a snapshot.                *)
Visible(entries, key, s) ==
  LET es == {e \in entries : e.key = key /\ e.seq <= s}
  IN IF es = {} THEN {} ELSE {CHOOSE e \in es : \A x \in es : x.seq <= e.seq}

(* FindFile: the first file whose largest key is not before the target.     *)
FindFile(fs, target) ==
  LET s == InOrder(fs)
      Search[left \in 0 .. Len(s), right \in 0 .. Len(s)] ==
        LET mid == (left + right) \div 2
        IN IF left >= right THEN right
           ELSE IF Before(Largest(s[mid + 1]), target) THEN Search[mid + 1, right]
           ELSE Search[left, mid]
      index == Search[0, Len(s)] + 1
  IN IF index > Len(s) THEN <<>> ELSE <<s[index]>>

(* The tables Version::Get looks into in one level, in order.               *)
Candidates(level, key, s) ==
  IF level = 0
  THEN SetToSortSeq({f \in files[0] : Overlaps(f, key, key)}, Newer)
  ELSE SelectSeq(FindFile(files[level], [key |-> key, seq |-> s]),
                 LAMBDA f : Smallest(f).key <= key)

(* DBImpl::Get and Version::Get: the first table that has the key decides.  *)
Get(key, s) ==
  LET tables == <<mem, imm>> \o
                FlattenSeq([i \in 1 .. NumLevels |-> Candidates(i - 1, key, s)])
      hits   == SelectSeq(tables, LAMBDA t : Visible(t, key, s) # {})
  IN IF hits = <<>> THEN {}
     ELSE {e \in Visible(Head(hits), key, s) : e.type = kTypeValue}

(* What a merging iterator over all the tables sees.                        *)
Scan(key, s) ==
  LET all == mem \cup imm \cup UNION UNION {files[l] : l \in Levels}
  IN {e \in Visible(all, key, s) : e.type = kTypeValue}
-----------------------------------------------------------------------------
Init ==
  /\ last_sequence = 0 /\ written = {}
  /\ mem = {} /\ imm = {}
  /\ files = [l \in Levels |-> {}]
  /\ snapshots = {} /\ compaction = NoCompaction

Next ==
  \/ \E key \in Keys, type \in {kTypeValue, kTypeDeletion} : Write(key, type)
  \/ SwitchMemTable \/ FinishCompaction \/ AbandonCompaction \/ GetSnapshot
  \/ \E level \in Levels : CompactMemTable(level)
  \/ \E level \in 0 .. NumLevels - 2 : \E f \in files[level] :
       TrivialMove(level, f) \/ \E expand \in BOOLEAN : BackgroundCompaction(level, f, expand)
  \/ \E level \in 0 .. NumLevels - 2, lo \in Keys, hi \in Keys :
       CompactRange(level, lo, hi)
  \/ \E s \in snapshots : ReleaseSnapshot(s)

Spec == Init /\ [][Next]_vars
-----------------------------------------------------------------------------
TypeOK ==
  /\ last_sequence \in 0 .. MaxSeq
  /\ written \subseteq Entry /\ mem \subseteq Entry /\ imm \subseteq Entry
  /\ \A l \in Levels : \A f \in files[l] : f # {} /\ f \subseteq Entry
  /\ snapshots \subseteq 0 .. MaxSeq

(***************************************************************************)
(* Version::Get stops at the first table that has the key: at the latest   *)
(* sequence number and at every snapshot it returns what was written last, *)
(* whatever has been flushed to which level, compacted, moved or dropped,  *)
(* and while a compaction is at work.                                      *)
(***************************************************************************)
ReadsLatest ==
  \A key \in Keys, s \in snapshots \cup {last_sequence} :
    Get(key, s) = {e \in Visible(written, key, s) : e.type = kTypeValue}

(***************************************************************************)
(* An iterator merges all the tables and takes the newest entry: no        *)
(* compaction drops an entry that a snapshot needs, or a deletion that     *)
(* still hides something.                                                  *)
(***************************************************************************)
ScansLatest ==
  \A key \in Keys, s \in snapshots \cup {last_sequence} :
    Scan(key, s) = {e \in Visible(written, key, s) : e.type = kTypeValue}

(***************************************************************************)
(* The assertion of VersionSet::Builder::MaybeAddFile: in the levels above *)
(* 0 the files of a version do not overlap, although a flush may put a new *)
(* file there while a compaction is writing others.                        *)
(***************************************************************************)
LevelsDisjoint ==
  \A l \in Levels \ {0} : \A f, g \in files[l] :
    f # g => Before(Largest(f), Smallest(g)) \/ Before(Largest(g), Smallest(f))
=============================================================================
