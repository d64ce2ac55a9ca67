----------------------------- MODULE Iterators ------------------------------
(***************************************************************************)
(* LevelDB's iterators on top of one another, while a writer goes on:      *)
(* DBIter (db/db_iter.cc) over a MergingIterator (table/merger.cc) over an *)
(* iterator of the memtable, which may grow, and a TwoLevelIterator        *)
(* (table/two_level_iterator.cc) over the tables of one level              *)
(* (LevelFileNumIterator of db/version_set.cc).  A table may be unreadable *)
(* when it is opened (NewErrorIterator).                                   *)
(***************************************************************************)
EXTENDS Integers, Sequences, FiniteSets, SequencesExt

CONSTANTS Keys,        \* user keys
          LastSeq,     \* sequence numbers of the entries there are at first
          MaxWrites,   \* bound on the entries written while the iterator exists
          Faults       \* whether tables can be unreadable

VARIABLES mem,         \* the entries of the memtable
          tables,      \* the tables of the level, each a sequence of entries
          bad,         \* tables that cannot be read
          snapshot,    \* sequence_
          merged,      \* the MergingIterator and its children
          db,          \* the DBIter
          call         \* the last call, with its argument

vars == <<mem, tables, bad, snapshot, merged, db, call>>

None == [key |-> 0, seq |-> 0, del |-> FALSE]
Entries(seqs) == [key : Keys, seq : seqs, del : BOOLEAN]

(* InternalKeyComparator: by user key, then by decreasing sequence number.  *)
Less(a, b) == a.key < b.key \/ (a.key = b.key /\ a.seq > b.seq)

Smallest(S) == IF S = {} THEN None ELSE CHOOSE e \in S : \A f \in S : ~Less(f, e)
Largest(S) == IF S = {} THEN None ELSE CHOOSE e \in S : \A f \in S : ~Less(e, f)

-----------------------------------------------------------------------------
(* The iterator of the memtable: where it is, None when not valid.          *)
MemSeek(target) == Smallest({e \in mem : ~Less(e, target)})
MemNext(e) == Smallest({f \in mem : Less(e, f)})
MemPrev(e) == Largest({f \in mem : Less(f, e)})

-----------------------------------------------------------------------------
(* TwoLevelIterator: index_iter_ at table i (one past the last: not valid), *)
(* data_iter_ on table d (0: NULL) at position p (0: not valid), and        *)
(* whether an error was met.                                                *)
RECURSIVE SkipEmptyDataBlocksForward(_), SkipEmptyDataBlocksBackward(_)

IndexValid(t) == t.i <= Len(tables)

(* Mutant: the status of the iterator given up is lost.                     *)
SaveErrorNot(t) == t.err

SaveError(t) == t.err \/ t.d \in bad

SetDataIterator(t, d) == [t EXCEPT !.d = d, !.p = 0, !.err = SaveError(t)]

InitDataBlock(t) ==
  IF ~IndexValid(t) THEN SetDataIterator(t, 0)
  ELSE IF t.d = t.i THEN t
  ELSE SetDataIterator(t, t.i)

Readable(t) == t.d # 0 /\ t.d \notin bad
DataSeekToFirst(t) == IF Readable(t) THEN [t EXCEPT !.p = 1] ELSE t
DataSeekToLast(t) == IF Readable(t) THEN [t EXCEPT !.p = Len(tables[t.d])] ELSE t
DataSeek(t, target) ==
  IF Readable(t)
  THEN [t EXCEPT !.p = SelectInSeq(tables[t.d], LAMBDA e : ~Less(e, target))]
  ELSE t
DataNext(t) == [t EXCEPT !.p = IF @ = Len(tables[t.d]) THEN 0 ELSE @ + 1]
DataPrev(t) == [t EXCEPT !.p = @ - 1]

SkipEmptyDataBlocksForward(t) ==
  IF t.d # 0 /\ t.p # 0 THEN t
  ELSE IF ~IndexValid(t) THEN SetDataIterator(t, 0)
  ELSE SkipEmptyDataBlocksForward(DataSeekToFirst(InitDataBlock([t EXCEPT !.i = @ + 1])))

IndexPrev(t) == [t EXCEPT !.i = IF @ = 1 THEN Len(tables) + 1 ELSE @ - 1]

SkipEmptyDataBlocksBackward(t) ==
  IF t.d # 0 /\ t.p # 0 THEN t
  ELSE IF ~IndexValid(t) THEN SetDataIterator(t, 0)
  ELSE SkipEmptyDataBlocksBackward(DataSeekToLast(InitDataBlock(IndexPrev(t))))

(* FindFile: the first table whose largest key is not below the target.     *)
FindFile(target) ==
  LET n == SelectInSeq(tables, LAMBDA s : ~Less(Last(s), target))
  IN  IF n = 0 THEN Len(tables) + 1 ELSE n

LevelSeek(t, target) ==
  SkipEmptyDataBlocksForward(DataSeek(InitDataBlock([t EXCEPT !.i = FindFile(target)]), target))
LevelSeekToFirst(t) ==
  SkipEmptyDataBlocksForward(DataSeekToFirst(InitDataBlock([t EXCEPT !.i = 1])))
LevelSeekToLast(t) ==
  SkipEmptyDataBlocksBackward(DataSeekToLast(InitDataBlock(
    [t EXCEPT !.i = IF tables = <<>> THEN 1 ELSE Len(tables)])))
LevelNext(t) == SkipEmptyDataBlocksForward(DataNext(t))
LevelPrev(t) == SkipEmptyDataBlocksBackward(DataPrev(t))
LevelEntry(t) == IF t.d # 0 /\ t.p # 0 THEN tables[t.d][t.p] ELSE None
LevelError(t) == t.err \/ t.d \in bad

-----------------------------------------------------------------------------
(* MergingIterator: children 1 (memtable) and 2 (level), current_ (0: NULL).*)
ChildEntry(m, c) == IF c = 1 THEN m.mem ELSE LevelEntry(m.level)
ChildValid(m, c) == ChildEntry(m, c) # None
ChildSeek(m, c, target) ==
  IF c = 1 THEN [m EXCEPT !.mem = MemSeek(target)]
  ELSE [m EXCEPT !.level = LevelSeek(@, target)]
ChildSeekToFirst(m, c) ==
  IF c = 1 THEN [m EXCEPT !.mem = Smallest(mem)]
  ELSE [m EXCEPT !.level = LevelSeekToFirst(@)]
ChildSeekToLast(m, c) ==
  IF c = 1 THEN [m EXCEPT !.mem = Largest(mem)]
  ELSE [m EXCEPT !.level = LevelSeekToLast(@)]
ChildNext(m, c) ==
  IF c = 1 THEN [m EXCEPT !.mem = MemNext(@)] ELSE [m EXCEPT !.level = LevelNext(@)]
ChildPrev(m, c) ==
  IF c = 1 THEN [m EXCEPT !.mem = MemPrev(@)] ELSE [m EXCEPT !.level = LevelPrev(@)]

FindSmallest(m) ==
  LET valid == {c \in {1, 2} : ChildValid(m, c)}
  IN  [m EXCEPT !.current = IF valid = {} THEN 0
         ELSE CHOOSE c \in valid : \A o \in valid : ~Less(ChildEntry(m, o), ChildEntry(m, c))]

FindLargest(m) ==
  LET valid == {c \in {1, 2} : ChildValid(m, c)}
  IN  [m EXCEPT !.current = IF valid = {} THEN 0
         ELSE CHOOSE c \in valid : \A o \in valid : ~Less(ChildEntry(m, c), ChildEntry(m, o))]

Valid(m) == m.current # 0
Entry(m) == ChildEntry(m, m.current)

MergedSeekToFirst(m) ==
  [FindSmallest(ChildSeekToFirst(ChildSeekToFirst(m, 1), 2)) EXCEPT !.forward = TRUE]
MergedSeekToLast(m) ==
  [FindLargest(ChildSeekToLast(ChildSeekToLast(m, 1), 2)) EXCEPT !.forward = FALSE]
MergedSeek(m, target) ==
  [FindSmallest(ChildSeek(ChildSeek(m, 1, target), 2, target)) EXCEPT !.forward = TRUE]

(* The other child is put after, or before, the current entry.              *)
After(m) ==
  LET other == 3 - m.current
      n == ChildSeek(m, other, Entry(m))
  IN  IF ChildEntry(n, other) = Entry(m) THEN ChildNext(n, other) ELSE n

(* Mutant: the other child is not moved when the direction changes.         *)
BeforeStays(m) == m

Before(m) ==
  LET other == 3 - m.current
      n == ChildSeek(m, other, Entry(m))
  IN  IF ChildValid(n, other) THEN ChildPrev(n, other) ELSE ChildSeekToLast(n, other)

MergedNext(m) ==
  LET n == IF m.forward THEN m ELSE [After(m) EXCEPT !.forward = TRUE]
  IN  FindSmallest(ChildNext(n, n.current))
MergedPrev(m) ==
  LET n == IF m.forward THEN [Before(m) EXCEPT !.forward = FALSE] ELSE m
  IN  FindLargest(ChildPrev(n, n.current))

-----------------------------------------------------------------------------
(* DBIter: each call gives the merged iterator and the DBIter after it.     *)
RECURSIVE FindNextUserEntry(_, _), ScanBack(_, _), FindPrevUserEntry(_, _)

Invalid == [valid |-> FALSE, forward |-> TRUE, key |-> 0, value |-> 0]
End(m) == [m |-> m, db |-> Invalid]
Yield(m) == [m |-> m, db |-> [valid |-> TRUE, forward |-> TRUE,
                              key |-> Entry(m).key, value |-> Entry(m).seq]]

(* Mutant: entries written after the snapshot are seen.                     *)
SeenAll(e) == e # None

Seen(e) == e.seq <= snapshot

(* Mutant: the entries under a deletion are not hidden by it.               *)
HidesNothing(skip, e) == skip

Hides(skip, e) == e.key

(* skip = 0: nothing to skip.                                               *)
FindNextUserEntry(m, skip) ==
  IF ~Valid(m) THEN End(m)
  ELSE LET e == Entry(m)
       IN  IF Seen(e) /\ e.del
           THEN FindNextUserEntry(MergedNext(m), Hides(skip, e))
           ELSE IF Seen(e) /\ e.key > skip THEN Yield(m)
           ELSE FindNextUserEntry(MergedNext(m), skip)

(* saved is what the entries met so far leave in saved_key_, saved_value_   *)
(* and value_type; None after a deletion.                                   *)
FindPrevUserEntry(m, saved) ==
  IF Valid(m) /\ ~(Seen(Entry(m)) /\ saved # None /\ Entry(m).key < saved.key)
  THEN FindPrevUserEntry(MergedPrev(m),
         IF ~Seen(Entry(m)) THEN saved
         ELSE IF Entry(m).del THEN None ELSE Entry(m))
  ELSE IF saved = None THEN End(m)
  ELSE [m |-> m, db |-> [valid |-> TRUE, forward |-> FALSE,
                         key |-> saved.key, value |-> saved.seq]]

DBSeek(k) ==
  FindNextUserEntry(MergedSeek(merged, [key |-> k, seq |-> snapshot, del |-> FALSE]), 0)
DBSeekToFirst == FindNextUserEntry(MergedSeekToFirst(merged), 0)
DBSeekToLast == FindPrevUserEntry(MergedSeekToLast(merged), None)

(* Back to the forward direction: step into the entries of the current key. *)
IntoCurrent ==
  IF db.forward THEN merged
  ELSE IF Valid(merged) THEN MergedNext(merged)
  ELSE MergedSeekToFirst(merged)

DBNext ==
  IF Valid(IntoCurrent)
  THEN FindNextUserEntry(IntoCurrent, Entry(IntoCurrent).key)
  ELSE End(IntoCurrent)

(* Before all the entries of the current key.                               *)
ScanBack(m, key) ==
  LET n == MergedPrev(m) IN IF Valid(n) /\ Entry(n).key >= key THEN ScanBack(n, key) ELSE n

BeforeCurrent == IF db.forward THEN ScanBack(merged, db.key) ELSE merged

DBPrev ==
  IF db.forward /\ ~Valid(BeforeCurrent)
  THEN End(BeforeCurrent)
  ELSE FindPrevUserEntry(BeforeCurrent, None)

-----------------------------------------------------------------------------
(* Entries in key order, cut into tables anywhere.                          *)
Sorted(S) == SetToSortSeq(S, Less)
Cuts(s) ==
  {[i \in 1 .. Cardinality(C) |->
      LET ends == SetToSortSeq(C, <)
      IN  SubSeq(s, (IF i = 1 THEN 0 ELSE ends[i - 1]) + 1, ends[i])] :
        C \in {D \in SUBSET (1 .. Len(s)) : Len(s) \in D \cup {0}}}

Init ==
  \E ops \in [1 .. LastSeq -> Keys \X BOOLEAN], flushed \in 0 .. LastSeq :
    LET E(seqs) == {[key |-> ops[n][1], seq |-> n, del |-> ops[n][2]] : n \in seqs}
    IN  /\ mem = E(flushed + 1 .. LastSeq)
        /\ tables \in Cuts(Sorted(E(1 .. flushed)))
        /\ bad \in SUBSET (IF Faults THEN DOMAIN tables ELSE {})
        /\ snapshot \in 0 .. LastSeq
        /\ merged = [mem |-> None, level |-> [i |-> Len(tables) + 1, d |-> 0, p |-> 0, err |-> FALSE],
                     current |-> 0, forward |-> TRUE]
        /\ db = Invalid
        /\ call = [op |-> "New", key |-> 0]

Do(op, key, result) ==
  /\ merged' = result.m /\ db' = result.db
  /\ call' = [op |-> op, key |-> key]
  /\ UNCHANGED <<mem, tables, bad, snapshot>>

Seek(k) == Do("Seek", k, DBSeek(k))
SeekToFirst == Do("SeekToFirst", 0, DBSeekToFirst)
SeekToLast == Do("SeekToLast", 0, DBSeekToLast)
Next_ == db.valid /\ Do("Next", 0, DBNext)
Prev == db.valid /\ Do("Prev", 0, DBPrev)

AllEntries == mem \cup UNION {ToSet(tables[i]) : i \in DOMAIN tables}

(* A writer adds an entry newer than all, which the iterator is not to see. *)
Write(k, del) ==
  LET n == Cardinality(AllEntries) + 1
  IN  /\ n <= LastSeq + MaxWrites
      /\ mem' = mem \cup {[key |-> k, seq |-> n, del |-> del]}
      /\ call' = [op |-> "Write", key |-> k]
      /\ UNCHANGED <<tables, bad, snapshot, merged, db>>

Next ==
  \/ \E k \in Keys : Seek(k)
  \/ SeekToFirst \/ SeekToLast \/ Next_ \/ Prev
  \/ \E k \in Keys, del \in BOOLEAN : Write(k, del)

Spec == Init /\ [][Next]_vars

-----------------------------------------------------------------------------
TypeOK ==
  /\ mem \subseteq Entries(1 .. LastSeq + MaxWrites)
  /\ bad \subseteq DOMAIN tables
  /\ merged.current \in 0 .. 2
  /\ db.valid => db.key \in Keys /\ db.value \in 1 .. snapshot

(* What the database held at the snapshot: key -> its newest entry.         *)
Newest(k) == Smallest({e \in AllEntries : e.key = k /\ e.seq <= snapshot})
Visible == {k \in Keys : Newest(k) # None /\ ~Newest(k).del}

Position(it, S, first) ==
  IF S = {} THEN ~it.valid
  ELSE /\ it.valid
       /\ it.key \in S
       /\ \A k \in S : IF first THEN it.key <= k ELSE it.key >= k

Expected ==
  CASE call'.op = "Seek" -> Position(db', {k \in Visible : k >= call'.key}, TRUE)
    [] call'.op = "SeekToFirst" -> Position(db', Visible, TRUE)
    [] call'.op = "SeekToLast" -> Position(db', Visible, FALSE)
    [] call'.op = "Next" -> Position(db', {k \in Visible : k > db.key}, TRUE)
    [] call'.op = "Prev" -> Position(db', {k \in Visible : k < db.key}, FALSE)
    [] OTHER -> TRUE

(* A move to the next entry that turned around, with an entry newer than    *)
(* the snapshot at a smaller key: it may stay where it was.                 *)
TurnedAround ==
  /\ call'.op = "Next" /\ ~db.forward /\ db'.key = db.key
  /\ \E e \in AllEntries : e.seq > snapshot /\ e.key < db.key

(* Every call of DBIter ends where iterator.h says, on the contents of the  *)
(* database at the snapshot, whatever has been written since; except for    *)
(* the case above.                                                          *)
IteratesSnapshot == bad = {} => Expected \/ TurnedAround

(* The same without exception: iterator.h on every call.                    *)
IteratesAsDocumented == bad = {} => Expected

(* The value read is the newest one of the key at the snapshot.             *)
ValueOfSnapshot == db.valid /\ bad = {} => Newest(db.key).seq = db.value

(* When an unreadable table makes a call end elsewhere, status() tells.     *)
ErrorsReported == Expected \/ TurnedAround \/ LevelError(merged'.level)
=============================================================================
