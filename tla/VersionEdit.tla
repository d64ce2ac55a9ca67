----------------------------- MODULE VersionEdit ----------------------------
(***************************************************************************)
(* What the descriptor log says and what it is read back as: the encoding  *)
(* of VersionEdit (db/version_edit.cc, util/coding.cc) and the Builder of  *)
(* db/version_set.cc.  A running database applies each edit to the current *)
(* version with a Builder of its own; Recover applies all the edits of the *)
(* log with one Builder that starts from nothing.                          *)
(* Bytes are numbers below 2 * Radix, those from Radix up having the bit   *)
(* that says more follow (Radix is 128 in the code).  The encoding of an   *)
(* internal key is two bytes here.                                         *)
(***************************************************************************)
EXTENDS Integers, Sequences, FiniteSets, SequencesExt, FiniteSetsExt

CONSTANTS Radix,
          MaxBytes,     \* bytes a varint may have (5 or 10 in the code)
          kNumLevels,
          MaxKey,       \* bound: keys are 1 .. MaxKey
          MaxNumber     \* bound on file numbers

VARIABLES current,           \* level -> files of the current version, in order
          compact_pointer_,  \* level -> key; 0: none
          vset,              \* the numbers an edit carries
          manifest,          \* records of the descriptor log
          edit,              \* the edit of the last record
          installed          \* compact pointers as of the last edits logged

vars == <<current, compact_pointer_, vset, manifest, edit, installed>>

Levels == 0 .. kNumLevels - 1
Keys == 1 .. MaxKey

kComparator == 1
kLogNumber == 2
kNextFileNumber == 3
kLastSequence == 4
kCompactPointer == 5
kDeletedFile == 6
kNewFile == 7
kPrevLogNumber == 9

None == -1
NoEdit == [comparator |-> None, log |-> None, prev |-> None, next |-> None, last |-> None,
           pointers |-> <<>>, deleted |-> {}, new |-> <<>>]

-----------------------------------------------------------------------------
(* util/coding.cc                                                           *)
RECURSIVE PutVarint(_)
PutVarint(v) == IF v < Radix THEN <<v>> ELSE <<Radix + (v % Radix)>> \o PutVarint(v \div Radix)

PutSlice(s) == PutVarint(Len(s)) \o s

Fails == [ok |-> FALSE, value |-> 0, rest |-> <<>>]
Yields(v, rest) == [ok |-> TRUE, value |-> v, rest |-> rest]

RECURSIVE VarintFrom(_, _)
VarintFrom(s, bytes) ==
  IF bytes = MaxBytes \/ s = <<>> THEN Fails
  ELSE IF Head(s) < Radix THEN Yields(Head(s), Tail(s))
  ELSE LET more == VarintFrom(Tail(s), bytes + 1)
       IN  IF more.ok THEN Yields(Head(s) - Radix + Radix * more.value, more.rest) ELSE Fails

GetVarint(s) == VarintFrom(s, 0)

GetSlice(s) ==
  LET len == GetVarint(s)
  IN  IF len.ok /\ Len(len.rest) >= len.value
      THEN Yields(SubSeq(len.rest, 1, len.value), SubSeq(len.rest, len.value + 1, Len(len.rest)))
      ELSE Fails

-----------------------------------------------------------------------------
(* db/version_edit.cc.  InternalKey::Encode and DecodeFrom                  *)
KeyBytes(k) == <<k, k>>
KeyOf(bytes) == IF bytes = <<>> THEN 0 ELSE Head(bytes)

(* The fields of an edit in the order EncodeTo writes them.                 *)
Scalar(tag, v) == IF v = None THEN <<>> ELSE <<PutVarint(tag) \o PutVarint(v)>>
FilesBefore(a, b) == a[1] < b[1] \/ (a[1] = b[1] /\ a[2] < b[2])

Fields(e) ==
  (IF e.comparator = None THEN <<>> ELSE <<PutVarint(kComparator) \o PutSlice(<<e.comparator>>)>>)
  \o Scalar(kLogNumber, e.log)
  \o Scalar(kPrevLogNumber, e.prev)
  \o Scalar(kNextFileNumber, e.next)
  \o Scalar(kLastSequence, e.last)
  \o [i \in DOMAIN e.pointers |->
        PutVarint(kCompactPointer) \o PutVarint(e.pointers[i][1]) \o PutSlice(KeyBytes(e.pointers[i][2]))]
  \o [i \in 1 .. Cardinality(e.deleted) |->
        LET d == SetToSortSeq(e.deleted, FilesBefore)[i]
        IN  PutVarint(kDeletedFile) \o PutVarint(d[1]) \o PutVarint(d[2])]
  \o [i \in DOMAIN e.new |->
        LET f == e.new[i][2]
        IN  PutVarint(kNewFile) \o PutVarint(e.new[i][1]) \o PutVarint(f.number)
            \o PutVarint(f.file_size) \o PutSlice(KeyBytes(f.smallest)) \o PutSlice(KeyBytes(f.largest))]

EncodeTo(e) == FlattenSeq(Fields(e))

(* What DecodeFrom reads after a tag; <<>>: the tag is unknown.             *)
Shape(tag) ==
  CASE tag = kComparator -> <<"slice">>
    [] tag \in {kLogNumber, kPrevLogNumber, kNextFileNumber, kLastSequence} -> <<"number">>
    [] tag = kCompactPointer -> <<"level", "slice">>
    [] tag = kDeletedFile -> <<"level", "number">>
    [] tag = kNewFile -> <<"level", "number", "number", "slice", "slice">>
    [] OTHER -> <<>>

GetLevel(s) ==
  LET v == GetVarint(s) IN IF v.ok /\ v.value < kNumLevels THEN v ELSE Fails

GetPart(part, s) ==
  CASE part = "slice" -> GetSlice(s)
    [] part = "level" -> GetLevel(s)
    [] part = "number" -> GetVarint(s)

RECURSIVE GetParts(_, _)
GetParts(shape, s) ==
  IF shape = <<>> THEN Yields(<<>>, s)
  ELSE LET first == GetPart(Head(shape), s)
       IN  IF ~first.ok THEN Fails
           ELSE LET others == GetParts(Tail(shape), first.rest)
                IN  IF others.ok THEN Yields(<<first.value>> \o others.value, others.rest) ELSE Fails

SetField(e, tag, v) ==
  CASE tag = kComparator -> [e EXCEPT !.comparator = Head(v[1])]
    [] tag = kLogNumber -> [e EXCEPT !.log = v[1]]
    [] tag = kPrevLogNumber -> [e EXCEPT !.prev = v[1]]
    [] tag = kNextFileNumber -> [e EXCEPT !.next = v[1]]
    [] tag = kLastSequence -> [e EXCEPT !.last = v[1]]
    [] tag = kCompactPointer -> [e EXCEPT !.pointers = Append(@, <<v[1], KeyOf(v[2])>>)]
    [] tag = kDeletedFile -> [e EXCEPT !.deleted = @ \union {<<v[1], v[2]>>}]
    [] tag = kNewFile ->
         [e EXCEPT !.new = Append(@, <<v[1], [number |-> v[2], file_size |-> v[3],
                                              smallest |-> KeyOf(v[4]), largest |-> KeyOf(v[5])]>>)]

(* Mutant: what is left is not looked at.                                   *)
NothingLeftNot(s) == TRUE

NothingLeft(s) == s = <<>>

(* DecodeFrom: the loop over tags; what is left must be nothing.            *)
RECURSIVE DecodeFields(_, _)
DecodeFields(e, s) ==
  LET tag == GetVarint(s)
      parts == GetParts(Shape(tag.value), tag.rest)
  IN  IF ~tag.ok THEN [ok |-> NothingLeft(s), edit |-> e]
      ELSE IF Shape(tag.value) = <<>> \/ ~parts.ok THEN [ok |-> FALSE, edit |-> e]
      ELSE DecodeFields(SetField(e, tag.value, parts.value), parts.rest)

DecodeFrom(src) == DecodeFields(NoEdit, src)

-----------------------------------------------------------------------------
(* VersionSet::Builder.  Mutant: files are ordered by number.               *)
ByNumber(f, g) == f.number < g.number

BySmallestKey(f, g) ==
  f.smallest < g.smallest \/ (f.smallest = g.smallest /\ f.number < g.number)

BuilderOn(base, pointers) ==
  [base |-> base, pointers |-> pointers,
   deleted |-> [l \in Levels |-> {}], added |-> [l \in Levels |-> {}]]

NewAt(e, l) == {e.new[i][2] : i \in {j \in DOMAIN e.new : e.new[j][1] = l}}

(* Apply: deletions first, and a file that is added is not deleted.         *)
Apply(b, e) ==
  [b EXCEPT
     !.pointers = FoldLeft(LAMBDA p, c : [p EXCEPT ![c[1]] = c[2]], @, e.pointers),
     !.deleted = [l \in Levels |-> (@[l] \union {d[2] : d \in {x \in e.deleted : x[1] = l}})
                                   \ {f.number : f \in NewAt(e, l)}],
     !.added = [l \in Levels |-> @[l] \union NewAt(e, l)]]

(* The files of base that are not larger go before each file that is added. *)
RECURSIVE Merged(_, _)
Merged(base, added) ==
  IF added = <<>> THEN base
  ELSE LET n == Cardinality({i \in DOMAIN base : ~BySmallestKey(Head(added), base[i])})
       IN  SubSeq(base, 1, n) \o <<Head(added)>> \o Merged(SubSeq(base, n + 1, Len(base)), Tail(added))

(* Mutant: only files of the base version are looked up in deleted_files.   *)
MaybeAddFileBase(b, l, f) == f \in b.added[l] \/ f.number \notin b.deleted[l]

MaybeAddFile(b, l, f) == f.number \notin b.deleted[l]

SaveTo(b) ==
  [l \in Levels |-> SelectSeq(Merged(b.base[l], SetToSortSeq(b.added[l], BySmallestKey)),
                              LAMBDA f : MaybeAddFile(b, l, f))]

NoFiles == [l \in Levels |-> <<>>]
NoPointers == [l \in Levels |-> 0]

(* The version and the pointers that the records of a log lead to.          *)
Replay(log) ==
  LET b == FoldLeft(LAMBDA x, r : Apply(x, DecodeFrom(r).edit), BuilderOn(NoFiles, NoPointers), log)
  IN  [files |-> SaveTo(b), pointers |-> b.pointers]

-----------------------------------------------------------------------------
(* LogAndApply: the edit gets the numbers, is applied and is written.       *)
Install(b, e, vs) ==
  /\ current' = SaveTo(b)
  /\ compact_pointer_' = b.pointers
  /\ installed' = FoldLeft(LAMBDA p, c : [p EXCEPT ![c[1]] = c[2]], installed, e.pointers)
  /\ manifest' = Append(manifest, EncodeTo(e))
  /\ edit' = e
  /\ vset' = vs

Logged(e, vs) == Install(Apply(BuilderOn(current, compact_pointer_), e), e, vs)

LogAndApply(e, vs) ==
  Logged([e EXCEPT !.log = vs.log, !.prev = 0, !.next = vs.next, !.last = vs.last], vs)

Files(l) == ToSet(current[l])
Overlaps(f, lo, hi) == f.smallest <= hi /\ lo <= f.largest
File(n, lo, hi) == [number |-> n, file_size |-> hi - lo + 1, smallest |-> lo, largest |-> hi]

(* A memtable becomes a table of level 0 or of a level below at which, as   *)
(* at those above it, nothing overlaps; its log is no longer needed.        *)
WriteLevel0Table(l, lo, hi) ==
  /\ vset.next + 1 < MaxNumber
  /\ \A k \in 0 .. l : l > 0 => \A f \in Files(k) : ~Overlaps(f, lo, hi)
  /\ LogAndApply([NoEdit EXCEPT !.new = <<<<l, File(vset.next + 1, lo, hi)>>>>],
                 [log |-> vset.next, next |-> vset.next + 2, last |-> vset.last + 1])

LowestOf(fs) == Min({f.smallest : f \in fs})
HighestOf(fs) == Max({f.largest : f \in fs})
ClosedIn(S, fs) == \A f \in fs : Overlaps(f, LowestOf(S), HighestOf(S)) => f \in S

(* What a compaction may take from a level: files and, with them, all those *)
(* of the level that their range overlaps (GetOverlappingInputs).           *)
InputSets(l) == {S \in (SUBSET Files(l)) \ {{}} : ClosedIn(S, Files(l))}

(* What a compaction leaves of a range: nothing, a file, or a file on each  *)
(* side of a cut.                                                           *)
Outputs(lo, hi) ==
  {<<>>, <<File(vset.next, lo, hi)>>}
  \union {<<File(vset.next, lo, c), File(vset.next + 1, c + 1, hi)>> : c \in lo .. hi - 1}

(* A compaction of the files in0 of a level; a single one may be moved.     *)
Compact(l, in0) ==
  LET in1 == {g \in Files(l + 1) : Overlaps(g, LowestOf(in0), HighestOf(in0))}
      e == [NoEdit EXCEPT !.pointers = <<<<l, HighestOf(in0)>>>>,
                          !.deleted = {<<l, g.number>> : g \in in0} \union {<<l + 1, g.number>> : g \in in1}]
  IN  \/ /\ Cardinality(in0) = 1 /\ in1 = {}
         /\ \E f \in in0 : LogAndApply([e EXCEPT !.new = <<<<l + 1, f>>>>], vset)
      \/ \E out \in Outputs(LowestOf(in0 \union in1), HighestOf(in0 \union in1)) :
           /\ vset.next + Len(out) <= MaxNumber
           /\ LogAndApply([e EXCEPT !.new = [i \in DOMAIN out |-> <<l + 1, out[i]>>]],
                          [vset EXCEPT !.next = @ + Len(out)])

(* A compaction that fails has moved the pointer in memory only.            *)
FailedCompaction(l, in0) ==
  /\ compact_pointer_' = [compact_pointer_ EXCEPT ![l] = HighestOf(in0)]
  /\ UNCHANGED <<current, vset, manifest, edit, installed>>

(* Recover replays the log; the first LogAndApply then starts a new one     *)
(* with WriteSnapshot.                                                      *)
SnapshotEdit(files, pointers) ==
  [NoEdit EXCEPT
     !.comparator = 1,
     !.pointers = SetToSortSeq({<<l, pointers[l]>> : l \in {k \in Levels : pointers[k] # 0}}, FilesBefore),
     !.new = FlattenSeq([i \in 1 .. kNumLevels |-> [j \in DOMAIN files[i - 1] |-> <<i - 1, files[i - 1][j]>>]])]

(* The edit that DB::Open logs: the numbers, with that of a new log.        *)
Numbers(vs) == [NoEdit EXCEPT !.log = vs.log, !.prev = 0, !.next = vs.next, !.last = vs.last]

Reopened(r, vs) ==
  /\ current' = r.files
  /\ compact_pointer_' = r.pointers
  /\ installed' = r.pointers
  /\ manifest' = <<EncodeTo(SnapshotEdit(r.files, r.pointers)), EncodeTo(Numbers(vs))>>
  /\ edit' = Numbers(vs)
  /\ vset' = vs

Reopen ==
  /\ vset.next < MaxNumber
  /\ Reopened(Replay(manifest), [vset EXCEPT !.log = vset.next, !.next = @ + 1])

Init ==
  /\ current = NoFiles
  /\ compact_pointer_ = NoPointers /\ installed = NoPointers
  /\ vset = [log |-> 3, next |-> 4, last |-> 0]
  /\ edit = Numbers(vset)
  /\ manifest = <<EncodeTo(SnapshotEdit(NoFiles, NoPointers)), EncodeTo(edit)>>

Next ==
  \/ \E l \in Levels, lo, hi \in Keys : lo <= hi /\ WriteLevel0Table(l, lo, hi)
  \/ \E l \in 0 .. kNumLevels - 2 : \E in0 \in InputSets(l) : Compact(l, in0) \/ FailedCompaction(l, in0)
  \/ Reopen

Spec == Init /\ [][Next]_vars

-----------------------------------------------------------------------------
(* Reading the log with one Builder gives the version that was built edit   *)
(* by edit, moved files included, and the pointers of the last edits.       *)
ReplayMatches == Replay(manifest) = [files |-> current, pointers |-> installed]

(* Below level 0 the files of a version are in order and do not overlap     *)
(* (the assertion of MaybeAddFile and the abort of SaveTo); no file is      *)
(* listed twice, on one level or on two.                                    *)
LevelsSorted ==
  /\ \A l \in Levels \ {0} : \A i \in 1 .. Len(current[l]) - 1 :
       current[l][i].largest < current[l][i + 1].smallest
  /\ \A l, k \in Levels : \A i \in DOMAIN current[l], j \in DOMAIN current[k] :
       current[l][i].number = current[k][j].number => l = k /\ i = j

(* A record that ends within a field is reported, wherever the cut is.      *)
CutsDetected ==
  LET fields == Fields(edit)
      record == Last(manifest)
      whole == {Len(FlattenSeq(SubSeq(fields, 1, i))) : i \in 0 .. Len(fields)}
  IN  \A n \in 0 .. Len(record) : DecodeFrom(SubSeq(record, 1, n)).ok <=> n \in whole
=============================================================================
