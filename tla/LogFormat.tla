------------------------------ MODULE LogFormat ------------------------------
(***************************************************************************)
(* The log of LevelDB (db/log_writer.cc, db/log_reader.cc): records are    *)
(* cut into fragments that never cross a block, and a reader puts them     *)
(* together again after a crash, after damage, or from an offset.          *)
(*                                                                         *)
(* A file is a sequence of cells.  A header is three of them (in the code  *)
(* 4, 2 and 1 bytes): checksum, length, type.  A cell holds a sequence of  *)
(* numbers, one but for the checksum, which is the data it sums up: an     *)
(* ideal checksum.                                                         *)
(***************************************************************************)
EXTENDS Naturals, Sequences, FiniteSets, SequencesExt

CONSTANTS BlockSize,      \* kBlockSize, in cells
          Lengths,        \* the lengths of records
          MaxRecords,     \* bound on the number of AddRecord calls
          Preallocated,   \* how many zero cells a crash may leave behind
          BadCells,       \* what a damaged cell may turn into
          Offsets         \* the initial offsets a reader is opened with

kHeaderSize == 3
kZeroType == 0
kFullType == 1
kFirstType == 2
kMiddleType == 3
kLastType == 4
kEof == 5
kBadRecord == 6

VARIABLES file,           \* the cells of the file
          block_offset,   \* Writer::block_offset_
          records,        \* the records added: where each begins and ends, its data
          failed,         \* an Append has failed
          fault,          \* what has happened to the file: kind and place
          r               \* the reader

vars == <<file, block_offset, records, failed, fault, r>>

Cell(n) == <<n>>
Zeros(n) == [i \in 1 .. n |-> Cell(0)]
Checksum(type, data) == <<type>> \o FlattenSeq(data)
-----------------------------------------------------------------------------
(* Writer::EmitPhysicalRecord *)
Physical(type, data) == <<Checksum(type, data), Cell(Len(data)), Cell(type)>> \o data

(* The loop of Writer::AddRecord from a block offset: the cells it appends. *)
Fragments[left \in Seq(Seq(Nat)), offset \in Nat, begin \in BOOLEAN] ==
  LET leftover == BlockSize - offset
      trailer  == IF leftover < kHeaderSize THEN Zeros(leftover) ELSE <<>>
      start    == IF leftover < kHeaderSize THEN 0 ELSE offset
      avail    == BlockSize - start - kHeaderSize
      n        == IF Len(left) < avail THEN Len(left) ELSE avail
      end      == n = Len(left)
      type     == IF begin THEN IF end THEN kFullType ELSE kFirstType
                           ELSE IF end THEN kLastType ELSE kMiddleType
      piece    == [cells |-> trailer \o Physical(type, SubSeq(left, 1, n)),
                   offset |-> start + kHeaderSize + n]
  IN IF end THEN piece
     ELSE LET rest == Fragments[SubSeq(left, n + 1, Len(left)), piece.offset, FALSE]
          IN [rest EXCEPT !.cells = piece.cells \o @]

(* The data of the k-th record can be told from that of any other.          *)
Data(k, n) == [i \in 1 .. n |-> Cell(10 + k)]

(* Where the record begins: after the trailer, if there is one.             *)
StartOf(offset) == IF BlockSize - offset < kHeaderSize THEN BlockSize - offset ELSE 0

AddRecord(n) ==
  LET data == Data(Len(records) + 1, n)
      out  == Fragments[data, block_offset, TRUE]
  IN /\ fault.kind = "none" /\ r.state = "closed"
     /\ Len(records) < MaxRecords
     /\ file' = file \o out.cells
     /\ block_offset' = out.offset
     /\ records' = Append(records, [first |-> Len(file) + StartOf(block_offset),
                                    last |-> Len(file) + Len(out.cells), data |-> data])
     /\ UNCHANGED <<failed, fault, r>>

(* The same with an Append that fails.  A file grows by whole blocks        *)
(* (PosixMmapFile::MapNewRegion), so that it fails for the first header of  *)
(* a block only.  block_offset_ moves on nevertheless.                      *)
AddRecordFails(n) ==
  LET out  == Fragments[Data(0, n), block_offset, TRUE]
      room == IF file = <<>> THEN 0 ELSE BlockSize - block_offset
      sent == IF room < kHeaderSize THEN 0 ELSE room - kHeaderSize
  IN /\ fault.kind = "none" /\ r.state = "closed"
     /\ ~failed
     /\ Len(out.cells) > room
     /\ file' = file \o SubSeq(out.cells, 1, room)
     /\ block_offset' = kHeaderSize + Min({n - sent, BlockSize - kHeaderSize})
     /\ failed' = TRUE
     /\ UNCHANGED <<records, fault, r>>
-----------------------------------------------------------------------------
(* One fault at a time.  A crash leaves a beginning of the file and         *)
(* preallocated zeros.                                                      *)
Crash(kept, zeros) ==
  /\ fault.kind = "none" /\ ~failed /\ r.state = "closed"
  /\ kept < Len(file)
  /\ fault' = [kind |-> "crash", at |-> kept]
  /\ file' = SubSeq(file, 1, kept) \o Zeros(zeros)
  /\ UNCHANGED <<block_offset, records, failed, r>>

(* One cell goes bad.                                                       *)
Damage(i, cell) ==
  /\ fault.kind = "none" /\ ~failed /\ r.state = "closed"
  /\ file[i] # cell
  /\ fault' = [kind |-> IF cell = Cell(0) THEN "zeroed" ELSE "damage", at |-> i]
  /\ file' = [file EXCEPT ![i] = cell]
  /\ UNCHANGED <<block_offset, records, failed, r>>
-----------------------------------------------------------------------------
ClosedReader ==
  [state |-> "closed", checksum |-> TRUE, initial |-> 0, pos |-> 0, buffer |-> <<>>,
   eof |-> FALSE, end |-> 0, infragment |-> FALSE, scratch |-> <<>>, first |-> 0,
   out |-> <<>>, drops |-> 0]

(* Mutant: the search always starts after the block of the offset.          *)
InitialBlockAfter(initial) == ((initial + BlockSize - 1) \div BlockSize) * BlockSize

(* Reader::SkipToInitialBlock; 6 in the code is kHeaderSize - 1.            *)
InitialBlock(initial) ==
  LET inblock == initial % BlockSize
      start   == initial - inblock
  IN IF inblock > BlockSize - (kHeaderSize - 1) THEN start + BlockSize ELSE start

(* The constructor, and the skip of the first ReadRecord.  The position is  *)
(* that of file_, end that of end_of_buffer_offset_.  Damaged files are     *)
(* read from their beginning, as all the callers in db/ do.                 *)
OpenReader(checksum, initial) ==
  /\ r.state = "closed"
  /\ fault.kind # "none" => initial = 0
  /\ r' = [ClosedReader EXCEPT !.state = "reading", !.checksum = checksum, !.initial = initial,
             !.pos = InitialBlock(initial), !.end = InitialBlock(initial)]
  /\ UNCHANGED <<file, block_offset, records, failed, fault>>

(* Reader::ReportDrop, in 64-bit unsigned arithmetic.                       *)
Reported(q, bytes) ==
  IF q.end < Len(q.buffer) + bytes \/ q.end - Len(q.buffer) - bytes >= q.initial
  THEN [q EXCEPT !.drops = @ + 1] ELSE q

Cleared(q) == [q EXCEPT !.buffer = <<>>]

(* Mutant: end_of_buffer_offset_ stays where it is.                         *)
RefilledKeepsEnd(q) ==
  LET got == SubSeq(file, q.pos + 1, Min({q.pos + BlockSize, Len(file)}))
  IN IF Len(q.buffer) >= kHeaderSize \/ q.eof THEN q
     ELSE [q EXCEPT !.buffer = got, !.pos = @ + Len(got), !.eof = Len(got) < BlockSize]

Refilled(q) ==
  LET got == SubSeq(file, q.pos + 1, Min({q.pos + BlockSize, Len(file)}))
  IN IF Len(q.buffer) >= kHeaderSize \/ q.eof THEN q
     ELSE [q EXCEPT !.buffer = got, !.pos = @ + Len(got), !.end = @ + Len(got),
                    !.eof = Len(got) < BlockSize]

(* Mutant: the checksum is not looked at.                                   *)
ChecksumIgnored(q, type, data) == TRUE

ChecksumOK(q, type, data) == q.checksum => q.buffer[1] = Checksum(type, data)

(* Reader::ReadPhysicalRecord *)
ReadPhysicalRecord(p) ==
  LET q    == Refilled(p)
      len  == q.buffer[2][1]
      type == q.buffer[3][1]
      rest == [q EXCEPT !.buffer = SubSeq(@, kHeaderSize + len + 1, Len(@))]
      data == SubSeq(q.buffer, kHeaderSize + 1, kHeaderSize + len)
      Result(t, d, s) == [type |-> t, data |-> d, reader |-> s]
  IN IF Len(q.buffer) < kHeaderSize
     THEN Result(kEof, <<>>, IF q.buffer = <<>> THEN q ELSE Reported(Cleared(q), Len(q.buffer)))
     ELSE IF kHeaderSize + len > Len(q.buffer)
     THEN Result(kBadRecord, <<>>, Reported(Cleared(q), Len(q.buffer)))
     ELSE IF type = kZeroType /\ len = 0
     THEN Result(kBadRecord, <<>>, Cleared(q))
     ELSE IF ~ChecksumOK(q, type, data)
     THEN Result(kBadRecord, <<>>, Reported(Cleared(q), Len(q.buffer)))
     ELSE IF rest.end - Len(rest.buffer) - kHeaderSize - len < q.initial
     THEN Result(kBadRecord, <<>>, rest)
     ELSE Result(type, data, rest)

(* ReadRecord returns; the caller asks for the next record at once.         *)
Returned(q, offset, data) ==
  [q EXCEPT !.out = Append(@, [first |-> offset, data |-> data]),
            !.infragment = FALSE, !.scratch = <<>>]

Abandoned(q, bytes) == [Reported(q, bytes) EXCEPT !.infragment = FALSE, !.scratch = <<>>]

(* The partial record that a new one cuts off.                              *)
CutOff(q) == IF q.infragment /\ q.scratch # <<>> THEN Reported(q, Len(q.scratch)) ELSE q

(* One turn of the loop of Reader::ReadRecord.                              *)
Step(q) ==
  LET offset == q.end - Len(q.buffer)
      p      == ReadPhysicalRecord(q)
      s      == p.reader
  IN CASE p.type = kFullType -> Returned(CutOff(s), offset, p.data)
       [] p.type = kFirstType ->
            [CutOff(s) EXCEPT !.infragment = TRUE, !.scratch = p.data, !.first = offset]
       [] p.type = kMiddleType /\ s.infragment -> [s EXCEPT !.scratch = @ \o p.data]
       [] p.type = kLastType /\ s.infragment -> Returned(s, s.first, s.scratch \o p.data)
       [] p.type \in {kMiddleType, kLastType} /\ ~s.infragment -> Reported(s, Len(p.data))
       [] p.type = kEof ->
            [IF s.infragment THEN Reported(s, Len(s.scratch)) ELSE s EXCEPT !.state = "done"]
       [] p.type = kBadRecord -> IF s.infragment THEN Abandoned(s, Len(s.scratch)) ELSE s
       [] OTHER -> Abandoned(s, Len(p.data) + Len(s.scratch))

ReadRecord ==
  /\ r.state = "reading"
  /\ r' = Step(r)
  /\ UNCHANGED <<file, block_offset, records, failed, fault>>

(* The file cannot be read: a drop, and the end.                            *)
ReadFails ==
  /\ r.state = "reading" /\ fault.kind = "none"
  /\ Len(r.buffer) < kHeaderSize /\ ~r.eof
  /\ r' = [Reported(Cleared(r), BlockSize) EXCEPT !.state = "done", !.eof = TRUE]
  /\ fault' = [kind |-> "unreadable", at |-> r.pos]
  /\ UNCHANGED <<file, block_offset, records, failed>>
-----------------------------------------------------------------------------
Init ==
  /\ file = <<>> /\ block_offset = 0
  /\ records = <<>> /\ failed = FALSE
  /\ fault = [kind |-> "none", at |-> 0]
  /\ r = ClosedReader

Done == r.state = "done" /\ UNCHANGED vars

Next ==
  \/ \E n \in Lengths : AddRecord(n) \/ AddRecordFails(n)
  \/ \E kept \in 0 .. Len(file), zeros \in Preallocated : Crash(kept, zeros)
  \/ \E i \in 1 .. Len(file), n \in BadCells : Damage(i, Cell(n))
  \/ \E checksum \in BOOLEAN, initial \in Offsets : OpenReader(checksum, initial)
  \/ ReadRecord \/ ReadFails \/ Done

Spec == Init /\ [][Next]_vars
-----------------------------------------------------------------------------
TypeOK ==
  /\ block_offset \in 0 .. BlockSize
  /\ Len(records) <= MaxRecords /\ failed \in BOOLEAN
  /\ fault.kind \in {"none", "crash", "damage", "zeroed", "unreadable"}
  /\ r.state \in {"closed", "reading", "done"}
  /\ r.end >= Len(r.buffer) /\ Len(r.buffer) <= BlockSize

ReadData == [i \in DOMAIN r.out |-> r.out[i].data]
Written(S) == [i \in DOMAIN S |-> S[i].data]

(***************************************************************************)
(* A reader of an undamaged log returns exactly the records that begin at  *)
(* or after its initial offset, whatever the lengths of the records make   *)
(* of blocks, trailers and empty first fragments, and with offset 0 it     *)
(* reports no drop.                                                        *)
(***************************************************************************)
ReadsFromOffset ==
  r.state = "done" /\ fault.kind = "none" /\ ~failed =>
    /\ ReadData = Written(SelectSeq(records, LAMBDA x : x.first >= r.initial))
    /\ r.initial = 0 => r.drops = 0

(***************************************************************************)
(* After a crash that cut the log anywhere and left preallocated zeros     *)
(* behind, or when a block cannot be read, a reader returns a beginning of *)
(* what was added, with every record that is whole in what is left.        *)
(***************************************************************************)
CrashKeepsPrefix ==
  r.state = "done" /\ fault.kind \in {"crash", "unreadable"} /\ ~failed /\ r.initial = 0 /\ r.checksum =>
    /\ IsPrefix(ReadData, Written(records))
    /\ \A i \in DOMAIN records : records[i].last <= fault.at => i <= Len(r.out)

BlockOf(cell) == (cell - 1) \div BlockSize

(***************************************************************************)
(* One bad cell costs no record but those with a fragment in its block,    *)
(* nothing that was not added is ever returned, and a loss is reported     *)
(* (unless a zeroed type looks like preallocated space).                   *)
(***************************************************************************)
DamageConfined ==
  r.state = "done" /\ fault.kind \in {"damage", "zeroed"} /\ ~failed
    /\ r.initial = 0 /\ r.checksum =>
    /\ \E S \in SUBSET DOMAIN records :
         ReadData = Written([i \in 1 .. Cardinality(S) |-> records[SetToSortSeq(S, <)[i]]])
    /\ \A i \in DOMAIN records :
         BlockOf(fault.at) \notin BlockOf(records[i].first + 1) .. BlockOf(records[i].last)
           => records[i].data \in {r.out[j].data : j \in DOMAIN r.out}
    /\ fault.kind = "damage" /\ Len(r.out) < Len(records) => r.drops > 0

(***************************************************************************)
(* doc/log_format.txt says that a record never starts within the last      *)
(* bytes of a block, where a header does not fit.                          *)
(***************************************************************************)
NeverStartsInTrailer ==
  \A i \in DOMAIN records : records[i].first % BlockSize <= BlockSize - kHeaderSize

(***************************************************************************)
(* log_reader.h says that LastRecordOffset is the physical offset of the   *)
(* record that ReadRecord returned.                                        *)
(***************************************************************************)
LastRecordOffsetExact ==
  fault.kind = "none" /\ ~failed /\ r.initial = 0 =>
    \A i \in DOMAIN r.out : r.out[i].first = records[i].first
=============================================================================
