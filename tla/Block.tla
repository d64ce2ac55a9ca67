------------------------------- MODULE Block --------------------------------
(***************************************************************************)
(* A block of a LevelDB table: BlockBuilder (table/block_builder.cc), which*)
(* stores of a key only what differs from the one before it, but for the   *)
(* restart points, and Block::Iter (table/block.cc), which finds its way   *)
(* back.  An offset is the number of entries before it.                    *)
(***************************************************************************)
EXTENDS ByteKeys

CONSTANTS MaxKeyLength,       \* bound on the keys
          MaxEntries,         \* bound on the entries of a block
          Intervals           \* block_restart_interval to try

VARIABLES interval,    \* options_->block_restart_interval
          builder,     \* the BlockBuilder
          added,       \* the keys added since the last Reset
          bad,         \* an entry DecodeEntry fails on; 0: none
          it,          \* the Block::Iter over the finished block
          call         \* its last call

vars == <<interval, builder, added, bad, it, call>>

UserKeys == SeqOf(0 .. MaxByte, MaxKeyLength)

Reset == [buffer |-> <<>>, restarts |-> <<0>>, counter |-> 0, finished |-> FALSE, last |-> <<>>]

(* Mutant: the interval is overrun by one.                                  *)
RestartLate == builder.counter > interval

Restart == builder.counter >= interval

(* Mutant: a restart point keeps sharing with the key before it.            *)
SharedAlways(key) == Shared(builder.last, key)

SharedWithLast(key) ==
  IF Restart THEN 0 ELSE Shared(builder.last, key)

Add(key) ==
  /\ ~builder.finished
  /\ Len(builder.buffer) < MaxEntries
  /\ builder.buffer = <<>> \/ BytesLess(builder.last, key)
  /\ LET shared == SharedWithLast(key)
     IN  builder' = [builder EXCEPT
           !.restarts = IF Restart THEN Append(@, Len(builder.buffer)) ELSE @,
           !.counter = (IF Restart THEN 0 ELSE @) + 1,
           !.buffer = Append(@, [shared |-> shared, delta |-> SubSeq(key, shared + 1, Len(key))]),
           !.last = SubSeq(@, 1, shared) \o SubSeq(key, shared + 1, Len(key))]
  /\ added' = Append(added, key)
  /\ UNCHANGED <<interval, bad, it, call>>

-----------------------------------------------------------------------------
(* Block::Iter: current_, restart_index_, key_, the end of value_, status_. *)
RECURSIVE Scan(_, _), Backtrack(_, _), BinarySearch(_, _, _), LinearSearch(_, _)

Restarts == Len(builder.buffer)
NumRestarts == Len(builder.restarts)
GetRestartPoint(i) == builder.restarts[i + 1]
Decodes(offset) == offset + 1 # bad

Unset == [current |-> 0, region |-> 0, key |-> <<>>, next |-> 0, ok |-> TRUE]
AtEnd(i) == [i EXCEPT !.current = Restarts, !.region = NumRestarts]
CorruptionError(i) == [AtEnd(i) EXCEPT !.ok = FALSE, !.key = <<>>]
Valid(i) == i.current < Restarts

SeekToRestartPoint(i, index) ==
  [i EXCEPT !.key = <<>>, !.region = index, !.next = GetRestartPoint(index)]

(* Mutant: restart_index_ is not moved on.                                  *)
RegionStays(region, current) == region

(* restart_index_ moves on while the next restart point is below current_.  *)
RegionOf(region, current) ==
  LET below == {r \in region + 1 .. NumRestarts - 1 :
                  \A q \in region + 1 .. r : GetRestartPoint(q) < current}
  IN  region + Cardinality(below)

(* Mutant: what is not shared is not cut off first.                         *)
RebuiltAppends(key, e) == key \o e.delta

Rebuilt(key, e) == SubSeq(key, 1, e.shared) \o e.delta

ParseNextKey(i) ==
  LET e == builder.buffer[i.next + 1]
  IN  IF i.next >= Restarts THEN AtEnd([i EXCEPT !.current = i.next])
      ELSE IF ~Decodes(i.next) \/ Len(i.key) < e.shared THEN CorruptionError(i)
      ELSE [i EXCEPT !.current = i.next, !.next = @ + 1,
                     !.key = Rebuilt(@, e),
                     !.region = RegionOf(@, i.next)]

(* ParseNextKey until the end of the entry reaches an offset.               *)
Scan(i, offset) ==
  LET j == ParseNextKey(i) IN IF Valid(j) /\ j.next < offset THEN Scan(j, offset) ELSE j

SeekToFirst == ParseNextKey(SeekToRestartPoint(it, 0))
SeekToLast == Scan(SeekToRestartPoint(it, NumRestarts - 1), Restarts)

(* Mutant: the entry itself counts as before it.                            *)
StartsAtOrBefore(region, original) == GetRestartPoint(region) <= original

StartsBefore(region, original) == GetRestartPoint(region) < original

(* The region to scan again for the entry before original; -1: none.        *)
Backtrack(region, original) ==
  IF StartsBefore(region, original) THEN region
  ELSE IF region = 0 THEN -1 ELSE Backtrack(region - 1, original)

PrevEntry ==
  LET region == Backtrack(it.region, it.current)
  IN  IF region < 0 THEN AtEnd(it) ELSE Scan(SeekToRestartPoint(it, region), it.current)

(* The last restart point with a key below the target; -1: a bad entry.     *)
BinarySearch(target, left, right) ==
  LET mid == (left + right + 1) \div 2
      e == builder.buffer[GetRestartPoint(mid) + 1]
  IN  IF left >= right THEN left
      ELSE IF ~Decodes(GetRestartPoint(mid)) \/ e.shared # 0 THEN -1
      ELSE IF BytesLess(e.delta, target) THEN BinarySearch(target, mid, right)
      ELSE BinarySearch(target, left, mid - 1)

LinearSearch(i, target) ==
  LET j == ParseNextKey(i)
  IN  IF Valid(j) /\ BytesLess(j.key, target) THEN LinearSearch(j, target) ELSE j

SeekEntry(target) ==
  LET left == BinarySearch(target, 0, NumRestarts - 1)
  IN  IF left < 0 THEN CorruptionError(it)
      ELSE LinearSearch(SeekToRestartPoint(it, left), target)

-----------------------------------------------------------------------------
Init ==
  /\ interval \in Intervals
  /\ builder = Reset /\ added = <<>> /\ bad = 0
  /\ it = Unset /\ call = [op |-> "None", key |-> <<>>]

(* Finish, and an iterator over what was built, one entry perhaps bad.      *)
Finish ==
  /\ ~builder.finished /\ builder.buffer # <<>>
  /\ builder' = [builder EXCEPT !.finished = TRUE]
  /\ bad' \in 0 .. Restarts
  /\ it' = AtEnd(Unset)
  /\ UNCHANGED <<interval, added, call>>

Call(op, key, result) ==
  /\ builder.finished
  /\ it' = result /\ call' = [op |-> op, key |-> key]
  /\ UNCHANGED <<interval, builder, added, bad>>

Next ==
  \/ \E key \in UserKeys : Add(key)
  \/ Finish
  \/ \E key \in UserKeys : Call("Seek", key, SeekEntry(key))
  \/ Call("SeekToFirst", <<>>, SeekToFirst)
  \/ Call("SeekToLast", <<>>, SeekToLast)
  \/ Valid(it) /\ Call("Next", <<>>, ParseNextKey(it))
  \/ Valid(it) /\ Call("Prev", <<>>, PrevEntry)

Spec == Init /\ [][Next]_vars

-----------------------------------------------------------------------------
TypeOK ==
  /\ builder.counter \in 0 .. interval
  /\ Len(builder.buffer) = Len(added)
  /\ builder.finished => it.current \in 0 .. Restarts /\ it.region \in 0 .. NumRestarts

(* A key put together from shared prefixes is the key that was added there. *)
DecodesKeys == builder.finished /\ Valid(it) => it.key = added[it.current + 1]

(* restart_index_ is the region of current_, or the one before when current_*)
(* is the first of its region.                                              *)
RegionBounds ==
  builder.finished /\ Valid(it) =>
    /\ GetRestartPoint(it.region) <= it.current
    /\ it.region + 1 < NumRestarts => it.current <= GetRestartPoint(it.region + 1)

(* The comment on restart_index_ taken literally.                           *)
RegionHoldsCurrent ==
  builder.finished /\ Valid(it) /\ it.region + 1 < NumRestarts =>
    it.current < GetRestartPoint(it.region + 1)

First(S) == IF S = {} THEN Restarts ELSE CHOOSE i \in S : \A j \in S : i <= j
NotBelow(key) == {i \in 0 .. Restarts - 1 : ~BytesLess(added[i + 1], key)}

Expected ==
  CASE call'.op = "Seek" -> it'.current = First(NotBelow(call'.key))
    [] call'.op = "SeekToFirst" -> it'.current = 0
    [] call'.op = "SeekToLast" -> it'.current = Restarts - 1
    [] call'.op = "Next" -> it'.current = it.current + 1
    [] call'.op = "Prev" -> it'.current = IF it.current = 0 THEN Restarts ELSE it.current - 1
    [] OTHER -> TRUE

(* Every call ends on the entry iterator.h names, or leaves an error.       *)
CallsLand == builder.finished => Expected \/ ~it'.ok

(* An iterator over a block with no bad entry never reports an error.       *)
NoFalseAlarm == bad = 0 => it.ok
=============================================================================
