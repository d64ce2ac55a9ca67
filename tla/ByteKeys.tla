------------------------------ MODULE ByteKeys ------------------------------
(***************************************************************************)
(* LevelDB's comparators (util/comparator.cc, db/dbformat.cc): the order   *)
(* of byte strings and of internal keys, and the short keys found between  *)
(* two keys or after one.  A byte string is a sequence over 0 .. MaxByte;  *)
(* an internal key is [user, seq].                                         *)
(***************************************************************************)
EXTENDS Integers, Sequences, FiniteSets, SequencesExt

CONSTANTS MaxByte,     \* 0xff
          MaxSequence  \* kMaxSequenceNumber

(* How many bytes two strings have in common at their start.                *)
Shared(a, b) ==
  Cardinality({i \in DOMAIN a \cap DOMAIN b : SubSeq(a, 1, i) = SubSeq(b, 1, i)})

(* Slice::compare < 0.                                                      *)
BytesLess(a, b) ==
  LET d == Shared(a, b) + 1
  IN  d <= Len(b) /\ (d <= Len(a) => a[d] < b[d])

Bump(s, i) == Append(SubSeq(s, 1, i - 1), s[i] + 1)

RoomToBump(byte, limit) == byte < MaxByte /\ byte + 1 < limit

FindShortestSeparator(start, limit) ==
  LET d == Shared(start, limit) + 1
  IN  IF d <= Len(start) /\ d <= Len(limit) /\ RoomToBump(start[d], limit[d])
      THEN Bump(start, d) ELSE start

FindShortSuccessor(key) ==
  LET i == SelectInSeq(key, LAMBDA byte : byte # MaxByte)
  IN  IF i = 0 THEN key ELSE Bump(key, i)

(* InternalKeyComparator.                                                   *)
InternalLess(a, b) ==
  BytesLess(a.user, b.user) \/ (a.user = b.user /\ a.seq > b.seq)

(* The shortened user key, with the earliest number there is, when it is    *)
(* shorter and above the key it replaces.                                   *)
Shortened(key, user) ==
  IF Len(user) < Len(key.user) /\ BytesLess(key.user, user)
  THEN [user |-> user, seq |-> MaxSequence] ELSE key

InternalSeparator(start, limit) ==
  Shortened(start, FindShortestSeparator(start.user, limit.user))
InternalSuccessor(key) == Shortened(key, FindShortSuccessor(key.user))
=============================================================================
