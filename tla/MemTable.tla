------------------------------- MODULE MemTable -------------------------------
(***************************************************************************)
(* LevelDB's memtable on its skip list, with the batches that are applied  *)
(* to it (db/memtable.cc, db/write_batch.cc, db/dbformat.cc): internal     *)
(* keys with packed sequence number and type, batches inserted entry by    *)
(* entry without the mutex, and a sequence number that makes a batch       *)
(* visible once it is complete.  Gets run at any time at any snapshot.     *)
(***************************************************************************)
EXTENDS SkipList, Sequences, SequencesExt

CONSTANTS UserKeys,       \* 1 .. n; SkipList's keys are the internal keys
          MaxSeq,         \* bound on the sequence numbers
          MaxBatch        \* bound on the updates of a batch

VARIABLES last_sequence,  \* VersionSet::last_sequence_
          batch,          \* the updates that InsertInto has still to add
          base,           \* the sequence number of the next of them
          entries,        \* every entry given a sequence number
          lookup          \* the user key and snapshot of a running Get

vars == <<listVars, last_sequence, batch, base, entries, lookup>>

kTypeDeletion == 0
kTypeValue == 1
Updates == [key : UserKeys, type : {kTypeDeletion, kTypeValue}]
NoLookup == [key |-> 0, snapshot |-> 0]

(* Mutant: lookups carry the lowest type.                                   *)
SeekTypeLowest == kTypeDeletion

kValueTypeForSeek == kTypeValue

(* PackSequenceAndType, with one bit for the type, and the place of an      *)
(* internal key in InternalKeyComparator's order: increasing user key,      *)
(* decreasing tag.                                                          *)
PackSequenceAndType(seq, type) == seq * 2 + type
InternalKey(key, seq, type) == key * 2 * (MaxSeq + 1) - PackSequenceAndType(seq, type)

(* ParseInternalKey *)
ParseInternalKey(ikey) ==
  LET width == 2 * (MaxSeq + 1)
      key   == (ikey + width - 1) \div width
      tag   == key * width - ikey
  IN [key |-> key, seq |-> tag \div 2, type |-> tag % 2]

MemInit ==
  /\ ListInit
  /\ last_sequence = 0 /\ batch = <<>> /\ base = 0 /\ entries = {} /\ lookup = NoLookup
-----------------------------------------------------------------------------
(* DBImpl::Write takes sequence numbers for a batch and leaves the mutex.   *)
StartBatch(n) ==
  /\ batch = <<>> /\ base = last_sequence /\ inserting = Idle
  /\ last_sequence + n <= MaxSeq
  /\ batch' \in [1 .. n -> Updates]
  /\ entries' = entries \cup
       {[key |-> batch'[i].key, seq |-> base + i, type |-> batch'[i].type] : i \in 1 .. n}
  /\ UNCHANGED <<listVars, last_sequence, base, lookup>>

(* Mutant: the entries of a batch share its sequence number.                *)
AddAtBase(height) ==
  /\ batch # <<>> /\ inserting = Idle
  /\ Insert(InternalKey(Head(batch).key, last_sequence + 1, Head(batch).type), height)
  /\ batch' = Tail(batch) /\ base' = base + 1
  /\ UNCHANGED <<last_sequence, entries, lookup>>

(* MemTableInserter: MemTable::Add for the next update of the batch.        *)
Add(height) ==
  /\ batch # <<>> /\ inserting = Idle
  /\ Insert(InternalKey(Head(batch).key, base + 1, Head(batch).type), height)
  /\ batch' = Tail(batch) /\ base' = base + 1
  /\ UNCHANGED <<last_sequence, entries, lookup>>

LinkNext == Link /\ UNCHANGED <<last_sequence, batch, base, entries, lookup>>

(* Mutant: the batch is made visible when it is started.                    *)
FinishBatchEarly ==
  /\ last_sequence # base + Len(batch)
  /\ last_sequence' = base + Len(batch)
  /\ UNCHANGED <<listVars, batch, base, entries, lookup>>

(* DBImpl::Write: SetLastSequence after InsertInto.                         *)
FinishBatch ==
  /\ batch = <<>> /\ inserting = Idle /\ base # last_sequence
  /\ last_sequence' = base
  /\ UNCHANGED <<listVars, batch, base, entries, lookup>>

(* DBImpl::Get and MemTable::Get: a seek to the LookupKey of a snapshot.    *)
Get(key, snapshot, height) ==
  /\ lookup = NoLookup
  /\ lookup' = [key |-> key, snapshot |-> snapshot]
  /\ Seek(InternalKey(key, snapshot, kValueTypeForSeek), height)
  /\ UNCHANGED <<last_sequence, batch, base, entries>>

GetStep ==
  /\ SearchStep
  /\ lookup' = IF reader' = Idle THEN NoLookup ELSE lookup
  /\ UNCHANGED <<last_sequence, batch, base, entries>>

(* What MemTable::Get makes of the node it found: the user key is checked,  *)
(* the sequence number is not.                                              *)
Found(ikey, key) ==
  IF ikey \in Keys /\ ParseInternalKey(ikey).key = key THEN {ParseInternalKey(ikey)} ELSE {}
-----------------------------------------------------------------------------
MemNext ==
  \/ \E n \in 1 .. MaxBatch : StartBatch(n)
  \/ \E height \in Heights : Add(height)
  \/ \E key \in UserKeys, snapshot \in 0 .. last_sequence, height \in Heights :
       Get(key, snapshot, height)
  \/ LinkNext \/ FinishBatch \/ GetStep

MemSpec == MemInit /\ [][MemNext]_vars
-----------------------------------------------------------------------------
MemTypeOK ==
  /\ ListTypeOK
  /\ last_sequence \in 0 .. MaxSeq /\ base \in last_sequence .. MaxSeq
  /\ batch \in BoundedSeq(Updates, MaxBatch)
  /\ entries \subseteq [key : UserKeys, seq : 1 .. MaxSeq, type : {kTypeDeletion, kTypeValue}]

(***************************************************************************)
(* Two updates never become one internal key, and the memtable holds       *)
(* exactly the entries of the batches applied: SkipList::Insert asserts    *)
(* that a key is new.                                                      *)
(***************************************************************************)
HoldsBatches ==
  batch = <<>> /\ inserting = Idle => {ParseInternalKey(k) : k \in Elements} = entries

(***************************************************************************)
(* A Get at a snapshot returns the newest entry up to the snapshot, while  *)
(* entries of later batches are being linked around the one it looks for:  *)
(* no entry of a batch is seen before the whole batch.                     *)
(***************************************************************************)
GetsSnapshot ==
  lookup # NoLookup /\ lookup' = NoLookup =>
    LET seen == {e \in entries : e.key = lookup.key /\ e.seq <= lookup.snapshot}
    IN Found(node', lookup.key) = {e \in seen : \A x \in seen : x.seq <= e.seq}
=============================================================================
