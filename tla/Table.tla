------------------------------- MODULE Table --------------------------------
(***************************************************************************)
(* A LevelDB table: TableBuilder (table/table_builder.cc) with its filter  *)
(* block (table/filter_block.cc, util/bloom.cc), and Table (table/table.cc)*)
(* with the block cache.  A block is a sequence of entries (module Block   *)
(* has its encoding); sizes are counted in entries.                        *)
(***************************************************************************)
EXTENDS ByteKeys

CONSTANTS MaxKeyLength, Seqs,   \* the internal keys there are
          BlockSize,                  \* options.block_size
          FilterBase,                 \* kFilterBase
          BitsPerKey, MinBits,        \* of the Bloom filter
          HashBits,                   \* width of BloomHash, 32
          MaxEntries, MaxTables, MaxOpens   \* bounds

VARIABLES b,           \* the TableBuilder, with the file it writes
          added,       \* the keys given to it
          built,       \* tables begun
          table,       \* the Table open for reading, or NoTable
          lastId,      \* last_id_ of the block cache
          cache,       \* the block cache: <<cache id, offset>> -> entries
          got          \* the last InternalGet and its outcome

vars == <<b, added, built, table, lastId, cache, got>>

None == [user |-> <<>>, seq |-> 0]
NoTable == [id |-> 0]
NoGet == [key |-> None, ok |-> TRUE, found |-> None, of |-> <<>>]
InternalKeys == [user : SeqOf(0 .. MaxByte, MaxKeyLength), seq : Seqs]

-----------------------------------------------------------------------------
(* BloomFilterPolicy on user keys.  BloomHash stands for a hash of the key: *)
(* of it only that it is a function of the key matters.                     *)
HashRange == 2 ^ HashBits
BloomHash(user) == FoldLeft(LAMBDA h, byte : (5 * h + 3 * byte + 7) % HashRange, Len(user), user)
Rotated(h) == (h \div 2 ^ (HashBits \div 2 + 1)) + ((h * 2 ^ (HashBits \div 2 - 1)) % HashRange)
Probes(user, bits) ==
  LET h == BloomHash(user) IN {((h + j * Rotated(h)) % HashRange) % bits : j \in 0 .. 1}

EmptyFilter == [bits |-> 0, set |-> {}]
CreateFilter(users) ==
  LET bits == Max({Len(users) * BitsPerKey, MinBits})
  IN  [bits |-> bits, set |-> UNION {Probes(u, bits) : u \in ToSet(users)}]
BloomMayMatch(user, filter) ==
  filter # EmptyFilter /\ Probes(user, filter.bits) \subseteq filter.set

(* FilterBlockBuilder: filter_offsets_ with their filters, and the keys of  *)
(* the filter to come.                                                      *)
GenerateFilter(f) ==
  [done |-> Append(f.done, IF f.keys = <<>> THEN EmptyFilter ELSE CreateFilter(f.keys)),
   keys |-> <<>>]

RECURSIVE StartBlock(_, _)

StartBlock(f, offset) ==
  IF offset \div FilterBase > Len(f.done) THEN StartBlock(GenerateFilter(f), offset) ELSE f

AddKey(f, key) == [f EXCEPT !.keys = Append(@, key.user)]
FinishFilter(f) == IF f.keys # <<>> THEN GenerateFilter(f).done ELSE f.done

(* Mutant: the filter of the range after the block's is looked at.          *)
FilterIndexNext(offset) == offset \div FilterBase + 2

FilterIndex(offset) == offset \div FilterBase + 1

KeyMayMatch(filters, offset, key) ==
  FilterIndex(offset) <= Len(filters) => BloomMayMatch(key.user, filters[FilterIndex(offset)])

-----------------------------------------------------------------------------
(* TableBuilder.                                                            *)
Fresh == [data |-> <<>>, index |-> <<>>, last |-> None, pending |-> FALSE, handle |-> 0,
          offset |-> 0, ok |-> TRUE, closed |-> FALSE,
          filter |-> [done |-> <<>>, keys |-> <<>>], file |-> <<>>]

WriteRawBlock(r, body, size, good) ==
  IF good THEN [r EXCEPT !.file = @ @@ (r.offset :> body), !.offset = @ + size + 1]
  ELSE [r EXCEPT !.ok = FALSE]

(* A block of entries: compressed or not, its contents read back the same.  *)
WriteBlock(r, entries, good) == WriteRawBlock(r, entries, Len(entries), good)

(* Mutant: a block is let grow by one more entry.                           *)
BlockFullLate(data) == Len(data) > BlockSize

BlockFull(data) == Len(data) >= BlockSize

(* outcome says which of the calls on the file fails.                       *)
Flush(r, outcome) ==
  IF ~r.ok \/ r.data = <<>> THEN r
  ELSE LET w == WriteBlock(r, r.data, outcome # "append")
       IN  [w EXCEPT !.data = <<>>, !.handle = r.offset, !.pending = w.ok,
                     !.ok = outcome = "ok",
                     !.filter = StartBlock(@, w.offset)]

(* Mutant: the handle of the block to come is taken.                        *)
IndexHandleLate(r) == r.offset

IndexHandle(r) == r.handle

(* The index entry of the block written last.                               *)
IndexEntry(r, key) ==
  IF ~r.pending THEN r
  ELSE [r EXCEPT !.index = Append(@, [key |-> key, handle |-> IndexHandle(r)]), !.pending = FALSE]

(* Mutant: the filter is told of a key only once its block may be written.  *)
AddedLate(r, key, outcome) ==
  LET s == [r EXCEPT !.last = key, !.data = Append(@, key)]
      t == IF BlockFull(s.data) THEN Flush(s, outcome) ELSE s
  IN  [t EXCEPT !.filter = AddKey(@, key)]

Added(r, key, outcome) ==
  LET s == [r EXCEPT !.filter = AddKey(@, key), !.last = key, !.data = Append(@, key)]
  IN  IF BlockFull(s.data) THEN Flush(s, outcome) ELSE s

(* Mutant: last_key is overwritten before the separator is found.           *)
SeparatorOfNext(r, key) == key

Separator(r, key) == InternalSeparator(r.last, key)

(* Callers give keys in increasing order.                                   *)
Add(key, outcome) ==
  /\ ~b.closed /\ Len(added) < MaxEntries
  /\ added # <<>> => InternalLess(Last(added), key)
  /\ b' = IF b.ok THEN Added(IndexEntry(b, Separator(b, key)), key, outcome) ELSE b
  /\ added' = Append(added, key)
  /\ UNCHANGED <<built, table, lastId, cache, got>>

(* Mutant: the block still in the builder is not written.                   *)
FlushedNot(r, outcome) == r

Flushed(r, outcome) == Flush(r, outcome)

(* The blocks after the data: f.r is the builder, f.at where they begin.    *)
Put(f, body, good) ==
  IF ~f.r.ok THEN f
  ELSE [r |-> WriteRawBlock(f.r, body, 1, good), at |-> Append(f.at, f.r.offset)]

PutFilter(f, fails) == Put(f, FinishFilter(f.r.filter), fails # "filter")
PutMeta(f, fails) == Put(f, f.at, fails # "meta")
PutEntries(f, fails) == Put(f, f.r.index, fails # "index")
PutIndex(f, fails) ==
  IF ~f.r.ok THEN f
  ELSE PutEntries([f EXCEPT !.r = IndexEntry(@, InternalSuccessor(@.last))], fails)
PutFooter(f, fails) == Put(f, Tail(f.at), fails # "footer")

Finished(r, fails) ==
  PutFooter(PutIndex(PutMeta(PutFilter([r |-> r, at |-> <<>>], fails), fails), fails), fails).r

Finish(outcome, fails) ==
  /\ ~b.closed
  /\ b' = [Finished(Flushed(b, outcome), fails) EXCEPT !.closed = TRUE]
  /\ UNCHANGED <<added, built, table, lastId, cache, got>>

Abandon ==
  /\ ~b.closed
  /\ b' = [b EXCEPT !.closed = TRUE, !.ok = FALSE]
  /\ UNCHANGED <<added, built, table, lastId, cache, got>>

(* The next table is built when this one has been finished or given up.     *)
NewBuilder ==
  /\ b.closed /\ built < MaxTables
  /\ b' = Fresh /\ added' = <<>> /\ built' = built + 1
  /\ UNCHANGED <<table, lastId, cache, got>>

-----------------------------------------------------------------------------
(* Table.                                                                   *)
(* Mutant: a table opened takes the id the last one had.                    *)
NewIdSame == 1

NewId == lastId + 1

ReadFilter(footer, filterRead) == IF filterRead THEN b.file[b.file[footer[1]][1]] ELSE <<>>

(* Table::Open with ReadMeta; the filter is left out when it is unreadable. *)
Open(filterRead) ==
  /\ b.closed /\ b.ok /\ lastId < MaxOpens
  /\ LET footer == b.file[b.offset - 2]
     IN  table' = [id |-> NewId, file |-> b.file, index |-> b.file[footer[2]], meta |-> footer[1],
                   filters |-> ReadFilter(footer, filterRead),
                   keys |-> added]
  /\ lastId' = lastId + 1
  /\ got' = NoGet
  /\ UNCHANGED <<b, added, built, cache>>

Close ==
  /\ table # NoTable
  /\ table' = NoTable /\ got' = NoGet
  /\ UNCHANGED <<b, added, built, lastId, cache>>

Evict(k) ==
  /\ cache' = Restrict(cache, DOMAIN cache \ {k})
  /\ UNCHANGED <<b, added, built, table, lastId, got>>

IndexSeek(key) == SelectInSeq(table.index, LAMBDA e : ~InternalLess(e.key, key))
BlockSeek(block, key) ==
  LET i == SelectInSeq(block, LAMBDA e : ~InternalLess(e, key))
  IN  IF i = 0 THEN None ELSE block[i]

(* ReadBlock fails, or gives the block as written; then it may be cachable. *)
ReadBlock(offset, read) == [ok |-> read, block |-> table.file[offset]]

(* BlockReader and the Seek in the block.                                   *)
ReadAndSeek(offset, key, read, cachable) ==
  LET k == <<table.id, offset>>
      cached == k \in DOMAIN cache
      contents == IF cached THEN [ok |-> TRUE, block |-> cache[k]] ELSE ReadBlock(offset, read)
  IN  /\ got' = IF contents.ok
                THEN [key |-> key, ok |-> TRUE, found |-> BlockSeek(contents.block, key), of |-> table.keys]
                ELSE [key |-> key, ok |-> FALSE, found |-> None, of |-> table.keys]
      /\ cache' = IF ~cached /\ read /\ cachable THEN cache @@ (k :> contents.block) ELSE cache

InternalGet(key, read, cachable) ==
  /\ table # NoTable
  /\ LET i == IndexSeek(key)
         handle == table.index[i].handle
         miss == [key |-> key, ok |-> TRUE, found |-> None, of |-> table.keys]
     IN  IF i = 0 THEN got' = miss /\ UNCHANGED cache
         ELSE IF table.filters # <<>> /\ ~KeyMayMatch(table.filters, handle, key)
         THEN got' = miss /\ UNCHANGED cache
         ELSE ReadAndSeek(handle, key, read, cachable)
  /\ UNCHANGED <<b, added, built, table, lastId>>

ApproximateOffsetOf(key) ==
  LET i == IndexSeek(key) IN IF i = 0 THEN table.meta ELSE table.index[i].handle

-----------------------------------------------------------------------------
Init ==
  /\ b = Fresh /\ added = <<>> /\ built = 1
  /\ table = NoTable /\ lastId = 0 /\ cache = <<>> /\ got = NoGet

Next ==
  \/ \E key \in InternalKeys, outcome \in {"ok", "append", "flush"} : Add(key, outcome)
  \/ \E outcome \in {"ok", "append", "flush"},
        fails \in {"none", "filter", "meta", "index", "footer"} : Finish(outcome, fails)
  \/ Abandon
  \/ NewBuilder
  \/ \E filterRead \in BOOLEAN : Open(filterRead)
  \/ Close
  \/ \E k \in DOMAIN cache : Evict(k)
  \/ \E key \in InternalKeys, read, cachable \in BOOLEAN : InternalGet(key, read, cachable)

Spec == Init /\ [][Next]_vars

-----------------------------------------------------------------------------
(* Representation: an index entry is pending only with an empty data block, *)
(* and no builder overruns block_size.                                      *)
TypeOK ==
  /\ b.pending => b.data = <<>>
  /\ Len(b.data) < BlockSize
  /\ lastId \in 0 .. MaxOpens

(* Every block's index key is at or above its keys, and below the keys of   *)
(* the next block: a seek in the index leads to the one block to look in.   *)
IndexSeparates ==
  \A i \in DOMAIN b.index :
    /\ \A e \in ToSet(b.file[b.index[i].handle]) : ~InternalLess(b.index[i].key, e)
    /\ i < Len(b.index) =>
         \A e \in ToSet(b.file[b.index[i + 1].handle]) : InternalLess(b.index[i].key, e)

(* When Finish reports success, the blocks of the index hold, in order,     *)
(* every key that was added.                                                *)
FinishIsComplete ==
  b.closed /\ b.ok =>
    FlattenSeq([i \in DOMAIN b.index |-> b.file[b.index[i].handle]]) = added

(* A get that reports success found the newest entry of its user key at or  *)
(* below its sequence number, if the table has one, whatever the filters    *)
(* and the block cache held.                                                *)
GetFinds ==
  LET S == {e \in ToSet(got.of) : e.user = got.key.user /\ ~InternalLess(e, got.key)}
  IN  got.ok /\ S # {} => got.found \in S /\ \A e \in S : ~InternalLess(e, got.found)

(* What the block cache holds for the open table is what its file holds.    *)
CacheMatchesFile ==
  table # NoTable =>
    \A k \in DOMAIN cache : k[1] = table.id => cache[k] = table.file[k[2]]

(* ApproximateOffsetOf is where the block of a key begins, and never goes   *)
(* down as keys go up.                                                      *)
OffsetsOrdered ==
  table # NoTable =>
    \A k \in ToSet(table.keys), l \in InternalKeys :
      /\ k \in ToSet(table.file[ApproximateOffsetOf(k)])
      /\ InternalLess(k, l) => ApproximateOffsetOf(k) <= ApproximateOffsetOf(l)
=============================================================================
