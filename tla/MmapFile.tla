------------------------------ MODULE MmapFile ------------------------------
(***************************************************************************)
(* PosixMmapFile (util/env_posix.cc): a file is appended to through a      *)
(* window mapped into memory, ahead of which it is extended, and synced by *)
(* pages.  Any system call may fail.  Byte n is the n-th byte copied into  *)
(* the file; 0 is the filling ftruncate leaves.                            *)
(***************************************************************************)
EXTENDS Integers, Sequences, FiniteSetsExt, SequencesExt

CONSTANTS PageSize,    \* page_size_
          FirstMap,    \* 65536
          MaxMap,      \* 1<<20
          MaxAppend,   \* bound on the bytes of one Append
          MaxBytes     \* bound on the bytes of the file

VARIABLES f,           \* the PosixMmapFile
          file,        \* the bytes of the file as reads see them
          durable,     \* positions whose bytes have reached the disk
          copied,      \* bytes copied so far
          calls        \* outcomes: appendFailed, syncFailed, and the last one

vars == <<f, file, durable, copied, calls>>

(* Mutant: the size of the window is not rounded to pages.                  *)
RoundupNot(x, y) == x

Roundup(x, y) == ((x + y - 1) \div y) * y

TruncateToPageBoundary(s) == s - (s % PageSize)

(* base: the window is mapped; dst, synced: dst_ and last_sync_ less base_. *)
Opened == [fd |-> TRUE, base |-> FALSE, size |-> 0, dst |-> 0, synced |-> 0, offset |-> 0,
           map |-> Roundup(FirstMap, PageSize), pending |-> FALSE]

(* Mutant: unmapping leaves nothing to sync.                                *)
UnsyncedNot(g) == FALSE

Unsynced(g) == g.synced < g.size

(* Mutant: the window moves on by the size the next one will have.          *)
AdvancedTwice(g) == g.offset + 2 * g.size

Advanced(g) == g.offset + g.size

(* UnmapCurrentRegion; the state changes alike when munmap fails.           *)
Unmapped(g) ==
  IF ~g.base THEN g
  ELSE [g EXCEPT !.pending = @ \/ Unsynced(g), !.offset = Advanced(g),
                 !.base = FALSE, !.size = 0, !.dst = 0, !.synced = 0,
                 !.map = IF @ < MaxMap THEN 2 * @ ELSE @]

Mapped(g) == [g EXCEPT !.base = TRUE, !.size = g.map, !.dst = 0, !.synced = 0]

Resized(s, n) == [i \in 1 .. n |-> IF i <= Len(s) THEN s[i] ELSE 0]

-----------------------------------------------------------------------------
(* The loop of Append: s holds the object, the file and the bytes copied.   *)
(* fails names the system call that fails when a new window is needed.      *)
RECURSIVE Copy(_, _, _)

Copy(s, left, fails) ==
  IF left = 0 THEN [s EXCEPT !.ok = TRUE]
  ELSE IF s.f.dst < s.f.size
  THEN LET n == Min({left, s.f.size - s.f.dst})
           at == s.f.offset + s.f.dst
       IN  Copy([s EXCEPT !.f.dst = @ + n, !.copied = @ + n,
                   !.file = [i \in DOMAIN @ |->
                               IF i \in at + 1 .. at + n THEN s.copied + (i - at) ELSE @[i]]],
                left - n, fails)
  ELSE LET u == Unmapped(s.f)
           extended == Resized(s.file, u.offset + u.map)
       IN  IF fails = "munmap" /\ s.f.base THEN [s EXCEPT !.f = u]
           ELSE IF fails = "ftruncate" THEN [s EXCEPT !.f = u]
           ELSE IF fails = "mmap" THEN [s EXCEPT !.f = u, !.file = extended]
           ELSE Copy([s EXCEPT !.f = Mapped(u), !.file = extended], left, fails)

Append_(n, fails) ==
  /\ f.fd /\ copied + n <= MaxBytes
  /\ LET s == Copy([f |-> f, file |-> file, copied |-> copied, ok |-> FALSE], n, fails)
     IN  /\ f' = s.f /\ file' = s.file /\ copied' = s.copied
         /\ calls' = [calls EXCEPT !.appendFailed = @ \/ ~s.ok, !.last = "append"]
  /\ UNCHANGED durable

(* fdatasync is relied on for unmapped windows only, msync for the pages    *)
(* given to it.                                                             *)
MsyncRange ==
  f.offset + TruncateToPageBoundary(f.synced) + 1
    .. f.offset + TruncateToPageBoundary(f.dst - 1) + PageSize

Sync(fails) ==
  LET good == ~(f.pending /\ fails = "fdatasync") /\ ~(f.dst > f.synced /\ fails = "msync")
  IN  /\ f.fd
      /\ f' = [f EXCEPT !.pending = FALSE, !.synced = f.dst]
      /\ durable' = durable
           \cup (IF f.pending /\ fails # "fdatasync" THEN 1 .. f.offset ELSE {})
           \cup (IF f.dst > f.synced /\ fails # "msync" THEN MsyncRange \cap 1 .. copied ELSE {})
      /\ calls' = [calls EXCEPT !.syncFailed = @ \/ ~good,
                                !.last = IF good THEN "synced" ELSE "sync failed"]
      /\ UNCHANGED <<file, copied>>

(* Mutant: what is unused is asked for after it has been unmapped.          *)
UnusedAfter(g) == 0

Unused(g) == g.size - g.dst

Close(fails) ==
  LET u == Unmapped(f)
      munmapped == ~(f.base /\ fails = "munmap")
      trim == munmapped /\ Unused(f) > 0
      good == munmapped /\ ~(trim /\ fails = "ftruncate")
  IN  /\ f.fd
      /\ f' = [u EXCEPT !.fd = FALSE]
      /\ file' = IF trim /\ good THEN Resized(file, u.offset - Unused(f)) ELSE file
      /\ calls' = [calls EXCEPT !.last = IF good THEN "closed" ELSE "close failed"]
      /\ UNCHANGED <<durable, copied>>

Init ==
  /\ f = Opened /\ file = <<>> /\ durable = {} /\ copied = 0
  /\ calls = [appendFailed |-> FALSE, syncFailed |-> FALSE, last |-> "opened"]

Next ==
  \/ \E n \in 0 .. MaxAppend, fails \in {"none", "munmap", "ftruncate", "mmap"} : Append_(n, fails)
  \/ \E fails \in {"none", "fdatasync", "msync"} : Sync(fails)
  \/ \E fails \in {"none", "munmap", "ftruncate"} : Close(fails)

Spec == Init /\ [][Next]_vars

-----------------------------------------------------------------------------
(* Representation: last_sync_ <= dst_ <= limit_, and windows that begin and *)
(* end at page boundaries, as mmap and msync need.                          *)
TypeOK ==
  /\ 0 <= f.synced /\ f.synced <= f.dst /\ f.dst <= f.size
  /\ f.offset % PageSize = 0 /\ f.map % PageSize = 0

(* The bytes given to Append are in the file in order, each once, whatever  *)
(* windows they crossed and whatever failed; nothing but filling follows.   *)
BytesInPlace ==
  /\ copied <= Len(file)
  /\ \A i \in DOMAIN file : file[i] = IF i <= copied THEN i ELSE 0

(* When Sync reports success, and none reported failure before, every byte  *)
(* copied so far is on disk.                                                *)
SyncedIsDurable ==
  calls.last = "synced" /\ ~calls.syncFailed => 1 .. copied \subseteq durable

(* When Close reports success, and no Append failed before, the file is as  *)
(* long as what was appended: its size is that the table builder counted.   *)
CloseTrims == calls.last = "closed" /\ ~calls.appendFailed => Len(file) = copied
=============================================================================
