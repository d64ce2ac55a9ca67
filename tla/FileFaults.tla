----------------------------- MODULE FileFaults -----------------------------
(***************************************************************************)
(* FileData with I/O on the disk file that fails or comes up short: what   *)
(* Write, Truncate and the migrations of fs/tablefs.cpp make of it.  A     *)
(* failing open ends the process (OpenDiskFile), which is FileData's Crash.*)
(* When a migration or a truncate fails, the code goes on with data that   *)
(* is not the file's; from then on only the record is of interest.         *)
(***************************************************************************)
EXTENDS FileData, Integers

VARIABLE damaged     \* a migration or a truncate has failed on this file

faultVars == <<fileVars, damaged>>

(* What bytes are after a pwrite of which only the first n reach the file.  *)
Partly(bytes, offset, data, n) ==
  IF n <= 0 THEN bytes ELSE Overlay(bytes, offset, SubSeq(data, 1, n))

(* Mutant: the header of the failed migration is written.                   *)
CopyFailsHeaded(offset, data, n) ==
  /\ fd # Closed /\ ~rec.blob /\ offset + Len(data) > Threshold /\ n < rec.size
  /\ dirty' = TRUE
  /\ disk' = DiskFile(Partly(disk.bytes, 0, Resized(rec.inline, rec.size), n))
  /\ fd' = OnDisk
  /\ rec' = [Dropped EXCEPT !.blob = TRUE]
  /\ damaged' = TRUE
  /\ UNCHANGED <<stored, orphan, content, tainted, leaked>>

(* MigrateToDiskFile in Write copies n bytes only, and drops the inline data*)
(* all the same.  It returns -errno, and Write then leaves the header; but  *)
(* a short pwrite sets no errno, so that it may return 0 and Write go on.   *)
CopyFails(offset, data, n) ==
  /\ fd # Closed /\ ~rec.blob /\ offset + Len(data) > Threshold /\ n < rec.size
  /\ dirty' = TRUE
  /\ fd' = OnDisk
  /\ LET copied == Partly(disk.bytes, 0, Resized(rec.inline, rec.size), n)
     IN \/ /\ disk' = DiskFile(copied)
           /\ rec' = Dropped
        \/ /\ disk' = DiskFile(PWrite(copied, offset, data))
           /\ rec' = [Dropped EXCEPT !.size = offset + Len(data), !.blob = TRUE]
  /\ damaged' = TRUE
  /\ UNCHANGED <<stored, orphan, content, tainted, leaked>>

(* Mutant: the header is put back when the data cannot be written.          *)
DataFailsHeaderBack(offset, data, n) ==
  /\ fd # Closed /\ ~rec.blob /\ offset + Len(data) > Threshold /\ n < Len(data)
  /\ dirty' = TRUE
  /\ fd' = OnDisk
  /\ disk' = DiskFile(Partly(Migrated, offset, data, n))
  /\ rec' = Dropped
  /\ content' = Partly(content, offset, data, n)
  /\ UNCHANGED <<stored, orphan, tainted, leaked, damaged>>

(* The inline data has moved, the header says so, and then only n bytes of  *)
(* the new data can be written (-1: pwrite fails).                          *)
DataFails(offset, data, n) ==
  /\ fd # Closed /\ ~rec.blob /\ offset + Len(data) > Threshold /\ n < Len(data)
  /\ dirty' = TRUE
  /\ fd' = OnDisk
  /\ disk' = DiskFile(Partly(Migrated, offset, data, n))
  /\ rec' = [Dropped EXCEPT !.size = offset + Len(data), !.blob = TRUE]
  /\ content' = Partly(content, offset, data, n)
  /\ UNCHANGED <<stored, orphan, tainted, leaked, damaged>>

(* Of a write to a blob only n bytes are written: unless it failed, the     *)
(* size grows as if all were.                                               *)
BlobFails(offset, data, n) ==
  /\ fd # Closed /\ rec.blob /\ BlobFd \in {OnDisk, OnOrphan} /\ n < Len(data)
  /\ dirty' = TRUE
  /\ fd' = BlobFd
  /\ rec' = IF n >= 0 THEN [rec EXCEPT !.size = Larger(@, offset + Len(data))] ELSE rec
  /\ IF BlobFd = OnDisk
     THEN disk' = DiskFile(Partly(disk.bytes, offset, data, n)) /\ UNCHANGED <<orphan, tainted>>
     ELSE orphan' = Partly(orphan, offset, data, n) /\ tainted' = TRUE /\ UNCHANGED disk
  /\ content' = Partly(content, offset, data, n)
  /\ UNCHANGED <<stored, leaked, damaged>>
-----------------------------------------------------------------------------
(* The uninitialised descriptor that Truncate closes (see TruncateToBlob).  *)
MayCloseStray ==
  \/ UNCHANGED <<fd, orphan>>
  \/ fd = OnOrphan /\ fd' = Dangling /\ orphan' = <<>>

(* Truncate: the record changes and is written back whatever failed, only a *)
(* failing ftruncate is reported.  What of a failed copy is on disk, or left*)
(* in the buffer, makes no difference to the record.                        *)
TruncateFails(size) ==
  /\ \/ /\ rec.blob /\ size > Threshold       \* TruncateDiskFile
        /\ rec' = Headed(rec, size)
        /\ content' = Resized(content, size)
        /\ damaged' = TRUE
        /\ UNCHANGED <<disk, fd, orphan>>
     \/ /\ TruncateToInline(size) /\ size > 0   \* MigrateDiskFileToBuffer
        /\ content' = Resized(content, size)
        /\ damaged' = TRUE
     \/ /\ ~rec.blob /\ size > Threshold        \* MigrateToDiskFile
        /\ \E n \in 0 .. rec.size - 1 : disk' = DiskFile(Resized(rec.inline, n))
        /\ rec' = Headed(Dropped, size)
        /\ content' = Resized(content, size)
        /\ damaged' = TRUE
        /\ MayCloseStray
     \/ /\ ~rec.blob /\ size > Threshold      \* ftruncate
        /\ disk' = DiskFile(Resized(rec.inline, rec.size))
        /\ rec' = Headed(Dropped, size)
        /\ UNCHANGED <<content, damaged>>
        /\ MayCloseStray
  /\ stored' = rec'
  /\ dirty' = FALSE
  /\ UNCHANGED <<tainted, leaked>>

(* The disk file is shorter than its record says after a short write: the   *)
(* migration back to the record reads less than it takes for read.          *)
ReadsShort(size) == rec.blob /\ size <= Threshold /\ Len(disk.bytes) < size

FaultInit == FileInit /\ damaged = FALSE

(* No call can fail in a write of no bytes, which FileData has.             *)
FaultNext ==
  \/ (Open \/ Read \/ Close \/ Crash) /\ UNCHANGED damaged
  \/ Unlink /\ damaged' = FALSE
  \/ \E n \in 1 .. MaxWrite : \E offset \in 0 .. MaxFileSize - n, data \in [1 .. n -> Bytes] :
       \/ Write(offset, data) /\ UNCHANGED damaged
       \/ \E k \in 0 .. Threshold : CopyFails(offset, data, k)
       \/ \E k \in -1 .. n : DataFails(offset, data, k) \/ BlobFails(offset, data, k)
  \/ \E size \in 0 .. MaxFileSize :
       \/ Truncate(size) /\ damaged' = (damaged \/ ReadsShort(size))
       \/ TruncateFails(size)

FaultSpec == FaultInit /\ [][FaultNext]_faultVars
-----------------------------------------------------------------------------
(***************************************************************************)
(* Whatever fails at whichever step of Write and Truncate, has_blob and    *)
(* st_size stay on the same side of the threshold, in memory and in the    *)
(* store: every call still knows where the data is, and Unlink whether     *)
(* there is a disk file.                                                   *)
(***************************************************************************)
FlagMatchesSize == \A r \in {rec, stored} : r.blob <=> r.size > Threshold

(***************************************************************************)
(* Only a failed migration or truncate costs bytes that were written       *)
(* before.  A write of new data that fails or comes up short, also after   *)
(* it has moved the file to the disk, and an ftruncate that fails, leave   *)
(* every earlier byte readable, and in place once the file is closed.      *)
(***************************************************************************)
OldBytesKept ==
  ~damaged /\ ~tainted =>
    \A i \in DOMAIN content :
      /\ fd # Closed /\ ~Stray => ReadResult(i - 1, 1) = <<content[i]>>
      /\ fd = Closed => i \in DOMAIN DataOf(stored) /\ DataOf(stored)[i] = content[i]
=============================================================================
