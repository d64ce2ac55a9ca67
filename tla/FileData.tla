------------------------------ MODULE FileData ------------------------------
(***************************************************************************)
(* The data of one regular file in fs/tablefs.cpp: inline in the inode     *)
(* record up to a threshold, in a disk file of its own ("blob") above it,  *)
(* and the migrations between the two that Write and Truncate make.  One   *)
(* program has the file open at most once; calls by path come in between.  *)
(* The handle of the inode cache stays in the cache while the file is open *)
(* (what happens otherwise is InodeHandlers' subject), so that one record  *)
(* in memory and one in the metadata store are enough.  I/O succeeds.      *)
(***************************************************************************)
EXTENDS Naturals, Sequences

LOCAL INSTANCE TLC

CONSTANTS Bytes,       \* the bytes a program writes
          Zero,        \* the byte 0
          Threshold,   \* FileSystemState::GetThreshold()
          MaxFileSize, \* bound on the size of the file
          MaxWrite     \* bound on the size of one write

ASSUME BoundsAssumption ==
  Threshold \in Nat /\ MaxFileSize \in Nat /\ MaxWrite \in Nat

VARIABLES rec,       \* value_ of the cached handle: size, blob, inline data
          stored,    \* the record in the metadata store
          dirty,     \* the handle's mode is INODE_WRITE
          disk,      \* the file at GetDiskFilePath
          fd,        \* fh->fd_ of the open file
          orphan,    \* the unlinked file a descriptor still refers to
          content,   \* the bytes the calls made so far have put in the file
          tainted,   \* a write missed the disk file, or a crash cut an open file
          leaked     \* an unlink left the disk file of a sound file behind

fileVars == <<rec, stored, dirty, disk, fd, orphan, content, tainted, leaked>>

NoFile == [exists |-> FALSE, bytes |-> <<>>]
DiskFile(bytes) == [exists |-> TRUE, bytes |-> bytes]

NewRecord == [size |-> 0, blob |-> FALSE, inline |-> <<>>]

(* fh->fd_: not open; -1; the disk file; an unlinked disk file; a number    *)
(* that somebody else has closed.                                           *)
Closed == "closed"
NoFd == "none"
OnDisk == "disk"
OnOrphan == "orphan"
Dangling == "dangling"

Larger(m, n) == IF m >= n THEN m ELSE n
Smaller(m, n) == IF m <= n THEN m ELSE n

(* value_.resize with value_.replace: a gap is filled with 0.               *)
Overlay(bytes, offset, data) ==
  [i \in 1 .. Larger(Len(bytes), offset + Len(data)) |->
     IF i \in offset + 1 .. offset + Len(data) THEN data[i - offset]
     ELSE IF i <= Len(bytes) THEN bytes[i] ELSE Zero]

(* pwrite: the same, but no bytes make no gap.                              *)
PWrite(bytes, offset, data) ==
  IF Len(data) = 0 THEN bytes ELSE Overlay(bytes, offset, data)

(* truncate, ftruncate and value_.resize *)
Resized(bytes, size) ==
  [i \in 1 .. size |-> IF i <= Len(bytes) THEN bytes[i] ELSE Zero]

(* pread and GetInlineData *)
Slice(bytes, offset, size) ==
  SubSeq(bytes, offset + 1, Smaller(offset + size, Len(bytes)))

FileInit ==
  /\ rec = NewRecord
  /\ stored = rec
  /\ dirty = FALSE
  /\ disk = NoFile
  /\ fd = Closed
  /\ orphan = <<>>
  /\ content = <<>>
  /\ tainted = FALSE
  /\ leaked = FALSE

(* TableFS::Open for reading and writing opens the disk file of a blob.     *)
Open ==
  /\ fd = Closed
  /\ dirty' = TRUE
  /\ fd' = IF rec.blob THEN OnDisk ELSE NoFd
  /\ disk' = IF rec.blob THEN DiskFile(disk.bytes) ELSE disk
  /\ UNCHANGED <<rec, stored, orphan, content, tainted, leaked>>

(* The descriptor that Read and Write use on a blob: opened when missing.   *)
BlobFd == IF fd = NoFd THEN OnDisk ELSE fd

(* TableFS::Read changes nothing but fd_.  What it returns:                 *)
ReadResult(offset, size) ==
  IF ~rec.blob THEN Slice(rec.inline, offset, size)
  ELSE CASE BlobFd = OnDisk   -> Slice(disk.bytes, offset, size)
         [] BlobFd = OnOrphan -> Slice(orphan, offset, size)
         [] OTHER             -> <<>>

Read ==
  /\ fd # Closed
  /\ rec.blob
  /\ fd' = BlobFd
  /\ UNCHANGED <<rec, stored, dirty, disk, orphan, content, tainted, leaked>>
-----------------------------------------------------------------------------
(* TableFS::Write.  The size grows with the write, never shrinks.  A write  *)
(* of no bytes past the end (the kernel sends none, TableFSWrapper does)    *)
(* makes the record of a blob grow without its disk file.                   *)
Ungrown(offset, data) == Len(data) = 0 /\ offset > rec.size

WriteInline(offset, data) ==
  /\ ~rec.blob
  /\ offset + Len(data) <= Threshold
  /\ rec' = [rec EXCEPT !.inline = Overlay(@, offset, data),
                        !.size = Larger(@, offset + Len(data))]
  /\ UNCHANGED <<disk, fd, orphan, tainted>>

(* MigrateToDiskFile copies st_size bytes to the start of the disk file,    *)
(* which it creates but does not truncate, and drops the inline data.       *)
Migrated == Overlay(disk.bytes, 0, Resized(rec.inline, rec.size))

Dropped == IF rec.size > 0 THEN [rec EXCEPT !.inline = <<>>] ELSE rec

(* Mutant: the inline data is dropped and not copied.                       *)
WriteMigratesNothing(offset, data) ==
  /\ ~rec.blob
  /\ offset + Len(data) > Threshold
  /\ disk' = DiskFile(PWrite(disk.bytes, offset, data))
  /\ rec' = [Dropped EXCEPT !.size = offset + Len(data), !.blob = TRUE]
  /\ fd' = OnDisk
  /\ tainted' = (tainted \/ Ungrown(offset, data))
  /\ UNCHANGED orphan

(* Mutant: the write is added to the current size.                          *)
WriteMigratesAddsSizes(offset, data) ==
  /\ ~rec.blob
  /\ offset + Len(data) > Threshold
  /\ disk' = DiskFile(PWrite(Migrated, offset, data))
  /\ rec' = [Dropped EXCEPT !.size = @ + offset + Len(data), !.blob = TRUE]
  /\ fd' = OnDisk
  /\ tainted' = (tainted \/ Ungrown(offset, data))
  /\ UNCHANGED orphan

WriteMigrates(offset, data) ==
  /\ ~rec.blob
  /\ offset + Len(data) > Threshold
  /\ disk' = DiskFile(PWrite(Migrated, offset, data))
  /\ rec' = [Dropped EXCEPT !.size = offset + Len(data), !.blob = TRUE]
  /\ fd' = OnDisk
  /\ tainted' = (tainted \/ Ungrown(offset, data))
  /\ UNCHANGED orphan

WriteBlob(offset, data) ==
  /\ rec.blob
  /\ fd' = BlobFd
  /\ \/ /\ BlobFd = OnDisk
        /\ disk' = DiskFile(PWrite(disk.bytes, offset, data))
        /\ rec' = [rec EXCEPT !.size = Larger(@, offset + Len(data))]
        /\ tainted' = (tainted \/ Ungrown(offset, data))
        /\ UNCHANGED orphan
     \/ /\ BlobFd = OnOrphan
        /\ orphan' = PWrite(orphan, offset, data)
        /\ rec' = [rec EXCEPT !.size = Larger(@, offset + Len(data))]
        /\ tainted' = TRUE
        /\ UNCHANGED disk
     \/ /\ BlobFd = Dangling
        /\ tainted' = TRUE
        /\ UNCHANGED <<rec, disk, orphan>>

(* Mutant: the mode of the handle is left as it is.                         *)
WriteKeepsMode(offset, data) ==
  /\ fd # Closed
  /\ content' = Overlay(content, offset, data)
  /\ WriteInline(offset, data) \/ WriteMigrates(offset, data) \/ WriteBlob(offset, data)
  /\ UNCHANGED <<stored, dirty, leaked>>

Write(offset, data) ==
  /\ fd # Closed
  /\ dirty' = TRUE
  /\ content' = Overlay(content, offset, data)
  /\ WriteInline(offset, data) \/ WriteMigrates(offset, data) \/ WriteBlob(offset, data)
  /\ UNCHANGED <<stored, leaked>>

(* TableFS::Release, with InodeCache::WriteBack                             *)
Close ==
  /\ fd # Closed
  /\ fd' = Closed
  /\ stored' = IF dirty THEN rec ELSE stored
  /\ rec' = stored'
  /\ dirty' = FALSE
  /\ orphan' = <<>>
  /\ UNCHANGED <<disk, content, tainted, leaked>>
-----------------------------------------------------------------------------
(* TableFS::Truncate, by path, ends with the header, if the size changes.   *)
Headed(r, size) ==
  IF size # rec.size THEN [r EXCEPT !.size = size, !.blob = (size > Threshold)] ELSE r

TruncateBlob(size) ==
  /\ rec.blob
  /\ size > Threshold
  /\ disk' = IF disk.exists THEN DiskFile(Resized(disk.bytes, size)) ELSE disk
  /\ rec' = Headed(rec, size)
  /\ UNCHANGED <<fd, orphan>>

(* Mutant: has_blob stays set.                                              *)
TruncateToInlineKeepsBlob(size) ==
  /\ rec.blob
  /\ size <= Threshold
  /\ rec' = [rec EXCEPT !.inline = Overlay(@, 0, Resized(disk.bytes, size)), !.size = size]
  /\ disk' = NoFile
  /\ fd' = IF fd = OnDisk THEN OnOrphan ELSE fd
  /\ orphan' = IF fd = OnDisk THEN disk.bytes ELSE orphan

(* Mutant: the disk file is not unlinked.                                   *)
TruncateToInlineKeepsDisk(size) ==
  /\ rec.blob
  /\ size <= Threshold
  /\ rec' = Headed([rec EXCEPT !.inline = Overlay(@, 0, Resized(disk.bytes, size))], size)
  /\ UNCHANGED <<disk, fd, orphan>>

(* MigrateDiskFileToBuffer reads the head of the disk file and unlinks it.  *)
(* A descriptor on the disk file is left on the unlinked file.              *)
TruncateToInline(size) ==
  /\ rec.blob
  /\ size <= Threshold
  /\ rec' = Headed([rec EXCEPT !.inline = Overlay(@, 0, Resized(disk.bytes, size))], size)
  /\ disk' = NoFile
  /\ fd' = IF fd = OnDisk THEN OnOrphan ELSE fd
  /\ orphan' = IF fd = OnDisk THEN disk.bytes ELSE orphan

TruncateInline(size) ==
  /\ ~rec.blob
  /\ size <= Threshold
  /\ rec' = Headed([rec EXCEPT !.inline = Resized(@, size)], size)
  /\ UNCHANGED <<disk, fd, orphan>>

(* MigrateToDiskFile with O_TRUNC, then ftruncate.  It closes the number    *)
(* found in an uninitialised variable, which may be the open file's.        *)
TruncateToBlob(size) ==
  /\ ~rec.blob
  /\ size > Threshold
  /\ disk' = DiskFile(Resized(Resized(rec.inline, rec.size), size))
  /\ rec' = Headed(Dropped, size)
  /\ \/ UNCHANGED <<fd, orphan>>
     \/ fd = OnOrphan /\ fd' = Dangling /\ orphan' = <<>>

(* ... and with the WriteBack of the handle.                                *)
Truncate(size) ==
  /\ TruncateBlob(size) \/ TruncateToInline(size) \/ TruncateInline(size) \/ TruncateToBlob(size)
  /\ stored' = rec'
  /\ dirty' = FALSE
  /\ content' = Resized(content, size)
  /\ UNCHANGED <<tainted, leaked>>

(* TableFS::Unlink of a file nobody has open (of an open one: InodeHandlers)*)
(* removes the disk file if the size says there is one; then MakeNode makes *)
(* a file of the same name, with a new inode number and hence another disk  *)
(* file.  The number is new unless an earlier crash made max_inode_num fall *)
(* back (FileSystemState saves it on Destroy only).                         *)
Unlink ==
  /\ fd = Closed
  /\ leaked' = (leaked \/ (~tainted /\ disk.exists /\ rec.size <= Threshold))
  /\ rec' = NewRecord
  /\ stored' = rec'
  /\ disk' = NoFile
  /\ content' = <<>>
  /\ tainted' = FALSE
  /\ UNCHANGED <<dirty, fd, orphan>>

(* A record and a disk file that belong together.                           *)
Consistent(r) ==
  /\ r.blob => disk.exists /\ Len(disk.bytes) = r.size
  /\ ~r.blob => ~disk.exists

DataOf(r) == IF r.blob THEN disk.bytes ELSE r.inline

(* A crash between two calls: the store and the disk file are what is left. *)
Crash ==
  /\ rec' = stored
  /\ dirty' = FALSE
  /\ fd' = Closed
  /\ orphan' = <<>>
  /\ content' = DataOf(stored)
  /\ tainted' = (tainted \/ ~Consistent(stored))
  /\ UNCHANGED <<stored, disk, leaked>>

FileNext ==
  \/ Open \/ Read \/ Close \/ Unlink \/ Crash
  \/ \E n \in 0 .. MaxWrite : \E offset \in 0 .. MaxFileSize - n, data \in [1 .. n -> Bytes] :
       Write(offset, data)
  \/ \E size \in 0 .. MaxFileSize : Truncate(size)

FileSpec == FileInit /\ [][FileNext]_fileVars
-----------------------------------------------------------------------------
FileTypeOK(bytes) == Len(bytes) <= MaxFileSize /\ \A i \in DOMAIN bytes : bytes[i] \in Bytes \cup {Zero}

RecordTypeOK(r) ==
  /\ r.size \in 0 .. MaxFileSize
  /\ r.blob \in BOOLEAN
  /\ FileTypeOK(r.inline)

DataTypeOK ==
  /\ RecordTypeOK(rec) /\ RecordTypeOK(stored)
  /\ dirty \in BOOLEAN
  /\ disk.exists \in BOOLEAN /\ FileTypeOK(disk.bytes)
  /\ fd \in {Closed, NoFd, OnDisk, OnOrphan, Dangling}
  /\ FileTypeOK(orphan) /\ FileTypeOK(content)
  /\ tainted \in BOOLEAN /\ leaked \in BOOLEAN

(***************************************************************************)
(* Write and Truncate decide with has_blob where the data is, Unlink with  *)
(* st_size: on both sides of the threshold, and in the store as in memory, *)
(* the two agree, and the inline data is as long as the size says.  It     *)
(* holds even when a write has missed the file.                            *)
(***************************************************************************)
BlobIffLarge ==
  \A r \in {rec, stored} :
    /\ r.blob <=> r.size > Threshold
    /\ Len(r.inline) = IF r.blob THEN 0 ELSE r.size

(***************************************************************************)
(* A record and its disk file come and go together through any migrations: *)
(* a blob has a disk file of its size, inline data has none that a later   *)
(* migration, which does not truncate, would uncover, and no unlink leaves *)
(* a disk file behind.                                                     *)
(***************************************************************************)
DiskFileMatches == ~leaked /\ (~tainted => Consistent(rec))

(* The open file uses a descriptor that is not on the file's disk file.     *)
Stray == rec.blob /\ fd \in {OnOrphan, Dangling}

(***************************************************************************)
(* Every read, at every offset and size, returns what the writes and       *)
(* truncates so far have put there, wherever the data is and however often *)
(* it has moved, unless the file was truncated under the threshold and     *)
(* above it again behind an open descriptor.                               *)
(***************************************************************************)
ReadsExact ==
  ~tainted /\ ~Stray /\ fd # Closed =>
    \A offset \in 0 .. MaxFileSize, size \in 0 .. MaxFileSize :
      ReadResult(offset, size) = Slice(content, offset, size)

(***************************************************************************)
(* Once the file is closed, the store and the disk file hold its content:  *)
(* a crash between two calls then loses nothing, although Write leaves the *)
(* record in memory and Truncate resets the mode of an open handle.        *)
(***************************************************************************)
DurableWhenClosed ==
  ~tainted /\ fd = Closed => Consistent(stored) /\ DataOf(stored) = content

(***************************************************************************)
(* Record, disk file and content agree: has_blob with the size, the disk   *)
(* file with the record, and both with what was written once it is closed. *)
(***************************************************************************)
DataKept == BlobIffLarge /\ DiskFileMatches /\ DurableWhenClosed

(* For TLC: bytes are only compared, so that any two may change places.     *)
ByteSymmetry == Permutations(Bytes)
=============================================================================
