------------------------------- MODULE MemEnv -------------------------------
(***************************************************************************)
(* The environment that keeps files in memory (helpers/memenv/memenv.cc):  *)
(* reference-counted FileStates made of blocks, the map from names to      *)
(* them, and readers and writers used by several threads.  Operations of   *)
(* the environment run under mutex_; a handle is closed without it, and    *)
(* deletes the file in a step of its own when it held the last reference.  *)
(* Byte i of the file with number f is the pair <<f, i>>, so bytes that go *)
(* astray are seen.                                                        *)
(***************************************************************************)
EXTENDS Naturals, Sequences, FiniteSets

CONSTANTS Names, Handles,
          kBlockSize,
          MaxFiles,      \* bound on the FileStates made
          MaxSize,       \* bound on the size of a file
          MaxIO          \* bound on the bytes of one read, append or skip

VARIABLES made,        \* FileStates made so far
          file,        \* number -> the FileState
          file_map_,   \* name -> number; 0: no such file
          alive,       \* the environment has not been destroyed
          handle,      \* handle -> what it is open on
          answer       \* of a read: what was asked for and the bytes given

vars == <<made, file, file_map_, alive, handle, answer>>

Numbers == 1 .. MaxFiles
Junk == <<0, 0>>
NoAnswer == [from |-> Junk, n |-> 0, bytes |-> <<>>, ok |-> TRUE]
Freed == [live |-> FALSE, refs |-> 0, blocks |-> <<>>, size |-> 0]
Fresh == [live |-> TRUE, refs |-> 0, blocks |-> <<>>, size |-> 0]
Shut == [kind |-> "shut", file |-> 0, pos |-> 0]

LesserOf(a, b) == IF a < b THEN a ELSE b

(* Where the next byte goes in the last block; 0: in a new one.             *)
AppendOffset(size) == size % kBlockSize

(* FileState::Append fills the last block, then new ones.                   *)
RECURSIVE Appended(_, _)
Appended(st, src) ==
  IF src = <<>> THEN st
  ELSE LET offset == AppendOffset(st.size)
           blocks == IF offset # 0 THEN st.blocks
                     ELSE Append(st.blocks, [i \in 0 .. kBlockSize - 1 |-> Junk])
           avail  == LesserOf(kBlockSize - offset, Len(src))
           last   == [i \in 0 .. kBlockSize - 1 |->
                        IF i \in offset .. offset + avail - 1 THEN src[i - offset + 1]
                        ELSE blocks[Len(blocks)][i]]
       IN  Appended([st EXCEPT !.blocks = [blocks EXCEPT ![Len(blocks)] = last],
                               !.size = @ + avail],
                    SubSeq(src, avail + 1, Len(src)))

(* The copying loop of FileState::Read.                                     *)
RECURSIVE Gathered(_, _, _, _)
Gathered(st, block, block_offset, n) ==
  IF n = 0 THEN <<>>
  ELSE LET avail == LesserOf(kBlockSize - block_offset, n)
       IN  [i \in 1 .. avail |-> st.blocks[block + 1][block_offset + i - 1]]
           \o Gathered(st, block + 1, 0, n - avail)

(* Mutant: a place at the end of a block is looked for past its end.        *)
BlockOfEnd(offset) ==
  IF offset = 0 THEN [block |-> 0, at |-> 0]
  ELSE [block |-> (offset - 1) \div kBlockSize, at |-> (offset - 1) % kBlockSize]

(* The block an offset is in, and where in it.                              *)
BlockOf(offset) == [block |-> offset \div kBlockSize, at |-> offset % kBlockSize]

(* FileState::Read: an error past the end, fewer bytes at the end.          *)
FileRead(st, offset, n) ==
  IF offset > st.size THEN [ok |-> FALSE, bytes |-> <<>>]
  ELSE [ok |-> TRUE, bytes |-> Gathered(st, BlockOf(offset).block, BlockOf(offset).at,
                                        LesserOf(n, st.size - offset))]

-----------------------------------------------------------------------------
Ref(st) == [st EXCEPT !.refs = @ + 1]

(* Mutant: the file goes when one reference is left.                        *)
LastReferenceEarly(st) == st.refs <= 1

(* FileState::Unref deletes the file when the count it left is not positive.*)
LastReference(st) == st.refs <= 0

Unref(st) ==
  LET less == [st EXCEPT !.refs = @ - 1]
  IN  IF LastReference(less) THEN Freed ELSE less

(* Mutant: the name goes and the reference the map had stays.               *)
DeleteFileKeepRef(fs, name) == fs

(* The files once DeleteFileInternal(name) has dropped the map's reference. *)
DeleteFileInternal(fs, name) ==
  IF file_map_[name] = 0 THEN fs
  ELSE [fs EXCEPT ![file_map_[name]] = Unref(@)]

Opens(h, kind, f) == handle' = [handle EXCEPT ![h] = [kind |-> kind, file |-> f, pos |-> 0]]

(* NewSequentialFile and NewRandomAccessFile                                *)
NewReader(h, kind, name) ==
  /\ alive /\ handle[h] = Shut /\ file_map_[name] # 0
  /\ file' = [file EXCEPT ![file_map_[name]] = Ref(@)]
  /\ Opens(h, kind, file_map_[name])
  /\ answer' = NoAnswer
  /\ UNCHANGED <<made, file_map_, alive>>

NewWritableFile(h, name) ==
  /\ alive /\ handle[h] = Shut /\ made < MaxFiles
  /\ made' = made + 1
  /\ file' = [DeleteFileInternal(file, name) EXCEPT ![made + 1] = Ref(Ref(Fresh))]
  /\ file_map_' = [file_map_ EXCEPT ![name] = made + 1]
  /\ Opens(h, "writer", made + 1)
  /\ answer' = NoAnswer
  /\ UNCHANGED alive

DeleteFile(name) ==
  /\ alive /\ file_map_[name] # 0
  /\ file' = DeleteFileInternal(file, name)
  /\ file_map_' = [file_map_ EXCEPT ![name] = 0]
  /\ answer' = NoAnswer
  /\ UNCHANGED <<made, alive, handle>>

(* RenameFile deletes the target, then looks src up again; the name src is  *)
(* erased last, also when it is the target.                                 *)
RenameFile(src, target) ==
  /\ alive /\ file_map_[src] # 0
  /\ file' = DeleteFileInternal(file, target)
  /\ file_map_' = [file_map_ EXCEPT ![target] = file_map_[src], ![src] = 0]
  /\ answer' = NoAnswer
  /\ UNCHANGED <<made, alive, handle>>

(* ~InMemoryEnv, with handles still open                                    *)
DestroyEnv ==
  /\ alive
  /\ alive' = FALSE
  /\ file' = [f \in Numbers |-> IF \E n \in Names : file_map_[n] = f THEN Unref(file[f]) ELSE file[f]]
  /\ file_map_' = [n \in Names |-> 0]
  /\ answer' = NoAnswer
  /\ UNCHANGED <<made, handle>>

-----------------------------------------------------------------------------
(* A writer has its file to itself while it appends.                        *)
AppendTo(h, n) ==
  LET f == handle[h].file
  IN  /\ handle[h].kind = "writer"
      /\ file[f].size + n <= MaxSize
      /\ file' = [file EXCEPT ![f] = Appended(@, [i \in 1 .. n |-> <<f, file[f].size + i>>])]
      /\ answer' = NoAnswer
      /\ UNCHANGED <<made, file_map_, alive, handle>>

Answers(f, offset, n, r) ==
  answer' = [from |-> <<f, offset>>, n |-> n, bytes |-> r.bytes, ok |-> r.ok]

(* Mutant: the position moves on by what was asked for.                     *)
PosAsked(pos, n, r) == pos + n

(* A sequential reader moves on by the bytes it got.                        *)
PosAfter(pos, n, r) == IF r.ok THEN pos + Len(r.bytes) ELSE pos

SequentialRead(h, n) ==
  LET f == handle[h].file
      r == FileRead(file[f], handle[h].pos, n)
  IN  /\ handle[h].kind = "sequential"
      /\ Answers(f, handle[h].pos, n, r)
      /\ handle' = [handle EXCEPT ![h].pos = PosAfter(@, n, r)]
      /\ UNCHANGED <<made, file, file_map_, alive>>

Skip(h, n) ==
  LET st == file[handle[h].file]
  IN  /\ handle[h].kind = "sequential"
      /\ handle[h].pos <= st.size
      /\ handle' = [handle EXCEPT ![h].pos = @ + LesserOf(n, st.size - @)]
      /\ answer' = NoAnswer
      /\ UNCHANGED <<made, file, file_map_, alive>>

RandomRead(h, offset, n) ==
  LET f == handle[h].file
  IN  /\ handle[h].kind = "random"
      /\ Answers(f, offset, n, FileRead(file[f], offset, n))
      /\ UNCHANGED <<made, file, file_map_, alive, handle>>

(* A handle's destructor: the count goes down, and the thread that brought  *)
(* it to zero deletes the file after it has let the lock of the count go.   *)
CloseHandle(h) ==
  LET f == handle[h].file
      less == [file[f] EXCEPT !.refs = @ - 1]
  IN  /\ handle[h].kind \in {"sequential", "random", "writer"}
      /\ file' = [file EXCEPT ![f] = less]
      /\ handle' = [handle EXCEPT ![h] = IF LastReference(less) THEN [@ EXCEPT !.kind = "deleting"] ELSE Shut]
      /\ answer' = NoAnswer
      /\ UNCHANGED <<made, file_map_, alive>>

DeleteState(h) ==
  /\ handle[h].kind = "deleting"
  /\ file' = [file EXCEPT ![handle[h].file] = Freed]
  /\ handle' = [handle EXCEPT ![h] = Shut]
  /\ answer' = NoAnswer
  /\ UNCHANGED <<made, file_map_, alive>>

-----------------------------------------------------------------------------
Init ==
  /\ made = 0 /\ alive = TRUE /\ answer = NoAnswer
  /\ file = [f \in Numbers |-> Freed]
  /\ file_map_ = [n \in Names |-> 0]
  /\ handle = [h \in Handles |-> Shut]

Next ==
  \/ DestroyEnv
  \/ \E n \in Names : DeleteFile(n) \/ \E t \in Names : RenameFile(n, t)
  \/ \E h \in Handles :
       \/ \E n \in Names, k \in {"sequential", "random"} : NewReader(h, k, n)
       \/ \E n \in Names : NewWritableFile(h, n)
       \/ \E n \in 1 .. MaxIO : AppendTo(h, n) \/ SequentialRead(h, n) \/ Skip(h, n)
       \/ \E o \in 0 .. MaxSize, n \in 1 .. MaxIO : RandomRead(h, o, n)
       \/ CloseHandle(h)
       \/ DeleteState(h)

Spec == Init /\ [][Next]_vars

-----------------------------------------------------------------------------
Users(f) == {h \in Handles : handle[h].file = f /\ handle[h].kind # "deleting"}
NamesOf(f) == {n \in Names : file_map_[n] = f}

(* The state has its type: blocks hold the size of a file exactly, and no   *)
(* reader is past the end of its file (so Skip never fails).                *)
TypeOK ==
  /\ made \in 0 .. MaxFiles /\ alive \in BOOLEAN
  /\ file_map_ \in [Names -> 0 .. MaxFiles]
  /\ \A f \in Numbers :
       /\ file[f].size \in 0 .. MaxSize
       /\ Len(file[f].blocks) = (file[f].size + kBlockSize - 1) \div kBlockSize
  /\ \A h \in Handles :
       handle[h].kind = "sequential" => handle[h].pos <= file[handle[h].file].size

(* A reader and a writer hold a file that has not been deleted, whatever    *)
(* other threads delete, rename, write anew or close, and so does a name.   *)
NoDanglingFile ==
  \A f \in Numbers : Users(f) # {} \/ NamesOf(f) # {} => file[f].live /\ file[f].refs > 0

(* A file nobody can reach is gone, or is being deleted by one thread.      *)
NoLeak ==
  \A f \in Numbers : file[f].live /\ Users(f) = {} /\ NamesOf(f) = {} =>
    Cardinality({h \in Handles : handle[h].file = f}) = 1

(* A read returns the bytes appended at that place, across blocks, and      *)
(* fails only past the end.                                                 *)
ReadsWritten ==
  /\ \A i \in DOMAIN answer.bytes : answer.bytes[i] = <<answer.from[1], answer.from[2] + i>>
  /\ Len(answer.bytes) <= answer.n

(* Renaming a file leads the target to it.                                  *)
RenameKeepsFile ==
  [][\A n, t \in Names : RenameFile(n, t) => file_map_'[t] = file_map_[n]]_vars
=============================================================================
