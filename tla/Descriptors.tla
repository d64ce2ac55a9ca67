---------------------------- MODULE Descriptors -----------------------------
(***************************************************************************)
(* The descriptors of TableFSWrapper (fs/fswrapper.cpp) when several       *)
(* threads of fsbench share one wrapper, each opening, writing and closing *)
(* one file after another (SmallFileCreate, SmallFileQueryTest).  Nothing  *)
(* is locked: a step is one access to freefd, offsets or fis.  An open of  *)
(* TableFS is known by its number.                                         *)
(***************************************************************************)
EXTENDS Integers, Sequences, FiniteSets

CONSTANTS Threads,
          FdLimit,     \* FDLIMIT
          MaxOpens     \* bound on the opens of the run

VARIABLES freefd,      \* descriptor -> is it taken
          fis,         \* descriptor -> fi.fh, the open it stands for, 0 at first
          offsets,
          pc, fd,      \* of each thread: what it does next, and on which descriptor
          arg,         \* of each thread in Write: the open and the offset it passes on
          mine,        \* of each thread: the open it made last
          opens,       \* the opens so far: is it released, and the writes to it
          raced,       \* a thread has taken a descriptor that was taken
          strayed      \* a released open has been used: anything may follow

vars == <<freefd, fis, offsets, pc, fd, arg, mine, opens, raced, strayed>>

Fds == 0 .. FdLimit - 1

Init ==
  /\ freefd = [d \in Fds |-> FALSE]
  /\ fis = [d \in Fds |-> 0]
  /\ offsets = [d \in Fds |-> 0]
  /\ pc = [t \in Threads |-> "idle"]
  /\ fd = [t \in Threads |-> 0]
  /\ arg = [t \in Threads |-> <<0, 0>>]
  /\ mine = [t \in Threads |-> 0]
  /\ opens = <<>>
  /\ raced = FALSE
  /\ strayed = FALSE

Goto(t, from, to) == ~strayed /\ pc[t] = from /\ pc' = [pc EXCEPT ![t] = to]

(* Open begins with GetFileDescriptor, at descriptor 0.                     *)
CallOpen(t) ==
  /\ Goto(t, "idle", "test")
  /\ Len(opens) + Cardinality({u \in Threads : pc[u] \in {"test", "take", "offset", "open"}}) < MaxOpens
  /\ fd' = [fd EXCEPT ![t] = 0]
  /\ UNCHANGED <<freefd, fis, offsets, arg, mine, opens, raced, strayed>>

(* The next step of GetFileDescriptor's loop; without a free descriptor     *)
(* Open goes on with paths[-1], and the thread is not followed further.     *)
TestFree(t) ==
  /\ \/ ~freefd[fd[t]] /\ Goto(t, "test", "take") /\ UNCHANGED fd
     \/ /\ freefd[fd[t]] /\ fd[t] < FdLimit - 1
        /\ Goto(t, "test", "test") /\ fd' = [fd EXCEPT ![t] = @ + 1]
     \/ freefd[fd[t]] /\ fd[t] = FdLimit - 1 /\ Goto(t, "test", "gone") /\ UNCHANGED fd
  /\ UNCHANGED <<freefd, fis, offsets, arg, mine, opens, raced, strayed>>

Take(t) ==
  /\ Goto(t, "take", "offset")
  /\ freefd' = [freefd EXCEPT ![fd[t]] = TRUE]
  /\ raced' = (raced \/ freefd[fd[t]])
  /\ UNCHANGED <<fis, offsets, fd, arg, mine, opens, strayed>>

(* Mutant: a descriptor taken from its last user keeps its offset.          *)
KeepOffset(t) ==
  /\ Goto(t, "offset", "open")
  /\ UNCHANGED <<freefd, fis, offsets, fd, arg, mine, opens, raced, strayed>>

(* paths, offsets and flags of the descriptor                               *)
ResetOffset(t) ==
  /\ Goto(t, "offset", "open")
  /\ offsets' = [offsets EXCEPT ![fd[t]] = 0]
  /\ UNCHANGED <<freefd, fis, fd, arg, mine, opens, raced, strayed>>

(* TableFS::Open stores its file handle in fis[fd].                         *)
OpenSucceeds(t) ==
  /\ Goto(t, "open", "use")
  /\ opens' = Append(opens, [released |-> FALSE, writes |-> {}])
  /\ fis' = [fis EXCEPT ![fd[t]] = Len(opens')]
  /\ mine' = [mine EXCEPT ![t] = Len(opens')]
  /\ UNCHANGED <<freefd, offsets, fd, arg, raced, strayed>>

(* Mutant: the descriptor is not given back.                                *)
OpenKeepsFd(t) ==
  /\ Goto(t, "open", "idle")
  /\ UNCHANGED <<freefd, fis, offsets, fd, arg, mine, opens, raced, strayed>>

(* There is no such file: the descriptor is given back.                     *)
OpenFails(t) ==
  /\ Goto(t, "open", "idle")
  /\ freefd' = [freefd EXCEPT ![fd[t]] = FALSE]
  /\ UNCHANGED <<fis, offsets, fd, arg, mine, opens, raced, strayed>>
-----------------------------------------------------------------------------
(* Write or Read: what is passed to TableFS, its work, and the new offset.  *)
CallWrite(t) ==
  /\ Goto(t, "use", "write")
  /\ arg' = [arg EXCEPT ![t] = <<fis[fd[t]], offsets[fd[t]]>>]
  /\ UNCHANGED <<freefd, fis, offsets, fd, mine, opens, raced, strayed>>

UseOpen(t) ==
  /\ Goto(t, "write", "advance")
  /\ IF opens[arg[t][1]].released
     THEN strayed' = TRUE /\ UNCHANGED opens
     ELSE opens' = [opens EXCEPT ![arg[t][1]].writes = @ \cup {<<t, arg[t][2]>>}] /\ UNCHANGED strayed
  /\ UNCHANGED <<freefd, fis, offsets, fd, arg, mine, raced>>

Advance(t) ==
  /\ Goto(t, "advance", "close")
  /\ offsets' = [offsets EXCEPT ![fd[t]] = @ + 1]
  /\ UNCHANGED <<freefd, fis, fd, arg, mine, opens, raced, strayed>>

(* Mutant: the descriptor is given back with the file, and again after it.  *)
ReleaseFreesToo(t) ==
  /\ Goto(t, "close", "free")
  /\ opens' = [opens EXCEPT ![fis[fd[t]]].released = TRUE]
  /\ freefd' = [freefd EXCEPT ![fd[t]] = FALSE]
  /\ UNCHANGED <<fis, offsets, fd, arg, mine, raced, strayed>>

(* Close: TableFS::Release deletes the file handle it finds in fis[fd].     *)
Release(t) ==
  /\ Goto(t, "close", "free")
  /\ IF opens[fis[fd[t]]].released
     THEN strayed' = TRUE /\ UNCHANGED opens
     ELSE opens' = [opens EXCEPT ![fis[fd[t]]].released = TRUE] /\ UNCHANGED strayed
  /\ UNCHANGED <<freefd, fis, offsets, fd, arg, mine, raced>>

(* ReleaseFileDescriptor                                                    *)
Free(t) ==
  /\ Goto(t, "free", "idle")
  /\ freefd' = [freefd EXCEPT ![fd[t]] = FALSE]
  /\ UNCHANGED <<fis, offsets, fd, arg, mine, opens, raced, strayed>>

Next ==
  \E t \in Threads :
    \/ CallOpen(t) \/ TestFree(t) \/ Take(t) \/ ResetOffset(t) \/ OpenSucceeds(t) \/ OpenFails(t)
    \/ CallWrite(t) \/ UseOpen(t) \/ Advance(t) \/ Release(t) \/ Free(t)

Spec == Init /\ [][Next]_vars

-----------------------------------------------------------------------------
Holding(t) == pc[t] \in {"offset", "open", "use", "write", "advance", "close", "free"}
Opened(t) == pc[t] \in {"use", "write", "advance", "close"}

(***************************************************************************)
(* Only the gap between the test and the store of GetFileDescriptor lets   *)
(* two threads have one descriptor.  As long as none has slipped through   *)
(* it, a taken descriptor has one user and stands for the file that user   *)
(* opened, since Close releases the file before the descriptor.            *)
(***************************************************************************)
OneUserUnlessRaced ==
  ~raced =>
    /\ ~strayed
    /\ \A t, u \in Threads : Holding(t) /\ Holding(u) /\ fd[t] = fd[u] => t = u
    /\ \A d \in Fds : freefd[d] <=> \E t \in Threads : Holding(t) /\ fd[t] = d
    /\ \A t \in Threads : Opened(t) => fis[fd[t]] = mine[t] /\ ~opens[mine[t]].released

(***************************************************************************)
(* Until then every write goes to the file its thread opened, at offset 0, *)
(* and when a thread is idle its last open has been released.              *)
(***************************************************************************)
WritesOwnFile ==
  ~raced => \A t \in Threads :
    /\ pc[t] = "idle" /\ mine[t] # 0 => opens[mine[t]].released
    /\ mine[t] # 0 => opens[mine[t]].writes \subseteq {<<t, 0>>}

(***************************************************************************)
(* Whatever descriptors were shared, none stays taken once every thread    *)
(* that is followed has closed its file.                                   *)
(***************************************************************************)
DescriptorsReturned ==
  ~strayed /\ (\A t \in Threads : pc[t] \in {"idle", "gone"}) => \A d \in Fds : ~freefd[d]

(***************************************************************************)
(* cache.h: "handle must not have been released yet".  A thread in Close   *)
(* releases an open that is not released.                                  *)
(***************************************************************************)
ReleasedOnce == \A t \in Threads : pc[t] = "close" => ~opens[fis[fd[t]]].released
=============================================================================
