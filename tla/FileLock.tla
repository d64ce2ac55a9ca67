------------------------------ MODULE FileLock ------------------------------
(***************************************************************************)
(* The lock that keeps a database to one process: LockFile and UnlockFile  *)
(* of util/env_posix.cc over the record locks of POSIX, as DBImpl and      *)
(* DestroyDB (db/db_impl.cc) use them.  A record lock belongs to a process *)
(* and a file, and closing any descriptor of the file gives it up.         *)
(***************************************************************************)
EXTENDS Naturals

CONSTANTS Procs, NoProc,   \* processes
          Slots,           \* opens a process may have at once
          MaxFiles,        \* bound on the files that are LOCK one after another
          Destroys         \* whether DestroyDB is called

ASSUME FileLockAssumption == NoProc \notin Procs /\ MaxFiles \in Nat /\ Destroys \in BOOLEAN

VARIABLES path,        \* the file the name LOCK leads to; 0: none
          files,       \* how many there have been
          owner,       \* file -> process that holds the record lock
          open         \* process, slot -> the use made of the database

lockVars == <<path, files, owner, open>>

Closed == [st |-> "closed", file |-> 0, destroy |-> FALSE]
Put(p, s, u) == open' = [open EXCEPT ![p][s] = u]

(* LockFile opens the file, making it if need be ...                        *)
OpenFile(p, s, destroy) ==
  /\ open[p][s] = Closed
  /\ path = 0 => files < MaxFiles
  /\ files' = IF path = 0 THEN files + 1 ELSE files
  /\ path' = IF path = 0 THEN files + 1 ELSE path
  /\ Put(p, s, [st |-> "opened", file |-> path', destroy |-> destroy])
  /\ UNCHANGED owner

(* Mutant: a lock held by another process is taken over.                    *)
GrantsAll(p, f) == TRUE

(* fcntl(F_SETLK): a process is never refused its own lock.                 *)
Grants(p, f) == owner[f] \in {NoProc, p}

(* ... and asks for the lock; refused, it closes the file.                  *)
LockOrUnlock(p, s) ==
  LET f == open[p][s].file
  IN  /\ open[p][s].st = "opened"
      /\ IF Grants(p, f)
         THEN owner' = [owner EXCEPT ![f] = p] /\ Put(p, s, [open[p][s] EXCEPT !.st = "locked"])
         ELSE UNCHANGED owner /\ Put(p, s, Closed)
      /\ UNCHANGED <<path, files>>

(* UnlockFile; DestroyDB has the file to delete yet.                        *)
UnlockFile(p, s) ==
  /\ open[p][s].st = "locked"
  /\ owner' = [owner EXCEPT ![open[p][s].file] = NoProc]
  /\ Put(p, s, IF open[p][s].destroy THEN [open[p][s] EXCEPT !.st = "deleting"] ELSE Closed)
  /\ UNCHANGED <<path, files>>

(* DestroyDB takes the lock, deletes the files of the database, gives the   *)
(* lock up and only then deletes LOCK.                                      *)
DestroyDB(p, s) == Destroys /\ OpenFile(p, s, TRUE)

DeleteLockFile(p, s) ==
  /\ open[p][s].st = "deleting"
  /\ path' = 0
  /\ Put(p, s, Closed)
  /\ UNCHANGED <<files, owner>>

(* Mutant: the lock of a process that is gone stays.                        *)
ReleasedNot(p) == owner

(* The system closes the files of a process that exits.                     *)
Released(p) == [f \in DOMAIN owner |-> IF owner[f] = p THEN NoProc ELSE owner[f]]

Exit(p) ==
  /\ \E s \in Slots : open[p][s] # Closed
  /\ owner' = Released(p)
  /\ open' = [open EXCEPT ![p] = [s \in Slots |-> Closed]]
  /\ UNCHANGED <<path, files>>

LockInit ==
  /\ path = 0 /\ files = 0
  /\ owner = [f \in 1 .. MaxFiles |-> NoProc]
  /\ open = [p \in Procs |-> [s \in Slots |-> Closed]]

LockNext ==
  \E p \in Procs :
    \/ Exit(p)
    \/ \E s \in Slots :
         \/ OpenFile(p, s, FALSE)
         \/ LockOrUnlock(p, s)
         \/ UnlockFile(p, s)

LockNextDestroy ==
  \/ LockNext
  \/ \E p \in Procs, s \in Slots : DestroyDB(p, s) \/ DeleteLockFile(p, s)

LockSpec == LockInit /\ [][LockNext]_lockVars
LockSpecDestroy == LockInit /\ [][LockNextDestroy]_lockVars

-----------------------------------------------------------------------------
Users == {p \in Procs : \E s \in Slots : open[p][s].st = "locked" /\ ~open[p][s].destroy}

(* A database is open in one process at a time.                             *)
OneProcess == \A p, q \in Users : p = q

(* The lock is held only by a process that has the database open: one that  *)
(* exits leaves nobody locked out.                                          *)
NoStaleLock ==
  \A f \in DOMAIN owner : owner[f] # NoProc =>
    \E s \in Slots : open[owner[f]][s].st = "locked" /\ open[owner[f]][s].file = f
=============================================================================
