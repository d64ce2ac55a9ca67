------------------------------ MODULE WriteQueue ------------------------------
(***************************************************************************)
(* How LevelDB's writers queue up, group their batches, make room and wait *)
(* for the background thread (DBImpl::Write, BuildBatchGroup,              *)
(* MakeRoomForWrite, TEST_CompactMemTable, BackgroundCall and ~DBImpl in   *)
(* db/db_impl.cc).  A step is what a thread does between taking mutex_ and *)
(* giving it up.  A write is known by its place in the order of arrival;   *)
(* sizes that limit a group are left open.                                 *)
(***************************************************************************)
EXTENDS Naturals, Sequences, FiniteSets, Functions

CONSTANTS Threads,
          MaxWrites,      \* bound on the calls of Write
          MaxFaults,      \* bound on the operations that fail
          WriteBuffer,    \* entries a memtable holds before it is full
          Slowdown, Stop, \* kL0_SlowdownWritesTrigger, kL0_StopWritesTrigger
          Trigger         \* kL0_CompactionTrigger

ASSUME TriggersAssumption == Trigger <= Slowdown /\ Slowdown <= Stop /\ Trigger > 0

VARIABLES writers,   \* writers_, front first
          w,         \* the Writer of every thread and where the thread is
          count,     \* calls of Write so far
          faults,    \* operations that failed
          log,       \* the writes in the current log file
          durable,   \* the writes in logs when they were synced
          mem, imm,  \* the writes in the memtables
          has_imm,   \* imm_ is not NULL
          tables,    \* the writes in table files
          l0,        \* files in level 0
          bg,        \* the background work: none, queued, flush, compact, end
          acked,     \* the writes that returned OK
          closing    \* ~DBImpl: no, waiting, done

db == <<log, durable, mem, imm, has_imm, tables, l0>>
vars == <<writers, w, count, faults, db, bg, acked, closing>>

NoWriter == [pc |-> "idle", id |-> 0, sync |-> FALSE, force |-> FALSE, delay |-> FALSE,
             awake |-> TRUE, done |-> FALSE, ok |-> TRUE, group |-> <<>>,
             before |-> {}]
NullBatch(t) == w[t].pc # "idle" /\ w[t].id = 0

Init ==
  /\ writers = <<>> /\ w = [t \in Threads |-> NoWriter]
  /\ count = 0 /\ faults = 0
  /\ log = <<>> /\ durable = {}
  /\ mem = <<>> /\ imm = <<>> /\ has_imm = FALSE /\ tables = {} /\ l0 = 0
  /\ bg = "none" /\ acked = {} /\ closing = "no"

(* bg_cv_.SignalAll() *)
SignalAll(ws) ==
  [t \in Threads |-> IF ws[t].pc \in {"room", "settle"} THEN [ws[t] EXCEPT !.awake = TRUE]
                     ELSE ws[t]]

(* Mutant: shutting_down_ is not looked at.                                 *)
ScheduleWhileClosing(state, hasImm) ==
  IF state = "none" /\ (hasImm \/ l0 >= Trigger) THEN "queued" ELSE state

(* MaybeScheduleCompaction; bg # "none" is bg_compaction_scheduled_.        *)
MaybeScheduleCompaction(state, hasImm) ==
  IF state = "none" /\ closing = "no" /\ (hasImm \/ l0 >= Trigger)
  THEN "queued" ELSE state
-----------------------------------------------------------------------------
(* Write up to the wait; TEST_CompactMemTable calls it with no batch.       *)
Enqueue(t, sync, null) ==
  /\ w[t].pc = "idle" /\ count < MaxWrites /\ closing = "no"
  /\ count' = count + 1
  /\ writers' = Append(writers, t)
  /\ LET front == writers = <<>>
     IN w' = [w EXCEPT ![t] =
                [pc |-> IF front THEN "room" ELSE "queue", id |-> IF null THEN 0 ELSE count + 1,
                 sync |-> sync, force |-> null, delay |-> ~null, awake |-> front, done |-> FALSE,
                 ok |-> TRUE, group |-> <<>>, before |-> IF null THEN {a.id : a \in acked} ELSE {}]]
  /\ UNCHANGED <<faults, db, bg, acked, closing>>

(* A thread that returns from w.cv.Wait() finds itself done, or in front,   *)
(* or waits again; a wake-up may be spurious.                               *)
Returns(t, ok) ==
  /\ acked' = IF ok /\ w[t].id # 0 THEN acked \cup {[id |-> w[t].id, sync |-> w[t].sync]} ELSE acked
  /\ w' = [w EXCEPT ![t] = IF ok /\ w[t].id = 0 THEN [@ EXCEPT !.pc = "settle", !.awake = TRUE]
                           ELSE NoWriter]

(* Mutant: the place in the queue is not checked again after a wake-up.     *)
WakesToLead(t) ==
  /\ w[t].pc = "queue" /\ w[t].awake
  /\ \/ w[t].done /\ Returns(t, w[t].ok)
     \/ ~w[t].done /\ w' = [w EXCEPT ![t].pc = "room"] /\ UNCHANGED acked
  /\ UNCHANGED <<writers, count, faults, db, bg, closing>>

Wakes(t) ==
  /\ w[t].pc = "queue" /\ w[t].awake
  /\ \/ w[t].done /\ Returns(t, w[t].ok)
     \/ /\ ~w[t].done
        /\ w' = [w EXCEPT ![t].pc = IF Head(writers) = t THEN "room" ELSE "queue",
                          ![t].awake = Head(writers) = t]
        /\ UNCHANGED acked
  /\ UNCHANGED <<writers, count, faults, db, bg, closing>>

SpuriousWakeup(t) ==
  /\ ~w[t].awake
  /\ w' = [w EXCEPT ![t].awake = TRUE]
  /\ UNCHANGED <<writers, count, faults, db, bg, acked, closing>>
-----------------------------------------------------------------------------
(* Mutant: a synchronous write may join a group that is not synced.         *)
MayJoinAny(first, next) == TRUE

(* The rule of BuildBatchGroup for one more writer.                         *)
MayJoin(first, next) == next.sync => first.sync

(* The groups BuildBatchGroup may form behind the first writer: the sizes   *)
(* decide where a group ends, but only a writer with a batch can end it.    *)
Groups ==
  {n \in 1 .. Len(writers) :
     /\ \A i \in 2 .. n : MayJoin(w[writers[1]], w[writers[i]])
     /\ n < Len(writers) => \/ ~MayJoin(w[writers[1]], w[writers[n + 1]])
                            \/ ~NullBatch(writers[n + 1])}

(* Mutant: the batch of the first writer is used, not the joint one.        *)
IdsOfFirst(group) == <<w[Head(group)].id>>

(* The batches of a group in their order, without the NULL ones.            *)
Batches(group) == {i \in DOMAIN group : ~NullBatch(group[i])}

InOrder(places) ==
  CHOOSE order \in [1 .. Cardinality(places) -> places] :
    \A i, j \in 1 .. Cardinality(places) : i < j => order[i] < order[j]

Ids(group) ==
  LET order == InOrder(Batches(group))
  IN [i \in 1 .. Cardinality(Batches(group)) |-> w[group[order[i]]].id]

(* The end of Write: the group is popped, its members are told, and so is   *)
(* the new head of the queue.                                               *)
WokenByLeader(ws, rest, group, ok) ==
  [t \in Threads |->
     IF t \in Range(Tail(group)) THEN [ws[t] EXCEPT !.done = TRUE, !.ok = ok, !.awake = TRUE]
     ELSE IF rest # <<>> /\ t = Head(rest) THEN [ws[t] EXCEPT !.awake = TRUE]
     ELSE ws[t]]

(* Mutant: the new head of the queue is not told.                           *)
PopGroupQuietly(t, group, ok) ==
  /\ writers' = SubSeq(writers, Len(group) + 1, Len(writers))
  /\ LET woken == WokenByLeader(w, <<>>, group, ok)
     IN w' = [woken EXCEPT ![t] = IF ok /\ w[t].id = 0
                                  THEN [@ EXCEPT !.pc = "settle", !.awake = TRUE] ELSE NoWriter]
  /\ acked' = IF ok /\ w[t].id # 0 THEN acked \cup {[id |-> w[t].id, sync |-> w[t].sync]} ELSE acked

(* Mutant: only the leader leaves the queue.                                *)
PopLeader(t, group, ok) ==
  /\ writers' = Tail(writers)
  /\ w' = [WokenByLeader(w, writers', group, ok) EXCEPT ![t] = NoWriter]
  /\ UNCHANGED acked

PopGroup(t, group, ok) ==
  /\ writers' = SubSeq(writers, Len(group) + 1, Len(writers))
  /\ LET woken == WokenByLeader(w, writers', group, ok)
     IN w' = [woken EXCEPT ![t] = IF ok /\ w[t].id = 0
                                  THEN [@ EXCEPT !.pc = "settle", !.awake = TRUE] ELSE NoWriter]
  /\ acked' = IF ok /\ w[t].id # 0 THEN acked \cup {[id |-> w[t].id, sync |-> w[t].sync]} ELSE acked

(* MakeRoomForWrite, one round of its loop by the writer in front.          *)
AtFront(t) == w[t].pc = "room" /\ w[t].awake
Delays(t) == w[t].delay /\ l0 >= Slowdown
HasRoom(t) == ~w[t].force /\ Len(mem) <= WriteBuffer
MustWait == has_imm \/ l0 >= Stop

DelayOnce(t) ==
  /\ AtFront(t) /\ Delays(t)
  /\ w' = [w EXCEPT ![t].delay = FALSE]
  /\ UNCHANGED <<writers, count, faults, db, bg, acked, closing>>

WaitForRoom(t) ==
  /\ AtFront(t) /\ ~Delays(t) /\ ~HasRoom(t) /\ MustWait
  /\ w' = [w EXCEPT ![t].awake = FALSE]
  /\ UNCHANGED <<writers, count, faults, db, bg, acked, closing>>

(* A new log file and a new memtable; NewWritableFile may fail.             *)
SwitchMemTable(t) ==
  /\ AtFront(t) /\ ~Delays(t) /\ ~HasRoom(t) /\ ~MustWait
  /\ log' = <<>> /\ mem' = <<>> /\ imm' = mem /\ has_imm' = TRUE
  /\ bg' = MaybeScheduleCompaction(bg, TRUE)
  /\ w' = [w EXCEPT ![t].force = FALSE]
  /\ UNCHANGED <<writers, count, faults, durable, tables, l0, acked, closing>>

SwitchFails(t) ==
  /\ AtFront(t) /\ ~Delays(t) /\ ~HasRoom(t) /\ ~MustWait
  /\ faults < MaxFaults /\ faults' = faults + 1
  /\ PopGroup(t, <<t>>, FALSE)
  /\ UNCHANGED <<count, db, bg, closing>>

(* There is room: a NULL batch is done; a batch leads a group.              *)
LeadGroup(t) ==
  /\ AtFront(t) /\ ~Delays(t) /\ HasRoom(t)
  /\ \/ NullBatch(t) /\ PopGroup(t, <<t>>, TRUE)
     \/ /\ ~NullBatch(t)
        /\ \E n \in Groups :
             w' = [w EXCEPT ![t].pc = "log", ![t].group = SubSeq(writers, 1, n)]
        /\ UNCHANGED <<writers, acked>>
  /\ UNCHANGED <<count, faults, db, bg, closing>>

(* Mutant: the memtable is filled although the log failed.                  *)
InsertsAlways(ok) == TRUE

(* InsertInto only runs when the log was written and synced.                *)
Inserts(ok) == ok

(* The leader writes the log without the mutex, fills the memtable, takes   *)
(* the mutex again and ends its group.                                      *)
WriteGroup(t, added, synced) ==
  LET ids == Ids(w[t].group)
      ok  == added /\ (w[t].sync => synced)
  IN /\ w[t].pc = "log"
     /\ ~w[t].sync => synced
     /\ faults' = IF ok THEN faults ELSE faults + 1
     /\ faults' <= MaxFaults
     /\ log' = IF added THEN log \o ids ELSE log
     /\ durable' = IF w[t].sync /\ ok THEN durable \cup Range(log') ELSE durable
     /\ mem' = IF Inserts(ok) THEN mem \o ids ELSE mem
     /\ PopGroup(t, w[t].group, ok)
     /\ UNCHANGED <<count, imm, has_imm, tables, l0, bg, closing>>

(* The wait of TEST_CompactMemTable.                                        *)
SettleWaits(t) ==
  /\ w[t].pc = "settle" /\ w[t].awake
  /\ w' = [w EXCEPT ![t] = IF ~has_imm THEN NoWriter ELSE [@ EXCEPT !.awake = FALSE]]
  /\ UNCHANGED <<writers, count, faults, db, bg, acked, closing>>
-----------------------------------------------------------------------------
(* BackgroundCall and BackgroundCompaction: the memtable comes first.       *)
BackgroundCall ==
  /\ bg = "queued"
  /\ \/ closing # "no" /\ bg' = "end"
     \/ closing = "no" /\ has_imm /\ bg' = "flush"
     \/ closing = "no" /\ ~has_imm /\ bg' = IF l0 >= Trigger THEN "compact" ELSE "end"
  /\ UNCHANGED <<writers, w, count, faults, db, acked, closing>>

(* CompactMemTable, to level 0 or below it, also inside DoCompactionWork,   *)
(* which signals at once.                                                   *)
CompactMemTable(level0) ==
  /\ bg = "flush" \/ (bg = "compact" /\ has_imm)
  /\ tables' = tables \cup Range(imm) /\ imm' = <<>> /\ has_imm' = FALSE
  /\ l0' = IF level0 /\ imm # <<>> THEN l0 + 1 ELSE l0
  /\ bg' = IF bg = "flush" THEN "end" ELSE bg
  /\ w' = IF bg = "flush" THEN w ELSE SignalAll(w)
  /\ UNCHANGED <<writers, count, faults, log, durable, mem, acked, closing>>

CompactLevel0 ==
  /\ bg = "compact"
  /\ l0' = 0 /\ bg' = "end"
  /\ UNCHANGED <<writers, w, count, faults, log, durable, mem, imm, has_imm, tables, acked, closing>>

(* An error: waiters are told, and the thread sleeps for a second.          *)
BackgroundFails ==
  /\ bg \in {"flush", "compact"}
  /\ faults < MaxFaults /\ faults' = faults + 1
  /\ bg' = "end" /\ w' = SignalAll(w)
  /\ UNCHANGED <<writers, count, db, acked, closing>>

Rescheduled == MaybeScheduleCompaction("none", has_imm)

BackgroundEnd ==
  /\ bg = "end"
  /\ bg' = Rescheduled
  /\ w' = SignalAll(w)
  /\ UNCHANGED <<writers, count, faults, db, acked, closing>>

(* ~DBImpl, called when no other call is running.                           *)
Close ==
  /\ closing = "no" /\ \A t \in Threads : w[t].pc = "idle"
  /\ closing' = "waiting"
  /\ UNCHANGED <<writers, w, count, faults, db, bg, acked>>

CloseEnds ==
  /\ closing = "waiting" /\ bg = "none"
  /\ closing' = "done"
  /\ UNCHANGED <<writers, w, count, faults, db, bg, acked>>
-----------------------------------------------------------------------------
WriterStep(t) ==
  \/ Wakes(t) \/ DelayOnce(t) \/ WaitForRoom(t) \/ SwitchMemTable(t) \/ SwitchFails(t)
  \/ LeadGroup(t) \/ SettleWaits(t)
  \/ \E added, synced \in BOOLEAN : WriteGroup(t, added, synced)

BackgroundStep ==
  \/ BackgroundCall \/ CompactLevel0 \/ BackgroundFails \/ BackgroundEnd
  \/ \E level0 \in BOOLEAN : CompactMemTable(level0)

Next ==
  \/ \E t \in Threads : WriterStep(t) \/ SpuriousWakeup(t)
  \/ \E t \in Threads, sync \in BOOLEAN : Enqueue(t, sync, FALSE)
  \/ \E t \in Threads : Enqueue(t, FALSE, TRUE)
  \/ BackgroundStep \/ Close \/ CloseEnds

Fairness == /\ \A t \in Threads : WF_vars(WriterStep(t))
            /\ WF_vars(BackgroundStep) /\ WF_vars(CloseEnds)

Spec == Init /\ [][Next]_vars /\ Fairness
-----------------------------------------------------------------------------
TypeOK ==
  /\ Range(writers) \subseteq Threads /\ IsInjective(writers)
  /\ \A t \in Threads : w[t].pc \in {"idle", "queue", "room", "log", "settle"}
  /\ Range(mem) \cup Range(imm) \cup Range(log) \cup durable \cup tables \subseteq 1 .. MaxWrites
  /\ bg \in {"none", "queued", "flush", "compact", "end"}
  /\ l0 \in Nat /\ (imm # <<>> => has_imm)

(***************************************************************************)
(* Only the writer in front of the queue makes room or writes the log,     *)
(* although it gives up the mutex for both: its place in the queue is what *)
(* keeps others out.                                                       *)
(***************************************************************************)
LeaderInFront ==
  \A t \in Threads : w[t].pc \in {"room", "log"} => writers # <<>> /\ Head(writers) = t

(***************************************************************************)
(* A write that returned OK, as a leader or in somebody's group, is in a   *)
(* memtable or a table, exactly once, and the memtables hold the writes in *)
(* the order of their arrival.                                             *)
(***************************************************************************)
AckedApplied ==
  /\ {a.id : a \in acked} \subseteq tables \cup Range(imm) \cup Range(mem)
  /\ \A i, j \in DOMAIN (imm \o mem) : i < j => (imm \o mem)[i] < (imm \o mem)[j]
  /\ \A i \in tables, j \in Range(imm \o mem) : i < j

(***************************************************************************)
(* A synchronous write that returned OK is in a log file that was synced   *)
(* after it was added, or in a table, whoever led its group.               *)
(***************************************************************************)
SyncedDurable ==
  \A a \in acked : a.sync => a.id \in durable \cup tables

(***************************************************************************)
(* What is in the current memtable is in the current log, whatever failed. *)
(***************************************************************************)
MemLogged == Range(mem) \subseteq Range(log)

(* A write that returned OK is kept, as strongly as it was asked for.       *)
AckedKept == AckedApplied /\ SyncedDurable /\ MemLogged

(***************************************************************************)
(* Every call of Write and TEST_CompactMemTable returns: no signal to a    *)
(* writer or to those who wait for the background thread is lost.          *)
(***************************************************************************)
WritesReturn == \A t \in Threads : w[t].pc # "idle" ~> w[t].pc = "idle"

(***************************************************************************)
(* ~DBImpl returns, and no background work starts afterwards.              *)
(***************************************************************************)
CloseReturns == closing = "waiting" ~> (closing = "done" /\ [](bg = "none"))

(* Nobody waits for ever for the mutex, a leader or the background thread.  *)
CallsReturn == WritesReturn /\ CloseReturns

(***************************************************************************)
(* The comment on TEST_CompactMemTable: when it returns OK, what had been  *)
(* written before it was called has been compacted.                        *)
(***************************************************************************)
ForcesCompaction ==
  [][ \A t \in Threads :
        w[t].pc = "settle" /\ w'[t].pc = "idle" => w[t].before \subseteq tables ]_vars
=============================================================================
