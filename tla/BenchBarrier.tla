---------------------------- MODULE BenchBarrier ----------------------------
(***************************************************************************)
(* One benchmark of fsbench.cpp or of LevelDB's db/db_bench.cc:            *)
(* RunBenchmark starts N threads (and, in fsbench, one that samples the    *)
(* operation counters), lets them go together, waits for all of them and   *)
(* destroys what they share.  In fsbench the sampling thread counts itself *)
(* as done, and signals, without holding the mutex.                        *)
(* A step holds the mutex from its lock to its unlock or wait, except that *)
(* the last test of RunBenchmark and the wait after it are two steps, and  *)
(* that num_done ++ outside the mutex is a load and a store.               *)
(***************************************************************************)
EXTENDS Naturals, FiniteSets, FiniteSetsExt, Functions

CONSTANTS N,            \* num_threads
          Methods,      \* the benchmarks considered
          Spurious,     \* those in which a wait may return without a signal
          Dirs,         \* GetNumDirectoryPaths
          Queries       \* query_number and create_numpaths, num_ and reads_

VARIABLES method, order,                   \* the benchmark, path_order
          mu, waiting,                     \* the mutex, the waiters of cv
          num_initialized, num_done, start,
          pc, next,                        \* where a thread is, its loop index
          prepared,                        \* threads that made the directories
          op_count, work, gaveUp,          \* done by a thread, on a path; left early
          loaded, report                   \* the load of num_done ++, Opcount

vars == <<method, order, mu, waiting, num_initialized, num_done, start,
          pc, next, prepared, op_count, work, gaveUp, loaded, report>>
sharedVars == <<num_initialized, num_done, start>>
workVars == <<method, order, prepared, next, op_count, work, gaveUp>>

Workers == 0 .. N - 1
Monitor == N
Main == N + 1

(* The methods of db_bench; those of fsbench are sampled.                   *)
DbBench == {"ReadRandom", "ReadMissing", "ReadHot", "SeekRandom", "ReadWhileWriting"}
Monitored == method \notin DbBench

AllThreads == IF Monitored THEN Workers \cup {Monitor} ELSE Workers

(* Mutant: one thread is not counted.                                       *)
TotalOneShort == Cardinality(AllThreads) - 1

total == Cardinality(AllThreads)
Nobody == N + 2
Paths == 0 .. Queries - 1

(* path_order[i] = path_order[j]; path_order[j] = i, for a random j < i.    *)
Shuffled[n \in Nat \ {0}] ==
  IF n = 1 THEN {[i \in {0} |-> 0]}
  ELSE {[i \in 0 .. n - 1 |-> IF i = j THEN n - 1 ELSE IF i = n - 1 THEN o[j] ELSE o[i]] :
          j \in 0 .. n - 2, o \in Shuffled[n - 1]}

(* Mutant: an order drawn with repetitions.                                 *)
ShuffledWithRepeats == [Paths -> Paths]

PathOrders == Shuffled[Queries]

(* The benchmark methods: whether the threads share the loop                *)
(* (i = tid; i += step) or each runs all of it; whether they go through     *)
(* path_order; what the operation counter counts; whether a failing call    *)
(* ends the method; whether every thread makes all the directories first.   *)
Loop(shares, ordered, counts, stops, mkdirs) ==
  [shares |-> shares, ordered |-> ordered, counts |-> counts, stops |-> stops,
   mkdirs |-> mkdirs]

MetadataCreate    == Loop(TRUE, FALSE, "calls", FALSE, TRUE)
MetadataQueryTest == Loop(FALSE, FALSE, "calls", FALSE, FALSE)
OnedirCreate      == Loop(TRUE, FALSE, "calls", FALSE, FALSE)
OnedirQueryTest   == Loop(FALSE, FALSE, "calls", FALSE, FALSE)
SmallFileCreate   == Loop(TRUE, FALSE, "calls", TRUE, FALSE)
SmallFileQueryTest == Loop(FALSE, FALSE, "calls", FALSE, FALSE)
DeleteQueryTest   == Loop(TRUE, TRUE, "successes", FALSE, FALSE)
ScanQueryTest     == Loop(TRUE, FALSE, "successes", FALSE, FALSE)
LsstatQueryTest   == Loop(TRUE, FALSE, "successes", FALSE, FALSE)
ScanfileQueryTest == Loop(TRUE, FALSE, "successes", FALSE, FALSE)
RenameQueryTest   == Loop(TRUE, TRUE, "successes", FALSE, FALSE)
ReadRandom        == Loop(FALSE, FALSE, "calls", FALSE, FALSE)
ReadMissing       == Loop(FALSE, FALSE, "calls", FALSE, FALSE)
ReadHot           == Loop(FALSE, FALSE, "calls", FALSE, FALSE)
SeekRandom        == Loop(FALSE, FALSE, "calls", FALSE, FALSE)
ReadWhileWriting  == ReadRandom

Method ==
  [MetadataCreate |-> MetadataCreate, MetadataCreateWithCompact |-> MetadataCreate,
   MetadataQueryTest |-> MetadataQueryTest, OnedirCreate |-> OnedirCreate,
   OnedirQueryTest |-> OnedirQueryTest, SmallFileCreate |-> SmallFileCreate,
   SmallFileQueryTest |-> SmallFileQueryTest, DeleteQueryTest |-> DeleteQueryTest,
   ScanQueryTest |-> ScanQueryTest, LsstatQueryTest |-> LsstatQueryTest,
   ScanfileQueryTest |-> ScanfileQueryTest, RenameQueryTest |-> RenameQueryTest,
   ReadRandom |-> ReadRandom, ReadMissing |-> ReadMissing, ReadHot |-> ReadHot,
   SeekRandom |-> SeekRandom, ReadWhileWriting |-> ReadWhileWriting]

loop == Method[method]

First(w) == IF loop.shares THEN w ELSE 0

(* Mutant: thread->step is one too large.                                   *)
StepTooLarge == N + 1

Step == IF loop.shares THEN N ELSE 1

PathAt(i) == IF loop.ordered THEN order[i % Queries] ELSE i

Init ==
  /\ method \in Methods /\ order \in PathOrders
  /\ mu = Nobody /\ waiting = {}
  /\ num_initialized = 0 /\ num_done = 0 /\ start = FALSE
  /\ pc = [t \in AllThreads \cup {Main} |-> "init"]
  /\ next = [w \in Workers |-> First(w)]
  /\ op_count = [w \in Workers |-> 0]
  /\ work = [p \in Paths |-> 0]
  /\ prepared = {} /\ gaveUp = {}
  /\ loaded = 0 /\ report = 0

SignalAll == waiting' = {}
Woken(t) == pc[t] = "wait" /\ t \notin waiting /\ mu = Nobody
Goto(t, label) == pc' = [pc EXCEPT ![t] = label]

WakeSpuriously(t) ==
  /\ method \in Spurious /\ t \in waiting
  /\ waiting' = waiting \ {t}
  /\ UNCHANGED <<mu, sharedVars, workVars, pc, loaded, report>>

(* The first block of ThreadBody and MonitorThreadBody, to its wait.        *)
Initialize(t) ==
  /\ t # Main /\ pc[t] = "init" /\ mu = Nobody
  /\ num_initialized' = num_initialized + 1
  /\ IF start THEN Goto(t, "run") /\ UNCHANGED waiting
     ELSE /\ Goto(t, "wait")
          /\ waiting' = IF num_initialized' >= total THEN {t} ELSE waiting \cup {t}
  /\ UNCHANGED <<mu, num_done, start, workVars, loaded, report>>

WaitForStart(t) ==
  /\ t # Main /\ Woken(t)
  /\ IF start THEN Goto(t, "run") /\ UNCHANGED waiting
     ELSE waiting' = waiting \cup {t} /\ UNCHANGED pc
  /\ UNCHANGED <<mu, sharedVars, workVars, loaded, report>>

Loops(w) == ~(method = "ReadWhileWriting" /\ w = 0)

(* Every thread of MetadataCreate makes all the directories.                *)
MakeDirectories(w) ==
  /\ pc[w] = "run" /\ loop.mkdirs /\ w \notin prepared
  /\ prepared' = prepared \cup {w}
  /\ op_count' = [op_count EXCEPT ![w] = @ + Dirs]
  /\ UNCHANGED <<method, order, next, work, gaveUp, mu, waiting, sharedVars, pc, loaded, report>>

Prepared(w) == loop.mkdirs => w \in prepared

(* One turn of the loop of a benchmark method: its calls succeed, or one    *)
(* fails.  SmallFileCreate returns when a file cannot be opened.            *)
Operate(w) ==
  /\ pc[w] = "run" /\ Loops(w) /\ Prepared(w) /\ next[w] < Queries
  /\ next' = [next EXCEPT ![w] = @ + Step]
  /\ \/ /\ op_count' = [op_count EXCEPT ![w] = @ + 1]
        /\ work' = [work EXCEPT ![PathAt(next[w])] = @ + 1]
        /\ UNCHANGED <<pc, gaveUp>>
     \/ /\ ~loop.stops /\ loop.counts = "successes"
        /\ work' = [work EXCEPT ![PathAt(next[w])] = @ + 1]
        /\ UNCHANGED <<pc, gaveUp, op_count>>
     \/ /\ loop.stops
        /\ gaveUp' = gaveUp \cup {w}
        /\ Goto(w, "finish")
        /\ UNCHANGED <<op_count, work>>
  /\ UNCHANGED <<method, order, prepared, mu, waiting, sharedVars, loaded, report>>

EndLoop(w) ==
  /\ pc[w] = "run" /\ Loops(w) /\ Prepared(w) /\ next[w] >= Queries
  /\ Goto(w, "finish")
  /\ UNCHANGED <<mu, waiting, sharedVars, workVars, loaded, report>>

(* Mutant: it counts itself among the threads it waits for.                 *)
OthersDoneNever == num_done >= num_initialized

(* The writer of ReadWhileWriting leaves when it is the only one not done.  *)
OthersDone == num_done + 1 >= num_initialized

WriteUntilDone(w) ==
  /\ pc[w] = "run" /\ ~Loops(w) /\ mu = Nobody
  /\ IF OthersDone THEN Goto(w, "finish") ELSE UNCHANGED pc
  /\ UNCHANGED <<mu, waiting, sharedVars, workVars, loaded, report>>

(* The last block of ThreadBody.                                            *)
Finish(w) ==
  /\ w \in Workers /\ pc[w] = "finish" /\ mu = Nobody
  /\ num_done' = num_done + 1
  /\ IF num_done' >= total THEN SignalAll ELSE UNCHANGED waiting
  /\ Goto(w, "done")
  /\ UNCHANGED <<mu, num_initialized, start, workVars, loaded, report>>

(* Mutant: the sampling thread waits for one thread less.                   *)
EnoughDoneTooFew == num_done >= total - 2

(* Mutant: it waits for itself.                                             *)
EnoughDoneNever == num_done >= total

EnoughDone == num_done >= total - 1

(* DoMonitor in the loop of MonitorThreadBody and, when it ends, after it.  *)
MonitorSample ==
  /\ Monitored /\ pc[Monitor] = "run"
  /\ report' = MapThenSumSet(LAMBDA w : op_count[w], Workers)
  /\ IF EnoughDone THEN Goto(Monitor, "load") ELSE UNCHANGED pc
  /\ UNCHANGED <<mu, waiting, sharedVars, workVars, loaded>>

MonitorLoad ==
  /\ Monitored /\ pc[Monitor] = "load"
  /\ loaded' = num_done
  /\ Goto(Monitor, "store")
  /\ UNCHANGED <<mu, waiting, sharedVars, workVars, report>>

MonitorStore ==
  /\ Monitored /\ pc[Monitor] = "store"
  /\ num_done' = loaded + 1
  /\ Goto(Monitor, "signal")
  /\ UNCHANGED <<mu, waiting, num_initialized, start, workVars, loaded, report>>

MonitorSignal ==
  /\ Monitored /\ pc[Monitor] = "signal"
  /\ SignalAll
  /\ Goto(Monitor, "done")
  /\ UNCHANGED <<mu, sharedVars, workVars, loaded, report>>

(* RunBenchmark after it has started the threads: wait until all are        *)
(* initialized, let them go.  It keeps the mutex.                           *)
Release ==
  /\ \/ pc[Main] = "init" /\ mu = Nobody
     \/ Woken(Main) /\ ~start
  /\ IF num_initialized < total
     THEN /\ Goto(Main, "wait") /\ waiting' = waiting \cup {Main}
          /\ UNCHANGED <<mu, start>>
     ELSE /\ start' = TRUE /\ SignalAll
          /\ mu' = Main /\ Goto(Main, "test")
  /\ UNCHANGED <<num_initialized, num_done, workVars, loaded, report>>

AwakeAgain ==
  /\ Woken(Main) /\ start
  /\ mu' = Main /\ Goto(Main, "test")
  /\ UNCHANGED <<waiting, sharedVars, workVars, loaded, report>>

(* Mutant: the loop is left when one thread is still to come.               *)
AllDoneButOne == num_done + 1 >= total

AllDone == num_done >= total

TestDone ==
  /\ pc[Main] = "test"
  /\ IF AllDone THEN mu' = Nobody /\ Goto(Main, "return")
     ELSE Goto(Main, "sleep") /\ UNCHANGED mu
  /\ UNCHANGED <<waiting, sharedVars, workVars, loaded, report>>

Sleep ==
  /\ pc[Main] = "sleep"
  /\ Goto(Main, "wait")
  /\ waiting' = waiting \cup {Main} /\ mu' = Nobody
  /\ UNCHANGED <<sharedVars, workVars, loaded, report>>

(* The program goes on with the next benchmark: not modelled.               *)
Returned == pc[Main] = "return" /\ UNCHANGED vars

ThreadStep(t) ==
  /\ t \in AllThreads
  /\ \/ Initialize(t) \/ WaitForStart(t)
     \/ /\ t \in Workers
        /\ MakeDirectories(t) \/ Operate(t) \/ EndLoop(t) \/ WriteUntilDone(t) \/ Finish(t)
     \/ /\ t = Monitor
        /\ MonitorSample \/ MonitorLoad \/ MonitorStore \/ MonitorSignal

MainStep == Release \/ AwakeAgain \/ TestDone \/ Sleep

Next ==
  \/ \E t \in Workers \cup {Monitor} : ThreadStep(t)
  \/ MainStep \/ Returned
  \/ \E t \in AllThreads \cup {Main} : WakeSpuriously(t)

(* Every thread is scheduled and gets the mutex in its turn; nothing says   *)
(* that a spurious wake-up ever happens.                                    *)
Fairness == (\A t \in Workers \cup {Monitor} : SF_vars(ThreadStep(t))) /\ SF_vars(MainStep)

Spec == Init /\ [][Next]_vars /\ Fairness

-----------------------------------------------------------------------------
TypeOK ==
  /\ method \in Methods /\ order \in [Paths -> Paths]
  /\ mu \in {Main, Nobody} /\ waiting \subseteq AllThreads \cup {Main}
  /\ num_initialized \in 0 .. total /\ num_done \in 0 .. total /\ start \in BOOLEAN
  /\ DOMAIN pc = AllThreads \cup {Main}
  /\ next \in [Workers -> Nat] /\ op_count \in [Workers -> Nat]
  /\ work \in [Paths -> Nat] /\ gaveUp \cup prepared \subseteq Workers
  /\ loaded \in 0 .. total /\ report \in Nat

Gone == pc[Main] = "return"

(* Threads start together: none runs its method while another has not       *)
(* initialized (ThreadBody, RunBenchmark).                                  *)
StartTogether ==
  \A t \in AllThreads : pc[t] \notin {"init", "wait"} => \A u \in AllThreads : pc[u] # "init"

(* When RunBenchmark returns every method has ended, and between them the   *)
(* threads of a shared loop have done every path exactly once: all but what *)
(* a thread that gave up had still to do.                                   *)
WorkSharedOut ==
  Gone /\ loop.shares =>
    /\ \A p \in Paths : work[p] <= 1
    /\ gaveUp = {} => \A p \in Paths : work[p] = 1

(* The last sample of the operation counters, which fsbench reports, has    *)
(* the operations of all threads (MonitorThreadBody).                       *)
ReportComplete ==
  Gone /\ Monitored => report = MapThenSumSet(LAMBDA w : op_count[w], Workers)

(* RunBenchmark destroys the mutex, the condition variable and the threads' *)
(* states only when no thread will use them again; in fsbench this needs    *)
(* that no wait returned without a signal, since the sampling thread counts *)
(* itself before it signals.                                                *)
SharedOutlivesThreads ==
  Gone /\ ~(Monitored /\ method \in Spurious) => \A t \in AllThreads : pc[t] = "done"

(* What RunBenchmark reports is the work of all threads, started together,  *)
(* each path done once, and nothing shared is gone before they are.         *)
MeasuresAllWork == StartTogether /\ WorkSharedOut /\ ReportComplete /\ SharedOutlivesThreads

(***************************************************************************)
(* RunBenchmark returns: every wait is ended by a signal that comes after  *)
(* it.  The one exception is fsbench with a wait that returned without a   *)
(* signal: RunBenchmark may then test num_done just before the sampling    *)
(* thread counts itself, which it does without the mutex, and sleep for    *)
(* ever.                                                                   *)
(***************************************************************************)
LostSignal == /\ Monitored /\ method \in Spurious
              /\ pc[Main] = "wait" /\ Main \in waiting
              /\ \A t \in AllThreads : pc[t] = "done"
BenchmarkReturns == <>(Gone \/ LostSignal)
=============================================================================
