------------------------------ MODULE MCThreads ------------------------------
(* Two places where threads wait for one another on a condition variable,   *)
(* side by side: the writer queue of LevelDB and the start and end of a     *)
(* benchmark.  They share no state, so it is enough to let one of them run  *)
(* while the other stays as it was.                                         *)
EXTENDS WriteQueue

VARIABLES part,
          method, order, mu, waiting, num_initialized, num_done, start, pc, next,
          prepared, op_count, work, gaveUp, loaded, report

benchVars == <<method, order, mu, waiting, num_initialized, num_done, start, pc, next,
               prepared, op_count, work, gaveUp, loaded, report>>

Bench == INSTANCE BenchBarrier WITH
  N <- 2, Dirs <- 1, Queries <- 3,
  Methods <- {"MetadataCreate", "MetadataQueryTest", "SmallFileCreate", "DeleteQueryTest",
              "RenameQueryTest", "ReadRandom", "ReadWhileWriting"},
  Spurious <- {"RenameQueryTest", "ReadRandom", "ReadWhileWriting"}

PartsInit ==
  /\ Init /\ Bench!Init
  /\ \/ part = "writers" /\ method = "ReadRandom" /\ order = CHOOSE o \in Bench!PathOrders : TRUE
     \/ part = "benchmark"

PartsNext ==
  \/ part = "writers" /\ Next /\ UNCHANGED <<part, benchVars>>
  \/ part = "benchmark" /\ Bench!Next /\ UNCHANGED <<part, vars>>

BenchThreads == 0 .. 2      \* two workers and the monitor

PartsSpec ==
  /\ PartsInit /\ [][PartsNext]_<<part, vars, benchVars>>
  /\ Fairness
  /\ \A t \in BenchThreads : SF_benchVars(part = "benchmark" /\ Bench!ThreadStep(t))
  /\ SF_benchVars(part = "benchmark" /\ Bench!MainStep)

(* BenchBarrier: what a benchmark reports is the work of all its threads.   *)
MeasuresAllWork == part = "benchmark" => Bench!MeasuresAllWork

(* BenchBarrier: RunBenchmark returns, or waits for a signal that fell       *)
(* between its test and its wait.                                            *)
BenchmarkReturns == <>(part = "writers" \/ Bench!Gone \/ Bench!LostSignal)
=============================================================================
