CONSTANTS
  Threads = {t1, t2, t3}
  MaxWrites = 3
  MaxFaults = 1
  WriteBuffer = 0
  Slowdown = 1
  Stop = 1
  Trigger = 1
SPECIFICATION PartsSpec
CHECK_DEADLOCK FALSE
INVARIANTS LeaderInFront  MeasuresAllWork
PROPERTIES CallsReturn BenchmarkReturns
