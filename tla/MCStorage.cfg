CONSTANTS
  Procs = {p1, p2, p3, p4, p5}
  NoProc = NoProc
  Slots = {1}
  MaxFiles = 1
  Destroys = FALSE
  MaxSequence = 3
  MaxFile = 8
  MaxCrashes = 2
  MaxFaults = 0
  Faults = {}
  nameA = nameA
  nameB = nameB
  handle1 = handle1
  handle2 = handle2
SPECIFICATION PartsSpec
CHECK_DEADLOCK FALSE
INVARIANTS  ReadsBack  ManifestFaithful  MmapKeepsBytes MemoryFilesSound
