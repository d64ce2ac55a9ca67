SPECIFICATION PartsSpec
CHECK_DEADLOCK FALSE
INVARIANTS  LiveTablesOnDisk 
PROPERTIES SearchesExact GetsSnapshot
