CONSTANTS
  Keys = {k1, k2, k3}
  Inodes = {i1, i2}
  Nodes = {n1, n2, n3, n4}
  NoNode = NoNode
  NoInode = NoInode
  MaxSize = 3
  x = x
  zero = zero
SPECIFICATION PartsSpec
CHECK_DEADLOCK FALSE
SYMMETRY Symmetry
INVARIANTS LookupIsNewest LookupsAgree DiskFilesDistinct OldBytesKept WritesOwnFile
PROPERTIES ImplementsMap
