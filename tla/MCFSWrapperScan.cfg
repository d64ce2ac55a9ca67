CONSTANTS
  dir = dir
  file = file
  Keys <- MCKeys
  Children <- MCChildren
  Handles = {h1, h2, h3, h4, h5}
  NoKey = NoKey
  NoHandle = NoHandle
  NoValue = NoValue
  Capacity = 1
  Versions = {v1, v2}
  FdLimit = 1
  MaxListings = 2
SPECIFICATION Spec
INVARIANT DescriptorsChecked
CHECK_DEADLOCK FALSE
