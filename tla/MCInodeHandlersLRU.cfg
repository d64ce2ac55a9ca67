CONSTANTS
  Keys = {k1, k2, k3}
  Handles = {h1, h2, h3}
  NoKey = NoKey
  NoHandle = NoHandle
  NoValue = NoValue
  Capacity = 1
  Versions = {v1, v2}
  Files = {f1}
  Root = k1
SPECIFICATION Spec
SYMMETRY Symmetry
INVARIANTS CacheSound
