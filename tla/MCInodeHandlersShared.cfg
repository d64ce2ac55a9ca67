CONSTANTS
  Keys = {k1, k2}
  Handles = {h1, h2, h3, h4}
  NoKey = NoKey
  NoHandle = NoHandle
  NoValue = NoValue
  Capacity = 2
  Versions = {v1, v2}
  Files = {f1, f2}
  Root = NoKey
SPECIFICATION Spec
SYMMETRY Symmetry
INVARIANTS HandlesBalanced Coherent DurableWhenClosed
