--------------------------- MODULE MCInodeHandlers --------------------------
(* InodeHandlers for TLC, in two sizes.  MCInodeHandlersShared: two keys    *)
(* of files and two descriptors, so that one file can be open twice.        *)
(* MCInodeHandlersLRU: the root and two more keys over a cache of one       *)
(* handle and one descriptor, so that unrelated calls evict the open one.   *)
(* Handles are chosen, not symmetric.                                       *)
EXTENDS InodeHandlers, TLC

Symmetry == Permutations(Keys \ {Root}) \cup Permutations(Versions) \cup Permutations(Files)
=============================================================================
