----------------------------- MODULE MCFSWrapper -----------------------------
(* FSWrapper for TLC: a directory with one entry over a cache of one        *)
(* handle, so that a listing of the directory pushes the directory out of   *)
(* the cache while it visits the entry.                                     *)
EXTENDS FSWrapper

CONSTANTS dir, file

MCKeys == {dir, file}

MCChildren == dir :> <<file>>

Symmetry == Permutations(Versions)
=============================================================================
