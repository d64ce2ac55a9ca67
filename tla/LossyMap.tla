------------------------------ MODULE LossyMap ------------------------------
(***************************************************************************)
(* What a directory-entry cache promises its caller: a map that may forget *)
(* a binding when another one is added, and that never answers a lookup    *)
(* with anything but the latest binding of that key.  DentryCache is shown *)
(* to implement it.                                                        *)
(***************************************************************************)
CONSTANTS Keys,      \* the keys of the map
          Inodes,    \* the values bound to them
          NoInode    \* "no binding"

VARIABLES binding,   \* the bindings the cache still remembers
          call       \* the last operation: its name, key, and the inode
                     \* it was given or it returned

mvars == <<binding, call>>

Init ==
  /\ binding = [k \in Keys |-> NoInode]
  /\ call = <<>>

(* A lookup returns the binding, or NoInode, and forgets nothing.          *)
Find(k) ==
  /\ call' = <<"Find", k, binding[k]>>
  /\ UNCHANGED binding

(* Adding a binding may cost one binding: somebody else's or the new one.  *)
Insert(k, v) ==
  /\ call' = <<"Insert", k, v>>
  /\ LET full == [binding EXCEPT ![k] = v]
     IN  \/ binding' = full
         \/ \E lost \in Keys : binding' = [full EXCEPT ![lost] = NoInode]

Evict(k) ==
  /\ call' = <<"Evict", k, NoInode>>
  /\ binding' = [binding EXCEPT ![k] = NoInode]

Next ==
  \E k \in Keys : Find(k) \/ Evict(k) \/ \E v \in Inodes : Insert(k, v)

Spec == Init /\ [][Next]_mvars
=============================================================================
