----------------------------- MODULE DentryCache -----------------------------
(***************************************************************************)
(* The directory-entry cache of fs/dcache.{h,cpp}: a std::list of          *)
(* <key, inode> entries in order of use, and an unordered_map from key to  *)
(* a list iterator.  An iterator is modelled by the list node it points    *)
(* to; a node is returned to the allocator when it leaves the list and may *)
(* be handed out again, so an iterator that outlives its node is visible.  *)
(* Every operation runs under cache_mutex and is one step.                 *)
(***************************************************************************)
EXTENDS Naturals, Sequences, Functions, LinkedList

CONSTANTS Keys,      \* tfs_meta_key_t: <parent inode, hash of the name>
          Inodes,    \* tfs_inode_t
          Nodes,     \* the addresses the allocator hands out for list nodes
          NoNode,    \* lookup.end()
          NoInode,   \* what Find leaves in "value" when it returns false
          MaxSize    \* maxsize, 16384 in TableFS::Init

ASSUME MaxSizeAssumption == MaxSize \in Nat
ASSUME SentinelAssumption == NoNode \notin Nodes /\ NoInode \notin Inodes

VARIABLES cache,     \* the list, front first
          entry,     \* the <key, inode> pair stored in each node
          lookup,    \* the map from key to iterator
          call       \* the last operation: its name, key, and the inode
                     \* it was given or it returned

vars == <<cache, entry, lookup, call>>

Init ==
  /\ cache = <<>>
  /\ \E rubbish \in [key : Keys, inode : Inodes] :
       entry = [node \in Nodes |-> rubbish]
  /\ lookup = [k \in Keys |-> NoNode]
  /\ call = <<>>

(* push_front allocates before anything is freed, so the new node is none  *)
(* of those in the list.                                                   *)
FreshNodes == Nodes \ Range(cache)

MissingFind(k) ==
  /\ lookup[k] = NoNode
  /\ call' = <<"Find", k, NoInode>>
  /\ UNCHANGED <<cache, entry, lookup>>

HitFind(k) ==
  /\ lookup[k] # NoNode
  /\ call' = <<"Find", k, entry[lookup[k]].inode>>
  /\ \E node \in FreshNodes :
       /\ cache' = <<node>> \o Unlinked(cache, lookup[k])
       /\ entry' = [entry EXCEPT ![node] = entry[lookup[k]]]
       /\ lookup' = [lookup EXCEPT ![k] = node]

(* DentryCache::Find moves the entry to the front of the list.             *)
Find(k) == MissingFind(k) \/ HitFind(k)

(* Mutant: pop_back without lookup.erase.                                   *)
InsertKeepsVictim(k, v) ==
  \E node \in FreshNodes :
    LET list == <<node>> \o cache
    IN  /\ call' = <<"Insert", k, v>>
        /\ entry' = [entry EXCEPT ![node] = [key |-> k, inode |-> v]]
        /\ cache' = IF Len(list) <= MaxSize THEN list ELSE SubSeq(list, 1, Len(list) - 1)
        /\ lookup' = [lookup EXCEPT ![k] = node]

(* Mutant: lookup.insert, which keeps an iterator the key already has.      *)
InsertKeepsIterator(k, v) ==
  \E node \in FreshNodes :
    LET list == <<node>> \o cache
        ent  == [entry EXCEPT ![node] = [key |-> k, inode |-> v]]
        map  == [lookup EXCEPT ![k] = IF @ = NoNode THEN node ELSE @]
        back == list[Len(list)]
    IN  /\ call' = <<"Insert", k, v>>
        /\ entry' = ent
        /\ \/ /\ Len(list) <= MaxSize
              /\ cache' = list
              /\ lookup' = map
           \/ /\ Len(list) > MaxSize
              /\ cache' = SubSeq(list, 1, Len(list) - 1)
              /\ lookup' = [map EXCEPT ![ent[back].key] = NoNode]

(* Mutant: the list is never shortened.                                     *)
InsertUnbounded(k, v) ==
  \E node \in FreshNodes :
    /\ call' = <<"Insert", k, v>>
    /\ entry' = [entry EXCEPT ![node] = [key |-> k, inode |-> v]]
    /\ cache' = <<node>> \o cache
    /\ lookup' = [lookup EXCEPT ![k] = node]

(* DentryCache::Insert puts a new node in front whether or not the key has *)
(* one, and drops the last node, with its key's map entry, above maxsize.  *)
Insert(k, v) ==
  \E node \in FreshNodes :
    LET list  == <<node>> \o cache
        ent   == [entry EXCEPT ![node] = [key |-> k, inode |-> v]]
        map   == [lookup EXCEPT ![k] = node]
        back  == list[Len(list)]
    IN  /\ call' = <<"Insert", k, v>>
        /\ entry' = ent
        /\ \/ /\ Len(list) <= MaxSize
              /\ cache' = list
              /\ lookup' = map
           \/ /\ Len(list) > MaxSize
              /\ cache' = SubSeq(list, 1, Len(list) - 1)
              /\ lookup' = [map EXCEPT ![ent[back].key] = NoNode]

(* DentryCache::Evict forgets the map entry; the list node stays behind.   *)
Evict(k) ==
  /\ lookup' = [lookup EXCEPT ![k] = NoNode]
  /\ call' = <<"Evict", k, NoInode>>
  /\ UNCHANGED <<cache, entry>>

Next ==
  \E k \in Keys : Find(k) \/ Evict(k) \/ \E v \in Inodes : Insert(k, v)

Spec == Init /\ [][Next]_vars
-----------------------------------------------------------------------------
TypeOK ==
  /\ cache \in Seq(Nodes)
  /\ entry \in [Nodes -> [key : Keys, inode : Inodes]]
  /\ lookup \in [Keys -> Nodes \cup {NoNode}]
  /\ call \in {<<>>} \cup {"Find", "Insert", "Evict"} \X Keys \X (Inodes \cup {NoInode})

(***************************************************************************)
(* No iterator in the map dangles: each one points to a node that is still *)
(* in the list and that still holds the entry of that key.  Find           *)
(* dereferences and erases it->second, and Insert's pop_back destroys a    *)
(* node that other code may still point to.                                *)
(***************************************************************************)
NoDanglingIterator ==
  \A k \in Keys : lookup[k] # NoNode =>
    lookup[k] \in Range(cache) /\ entry[lookup[k]].key = k

(***************************************************************************)
(* Insert and Find keep each node in the list once, and the list within    *)
(* maxsize although Evict never shortens it.                               *)
(***************************************************************************)
ListBounded ==
  /\ Len(cache) <= MaxSize
  /\ Distinct(cache)

(***************************************************************************)
(* A key evicted and inserted again leaves its old node in the list: the   *)
(* map entry is never one of those, it is the node nearest to the front.   *)
(***************************************************************************)
LookupIsNewest ==
  \A k \in Keys : \A i, j \in DOMAIN cache :
    lookup[k] = cache[i] /\ entry[cache[j]].key = k => i <= j

(***************************************************************************)
(* The cache implements LossyMap: Find answers with the inode of the       *)
(* latest Insert of the key since its last Evict, or with a miss, and one  *)
(* Insert costs at most one binding.                                       *)
(***************************************************************************)
Binding ==
  [k \in Keys |-> IF lookup[k] = NoNode THEN NoInode ELSE entry[lookup[k]].inode]

Map == INSTANCE LossyMap WITH binding <- Binding

ImplementsMap == Map!Spec
=============================================================================
