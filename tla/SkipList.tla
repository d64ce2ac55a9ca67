------------------------------- MODULE SkipList -------------------------------
(***************************************************************************)
(* The skip list under LevelDB's memtable (db/skiplist.h): one writer at a *)
(* time, and readers that take no lock.  The writer links a new node level *)
(* by level, each by one release store; a reader makes one acquire load at *)
(* a time and may see any value max_height_ has had.  A node is known by   *)
(* its key; level 0 of the code is level 1 here.                           *)
(***************************************************************************)
EXTENDS Integers, FiniteSets, FiniteSetsExt

CONSTANTS MaxKey,      \* keys are 1 .. MaxKey
          kMaxHeight

VARIABLES next,        \* next_ of every node, by level
          max_height,  \* max_height_
          inserting,   \* the key, the height and prev of a running Insert
          reader,      \* a running search
          node         \* Iterator::node_, NULL when it is not valid

listVars == <<next, max_height, inserting, reader, node>>

Keys == 1 .. MaxKey
head == 0
NULL == MaxKey + 1                 \* sorts after every key
Uninitialized == MaxKey + 2
Heights == 1 .. kMaxHeight
Idle == [op |-> "idle"]

(* The keys on a level, from what its links reach.                          *)
Reachable(level) ==
  LET From[n \in 0 .. Uninitialized] ==
        IF n \notin {head} \cup Keys THEN {} ELSE {n} \cup From[next[n][level]]
  IN From[head] \ {head}
Elements == Reachable(1)

ListInit ==
  /\ next = [n \in {head} \cup Keys |->
               [level \in Heights |-> IF n = head THEN NULL ELSE Uninitialized]]
  /\ max_height = 1
  /\ inserting = Idle /\ reader = Idle /\ node = NULL
-----------------------------------------------------------------------------
(* FindGreaterOrEqual for the writer, which no other writer disturbs: the   *)
(* last node before the key on every level.                                 *)
Prev(key) == [level \in Heights |-> Max({head} \cup {k \in Reachable(level) : k < key})]

(* Mutant: the height of the list is not raised.                            *)
InsertKeepsHeight(key, height) ==
  /\ inserting = Idle /\ key \notin Elements
  /\ inserting' = [op |-> "link", key |-> key, height |-> height, level |-> 1, prev |-> Prev(key)]
  /\ UNCHANGED <<max_height, next, reader, node>>

(* SkipList::Insert up to the new node; the height is random.               *)
Insert(key, height) ==
  /\ inserting = Idle /\ key \notin Elements
  /\ inserting' = [op |-> "link", key |-> key, height |-> height, level |-> 1, prev |-> Prev(key)]
  /\ max_height' = Max({max_height, height})
  /\ UNCHANGED <<next, reader, node>>

(* Mutant: the new node is published before its own link is set.            *)
LinkedPublishedFirst(i) ==
  [next EXCEPT ![i.prev[i.level]][i.level] = i.key,
               ![i.key][i.level] = IF i.level > 1 THEN next[i.prev[i.level]][i.level]
                                   ELSE Uninitialized]

(* The links after one round of the loop of Insert.                         *)
Linked(i) ==
  [next EXCEPT ![i.key][i.level] = next[i.prev[i.level]][i.level],
               ![i.prev[i.level]][i.level] = i.key]

Link ==
  /\ inserting # Idle
  /\ next' = Linked(inserting)
  /\ inserting' = IF inserting.level = inserting.height THEN Idle
                  ELSE [inserting EXCEPT !.level = @ + 1]
  /\ UNCHANGED <<max_height, reader, node>>
-----------------------------------------------------------------------------
(* FindGreaterOrEqual, FindLessThan, FindLast: one search each, from the    *)
(* height the reader sees.  before keeps the elements at the start.         *)
StartSearch(op, target, height) ==
  /\ reader = Idle
  /\ height <= max_height
  /\ reader' = [op |-> op, target |-> target, x |-> head, level |-> height, before |-> Elements]
  /\ UNCHANGED <<next, max_height, inserting, node>>

Seek(target, height) == StartSearch("ge", target, height)
SeekToLast(height) == StartSearch("lt", NULL, height)
IterPrev(height) == node \in Keys /\ StartSearch("lt", node, height)

(* Mutant: an equal key is passed.                                          *)
KeepsSearchingEqual(r) == next[r.x][r.level] <= r.target /\ next[r.x][r.level] # NULL

(* The loop stays on its level while the next node is before the target;    *)
(* NULL is after everything, so that FindLast is FindLessThan of NULL.      *)
KeepsSearching(r) == next[r.x][r.level] < r.target

(* Mutant: the iterator is left on head_.                                   *)
ReturnedHead(r) == IF r.op = "ge" THEN next[r.x][1] ELSE r.x

(* What the search returns at level 0; head becomes NULL in the iterator.   *)
Returned(r) ==
  CASE r.op = "ge" -> next[r.x][1]
    [] r.x = head  -> NULL
    [] OTHER       -> r.x

(* Mutant: the search goes back to the top.                                 *)
DescendedToTop(r) == max_height

(* Switch to next list.                                                     *)
Descended(r) == r.level - 1

SearchStep ==
  /\ reader # Idle
  /\ IF KeepsSearching(reader)
     THEN reader' = [reader EXCEPT !.x = next[reader.x][reader.level]] /\ UNCHANGED node
     ELSE IF reader.level > 1
     THEN reader' = [reader EXCEPT !.level = Descended(reader)] /\ UNCHANGED node
     ELSE reader' = Idle /\ node' = Returned(reader)
  /\ UNCHANGED <<next, max_height, inserting>>

(* SeekToFirst and Next are one load.                                       *)
IterSeekToFirst ==
  /\ reader = Idle
  /\ node' = next[head][1]
  /\ UNCHANGED <<next, max_height, inserting, reader>>

IterNext ==
  /\ reader = Idle /\ node \in Keys
  /\ node' = next[node][1]
  /\ UNCHANGED <<next, max_height, inserting, reader>>
-----------------------------------------------------------------------------
ListNext ==
  \/ \E key \in Keys, height \in Heights : Insert(key, height)
  \/ \E target \in Keys, height \in Heights : Seek(target, height)
  \/ \E height \in Heights : SeekToLast(height) \/ IterPrev(height)
  \/ Link \/ SearchStep \/ IterSeekToFirst \/ IterNext

ListSpec == ListInit /\ [][ListNext]_listVars
-----------------------------------------------------------------------------
ListTypeOK ==
  /\ next \in [{head} \cup Keys -> [Heights -> 0 .. Uninitialized]]
  /\ max_height \in Heights
  /\ node \in Keys \cup {NULL}
  /\ reader # Idle => reader.x \in {head} \cup Keys /\ reader.before \subseteq Elements

(***************************************************************************)
(* Every level holds a part of the elements of the level under it, even    *)
(* between the stores of an Insert, and a finished Insert has linked its   *)
(* node on exactly its levels, none above max_height_.                     *)
(***************************************************************************)
LevelsNested ==
  /\ \A level \in Heights \ {1} : Reachable(level) \subseteq Reachable(level - 1)
  /\ inserting = Idle =>
       \A level \in Heights : level > max_height => Reachable(level) = {}

(***************************************************************************)
(* A reader never loads a link that Insert has not set yet, whatever it    *)
(* has seen of the node and of max_height_ (the comments in Node and       *)
(* Insert).                                                                *)
(***************************************************************************)
NeverReadsUninitialized ==
  /\ reader # Idle => next[reader.x][reader.level] # Uninitialized
  /\ node \in Keys => next[node][1] # Uninitialized

(***************************************************************************)
(* A search that races with an Insert returns the right neighbour: no      *)
(* element that was there when it started lies between its target and what *)
(* it returns.                                                             *)
(***************************************************************************)
SearchExact ==
  reader # Idle /\ reader' = Idle =>
    IF reader.op = "ge"
    THEN /\ node' >= reader.target
         /\ \A k \in reader.before : k >= reader.target => k >= node'
    ELSE /\ node' = NULL \/ node' < reader.target
         /\ \A k \in reader.before : k < reader.target => node' # NULL /\ k <= node'
=============================================================================
