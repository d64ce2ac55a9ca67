--------------------------- MODULE LRUCacheProofs ----------------------------
(***************************************************************************)
(* What each operation of a shard of the LRU cache preserves, and proofs   *)
(* about LRUCache, for every set of keys, every finite set of handles and  *)
(* every capacity.                                                         *)
(***************************************************************************)
EXTENDS FiniteSetTheorems, WellFoundedInduction, LRUCache

(* The fields of a shard, for the provers.                                 *)
LEMMA ShardFields ==
  ASSUME NEW c \in ShardType
  PROVE  /\ c.table \in [Keys -> Handles \cup {NoHandle}]
         /\ c.lru \in Seq(Handles)
         /\ c.key \in [Handles -> Keys \cup {NoKey}]
         /\ c.refs \in [Handles -> Nat]
         /\ c.usage \in Nat
         /\ Cached(c) \subseteq Handles
<1>1. c.lru \in Seq(Handles) BY Zenon DEF ShardType
<1>2. Cached(c) \subseteq Handles
  BY <1>1, LenProperties, ElementOfSeq DEF Cached, Range
<1> QED BY <1>2, Zenon DEF ShardType

LEMMA LiveFinite ==
  ASSUME NEW c
  PROVE  IsFiniteSet(Live(c)) /\ Cardinality(Live(c)) \in Nat
<1>1. Live(c) \subseteq Handles BY Zenon DEF Live
<1> QED BY <1>1, FiniteHandlesAssumption, FS_Subset, FS_CardinalityType, Zenon

LEMMA EmptySound == Sound(EmptyShard, [h \in Handles |-> 0])
<1>1. EmptyShard \in ShardType
  BY HandleSentinelAssumption DEF EmptyShard, ShardType
<1>2. Cached(EmptyShard) = {} BY DEF EmptyShard, Cached, Range
<1>3. TablesAgree(EmptyShard) BY <1>2 DEF TablesAgree, EmptyShard, Distinct
<1>4. RefsCount(EmptyShard, [h \in Handles |-> 0]) BY <1>2 DEF RefsCount, EmptyShard
<1>5. Live(EmptyShard) = {} BY DEF Live, EmptyShard
<1>6. EmptyShard.usage = Cardinality(Live(EmptyShard))
  BY <1>5, FS_EmptySet, Zenon DEF EmptyShard
<1> QED BY <1>1, <1>3, <1>4, <1>6, Zenon DEF Sound

(* A caller gives up a reference: the handle is freed exactly when neither *)
(* the cache nor another caller refers to it.                              *)
LEMMA UnrefSound ==
  ASSUME NEW c, NEW p, Sound(c, p), NEW h \in Handles, p[h] > 0
  PROVE  Sound(Unref(c, h), [p EXCEPT ![h] = @ - 1])
<1> DEFINE d == Unref(c, h)
           q == [p EXCEPT ![h] = @ - 1]
<1>0. /\ c \in ShardType /\ p \in [Handles -> Nat]
      /\ TablesAgree(c) /\ RefsCount(c, p) /\ c.usage = Cardinality(Live(c))
  BY Zenon DEF Sound
<1>1. /\ c.refs \in [Handles -> Nat] /\ c.usage \in Nat
      /\ c.key \in [Handles -> Keys \cup {NoKey}]
  BY <1>0, ShardFields, Zenon
<1>2. c.refs[h] = p[h] + (IF h \in Cached(c) THEN 1 ELSE 0) /\ p[h] \in Nat \ {0}
  BY <1>0 DEF RefsCount
<1>3. q \in [Handles -> Nat] BY <1>0, <1>2
<1>4. CASE c.refs[h] > 1
  <2>1. d = [c EXCEPT !.refs[h] = @ - 1] BY <1>4, Zenon DEF Unref
  <2> DEFINE refs == [c.refs EXCEPT ![h] = @ - 1]
  <2>2. refs \in [Handles -> Nat] BY <1>1, <1>4
  <2> HIDE DEF refs
  <2>3. d = [c EXCEPT !.refs = refs] BY <1>0, <2>1, Zenon DEF ShardType, refs
  <2>4. /\ d.table = c.table /\ d.lru = c.lru /\ d.key = c.key /\ d.usage = c.usage
        /\ d.refs = refs
        /\ d \in ShardType
    BY <1>0, <2>2, <2>3, Zenon DEF ShardType
  <2> HIDE DEF d
  <2>5. Cached(d) = Cached(c) BY <2>4, Zenon DEF Cached
  <2>6. TablesAgree(d) BY <1>0, <2>4, <2>5, Zenon DEF TablesAgree
  <2>7. RefsCount(d, q) BY <1>0, <1>1, <1>2, <2>4, <2>5 DEF RefsCount, refs
  <2>8. Live(d) = Live(c) BY <1>1, <1>4, <2>4 DEF Live, refs
  <2>9. Sound(d, q) BY <1>0, <1>3, <2>4, <2>6, <2>7, <2>8, Zenon DEF Sound
  <2> QED BY <2>9, Zenon DEF d
<1>5. CASE ~(c.refs[h] > 1)
  <2>1. d = [c EXCEPT !.refs[h] = 0, !.usage = @ - 1, !.key[h] = NoKey] BY <1>5, Zenon DEF Unref
  <2>2. c.refs[h] = 1 /\ p[h] = 1 /\ h \notin Cached(c) BY <1>1, <1>2, <1>5
  <2>3. /\ d.table = c.table /\ d.lru = c.lru /\ d.usage = c.usage - 1
        /\ d.key = [c.key EXCEPT ![h] = NoKey]
        /\ d.refs = [c.refs EXCEPT ![h] = 0]
    BY <1>0, <2>1, Zenon DEF ShardType
  <2>4. Live(d) = Live(c) \ {h} /\ h \in Live(c) BY <1>1, <2>2, <2>3 DEF Live
  <2>5. Cardinality(Live(d)) = Cardinality(Live(c)) - 1 /\ Cardinality(Live(d)) \in Nat
    BY <2>4, LiveFinite, FS_RemoveElement, Zenon
  <2>6. d \in ShardType
    <3>1. /\ d.refs \in [Handles -> Nat] /\ d.key \in [Handles -> Keys \cup {NoKey}]
          /\ d.usage \in Nat
      BY <1>0, <1>1, <2>3, <2>5
    <3>2. d = [c EXCEPT !.refs = d.refs, !.usage = d.usage, !.key = d.key]
      BY <1>0, <2>1, Zenon DEF ShardType
    <3> HIDE DEF d
    <3> QED BY <1>0, <3>1, <3>2, Zenon DEF ShardType
  <2> HIDE DEF d
  <2>7. Cached(d) = Cached(c) BY <2>3, Zenon DEF Cached
  <2>8. TablesAgree(d)
    <3>1. \A g \in Cached(c) : d.key[g] = c.key[g] BY <1>1, <2>2, <2>3
    <3> QED BY <1>0, <2>3, <2>7, <3>1 DEF TablesAgree
  <2>9. RefsCount(d, q) BY <1>0, <1>1, <2>2, <2>3, <2>7 DEF RefsCount
  <2>10. Sound(d, q) BY <1>0, <1>3, <2>3, <2>5, <2>6, <2>8, <2>9, Zenon DEF Sound
  <2> QED BY <2>10, Zenon DEF d
<1> QED BY <1>4, <1>5, Zenon

(* LRU_Remove and HandleTable::Remove: the reference of the cache becomes  *)
(* one that the caller must give up.                                       *)
LEMMA DetachSound ==
  ASSUME NEW c, NEW p, Sound(c, p), NEW k \in Keys, NEW h, h = c.table[k], h # NoHandle
  PROVE  /\ h \in Handles
         /\ Sound([c EXCEPT !.table[k] = NoHandle, !.lru = Unlinked(@, h)],
                  [p EXCEPT ![h] = @ + 1])
<1> DEFINE d == [c EXCEPT !.table[k] = NoHandle, !.lru = Unlinked(@, h)]
           q == [p EXCEPT ![h] = @ + 1]
           list == Unlinked(c.lru, h)
<1>0. /\ c \in ShardType /\ p \in [Handles -> Nat]
      /\ TablesAgree(c) /\ RefsCount(c, p) /\ c.usage = Cardinality(Live(c))
  BY Zenon DEF Sound
<1>1. /\ c.table \in [Keys -> Handles \cup {NoHandle}] /\ c.lru \in Seq(Handles)
      /\ c.refs \in [Handles -> Nat]
      /\ Cached(c) \subseteq Handles
  BY <1>0, ShardFields, Zenon
<1>2. h \in Cached(c) /\ h \in Handles /\ c.key[h] = k
  BY <1>0, <1>1, Zenon DEF TablesAgree
<1>3. /\ list \in Seq(Handles) /\ Distinct(list) /\ Range(list) = Cached(c) \ {h}
  BY <1>0, <1>1, <1>2, UnlinkedNodes DEF TablesAgree, Cached
<1> HIDE DEF list
<1>4. d = [c EXCEPT !.table = [c.table EXCEPT ![k] = NoHandle], !.lru = list]
  BY <1>0, Zenon DEF ShardType, list
<1>5. /\ d \in ShardType
      /\ d.table = [c.table EXCEPT ![k] = NoHandle] /\ d.lru = list
      /\ d.key = c.key /\ d.refs = c.refs /\ d.usage = c.usage
  <2>1. [c.table EXCEPT ![k] = NoHandle] \in [Keys -> Handles \cup {NoHandle}] BY <1>1, Zenon
  <2> QED BY <1>0, <1>3, <1>4, <2>1, Zenon DEF ShardType
<1> HIDE DEF d
<1>6. Cached(d) = Cached(c) \ {h} BY <1>3, <1>5, Zenon DEF Cached
<1>7. TablesAgree(d)
  <2>1. \A g \in Cached(d) : d.key[g] \in Keys /\ d.table[d.key[g]] = g
    BY <1>0, <1>1, <1>2, <1>5, <1>6, Zenon DEF TablesAgree
  <2>2. \A m \in Keys : d.table[m] # NoHandle =>
          d.table[m] \in Cached(d) /\ d.key[d.table[m]] = m
    BY <1>0, <1>1, <1>2, <1>5, <1>6 DEF TablesAgree
  <2> QED BY <1>3, <1>5, <2>1, <2>2, Zenon DEF TablesAgree
<1>8. RefsCount(d, q) /\ q \in [Handles -> Nat]
  BY <1>0, <1>2, <1>5, <1>6 DEF RefsCount
<1>9. Live(d) = Live(c) BY <1>5, Zenon DEF Live
<1>10. Sound(d, q) BY <1>0, <1>5, <1>7, <1>8, <1>9, Zenon DEF Sound
<1> QED BY <1>2, <1>10, Zenon DEF d

(* Taking a reference and giving it up again.                              *)
LEMMA RefUnref ==
  ASSUME NEW p \in [Handles -> Nat], NEW h \in Handles,
         NEW q, q = [p EXCEPT ![h] = @ + 1]
  PROVE  q \in [Handles -> Nat] /\ q[h] > 0 /\ [q EXCEPT ![h] = @ - 1] = p
<1>1. q \in [Handles -> Nat] /\ q[h] = p[h] + 1 /\ p[h] \in Nat OBVIOUS
<1>2. \A g \in Handles : [q EXCEPT ![h] = @ - 1][g] = p[g] BY <1>1
<1>3. [q EXCEPT ![h] = @ - 1] = [g \in Handles |-> p[g]] BY <1>1, <1>2, Zenon
<1> QED BY <1>1, <1>3

LEMMA EraseSound ==
  ASSUME NEW c, NEW p, Sound(c, p), NEW k \in Keys
  PROVE  Sound(Erase(c, k), p)
<1> DEFINE h == c.table[k]
           d == [c EXCEPT !.table[k] = NoHandle, !.lru = Unlinked(@, h)]
           q == [p EXCEPT ![h] = @ + 1]
<1>1. CASE h = NoHandle BY <1>1, Zenon DEF Erase
<1>2. CASE h # NoHandle
  <2>1. h \in Handles /\ Sound(d, q) BY <1>2, DetachSound, Zenon
  <2>2. p \in [Handles -> Nat] BY Zenon DEF Sound
  <2>3. q[h] > 0 /\ [q EXCEPT ![h] = @ - 1] = p BY <2>1, <2>2, RefUnref, Zenon
  <2>4. Erase(c, k) = Unref(d, h) BY <1>2, Zenon DEF Erase
  <2> HIDE DEF d, h, q
  <2>5. Sound(Unref(d, h), [q EXCEPT ![h] = @ - 1]) BY <2>1, <2>3, UnrefSound, Zenon
  <2> QED BY <2>3, <2>4, <2>5, Zenon
<1> QED BY <1>1, <1>2, Zenon

(* A hit gives the caller one more reference.                              *)
LEMMA LookupSound ==
  ASSUME NEW c, NEW p, Sound(c, p), NEW k \in Keys, NEW h, h = c.table[k], h # NoHandle
  PROVE  /\ h \in Handles
         /\ Sound(Lookup(c, k), [p EXCEPT ![h] = @ + 1])
         /\ Cached(Lookup(c, k)) = Cached(c)
<1> DEFINE d == Lookup(c, k)
           q == [p EXCEPT ![h] = @ + 1]
           rest == Unlinked(c.lru, h)
           list == Append(rest, h)
           refs == [c.refs EXCEPT ![h] = @ + 1]
<1>0. /\ c \in ShardType /\ p \in [Handles -> Nat]
      /\ TablesAgree(c) /\ RefsCount(c, p) /\ c.usage = Cardinality(Live(c))
  BY Zenon DEF Sound
<1>1. /\ c.table \in [Keys -> Handles \cup {NoHandle}] /\ c.lru \in Seq(Handles)
      /\ c.refs \in [Handles -> Nat]
      /\ Cached(c) \subseteq Handles
  BY <1>0, ShardFields, Zenon
<1>2. h \in Cached(c) /\ h \in Handles
  BY <1>0, <1>1, Zenon DEF TablesAgree
<1>3. /\ rest \in Seq(Handles) /\ Distinct(rest) /\ Range(rest) = Cached(c) \ {h}
  BY <1>0, <1>1, <1>2, UnlinkedNodes DEF TablesAgree, Cached
<1> HIDE DEF rest
<1>4. /\ list \in Seq(Handles) /\ Distinct(list) /\ Range(list) = Cached(c)
  <2>1. /\ list \in Seq(Handles) /\ Distinct(list) /\ Range(list) = Range(rest) \cup {h}
    BY <1>2, <1>3, AppendNodes
  <2> QED BY <1>2, <1>3, <2>1, Zenon
<1>5. refs \in [Handles -> Nat] BY <1>1
<1>6. d = [c EXCEPT !.refs = refs, !.lru = list]
  BY <1>0, Zenon DEF ShardType, Lookup, rest
<1> HIDE DEF list, refs
<1>7. /\ d \in ShardType
      /\ d.table = c.table /\ d.lru = list
      /\ d.key = c.key /\ d.refs = refs /\ d.usage = c.usage
  BY <1>0, <1>4, <1>5, <1>6, Zenon DEF ShardType
<1> HIDE DEF d
<1>8. Cached(d) = Cached(c) BY <1>4, <1>7, Zenon DEF Cached
<1>9. TablesAgree(d) BY <1>0, <1>4, <1>7, <1>8, Zenon DEF TablesAgree
<1>10. RefsCount(d, q) /\ q \in [Handles -> Nat]
  BY <1>0, <1>1, <1>2, <1>7, <1>8 DEF RefsCount, refs
<1>11. Live(d) = Live(c)
  <2>1. c.refs[h] > 0 BY <1>0, <1>2 DEF RefsCount
  <2> QED BY <1>1, <1>2, <1>7, <2>1 DEF Live, refs
<1>12. Sound(d, q) BY <1>0, <1>7, <1>9, <1>10, <1>11, Zenon DEF Sound
<1> QED BY <1>2, <1>8, <1>12, Zenon DEF d

(* A handle that is not live is neither cached nor held.                   *)
LEMMA Unreferenced ==
  ASSUME NEW c, NEW p, Sound(c, p), NEW h \in Handles, h \notin Live(c)
  PROVE  c.refs[h] = 0 /\ p[h] = 0 /\ h \notin Cached(c)
<1>1. /\ c \in ShardType /\ p \in [Handles -> Nat]
      /\ c.refs[h] = p[h] + IF h \in Cached(c) THEN 1 ELSE 0
  BY Zenon DEF Sound, RefsCount
<1>2. c.refs \in [Handles -> Nat] BY <1>1, ShardFields, Zenon
<1>3. c.refs[h] \in Nat /\ ~(c.refs[h] > 0) BY <1>2, Zenon DEF Live
<1> QED BY <1>1, <1>3

(* Insert has linked the new handle and left the given list.               *)
Placed(c, k, h, list) ==
  [c EXCEPT !.table[k] = h, !.key[h] = k, !.refs[h] = 2, !.lru = list, !.usage = @ + 1]

(* The new handle takes the place of the one its key had, which keeps the  *)
(* reference the cache had to it for the caller to give up.                *)
LEMMA ReplaceSound ==
  ASSUME NEW c, NEW p, Sound(c, p), NEW k \in Keys, NEW h \in Handles, h \notin Live(c),
         NEW list \in Seq(Handles), Distinct(list),
         Range(list) = (Cached(c) \ {c.table[k]}) \cup {h},
         NEW q, q = [g \in Handles |-> IF g = h THEN 1
                                       ELSE IF g = c.table[k] THEN p[g] + 1 ELSE p[g]]
  PROVE  Sound(Placed(c, k, h, list), q)
<1> DEFINE table == [c.table EXCEPT ![k] = h]
           key == [c.key EXCEPT ![h] = k]
           refs == [c.refs EXCEPT ![h] = 2]
           usage == c.usage + 1
           d == Placed(c, k, h, list)
<1>0. /\ c \in ShardType /\ p \in [Handles -> Nat]
      /\ TablesAgree(c) /\ RefsCount(c, p) /\ c.usage = Cardinality(Live(c))
  BY Zenon DEF Sound
<1>1. /\ c.table \in [Keys -> Handles \cup {NoHandle}]
      /\ c.key \in [Handles -> Keys \cup {NoKey}]
      /\ c.refs \in [Handles -> Nat] /\ c.usage \in Nat
      /\ Cached(c) \subseteq Handles
  BY <1>0, ShardFields, Zenon
<1>2. c.refs[h] = 0 /\ p[h] = 0 /\ h \notin Cached(c) BY Unreferenced, Zenon
<1>3. /\ table \in [Keys -> Handles \cup {NoHandle}]
      /\ key \in [Handles -> Keys \cup {NoKey}]
      /\ refs \in [Handles -> Nat] /\ usage \in Nat
  BY <1>1
<1>4. d = [c EXCEPT !.table = table, !.key = key, !.refs = refs, !.lru = list,
                    !.usage = usage]
  BY <1>0, Zenon DEF ShardType, Placed
<1> HIDE DEF d, table, key, refs, usage
<1>5. /\ d \in ShardType
      /\ d.table = table /\ d.key = key /\ d.refs = refs /\ d.lru = list
      /\ d.usage = usage
  BY <1>0, <1>3, <1>4, Zenon DEF ShardType
<1>6. Cached(d) = (Cached(c) \ {c.table[k]}) \cup {h} BY <1>5, Zenon DEF Cached
<1>7. TablesAgree(d)
  <2>1. \A g \in Cached(d) : d.key[g] \in Keys /\ d.table[d.key[g]] = g
    <3> TAKE g \in Cached(d)
    <3>1. CASE g = h BY <1>1, <1>5, <3>1 DEF key, table
    <3>2. CASE g # h
      <4>1. g \in Cached(c) /\ g # c.table[k] /\ g \in Handles BY <1>1, <1>6, <3>2, Zenon
      <4>2. d.key[g] = c.key[g] BY <1>1, <1>5, <3>2, <4>1, Zenon DEF key
      <4>3. c.key[g] \in Keys /\ c.table[c.key[g]] = g BY <1>0, <4>1, Zenon DEF TablesAgree
      <4>4. c.key[g] # k BY <4>1, <4>3, Zenon
      <4> QED BY <1>1, <1>5, <4>2, <4>3, <4>4, Zenon DEF table
    <3> QED BY <3>1, <3>2, Zenon
  <2>2. \A m \in Keys : d.table[m] # NoHandle =>
          d.table[m] \in Cached(d) /\ d.key[d.table[m]] = m
    <3> TAKE m \in Keys
    <3>1. CASE m = k BY <1>1, <1>5, <1>6, <3>1 DEF key, table
    <3>2. CASE m # k
      <4>1. d.table[m] = c.table[m] BY <1>1, <1>5, <3>2, Zenon DEF table
      <4>2. HAVE d.table[m] # NoHandle
      <4>3. c.table[m] \in Cached(c) /\ c.key[c.table[m]] = m
        BY <1>0, <4>1, <4>2, Zenon DEF TablesAgree
      <4>4. c.table[m] # c.table[k]
        <5>1. c.table[k] # NoHandle => c.key[c.table[k]] = k BY <1>0, Zenon DEF TablesAgree
        <5> QED BY <3>2, <4>1, <4>2, <4>3, <5>1, Zenon
      <4>5. c.table[m] # h /\ c.table[m] \in Handles BY <1>1, <1>2, <4>3, Zenon
      <4> QED BY <1>1, <1>5, <1>6, <4>1, <4>3, <4>4, <4>5, Zenon DEF key
    <3> QED BY <3>1, <3>2, Zenon
  <2> QED BY <1>5, <2>1, <2>2, Zenon DEF TablesAgree
<1>8. RefsCount(d, q)
  <2> SUFFICES ASSUME NEW g \in Handles
               PROVE  d.refs[g] = q[g] + IF g \in Cached(d) THEN 1 ELSE 0
    BY Zenon DEF RefsCount
  <2>1. CASE g = h BY <1>1, <1>5, <1>6, <2>1 DEF refs
  <2>2. CASE g # h
    <3>1. c.refs[g] = p[g] + IF g \in Cached(c) THEN 1 ELSE 0 BY <1>0, Zenon DEF RefsCount
    <3>2. d.refs[g] = c.refs[g] BY <1>1, <1>5, <2>2, Zenon DEF refs
    <3>3. g = c.table[k] => g \in Cached(c)
      BY <1>0, HandleSentinelAssumption, Zenon DEF TablesAgree
    <3>4. p[g] \in Nat BY <1>0, Zenon
    <3> QED BY <1>6, <2>2, <3>1, <3>2, <3>3, <3>4
  <2> QED BY <2>1, <2>2, Zenon
<1>9. q \in [Handles -> Nat] BY <1>0
<1>10. d.usage = Cardinality(Live(d))
  <2>1. Live(d) = Live(c) \cup {h} BY <1>1, <1>5 DEF Live, refs
  <2>2. Cardinality(Live(d)) = Cardinality(Live(c)) + 1
    BY <2>1, LiveFinite, FS_AddElement, Zenon
  <2> QED BY <1>0, <1>5, <2>2, Zenon DEF usage
<1>11. Sound(d, q) BY <1>5, <1>7, <1>8, <1>9, <1>10, Zenon DEF Sound
<1> QED BY <1>11, Zenon DEF d

LEMMA LinkSound ==
  ASSUME NEW c, NEW p, Sound(c, p), NEW k \in Keys, NEW h \in Handles, h \notin Live(c)
  PROVE  Sound(Link(c, k, h), [p EXCEPT ![h] = 1])
<1> DEFINE old == c.table[k]
           longer == Append(c.lru, h)
           list == Unlinked(longer, old)
           Linked(l) == Placed(c, k, h, l)
           q == [p EXCEPT ![h] = 1]
<1>0. /\ c \in ShardType /\ p \in [Handles -> Nat] /\ TablesAgree(c)
  BY Zenon DEF Sound
<1>1. /\ c.table \in [Keys -> Handles \cup {NoHandle}] /\ c.lru \in Seq(Handles)
      /\ Cached(c) \subseteq Handles
  BY <1>0, ShardFields, Zenon
<1>2. p[h] = 0 /\ h \notin Cached(c) BY Unreferenced, Zenon
<1>3. /\ longer \in Seq(Handles) /\ Distinct(longer)
      /\ Range(longer) = Cached(c) \cup {h}
  BY <1>0, <1>1, <1>2, AppendNodes DEF TablesAgree, Cached
<1>4. Linked(longer) = [c EXCEPT !.table[k] = h, !.key[h] = k, !.refs[h] = 2,
                                 !.lru = Append(@, h), !.usage = @ + 1]
  BY <1>0, Zenon DEF ShardType, Placed
<1>5. CASE old = NoHandle
  <2>1. Link(c, k, h) = Linked(longer) BY <1>4, <1>5, Zenon DEF Link
  <2>2. q = [g \in Handles |-> IF g = h THEN 1
                               ELSE IF g = c.table[k] THEN p[g] + 1 ELSE p[g]]
    BY <1>0, <1>5, HandleSentinelAssumption, Zenon
  <2>3. Range(longer) = (Cached(c) \ {c.table[k]}) \cup {h}
    BY <1>1, <1>3, <1>5, HandleSentinelAssumption, Zenon
  <2> HIDE DEF longer, q
  <2>4. Sound(Linked(longer), q) BY <1>3, <2>2, <2>3, ReplaceSound, Zenon
  <2> QED BY <2>1, <2>4, Zenon DEF q
<1>6. CASE old # NoHandle
  <2>1. old \in Cached(c) /\ old \in Handles /\ old # h
    BY <1>0, <1>1, <1>2, <1>6, Zenon DEF TablesAgree
  <2>2. Link(c, k, h) = Unref(Linked(list), old)
    <3>1. [Linked(longer) EXCEPT !.lru = Unlinked(@, old)] = Linked(list)
      BY <1>0, Zenon DEF ShardType, Placed
    <3> QED BY <1>4, <1>6, <3>1, Zenon DEF Link
  <2>3. /\ list \in Seq(Handles) /\ Distinct(list)
        /\ Range(list) = (Cached(c) \ {c.table[k]}) \cup {h}
    <3>1. /\ list \in Seq(Handles) /\ Distinct(list)
          /\ Range(list) = Range(longer) \ {old}
      BY <1>3, <2>1, UnlinkedNodes, Zenon
    <3> QED BY <1>3, <2>1, <3>1, Zenon
  <2> DEFINE r == [q EXCEPT ![old] = @ + 1]
  <2>4. q \in [Handles -> Nat] BY <1>0, Zenon
  <2>5. r = [g \in Handles |-> IF g = h THEN 1
                               ELSE IF g = c.table[k] THEN p[g] + 1 ELSE p[g]]
    BY <1>0, <2>1, <2>4, Zenon
  <2> HIDE DEF list, q, r
  <2>6. Sound(Linked(list), r) BY <2>3, <2>5, ReplaceSound, Zenon
  <2>7. r[old] > 0 /\ [r EXCEPT ![old] = @ - 1] = q
    BY <2>1, <2>4, RefUnref, Zenon DEF r
  <2> HIDE DEF Linked, old
  <2>8. Sound(Unref(Linked(list), old), [r EXCEPT ![old] = @ - 1])
    BY <2>1, <2>6, <2>7, UnrefSound, Zenon
  <2> QED BY <2>2, <2>7, <2>8, Zenon DEF q
<1> QED BY <1>5, <1>6, Zenon

-----------------------------------------------------------------------------
(* The eviction loop of Insert.                                            *)

Oldest(c, n) == {c.lru[i] : i \in 1 .. n}

FreedBy(c, n) == {h \in Oldest(c, n) : c.refs[h] = 1}

(* The loop gives back one unit of usage_ for each handle it frees.        *)
LEMMA UnheldCount ==
  ASSUME NEW c \in ShardType, Distinct(c.lru), NEW n \in 0 .. Len(c.lru)
  PROVE  /\ Cardinality(Unheld(c, n)) \in Nat
         /\ Cardinality(Unheld(c, n)) = Cardinality(FreedBy(c, n))
<1> DEFINE f == [i \in Unheld(c, n) |-> c.lru[i]]
<1>1. c.lru \in Seq(Handles) /\ Len(c.lru) \in Nat /\ DOMAIN c.lru = 1 .. Len(c.lru)
  BY ShardFields, LenProperties, Zenon
<1>2. n \in Nat /\ n \in Int /\ 1 \in Int /\ \A i \in 1 .. n : i \in DOMAIN c.lru
  BY <1>1
<1>3. IsFiniteSet(Unheld(c, n))
  <2>1. IsFiniteSet(1 .. n) BY <1>2, FS_Interval, Zenon
  <2>2. Unheld(c, n) \subseteq 1 .. n BY Zenon DEF Unheld
  <2> QED BY <2>1, <2>2, FS_Subset, Zenon
<1>4. f \in [Unheld(c, n) -> FreedBy(c, n)] BY Zenon DEF Unheld, FreedBy, Oldest
<1>5. \A i, j \in Unheld(c, n) : f[i] = f[j] => i = j
  BY <1>2, Zenon DEF Unheld, Distinct
<1>6. \A h \in FreedBy(c, n) : \E i \in Unheld(c, n) : f[i] = h
  BY Zenon DEF Unheld, FreedBy, Oldest
<1>7. f \in Bijection(Unheld(c, n), FreedBy(c, n))
  BY <1>4, <1>5, <1>6, Zenon DEF Bijection, Injection, IsInjective, Surjection
<1>8. ExistsBijection(Unheld(c, n), FreedBy(c, n)) BY <1>7, Zenon DEF ExistsBijection
<1> QED BY <1>3, <1>8, FS_Bijection, FS_CardinalityType, Zenon

LEMMA DropSound ==
  ASSUME NEW c, NEW p, Sound(c, p), NEW n \in 0 .. Len(c.lru)
  PROVE  /\ Sound(Drop(c, n), p)
         /\ Drop(c, n).usage = UsageAfter(c, n)
         /\ Drop(c, n).lru = SubSeq(c.lru, n + 1, Len(c.lru))
<1> DEFINE d == Drop(c, n)
           dropped == Oldest(c, n)
           freed == FreedBy(c, n)
           gone == {c.key[h] : h \in dropped}
           list == SubSeq(c.lru, n + 1, Len(c.lru))
           table == [k \in Keys |-> IF k \in gone THEN NoHandle ELSE c.table[k]]
           key == [h \in Handles |-> IF h \in freed THEN NoKey ELSE c.key[h]]
           refs == [h \in Handles |-> IF h \in dropped THEN c.refs[h] - 1 ELSE c.refs[h]]
<1>0. /\ c \in ShardType /\ p \in [Handles -> Nat]
      /\ TablesAgree(c) /\ RefsCount(c, p) /\ c.usage = Cardinality(Live(c))
      /\ Distinct(c.lru)
  BY Zenon DEF Sound, TablesAgree
<1>1. /\ c.table \in [Keys -> Handles \cup {NoHandle}] /\ c.lru \in Seq(Handles)
      /\ c.key \in [Handles -> Keys \cup {NoKey}]
      /\ c.refs \in [Handles -> Nat] /\ c.usage \in Nat
      /\ Cached(c) \subseteq Handles
  BY <1>0, ShardFields, Zenon
<1>2. dropped \subseteq Cached(c)
  <2>1. Len(c.lru) \in Nat /\ DOMAIN c.lru = 1 .. Len(c.lru) BY <1>1, LenProperties, Zenon
  <2>2. \A i \in 1 .. n : i \in DOMAIN c.lru BY <2>1
  <2> QED BY <2>2, Zenon DEF Oldest, Cached, Range
<1>3. /\ list \in Seq(Handles) /\ Distinct(list) /\ Range(list) = Cached(c) \ dropped
  BY <1>0, <1>1, SuffixNodes, Zenon DEF Cached, Oldest
<1>4. d = [table |-> table, lru |-> list, key |-> key, refs |-> refs,
           usage |-> UsageAfter(c, n)]
  BY Zenon DEF Drop, Oldest, FreedBy
<1>5. \A h \in dropped : c.refs[h] = p[h] + 1 /\ p[h] \in Nat /\ h \in Handles
  BY <1>0, <1>1, <1>2, Zenon DEF RefsCount
<1>6. freed = {h \in dropped : c.refs[h] = 1} BY Zenon DEF FreedBy
<1>7. UsageAfter(c, n) = Cardinality(Live(c) \ freed) /\ UsageAfter(c, n) \in Nat
  <2>1. freed \subseteq Live(c)
    BY <1>5, <1>6 DEF Live
  <2>2. Live(c) \cap freed = freed BY <2>1, Zenon
  <2>3. /\ IsFiniteSet(Live(c) \ freed)
        /\ Cardinality(Live(c) \ freed) = Cardinality(Live(c)) - Cardinality(Live(c) \cap freed)
    BY LiveFinite, FS_Difference, Zenon
  <2>4. Cardinality(Unheld(c, n)) = Cardinality(freed) BY <1>0, UnheldCount, Zenon
  <2>5. Cardinality(Live(c) \ freed) \in Nat BY <2>3, FS_CardinalityType, Zenon
  <2> QED BY <1>0, <2>2, <2>3, <2>4, <2>5, Zenon DEF UsageAfter
<1>8. /\ table \in [Keys -> Handles \cup {NoHandle}]
      /\ key \in [Handles -> Keys \cup {NoKey}]
      /\ refs \in [Handles -> Nat]
  BY <1>1, <1>5
<1> HIDE DEF d, dropped, freed, list, table, key, refs
<1>9. /\ d \in ShardType
      /\ d.table = table /\ d.key = key /\ d.refs = refs /\ d.lru = list
      /\ d.usage = UsageAfter(c, n)
  BY <1>3, <1>4, <1>7, <1>8, Zenon DEF ShardType
<1>10. Cached(d) = Cached(c) \ dropped BY <1>3, <1>9, Zenon DEF Cached
<1>11. \A h \in Cached(c) \ dropped : c.key[h] \in Keys /\ c.key[h] \notin gone
  <2> SUFFICES ASSUME NEW h \in Cached(c) \ dropped
               PROVE  c.key[h] \in Keys /\ c.key[h] \notin gone
    BY Zenon
  <2>1. c.key[h] \in Keys /\ c.table[c.key[h]] = h BY <1>0, Zenon DEF TablesAgree
  <2>2. ASSUME NEW g \in dropped, c.key[g] = c.key[h] PROVE FALSE
    BY <1>0, <1>2, <2>1, <2>2, Zenon DEF TablesAgree
  <2> QED BY <2>1, <2>2, Zenon
<1>12. TablesAgree(d)
  <2>1. ASSUME NEW h \in Cached(d) PROVE d.key[h] \in Keys /\ d.table[d.key[h]] = h
    <3>1. h \in Cached(c) \ dropped /\ h \in Handles BY <1>1, <1>10, Zenon
    <3>2. d.key[h] = c.key[h] BY <1>6, <1>9, <3>1, Zenon DEF key
    <3>3. c.table[c.key[h]] = h BY <1>0, <3>1, Zenon DEF TablesAgree
    <3> QED BY <1>9, <1>11, <3>1, <3>2, <3>3, Zenon DEF table
  <2>2. ASSUME NEW k \in Keys, d.table[k] # NoHandle
        PROVE  d.table[k] \in Cached(d) /\ d.key[d.table[k]] = k
    <3>1. k \notin gone /\ d.table[k] = c.table[k] BY <1>9, <2>2, Zenon DEF table
    <3>2. c.table[k] \in Cached(c) /\ c.key[c.table[k]] = k
      BY <1>0, <2>2, <3>1, Zenon DEF TablesAgree
    <3>3. c.table[k] \notin dropped BY <3>1, <3>2, Zenon
    <3>4. d.key[c.table[k]] = c.key[c.table[k]] BY <1>1, <1>6, <1>9, <3>2, <3>3, Zenon DEF key
    <3> QED BY <1>10, <3>1, <3>2, <3>3, <3>4, Zenon
  <2> QED BY <1>3, <1>9, <2>1, <2>2, Zenon DEF TablesAgree
<1>13. RefsCount(d, p)
  <2> SUFFICES ASSUME NEW h \in Handles
               PROVE  d.refs[h] = p[h] + IF h \in Cached(d) THEN 1 ELSE 0
    BY Zenon DEF RefsCount
  <2>1. CASE h \in dropped
    BY <1>5, <1>9, <1>10, <2>1, SMTT(30) DEF refs
  <2>2. CASE h \notin dropped
    BY <1>0, <1>9, <1>10, <2>2, Zenon DEF refs, RefsCount
  <2> QED BY <2>1, <2>2, Zenon
<1>14. Live(d) = Live(c) \ freed
  BY <1>1, <1>5, <1>6, <1>9 DEF Live, refs
<1>15. Sound(d, p) BY <1>0, <1>7, <1>9, <1>12, <1>13, <1>14, Zenon DEF Sound
<1> QED BY <1>9, <1>15, Zenon DEF d, list

(* The loop of Insert ends, at a definite place.                           *)
LEMMA LoopEnds ==
  ASSUME NEW c, NEW p, Sound(c, p)
  PROVE  \E n \in 0 .. Len(c.lru) : LoopEndsAt(c, n)
<1> DEFINE stops == {n \in 0 .. Len(c.lru) : UsageAfter(c, n) <= Capacity \/ n = Len(c.lru)}
<1>0. c \in ShardType /\ Distinct(c.lru) BY Zenon DEF Sound, TablesAgree
<1>1. Len(c.lru) \in Nat /\ c.usage \in Nat BY <1>0, ShardFields, LenProperties, Zenon
<1>2. stops \subseteq Nat /\ stops # {} BY <1>1
<1>3. PICK n \in stops : \A m \in stops : ~(m < n)
  <2> DEFINE less == OpToRel(<, Nat)
  <2>1. IsWellFoundedOn(less, Nat) BY NatLessThanWellFounded, Zenon
  <2>2. \A m, n \in Nat : m < n => <<m, n>> \in less BY Zenon DEF OpToRel
  <2> HIDE DEF less, stops
  <2>3. \E n \in stops : \A m \in stops : ~(<<m, n>> \in less)
    BY <1>2, <2>1, WFMin, Zenon
  <2> QED BY <1>2, <2>2, <2>3, Zenon
<1>4. ASSUME NEW m \in 0 .. n - 1 PROVE UsageAfter(c, m) > Capacity
  <2>1. m \in 0 .. Len(c.lru) /\ m < n BY <1>1
  <2>2. m \notin stops BY <1>3, <2>1, Zenon
  <2>3. UsageAfter(c, m) \in Int BY <1>0, <1>1, <2>1, UnheldCount DEF UsageAfter
  <2> QED BY <2>1, <2>2, <2>3, CapacityAssumption
<1> QED BY <1>4, Zenon DEF LoopEndsAt

LEMMA ShrinkSound ==
  ASSUME NEW c, NEW p, Sound(c, p)
  PROVE  Sound(Shrink(c), p) /\ Fits(Shrink(c))
<1> DEFINE n == CHOOSE m \in 0 .. Len(c.lru) : LoopEndsAt(c, m)
<1>1. n \in 0 .. Len(c.lru) /\ LoopEndsAt(c, n) BY LoopEnds, Zenon
<1>2. Shrink(c) = Drop(c, n) BY Zenon DEF Shrink
<1> HIDE DEF n
<1>3. /\ Sound(Drop(c, n), p)
      /\ Drop(c, n).usage = UsageAfter(c, n)
      /\ Drop(c, n).lru = SubSeq(c.lru, n + 1, Len(c.lru))
  BY <1>1, DropSound, Zenon
<1>4. Drop(c, n).usage \in Nat /\ Len(c.lru) \in Nat
  BY <1>3, ShardFields, LenProperties, Zenon DEF Sound
<1>5. n = Len(c.lru) => SubSeq(c.lru, n + 1, Len(c.lru)) = <<>>
  BY <1>4, SubSeqEmpty
<1>6. Fits(Drop(c, n))
  BY <1>1, <1>3, <1>4, <1>5, CapacityAssumption DEF LoopEndsAt, Fits
<1> QED BY <1>2, <1>3, <1>6, Zenon

(* Insert: the caller gets the one reference to the new handle.            *)
LEMMA InsertSound ==
  ASSUME NEW c, NEW p, Sound(c, p), NEW k \in Keys, NEW h \in Handles, h \notin Live(c)
  PROVE  Sound(Insert(c, k, h), [p EXCEPT ![h] = 1]) /\ Fits(Insert(c, k, h))
<1>1. Sound(Link(c, k, h), [p EXCEPT ![h] = 1]) BY LinkSound, Zenon
<1> QED BY <1>1, ShrinkSound, Zenon DEF Insert

(* Neither a release, nor a hit, nor an erase takes the shard over its     *)
(* capacity.                                                               *)
LEMMA UnrefFits ==
  ASSUME NEW c \in ShardType, NEW h \in Handles, Fits(c)
  PROVE  Fits(Unref(c, h))
<1>1. c.usage \in Nat BY ShardFields, Zenon
<1>2. Unref(c, h).lru = c.lru /\ Unref(c, h).usage \in {c.usage, c.usage - 1}
  BY Zenon DEF Unref, ShardType
<1> QED BY <1>1, <1>2, CapacityAssumption DEF Fits

LEMMA CachedFits ==
  ASSUME NEW c, NEW p, Sound(c, p), Fits(c), NEW k \in Keys, c.table[k] # NoHandle
  PROVE  c.usage <= Capacity /\ c.usage \in Nat
<1>1. c \in ShardType /\ c.table[k] \in Cached(c) BY Zenon DEF Sound, TablesAgree
<1>2. c.usage \in Nat BY <1>1, ShardFields, Zenon
<1>3. c.lru # <<>> BY <1>1 DEF Cached, Range
<1> QED BY <1>2, <1>3, CapacityAssumption DEF Fits

LEMMA LookupFits ==
  ASSUME NEW c, NEW p, Sound(c, p), Fits(c), NEW k \in Keys
  PROVE  Fits(Lookup(c, k))
<1>1. CASE c.table[k] = NoHandle BY <1>1, Zenon DEF Lookup
<1>2. CASE c.table[k] # NoHandle
  <2>1. c.usage <= Capacity /\ c.usage \in Nat BY <1>2, CachedFits, Zenon
  <2>2. Lookup(c, k).usage = c.usage BY <1>2, Zenon DEF Lookup, Sound, ShardType
  <2> QED BY <2>1, <2>2, CapacityAssumption DEF Fits
<1> QED BY <1>1, <1>2, Zenon

LEMMA EraseFits ==
  ASSUME NEW c, NEW p, Sound(c, p), Fits(c), NEW k \in Keys
  PROVE  Fits(Erase(c, k))
<1>1. CASE c.table[k] = NoHandle BY <1>1, Zenon DEF Erase
<1>2. CASE c.table[k] # NoHandle
  <2> DEFINE h == c.table[k]
             d == [c EXCEPT !.table[k] = NoHandle, !.lru = Unlinked(@, h)]
  <2>1. c.usage <= Capacity /\ c.usage \in Nat BY <1>2, CachedFits, Zenon
  <2>2. d.usage = c.usage BY Zenon DEF Sound, ShardType
  <2>3. h \in Handles /\ d \in ShardType BY <1>2, DetachSound, ZenonT(30) DEF Sound
  <2>4. Fits(d) BY <2>1, <2>2, CapacityAssumption DEF Fits
  <2>5. Erase(c, k) = Unref(d, h) BY <1>2, Zenon DEF Erase
  <2> HIDE DEF d, h
  <2> QED BY <2>3, <2>4, <2>5, UnrefFits, Zenon
<1> QED BY <1>1, <1>2, Zenon

(* The list before the loop: the new handle is the newest, and the handle  *)
(* it replaces is gone.                                                    *)
LEMMA LinkList ==
  ASSUME NEW c, NEW p, Sound(c, p), NEW k \in Keys, NEW h \in Handles, h \notin Live(c)
  PROVE  LET old    == c.table[k]
             longer == Append(c.lru, h)
         IN /\ longer \in Seq(Handles) /\ Distinct(longer) /\ Range(longer) = Cached(c) \cup {h}
            /\ old = NoHandle => Link(c, k, h).lru = longer
            /\ old # NoHandle => old \in Range(longer) /\ Link(c, k, h).lru = Unlinked(longer, old)
<1> DEFINE old == c.table[k]
           longer == Append(c.lru, h)
           linked == [c EXCEPT !.table[k] = h, !.key[h] = k, !.refs[h] = 2,
                               !.lru = Append(@, h), !.usage = @ + 1]
<1>1. c \in ShardType /\ TablesAgree(c)
  BY Zenon DEF Sound
<1>2. c.lru \in Seq(Handles) /\ h \notin Cached(c) /\ Distinct(c.lru)
  BY <1>1, ShardFields, Unreferenced, Zenon DEF TablesAgree
<1>3. longer \in Seq(Handles) /\ Distinct(longer) /\ Range(longer) = Cached(c) \cup {h}
  BY <1>2, AppendNodes DEF Cached
<1>4. linked.lru = longer BY <1>1, Zenon DEF ShardType
<1>5. CASE old = NoHandle
  BY <1>3, <1>4, <1>5, Zenon DEF Link
<1>6. CASE old # NoHandle
  <2>1. old \in Range(longer) BY <1>1, <1>3, <1>6, Zenon DEF TablesAgree
  <2>2. Link(c, k, h) = Unref([linked EXCEPT !.lru = Unlinked(@, old)], old)
    BY <1>6, Zenon DEF Link
  <2>3. [linked EXCEPT !.lru = Unlinked(@, old)].lru = Unlinked(longer, old)
    BY <1>1, Zenon DEF ShardType
  <2>4. Unref([linked EXCEPT !.lru = Unlinked(@, old)], old).lru
          = [linked EXCEPT !.lru = Unlinked(@, old)].lru
    BY <1>1 DEF Unref, ShardType
  <2> QED BY <1>3, <1>6, <2>1, <2>2, <2>3, <2>4, Zenon
<1> QED BY <1>5, <1>6, Zenon

(* Up to its loop Insert leaves the handles of other keys in their order.  *)
LEMMA LinkOrder ==
  ASSUME NEW c, NEW p, Sound(c, p), NEW k \in Keys, NEW h \in Handles, h \notin Live(c),
         NEW i \in DOMAIN c.lru, NEW j \in DOMAIN c.lru, i <= j,
         c.lru[i] # c.table[k], c.lru[j] # c.table[k]
  PROVE  \E a, b \in DOMAIN Link(c, k, h).lru :
           /\ a <= b
           /\ Link(c, k, h).lru[a] = c.lru[i] /\ Link(c, k, h).lru[b] = c.lru[j]
<1> DEFINE old == c.table[k]
           longer == Append(c.lru, h)
<1>1. /\ longer \in Seq(Handles) /\ Distinct(longer)
      /\ old = NoHandle => Link(c, k, h).lru = longer
      /\ old # NoHandle => old \in Range(longer) /\ Link(c, k, h).lru = Unlinked(longer, old)
  BY LinkList, ZenonT(30)
<1>2. i \in DOMAIN longer /\ j \in DOMAIN longer /\ longer[i] = c.lru[i] /\ longer[j] = c.lru[j]
  <2>1. c.lru \in Seq(Handles) BY ShardFields, Zenon DEF Sound
  <2>2. Len(c.lru) \in Nat /\ DOMAIN c.lru = 1 .. Len(c.lru) /\ DOMAIN longer = 1 .. Len(longer)
    BY <1>1, <2>1, LenProperties, Zenon
  <2>3. Len(longer) = Len(c.lru) + 1 /\ \A m \in 1 .. Len(c.lru) : longer[m] = c.lru[m]
    BY <2>1, AppendProperties
  <2> QED BY <2>2, <2>3
<1> HIDE DEF longer, old
<1>3. longer[i] # old /\ longer[j] # old BY <1>2, Zenon DEF old
<1>4. CASE old = NoHandle BY <1>1, <1>2, <1>4, Zenon
<1>5. CASE old # NoHandle
  <2>1. \E a, b \in DOMAIN Unlinked(longer, old) :
          /\ a <= b
          /\ Unlinked(longer, old)[a] = longer[i] /\ Unlinked(longer, old)[b] = longer[j]
    BY <1>1, <1>2, <1>3, <1>5, UnlinkedOrder
  <2> QED BY <1>1, <1>2, <1>5, <2>1, Zenon
<1> QED BY <1>4, <1>5, Zenon

(* The handle that the loop takes last was one too many.                   *)
LEMMA LoopStopsInTime ==
  ASSUME NEW c, NEW p, Sound(c, p), NEW n \in 1 .. Len(c.lru), LoopEndsAt(c, n)
  PROVE  UsageAfter(c, n) >= Capacity
<1>1. c \in ShardType /\ Distinct(c.lru) /\ c.usage \in Nat /\ Len(c.lru) \in Nat
  BY ShardFields, LenProperties, Zenon DEF Sound, TablesAgree
<1>2. n \in 0 .. Len(c.lru) /\ n - 1 \in 0 .. Len(c.lru) /\ n - 1 \in 0 .. n - 1 BY <1>1
<1>3. Cardinality(Unheld(c, n)) \in Nat /\ Cardinality(Unheld(c, n - 1)) \in Nat
  BY <1>1, <1>2, UnheldCount, Zenon
<1>4. Cardinality(Unheld(c, n)) <= Cardinality(Unheld(c, n - 1)) + 1
  <2>1. IsFiniteSet(Unheld(c, n - 1))
    <3>1. IsFiniteSet(1 .. n - 1) BY <1>2, FS_Interval
    <3>2. Unheld(c, n - 1) \subseteq 1 .. n - 1 BY Zenon DEF Unheld
    <3> QED BY <3>1, <3>2, FS_Subset, Zenon
  <2>2. Unheld(c, n) \subseteq Unheld(c, n - 1) \cup {n} BY <1>2 DEF Unheld
  <2>3. /\ IsFiniteSet(Unheld(c, n - 1) \cup {n})
        /\ Cardinality(Unheld(c, n - 1) \cup {n}) \in
             {Cardinality(Unheld(c, n - 1)), Cardinality(Unheld(c, n - 1)) + 1}
    BY <2>1, FS_AddElement, Zenon
  <2>4. Cardinality(Unheld(c, n)) <= Cardinality(Unheld(c, n - 1) \cup {n})
    BY <2>2, <2>3, FS_Subset, Zenon
  <2> QED BY <1>3, <2>3, <2>4
<1>5. UsageAfter(c, n - 1) > Capacity BY <1>2, Zenon DEF LoopEndsAt
<1> QED BY <1>1, <1>3, <1>4, <1>5, CapacityAssumption DEF UsageAfter

(* What Insert drops besides the handle it replaces are the oldest handles, *)
(* and it drops none when that leaves the shard below its capacity.        *)
LEMMA InsertEvicts ==
  ASSUME NEW c, NEW p, Sound(c, p), NEW k \in Keys, NEW h \in Handles, h \notin Live(c),
         NEW j \in DOMAIN c.lru, c.key[c.lru[j]] # k,
         c.lru[j] \notin Cached(Insert(c, k, h))
  PROVE  /\ Insert(c, k, h).usage >= Capacity
         /\ \A i \in 1 .. j : c.lru[i] \notin Cached(Insert(c, k, h))
<1> DEFINE l == Link(c, k, h)
           q == [p EXCEPT ![h] = 1]
           n == CHOOSE m \in 0 .. Len(l.lru) : LoopEndsAt(l, m)
<1>1. Sound(l, q) BY LinkSound, Zenon
<1> HIDE DEF l, q
<1>2. n \in 0 .. Len(l.lru) /\ LoopEndsAt(l, n) BY <1>1, LoopEnds, Zenon
<1>3. Insert(c, k, h) = Drop(l, n) BY Zenon DEF Insert, Shrink, l
<1> HIDE DEF n
<1>4. /\ Drop(l, n).usage = UsageAfter(l, n)
      /\ Drop(l, n).lru = SubSeq(l.lru, n + 1, Len(l.lru))
  BY <1>1, <1>2, DropSound, Zenon
<1>5. l.lru \in Seq(Handles) /\ Distinct(l.lru) /\ Len(l.lru) \in Nat
      /\ DOMAIN l.lru = 1 .. Len(l.lru)
  BY <1>1, ShardFields, LenProperties, Zenon DEF Sound, TablesAgree
<1>6. Cached(Drop(l, n)) = Range(l.lru) \ {l.lru[i] : i \in 1 .. n}
  BY <1>2, <1>4, <1>5, SuffixNodes, Zenon DEF Cached
<1>7. c \in ShardType /\ TablesAgree(c) /\ c.lru \in Seq(Handles) /\ DOMAIN c.lru = 1 .. Len(c.lru)
      /\ Len(c.lru) \in Nat
  BY ShardFields, LenProperties, Zenon DEF Sound
<1>8. c.lru[j] # c.table[k]
  <2>1. c.lru[j] \in Cached(c) BY Zenon DEF Cached, Range
  <2>2. c.lru[j] \in Handles BY <1>7, <2>1, ShardFields, Zenon
  <2> QED BY <1>7, <2>2, HandleSentinelAssumption DEF TablesAgree
<1>9. ASSUME NEW i \in 1 .. j, c.lru[i] # c.table[k]
      PROVE  \E a \in 1 .. n : l.lru[a] = c.lru[i]
  <2>1. i \in DOMAIN c.lru /\ i <= j BY <1>7
  <2>2. PICK a, b \in DOMAIN l.lru : a <= b /\ l.lru[a] = c.lru[i] /\ l.lru[b] = c.lru[j]
    BY <1>8, <1>9, <2>1, LinkOrder DEF l
  <2>3. l.lru[b] \in Range(l.lru) BY Zenon DEF Range
  <2>4. PICK m \in 1 .. n : l.lru[m] = l.lru[b] BY <1>3, <1>6, <2>2, <2>3, Zenon
  <2>5. m \in DOMAIN l.lru BY <1>2, <1>5
  <2>6. m = b BY <1>5, <2>4, <2>5, Zenon DEF Distinct
  <2> QED BY <1>2, <1>5, <2>2, <2>4, <2>6
<1>10. n \in 1 .. Len(l.lru)
  <2>1. j \in 1 .. j BY <1>7
  <2>2. \E a \in 1 .. n : l.lru[a] = c.lru[j] BY <1>8, <1>9, <2>1, Zenon
  <2> QED BY <1>2, <1>5, <2>2
<1>11. UsageAfter(l, n) >= Capacity BY <1>1, <1>2, <1>10, LoopStopsInTime, Zenon
<1>12. ASSUME NEW i \in 1 .. j PROVE c.lru[i] \notin Cached(Drop(l, n))
  <2>1. CASE c.lru[i] # c.table[k] BY <1>6, <1>9, <2>1, Zenon
  <2>2. CASE c.lru[i] = c.table[k]
    <3>1. c.lru[i] \in Cached(c) /\ c.lru[i] \in Handles
      BY <1>7, ShardFields, SMTT(30) DEF Cached, Range
    <3>2. c.table[k] # NoHandle /\ c.table[k] # h
      BY <2>2, <3>1, Unreferenced, HandleSentinelAssumption, Zenon
    <3>3. c.table[k] \notin Range(l.lru)
      <4> DEFINE longer == Append(c.lru, h)
      <4>1. /\ longer \in Seq(Handles) /\ Distinct(longer) /\ c.table[k] \in Range(longer)
            /\ l.lru = Unlinked(longer, c.table[k])
        BY <3>2, LinkList, ZenonT(30) DEF l
      <4> HIDE DEF longer
      <4>2. Range(Unlinked(longer, c.table[k])) = Range(longer) \ {c.table[k]}
        BY <4>1, UnlinkedNodes, Zenon
      <4> QED BY <4>1, <4>2, Zenon
    <3> QED BY <1>6, <2>2, <3>3, Zenon
  <2> QED BY <2>1, <2>2, Zenon
<1> QED BY <1>3, <1>4, <1>11, <1>12, Zenon

-----------------------------------------------------------------------------
(* What the operations do to the handles that are live or in the list *)

(* The handles with a reference are those that are held and those in the    *)
(* list.                                                                    *)
LEMMA Referenced ==
  ASSUME NEW c, NEW p, Sound(c, p), NEW h \in Handles
  PROVE  /\ h \in Live(c) <=> p[h] > 0 \/ h \in Cached(c)
         /\ p[h] \in Nat
<1>1. c.refs[h] = p[h] + (IF h \in Cached(c) THEN 1 ELSE 0) /\ p[h] \in Nat
  BY Zenon DEF Sound, RefsCount
<1> QED BY <1>1 DEF Live

LEMMA UnrefFollows ==
  ASSUME NEW c \in ShardType, NEW h \in Handles
  PROVE  /\ Follows(c, Unref(c, h))
         /\ Unref(c, h).table = c.table /\ Unref(c, h).lru = c.lru
<1> DEFINE d == Unref(c, h)
<1>1. c.refs \in [Handles -> Nat] /\ c.key \in [Handles -> Keys \cup {NoKey}] BY ShardFields, Zenon
<1>2. d.table = c.table /\ d.lru = c.lru BY Zenon DEF Unref, ShardType
<1>3. CASE c.refs[h] > 1
  <2>1. d.key = c.key BY <1>3, Zenon DEF Unref, ShardType
  <2> HIDE DEF d
  <2>2. Follows(c, d) BY <1>2, <2>1, Zenon DEF Follows, Cached
  <2> QED BY <1>2, <2>2, Zenon DEF d
<1>4. CASE ~(c.refs[h] > 1)
  <2>1. d.key = [c.key EXCEPT ![h] = NoKey] /\ d.refs = [c.refs EXCEPT ![h] = 0]
    BY <1>4, Zenon DEF Unref, ShardType
  <2> HIDE DEF d
  <2>2. h \notin Live(d) BY <1>1, <2>1 DEF Live
  <2>3. \A g \in Live(d) : d.key[g] = c.key[g] BY <1>1, <2>1, <2>2, Zenon DEF Live
  <2>4. Follows(c, d) BY <1>2, <2>3, Zenon DEF Follows, Cached
  <2> QED BY <1>2, <2>4, Zenon DEF d
<1> QED BY <1>3, <1>4, Zenon

LEMMA LookupFollows ==
  ASSUME NEW c, NEW p, Sound(c, p), NEW k \in Keys, c.table[k] # NoHandle
  PROVE  /\ Follows(c, Lookup(c, k)) /\ Cached(Lookup(c, k)) = Cached(c)
         /\ Lookup(c, k).table = c.table /\ Lookup(c, k).key = c.key
<1>1. c \in ShardType BY Zenon DEF Sound
<1>2. Lookup(c, k).table = c.table /\ Lookup(c, k).key = c.key
  BY <1>1, Zenon DEF Lookup, ShardType
<1>3. PICK h : h = c.table[k] /\ h # NoHandle BY Zenon
<1>4. Sound(Lookup(c, k), [p EXCEPT ![h] = @ + 1]) /\ Cached(Lookup(c, k)) = Cached(c)
  BY <1>3, LookupSound
<1> QED BY <1>2, <1>4, Zenon DEF Follows

LEMMA EraseFollows ==
  ASSUME NEW c, NEW p, Sound(c, p), NEW k \in Keys, c.table[k] # NoHandle
  PROVE  /\ Follows(c, Erase(c, k)) /\ Cached(Erase(c, k)) = Cached(c) \ {c.table[k]}
         /\ Erase(c, k).table = [c.table EXCEPT ![k] = NoHandle]
<1> DEFINE h == c.table[k]
           d == [c EXCEPT !.table[k] = NoHandle, !.lru = Unlinked(@, h)]
<1>1. c \in ShardType /\ Distinct(c.lru) /\ c.lru \in Seq(Handles) /\ h \in Cached(c)
  BY ShardFields, Zenon DEF Sound, TablesAgree
<1>2. h \in Handles /\ d \in ShardType BY DetachSound, ZenonT(30) DEF Sound
<1>3. /\ d.table = [c.table EXCEPT ![k] = NoHandle] /\ d.lru = Unlinked(c.lru, h)
      /\ d.key = c.key /\ d.refs = c.refs
  BY <1>1, Zenon DEF ShardType
<1>4. Erase(c, k) = Unref(d, h) BY Zenon DEF Erase
<1> HIDE DEF d, h
<1>5. Cached(d) = Cached(c) \ {h} BY <1>1, <1>3, UnlinkedNodes DEF Cached
<1>6. Follows(d, Unref(d, h)) /\ Unref(d, h).table = d.table /\ Unref(d, h).lru = d.lru
  BY <1>2, UnrefFollows, Zenon
<1>7. Cached(Unref(d, h)) = Cached(d) BY <1>6, Zenon DEF Cached
<1> QED BY <1>3, <1>4, <1>5, <1>6, <1>7, Zenon DEF Follows, h

LEMMA DropFollows ==
  ASSUME NEW c, NEW p, Sound(c, p), NEW n \in 0 .. Len(c.lru)
  PROVE  Follows(c, Drop(c, n))
<1> DEFINE d == Drop(c, n)
           dropped == Oldest(c, n)
           freed == FreedBy(c, n)
<1>1. c \in ShardType /\ c.lru \in Seq(Handles) /\ Len(c.lru) \in Nat /\ Distinct(c.lru)
  BY ShardFields, LenProperties, Zenon DEF Sound, TablesAgree
<1>2. Cached(d) \subseteq Cached(c)
  <2>1. d.lru = SubSeq(c.lru, n + 1, Len(c.lru)) BY DropSound, Zenon
  <2>2. Range(SubSeq(c.lru, n + 1, Len(c.lru))) \subseteq Range(c.lru)
    BY <1>1, SuffixNodes, Zenon
  <2> QED BY <2>1, <2>2, Zenon DEF Cached
<1>3. /\ d.key = [h \in Handles |-> IF h \in freed THEN NoKey ELSE c.key[h]]
      /\ d.refs = [h \in Handles |-> IF h \in dropped THEN c.refs[h] - 1 ELSE c.refs[h]]
  BY Zenon DEF Drop, Oldest, FreedBy
<1>4. \A h \in freed : h \in dropped /\ c.refs[h] = 1 BY Zenon DEF FreedBy
<1> HIDE DEF d, dropped, freed
<1>5. \A h \in Live(d) : d.key[h] = c.key[h] BY <1>3, <1>4 DEF Live
<1>6. Follows(c, d) BY <1>2, <1>5, Zenon DEF Follows
<1> QED BY <1>6, Zenon DEF d

(* Insert brings in one handle.                                             *)
LEMMA InsertFollows ==
  ASSUME NEW c, NEW p, Sound(c, p), NEW k \in Keys, NEW h \in Handles, h \notin Live(c)
  PROVE  LET d == Insert(c, k, h)
         IN  /\ Cached(d) \subseteq Cached(c) \cup {h}
             /\ d.key[h] = k
             /\ \A g \in Live(d) \ {h} : d.key[g] = c.key[g]
<1> DEFINE l == Link(c, k, h)
           q == [p EXCEPT ![h] = 1]
           n == CHOOSE m \in 0 .. Len(l.lru) : LoopEndsAt(l, m)
           d == Insert(c, k, h)
           linked == [c EXCEPT !.table[k] = h, !.key[h] = k, !.refs[h] = 2,
                               !.lru = Append(@, h), !.usage = @ + 1]
           old == c.table[k]
<1>1. Sound(l, q) /\ Sound(d, q) BY LinkSound, InsertSound, Zenon
<1>2. c \in ShardType /\ TablesAgree(c) /\ p \in [Handles -> Nat] /\ c.usage \in Nat BY ShardFields, Zenon DEF Sound
<1>3. /\ Cached(l) \subseteq Cached(c) \cup {h}
      /\ l.key[h] = k
      /\ \A g \in Live(l) \ {h} : l.key[g] = c.key[g]
  <2>1. linked.key = [c.key EXCEPT ![h] = k] /\ c.key \in [Handles -> Keys \cup {NoKey}]
    BY <1>2, ShardFields, Zenon DEF ShardType
  <2>2. Cached(l) \subseteq Cached(c) \cup {h}
    <3> DEFINE longer == Append(c.lru, h)
    <3>1. /\ longer \in Seq(Handles) /\ Distinct(longer) /\ Range(longer) = Cached(c) \cup {h}
          /\ old = NoHandle => l.lru = longer
          /\ old # NoHandle => old \in Range(longer) /\ l.lru = Unlinked(longer, old)
      BY LinkList, Zenon
    <3> HIDE DEF longer, l, old
    <3>2. CASE old = NoHandle BY <3>1, <3>2, Zenon DEF Cached
    <3>3. CASE old # NoHandle
      <4>1. Range(Unlinked(longer, old)) = Range(longer) \ {old} BY <3>1, <3>3, UnlinkedNodes, Zenon
      <4> QED BY <3>1, <3>3, <4>1, Zenon DEF Cached
    <3> QED BY <3>2, <3>3, Zenon
  <2>3. CASE old = NoHandle
    <3>1. l = linked BY <2>3, Zenon DEF Link
    <3> HIDE DEF l, linked
    <3> QED BY <2>1, <2>2, <3>1, Zenon DEF Live
  <2>4. CASE old # NoHandle
    <3> DEFINE u == [linked EXCEPT !.lru = Unlinked(@, old)]
    <3>1. l = Unref(u, old) BY <2>4, Zenon DEF Link
    <3>2. u.key = linked.key /\ u.refs = [c.refs EXCEPT ![h] = 2] BY <1>2, Zenon DEF ShardType
    <3>3. old \in Handles /\ old # h BY <1>2, <2>4, ShardFields, Unreferenced DEF TablesAgree
    <3>4. c.refs \in [Handles -> Nat] BY <1>2, ShardFields, Zenon
    <3>5. \A g \in Handles : g # old => l.key[g] = u.key[g]
      BY <1>2, <2>1, <3>1, <3>2, <3>3 DEF Unref, ShardType
    <3>6. old \in Live(l) => l.key[old] = u.key[old]
      <4>1. CASE u.refs[old] > 1
        BY <1>2, <3>1, <4>1 DEF Unref, ShardType
      <4>2. CASE ~(u.refs[old] > 1)
        <5>1. l.refs = [u.refs EXCEPT ![old] = 0] BY <1>2, <3>1, <4>2 DEF Unref, ShardType
        <5> HIDE DEF l, u
        <5>2. l.refs[old] = 0 BY <3>2, <3>3, <3>4, <5>1, Zenon
        <5> QED BY <5>2 DEF Live
      <4> QED BY <4>1, <4>2, Zenon
    <3> HIDE DEF l, linked, u
    <3>7. \A g \in Live(l) : l.key[g] = u.key[g] BY <3>5, <3>6, Zenon DEF Live
    <3>8. l.key[h] = k BY <2>1, <3>2, <3>3, <3>5
    <3> QED BY <2>1, <2>2, <3>2, <3>7, <3>8, Zenon DEF Live
  <2> QED BY <2>3, <2>4, Zenon
<1> HIDE DEF l, q
<1>4. n \in 0 .. Len(l.lru) /\ LoopEndsAt(l, n) BY <1>1, LoopEnds, Zenon
<1>5. d = Drop(l, n) BY Zenon DEF Insert, Shrink, l
<1> HIDE DEF n, d
<1>6. Follows(l, d) BY <1>1, <1>4, <1>5, DropFollows, Zenon
<1>7. q[h] > 0 BY <1>2 DEF q
<1>8. h \in Live(d) /\ h \in Live(l) BY <1>1, <1>7, Referenced, Zenon
<1>9. Live(d) \subseteq Live(l)
  <2>1. \A g \in Handles : g \in Live(d) => g \in Live(l)
    BY <1>1, <1>6, Referenced, Zenon DEF Follows
  <2> QED BY <2>1, Zenon DEF Live
<1>10. /\ Cached(d) \subseteq Cached(c) \cup {h} /\ d.key[h] = k
       /\ \A g \in Live(d) \ {h} : d.key[g] = c.key[g]
  BY <1>3, <1>6, <1>8, <1>9, Zenon DEF Follows
<1> QED BY <1>10, Zenon DEF d

-----------------------------------------------------------------------------
(* The inductive invariant.                                                *)
ShardInv == Sound(shard, pins) /\ Fits(shard)

LEMMA InitShardInv == CacheInit => ShardInv
<1> SUFFICES ASSUME CacheInit PROVE ShardInv
  BY Zenon
<1>1. Sound(shard, pins) BY EmptySound, Zenon DEF CacheInit
<1>2. Fits(shard) BY Zenon DEF CacheInit, EmptyShard, Fits
<1> QED BY <1>1, <1>2, Zenon DEF ShardInv

LEMMA NextShardInv == ShardInv /\ [CacheNext]_cacheVars => ShardInv'
<1> SUFFICES ASSUME ShardInv, [CacheNext]_cacheVars PROVE ShardInv'
  BY Zenon
<1>1. Sound(shard, pins) /\ Fits(shard) BY Zenon DEF ShardInv
<1>2. ASSUME NEW k \in Keys, CacheLookup(k) PROVE ShardInv'
  <2>1. Fits(Lookup(shard, k)) BY <1>1, LookupFits, Zenon
  <2>2. CASE shard.table[k] = NoHandle
    <3>1. shard' = shard /\ pins' = pins BY <1>2, <2>2, Zenon DEF CacheLookup, Lookup
    <3> QED BY <1>1, <3>1, Zenon DEF ShardInv
  <2>3. CASE shard.table[k] # NoHandle
    <3>1. Sound(Lookup(shard, k), [pins EXCEPT ![shard.table[k]] = @ + 1])
      BY <1>1, <2>3, LookupSound, Zenon
    <3>2. /\ shard' = Lookup(shard, k)
          /\ pins' = [pins EXCEPT ![shard.table[k]] = @ + 1]
      BY <1>2, <2>3, Zenon DEF CacheLookup
    <3> QED BY <2>1, <3>1, <3>2, Zenon DEF ShardInv
  <2> QED BY <2>2, <2>3, Zenon
<1>3. ASSUME NEW k \in Keys, CacheInsert(k) PROVE ShardInv'
  <2>1. PICK h \in Handles \ Live(shard) :
          shard' = Insert(shard, k, h) /\ pins' = [pins EXCEPT ![h] = 1]
    BY <1>3, Zenon DEF CacheInsert
  <2>2. Sound(Insert(shard, k, h), [pins EXCEPT ![h] = 1]) /\ Fits(Insert(shard, k, h))
    BY <1>1, InsertSound, Zenon
  <2> QED BY <2>1, <2>2, Zenon DEF ShardInv
<1>4. ASSUME NEW k \in Keys, CacheErase(k) PROVE ShardInv'
  <2>1. Sound(Erase(shard, k), pins) BY <1>1, EraseSound, Zenon
  <2>2. Fits(Erase(shard, k)) BY <1>1, EraseFits, Zenon
  <2> QED BY <1>4, <2>1, <2>2, Zenon DEF CacheErase, ShardInv
<1>5. ASSUME NEW h \in Handles, CacheRelease(h) PROVE ShardInv'
  <2>1. Sound(Unref(shard, h), [pins EXCEPT ![h] = @ - 1])
    BY <1>1, <1>5, UnrefSound, Zenon DEF CacheRelease
  <2>2. Fits(Unref(shard, h)) BY <1>1, UnrefFits, Zenon DEF Sound
  <2> QED BY <1>5, <2>1, <2>2, Zenon DEF CacheRelease, ShardInv
<1>6. CASE UNCHANGED cacheVars BY <1>1, <1>6, Zenon DEF cacheVars, ShardInv
<1> QED BY <1>2, <1>3, <1>4, <1>5, <1>6, Zenon DEF CacheNext

(***************************************************************************)
(* Under any interleaving of Lookup, Insert, Release and Erase the types   *)
(* hold, the reference counts are exact, the hash table and the list hold  *)
(* the same handles, usage_ counts the live handles, and the shard exceeds *)
(* its capacity only by handles that callers hold.                         *)
(***************************************************************************)
THEOREM CacheSafety == CacheSpec => [](CacheTypeOK /\ RefsExact /\ AccountsExact)
<1>1. CacheSpec => []ShardInv BY InitShardInv, NextShardInv, PTL DEF CacheSpec
<1>2. ShardInv => CacheTypeOK /\ RefsExact /\ AccountsExact
  BY Zenon DEF ShardInv, Sound, RefsCount, TablesAgree, Fits, CacheTypeOK, RefsExact, AccountsExact,
         TableMatchesList, UsageExact, CapacityRespected
<1> QED BY <1>1, <1>2, PTL

(* Its last part: what the shard accounts for is what it holds.             *)
THEOREM CacheAccounts == CacheSpec => []AccountsExact
  BY CacheSafety, PTL

(***************************************************************************)
(* The eviction loop of Insert takes handles in order of use, oldest first *)
(* and past those that are held, and stops as soon as the shard fits.      *)
(***************************************************************************)
THEOREM CacheEviction == CacheSpec => EvictsOldestAndOnlyWhenFull
<1> DEFINE Evicts ==
      \A j \in DOMAIN shard.lru, k \in Keys :
        /\ shard.lru[j] \notin Cached(shard') /\ shard.key[shard.lru[j]] # k
        /\ CacheInsert(k)
        => /\ shard'.usage >= Capacity
           /\ \A i \in 1 .. j : shard.lru[i] \notin Cached(shard')
<1>1. ShardInv => Evicts
  <2> SUFFICES ASSUME ShardInv, NEW j \in DOMAIN shard.lru, NEW k \in Keys,
                      shard.lru[j] \notin Cached(shard'), shard.key[shard.lru[j]] # k,
                      CacheInsert(k)
               PROVE  /\ shard'.usage >= Capacity
                      /\ \A i \in 1 .. j : shard.lru[i] \notin Cached(shard')
    BY Zenon
  <2>1. Sound(shard, pins) BY Zenon DEF ShardInv
  <2>2. PICK h \in Handles \ Live(shard) : shard' = Insert(shard, k, h)
    BY Zenon DEF CacheInsert
  <2> QED BY <2>1, <2>2, InsertEvicts, Zenon
<1>2. ShardInv /\ [CacheNext]_cacheVars => [Evicts]_cacheVars
  BY <1>1, Zenon
<1> QED BY <1>2, InitShardInv, NextShardInv, PTL DEF CacheSpec, EvictsOldestAndOnlyWhenFull
=============================================================================
