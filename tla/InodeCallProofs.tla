-------------------------- MODULE InodeCallProofs ---------------------------
(***************************************************************************)
(* The store of the inode cache, and the calls of class TableFS other than *)
(* Rename, for any number of records, handles and open files: each call is *)
(* followed through the operations of the inode cache it makes, and each   *)
(* of these through the operation of the shard.  HandlersInv is the        *)
(* inductive invariant of InodeHandlers; WorksOn says what a call has to   *)
(* leave for the invariant to hold after it.                               *)
(***************************************************************************)
EXTENDS InodeHandlers

(***************************************************************************)
(* What the proofs of this module rest on, proved in InodeProofs: what the *)
(* operations of a shard keep, and counting in finite sets.  A shard that  *)
(* is sound for p has callers that hold each handle h p[h] times.          *)
(***************************************************************************)

(* LRUCache::Unref, for a caller that gives up a reference.                 *)
UnrefContract ==
  \A c, p : \A h \in Handles : Sound(c, p) /\ p[h] > 0 =>
    LET d == Unref(c, h)
    IN  /\ Sound(d, [p EXCEPT ![h] = @ - 1]) /\ Follows(c, d) /\ (Fits(c) => Fits(d))
        /\ d.table = c.table /\ d.lru = c.lru

(* LRUCache::Lookup, when it finds a handle.                                *)
LookupContract ==
  \A c, p, h : \A k \in Keys : Sound(c, p) /\ h = c.table[k] /\ h # NoHandle =>
    LET d == Lookup(c, k)
    IN  /\ Sound(d, [p EXCEPT ![h] = @ + 1]) /\ (Fits(c) => Fits(d))
        /\ Cached(d) = Cached(c) /\ d.table = c.table /\ d.key = c.key

(* LRUCache::Erase, whether or not it finds a handle.                       *)
EraseContract ==
  \A c, p : \A k \in Keys : Sound(c, p) =>
    LET d == Erase(c, k)
    IN  /\ Sound(d, p) /\ (Fits(c) => Fits(d))
        /\ c.table[k] # NoHandle => /\ Follows(c, d) /\ Cached(d) = Cached(c) \ {c.table[k]}
                                    /\ d.table = [c.table EXCEPT ![k] = NoHandle]

(* d is c after the insertion of h for k, as far as the keys are concerned. *)
Inserts(c, d, k, h) ==
  /\ Cached(d) \subseteq Cached(c) \cup {h}
  /\ d.key[h] = k /\ \A g \in Live(d) \ {h} : d.key[g] = c.key[g]

(* LRUCache::Insert of a handle that is not in use.                         *)
InsertContract ==
  \A c, p : \A k \in Keys, h \in Handles : Sound(c, p) /\ h \notin Live(c) =>
    LET d == Insert(c, k, h)
    IN  Sound(d, [p EXCEPT ![h] = 1]) /\ Fits(d) /\ Inserts(c, d, k, h)

FiniteSetFacts ==
  /\ \A S : IsFiniteSet(S) => Cardinality(S) \in Nat /\ (Cardinality(S) = 0 <=> S = {})
  /\ \A T : \A S \in SUBSET T : IsFiniteSet(T) =>
       IsFiniteSet(S) /\ Cardinality(S) <= Cardinality(T)
  /\ \A S, x : IsFiniteSet(S) =>
       /\ IsFiniteSet(S \cup {x})
       /\ Cardinality(S \cup {x}) = IF x \in S THEN Cardinality(S) ELSE Cardinality(S) + 1
       /\ Cardinality(S \ {x}) = IF x \in S THEN Cardinality(S) - 1 ELSE Cardinality(S)
  /\ \A S, T : \A f \in Surjection(S, T) : IsFiniteSet(S) =>
       IsFiniteSet(T) /\ Cardinality(T) <= Cardinality(S)

Grounds ==
  UnrefContract /\ LookupContract /\ EraseContract /\ InsertContract /\ FiniteSetFacts

LEMMA UnrefKeeps ==
  ASSUME Grounds, NEW c, NEW p, Sound(c, p), NEW h \in Handles, p[h] > 0
  PROVE  LET d == Unref(c, h)
         IN  /\ Sound(d, [p EXCEPT ![h] = @ - 1]) /\ Follows(c, d) /\ (Fits(c) => Fits(d))
             /\ d.table = c.table /\ d.lru = c.lru
BY Zenon DEF Grounds, UnrefContract

LEMMA LookupKeeps ==
  ASSUME Grounds, NEW c, NEW p, Sound(c, p), NEW k \in Keys, NEW h, h = c.table[k], h # NoHandle
  PROVE  LET d == Lookup(c, k)
         IN  /\ Sound(d, [p EXCEPT ![h] = @ + 1]) /\ (Fits(c) => Fits(d))
             /\ Cached(d) = Cached(c) /\ d.table = c.table /\ d.key = c.key
BY SMTT(30) DEF Grounds, LookupContract

LEMMA EraseKeeps ==
  ASSUME Grounds, NEW c, NEW p, Sound(c, p), NEW k \in Keys
  PROVE  LET d == Erase(c, k)
         IN  /\ Sound(d, p) /\ (Fits(c) => Fits(d))
             /\ c.table[k] # NoHandle => /\ Follows(c, d) /\ Cached(d) = Cached(c) \ {c.table[k]}
                                         /\ d.table = [c.table EXCEPT ![k] = NoHandle]
BY Zenon DEF Grounds, EraseContract

LEMMA InsertKeeps ==
  ASSUME Grounds, NEW c, NEW p, Sound(c, p), NEW k \in Keys, NEW h \in Handles, h \notin Live(c)
  PROVE  LET d == Insert(c, k, h)
         IN  Sound(d, [p EXCEPT ![h] = 1]) /\ Fits(d) /\ Inserts(c, d, k, h)
BY Zenon DEF Grounds, InsertContract

LEMMA FiniteCount ==
  ASSUME Grounds, NEW S, IsFiniteSet(S)
  PROVE  Cardinality(S) \in Nat /\ (Cardinality(S) = 0 <=> S = {})
BY Zenon DEF Grounds, FiniteSetFacts

LEMMA FiniteSubset ==
  ASSUME Grounds, NEW T, IsFiniteSet(T), NEW S \in SUBSET T
  PROVE  IsFiniteSet(S) /\ Cardinality(S) <= Cardinality(T)
BY Zenon DEF Grounds, FiniteSetFacts

LEMMA FiniteAdd ==
  ASSUME Grounds, NEW S, IsFiniteSet(S), NEW x
  PROVE  /\ IsFiniteSet(S \cup {x})
         /\ Cardinality(S \cup {x}) = IF x \in S THEN Cardinality(S) ELSE Cardinality(S) + 1
BY Zenon DEF Grounds, FiniteSetFacts

LEMMA FiniteRemove ==
  ASSUME Grounds, NEW S, IsFiniteSet(S), NEW x
  PROVE  Cardinality(S \ {x}) = IF x \in S THEN Cardinality(S) - 1 ELSE Cardinality(S)
BY Zenon DEF Grounds, FiniteSetFacts

LEMMA FiniteImage ==
  ASSUME Grounds, NEW S, NEW T, NEW f \in Surjection(S, T), IsFiniteSet(S)
  PROVE  IsFiniteSet(T) /\ Cardinality(T) <= Cardinality(S)
BY Zenon DEF Grounds, FiniteSetFacts

-----------------------------------------------------------------------------
(* Shards *)

(* The fields of a shard, for the provers.                                 *)
LEMMA Fields ==
  ASSUME NEW c \in ShardType
  PROVE  /\ c.table \in [Keys -> Handles \cup {NoHandle}]
         /\ c.lru \in Seq(Handles)
         /\ c.key \in [Handles -> Keys \cup {NoKey}]
         /\ c.refs \in [Handles -> Nat]
         /\ c.usage \in Nat
         /\ Cached(c) \subseteq Handles
<1>1. c.lru \in Seq(Handles) BY Zenon DEF ShardType
<1>2. Cached(c) \subseteq Handles
  BY <1>1, SMT DEF Cached, Range
<1> QED BY <1>2, Zenon DEF ShardType

(* A handle that is not live is neither cached nor held.                   *)
LEMMA NotLive ==
  ASSUME NEW c, NEW p, Sound(c, p), NEW h \in Handles, h \notin Live(c)
  PROVE  c.refs[h] = 0 /\ p[h] = 0 /\ h \notin Cached(c)
<1>1. /\ c \in ShardType /\ p \in [Handles -> Nat]
      /\ c.refs[h] = p[h] + IF h \in Cached(c) THEN 1 ELSE 0
  BY Zenon DEF Sound, RefsCount
<1>2. c.refs \in [Handles -> Nat] BY <1>1, Fields, Zenon
<1>3. c.refs[h] \in Nat /\ ~(c.refs[h] > 0) BY <1>2, Zenon DEF Live
<1> QED BY <1>1, <1>3

(* Taking a reference and giving it up again.                              *)
LEMMA PinUnpin ==
  ASSUME NEW p \in [Handles -> Nat], NEW h \in Handles,
         NEW q, q = [p EXCEPT ![h] = @ + 1]
  PROVE  q \in [Handles -> Nat] /\ q[h] > 0 /\ [q EXCEPT ![h] = @ - 1] = p
<1>1. q \in [Handles -> Nat] /\ q[h] = p[h] + 1 /\ p[h] \in Nat OBVIOUS
<1>2. \A g \in Handles : [q EXCEPT ![h] = @ - 1][g] = p[g] BY <1>1
<1>3. [q EXCEPT ![h] = @ - 1] = [g \in Handles |-> p[g]] BY <1>1, <1>2, Zenon
<1> QED BY <1>1, <1>3

(* The handles with a reference are those that are held and those in the    *)
(* list.                                                                    *)
LEMMA LiveIsHeldOrCached ==
  ASSUME NEW c, NEW p, Sound(c, p), NEW h \in Handles
  PROVE  /\ h \in Live(c) <=> p[h] > 0 \/ h \in Cached(c)
         /\ p[h] \in Nat
<1>1. c.refs[h] = p[h] + (IF h \in Cached(c) THEN 1 ELSE 0) /\ p[h] \in Nat
  BY Zenon DEF Sound, RefsCount
<1> QED BY <1>1 DEF Live

(* A handle is in the list exactly when the table has it under its key.     *)
LEMMA CachedIsInTable ==
  ASSUME NEW c, NEW p, Sound(c, p)
  PROVE  /\ \A h \in Handles : h \in Cached(c) <=> c.key[h] \in Keys /\ c.table[c.key[h]] = h
         /\ \A k \in Keys : c.table[k] # NoHandle =>
              c.table[k] \in Handles /\ c.table[k] \in Cached(c) /\ c.key[c.table[k]] = k
         /\ Cached(c) \subseteq Handles
<1>1. c \in ShardType /\ TablesAgree(c) BY Zenon DEF Sound
<1>2. Cached(c) \subseteq Handles BY <1>1, Fields, Zenon
<1> QED BY <1>1, <1>2, HandleSentinelAssumption, Zenon DEF TablesAgree

-----------------------------------------------------------------------------
(* The store: the inode cache around a shard, and the metadata store.  Good *)
(* says that it is well formed when its handles are held p times, Quiet    *)
(* that an operation touches only the records it is about.                 *)

Values == Versions \cup {NoValue}
Modes == {INODE_READ, INODE_DELETE, INODE_WRITE}
StoreType ==
  [shard : ShardType, value : [Handles -> Values], mode : [Handles -> Modes],
   db : [Keys -> Values]]

(* A store whose handles are held p times each.                             *)
Good(st, p) ==
  /\ st \in StoreType
  /\ Sound(st.shard, p)
  /\ \A h \in Live(st.shard) : st.shard.key[h] \in Keys

(* The keys with a handle that is held but no longer in the cache.          *)
GoneKeys(st) == {st.shard.key[h] : h \in Live(st.shard) \ Cached(st.shard)}

(* Outside K a call changes no record: a handle stays in the cache as it    *)
(* is, or leaves it clean, or leaves it because it is held.                 *)
Quiet(st, su, K) ==
  \A k \in Keys \ K :
    /\ su.db[k] = st.db[k]
    /\ k \in GoneKeys(st) => k \in GoneKeys(su)
    /\ \/ /\ su.shard.table[k] = st.shard.table[k]
          /\ st.shard.table[k] # NoHandle =>
               /\ su.value[st.shard.table[k]] = st.value[st.shard.table[k]]
               /\ su.mode[st.shard.table[k]] = st.mode[st.shard.table[k]]
       \/ /\ su.shard.table[k] = NoHandle /\ st.shard.table[k] # NoHandle
          /\ st.mode[st.shard.table[k]] = INODE_READ \/ k \in GoneKeys(su)

LEMMA QuietTrans ==
  ASSUME NEW st, NEW su, NEW sv, NEW K, Quiet(st, su, K), Quiet(su, sv, K)
  PROVE  Quiet(st, sv, K)
BY SMTT(30) DEF Quiet

LEMMA QuietWeaker ==
  ASSUME NEW st, NEW su, NEW J, NEW K, Quiet(st, su, J), J \subseteq K
  PROVE  Quiet(st, su, K)
BY Zenon DEF Quiet

(* When a call is quiet: N are the handles it has made.                     *)
Frame(st, p, su, q, K, N) ==
  /\ Good(st, p) /\ Good(su, q) /\ N \in SUBSET Handles
  /\ \A h \in N : h \notin Live(st.shard) /\ su.shard.key[h] \in K
  /\ Cached(su.shard) \subseteq Cached(st.shard) \cup N
  /\ \A h \in Live(su.shard) \ N : su.shard.key[h] = st.shard.key[h]
  /\ \A h \in Live(st.shard) : st.shard.key[h] \notin K => q[h] = p[h]
  /\ \A h \in Live(su.shard) : su.shard.key[h] \notin K =>
       su.value[h] = st.value[h] /\ su.mode[h] = st.mode[h]
  /\ \A k \in Keys \ K : su.db[k] = st.db[k]
  /\ \A h \in Cached(st.shard) \ Cached(su.shard) : st.shard.key[h] \notin K =>
       p[h] > 0 \/ st.mode[h] = INODE_READ

LEMMA QuietByFrame ==
  ASSUME NEW st, NEW p, NEW su, NEW q, NEW K, NEW N, Frame(st, p, su, q, K, N)
  PROVE  Quiet(st, su, K)
<1> DEFINE c == st.shard
           d == su.shard
<1>0. \A k \in Keys \ K : su.db[k] = st.db[k] BY Zenon DEF Frame
<1>1. Sound(c, p) /\ Sound(d, q) /\ N \in SUBSET Handles BY Zenon DEF Frame, Good
<1>2. SUFFICES ASSUME NEW k \in Keys \ K
      PROVE  /\ k \in GoneKeys(st) => k \in GoneKeys(su)
             /\ \/ /\ d.table[k] = c.table[k]
                   /\ c.table[k] # NoHandle =>
                        su.value[c.table[k]] = st.value[c.table[k]] /\ su.mode[c.table[k]] = st.mode[c.table[k]]
                \/ /\ d.table[k] = NoHandle /\ c.table[k] # NoHandle
                   /\ st.mode[c.table[k]] = INODE_READ \/ k \in GoneKeys(su)
  BY <1>0, Zenon DEF Quiet
<1>3. Live(c) \subseteq Handles /\ Live(d) \subseteq Handles BY Zenon DEF Live
<1>4. /\ \A h \in Handles : h \in Cached(c) <=> c.key[h] \in Keys /\ c.table[c.key[h]] = h
      /\ \A j \in Keys : c.table[j] # NoHandle =>
           c.table[j] \in Handles /\ c.table[j] \in Cached(c) /\ c.key[c.table[j]] = j
  BY <1>1, CachedIsInTable, Zenon
<1>5. /\ \A h \in Handles : h \in Cached(d) <=> d.key[h] \in Keys /\ d.table[d.key[h]] = h
      /\ \A j \in Keys : d.table[j] # NoHandle =>
           d.table[j] \in Handles /\ d.table[j] \in Cached(d) /\ d.key[d.table[j]] = j
  BY <1>1, CachedIsInTable, Zenon
<1>6. \A h \in Handles : /\ h \in Live(c) <=> p[h] > 0 \/ h \in Cached(c)
                         /\ h \in Live(d) <=> q[h] > 0 \/ h \in Cached(d)
  BY <1>1, LiveIsHeldOrCached, Zenon
<1>7. /\ \A h \in N : h \notin Live(c) /\ d.key[h] \in K
      /\ Cached(d) \subseteq Cached(c) \cup N
      /\ \A h \in Live(d) \ N : d.key[h] = c.key[h]
      /\ \A h \in Live(c) : c.key[h] \notin K => q[h] = p[h]
      /\ \A h \in Live(d) : d.key[h] \notin K => su.value[h] = st.value[h] /\ su.mode[h] = st.mode[h]
      /\ \A h \in Cached(c) \ Cached(d) : c.key[h] \notin K => p[h] > 0 \/ st.mode[h] = INODE_READ
  BY Zenon DEF Frame
<1>8. /\ GoneKeys(st) = {c.key[h] : h \in Live(c) \ Cached(c)}
      /\ GoneKeys(su) = {d.key[h] : h \in Live(d) \ Cached(d)}
  BY Zenon DEF GoneKeys
<1> HIDE DEF c, d
<1>9. ASSUME NEW h \in Live(c), c.key[h] = k, p[h] > 0, h \notin Cached(d)
      PROVE  k \in GoneKeys(su)
  <2>1. h \in Live(d) BY <1>3, <1>6, <1>7, <1>9, Zenon
  <2>2. d.key[h] = k BY <1>7, <1>9, <2>1, Zenon
  <2> QED BY <1>8, <1>9, <2>1, <2>2, Zenon
<1>10. k \in GoneKeys(st) => k \in GoneKeys(su)
  <2>1. ASSUME NEW h \in Live(c) \ Cached(c), c.key[h] = k PROVE k \in GoneKeys(su)
    <3>1. p[h] > 0 /\ h \notin Cached(d) BY <1>3, <1>6, <1>7, <2>1, Zenon
    <3> QED BY <1>9, <2>1, <3>1, Zenon
  <2> QED BY <1>8, <2>1, Zenon
<1>11. CASE d.table[k] # NoHandle
  <2> DEFINE g == d.table[k]
  <2>1. g \in Handles /\ g \in Cached(d) /\ d.key[g] = k /\ g \in Live(d) BY <1>5, <1>6, <1>11, Zenon
  <2> HIDE DEF g
  <2>2. g \notin N /\ g \in Cached(c) /\ c.key[g] = k BY <1>7, <2>1, Zenon
  <2>3. c.table[k] = g BY <1>4, <2>1, <2>2, Zenon
  <2> QED BY <1>7, <1>10, <2>1, <2>3, Zenon DEF g
<1>12. CASE d.table[k] = NoHandle /\ c.table[k] # NoHandle
  <2> DEFINE g == c.table[k]
  <2>1. g \in Handles /\ g \in Cached(c) /\ c.key[g] = k /\ g \in Live(c) BY <1>4, <1>6, <1>12, Zenon
  <2> HIDE DEF g
  <2>2. g \notin Cached(d)
    <3> SUFFICES ASSUME g \in Cached(d) PROVE FALSE BY Zenon
    <3>1. g \in Live(d) /\ d.key[g] = k BY <1>6, <1>7, <2>1, Zenon
    <3>2. d.table[k] = g BY <1>5, <2>1, <3>1, Zenon
    <3> QED BY <1>12, <2>1, <3>2, HandleSentinelAssumption, Zenon
  <2>3. p[g] > 0 \/ st.mode[g] = INODE_READ BY <1>7, <2>1, <2>2, Zenon
  <2> QED BY <1>9, <1>10, <1>12, <2>1, <2>2, <2>3, Zenon DEF g
<1> QED BY <1>10, <1>11, <1>12, Zenon

LEMMA StoreFields ==
  ASSUME NEW st \in StoreType
  PROVE  /\ st.shard \in ShardType /\ st.value \in [Handles -> Values]
         /\ st.mode \in [Handles -> Modes] /\ st.db \in [Keys -> Values]
         /\ st = [shard |-> st.shard, value |-> st.value, mode |-> st.mode, db |-> st.db]
BY Zenon DEF StoreType

LEMMA FlushedType ==
  ASSUME NEW db \in [Keys -> Values], NEW k \in Keys, NEW mode \in Modes, NEW value \in Values
  PROVE  /\ Flushed(db, k, mode, value) \in [Keys -> Values]
         /\ \A j \in Keys : j # k => Flushed(db, k, mode, value)[j] = db[j]
         /\ mode = INODE_WRITE => Flushed(db, k, mode, value)[k] = value
         /\ mode = INODE_DELETE => Flushed(db, k, mode, value)[k] = NoValue
         /\ mode = INODE_READ => Flushed(db, k, mode, value) = db
<1>1. NoValue \in Values BY Zenon DEF Values
<1>2. CASE mode = INODE_WRITE
  <2>1. Flushed(db, k, mode, value) = [db EXCEPT ![k] = value]
    BY <1>2 DEF Flushed, INODE_WRITE, INODE_DELETE
  <2> QED BY <1>2, <2>1 DEF INODE_WRITE, INODE_DELETE, INODE_READ
<1>3. CASE mode = INODE_DELETE
  <2>1. Flushed(db, k, mode, value) = [db EXCEPT ![k] = NoValue]
    BY <1>3 DEF Flushed, INODE_WRITE, INODE_DELETE
  <2> QED BY <1>1, <1>3, <2>1 DEF INODE_WRITE, INODE_DELETE, INODE_READ
<1>4. CASE mode = INODE_READ
  <2>1. Flushed(db, k, mode, value) = db
    BY <1>4 DEF Flushed, INODE_WRITE, INODE_DELETE, INODE_READ
  <2> QED BY <1>4, <2>1 DEF INODE_WRITE, INODE_DELETE, INODE_READ
<1> QED BY <1>2, <1>3, <1>4, Zenon DEF Modes

(* The deleter changes nothing but the handles that are freed and, for the  *)
(* dirty ones of them, the store.                                           *)
LEMMA CleanStore ==
  ASSUME NEW st \in StoreType, NEW d \in ShardType,
         \A h \in Live(st.shard) : st.shard.key[h] \in Keys
  PROVE  LET u == Clean(st, d)
             freed == Live(st.shard) \ Live(d)
         IN  /\ u \in StoreType /\ u.shard = d
             /\ \A h \in Handles \ freed : u.value[h] = st.value[h] /\ u.mode[h] = st.mode[h]
             /\ \A k \in Keys :
                  (\A h \in freed : st.shard.key[h] = k => st.mode[h] = INODE_READ)
                    => u.db[k] = st.db[k]
             /\ \A g \in freed :
                  (\A h \in freed : st.shard.key[h] = st.shard.key[g] => h = g)
                    => u.db[st.shard.key[g]] =
                         Flushed(st.db, st.shard.key[g], st.mode[g], st.value[g])[st.shard.key[g]]
<1> DEFINE u == Clean(st, d)
           freed == Live(st.shard) \ Live(d)
           flushes == {h \in freed : st.mode[h] # INODE_READ}
           Of(k) == {h \in flushes : st.shard.key[h] = k}
           One(k) == CHOOSE h \in Of(k) : TRUE
           db == [k \in Keys |-> IF Of(k) = {} THEN st.db[k]
                                 ELSE Flushed(st.db, k, st.mode[One(k)], st.value[One(k)])[k]]
           value == [h \in Handles |-> IF h \in freed THEN NoValue ELSE st.value[h]]
           mode == [h \in Handles |-> IF h \in freed THEN INODE_READ ELSE st.mode[h]]
<1>1. u = [shard |-> d, value |-> value, mode |-> mode, db |-> db] BY Zenon DEF Clean
<1>2. /\ st.value \in [Handles -> Values] /\ st.mode \in [Handles -> Modes]
      /\ st.db \in [Keys -> Values]
  BY StoreFields, Zenon
<1>3. freed \subseteq Handles /\ \A h \in freed : st.shard.key[h] \in Keys BY Zenon DEF Live
<1>4. \A k \in Keys : Of(k) # {} => One(k) \in Of(k) BY Zenon
<1>5. \A k \in Keys : \A h \in Of(k) : h \in freed /\ st.shard.key[h] = k /\ st.mode[h] # INODE_READ
  BY Zenon
<1>6. \A k \in Keys : \A h \in freed : st.shard.key[h] = k /\ st.mode[h] # INODE_READ => h \in Of(k)
  BY Zenon
<1> HIDE DEF One, Of, freed, flushes
<1>7. value \in [Handles -> Values] /\ mode \in [Handles -> Modes]
  BY <1>2, Zenon DEF Values, Modes
<1>8. \A k \in Keys : Of(k) # {} =>
        One(k) \in Handles /\ st.mode[One(k)] \in Modes /\ st.value[One(k)] \in Values
  BY <1>2, <1>3, <1>4, <1>5, Zenon
<1>9. db \in [Keys -> Values]
  <2>1. \A k \in Keys : db[k] \in Values
    <3> TAKE k \in Keys
    <3>1. CASE Of(k) = {} BY <1>2, <3>1, Zenon
    <3>2. CASE Of(k) # {}
      <4>1. Flushed(st.db, k, st.mode[One(k)], st.value[One(k)]) \in [Keys -> Values]
        BY <1>2, <1>8, <3>2, FlushedType, Zenon
      <4> QED BY <3>2, <4>1, Zenon
    <3> QED BY <3>1, <3>2, Zenon
  <2> QED BY <2>1, Zenon
<1>10. \A k \in Keys :
         (\A h \in freed : st.shard.key[h] = k => st.mode[h] = INODE_READ) => db[k] = st.db[k]
  <2> TAKE k \in Keys
  <2>1. (\A h \in freed : st.shard.key[h] = k => st.mode[h] = INODE_READ) => Of(k) = {}
    BY <1>5, Zenon
  <2> QED BY <2>1, Zenon
<1>11. ASSUME NEW g \in freed, \A h \in freed : st.shard.key[h] = st.shard.key[g] => h = g
       PROVE  db[st.shard.key[g]] =
                Flushed(st.db, st.shard.key[g], st.mode[g], st.value[g])[st.shard.key[g]]
  <2> DEFINE k == st.shard.key[g]
  <2>1. k \in Keys /\ g \in Handles /\ st.mode[g] \in Modes /\ st.value[g] \in Values BY <1>2, <1>3, Zenon
  <2>2. CASE st.mode[g] = INODE_READ
    <3>1. db[k] = st.db[k] BY <1>10, <1>11, <2>1, <2>2, Zenon
    <3>2. Flushed(st.db, k, st.mode[g], st.value[g]) = st.db BY <1>2, <2>1, <2>2, FlushedType, SMTT(30)
    <3> QED BY <3>1, <3>2, Zenon
  <2>3. CASE st.mode[g] # INODE_READ
    <3>1. g \in Of(k) BY <1>6, <2>1, <2>3, Zenon
    <3>2. One(k) = g BY <1>4, <1>5, <1>11, <2>1, <3>1
    <3> QED BY <2>1, <3>1, <3>2, Zenon
  <2> QED BY <2>2, <2>3, Zenon
<1>12. u.shard = d /\ u.value = value /\ u.mode = mode /\ u.db = db /\ u \in StoreType
  <2> HIDE DEF db, value, mode, u
  <2> QED BY <1>1, <1>7, <1>9, Zenon DEF StoreType
<1>13. \A h \in Handles \ freed : value[h] = st.value[h] /\ mode[h] = st.mode[h] BY Zenon
<1> HIDE DEF db, value, mode, u
<1>14. /\ u \in StoreType /\ u.shard = d
       /\ \A h \in Handles \ freed : u.value[h] = st.value[h] /\ u.mode[h] = st.mode[h]
       /\ \A k \in Keys :
            (\A h \in freed : st.shard.key[h] = k => st.mode[h] = INODE_READ)
              => u.db[k] = st.db[k]
       /\ \A g \in freed :
            (\A h \in freed : st.shard.key[h] = st.shard.key[g] => h = g)
              => u.db[st.shard.key[g]] =
                   Flushed(st.db, st.shard.key[g], st.mode[g], st.value[g])[st.shard.key[g]]
  BY <1>10, <1>11, <1>12, <1>13, Zenon
<1> QED BY <1>14, Zenon DEF u, freed

(* The cases that occur: only clean handles are freed, and one is.          *)
LEMMA CleanNothing ==
  ASSUME NEW st \in StoreType, NEW d \in ShardType,
         \A h \in Live(st.shard) : st.shard.key[h] \in Keys,
         \A h \in Live(st.shard) \ Live(d) : st.mode[h] = INODE_READ
  PROVE  LET u == Clean(st, d)
         IN  /\ u \in StoreType /\ u.shard = d /\ u.db = st.db
             /\ \A h \in Live(d) : u.value[h] = st.value[h] /\ u.mode[h] = st.mode[h]
             /\ Live(st.shard) \subseteq Live(d) => u.value = st.value /\ u.mode = st.mode
<1> DEFINE u == Clean(st, d)
           freed == Live(st.shard) \ Live(d)
<1>1. /\ u \in StoreType /\ u.shard = d
      /\ \A h \in Handles \ freed : u.value[h] = st.value[h] /\ u.mode[h] = st.mode[h]
      /\ \A k \in Keys :
           (\A h \in freed : st.shard.key[h] = k => st.mode[h] = INODE_READ)
             => u.db[k] = st.db[k]
  BY CleanStore, ZenonT(30)
<1> HIDE DEF u
<1>2. \A k \in Keys : u.db[k] = st.db[k] BY <1>1, Zenon
<1>3. /\ u.db \in [Keys -> Values] /\ st.db \in [Keys -> Values]
      /\ u.value \in [Handles -> Values] /\ st.value \in [Handles -> Values]
      /\ u.mode \in [Handles -> Modes] /\ st.mode \in [Handles -> Modes]
  BY <1>1, StoreFields, Zenon
<1>4. u.db = st.db BY <1>2, <1>3
<1>5. Live(st.shard) \subseteq Live(d) => u.value = st.value /\ u.mode = st.mode
  <2> SUFFICES ASSUME Live(st.shard) \subseteq Live(d) PROVE u.value = st.value /\ u.mode = st.mode
    BY Zenon
  <2>1. \A h \in Handles : u.value[h] = st.value[h] /\ u.mode[h] = st.mode[h] BY <1>1, Zenon
  <2> QED BY <1>3, <2>1
<1>6. \A h \in Live(d) : h \in Handles \ freed BY Zenon DEF Live
<1> QED BY <1>1, <1>4, <1>5, <1>6, Zenon DEF u

LEMMA CleanOne ==
  ASSUME NEW st \in StoreType, NEW d \in ShardType,
         \A h \in Live(st.shard) : st.shard.key[h] \in Keys,
         NEW g \in Live(st.shard), Live(st.shard) \ Live(d) = {g}
  PROVE  LET u == Clean(st, d)
             k == st.shard.key[g]
         IN  /\ u \in StoreType /\ u.shard = d
             /\ u.db = Flushed(st.db, k, st.mode[g], st.value[g])
             /\ \A h \in Live(d) : u.value[h] = st.value[h] /\ u.mode[h] = st.mode[h]
<1> DEFINE u == Clean(st, d)
           k == st.shard.key[g]
           db == Flushed(st.db, k, st.mode[g], st.value[g])
           freed == Live(st.shard) \ Live(d)
<1>1. /\ u \in StoreType /\ u.shard = d
      /\ \A h \in Handles \ freed : u.value[h] = st.value[h] /\ u.mode[h] = st.mode[h]
      /\ \A j \in Keys :
           (\A h \in freed : st.shard.key[h] = j => st.mode[h] = INODE_READ)
             => u.db[j] = st.db[j]
      /\ \A f \in freed :
           (\A h \in freed : st.shard.key[h] = st.shard.key[f] => h = f)
             => u.db[st.shard.key[f]] =
                  Flushed(st.db, st.shard.key[f], st.mode[f], st.value[f])[st.shard.key[f]]
  BY CleanStore, Zenon
<1>2. g \in Handles /\ k \in Keys BY Zenon DEF Live
<1>3. st.db \in [Keys -> Values] /\ st.mode[g] \in Modes /\ st.value[g] \in Values
  BY <1>2, StoreFields, Zenon
<1>4. u.db[k] = db[k] BY <1>1, Zenon
<1> HIDE DEF u, k
<1>5. db \in [Keys -> Values] /\ \A j \in Keys : j # k => db[j] = st.db[j]
  BY <1>2, <1>3, FlushedType, SMTT(30)
<1>6. \A j \in Keys : j # k => u.db[j] = st.db[j] BY <1>1, Zenon DEF k
<1>7. u.db \in [Keys -> Values] BY <1>1, StoreFields, Zenon
<1> HIDE DEF db
<1>8. u.db = db BY <1>4, <1>5, <1>6, <1>7
<1>9. \A h \in Live(d) : h \in Handles \ freed BY Zenon DEF Live
<1> QED BY <1>1, <1>8, <1>9, Zenon DEF u, k, db

(* A handle that only the cache holds is clean.                             *)
UnheldIsClean(st, p) == \A h \in Cached(st.shard) : p[h] = 0 => st.mode[h] = INODE_READ

(* The live handles of su are as they were in st, but for those in N.       *)
SameHandles(st, su, N) ==
  \A h \in Live(su.shard) \ N :
    /\ h \in Live(st.shard) /\ su.shard.key[h] = st.shard.key[h]
    /\ su.value[h] = st.value[h] /\ su.mode[h] = st.mode[h]

(* An operation that gives up at most the handle g.                         *)
LEMMA GiveUp ==
  ASSUME NEW st, NEW p, Good(st, p), NEW d, NEW q, Sound(d, q), Follows(st.shard, d),
         NEW g \in Handles, Live(d) = Live(st.shard) \/ Live(d) = Live(st.shard) \ {g}
  PROVE  LET u == Clean(st, d)
         IN  /\ Good(u, q) /\ u.shard = d
             /\ SameHandles(st, u, {})
             /\ g \in Live(d) \/ g \notin Live(st.shard) => u.db = st.db
             /\ g \in Live(st.shard) \ Live(d) =>
                  u.db = Flushed(st.db, st.shard.key[g], st.mode[g], st.value[g])
<1> DEFINE u == Clean(st, d)
<1>1. /\ st \in StoreType /\ d \in ShardType
      /\ \A h \in Live(st.shard) : st.shard.key[h] \in Keys
  BY Zenon DEF Good, Sound
<1>2. \A h \in Live(d) : h \in Live(st.shard) /\ d.key[h] = st.shard.key[h]
  BY Zenon DEF Follows
<1>3. CASE g \in Live(d) \/ g \notin Live(st.shard)
  <2>1. Live(st.shard) = Live(d) BY <1>3, Zenon
  <2>2. /\ u \in StoreType /\ u.shard = d /\ u.db = st.db
        /\ \A h \in Live(d) : u.value[h] = st.value[h] /\ u.mode[h] = st.mode[h]
    BY <1>1, <2>1, CleanNothing, Zenon
  <2> HIDE DEF u
  <2>3. Good(u, q) /\ SameHandles(st, u, {})
    BY <1>1, <1>2, <2>2, Zenon DEF Good, SameHandles
  <2> QED BY <1>3, <2>2, <2>3, Zenon DEF u
<1>4. CASE g \in Live(st.shard) \ Live(d)
  <2>1. Live(st.shard) \ Live(d) = {g} /\ g \in Live(st.shard) BY <1>4, Zenon
  <2>2. /\ u \in StoreType /\ u.shard = d
        /\ u.db = Flushed(st.db, st.shard.key[g], st.mode[g], st.value[g])
        /\ \A h \in Live(d) : u.value[h] = st.value[h] /\ u.mode[h] = st.mode[h]
    BY <1>1, <2>1, CleanOne, Zenon
  <2> HIDE DEF u
  <2>3. Good(u, q) /\ SameHandles(st, u, {})
    BY <1>1, <1>2, <2>2, Zenon DEF Good, SameHandles
  <2> QED BY <1>4, <2>2, <2>3, Zenon DEF u
<1> QED BY <1>3, <1>4, Zenon

LEMMA FlushQuiet ==
  ASSUME NEW st \in StoreType, NEW h \in Handles, NEW k \in Keys, NEW db,
         db = st.db \/ db = Flushed(st.db, k, st.mode[h], st.value[h])
  PROVE  db \in [Keys -> Values] /\ \A j \in Keys \ {k} : db[j] = st.db[j]
<1>1. st.db \in [Keys -> Values] /\ st.mode[h] \in Modes /\ st.value[h] \in Values BY StoreFields, Zenon
<1>2. CASE db = st.db BY <1>1, <1>2, Zenon
<1>3. CASE db = Flushed(st.db, k, st.mode[h], st.value[h]) BY <1>1, <1>3, FlushedType, SMTT(30)
<1> QED BY <1>2, <1>3, Zenon

(* What InodeCache::Release leaves of st: q counts the references that are  *)
(* left to its callers.                                                     *)
AfterRelease(st, u, p, q, h) ==
  LET k == st.shard.key[h]
  IN  /\ Good(u, q) /\ Quiet(st, u, {k}) /\ SameHandles(st, u, {})
      /\ u.shard.table = st.shard.table /\ Cached(u.shard) = Cached(st.shard)
      /\ Fits(st.shard) => Fits(u.shard)
      /\ p[h] > 1 \/ h \in Cached(st.shard) => u.db = st.db /\ h \in Live(u.shard)
      /\ ~(p[h] > 1 \/ h \in Cached(st.shard)) =>
           /\ u.db = Flushed(st.db, k, st.mode[h], st.value[h])
           /\ h \notin Live(u.shard)

LEMMA ReleaseStore ==
  ASSUME Grounds, NEW st, NEW p, Good(st, p), NEW h \in Handles, p[h] > 0
  PROVE  AfterRelease(st, Release(st, h), p, [p EXCEPT ![h] = @ - 1], h)
<1> DEFINE c == st.shard
           d == Unref(c, h)
           q == [p EXCEPT ![h] = @ - 1]
           u == Release(st, h)
           k == c.key[h]
<1>1. /\ st \in StoreType /\ Sound(c, p) /\ c \in ShardType /\ p \in [Handles -> Nat]
  BY Zenon DEF Good, Sound
<1>2. Sound(d, q) BY <1>1, UnrefKeeps, Zenon
<1>3. Follows(c, d) /\ d.table = c.table /\ d.lru = c.lru BY <1>1, UnrefKeeps, Zenon
<1>4. Cached(d) = Cached(c) BY <1>3, Zenon DEF Cached
<1>5. Fits(c) => Fits(d) BY <1>1, UnrefKeeps, Zenon
<1>6. u = Clean(st, d) BY Zenon DEF Release
<1>7. q[h] = p[h] - 1 /\ p[h] \in Nat /\ \A g \in Handles : g # h => q[g] = p[g] BY <1>1, Zenon
<1>8. h \in Live(c) /\ k \in Keys BY <1>1, LiveIsHeldOrCached, Zenon DEF Good
<1> HIDE DEF c, d, q, u
<1>9. \A g \in Handles : /\ g \in Live(c) <=> p[g] > 0 \/ g \in Cached(c)
                         /\ g \in Live(d) <=> q[g] > 0 \/ g \in Cached(d)
  BY <1>1, <1>2, LiveIsHeldOrCached, Zenon
<1>10. /\ h \in Live(d) <=> p[h] > 1 \/ h \in Cached(c)
       /\ \A g \in Handles : g # h => (g \in Live(d) <=> g \in Live(c))
  BY <1>4, <1>7, <1>9
<1>11. Live(d) = Live(c) \/ Live(d) = Live(c) \ {h}
  <2>1. Live(c) \subseteq Handles /\ Live(d) \subseteq Handles BY Zenon DEF Live
  <2> QED BY <1>8, <1>10, <2>1
<1>12. /\ Good(u, q) /\ u.shard = d /\ SameHandles(st, u, {})
       /\ h \in Live(d) \/ h \notin Live(c) => u.db = st.db
       /\ h \in Live(c) \ Live(d) => u.db = Flushed(st.db, k, st.mode[h], st.value[h])
  BY <1>2, <1>3, <1>6, <1>11, GiveUp DEF c
<1>13. \A j \in Keys \ {k} : u.db[j] = st.db[j]
  BY <1>1, <1>8, <1>12, FlushQuiet, SMTT(30)
<1>14. Quiet(st, u, {k})
  <2> DEFINE N == {}
  <2>1. N \in SUBSET Handles /\ \A g \in N : g \notin Live(st.shard) /\ u.shard.key[g] \in {k} BY Zenon
  <2>2. Cached(u.shard) \subseteq Cached(st.shard) \cup N BY <1>4, <1>12, Zenon DEF c
  <2>3. \A g \in Live(u.shard) \ N : u.shard.key[g] = st.shard.key[g] BY <1>12, Zenon DEF SameHandles
  <2>4. \A g \in Live(st.shard) : st.shard.key[g] \notin {k} => q[g] = p[g]
    BY <1>7, Zenon DEF Live, c
  <2>5. \A g \in Live(u.shard) : u.shard.key[g] \notin {k} =>
          u.value[g] = st.value[g] /\ u.mode[g] = st.mode[g]
    BY <1>12, Zenon DEF SameHandles
  <2>6. \A g \in Cached(st.shard) \ Cached(u.shard) : st.shard.key[g] \notin {k} =>
          p[g] > 0 \/ st.mode[g] = INODE_READ
    BY <1>4, <1>12, Zenon DEF c
  <2> HIDE DEF N
  <2>7. Frame(st, p, u, q, {k}, N)
    BY <1>12, <1>13, <2>1, <2>2, <2>3, <2>4, <2>5, <2>6, Zenon DEF Frame
  <2> QED BY <2>7, QuietByFrame, Zenon
<1>15. /\ Good(u, q) /\ Quiet(st, u, {k}) /\ SameHandles(st, u, {})
       /\ u.shard.table = c.table /\ Cached(u.shard) = Cached(c)
       /\ Fits(c) => Fits(u.shard)
       /\ p[h] > 1 \/ h \in Cached(c) => u.db = st.db /\ h \in Live(u.shard)
       /\ ~(p[h] > 1 \/ h \in Cached(c)) =>
            u.db = Flushed(st.db, k, st.mode[h], st.value[h]) /\ h \notin Live(u.shard)
  BY <1>3, <1>4, <1>5, <1>8, <1>10, <1>12, <1>14, Zenon
<1> QED BY <1>15, Zenon DEF u, q, c, AfterRelease

(* What InodeCache::Evict leaves of st.                                     *)
AfterEvict(st, u, p, k) ==
  LET g == st.shard.table[k]
  IN  /\ Good(u, p) /\ Quiet(st, u, {k}) /\ SameHandles(st, u, {})
      /\ u.shard.table = [st.shard.table EXCEPT ![k] = NoHandle]
      /\ Cached(u.shard) = Cached(st.shard) \ {g}
      /\ Fits(st.shard) => Fits(u.shard)
      /\ g = NoHandle => u.db = st.db
      /\ g # NoHandle /\ p[g] > 0 => u.db = st.db
      /\ g # NoHandle /\ ~(p[g] > 0) => u.db = Flushed(st.db, k, st.mode[g], st.value[g])

LEMMA EvictStore ==
  ASSUME Grounds, NEW st, NEW p, Good(st, p), NEW k \in Keys
  PROVE  AfterEvict(st, Evict(st, k), p, k)
<1> DEFINE c == st.shard
           d == Erase(c, k)
           u == Evict(st, k)
           g == c.table[k]
<1>1. /\ st \in StoreType /\ Sound(c, p) /\ c \in ShardType /\ p \in [Handles -> Nat]
      /\ c.table \in [Keys -> Handles \cup {NoHandle}] /\ Cached(c) \subseteq Handles
      /\ \A h \in Live(c) : c.key[h] \in Keys
  BY Fields, Zenon DEF Good, Sound
<1>2. Sound(d, p) BY <1>1, EraseKeeps, Zenon
<1>3. u = Clean(st, d) BY Zenon DEF Evict
<1>4. Fits(c) => Fits(d) BY <1>1, EraseKeeps, Zenon
<1>5. \A h \in Handles : /\ h \in Live(c) <=> p[h] > 0 \/ h \in Cached(c)
                         /\ h \in Live(d) <=> p[h] > 0 \/ h \in Cached(d)
  BY <1>1, <1>2, LiveIsHeldOrCached, Zenon
<1>6. CASE g = NoHandle
  <2>1. d = c BY <1>6, Zenon DEF Erase
  <2>2. /\ u \in StoreType /\ u.shard = c /\ u.db = st.db
        /\ u.value = st.value /\ u.mode = st.mode
    <3>1. \A h \in Live(c) \ Live(c) : st.mode[h] = INODE_READ BY Zenon
    <3>2. Live(c) \subseteq Live(c) BY Zenon
    <3>3. u = Clean(st, c) BY <1>3, <2>1, Zenon
    <3> HIDE DEF u
    <3> QED BY <1>1, <3>1, <3>2, <3>3, CleanNothing, Zenon
  <2>3. u = st
    <3> HIDE DEF u
    <3>1. u = [shard |-> u.shard, value |-> u.value, mode |-> u.mode, db |-> u.db]
      BY <2>2, StoreFields, Zenon
    <3>2. st = [shard |-> st.shard, value |-> st.value, mode |-> st.mode, db |-> st.db]
      BY <1>1, StoreFields, Zenon
    <3> QED BY <2>2, <3>1, <3>2, Zenon
  <2>4. c.table = [c.table EXCEPT ![k] = NoHandle] BY <1>1, <1>6, Zenon
  <2>5. Cached(c) = Cached(c) \ {g} BY <1>1, <1>6, HandleSentinelAssumption, Zenon
  <2> HIDE DEF u
  <2>6. Quiet(st, u, {k}) /\ SameHandles(st, u, {}) BY <2>3, Zenon DEF Quiet, SameHandles
  <2>7. u.shard.table = [c.table EXCEPT ![k] = NoHandle] /\ Cached(u.shard) = Cached(c) \ {g}
    BY <2>3, <2>4, <2>5, Zenon
  <2> QED BY <1>6, <2>3, <2>6, <2>7, Zenon DEF u, AfterEvict
<1>7. CASE g # NoHandle
  <2>1. /\ Follows(c, d) /\ Cached(d) = Cached(c) \ {g}
        /\ d.table = [c.table EXCEPT ![k] = NoHandle]
    BY <1>1, <1>7, EraseKeeps, Zenon
  <2>2. g \in Handles /\ g \in Cached(c) /\ c.key[g] = k BY <1>1, <1>7, CachedIsInTable, Zenon
  <2> HIDE DEF c, d, u, g
  <2>3. Live(d) = Live(c) \/ Live(d) = Live(c) \ {g}
    <3>1. \A h \in Handles : h # g => (h \in Live(d) <=> h \in Live(c)) BY <1>5, <2>1, Zenon
    <3>2. g \in Live(c) BY <1>5, <2>2, Zenon
    <3>3. Live(c) \subseteq Handles /\ Live(d) \subseteq Handles BY Zenon DEF Live
    <3> QED BY <3>1, <3>2, <3>3
  <2>4. /\ Good(u, p) /\ u.shard = d /\ SameHandles(st, u, {})
        /\ g \in Live(d) \/ g \notin Live(c) => u.db = st.db
        /\ g \in Live(c) \ Live(d) => u.db = Flushed(st.db, c.key[g], st.mode[g], st.value[g])
    BY <1>2, <1>3, <2>1, <2>2, <2>3, GiveUp DEF c
  <2>5. g \in Live(c) /\ (g \in Live(d) <=> p[g] > 0) BY <1>5, <2>1, <2>2, Zenon
  <2>6. /\ p[g] > 0 => u.db = st.db
        /\ ~(p[g] > 0) => u.db = Flushed(st.db, k, st.mode[g], st.value[g])
    BY <2>2, <2>4, <2>5, Zenon
  <2>7. \A j \in Keys \ {k} : u.db[j] = st.db[j]
    BY <1>1, <2>2, <2>6, FlushQuiet, SMTT(30)
  <2>8. Quiet(st, u, {k})
    <3> DEFINE N == {}
    <3>1. N \in SUBSET Handles /\ \A h \in N : h \notin Live(st.shard) /\ u.shard.key[h] \in {k} BY Zenon
    <3>2. Cached(u.shard) \subseteq Cached(st.shard) \cup N BY <2>1, <2>4, Zenon DEF c
    <3>3. \A h \in Live(u.shard) \ N : u.shard.key[h] = st.shard.key[h] BY <2>4, Zenon DEF SameHandles
    <3>4. \A h \in Live(st.shard) : st.shard.key[h] \notin {k} => p[h] = p[h] BY Zenon
    <3>5. \A h \in Live(u.shard) : u.shard.key[h] \notin {k} =>
            u.value[h] = st.value[h] /\ u.mode[h] = st.mode[h]
      BY <2>4, Zenon DEF SameHandles
    <3>6. \A h \in Cached(st.shard) \ Cached(u.shard) : st.shard.key[h] \notin {k} =>
            p[h] > 0 \/ st.mode[h] = INODE_READ
      BY <2>1, <2>2, <2>4, Zenon DEF c
    <3> HIDE DEF N
    <3>7. Frame(st, p, u, p, {k}, N)
      BY <2>4, <2>7, <3>1, <3>2, <3>3, <3>4, <3>5, <3>6, Zenon DEF Frame
    <3> QED BY <3>7, QuietByFrame, Zenon
  <2>9. /\ Good(u, p) /\ Quiet(st, u, {k}) /\ SameHandles(st, u, {})
        /\ u.shard.table = [c.table EXCEPT ![k] = NoHandle] /\ Cached(u.shard) = Cached(c) \ {g}
        /\ Fits(c) => Fits(u.shard)
    BY <1>4, <2>1, <2>4, <2>8, Zenon
  <2> QED BY <1>7, <2>6, <2>9, Zenon DEF u, c, g, AfterEvict
<1> QED BY <1>6, <1>7, Zenon

(* An update of one live handle and of the record of its key.               *)
Touches(st, su, h, k) ==
  /\ su \in StoreType /\ su.shard = st.shard /\ st.shard.key[h] = k
  /\ \A g \in Handles \ {h} : su.value[g] = st.value[g] /\ su.mode[g] = st.mode[g]
  /\ \A j \in Keys \ {k} : su.db[j] = st.db[j]

LEMMA TouchStore ==
  ASSUME NEW st, NEW p, Good(st, p), NEW h \in Live(st.shard), NEW su, NEW k, Touches(st, su, h, k)
  PROVE  Good(su, p) /\ Quiet(st, su, {k}) /\ SameHandles(st, su, {h})
<1>0. /\ su \in StoreType /\ su.shard = st.shard /\ st.shard.key[h] = k
      /\ \A g \in Handles \ {h} : su.value[g] = st.value[g] /\ su.mode[g] = st.mode[g]
      /\ \A j \in Keys \ {k} : su.db[j] = st.db[j]
  BY Zenon DEF Touches
<1>1. Good(su, p) BY <1>0, Zenon DEF Good
<1>2. Quiet(st, su, {k})
  <2> DEFINE N == {}
  <2>1. N \in SUBSET Handles /\ \A g \in N : g \notin Live(st.shard) /\ su.shard.key[g] \in {k} BY Zenon
  <2>2. Cached(su.shard) \subseteq Cached(st.shard) \cup N BY <1>0, Zenon
  <2>3. \A g \in Live(su.shard) \ N : su.shard.key[g] = st.shard.key[g] BY <1>0, Zenon
  <2>4. \A g \in Live(st.shard) : st.shard.key[g] \notin {k} => p[g] = p[g] BY Zenon
  <2>5. \A g \in Live(su.shard) : su.shard.key[g] \notin {k} =>
          su.value[g] = st.value[g] /\ su.mode[g] = st.mode[g]
    BY <1>0, Zenon DEF Live
  <2>6. \A g \in Cached(st.shard) \ Cached(su.shard) : st.shard.key[g] \notin {k} =>
          p[g] > 0 \/ st.mode[g] = INODE_READ
    BY <1>0, Zenon
  <2> HIDE DEF N
  <2>7. Frame(st, p, su, p, {k}, N)
    BY <1>0, <1>1, <2>1, <2>2, <2>3, <2>4, <2>5, <2>6, Zenon DEF Frame
  <2> QED BY <2>7, QuietByFrame, Zenon
<1>3. SameHandles(st, su, {h}) BY <1>0, Zenon DEF SameHandles, Live
<1> QED BY <1>1, <1>2, <1>3, Zenon

(* What "new InodeCacheHandle" and Insert leave of st.                      *)
AfterInsert(st, u, q, k, h, value, mode) ==
  /\ Good(u, q) /\ Quiet(st, u, {k}) /\ SameHandles(st, u, {h})
  /\ Fits(u.shard) /\ UnheldIsClean(u, q) /\ u.db = st.db
  /\ Cached(u.shard) \subseteq Cached(st.shard) \cup {h}
  /\ h \in Live(u.shard) /\ u.shard.key[h] = k
  /\ u.value[h] = value /\ u.mode[h] = mode

LEMMA InsertedStore ==
  ASSUME Grounds, NEW st, NEW p, Good(st, p), UnheldIsClean(st, p), NEW k \in Keys,
         NEW h \in Handles, h \notin Live(st.shard), NEW value \in Values, NEW mode \in Modes
  PROVE  AfterInsert(st, Inserted(st, k, h, value, mode), [p EXCEPT ![h] = 1], k, h, value, mode)
<1> DEFINE c == st.shard
           d == Insert(c, k, h)
           q == [p EXCEPT ![h] = 1]
           new == [st EXCEPT !.value[h] = value, !.mode[h] = mode]
           u == Inserted(st, k, h, value, mode)
<1>1. /\ st \in StoreType /\ Sound(c, p) /\ c \in ShardType /\ p \in [Handles -> Nat]
      /\ \A g \in Live(c) : c.key[g] \in Keys
  BY Zenon DEF Good, Sound
<1>2. Sound(d, q) /\ Fits(d) /\ d \in ShardType
  <2>1. Sound(d, q) /\ Fits(d) BY <1>1, InsertKeeps, Zenon
  <2> QED BY <2>1, Zenon DEF Sound
<1>3. /\ Cached(d) \subseteq Cached(c) \cup {h} /\ d.key[h] = k
      /\ \A g \in Live(d) \ {h} : d.key[g] = c.key[g]
  <2>1. Inserts(c, d, k, h) BY <1>1, InsertKeeps, Zenon
  <2> QED BY <2>1, Zenon DEF Inserts
<1>4. /\ new \in StoreType /\ new.shard = c /\ new.db = st.db
      /\ new.value = [st.value EXCEPT ![h] = value] /\ new.mode = [st.mode EXCEPT ![h] = mode]
  BY <1>1, Zenon DEF StoreType
<1>5. u = Clean(new, d) BY Zenon DEF Inserted
<1>6. p[h] = 0 /\ q[h] = 1 /\ \A g \in Handles : g # h => q[g] = p[g]
  BY <1>1, NotLive, Zenon
<1> HIDE DEF c, d, q, new, u
<1>7. \A g \in Handles : /\ g \in Live(c) <=> p[g] > 0 \/ g \in Cached(c)
                         /\ g \in Live(d) <=> q[g] > 0 \/ g \in Cached(d)
                         /\ p[g] \in Nat /\ q[g] \in Nat
  BY <1>1, <1>2, LiveIsHeldOrCached, Zenon
<1>8. /\ Live(c) \subseteq Handles /\ Live(d) \subseteq Handles
      /\ Cached(c) \subseteq Handles /\ Cached(d) \subseteq Handles
  BY <1>1, <1>2, Fields, Zenon DEF Live
<1>9. h \notin Live(c) /\ h \in Live(d) /\ \A g \in Live(d) \ {h} : g \in Live(c)
  BY <1>3, <1>6, <1>7, <1>8 DEF c
<1>10. \A g \in Handles \ {h} : new.value[g] = st.value[g] /\ new.mode[g] = st.mode[g]
  BY <1>1, <1>4, StoreFields, Zenon
<1>11. new.value[h] = value /\ new.mode[h] = mode
  BY <1>1, <1>4, StoreFields, Zenon
<1>12. \A g \in Live(c) \ Live(d) : st.mode[g] = INODE_READ
  BY <1>6, <1>7, <1>8, <1>9 DEF UnheldIsClean, c
<1>13. /\ u \in StoreType /\ u.shard = d /\ u.db = new.db
       /\ \A g \in Live(d) : u.value[g] = new.value[g] /\ u.mode[g] = new.mode[g]
  <2>1. \A g \in Live(new.shard) \ Live(d) : new.mode[g] = INODE_READ
    BY <1>4, <1>8, <1>9, <1>10, <1>12, Zenon
  <2>2. \A g \in Live(new.shard) : new.shard.key[g] \in Keys BY <1>1, <1>4, Zenon
  <2> DEFINE w == Clean(new, d)
  <2>3. /\ w \in StoreType /\ w.shard = d /\ w.db = new.db
        /\ \A g \in Live(d) : w.value[g] = new.value[g] /\ w.mode[g] = new.mode[g]
    BY <1>2, <1>4, <2>1, <2>2, CleanNothing, Zenon
  <2> QED BY <1>5, <2>3, Zenon
<1>14. Good(u, q)
  <2>1. \A g \in Live(d) : d.key[g] \in Keys BY <1>1, <1>3, <1>9, Zenon
  <2> QED BY <1>2, <1>13, <2>1, Zenon DEF Good
<1>15. SameHandles(st, u, {h})
  BY <1>3, <1>8, <1>9, <1>10, <1>13, Zenon DEF SameHandles, c
<1>16. Quiet(st, u, {k})
  <2> DEFINE N == {h}
  <2>1. N \in SUBSET Handles /\ \A g \in N : g \notin Live(st.shard) /\ u.shard.key[g] \in {k}
    BY <1>3, <1>13, Zenon
  <2>2. Cached(u.shard) \subseteq Cached(st.shard) \cup N BY <1>3, <1>13, Zenon DEF c
  <2>3. \A g \in Live(u.shard) \ N : u.shard.key[g] = st.shard.key[g] BY <1>15, Zenon DEF SameHandles
  <2>4. \A g \in Live(st.shard) : st.shard.key[g] \notin {k} => q[g] = p[g]
    BY <1>6, <1>8, <1>9, Zenon DEF c
  <2>5. \A g \in Live(u.shard) : u.shard.key[g] \notin {k} =>
          u.value[g] = st.value[g] /\ u.mode[g] = st.mode[g]
    BY <1>3, <1>13, <1>15, Zenon DEF SameHandles
  <2>6. \A g \in Cached(st.shard) \ Cached(u.shard) : st.shard.key[g] \notin {k} =>
          p[g] > 0 \/ st.mode[g] = INODE_READ
    BY <1>7, <1>8 DEF UnheldIsClean, c
  <2>7. \A j \in Keys \ {k} : u.db[j] = st.db[j] BY <1>4, <1>13, Zenon
  <2> HIDE DEF N
  <2>8. Frame(st, p, u, q, {k}, N)
    BY <1>14, <2>1, <2>2, <2>3, <2>4, <2>5, <2>6, <2>7, Zenon DEF Frame
  <2> QED BY <2>8, QuietByFrame, Zenon
<1>17. UnheldIsClean(u, q)
  <2> SUFFICES ASSUME NEW g \in Cached(u.shard), q[g] = 0 PROVE u.mode[g] = INODE_READ
    BY Zenon DEF UnheldIsClean
  <2>1. g \in Handles /\ g # h /\ g \in Live(d) /\ g \in Cached(c) /\ p[g] = 0
    BY <1>3, <1>6, <1>7, <1>8, <1>13
  <2>2. u.mode[g] = st.mode[g] BY <1>13, <1>15, <2>1, Zenon DEF SameHandles
  <2> QED BY <2>1, <2>2, Zenon DEF UnheldIsClean, c
<1>18. /\ Good(u, q) /\ Quiet(st, u, {k}) /\ SameHandles(st, u, {h})
       /\ Fits(u.shard) /\ UnheldIsClean(u, q) /\ u.db = st.db
       /\ Cached(u.shard) \subseteq Cached(st.shard) \cup {h}
       /\ h \in Live(u.shard) /\ u.shard.key[h] = k
       /\ u.value[h] = value /\ u.mode[h] = mode
  BY <1>2, <1>3, <1>4, <1>9, <1>11, <1>13, <1>14, <1>15, <1>16, <1>17, Zenon DEF c
<1> QED BY <1>18, Zenon DEF u, q, AfterInsert

(* There is memory for a handle when those that are held are not all of     *)
(* them: a shard above its capacity caches nothing.                         *)
Pinned(p) == {h \in Handles : p[h] > 0}

LEMMA FreeHandle ==
  ASSUME Grounds, NEW st, NEW p, Good(st, p), Fits(st.shard), Cardinality(Pinned(p)) < Cardinality(Handles)
  PROVE  NewHandle(st) \in Handles /\ NewHandle(st) \notin Live(st.shard)
<1> DEFINE c == st.shard
<1>1. Sound(c, p) /\ c.usage = Cardinality(Live(c)) BY Zenon DEF Good, Sound
<1>2. Live(c) # Handles
  <2> SUFFICES ASSUME Live(c) = Handles PROVE FALSE BY Zenon
  <2>1. Cardinality(Handles) > Capacity BY HandlesAssumption, Zenon
  <2>2. c.lru = <<>> BY <1>1, <2>1, Zenon DEF Fits
  <2>3. Cached(c) = {} BY <2>2 DEF Cached, Range
  <2>4. Pinned(p) = Handles
    <3>1. \A h \in Handles : h \in Live(c) <=> p[h] > 0 \/ h \in Cached(c)
      BY <1>1, LiveIsHeldOrCached, Zenon
    <3> QED BY <2>3, <3>1, Zenon DEF Pinned
  <2>5. Cardinality(Handles) \in Nat BY FiniteHandlesAssumption, FiniteCount, Zenon
  <2> QED BY <2>4, <2>5
<1>3. \E h \in Handles : h \notin Live(c) BY <1>2, Zenon DEF Live
<1> QED BY <1>3, Zenon DEF NewHandle

(* What InodeCache::Get leaves of st when it returns the handle h.          *)
AfterGet(st, u, p, q, k, h, mode) ==
  LET t == st.shard.table[k]
  IN  /\ h \in Handles /\ Good(u, q) /\ Quiet(st, u, {k}) /\ SameHandles(st, u, {h})
      /\ Fits(u.shard) /\ UnheldIsClean(u, q) /\ u.db = st.db
      /\ Cached(u.shard) \subseteq Cached(st.shard) \cup {h}
      /\ h \in Live(u.shard) /\ u.shard.key[h] = k /\ u.value[h] = Found(st, k)
      /\ mode # INODE_READ => u.mode[h] = mode
      /\ t # NoHandle => /\ h = t /\ h \in Cached(u.shard)
                         /\ mode = INODE_READ => u.mode[h] = st.mode[h]
      /\ t = NoHandle => p[h] = 0 /\ (mode = INODE_READ => u.mode[h] = INODE_READ)

LEMMA GetStore ==
  ASSUME Grounds, NEW st, NEW p, Good(st, p), Fits(st.shard), UnheldIsClean(st, p),
         Cardinality(Pinned(p)) < Cardinality(Handles),
         NEW k \in Keys, NEW mode \in Modes, Exists(st, k)
  PROVE  LET h == Handle(st, k)
         IN  AfterGet(st, Get(st, k, mode), p, [p EXCEPT ![h] = @ + 1], k, h, mode)
<1> DEFINE c == st.shard
           u == Get(st, k, mode)
           h == Handle(st, k)
           t == c.table[k]
           q == [p EXCEPT ![h] = @ + 1]
<1>1. /\ st \in StoreType /\ Sound(c, p) /\ c \in ShardType /\ p \in [Handles -> Nat]
      /\ \A g \in Live(c) : c.key[g] \in Keys
      /\ st.value \in [Handles -> Values] /\ st.mode \in [Handles -> Modes]
      /\ st.db \in [Keys -> Values]
  BY StoreFields, Zenon DEF Good, Sound
<1>2. CASE t # NoHandle
  <2> DEFINE d == Lookup(c, k)
             m == IF mode > INODE_READ THEN mode ELSE st.mode[h]
             modes == [st.mode EXCEPT ![h] = m]
  <2>1. h = t /\ h \in Handles /\ h \in Cached(c) /\ c.key[h] = k
    BY <1>1, <1>2, CachedIsInTable, Zenon DEF Handle
  <2>2. /\ Cached(d) = Cached(c) /\ d.table = c.table /\ d.key = c.key
    <3>1. h = c.table[k] /\ h # NoHandle BY <1>2, <2>1, Zenon
    <3> HIDE DEF h
    <3> QED BY <1>1, <3>1, LookupKeeps, ZenonT(30)
  <2>3. Sound(d, q) /\ Fits(d) /\ d \in ShardType
    <3>1. h = c.table[k] BY <2>1, Zenon
    <3>2. h # NoHandle BY <1>2, <3>1, Zenon
    <3>3. Sound(d, q) BY <1>1, <3>1, <3>2, LookupKeeps, Zenon
    <3>4. Fits(d) BY <1>1, <3>1, <3>2, LookupKeeps, Zenon
    <3> QED BY <3>3, <3>4, Zenon DEF Sound
  <2>4. /\ m \in Modes
        /\ mode # INODE_READ => m = mode
        /\ mode = INODE_READ => m = st.mode[h]
    BY <1>1, <2>1 DEF Modes, INODE_READ, INODE_WRITE, INODE_DELETE
  <2>5. u = [st EXCEPT !.shard = d, !.mode = modes]
    <3>1. u = [st EXCEPT !.shard = Lookup(@, k),
                         !.mode[t] = IF mode > INODE_READ THEN mode ELSE @]
      BY <1>2, Zenon DEF Get
    <3>2. st.mode[t] = st.mode[h] BY <2>1, Zenon
    <3> QED BY <1>1, <2>1, <3>1, <3>2, Zenon DEF StoreType
  <2> HIDE DEF c, d, m, u, q, t, h
  <2>6. modes \in [Handles -> Modes] /\ modes[h] = m /\ \A g \in Handles \ {h} : modes[g] = st.mode[g]
    BY <1>1, <2>1, <2>4, Zenon
  <2> HIDE DEF modes
  <2>7. /\ u \in StoreType /\ u.shard = d /\ u.mode = modes /\ u.value = st.value /\ u.db = st.db
    BY <1>1, <2>3, <2>5, <2>6, Zenon DEF StoreType
  <2>8. q[h] = p[h] + 1 /\ p[h] \in Nat /\ q[h] > 0 /\ \A g \in Handles : g # h => q[g] = p[g]
    BY <1>1, <2>1 DEF q
  <2>9. Live(d) = Live(c)
    <3>1. \A g \in Handles : /\ g \in Live(c) <=> p[g] > 0 \/ g \in Cached(c)
                             /\ g \in Live(d) <=> q[g] > 0 \/ g \in Cached(d)
      BY <1>1, <2>3, LiveIsHeldOrCached, Zenon
    <3>2. \A g \in Handles : g \in Live(c) <=> g \in Live(d) BY <2>1, <2>2, <2>8, <3>1, Zenon
    <3> QED BY <3>2, Zenon DEF Live
  <2>10. Good(u, q) BY <1>1, <2>2, <2>3, <2>7, <2>9, Zenon DEF Good
  <2>11. Live(d) \subseteq Handles BY Zenon DEF Live
  <2>12. SameHandles(st, u, {h})
    BY <2>2, <2>6, <2>7, <2>9, <2>11, Zenon DEF SameHandles, c
  <2>13. UnheldIsClean(u, q)
    <3> SUFFICES ASSUME NEW g \in Cached(u.shard), q[g] = 0 PROVE u.mode[g] = INODE_READ
      BY Zenon DEF UnheldIsClean
    <3>1. g \in Handles /\ g \in Cached(c) /\ g # h /\ p[g] = 0
      BY <1>1, <2>2, <2>7, <2>8, Fields, SMTT(30)
    <3> QED BY <2>6, <2>7, <3>1, Zenon DEF UnheldIsClean, c
  <2>14. Quiet(st, u, {k})
    <3> DEFINE N == {}
    <3>1. N \in SUBSET Handles /\ \A g \in N : g \notin Live(st.shard) /\ u.shard.key[g] \in {k} BY Zenon
    <3>2. Cached(u.shard) \subseteq Cached(st.shard) \cup N BY <2>2, <2>7, Zenon DEF c
    <3>3. \A g \in Live(u.shard) \ N : u.shard.key[g] = st.shard.key[g] BY <2>2, <2>7, Zenon DEF c
    <3>4. \A g \in Live(st.shard) : st.shard.key[g] \notin {k} => q[g] = p[g]
      BY <2>1, <2>8, <2>9, <2>11, Zenon DEF c
    <3>5. \A g \in Live(u.shard) : u.shard.key[g] \notin {k} =>
            u.value[g] = st.value[g] /\ u.mode[g] = st.mode[g]
      BY <2>1, <2>2, <2>6, <2>7, <2>11, Zenon
    <3>6. \A g \in Cached(st.shard) \ Cached(u.shard) : st.shard.key[g] \notin {k} =>
            p[g] > 0 \/ st.mode[g] = INODE_READ
      BY <2>2, <2>7, Zenon DEF c
    <3>7. \A j \in Keys \ {k} : u.db[j] = st.db[j] BY <2>7, Zenon
    <3> HIDE DEF N
    <3>8. Frame(st, p, u, q, {k}, N)
      BY <2>10, <3>1, <3>2, <3>3, <3>4, <3>5, <3>6, <3>7, Zenon DEF Frame
    <3> QED BY <3>8, QuietByFrame, Zenon
  <2>15. h \in Live(u.shard) /\ u.shard.key[h] = k /\ h \in Cached(u.shard)
    BY <1>1, <2>1, <2>2, <2>7, <2>9, LiveIsHeldOrCached, Zenon
  <2>16. u.value[h] = Found(st, k)
    BY <1>2, <2>1, <2>7, Zenon DEF Found, c, t
  <2>17. /\ mode # INODE_READ => u.mode[h] = mode
         /\ mode = INODE_READ => u.mode[h] = st.mode[h]
    BY <2>4, <2>6, <2>7, Zenon
  <2>18. /\ h \in Handles /\ Good(u, q) /\ Quiet(st, u, {k}) /\ SameHandles(st, u, {h})
         /\ Fits(u.shard) /\ UnheldIsClean(u, q) /\ u.db = st.db
         /\ Cached(u.shard) \subseteq Cached(st.shard) \cup {h}
    BY <2>1, <2>2, <2>3, <2>7, <2>10, <2>12, <2>13, <2>14, Zenon DEF c
  <2> QED BY <1>2, <2>1, <2>15, <2>16, <2>17, <2>18, Zenon DEF u, q, h, t, c, AfterGet
<1>3. CASE t = NoHandle
  <2>1. st.db[k] # NoValue /\ h = NewHandle(st) BY <1>3, Zenon DEF Exists, Handle
  <2>2. h \in Handles /\ h \notin Live(c) BY <2>1, FreeHandle, Zenon
  <2>3. p[h] = 0 BY <1>1, <2>2, NotLive, Zenon
  <2>4. u = Inserted(st, k, h, st.db[k], mode)
    BY <1>3, <2>1, Zenon DEF Get
  <2>5. q = [p EXCEPT ![h] = 1] BY <1>1, <2>2, <2>3
  <2>6. st.db[k] \in Values BY <1>1, Zenon
  <2>7. Found(st, k) = st.db[k] BY <1>3, Zenon DEF Found
  <2> HIDE DEF h, u, q, t
  <2>8. AfterInsert(st, Inserted(st, k, h, st.db[k], mode), [p EXCEPT ![h] = 1], k, h, st.db[k], mode)
    BY <2>2, <2>6, InsertedStore, Zenon
  <2>9. AfterInsert(st, u, q, k, h, st.db[k], mode) BY <2>4, <2>5, <2>8, Zenon
  <2> QED BY <1>3, <2>2, <2>3, <2>7, <2>9, Zenon DEF u, q, h, t, c, AfterGet, AfterInsert
<1> QED BY <1>2, <1>3, Zenon

-----------------------------------------------------------------------------
(* How often the open files and directories hold each handle.               *)
Held(files) == [h \in Handles |-> Cardinality({f \in Files : files[f].handle = h})]

OpenType ==
  [Files -> [handle : Handles \cup {NoHandle}, how : {NotOpen, Reading, Writing, Listing}]]

OpenOK(files) ==
  /\ files \in OpenType
  /\ \A f \in Files : files[f].how = NotOpen <=> files[f].handle = NoHandle

LEMMA HeldCount ==
  ASSUME Grounds, NEW files, NEW h \in Handles
  PROVE  /\ Held(files)[h] \in Nat
         /\ Held(files)[h] > 0 <=> \E f \in Files : files[f].handle = h
<1> DEFINE S == {f \in Files : files[f].handle = h}
<1>1. IsFiniteSet(S) BY HandlesAssumption, FiniteSubset, Zenon
<1>2. Held(files)[h] = Cardinality(S) BY Zenon DEF Held
<1>3. Cardinality(S) \in Nat /\ (Cardinality(S) = 0 <=> S = {})
  BY <1>1, FiniteCount, Zenon
<1> QED BY <1>2, <1>3

LEMMA HeldType ==
  ASSUME Grounds, NEW files
  PROVE  Held(files) \in [Handles -> Nat]
BY HeldCount DEF Held

(* At most one handle for each file.                                        *)
LEMMA HeldFew ==
  ASSUME Grounds, NEW files
  PROVE  /\ IsFiniteSet(Pinned(Held(files)))
         /\ Cardinality(Pinned(Held(files))) \in Nat
         /\ Cardinality(Pinned(Held(files))) <= Cardinality(Files)
<1> DEFINE S == {f \in Files : files[f].handle \in Handles}
           I == {files[f].handle : f \in S}
           F == [f \in S |-> files[f].handle]
<1>1. IsFiniteSet(S) /\ Cardinality(S) <= Cardinality(Files) /\ Cardinality(S) \in Nat
      /\ Cardinality(Files) \in Nat
  BY HandlesAssumption, FiniteSubset, FiniteCount, Zenon
<1>2. F \in Surjection(S, I) BY Zenon DEF Surjection
<1> HIDE DEF F, I, S
<1>3. IsFiniteSet(I) /\ Cardinality(I) <= Cardinality(S)
  BY <1>1, <1>2, FiniteImage, Zenon
<1>4. Pinned(Held(files)) \subseteq I
  BY HeldCount, Zenon DEF Pinned, I, S
<1>5. Cardinality(Pinned(Held(files))) <= Cardinality(I) /\ IsFiniteSet(Pinned(Held(files)))
  BY <1>3, <1>4, FiniteSubset, Zenon
<1>6. Cardinality(I) \in Nat /\ Cardinality(Pinned(Held(files))) \in Nat
  BY <1>3, <1>5, FiniteCount, Zenon
<1> QED BY <1>1, <1>3, <1>5, <1>6

(* Two states of the files that differ in f at most.                        *)
SameFiles(files, new, f) == \A e \in Files : e # f => new[e] = files[e]

LEMMA HeldOpen ==
  ASSUME Grounds, NEW files, NEW f \in Files, files[f].handle = NoHandle, NEW h \in Handles,
         NEW new, new[f].handle = h, SameFiles(files, new, f)
  PROVE  Held(new) = [Held(files) EXCEPT ![h] = @ + 1]
<1> DEFINE S(g) == {e \in Files : files[e].handle = g}
           T(g) == {e \in Files : new[e].handle = g}
<1>1. new[f].handle = h /\ \A e \in Files : e # f => new[e] = files[e] BY Zenon DEF SameFiles
<1>2. ASSUME NEW g \in Handles
      PROVE  Held(new)[g] = [Held(files) EXCEPT ![h] = @ + 1][g]
  <2>1. IsFiniteSet(S(g)) BY HandlesAssumption, FiniteSubset, Zenon
  <2>2. f \notin S(g) BY HandleSentinelAssumption, Zenon
  <2>3. CASE g = h
    <3>1. T(g) = S(g) \cup {f} BY <1>1, <2>2, <2>3, Zenon
    <3>2. Cardinality(T(g)) = Cardinality(S(g)) + 1 BY <2>1, <2>2, <3>1, FiniteAdd, Zenon
    <3> QED BY <2>3, <3>2, Zenon DEF Held
  <2>4. CASE g # h
    <3>1. T(g) = S(g) BY <1>1, <2>2, <2>4, Zenon
    <3> QED BY <2>4, <3>1, Zenon DEF Held
  <2> QED BY <2>3, <2>4, Zenon
<1>3. Held(new) = [Held(files) EXCEPT ![h] = @ + 1]
  <2>1. Held(new) \in [Handles -> Nat] /\ Held(files) \in [Handles -> Nat] BY HeldType, Zenon
  <2> QED BY <1>2, <2>1, Zenon
<1> QED BY <1>3, Zenon

LEMMA HeldClose ==
  ASSUME Grounds, NEW files, NEW f \in Files, NEW h \in Handles, files[f].handle = h,
         NEW new, new[f].handle = NoHandle, SameFiles(files, new, f)
  PROVE  Held(files)[h] > 0 /\ Held(new) = [Held(files) EXCEPT ![h] = @ - 1]
<1> DEFINE S(g) == {e \in Files : files[e].handle = g}
           T(g) == {e \in Files : new[e].handle = g}
<1>1. new[f].handle = NoHandle /\ \A e \in Files : e # f => new[e] = files[e] BY Zenon DEF SameFiles
<1>2. ASSUME NEW g \in Handles
      PROVE  Held(new)[g] = [Held(files) EXCEPT ![h] = @ - 1][g]
  <2>1. IsFiniteSet(S(g)) BY HandlesAssumption, FiniteSubset, Zenon
  <2>2. f \notin T(g) BY <1>1, HandleSentinelAssumption, Zenon
  <2>3. CASE g = h
    <3>1. T(g) = S(g) \ {f} /\ f \in S(g) BY <1>1, <2>2, <2>3, Zenon
    <3>2. Cardinality(T(g)) = Cardinality(S(g)) - 1 BY <2>1, <3>1, FiniteRemove, Zenon
    <3> QED BY <2>3, <3>2, Zenon DEF Held
  <2>4. CASE g # h
    <3>1. T(g) = S(g) BY <1>1, <2>2, <2>4, Zenon
    <3> QED BY <2>4, <3>1, Zenon DEF Held
  <2> QED BY <2>3, <2>4, Zenon
<1>3. Held(new) = [Held(files) EXCEPT ![h] = @ - 1] /\ Held(files)[h] > 0
  <2>1. /\ Held(new) \in [Handles -> Nat] /\ Held(files) \in [Handles -> Nat]
        /\ Held(files)[h] > 0
    BY HeldType, HeldCount, Zenon
  <2> QED BY <1>2, <2>1, Zenon
<1> QED BY <1>3, Zenon

(* What the cache and the store say of the record v of a key.               *)
KeyHolds(st, v, k) ==
  LET t == st.shard.table[k]
  IN  IF t = NoHandle THEN st.db[k] = v
      ELSE st.value[t] = v /\ (st.mode[t] = INODE_READ => st.db[k] = v)

(* A dirty handle in the cache has been opened for writing.                 *)
ModesOK(st, files) ==
  \A h \in Cached(st.shard) : st.mode[h] # INODE_READ =>
    st.mode[h] = INODE_WRITE /\ \E f \in Files : files[f].handle = h /\ files[f].how = Writing

(* The inductive invariant, of the four variables.                          *)
HInv(st, files, content, rc) ==
  /\ Good(st, Held(files)) /\ Fits(st.shard) /\ OpenOK(files) /\ ModesOK(st, files)
  /\ content \in [Keys -> Values] /\ rc \subseteq Keys
  /\ GoneKeys(st) \subseteq rc
  /\ \A k \in Keys \ rc : KeyHolds(st, content[k], k)

HandlersInv ==
  HInv(store, open, latest, raced) /\ numbered \in BOOLEAN /\ saved \in BOOLEAN

(* DetachedKeys of a store and its open files.                              *)
Detached(st, files) ==
  {st.shard.key[files[f].handle] :
     f \in {g \in Files : /\ files[g].how # NotOpen
                          /\ st.shard.table[st.shard.key[files[g].handle]] # files[g].handle}}

(* What a handler has to leave of the record v of a key it works on.        *)
Touched(su, files, rc, v, k) ==
  /\ LET t == su.shard.table[k]
     IN  t # NoHandle /\ su.mode[t] # INODE_READ =>
           su.mode[t] = INODE_WRITE /\ \E f \in Files : files[f].handle = t /\ files[f].how = Writing
  /\ k \notin rc /\ k \notin GoneKeys(su) => KeyHolds(su, v, k)

(* A handler that works on the keys K.                                      *)
WorksOn(K, st, op, lt, rc, su, files, content) ==
  /\ K \subseteq Keys
  /\ Good(su, Held(files)) /\ Fits(su.shard) /\ OpenOK(files)
  /\ content \in [Keys -> Values] /\ \A k \in Keys \ K : content[k] = lt[k]
  /\ Quiet(st, su, K)
  /\ \A f \in Files : op[f].how = Writing /\ files[f] # op[f] => st.shard.key[op[f].handle] \in K
  /\ \A k \in K : Touched(su, files, rc, content[k], k)

LEMMA FileHandles ==
  ASSUME Grounds, NEW st, NEW files, Good(st, Held(files)), OpenOK(files), NEW f \in Files,
         files[f].how # NotOpen
  PROVE  /\ files[f].handle \in Handles /\ Held(files)[files[f].handle] > 0
         /\ files[f].handle \in Live(st.shard) /\ st.shard.key[files[f].handle] \in Keys
<1> DEFINE h == files[f].handle
<1>1. h \in Handles BY Zenon DEF OpenOK, OpenType
<1>2. Held(files)[h] > 0 BY <1>1, HeldCount, Zenon
<1>3. h \in Live(st.shard) BY <1>1, <1>2, LiveIsHeldOrCached, Zenon DEF Good
<1> QED BY <1>1, <1>2, <1>3, Zenon DEF Good

(* Then the invariant holds again: every handle that is held but no longer  *)
(* in the cache is one of an open file, so its key has raced.               *)
LEMMA LeaveInv ==
  ASSUME Grounds, NEW st, NEW op, NEW lt, NEW rc, HInv(st, op, lt, rc),
         NEW su, NEW files, NEW content, NEW K, WorksOn(K, st, op, lt, rc, su, files, content)
  PROVE  HInv(su, files, content, rc \cup Detached(su, files))
<1> DEFINE d == su.shard
           after == rc \cup Detached(su, files)
<1>1. /\ K \subseteq Keys
      /\ Good(su, Held(files)) /\ Fits(su.shard) /\ OpenOK(files)
      /\ content \in [Keys -> Values] /\ \A k \in Keys \ K : content[k] = lt[k]
      /\ Quiet(st, su, K)
      /\ \A f \in Files : op[f].how = Writing /\ files[f] # op[f] => st.shard.key[op[f].handle] \in K
      /\ \A k \in K : Touched(su, files, rc, content[k], k)
  BY Zenon DEF WorksOn
<1>2. Sound(d, Held(files)) /\ Sound(st.shard, Held(op)) /\ \A h \in Live(d) : d.key[h] \in Keys
  BY <1>1, Zenon DEF Good, HInv
<1>3. /\ \A h \in Handles : h \in Cached(d) <=> d.key[h] \in Keys /\ d.table[d.key[h]] = h
      /\ Cached(d) \subseteq Handles
      /\ \A k \in Keys : st.shard.table[k] # NoHandle =>
           st.shard.table[k] \in Cached(st.shard) /\ st.shard.key[st.shard.table[k]] = k
  BY <1>2, CachedIsInTable, Zenon
<1>4. Detached(su, files) \subseteq Keys
  BY <1>1, FileHandles, Zenon DEF Detached
<1>5. GoneKeys(su) \subseteq Detached(su, files)
  <2> SUFFICES ASSUME NEW h \in Live(d) \ Cached(d) PROVE d.key[h] \in Detached(su, files)
    BY Zenon DEF GoneKeys
  <2>1. h \in Handles BY Zenon DEF Live
  <2>2. Held(files)[h] > 0 BY <1>2, <2>1, LiveIsHeldOrCached, Zenon
  <2>3. PICK f \in Files : files[f].handle = h BY <2>1, <2>2, HeldCount, Zenon
  <2>4. files[f].how # NotOpen BY <1>1, <2>1, <2>3, HandleSentinelAssumption, Zenon DEF OpenOK
  <2>5. d.table[d.key[h]] # h BY <1>2, <1>3, <2>1, Zenon
  <2> QED BY <2>3, <2>4, <2>5, Zenon DEF Detached
<1>6. ModesOK(su, files)
  <2> SUFFICES ASSUME NEW h \in Cached(d), su.mode[h] # INODE_READ
               PROVE  su.mode[h] = INODE_WRITE
                      /\ \E f \in Files : files[f].handle = h /\ files[f].how = Writing
    BY Zenon DEF ModesOK
  <2> DEFINE k == d.key[h]
  <2>1. h \in Handles /\ k \in Keys /\ d.table[k] = h /\ h # NoHandle
    BY <1>3, HandleSentinelAssumption, Zenon
  <2> HIDE DEF k, d
  <2>2. CASE k \in K
    <3>1. Touched(su, files, rc, content[k], k) BY <1>1, <2>2, Zenon
    <3> QED BY <2>1, <3>1, Zenon DEF Touched, d
  <2>3. CASE k \notin K
    <3>1. st.shard.table[k] = h /\ su.mode[h] = st.mode[h]
      BY <1>1, <2>1, <2>3, Zenon DEF Quiet, d
    <3>2. h \in Cached(st.shard) /\ st.shard.key[h] = k BY <1>3, <2>1, <3>1, Zenon
    <3>3. st.mode[h] = INODE_WRITE /\ \E f \in Files : op[f].handle = h /\ op[f].how = Writing
      BY <3>1, <3>2, Zenon DEF HInv, ModesOK
    <3>4. PICK f \in Files : op[f].handle = h /\ op[f].how = Writing BY <3>3, Zenon
    <3>5. files[f] = op[f] BY <1>1, <2>3, <3>2, <3>4, Zenon
    <3> QED BY <3>1, <3>3, <3>4, <3>5, Zenon
  <2> QED BY <2>2, <2>3, Zenon
<1>7. ASSUME NEW k \in Keys \ after PROVE KeyHolds(su, content[k], k)
  <2>1. k \notin rc /\ k \notin GoneKeys(su) BY <1>5, Zenon
  <2>2. CASE k \in K BY <1>1, <2>1, <2>2, Zenon DEF Touched
  <2>3. CASE k \notin K
    <3>1. KeyHolds(st, lt[k], k) /\ content[k] = lt[k] BY <1>1, <2>1, <2>3, Zenon DEF HInv
    <3> QED BY <1>1, <2>1, <2>3, <3>1, Zenon DEF Quiet, KeyHolds
  <2> QED BY <2>2, <2>3, Zenon
<1>8. rc \subseteq Keys BY Zenon DEF HInv
<1> QED BY <1>1, <1>4, <1>5, <1>6, <1>7, <1>8, Zenon DEF HInv

(* What every handler starts from.                                          *)
LEMMA Starts ==
  ASSUME Grounds, NEW st, NEW op, NEW lt, NEW rc, HInv(st, op, lt, rc), NEW p, p = Held(op)
  PROVE  /\ Good(st, p) /\ Fits(st.shard) /\ UnheldIsClean(st, p) /\ OpenOK(op)
         /\ Cardinality(Pinned(p)) < Cardinality(Handles)
         /\ \A h \in Handles : Cardinality(Pinned([p EXCEPT ![h] = @ + 1])) < Cardinality(Handles)
         /\ p \in [Handles -> Nat] /\ lt \in [Keys -> Values]
<1>1. Good(st, p) /\ Fits(st.shard) /\ OpenOK(op) /\ ModesOK(st, op) /\ lt \in [Keys -> Values]
  BY Zenon DEF HInv
<1>2. UnheldIsClean(st, p)
  <2> SUFFICES ASSUME NEW h \in Cached(st.shard), p[h] = 0, st.mode[h] # INODE_READ PROVE FALSE
    BY Zenon DEF UnheldIsClean
  <2>1. h \in Handles BY <1>1, Fields, Zenon DEF Good, Sound
  <2>2. \E f \in Files : op[f].handle = h BY <1>1, Zenon DEF ModesOK
  <2> QED BY <2>1, <2>2, HeldCount
<1>3. p \in [Handles -> Nat] BY HeldType, Zenon
<1>4. /\ IsFiniteSet(Pinned(p)) /\ Cardinality(Pinned(p)) \in Nat
      /\ Cardinality(Pinned(p)) <= Cardinality(Files)
  BY HeldFew, Zenon
<1>5. /\ Cardinality(Files) \in Nat /\ Cardinality(Handles) \in Nat
      /\ Cardinality(Files) + 1 < Cardinality(Handles)
  BY HandlesAssumption, FiniteHandlesAssumption, FiniteCount, Zenon
<1>6. ASSUME NEW h \in Handles
      PROVE  Cardinality(Pinned([p EXCEPT ![h] = @ + 1])) < Cardinality(Handles)
  <2> DEFINE q == [p EXCEPT ![h] = @ + 1]
  <2>1. Pinned(q) \subseteq Pinned(p) \cup {h} BY <1>3, Zenon DEF Pinned
  <2>2. /\ IsFiniteSet(Pinned(p) \cup {h})
        /\ Cardinality(Pinned(p) \cup {h}) \in {Cardinality(Pinned(p)), Cardinality(Pinned(p)) + 1}
    BY <1>4, FiniteAdd, Zenon
  <2> HIDE DEF q
  <2>3. Cardinality(Pinned(q)) <= Cardinality(Pinned(p) \cup {h}) /\ Cardinality(Pinned(q)) \in Nat
    BY <2>1, <2>2, FiniteSubset, FiniteCount, Zenon
  <2>4. Cardinality(Pinned(q)) < Cardinality(Handles) BY <1>4, <1>5, <2>2, <2>3
  <2> QED BY <2>4, Zenon DEF q
<1>7. Cardinality(Pinned(p)) < Cardinality(Handles) BY <1>4, <1>5
<1> QED BY <1>1, <1>2, <1>3, <1>6, <1>7, Zenon

(* The table after Get has the handle or, when Insert could not keep it in  *)
(* the cache, none.                                                         *)
LEMMA GotTable ==
  ASSUME NEW st, NEW p, Good(st, p), NEW u, NEW q, NEW k \in Keys, NEW h, NEW mode,
         AfterGet(st, u, p, q, k, h, mode)
  PROVE  /\ u.shard.table[k] = IF h \in Cached(u.shard) THEN h ELSE NoHandle
         /\ h \notin Cached(u.shard) => st.shard.table[k] = NoHandle
<1> DEFINE c == st.shard
           d == u.shard
<1>1. /\ h \in Handles /\ Good(u, q) /\ SameHandles(st, u, {h})
      /\ Cached(d) \subseteq Cached(c) \cup {h} /\ d.key[h] = k
      /\ c.table[k] # NoHandle => h = c.table[k] /\ h \in Cached(d)
  BY Zenon DEF AfterGet
<1>2. Sound(c, p) /\ Sound(d, q) BY <1>1, Zenon DEF Good
<1>3. /\ \A g \in Handles : g \in Cached(d) <=> d.key[g] \in Keys /\ d.table[d.key[g]] = g
      /\ \A j \in Keys : d.table[j] # NoHandle =>
           d.table[j] \in Handles /\ d.table[j] \in Cached(d) /\ d.key[d.table[j]] = j
  BY <1>2, CachedIsInTable, Zenon
<1>4. \A g \in Handles : g \in Cached(c) <=> c.key[g] \in Keys /\ c.table[c.key[g]] = g
  BY <1>2, CachedIsInTable, Zenon
<1>5. \A g \in Handles : g \in Cached(d) => g \in Live(d) BY <1>2, LiveIsHeldOrCached, Zenon
<1>6. CASE h \in Cached(d) BY <1>1, <1>3, <1>6, Zenon
<1>7. CASE h \notin Cached(d)
  <2>1. SUFFICES ASSUME d.table[k] # NoHandle PROVE FALSE BY <1>1, <1>7, Zenon
  <2> DEFINE g == d.table[k]
  <2>2. g \in Handles /\ g \in Cached(d) /\ d.key[g] = k /\ g # h BY <1>3, <1>7, <2>1, Zenon
  <2> HIDE DEF g
  <2>3. g \in Cached(c) /\ c.key[g] = k BY <1>1, <1>5, <2>2, Zenon DEF SameHandles
  <2>4. c.table[k] = g BY <1>4, <2>2, <2>3, Zenon
  <2> QED BY <1>1, <1>7, <2>2, <2>4, HandleSentinelAssumption, Zenon
<1> QED BY <1>6, <1>7, Zenon

(* What the invariant says of a key that has not raced.                     *)
LEMMA NotRaced ==
  ASSUME NEW st, NEW op, NEW lt, NEW rc, HInv(st, op, lt, rc), NEW k \in Keys
  PROVE  /\ k \notin rc => KeyHolds(st, lt[k], k) /\ k \notin GoneKeys(st)
         /\ st.shard.table[k] # NoHandle /\ st.mode[st.shard.table[k]] # INODE_READ =>
              /\ st.mode[st.shard.table[k]] = INODE_WRITE
              /\ \E f \in Files : op[f].handle = st.shard.table[k] /\ op[f].how = Writing
<1>1. Sound(st.shard, Held(op)) BY Zenon DEF HInv, Good
<1>2. st.shard.table[k] # NoHandle => st.shard.table[k] \in Cached(st.shard)
  BY <1>1, CachedIsInTable, Zenon
<1> QED BY <1>2, Zenon DEF HInv, ModesOK

(* TableFS::GetAttr                                                         *)
LEMMA GetAttrWorks ==
  ASSUME Grounds, NEW st, NEW op, NEW lt, NEW rc, HInv(st, op, lt, rc), NEW k \in Keys, Exists(st, k)
  PROVE  WorksOn({k}, st, op, lt, rc, GetAttr(st, k), op, lt)
<1> DEFINE p  == Held(op)
           h  == Handle(st, k)
           u  == Get(st, k, INODE_READ)
           q  == [p EXCEPT ![h] = @ + 1]
           su == Release(u, h)
           t  == st.shard.table[k]
<1>0. GetAttr(st, k) = su BY Zenon DEF GetAttr, Exists
<1>1. /\ Good(st, p) /\ Fits(st.shard) /\ UnheldIsClean(st, p) /\ OpenOK(op)
      /\ Cardinality(Pinned(p)) < Cardinality(Handles)
      /\ p \in [Handles -> Nat] /\ lt \in [Keys -> Values]
  BY Starts, Zenon
<1>2. AfterGet(st, u, p, q, k, h, INODE_READ)
  BY <1>1, GetStore, Zenon DEF Modes
<1> HIDE DEF p, h, u
<1>3. h \in Handles BY <1>2, Zenon DEF AfterGet
<1>4. q \in [Handles -> Nat] /\ q[h] > 0 /\ q[h] = p[h] + 1 /\ [q EXCEPT ![h] = @ - 1] = p
  BY <1>1, <1>3, PinUnpin, Zenon
<1> HIDE DEF q
<1>5. Good(u, q) BY <1>2, Zenon DEF AfterGet
<1>6. AfterRelease(u, su, q, p, h)
  BY <1>3, <1>4, <1>5, ReleaseStore, Zenon
<1> HIDE DEF su
<1>7. /\ Quiet(st, u, {k}) /\ Fits(u.shard) /\ u.db = st.db
      /\ u.shard.key[h] = k /\ u.value[h] = Found(st, k)
      /\ t # NoHandle => h = t /\ h \in Cached(u.shard) /\ u.mode[h] = st.mode[h]
      /\ t = NoHandle => p[h] = 0 /\ u.mode[h] = INODE_READ
  BY <1>2, Zenon DEF AfterGet
<1>8. /\ Good(su, p) /\ Quiet(u, su, {k}) /\ SameHandles(u, su, {}) /\ Fits(su.shard)
      /\ su.shard.table = u.shard.table
      /\ h \in Cached(u.shard) => su.db = u.db /\ h \in Live(su.shard)
      /\ q[h] = 1 /\ h \notin Cached(u.shard) => su.db = Flushed(u.db, k, u.mode[h], u.value[h])
  BY <1>6, <1>7, SMTT(30) DEF AfterRelease
<1>9. Quiet(st, su, {k}) BY <1>7, <1>8, QuietTrans, Zenon
<1>10. /\ u.shard.table[k] = IF h \in Cached(u.shard) THEN h ELSE NoHandle
       /\ h \notin Cached(u.shard) => t = NoHandle
  BY <1>1, <1>2, GotTable, SMTT(30)
<1>11. h \in Cached(u.shard) => su.value[h] = u.value[h] /\ su.mode[h] = u.mode[h]
  BY <1>8, Zenon DEF SameHandles
<1>12. su.db = st.db
  <2>1. CASE h \in Cached(u.shard) BY <1>7, <1>8, <2>1, Zenon
  <2>2. CASE h \notin Cached(u.shard)
    <3>1. u.mode[h] = INODE_READ /\ q[h] = 1 BY <1>4, <1>7, <1>10, <2>2, SMTT(30)
    <3>2. su.db = Flushed(u.db, k, INODE_READ, u.value[h]) BY <1>8, <2>2, <3>1, Zenon
    <3> QED BY <1>7, <3>2, SMTT(30) DEF Flushed, INODE_READ, INODE_WRITE, INODE_DELETE
  <2> QED BY <2>1, <2>2, Zenon
<1>13. Touched(su, op, rc, lt[k], k)
  <2>1. /\ k \notin rc => KeyHolds(st, lt[k], k)
        /\ t # NoHandle /\ st.mode[t] # INODE_READ =>
             st.mode[t] = INODE_WRITE /\ \E f \in Files : op[f].handle = t /\ op[f].how = Writing
    BY NotRaced
  <2>2. h # NoHandle BY <1>3, HandleSentinelAssumption, Zenon
  <2>3. CASE t # NoHandle
    <3>1. su.shard.table[k] = h /\ h = t /\ su.mode[h] = st.mode[h] /\ su.value[h] = st.value[t]
      BY <1>7, <1>8, <1>10, <1>11, <2>3, Zenon DEF Found
    <3> QED BY <1>12, <2>1, <2>3, <3>1, Zenon DEF Touched, KeyHolds
  <2>4. CASE t = NoHandle
    <3>1. h \in Cached(u.shard) => su.shard.table[k] = h /\ su.value[h] = st.db[k] /\ su.mode[h] = INODE_READ
      BY <1>7, <1>8, <1>10, <1>11, <2>4, Zenon DEF Found
    <3>2. h \notin Cached(u.shard) => su.shard.table[k] = NoHandle BY <1>8, <1>10, Zenon
    <3> QED BY <1>12, <2>1, <2>2, <2>4, <3>1, <3>2, Zenon DEF Touched, KeyHolds
  <2> QED BY <2>3, <2>4, Zenon
<1> QED BY <1>0, <1>1, <1>8, <1>9, <1>13, Zenon DEF WorksOn, p

(* TableFS::Chmod, Chown, UpdateTimens and Truncate                         *)
LEMMA SetAttrWorks ==
  ASSUME Grounds, NEW st, NEW op, NEW lt, NEW rc, HInv(st, op, lt, rc), NEW k \in Keys, Exists(st, k),
         NEW v \in Versions
  PROVE  WorksOn({k}, st, op, lt, rc, SetAttr(st, k, v), op, [lt EXCEPT ![k] = v])
<1> DEFINE p  == Held(op)
           h  == Handle(st, k)
           u  == Get(st, k, INODE_WRITE)
           q  == [p EXCEPT ![h] = @ + 1]
           x  == [u EXCEPT !.value[h] = v]
           y  == WriteBack(x, h)
           su == Release(y, h)
<1>0. SetAttr(st, k, v) = su BY Zenon DEF SetAttr, Exists
<1>1. /\ Good(st, p) /\ Fits(st.shard) /\ UnheldIsClean(st, p) /\ OpenOK(op)
      /\ Cardinality(Pinned(p)) < Cardinality(Handles)
      /\ p \in [Handles -> Nat] /\ lt \in [Keys -> Values]
  BY Starts, Zenon
<1>2. AfterGet(st, u, p, q, k, h, INODE_WRITE)
  BY <1>1, GetStore, Zenon DEF Modes
<1> HIDE DEF p, h, u
<1>3. /\ h \in Handles /\ Good(u, q) /\ Quiet(st, u, {k}) /\ Fits(u.shard)
      /\ h \in Live(u.shard) /\ u.shard.key[h] = k /\ u.mode[h] = INODE_WRITE
      /\ st.shard.table[k] = NoHandle => p[h] = 0
  BY <1>2, SMTT(30) DEF AfterGet, INODE_READ, INODE_WRITE
<1>4. q \in [Handles -> Nat] /\ q[h] > 0 /\ q[h] = p[h] + 1 /\ [q EXCEPT ![h] = @ - 1] = p
  BY <1>1, <1>3, PinUnpin, Zenon
<1> HIDE DEF q
<1>5. u \in StoreType BY <1>3, Zenon DEF Good
<1>6. /\ u.shard \in ShardType /\ u.value \in [Handles -> Values]
      /\ u.mode \in [Handles -> Modes] /\ u.db \in [Keys -> Values]
      /\ u = [shard |-> u.shard, value |-> u.value, mode |-> u.mode, db |-> u.db]
  BY <1>5, StoreFields, Zenon
<1>7. x = [shard |-> u.shard, value |-> [u.value EXCEPT ![h] = v], mode |-> u.mode, db |-> u.db]
  BY <1>6
<1> HIDE DEF x
<1>8. y = [shard |-> u.shard, value |-> [u.value EXCEPT ![h] = v],
           mode |-> [u.mode EXCEPT ![h] = INODE_READ], db |-> [u.db EXCEPT ![k] = v]]
  <2>1. x.mode[h] = INODE_WRITE /\ x.value[h] = v /\ x.shard.key[h] = k /\ x.db = u.db
    BY <1>3, <1>6, <1>7, Zenon
  <2>2. Flushed(x.db, k, INODE_WRITE, v) = [u.db EXCEPT ![k] = v]
    BY <2>1 DEF Flushed, INODE_WRITE, INODE_DELETE
  <2> DEFINE z == [x EXCEPT !.db = [u.db EXCEPT ![k] = v]]
  <2>3. y = Settled(z, h) BY <2>1, <2>2, Zenon DEF WriteBack
  <2>4. z = [shard |-> u.shard, value |-> [u.value EXCEPT ![h] = v],
             mode |-> u.mode, db |-> [u.db EXCEPT ![k] = v]]
    BY <1>7, SMTT(30)
  <2> HIDE DEF z, y
  <2>5. z.mode[h] = INODE_WRITE BY <1>3, <2>4, Zenon
  <2>6. y = [z EXCEPT !.mode[h] = INODE_READ]
    BY <2>3, <2>5 DEF Settled, INODE_WRITE, INODE_DELETE
  <2> QED BY <2>4, <2>6, Zenon
<1> HIDE DEF y
<1>9. v \in Values /\ INODE_READ \in Modes BY Zenon DEF Values, Modes
<1>10. y \in StoreType
  <2>1. /\ [u.value EXCEPT ![h] = v] \in [Handles -> Values]
        /\ [u.mode EXCEPT ![h] = INODE_READ] \in [Handles -> Modes]
        /\ [u.db EXCEPT ![k] = v] \in [Keys -> Values]
    BY <1>6, <1>9, Zenon
  <2> QED BY <1>6, <1>8, <2>1, Zenon DEF StoreType
<1>11. /\ y.shard = u.shard /\ y.value[h] = v /\ y.mode[h] = INODE_READ /\ y.db[k] = v
       /\ \A g \in Handles \ {h} : y.value[g] = u.value[g] /\ y.mode[g] = u.mode[g]
       /\ \A j \in Keys \ {k} : y.db[j] = u.db[j]
  BY <1>3, <1>6, <1>8, Zenon
<1>12. Good(y, q) /\ Quiet(u, y, {k})
  <2>1. Touches(u, y, h, k) BY <1>3, <1>10, <1>11, Zenon DEF Touches
  <2> QED BY <1>3, <2>1, TouchStore, Zenon
<1>13. AfterRelease(y, su, q, p, h)
  BY <1>3, <1>4, <1>12, ReleaseStore, Zenon
<1> HIDE DEF su
<1>14. /\ Good(su, p) /\ Quiet(y, su, {k}) /\ SameHandles(y, su, {}) /\ Fits(su.shard)
       /\ su.shard.table = u.shard.table
       /\ h \in Cached(u.shard) => su.db = y.db /\ h \in Live(su.shard)
       /\ q[h] = 1 /\ h \notin Cached(u.shard) => su.db = Flushed(y.db, k, INODE_READ, v)
  <2>1. y.shard.key[h] = k BY <1>3, <1>11, Zenon
  <2>2. /\ Good(su, p) /\ Quiet(y, su, {k}) /\ SameHandles(y, su, {})
        /\ su.shard.table = y.shard.table /\ (Fits(y.shard) => Fits(su.shard))
        /\ h \in Cached(y.shard) => su.db = y.db /\ h \in Live(su.shard)
        /\ q[h] = 1 /\ h \notin Cached(y.shard) => su.db = Flushed(y.db, k, y.mode[h], y.value[h])
    BY <1>13, <2>1, SMTT(30) DEF AfterRelease
  <2> QED BY <1>3, <1>11, <2>2, Zenon
<1>15. Quiet(st, su, {k}) BY <1>3, <1>12, <1>14, QuietTrans, Zenon
<1>16. /\ u.shard.table[k] = IF h \in Cached(u.shard) THEN h ELSE NoHandle
       /\ h \notin Cached(u.shard) => st.shard.table[k] = NoHandle
  BY <1>1, <1>2, GotTable
<1>17. su.db[k] = v
  <2>1. CASE h \in Cached(u.shard) BY <1>11, <1>14, <2>1, Zenon
  <2>2. CASE h \notin Cached(u.shard)
    <3>1. su.db = Flushed(y.db, k, INODE_READ, v) BY <1>3, <1>4, <1>14, <1>16, <2>2, SMTT(30)
    <3> QED BY <1>11, <3>1, SMTT(30) DEF Flushed, INODE_READ, INODE_WRITE, INODE_DELETE
  <2> QED BY <2>1, <2>2, Zenon
<1>18. Touched(su, op, rc, v, k)
  <2>1. h \in Cached(u.shard) => su.shard.table[k] = h /\ su.value[h] = v /\ su.mode[h] = INODE_READ
    BY <1>11, <1>14, <1>16, Zenon DEF SameHandles
  <2>2. h \notin Cached(u.shard) => su.shard.table[k] = NoHandle BY <1>14, <1>16, Zenon
  <2> QED BY <1>17, <2>1, <2>2, Zenon DEF Touched, KeyHolds
<1>19. /\ [lt EXCEPT ![k] = v] \in [Keys -> Values] /\ [lt EXCEPT ![k] = v][k] = v
       /\ \A j \in Keys \ {k} : [lt EXCEPT ![k] = v][j] = lt[j]
  BY <1>1, <1>9, Zenon
<1> QED BY <1>0, <1>1, <1>14, <1>15, <1>18, <1>19, Zenon DEF WorksOn, p

(* TableFS::MakeNode, MakeDir and Symlink                                   *)
LEMMA MakeWorks ==
  ASSUME Grounds, NEW st, NEW op, NEW lt, NEW rc, HInv(st, op, lt, rc), NEW k \in Keys, ~Exists(st, k),
         NEW v \in Versions
  PROVE  WorksOn({k}, st, op, lt, rc, Make(st, k, v), op, [lt EXCEPT ![k] = v])
<1> DEFINE p == Held(op)
           su == Make(st, k, v)
<1>1. Good(st, p) /\ Fits(st.shard) /\ OpenOK(op) /\ lt \in [Keys -> Values]
  BY Starts, Zenon
<1>2. st \in StoreType /\ Sound(st.shard, p) /\ \A h \in Live(st.shard) : st.shard.key[h] \in Keys
  BY <1>1, Zenon DEF Good
<1>3. /\ st.shard \in ShardType /\ st.value \in [Handles -> Values]
      /\ st.mode \in [Handles -> Modes] /\ st.db \in [Keys -> Values]
      /\ st = [shard |-> st.shard, value |-> st.value, mode |-> st.mode, db |-> st.db]
  BY <1>2, StoreFields, Zenon
<1>4. v \in Values BY Zenon DEF Values
<1>5. su = [shard |-> st.shard, value |-> st.value, mode |-> st.mode, db |-> [st.db EXCEPT ![k] = v]]
  BY <1>3 DEF Make
<1> HIDE DEF su, p
<1>6. /\ su.shard = st.shard /\ su.value = st.value /\ su.mode = st.mode /\ su.db[k] = v
      /\ \A j \in Keys \ {k} : su.db[j] = st.db[j]
  BY <1>3, <1>5, Zenon
<1>7. su \in StoreType
  <2>1. [st.db EXCEPT ![k] = v] \in [Keys -> Values] BY <1>3, <1>4, Zenon
  <2> QED BY <1>3, <1>5, <2>1, Zenon DEF StoreType
<1>8. Good(su, p) /\ Fits(su.shard) BY <1>1, <1>2, <1>6, <1>7, Zenon DEF Good
<1>9. Quiet(st, su, {k}) BY <1>6, Zenon DEF Quiet, GoneKeys
<1>10. st.shard.table[k] = NoHandle BY Zenon DEF Exists, Handle
<1>11. Touched(su, op, rc, v, k) BY <1>6, <1>10, Zenon DEF Touched, KeyHolds
<1>12. /\ [lt EXCEPT ![k] = v] \in [Keys -> Values] /\ [lt EXCEPT ![k] = v][k] = v
       /\ \A j \in Keys \ {k} : [lt EXCEPT ![k] = v][j] = lt[j]
  BY <1>1, <1>4, Zenon
<1> QED BY <1>1, <1>8, <1>9, <1>11, <1>12, Zenon DEF WorksOn, p, su

(* TableFS::Unlink and RemoveDir: a handle that an open file holds leaves   *)
(* the cache and its key has raced; any other is freed with the record.     *)
LEMMA UnlinkWorks ==
  ASSUME Grounds, NEW st, NEW op, NEW lt, NEW rc, HInv(st, op, lt, rc), NEW k \in Keys, Exists(st, k)
  PROVE  WorksOn({k}, st, op, lt, rc, Unlink(st, k), op, [lt EXCEPT ![k] = NoValue])
<1> DEFINE p  == Held(op)
           h  == Handle(st, k)
           u  == Get(st, k, INODE_DELETE)
           q  == [p EXCEPT ![h] = @ + 1]
           x  == Release(u, h)
           su == Evict(x, k)
<1>0. Unlink(st, k) = su BY Zenon DEF Unlink, Exists
<1>1. /\ Good(st, p) /\ Fits(st.shard) /\ UnheldIsClean(st, p) /\ OpenOK(op)
      /\ Cardinality(Pinned(p)) < Cardinality(Handles)
      /\ p \in [Handles -> Nat] /\ lt \in [Keys -> Values]
  BY Starts, Zenon
<1>2. AfterGet(st, u, p, q, k, h, INODE_DELETE)
  BY <1>1, GetStore, Zenon DEF Modes
<1> HIDE DEF p, h, u
<1>3. /\ h \in Handles /\ Good(u, q) /\ Quiet(st, u, {k}) /\ Fits(u.shard)
      /\ u.shard.key[h] = k /\ u.mode[h] = INODE_DELETE
      /\ st.shard.table[k] = NoHandle => p[h] = 0
  BY <1>2 DEF AfterGet, INODE_READ, INODE_DELETE
<1>4. q \in [Handles -> Nat] /\ q[h] > 0 /\ q[h] = p[h] + 1 /\ [q EXCEPT ![h] = @ - 1] = p
  BY <1>1, <1>3, PinUnpin, Zenon
<1> HIDE DEF q
<1>5. AfterRelease(u, x, q, p, h)
  BY <1>3, <1>4, ReleaseStore, Zenon
<1> HIDE DEF x
<1>6. /\ Good(x, p) /\ Quiet(u, x, {k}) /\ SameHandles(u, x, {}) /\ Fits(x.shard)
      /\ x.shard.table = u.shard.table
      /\ h \in Cached(u.shard) => h \in Live(x.shard)
      /\ q[h] = 1 /\ h \notin Cached(u.shard) => x.db = Flushed(u.db, k, u.mode[h], u.value[h])
  BY <1>3, <1>5, SMTT(30) DEF AfterRelease
<1>7. AfterEvict(x, su, p, k)
  BY <1>6, EvictStore, Zenon
<1> HIDE DEF su
<1>8. /\ Good(su, p) /\ Quiet(x, su, {k}) /\ SameHandles(x, su, {}) /\ Fits(su.shard)
      /\ su.shard.table[k] = NoHandle
  <2>1. x.shard.table \in [Keys -> Handles \cup {NoHandle}]
    BY <1>6, StoreFields, Fields, Zenon DEF Good
  <2> QED BY <1>6, <1>7, <2>1, Zenon DEF AfterEvict
<1>9. /\ x.shard.table[k] = NoHandle => su.db = x.db
      /\ x.shard.table[k] = h /\ h # NoHandle => h \notin Cached(su.shard)
      /\ x.shard.table[k] = h /\ h # NoHandle /\ ~(p[h] > 0) =>
           su.db = Flushed(x.db, k, x.mode[h], x.value[h])
  BY <1>7, Zenon DEF AfterEvict
<1>10. Quiet(st, su, {k})
  BY <1>3, <1>6, <1>8, QuietTrans, Zenon
<1>11. /\ u.shard.table[k] = IF h \in Cached(u.shard) THEN h ELSE NoHandle
       /\ h \notin Cached(u.shard) => st.shard.table[k] = NoHandle
  BY <1>1, <1>2, GotTable, SMTT(30)
<1>12. \A st1 \in StoreType, g \in Handles : Flushed(st1.db, k, INODE_DELETE, st1.value[g])[k] = NoValue
  BY FlushedType, StoreFields, SMTT(30) DEF Modes
<1>13. u \in StoreType /\ x \in StoreType /\ h # NoHandle
  BY <1>3, <1>6, HandleSentinelAssumption, Zenon DEF Good
<1>14. k \in GoneKeys(su) \/ su.db[k] = NoValue
  <2>1. CASE h \in Cached(u.shard)
    <3>1. x.shard.table[k] = h /\ x.mode[h] = INODE_DELETE
      BY <1>3, <1>6, <1>11, <2>1, Zenon DEF SameHandles
    <3>2. CASE p[h] > 0
      <4>1. h \in Live(su.shard) BY <1>3, <1>8, <3>2, LiveIsHeldOrCached, Zenon DEF Good
      <4>2. su.shard.key[h] = k BY <1>3, <1>6, <1>8, <2>1, <4>1, Zenon DEF SameHandles
      <4> QED BY <1>9, <1>13, <3>1, <4>1, <4>2, Zenon DEF GoneKeys
    <3>3. CASE ~(p[h] > 0)
      <4>1. su.db = Flushed(x.db, k, INODE_DELETE, x.value[h]) BY <1>9, <1>13, <3>1, <3>3, Zenon
      <4> QED BY <1>3, <1>12, <1>13, <4>1, Zenon
    <3> QED BY <3>2, <3>3, Zenon
  <2>2. CASE h \notin Cached(u.shard)
    <3>1. x.db = Flushed(u.db, k, INODE_DELETE, u.value[h]) BY <1>3, <1>4, <1>6, <1>11, <2>2, SMTT(30)
    <3>2. su.db = x.db BY <1>6, <1>9, <1>11, <2>2, Zenon
    <3> QED BY <1>3, <1>12, <1>13, <3>1, <3>2, Zenon
  <2> QED BY <2>1, <2>2, Zenon
<1>15. Touched(su, op, rc, NoValue, k)
  BY <1>8, <1>14, Zenon DEF Touched, KeyHolds
<1>16. /\ [lt EXCEPT ![k] = NoValue] \in [Keys -> Values] /\ [lt EXCEPT ![k] = NoValue][k] = NoValue
       /\ \A j \in Keys \ {k} : [lt EXCEPT ![k] = NoValue][j] = lt[j]
  BY <1>1, Zenon DEF Values
<1> QED BY <1>0, <1>1, <1>8, <1>10, <1>15, <1>16, Zenon DEF WorksOn, p

(* TableFS::Open and OpenDir                                                *)
LEMMA OpenWorks ==
  ASSUME Grounds, NEW st, NEW op, NEW lt, NEW rc, HInv(st, op, lt, rc), NEW k \in Keys, Exists(st, k),
         NEW f \in Files, op[f].how = NotOpen, NEW how \in {Reading, Writing, Listing},
         NEW mode, mode = IF how = Writing THEN INODE_WRITE ELSE INODE_READ
  PROVE  WorksOn({k}, st, op, lt, rc, Open(st, k, mode),
                 [op EXCEPT ![f] = [handle |-> Handle(st, k), how |-> how]], lt)
<1> DEFINE p  == Held(op)
           h  == Handle(st, k)
           su == Open(st, k, mode)
           q  == [p EXCEPT ![h] = @ + 1]
           files == [op EXCEPT ![f] = [handle |-> h, how |-> how]]
           t  == st.shard.table[k]
<1>1. /\ Good(st, p) /\ Fits(st.shard) /\ UnheldIsClean(st, p) /\ OpenOK(op)
      /\ Cardinality(Pinned(p)) < Cardinality(Handles)
      /\ p \in [Handles -> Nat] /\ lt \in [Keys -> Values]
  BY Starts, Zenon
<1>2. AfterGet(st, su, p, q, k, h, mode)
  <2>1. mode \in Modes BY Zenon DEF Modes
  <2> QED BY <1>1, <2>1, GetStore, Zenon DEF Open
<1> HIDE DEF h, su
<1>3. /\ h \in Handles /\ h # NoHandle /\ Good(su, q) /\ Quiet(st, su, {k}) /\ Fits(su.shard)
      /\ h \in Live(su.shard) /\ su.shard.key[h] = k /\ su.value[h] = Found(st, k)
      /\ su.db = st.db
      /\ mode # INODE_READ => su.mode[h] = mode
      /\ t # NoHandle => h = t /\ (mode = INODE_READ => su.mode[h] = st.mode[h])
      /\ t = NoHandle => (mode = INODE_READ => su.mode[h] = INODE_READ)
  BY <1>2, HandleSentinelAssumption, Zenon DEF AfterGet
<1>4. /\ op \in OpenType /\ op[f].handle = NoHandle
      /\ \A g \in Files : op[g].how = NotOpen <=> op[g].handle = NoHandle
  BY <1>1, Zenon DEF OpenOK
<1>5. /\ files[f].handle = h /\ files[f].how = how
      /\ \A g \in Files : g # f => files[g] = op[g]
  BY <1>4, Zenon DEF OpenType
<1>6. Held(files) = q
  <2> HIDE DEF files
  <2>1. SameFiles(op, files, f) BY <1>5, Zenon DEF SameFiles
  <2> QED BY <1>3, <1>4, <1>5, <2>1, HeldOpen, SMTT(30)
<1>7. OpenOK(files)
  <2>1. files \in OpenType BY <1>3, <1>4, Zenon DEF OpenType
  <2>2. how # NotOpen BY Zenon DEF NotOpen, Reading, Writing, Listing
  <2> HIDE DEF files
  <2> QED BY <1>3, <1>4, <1>5, <2>1, <2>2, Zenon DEF OpenOK
<1> HIDE DEF p, q, files
<1>8. \A g \in Files : op[g].how = Writing /\ files[g] # op[g] => st.shard.key[op[g].handle] \in {k}
  <2>1. NotOpen # Writing BY Zenon DEF NotOpen, Writing
  <2> QED BY <1>5, <2>1, Zenon
<1>9. su.shard.table[k] = IF h \in Cached(su.shard) THEN h ELSE NoHandle
  BY <1>1, <1>2, GotTable, SMTT(30)
<1>10. h \notin Cached(su.shard) => k \in GoneKeys(su)
  BY <1>3, Zenon DEF GoneKeys
<1>11. Touched(su, files, rc, lt[k], k)
  <2>1. /\ k \notin rc => KeyHolds(st, lt[k], k)
        /\ t # NoHandle /\ st.mode[t] # INODE_READ =>
             st.mode[t] = INODE_WRITE /\ \E g \in Files : op[g].handle = t /\ op[g].how = Writing
    BY NotRaced, SMTT(30)
  <2>2. CASE h \notin Cached(su.shard) BY <1>9, <1>10, <2>2, Zenon DEF Touched
  <2>3. CASE h \in Cached(su.shard)
    <3>1. su.shard.table[k] = h BY <1>9, <2>3, Zenon
    <3>2. su.mode[h] # INODE_READ =>
            su.mode[h] = INODE_WRITE /\ \E g \in Files : files[g].handle = h /\ files[g].how = Writing
      <4>1. CASE how = Writing BY <1>3, <1>5, <4>1, SMTT(30) DEF INODE_READ, INODE_WRITE
      <4>2. CASE how # Writing
        <5> SUFFICES ASSUME su.mode[h] # INODE_READ
                     PROVE  su.mode[h] = INODE_WRITE
                            /\ \E g \in Files : files[g].handle = h /\ files[g].how = Writing
          BY Zenon
        <5>1. t # NoHandle /\ h = t /\ su.mode[h] = st.mode[t] BY <1>3, <4>2, Zenon
        <5>2. PICK g \in Files : op[g].handle = t /\ op[g].how = Writing BY <2>1, <5>1, Zenon
        <5>3. g # f BY <1>4, <5>1, <5>2, Zenon
        <5> QED BY <1>5, <2>1, <5>1, <5>2, <5>3, Zenon
      <4> QED BY <4>1, <4>2, Zenon
    <3>3. k \notin rc => su.value[h] = lt[k] /\ (su.mode[h] = INODE_READ => su.db[k] = lt[k])
      <4> SUFFICES ASSUME k \notin rc
                   PROVE  su.value[h] = lt[k] /\ (su.mode[h] = INODE_READ => su.db[k] = lt[k])
        BY Zenon
      <4>1. KeyHolds(st, lt[k], k) BY <2>1, Zenon
      <4>2. CASE t = NoHandle BY <1>3, <4>1, <4>2, Zenon DEF KeyHolds, Found
      <4>3. CASE t # NoHandle
        <5>1. su.value[h] = lt[k] /\ (st.mode[t] = INODE_READ => su.db[k] = lt[k])
          BY <1>3, <4>1, <4>3, Zenon DEF KeyHolds, Found
        <5>2. su.mode[h] = INODE_READ => st.mode[t] = INODE_READ
          BY <1>3, <4>3, Zenon DEF INODE_READ, INODE_WRITE
        <5> QED BY <5>1, <5>2, Zenon
      <4> QED BY <4>2, <4>3, Zenon
    <3> QED BY <1>3, <3>1, <3>2, <3>3, Zenon DEF Touched, KeyHolds
  <2> QED BY <2>2, <2>3, Zenon
<1> QED BY <1>1, <1>3, <1>6, <1>7, <1>8, <1>11, Zenon DEF WorksOn, files, su, h

(* TableFS::Write                                                           *)
LEMMA WriteWorks ==
  ASSUME Grounds, NEW st, NEW op, NEW lt, NEW rc, HInv(st, op, lt, rc),
         NEW f \in Files, op[f].how = Writing, NEW h, h = op[f].handle,
         NEW k, k = st.shard.key[h], NEW v \in Versions
  PROVE  WorksOn({k}, st, op, lt, rc, Write(st, h, v), op, [lt EXCEPT ![k] = v])
<1> DEFINE p  == Held(op)
           su == Write(st, h, v)
           t  == st.shard.table[k]
<1>1. Good(st, p) /\ Fits(st.shard) /\ OpenOK(op) /\ lt \in [Keys -> Values]
  BY Starts, Zenon
<1>2. Writing # NotOpen BY Zenon DEF Writing, NotOpen
<1>3. h \in Handles /\ h \in Live(st.shard) /\ k \in Keys /\ st.shard.key[h] = k
  BY <1>1, <1>2, FileHandles, Zenon
<1>4. st \in StoreType /\ Sound(st.shard, p) BY <1>1, Zenon DEF Good
<1>5. /\ st.shard \in ShardType /\ st.value \in [Handles -> Values]
      /\ st.mode \in [Handles -> Modes] /\ st.db \in [Keys -> Values]
      /\ st = [shard |-> st.shard, value |-> st.value, mode |-> st.mode, db |-> st.db]
  BY <1>4, StoreFields, Zenon
<1>6. v \in Values /\ INODE_WRITE \in Modes BY Zenon DEF Values, Modes
<1>7. su = [shard |-> st.shard, value |-> [st.value EXCEPT ![h] = v],
            mode |-> [st.mode EXCEPT ![h] = INODE_WRITE], db |-> st.db]
  <2>1. su = [[st EXCEPT !.mode = [st.mode EXCEPT ![h] = INODE_WRITE]]
                 EXCEPT !.value = [st.value EXCEPT ![h] = v]]
    BY <1>4, Zenon DEF Write, StoreType
  <2> QED BY <1>4, <2>1, Zenon DEF StoreType
<1> HIDE DEF su, p, t
<1>8. su \in StoreType
  <2>1. /\ [st.value EXCEPT ![h] = v] \in [Handles -> Values]
        /\ [st.mode EXCEPT ![h] = INODE_WRITE] \in [Handles -> Modes]
    BY <1>5, <1>6, Zenon
  <2> QED BY <1>5, <1>7, <2>1, Zenon DEF StoreType
<1>9. /\ su.shard = st.shard /\ su.value[h] = v /\ su.mode[h] = INODE_WRITE
      /\ \A g \in Handles \ {h} : su.value[g] = st.value[g] /\ su.mode[g] = st.mode[g]
      /\ su.db = st.db
  BY <1>3, <1>5, <1>7, Zenon
<1>10. Good(su, p) /\ Quiet(st, su, {k}) /\ Fits(su.shard)
  <2>1. Touches(st, su, h, k) BY <1>3, <1>8, <1>9, Zenon DEF Touches
  <2> QED BY <1>1, <1>3, <1>9, <2>1, TouchStore, Zenon
<1>11. /\ h \in Cached(st.shard) <=> t = h
       /\ t # NoHandle => t \in Handles
  BY <1>3, <1>4, CachedIsInTable, SMTT(30) DEF t
<1>12. Touched(su, op, rc, v, k)
  <2>1. su.shard.table[k] = t BY <1>9, Zenon DEF t
  <2>2. CASE t = h
    <3>1. su.shard.table[k] = h /\ h # NoHandle BY <1>3, <2>1, <2>2, HandleSentinelAssumption, Zenon
    <3>2. INODE_WRITE # INODE_READ BY SMTT(30) DEF INODE_READ, INODE_WRITE
    <3> QED BY <1>9, <3>1, <3>2, Zenon DEF Touched, KeyHolds
  <2>3. CASE t # h
    <3>1. k \in GoneKeys(su) BY <1>3, <1>9, <1>11, <2>3, Zenon DEF GoneKeys
    <3>2. t # NoHandle /\ st.mode[t] # INODE_READ =>
            st.mode[t] = INODE_WRITE /\ \E g \in Files : op[g].handle = t /\ op[g].how = Writing
      BY <1>3, NotRaced, Zenon DEF t
    <3>3. t # NoHandle => su.mode[t] = st.mode[t] BY <1>9, <1>11, <2>3, Zenon
    <3> QED BY <2>1, <3>1, <3>2, <3>3, Zenon DEF Touched
  <2> QED BY <2>2, <2>3, Zenon
<1>13. /\ [lt EXCEPT ![k] = v] \in [Keys -> Values] /\ [lt EXCEPT ![k] = v][k] = v
       /\ \A j \in Keys \ {k} : [lt EXCEPT ![k] = v][j] = lt[j]
  BY <1>1, <1>3, <1>6, Zenon
<1> QED BY <1>1, <1>3, <1>10, <1>12, <1>13, Zenon DEF WorksOn, p, su

(* The files once f is closed.                                              *)
WithClosed(op, f) == [op EXCEPT ![f] = Closed]

LEMMA ClosedFiles ==
  ASSUME Grounds, NEW op, OpenOK(op), NEW f \in Files, op[f].how # NotOpen, NEW h, h = op[f].handle,
         NEW files, files = WithClosed(op, f)
  PROVE  /\ OpenOK(files) /\ h \in Handles /\ Held(op)[h] > 0
         /\ Held(files) = [Held(op) EXCEPT ![h] = @ - 1]
         /\ SameFiles(op, files, f)
<1>1. /\ op \in OpenType /\ h \in Handles
      /\ \A g \in Files : op[g].how = NotOpen <=> op[g].handle = NoHandle
  BY Zenon DEF OpenOK, OpenType
<1>2. /\ files[f] = Closed /\ Closed.handle = NoHandle /\ Closed.how = NotOpen
      /\ \A g \in Files : g # f => files[g] = op[g]
  BY <1>1, Zenon DEF OpenType, Closed, WithClosed
<1>3. files \in OpenType BY <1>1, Zenon DEF OpenType, Closed, WithClosed
<1>4. OpenOK(files) BY <1>1, <1>2, <1>3, Zenon DEF OpenOK
<1>5. SameFiles(op, files, f) BY <1>2, Zenon DEF SameFiles
<1>6. Held(op)[h] > 0 /\ Held(files) = [Held(op) EXCEPT ![h] = @ - 1]
  <2>1. files[f].handle = NoHandle /\ op[f].handle = h BY <1>2, Zenon
  <2> QED BY <1>1, <1>5, <2>1, HeldClose
<1> QED BY <1>1, <1>4, <1>5, <1>6, Zenon

(* TableFS::ReleaseDir                                                      *)
LEMMA CloseDirWorks ==
  ASSUME Grounds, NEW st, NEW op, NEW lt, NEW rc, HInv(st, op, lt, rc),
         NEW f \in Files, op[f].how = Listing, NEW h, h = op[f].handle, NEW k, k = st.shard.key[h]
  PROVE  WorksOn({k}, st, op, lt, rc, CloseDir(st, h), [op EXCEPT ![f] = Closed], lt)
<1> DEFINE p  == Held(op)
           su == CloseDir(st, h)
           files == WithClosed(op, f)
           q  == [p EXCEPT ![h] = @ - 1]
           t  == st.shard.table[k]
<1>1. Good(st, p) /\ Fits(st.shard) /\ OpenOK(op) /\ lt \in [Keys -> Values]
  BY Starts, Zenon
<1>2. Listing # NotOpen /\ Listing # Writing BY Zenon DEF Writing, NotOpen, Listing
<1>3. /\ h \in Handles /\ p[h] > 0 /\ h \in Live(st.shard) /\ k \in Keys
      /\ Sound(st.shard, p)
  BY <1>1, <1>2, FileHandles, Zenon DEF Good
<1>4. /\ OpenOK(files) /\ Held(files) = q
      /\ \A g \in Files : g # f => files[g] = op[g]
  <2>1. op[f].how # NotOpen BY <1>2, Zenon
  <2>2. OpenOK(files) /\ Held(files) = q /\ SameFiles(op, files, f) BY <1>1, <2>1, ClosedFiles, SMTT(30)
  <2> QED BY <2>2, Zenon DEF SameFiles
<1>5. AfterRelease(st, su, p, q, h)
  BY <1>1, <1>3, ReleaseStore, Zenon DEF CloseDir
<1> HIDE DEF p, q, su, files, t
<1>6. /\ Good(su, q) /\ Quiet(st, su, {k}) /\ SameHandles(st, su, {}) /\ Fits(su.shard)
      /\ su.shard.table = st.shard.table /\ Cached(su.shard) = Cached(st.shard)
      /\ h \in Cached(st.shard) => su.db = st.db
  BY <1>1, <1>5, Zenon DEF AfterRelease
<1>7. Sound(su.shard, q) BY <1>6, Zenon DEF Good
<1>8. t # NoHandle => /\ t \in Handles /\ t \in Cached(st.shard) /\ t \in Live(su.shard)
                      /\ su.value[t] = st.value[t] /\ su.mode[t] = st.mode[t]
  <2>1. t # NoHandle => t \in Handles /\ t \in Cached(st.shard)
    BY <1>3, CachedIsInTable, Zenon DEF t
  <2>2. t # NoHandle => t \in Live(su.shard) BY <1>6, <1>7, <2>1, LiveIsHeldOrCached, Zenon
  <2> QED BY <1>6, <2>1, <2>2, Zenon DEF SameHandles
<1>9. su.shard.table[k] = t BY <1>6, Zenon DEF t
<1>10. /\ k \notin rc => KeyHolds(st, lt[k], k) /\ k \notin GoneKeys(st)
       /\ t # NoHandle /\ st.mode[t] # INODE_READ =>
            st.mode[t] = INODE_WRITE /\ \E g \in Files : op[g].handle = t /\ op[g].how = Writing
  <2>1. k \in Keys BY <1>3, Zenon
  <2>2. k \notin rc => KeyHolds(st, lt[k], k) /\ k \notin GoneKeys(st)
    BY <2>1, NotRaced, Zenon
  <2>3. t # NoHandle /\ st.mode[t] # INODE_READ =>
          st.mode[t] = INODE_WRITE /\ \E g \in Files : op[g].handle = t /\ op[g].how = Writing
    BY <1>8, Zenon DEF HInv, ModesOK
  <2> QED BY <2>2, <2>3, Zenon
<1>11. k \notin GoneKeys(st) => su.db = st.db
  BY <1>3, <1>6, Zenon DEF GoneKeys
<1>12. Touched(su, files, rc, lt[k], k)
  <2>1. \A g \in Files : op[g].how = Writing => files[g] = op[g] BY <1>2, <1>4, Zenon
  <2>2. t # NoHandle /\ su.mode[t] # INODE_READ =>
          su.mode[t] = INODE_WRITE /\ \E g \in Files : files[g].handle = t /\ files[g].how = Writing
    BY <1>8, <1>10, <2>1, Zenon
  <2>3. k \notin rc => KeyHolds(su, lt[k], k)
    BY <1>8, <1>9, <1>10, <1>11, Zenon DEF KeyHolds, t
  <2> QED BY <1>9, <2>2, <2>3, Zenon DEF Touched
<1>13. \A g \in Files : op[g].how = Writing /\ files[g] # op[g] => st.shard.key[op[g].handle] \in {k}
  BY <1>4, Zenon
<1> QED BY <1>1, <1>3, <1>4, <1>6, <1>12, <1>13, Zenon DEF WorksOn, su, files, WithClosed

(* What InodeCache::WriteBack leaves of st, for a handle that is held.      *)
AfterWriteBack(st, u, p, k, h) ==
  /\ Good(u, p) /\ Quiet(st, u, {k}) /\ Fits(u.shard)
  /\ h \in Live(u.shard) /\ u.shard.key[h] = k
  /\ st.mode[h] # INODE_DELETE =>
       /\ u.shard = st.shard /\ u.mode[h] = INODE_READ
       /\ u.db[k] = IF st.mode[h] = INODE_WRITE THEN st.value[h] ELSE st.db[k]

LEMMA WriteBackStore ==
  ASSUME Grounds, NEW st, NEW p, Good(st, p), Fits(st.shard), NEW h \in Handles, p[h] > 0,
         NEW k, k = st.shard.key[h]
  PROVE  AfterWriteBack(st, WriteBack(st, h), p, k, h)
<1> DEFINE c  == st.shard
           db == Flushed(st.db, k, st.mode[h], st.value[h])
           z  == [st EXCEPT !.db = db]
           u  == WriteBack(st, h)
<1>1. st \in StoreType /\ Sound(c, p) /\ h \in Live(c) /\ k \in Keys
  BY LiveIsHeldOrCached, Zenon DEF Good
<1>2. /\ c \in ShardType /\ st.value \in [Handles -> Values] /\ st.mode \in [Handles -> Modes]
      /\ st.db \in [Keys -> Values] /\ st.mode[h] \in Modes /\ st.value[h] \in Values
  BY <1>1, StoreFields, Zenon
<1>3. /\ db \in [Keys -> Values] /\ \A j \in Keys \ {k} : db[j] = st.db[j]
      /\ st.mode[h] = INODE_WRITE => db[k] = st.value[h]
      /\ st.mode[h] = INODE_READ => db = st.db
  BY <1>1, <1>2, FlushedType, SMTT(30)
<1> HIDE DEF db
<1>4. u = Settled(z, h) BY Zenon DEF WriteBack, db
<1>5. /\ z = [shard |-> c, value |-> st.value, mode |-> st.mode, db |-> db]
      /\ z.shard = c /\ z.value = st.value /\ z.mode = st.mode /\ z.db = db
  BY <1>1 DEF StoreType
<1> HIDE DEF z, u
<1>6. z \in StoreType BY <1>2, <1>3, <1>5, Zenon DEF StoreType
<1>7. Good(z, p) /\ Quiet(st, z, {k}) /\ Fits(z.shard)
  <2>1. Touches(st, z, h, k) BY <1>3, <1>5, <1>6, Zenon DEF Touches
  <2> QED BY <1>1, <1>5, <2>1, TouchStore, Zenon
<1>8. CASE st.mode[h] = INODE_WRITE
  <2>1. u = [z EXCEPT !.mode[h] = INODE_READ]
    BY <1>4, <1>5, <1>8 DEF Settled, INODE_WRITE, INODE_DELETE
  <2>2. u = [shard |-> c, value |-> st.value, mode |-> [st.mode EXCEPT ![h] = INODE_READ], db |-> db]
    BY <1>5, <2>1, Zenon
  <2>3. u \in StoreType
    <3>1. [st.mode EXCEPT ![h] = INODE_READ] \in [Handles -> Modes] BY <1>2, Zenon DEF Modes
    <3> QED BY <1>2, <1>3, <2>2, <3>1, Zenon DEF StoreType
  <2>4. /\ u.shard = c /\ u.value = st.value /\ u.mode[h] = INODE_READ /\ u.db = db
        /\ \A g \in Handles \ {h} : u.mode[g] = st.mode[g]
    BY <1>2, <2>2, Zenon
  <2>5. Good(u, p) /\ Quiet(st, u, {k})
    <3>1. Touches(st, u, h, k) BY <1>3, <2>3, <2>4, Zenon DEF Touches
    <3> QED BY <1>1, <3>1, TouchStore, Zenon
  <2>6. u.db[k] = st.value[h] BY <1>3, <1>8, <2>4, Zenon
  <2>7. Fits(u.shard) /\ h \in Live(u.shard) /\ u.shard.key[h] = k BY <1>1, <2>4, Zenon
  <2> QED BY <1>8, <2>4, <2>5, <2>6, <2>7, Zenon DEF AfterWriteBack, u
<1>9. CASE st.mode[h] = INODE_DELETE
  <2>1. u = Evict(z, k)
    BY <1>4, <1>5, <1>9, SMTT(30) DEF Settled, INODE_WRITE, INODE_DELETE
  <2>2. AfterEvict(z, u, p, k) BY <1>1, <1>7, <2>1, EvictStore, Zenon
  <2>3. Good(u, p) /\ Quiet(z, u, {k}) /\ SameHandles(z, u, {}) /\ Fits(u.shard)
    BY <1>7, <2>2, Zenon DEF AfterEvict
  <2>4. Quiet(st, u, {k}) BY <1>7, <2>3, QuietTrans, Zenon
  <2>5. h \in Live(u.shard) BY <2>3, LiveIsHeldOrCached, Zenon DEF Good
  <2>6. u.shard.key[h] = k BY <1>5, <2>3, <2>5, Zenon DEF SameHandles
  <2> QED BY <1>9, <2>3, <2>4, <2>5, <2>6, Zenon DEF AfterWriteBack, u
<1>10. CASE st.mode[h] = INODE_READ
  <2>1. u = z BY <1>4, <1>5, <1>10, SMTT(30) DEF Settled, INODE_READ, INODE_WRITE, INODE_DELETE
  <2>2. /\ u.shard = c /\ u.mode[h] = INODE_READ /\ u.db = st.db
        /\ h \in Live(u.shard) /\ u.shard.key[h] = k
    BY <1>1, <1>3, <1>5, <1>10, <2>1, Zenon
  <2>3. INODE_READ # INODE_WRITE BY DEF INODE_READ, INODE_WRITE
  <2> QED BY <1>7, <1>10, <2>1, <2>2, <2>3, Zenon DEF AfterWriteBack, u
<1> QED BY <1>2, <1>8, <1>9, <1>10, Zenon DEF Modes

(* TableFS::Release: the store has the record, and then the handle leaves   *)
(* the cache; if another file still has it open its key has raced.          *)
LEMMA CloseWorks ==
  ASSUME Grounds, NEW st, NEW op, NEW lt, NEW rc, HInv(st, op, lt, rc),
         NEW f \in Files, op[f].how \in {Reading, Writing}, NEW h, h = op[f].handle,
         NEW k, k = st.shard.key[h]
  PROVE  WorksOn({k}, st, op, lt, rc, Close(st, h), [op EXCEPT ![f] = Closed], lt)
<1> DEFINE p  == Held(op)
           x  == WriteBack(st, h)
           y  == Release(x, h)
           su == Close(st, h)
           files == WithClosed(op, f)
           q  == [p EXCEPT ![h] = @ - 1]
<1>1. Good(st, p) /\ Fits(st.shard) /\ OpenOK(op) /\ lt \in [Keys -> Values] /\ p \in [Handles -> Nat]
  BY Starts, Zenon
<1>2. op[f].how # NotOpen BY Zenon DEF Reading, Writing, NotOpen
<1>3. /\ h \in Handles /\ p[h] > 0 /\ h \in Live(st.shard) /\ k \in Keys
      /\ Sound(st.shard, p)
  BY <1>1, <1>2, FileHandles, Zenon DEF Good
<1>4. /\ OpenOK(files) /\ Held(files) = q
      /\ \A g \in Files : g # f => files[g] = op[g]
  <2>1. op[f].how # NotOpen BY <1>2, Zenon
  <2>2. OpenOK(files) /\ Held(files) = q /\ SameFiles(op, files, f) BY <1>1, <2>1, ClosedFiles, Zenon
  <2> QED BY <2>2, Zenon DEF SameFiles
<1>5. AfterWriteBack(st, x, p, k, h)
  BY <1>1, <1>3, WriteBackStore, Zenon
<1>6. Good(x, p) /\ Quiet(st, x, {k}) /\ Fits(x.shard) /\ x.shard.key[h] = k
  BY <1>5, Zenon DEF AfterWriteBack
<1>7. AfterRelease(x, y, p, q, h)
  BY <1>3, <1>6, ReleaseStore, Zenon
<1>8. su = Evict(y, k) BY Zenon DEF Close
<1> HIDE DEF p, q, x, y, su, files
<1>9. /\ Good(y, q) /\ Quiet(x, y, {k}) /\ SameHandles(x, y, {}) /\ Fits(y.shard)
      /\ y.shard.table = x.shard.table
      /\ h \in Cached(x.shard) => y.db = x.db /\ h \in Live(y.shard)
  BY <1>6, <1>7, Zenon DEF AfterRelease
<1>10. AfterEvict(y, su, q, k) BY <1>3, <1>8, <1>9, EvictStore, Zenon
<1>11. /\ Good(su, q) /\ Quiet(y, su, {k}) /\ Fits(su.shard)
       /\ su.shard.table[k] = NoHandle
       /\ y.shard.table[k] = h /\ h # NoHandle =>
            su.db = y.db \/ su.db = Flushed(y.db, k, y.mode[h], y.value[h])
  <2>1. y.shard.table \in [Keys -> Handles \cup {NoHandle}]
    BY <1>9, StoreFields, Fields, Zenon DEF Good
  <2> QED BY <1>3, <1>9, <1>10, <2>1, Zenon DEF AfterEvict
<1>12. Quiet(st, su, {k}) BY <1>6, <1>9, <1>11, QuietTrans, Zenon
<1>13. k \notin rc => su.db[k] = lt[k]
  <2> SUFFICES ASSUME k \notin rc PROVE su.db[k] = lt[k] BY Zenon
  <2>1. KeyHolds(st, lt[k], k) /\ k \notin GoneKeys(st) BY <1>3, NotRaced, Zenon
  <2>2. h \in Cached(st.shard) BY <1>3, <2>1, Zenon DEF GoneKeys
  <2>3. st.shard.table[k] = h /\ h # NoHandle
    BY <1>3, <2>2, CachedIsInTable, HandleSentinelAssumption, SMTT(30)
  <2>4. st.mode[h] # INODE_DELETE
    BY <2>2 DEF HInv, ModesOK, INODE_READ, INODE_WRITE, INODE_DELETE
  <2>5. st.value[h] = lt[k] /\ (st.mode[h] = INODE_READ => st.db[k] = lt[k])
    BY <2>1, <2>3, Zenon DEF KeyHolds
  <2>6. st.mode[h] \in Modes BY <1>1, <1>3, StoreFields, Zenon DEF Good
  <2>7. /\ x.shard = st.shard /\ x.mode[h] = INODE_READ /\ x.db[k] = lt[k]
    BY <1>5, <2>4, <2>5, <2>6, Zenon DEF AfterWriteBack, Modes
  <2>8. /\ y.db = x.db /\ h \in Live(y.shard) /\ y.shard.table[k] = h
        /\ y.mode[h] = INODE_READ
    BY <1>9, <2>2, <2>3, <2>7, Zenon DEF SameHandles
  <2>9. Flushed(y.db, k, INODE_READ, y.value[h]) = y.db
    BY DEF Flushed, INODE_READ, INODE_WRITE, INODE_DELETE
  <2> QED BY <1>11, <2>3, <2>7, <2>8, <2>9, ZenonT(30)
<1>14. Touched(su, files, rc, lt[k], k) BY <1>11, <1>13, Zenon DEF Touched, KeyHolds
<1>15. \A g \in Files : op[g].how = Writing /\ files[g] # op[g] => st.shard.key[op[g].handle] \in {k}
  BY <1>4, Zenon
<1> QED BY <1>1, <1>3, <1>4, <1>11, <1>12, <1>14, <1>15, Zenon DEF WorksOn, su, files, WithClosed
=============================================================================
