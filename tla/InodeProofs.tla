---------------------------- MODULE InodeProofs -----------------------------
(***************************************************************************)
(* Rename, the restart of the process, and what the inode cache promises   *)
(* under all the calls of class TableFS.                                   *)
(***************************************************************************)
EXTENDS LRUCacheProofs, InodeCallProofs

(* What the proofs of InodeCallProofs rest on holds.                        *)
LEMMA GroundsHold == Grounds
<1>1. UnrefContract
  <2> SUFFICES ASSUME NEW c, NEW p, NEW h \in Handles, Sound(c, p), p[h] > 0
               PROVE  LET d == Unref(c, h)
                      IN  /\ Sound(d, [p EXCEPT ![h] = @ - 1]) /\ Follows(c, d)
                          /\ (Fits(c) => Fits(d)) /\ d.table = c.table /\ d.lru = c.lru
    BY Zenon DEF UnrefContract
  <2>1. c \in ShardType BY Zenon DEF Sound
  <2>2. Sound(Unref(c, h), [p EXCEPT ![h] = @ - 1]) BY UnrefSound, Zenon
  <2>3. Fits(c) => Fits(Unref(c, h)) BY <2>1, UnrefFits, Zenon
  <2> QED BY <2>1, <2>2, <2>3, UnrefFollows, Zenon
<1>2. LookupContract
  <2> SUFFICES ASSUME NEW c, NEW p, NEW h, NEW k \in Keys, Sound(c, p), h = c.table[k], h # NoHandle
               PROVE  LET d == Lookup(c, k)
                      IN  /\ Sound(d, [p EXCEPT ![h] = @ + 1]) /\ (Fits(c) => Fits(d))
                          /\ Cached(d) = Cached(c) /\ d.table = c.table /\ d.key = c.key
    BY SMTT(30) DEF LookupContract
  <2>1. Sound(Lookup(c, k), [p EXCEPT ![h] = @ + 1]) BY LookupSound, Zenon
  <2>2. Fits(c) => Fits(Lookup(c, k)) BY LookupFits, Zenon
  <2> QED BY <2>1, <2>2, LookupFollows, Zenon
<1>3. EraseContract
  <2> SUFFICES ASSUME NEW c, NEW p, NEW k \in Keys, Sound(c, p)
               PROVE  LET d == Erase(c, k)
                      IN  /\ Sound(d, p) /\ (Fits(c) => Fits(d))
                          /\ c.table[k] # NoHandle =>
                               /\ Follows(c, d) /\ Cached(d) = Cached(c) \ {c.table[k]}
                               /\ d.table = [c.table EXCEPT ![k] = NoHandle]
    BY Zenon DEF EraseContract
  <2>1. Sound(Erase(c, k), p) BY EraseSound, Zenon
  <2>2. Fits(c) => Fits(Erase(c, k)) BY EraseFits, Zenon
  <2> QED BY <2>1, <2>2, EraseFollows, Zenon
<1>4. InsertContract
  <2> SUFFICES ASSUME NEW c, NEW p, NEW k \in Keys, NEW h \in Handles, Sound(c, p), h \notin Live(c)
               PROVE  LET d == Insert(c, k, h)
                      IN  Sound(d, [p EXCEPT ![h] = 1]) /\ Fits(d) /\ Inserts(c, d, k, h)
    BY Zenon DEF InsertContract
  <2>1. Sound(Insert(c, k, h), [p EXCEPT ![h] = 1]) /\ Fits(Insert(c, k, h)) BY InsertSound, Zenon
  <2>2. Inserts(c, Insert(c, k, h), k, h) BY InsertFollows DEF Inserts
  <2> QED BY <2>1, <2>2, Zenon
<1>5. FiniteSetFacts
  <2>1. ASSUME NEW S, IsFiniteSet(S)
        PROVE  Cardinality(S) \in Nat /\ (Cardinality(S) = 0 <=> S = {})
    BY <2>1, FS_CardinalityType, FS_EmptySet, Zenon
  <2>2. ASSUME NEW T, NEW S \in SUBSET T, IsFiniteSet(T)
        PROVE  IsFiniteSet(S) /\ Cardinality(S) <= Cardinality(T)
    BY <2>2, FS_Subset, Zenon
  <2>3. ASSUME NEW S, NEW x, IsFiniteSet(S)
        PROVE  /\ IsFiniteSet(S \cup {x})
               /\ Cardinality(S \cup {x}) = IF x \in S THEN Cardinality(S) ELSE Cardinality(S) + 1
    BY <2>3, FS_AddElement, Zenon
  <2>4. ASSUME NEW S, NEW x, IsFiniteSet(S)
        PROVE  Cardinality(S \ {x}) = IF x \in S THEN Cardinality(S) - 1 ELSE Cardinality(S)
    BY <2>4, FS_RemoveElement, Zenon
  <2>5. ASSUME NEW S, NEW T, NEW f \in Surjection(S, T), IsFiniteSet(S)
        PROVE  IsFiniteSet(T) /\ Cardinality(T) <= Cardinality(S)
    BY <2>5, FS_Surjection, Zenon
  <2> QED BY <2>1, <2>2, <2>3, <2>4, <2>5, Zenon DEF FiniteSetFacts
<1> QED BY <1>1, <1>2, <1>3, <1>4, <1>5, Zenon DEF Grounds

(* LRUCache::Insert leaves no other handle under the key.                   *)
LEMMA InsertTable ==
  ASSUME NEW c, NEW p, Sound(c, p), NEW k \in Keys, NEW h \in Handles, h \notin Live(c)
  PROVE  Insert(c, k, h).table[k] \in {h, NoHandle}
<1> DEFINE l == Link(c, k, h)
           n == CHOOSE m \in 0 .. Len(l.lru) : LoopEndsAt(l, m)
           linked == [c EXCEPT !.table[k] = h, !.key[h] = k, !.refs[h] = 2,
                               !.lru = Append(@, h), !.usage = @ + 1]
           old == c.table[k]
<1>1. c \in ShardType /\ c.table \in [Keys -> Handles \cup {NoHandle}] BY Fields, Zenon DEF Sound
<1>2. linked.table[k] = h BY <1>1, Zenon DEF ShardType
<1>3. l.table[k] = h
  <2>1. CASE old = NoHandle BY <1>2, <2>1, Zenon DEF Link
  <2>2. CASE old # NoHandle
    <3> DEFINE u == [linked EXCEPT !.lru = Unlinked(@, old)]
    <3>1. l = Unref(u, old) BY <2>2, Zenon DEF Link
    <3>2. u.table = linked.table /\ Unref(u, old).table = u.table
      BY <1>1, Zenon DEF Unref, ShardType
    <3> QED BY <1>2, <3>1, <3>2, Zenon
  <2> QED BY <2>1, <2>2, Zenon
<1>4. Insert(c, k, h) = Drop(l, n) BY Zenon DEF Insert, Shrink
<1> HIDE DEF l, n
<1>5. Drop(l, n).table[k] \in {l.table[k], NoHandle} BY Zenon DEF Drop
<1> QED BY <1>3, <1>4, <1>5, Zenon

(* What InodeCache::BatchCommit of a deleted and a written handle leaves.   *)
AfterCommit(st, u, r, old, new, h, n) ==
  /\ Good(u, r) /\ Quiet(st, u, {old, new}) /\ Fits(u.shard)
  /\ SameHandles(st, u, {n})
  /\ u.shard.key[n] = new /\ u.value[n] = st.value[n] /\ u.mode[n] = INODE_READ
  /\ u.shard.table = [st.shard.table EXCEPT ![old] = NoHandle]
  /\ u.db[old] = NoValue /\ u.db[new] = st.value[n]

LEMMA CommitStore ==
  ASSUME NEW st, NEW r, Good(st, r), Fits(st.shard),
         NEW h \in Handles, r[h] > 0, st.mode[h] = INODE_DELETE, NEW old, st.shard.key[h] = old,
         NEW n \in Handles, r[n] > 0, st.mode[n] = INODE_WRITE, NEW new, st.shard.key[n] = new,
         old # new
  PROVE  AfterCommit(st, BatchCommit(st, h, n), r, old, new, h, n)
<1> DEFINE one == Evict(st, old)
           v   == st.value[n]
           db1 == [one.db EXCEPT ![old] = NoValue]
           mid == [shard |-> one.shard, value |-> one.value, mode |-> one.mode, db |-> db1]
           mod == [one.mode EXCEPT ![n] = INODE_READ]
           db2 == [db1 EXCEPT ![new] = v]
           u   == [shard |-> one.shard, value |-> one.value, mode |-> mod, db |-> db2]
<1>1. h \in Live(st.shard) /\ n \in Live(st.shard) /\ old \in Keys /\ new \in Keys /\ st \in StoreType
  BY LiveIsHeldOrCached, Zenon DEF Good
<1>2. AfterEvict(st, one, r, old) BY <1>1, EvictStore, GroundsHold, Zenon
<1>3. /\ Good(one, r) /\ Quiet(st, one, {old}) /\ SameHandles(st, one, {}) /\ Fits(one.shard)
      /\ one.shard.table = [st.shard.table EXCEPT ![old] = NoHandle]
  BY <1>2, Zenon DEF AfterEvict
<1>4. one \in StoreType /\ h \in Live(one.shard) /\ n \in Live(one.shard)
  BY <1>3, LiveIsHeldOrCached, Zenon DEF Good
<1>5. /\ one.shard.key[h] = old
      /\ one.shard.key[n] = new /\ one.mode[n] = INODE_WRITE /\ one.value[n] = v
  BY <1>3, <1>4, Zenon DEF SameHandles
<1>6. BatchCommit(st, h, n) = u
  <2>1. Settled(st, h) = one
    BY DEF Settled, INODE_WRITE, INODE_DELETE
  <2> DEFINE two == [one EXCEPT !.mode[n] = INODE_READ]
             db == Flushed(Flushed(two.db, old, INODE_DELETE, st.value[h]), new, INODE_WRITE, v)
  <2> HIDE DEF one
  <2>2. Settled(one, n) = two
    BY <1>5 DEF Settled, INODE_WRITE, INODE_DELETE
  <2>3. two = [shard |-> one.shard, value |-> one.value, mode |-> mod, db |-> one.db]
    BY <1>4 DEF StoreType
  <2>4. BatchCommit(st, h, n) = [two EXCEPT !.db = db]
    BY <1>5, <2>1, <2>2, Zenon DEF BatchCommit
  <2>5. Flushed(one.db, old, INODE_DELETE, st.value[h]) = db1
    BY DEF Flushed, INODE_WRITE, INODE_DELETE
  <2>6. Flushed(db1, new, INODE_WRITE, v) = db2
    BY DEF Flushed, INODE_WRITE, INODE_DELETE
  <2>7. two.db = one.db BY <2>3, Zenon
  <2>8. db = db2 BY <2>5, <2>6, <2>7, Zenon
  <2> HIDE DEF db, db2, two, mod
  <2> QED BY <2>3, <2>4, <2>8, Zenon
<1> HIDE DEF one, v
<1>7. /\ one.shard \in ShardType /\ one.value \in [Handles -> Values]
      /\ one.mode \in [Handles -> Modes] /\ one.db \in [Keys -> Values]
      /\ v \in Values /\ NoValue \in Values /\ INODE_READ \in Modes
  BY <1>1, <1>4, StoreFields, Zenon DEF Values, Modes, v
<1>8. /\ db1 \in [Keys -> Values] /\ db1[old] = NoValue
      /\ \A j \in Keys \ {old} : db1[j] = one.db[j]
  BY <1>1, <1>7, Zenon
<1> HIDE DEF db1
<1>9. /\ db2 \in [Keys -> Values] /\ db2[old] = NoValue /\ db2[new] = v
      /\ \A j \in Keys \ {new} : db2[j] = db1[j]
  BY <1>1, <1>7, <1>8, Zenon
<1>10. /\ mod \in [Handles -> Modes] /\ mod[n] = INODE_READ
       /\ \A g \in Handles \ {n} : mod[g] = one.mode[g]
  BY <1>7, Zenon
<1> HIDE DEF db2, mod
<1>11. /\ mid.shard = one.shard /\ mid.value = one.value /\ mid.mode = one.mode /\ mid.db = db1
       /\ u.shard = one.shard /\ u.value = one.value /\ u.mode = mod /\ u.db = db2
  BY Zenon
<1>12. mid \in StoreType /\ u \in StoreType
  BY <1>7, <1>8, <1>9, <1>10, Zenon DEF StoreType
<1> HIDE DEF mid, u
<1>13. Touches(one, mid, h, old) BY <1>5, <1>8, <1>11, <1>12, Zenon DEF Touches
<1>14. Good(mid, r) /\ Quiet(one, mid, {old}) BY <1>3, <1>4, <1>13, TouchStore, Zenon
<1>15. Touches(mid, u, n, new) BY <1>5, <1>9, <1>10, <1>11, <1>12, Zenon DEF Touches
<1>16. n \in Live(mid.shard) BY <1>4, <1>11, Zenon
<1>17. Good(u, r) /\ Quiet(mid, u, {new}) BY <1>14, <1>15, <1>16, TouchStore, Zenon
<1>18. Quiet(st, u, {old, new})
  <2>1. {old} \subseteq {old, new} /\ {new} \subseteq {old, new} BY Zenon
  <2>2. Quiet(st, one, {old, new}) /\ Quiet(one, mid, {old, new}) /\ Quiet(mid, u, {old, new})
    BY <1>3, <1>14, <1>17, <2>1, QuietWeaker, Zenon
  <2> QED BY <2>2, QuietTrans, Zenon
<1>19. SameHandles(st, u, {n})
  <2>1. Live(one.shard) \subseteq Handles BY Zenon DEF Live
  <2> QED BY <1>3, <1>10, <1>11, <2>1, SMTT(30) DEF SameHandles
<1>20. AfterCommit(st, u, r, old, new, h, n)
  BY <1>3, <1>5, <1>9, <1>10, <1>11, <1>17, <1>18, <1>19, Zenon DEF AfterCommit, v
<1> QED BY <1>6, <1>20, Zenon DEF u

(* TableFS::Rename: the record moves to the new key, and the store holds it *)
(* there before the handles are given up.                                   *)
LEMMA RenameWorks ==
  ASSUME NEW st, NEW op, NEW lt, NEW rc, HInv(st, op, lt, rc),
         NEW old \in Keys, NEW new \in Keys, old # new, Exists(st, old)
  PROVE  WorksOn({old, new}, st, op, lt, rc, Rename(st, old, new), op,
                 [lt EXCEPT ![new] = Found(st, old), ![old] = NoValue])
<1> DEFINE K    == {old, new}
           p    == Held(op)
           h    == Handle(st, old)
           v    == Found(st, old)
           got  == Get(st, old, INODE_DELETE)
           q    == [p EXCEPT ![h] = @ + 1]
           n    == NewHandle(got)
           ins  == InsertInode(got, new, got.value[h])
           r    == [q EXCEPT ![n] = 1]
           done == BatchCommit(ins, h, n)
           e    == Release(done, n)
           w    == Release(e, h)
           su   == Evict(w, old)
           later == [lt EXCEPT ![new] = v, ![old] = NoValue]
<1>0. Rename(st, old, new) = su BY Zenon DEF Rename, Exists
<1>1. /\ Good(st, p) /\ Fits(st.shard) /\ UnheldIsClean(st, p) /\ OpenOK(op)
      /\ Cardinality(Pinned(p)) < Cardinality(Handles)
      /\ \A g \in Handles : Cardinality(Pinned([p EXCEPT ![g] = @ + 1])) < Cardinality(Handles)
      /\ p \in [Handles -> Nat] /\ lt \in [Keys -> Values]
  BY Starts, GroundsHold, Zenon
<1>2. AfterGet(st, got, p, q, old, h, INODE_DELETE)
  BY <1>1, GetStore, Zenon, GroundsHold DEF Modes
<1>3. Cardinality(Pinned(q)) < Cardinality(Handles)
  <2>1. h \in Handles BY <1>2, Zenon DEF AfterGet
  <2> QED BY <1>1, <2>1, Zenon
<1>4. ins = Inserted(got, new, n, got.value[h], INODE_WRITE) BY Zenon DEF InsertInode
<1> HIDE DEF p, h, got, v, su, ins, n, done, e, w
<1>5. /\ h \in Handles /\ Good(got, q) /\ Quiet(st, got, {old}) /\ Fits(got.shard)
      /\ UnheldIsClean(got, q) /\ h \in Live(got.shard) /\ got.shard.key[h] = old
      /\ got.value[h] = v /\ got.mode[h] = INODE_DELETE
  BY <1>2 DEF AfterGet, INODE_READ, INODE_DELETE, v
<1>6. q \in [Handles -> Nat] /\ q[h] > 0 /\ [q EXCEPT ![h] = @ - 1] = p
  BY <1>1, <1>5, PinUnpin, Zenon
<1> HIDE DEF q
<1>7. n \in Handles /\ n \notin Live(got.shard) BY <1>3, <1>5, FreeHandle, GroundsHold, Zenon DEF n
<1>8. n # h /\ q[n] = 0
  BY <1>5, <1>7, NotLive, Zenon DEF Good
<1>9. v \in Values
  BY <1>5, StoreFields, Zenon DEF Good
<1>10. AfterInsert(got, ins, r, new, n, v, INODE_WRITE)
  <2>1. ins = Inserted(got, new, n, v, INODE_WRITE) BY <1>4, <1>5, Zenon
  <2>2. INODE_WRITE \in Modes BY Zenon DEF Modes
  <2> QED BY <1>5, <1>7, <1>9, <2>1, <2>2, InsertedStore, GroundsHold, SMTT(30)
<1>11. /\ r \in [Handles -> Nat] /\ r[h] > 0 /\ r[n] = 1 /\ r[n] > 0 /\ [r EXCEPT ![n] = @ - 1] = q
  <2>1. r \in [Handles -> Nat] /\ r[n] = 1 /\ \A g \in Handles \ {n} : r[g] = q[g]
    BY <1>6, <1>7, Zenon
  <2>2. r[h] > 0 BY <1>5, <1>6, <1>8, <2>1, Zenon
  <2> HIDE DEF r
  <2> DEFINE z == [r EXCEPT ![n] = @ - 1]
  <2>3. z \in [Handles -> Int] /\ z[n] = 0 /\ \A g \in Handles \ {n} : z[g] = r[g]
    BY <1>7, <2>1
  <2>4. z = [g \in Handles |-> z[g]] /\ q = [g \in Handles |-> q[g]] BY <1>6, <2>3, Zenon
  <2> HIDE DEF z
  <2>5. \A g \in Handles : z[g] = q[g] BY <1>8, <2>1, <2>3, Zenon
  <2>6. z = q BY <2>4, <2>5, Zenon
  <2> QED BY <2>1, <2>2, <2>6 DEF z
<1> HIDE DEF r
<1>12. /\ Good(ins, r) /\ Quiet(got, ins, {new}) /\ SameHandles(got, ins, {n}) /\ Fits(ins.shard)
       /\ ins.shard.key[n] = new /\ ins.value[n] = v /\ ins.mode[n] = INODE_WRITE
  BY <1>10, Zenon DEF AfterInsert
<1>13. ins.shard.key[h] = old /\ ins.mode[h] = INODE_DELETE
  <2>1. h \in Live(ins.shard) BY <1>5, <1>11, <1>12, LiveIsHeldOrCached, Zenon DEF Good
  <2> QED BY <1>5, <1>8, <1>12, <2>1, Zenon DEF SameHandles
<1>14. ins.shard.table[new] \in {n, NoHandle}
  <2>1. ins.shard = Insert(got.shard, new, n) BY <1>4, Zenon DEF Inserted, Clean
  <2>2. Sound(got.shard, q) BY <1>5, Zenon DEF Good
  <2> QED BY <1>7, <2>1, <2>2, InsertTable, Zenon
<1>15. AfterCommit(ins, done, r, old, new, h, n)
  BY <1>5, <1>7, <1>11, <1>12, <1>13, CommitStore, Zenon DEF done
<1>16. /\ Good(done, r) /\ Quiet(ins, done, K) /\ Fits(done.shard)
       /\ done.shard.key[n] = new /\ done.value[n] = v /\ done.mode[n] = INODE_READ
       /\ done.db[old] = NoValue /\ done.db[new] = v
       /\ SameHandles(ins, done, {n})
       /\ done.shard.table = [ins.shard.table EXCEPT ![old] = NoHandle]
  BY <1>12, <1>15, Zenon DEF AfterCommit
<1>17. done.shard.table[old] = NoHandle /\ done.shard.table[new] \in {n, NoHandle}
  <2>1. ins.shard.table \in [Keys -> Handles \cup {NoHandle}]
    BY <1>12, StoreFields, Fields, Zenon DEF Good
  <2> QED BY <1>14, <1>16, <2>1, Zenon
<1>18. AfterRelease(done, e, r, q, n)
  <2>1. AfterRelease(done, e, r, [r EXCEPT ![n] = @ - 1], n)
    BY <1>7, <1>11, <1>16, ReleaseStore, Zenon, GroundsHold DEF e
  <2> QED BY <1>11, <2>1, Zenon
<1>19. /\ Good(e, q) /\ Quiet(done, e, {new}) /\ SameHandles(done, e, {}) /\ Fits(e.shard)
       /\ e.shard.table = done.shard.table
       /\ e.db = done.db \/ e.db = Flushed(done.db, new, INODE_READ, v)
  BY <1>16, <1>18, Zenon DEF AfterRelease
<1>20. e.db = done.db
  BY <1>19, SMTT(30) DEF Flushed, INODE_READ, INODE_WRITE, INODE_DELETE
<1>21. e.shard.key[h] = old /\ e.mode[h] = INODE_DELETE
  <2>1. h \in Live(e.shard) BY <1>5, <1>6, <1>19, LiveIsHeldOrCached, Zenon DEF Good
  <2>2. h \in Live(done.shard) BY <1>5, <1>11, <1>16, LiveIsHeldOrCached, Zenon DEF Good
  <2> QED BY <1>8, <1>13, <1>16, <1>19, <2>1, <2>2, SMTT(30) DEF SameHandles
<1>22. AfterRelease(e, w, q, p, h)
  <2>1. AfterRelease(e, w, q, [q EXCEPT ![h] = @ - 1], h)
    BY <1>5, <1>6, <1>19, ReleaseStore, Zenon, GroundsHold DEF w
  <2> QED BY <1>6, <2>1, Zenon
<1>23. /\ Good(w, p) /\ Quiet(e, w, {old}) /\ SameHandles(e, w, {}) /\ Fits(w.shard)
       /\ w.shard.table = e.shard.table
       /\ w.db = e.db \/ w.db = Flushed(e.db, old, INODE_DELETE, e.value[h])
  BY <1>19, <1>21, <1>22, Zenon DEF AfterRelease
<1>24. w.db[old] = NoValue /\ w.db[new] = v
  <2>1. e.db \in [Keys -> Values] /\ e.db[old] = NoValue /\ e.db[new] = v
    BY <1>16, <1>19, <1>20, StoreFields, Zenon DEF Good
  <2>2. Flushed(e.db, old, INODE_DELETE, e.value[h]) = [e.db EXCEPT ![old] = NoValue]
    BY DEF Flushed, INODE_WRITE, INODE_DELETE
  <2> QED BY <1>23, <2>1, <2>2, Zenon
<1>25. AfterEvict(w, su, p, old) BY <1>23, EvictStore, GroundsHold, Zenon DEF su
<1>26. w.shard.table[old] = NoHandle /\ w.shard.table[new] \in {n, NoHandle}
       /\ w.shard.table \in [Keys -> Handles \cup {NoHandle}]
  <2>1. w.shard.table \in [Keys -> Handles \cup {NoHandle}]
    BY <1>23, StoreFields, Fields, Zenon DEF Good
  <2> QED BY <1>17, <1>19, <1>23, <2>1, Zenon
<1>27. /\ Good(su, p) /\ Quiet(w, su, {old}) /\ SameHandles(w, su, {}) /\ Fits(su.shard)
       /\ su.db = w.db /\ su.shard.table[old] = NoHandle /\ su.shard.table[new] \in {n, NoHandle}
  BY <1>23, <1>25, <1>26, Zenon DEF AfterEvict
<1>28. Quiet(st, su, K)
  <2>1. {old} \subseteq K /\ {new} \subseteq K BY Zenon
  <2> HIDE DEF K
  <2>2. Quiet(st, got, K) /\ Quiet(got, ins, K) /\ Quiet(done, e, K) /\ Quiet(e, w, K) /\ Quiet(w, su, K)
    BY <1>5, <1>12, <1>19, <1>23, <1>27, <2>1, QuietWeaker, ZenonT(30)
  <2>3. Quiet(st, done, K) BY <1>16, <2>2, QuietTrans, Zenon
  <2> QED BY <2>2, <2>3, QuietTrans, Zenon
<1>29. /\ later \in [Keys -> Values] /\ later[old] = NoValue /\ later[new] = v
       /\ \A j \in Keys \ K : later[j] = lt[j]
  <2>1. NoValue \in Values BY Zenon DEF Values
  <2> QED BY <1>1, <1>9, <2>1, Zenon
<1>30. Touched(su, op, rc, later[old], old)
  BY <1>24, <1>27, <1>29, Zenon DEF Touched, KeyHolds
<1>31. Touched(su, op, rc, later[new], new)
  <2>1. CASE su.shard.table[new] = NoHandle
    BY <1>24, <1>27, <1>29, <2>1, Zenon DEF Touched, KeyHolds
  <2>2. CASE su.shard.table[new] = n
    <3>1. n # NoHandle BY <1>7, HandleSentinelAssumption, Zenon
    <3>2. n \in Live(su.shard)
      BY <1>7, <1>27, <2>2, <3>1, CachedIsInTable, LiveIsHeldOrCached, Zenon DEF Good
    <3>3. su.value[n] = v /\ su.mode[n] = INODE_READ
      BY <1>16, <1>19, <1>23, <1>27, <3>2 DEF SameHandles
    <3> QED BY <1>24, <1>27, <1>29, <2>2, <3>3, Zenon DEF Touched, KeyHolds
  <2> QED BY <1>27, <2>1, <2>2, Zenon
<1> HIDE DEF later
<1>32. WorksOn(K, st, op, lt, rc, su, op, later)
  BY <1>1, <1>27, <1>28, <1>29, <1>30, <1>31, Zenon DEF WorksOn, p
<1> QED BY <1>0, <1>32, Zenon DEF later, v

(* TableFS::Init: the invariant holds of an empty cache.                    *)
LEMMA FreshInv ==
  ASSUME NEW db \in [Keys -> Values]
  PROVE  HInv(EmptyStore(db), [f \in Files |-> Closed], db, {})
<1> DEFINE st    == EmptyStore(db)
           files == [f \in Files |-> Closed]
           p     == [h \in Handles |-> 0]
<1>1. Sound(EmptyShard, p) BY EmptySound, Zenon
<1>2. EmptyShard \in ShardType BY <1>1, Zenon DEF Sound
<1>3. /\ st.shard = EmptyShard /\ st.db = db
      /\ st = [shard |-> EmptyShard, value |-> [h \in Handles |-> NoValue],
               mode |-> [h \in Handles |-> INODE_READ], db |-> db]
  BY Zenon DEF EmptyStore
<1>4. st \in StoreType
  <2>1. /\ [h \in Handles |-> NoValue] \in [Handles -> Values]
        /\ [h \in Handles |-> INODE_READ] \in [Handles -> Modes]
    BY Zenon DEF Values, Modes
  <2> HIDE DEF st
  <2> QED BY <1>2, <1>3, <2>1 DEF StoreType
<1>5. /\ Live(EmptyShard) = {} /\ Cached(EmptyShard) = {} /\ Fits(EmptyShard)
      /\ \A k \in Keys : EmptyShard.table[k] = NoHandle
  BY DEF EmptyShard, Live, Cached, Range, Fits
<1>6. \A f \in Files : files[f].handle = NoHandle /\ files[f].how = NotOpen
  BY Zenon DEF Closed
<1>7. files \in OpenType BY Zenon DEF OpenType, Closed
<1> HIDE DEF st, files
<1>8. Held(files) = p
  <2>1. \A h \in Handles : {f \in Files : files[f].handle = h} = {}
    BY <1>6, HandleSentinelAssumption, Zenon
  <2>2. Cardinality({}) = 0 BY FS_EmptySet, Zenon
  <2>3. \A h \in Handles : Cardinality({f \in Files : files[f].handle = h}) = 0
    BY <2>1, <2>2, Zenon
  <2> QED BY <2>3, Zenon DEF Held
<1>9. Good(st, Held(files)) BY <1>1, <1>3, <1>4, <1>5, <1>8, Zenon DEF Good
<1>10. OpenOK(files) BY <1>6, <1>7, Zenon DEF OpenOK
<1>11. ModesOK(st, files) BY <1>3, <1>5, Zenon DEF ModesOK
<1>12. GoneKeys(st) = {} BY <1>3, <1>5, Zenon DEF GoneKeys
<1>13. \A k \in Keys : KeyHolds(st, db[k], k) BY <1>3, <1>5, Zenon DEF KeyHolds
<1>14. Fits(st.shard) BY <1>3, <1>5, Zenon
<1>15. HInv(st, files, db, {})
  BY <1>9, <1>10, <1>11, <1>12, <1>13, <1>14, Zenon DEF HInv
<1> QED BY <1>15, Zenon DEF st, files

(* Close is durable.                                                        *)
LEMMA ClosedIsStored ==
  ASSUME NEW st, NEW op, NEW lt, NEW rc, HInv(st, op, lt, rc), NEW k \in Keys \ rc,
         \A f \in Files : op[f].how # NotOpen => st.shard.key[op[f].handle] # k
  PROVE  st.db[k] = lt[k]
<1> DEFINE t == st.shard.table[k]
<1>1. KeyHolds(st, lt[k], k) BY NotRaced, Zenon
<1>2. CASE t = NoHandle BY <1>1, <1>2, Zenon DEF KeyHolds
<1>3. CASE t # NoHandle
  <2>1. Sound(st.shard, Held(op)) BY Zenon DEF HInv, Good
  <2>2. t \in Cached(st.shard) /\ st.shard.key[t] = k BY <1>3, <2>1, CachedIsInTable, Zenon
  <2>3. Writing # NotOpen BY Zenon DEF Writing, NotOpen
  <2>4. ~\E f \in Files : op[f].handle = t /\ op[f].how = Writing
    BY <2>2, <2>3, Zenon
  <2>5. st.mode[t] = INODE_READ BY <2>2, <2>4, Zenon DEF HInv, ModesOK
  <2> QED BY <1>1, <1>3, <2>5, Zenon DEF KeyHolds
<1> QED BY <1>2, <1>3, Zenon

(* Then nothing is lost with the memory but what was open or raced, and     *)
(* nothing is replaced by the next Init but the root.                       *)
LEMMA SurvivingSame ==
  ASSUME HandlersInv, NEW known \in BOOLEAN, NEW db \in Mounted(store.db, known)
  PROVE  Surviving(db, known) = db /\ db \in [Keys -> Values]
<1>1. HInv(store, open, latest, raced) BY Zenon DEF HandlersInv
<1>2. store.db \in [Keys -> Values] BY <1>1, StoreFields, Zenon DEF HInv, Good
<1>3. ASSUME NEW k \in Keys, k \notin raced,
             ~\E f \in OpenFiles : HandleKey(open[f].handle) = k
      PROVE  store.db[k] = latest[k]
  <2>1. \A f \in Files : open[f].how # NotOpen => store.shard.key[open[f].handle] # k
    BY <1>3, Zenon DEF OpenFiles, HandleKey
  <2>2. k \in Keys \ raced BY <1>3, Zenon
  <2> QED BY <1>1, <2>1, <2>2, ClosedIsStored, SMTT(30)
<1>4. /\ db \in [Keys -> Values]
      /\ \A k \in Keys : (k = Root /\ ~known) \/ db[k] = store.db[k]
  <2>1. CASE Root \in Keys /\ ~known
    <3>1. PICK v \in Versions : db = [store.db EXCEPT ![Root] = v] BY <2>1, Zenon DEF Mounted
    <3> QED BY <1>2, <2>1, <3>1 DEF Values
  <2>2. CASE ~(Root \in Keys /\ ~known)
    <3>1. db = store.db BY <2>2, Zenon DEF Mounted
    <3> QED BY <1>2, <3>1, Zenon
  <2> QED BY <2>1, <2>2, Zenon
<1>5. Surviving(db, known) = [k \in Keys |-> db[k]]
  BY <1>3, <1>4, Zenon DEF Surviving
<1>6. db = [k \in Keys |-> db[k]] BY <1>4
<1> QED BY <1>4, <1>5, <1>6, Zenon

(* TableFS::Destroy: ~LRUCache drops handles that have nothing to write.    *)
LEMMA DestroyedSame ==
  ASSUME NEW st, NEW op, NEW lt, NEW rc, HInv(st, op, lt, rc)
  PROVE  Destroyed(st).db = st.db
<1> DEFINE p == Held(op)
           c == st.shard
           n == Len(c.lru)
           d == Drop(c, n)
<1>1. Good(st, p) /\ UnheldIsClean(st, p) BY Starts, GroundsHold, Zenon
<1>2. st \in StoreType /\ Sound(c, p) /\ \A h \in Live(c) : c.key[h] \in Keys BY <1>1, Zenon DEF Good
<1>3. n \in 0 .. Len(c.lru)
  <2>1. c.lru \in Seq(Handles) BY <1>2, Fields, Zenon DEF Sound
  <2> QED BY <2>1, LenProperties
<1>4. Sound(d, p) /\ d \in ShardType
  <2>1. Sound(d, p) BY <1>2, <1>3, DropSound, Zenon
  <2> QED BY <2>1, Zenon DEF Sound
<1>5. Destroyed(st) = Clean(st, d) BY Zenon DEF Destroyed
<1> HIDE DEF d, p, n
<1>6. \A h \in Live(c) \ Live(d) : st.mode[h] = INODE_READ
  <2> SUFFICES ASSUME NEW h \in Live(c) \ Live(d) PROVE st.mode[h] = INODE_READ
    BY Zenon
  <2>1. h \in Handles BY Zenon DEF Live
  <2>2. /\ h \in Live(c) <=> p[h] > 0 \/ h \in Cached(c)
        /\ h \in Live(d) <=> p[h] > 0 \/ h \in Cached(d)
        /\ p[h] \in Nat
    BY <1>2, <1>4, <2>1, LiveIsHeldOrCached, Zenon
  <2>3. p[h] = 0 /\ h \in Cached(c) BY <2>2
  <2> QED BY <1>1, <2>3, Zenon DEF UnheldIsClean
<1>7. Clean(st, d).db = st.db
  BY <1>2, <1>4, <1>6, CleanNothing, Zenon
<1> QED BY <1>5, <1>7, Zenon

-----------------------------------------------------------------------------
(* Every handler ends in Leave, or in LeaveNumbered.                        *)
LEMMA LeaveNumberedStep ==
  ASSUME HandlersInv, NEW su, NEW files, NEW content, NEW K, NEW known \in BOOLEAN,
         WorksOn(K, store, open, latest, raced, su, files, content),
         LeaveNumbered(su, files, content, known)
  PROVE  HandlersInv'
<1>1. HInv(store, open, latest, raced) BY Zenon DEF HandlersInv
<1>2. HInv(su, files, content, raced \cup Detached(su, files)) BY <1>1, LeaveInv, GroundsHold, Zenon
<1>3. /\ store' = su /\ open' = files /\ latest' = content /\ raced' = raced \cup DetachedKeys'
      /\ numbered' = known /\ saved' = saved
  BY Zenon DEF LeaveNumbered
<1>4. DetachedKeys' = Detached(store', open') BY Zenon DEF DetachedKeys, OpenFiles, Detached
<1>5. HInv(store', open', latest', raced') BY <1>2, <1>3, <1>4, Zenon
<1>6. numbered' \in BOOLEAN /\ saved' \in BOOLEAN BY <1>3, Zenon DEF HandlersInv
<1> QED BY <1>5, <1>6, Zenon DEF HandlersInv

LEMMA LeaveStep ==
  ASSUME HandlersInv, NEW su, NEW files, NEW content, NEW K,
         WorksOn(K, store, open, latest, raced, su, files, content), Leave(su, files, content)
  PROVE  HandlersInv'
<1>1. numbered \in BOOLEAN BY Zenon DEF HandlersInv
<1>2. LeaveNumbered(su, files, content, numbered) BY Zenon DEF Leave
<1> QED BY <1>1, <1>2, LeaveNumberedStep, Zenon

(* A crash, or Destroy, and the next mount.                                 *)
LEMMA RestartStep ==
  ASSUME HandlersInv, NEW known \in BOOLEAN, NEW left, left = store.db, MountOn(left, known),
         saved' \in BOOLEAN
  PROVE  HandlersInv'
<1>1. PICK db \in Mounted(store.db, known) :
        store' = EmptyStore(db) /\ latest' = Surviving(db, known)
  BY Zenon DEF MountOn
<1>2. open' = [f \in Files |-> Closed] /\ raced' = {} /\ numbered' = known BY Zenon DEF MountOn
<1>3. Surviving(db, known) = db /\ db \in [Keys -> Values] BY SurvivingSame, Zenon
<1>4. HInv(EmptyStore(db), [f \in Files |-> Closed], db, {}) BY <1>3, FreshInv, Zenon
<1>5. HInv(store', open', latest', raced') BY <1>1, <1>2, <1>3, <1>4, Zenon
<1> QED BY <1>2, <1>5, Zenon DEF HandlersInv

LEMMA InitHandlersInv == Init => HandlersInv
<1> SUFFICES ASSUME Init PROVE HandlersInv
  BY Zenon
<1>1. PICK db \in [Keys -> Values] : store = EmptyStore(db) /\ latest = db
  BY Zenon DEF Init, Values
<1>2. open = [f \in Files |-> Closed] /\ raced = {} BY Zenon DEF Init
<1>3. HInv(EmptyStore(db), [f \in Files |-> Closed], db, {}) BY FreshInv, Zenon
<1>4. HInv(store, open, latest, raced) BY <1>1, <1>2, <1>3, Zenon
<1>5. numbered \in BOOLEAN /\ saved \in BOOLEAN BY Zenon DEF Init
<1> QED BY <1>4, <1>5, Zenon DEF HandlersInv

LEMMA NextHandlersInv == HandlersInv /\ [Next]_vars => HandlersInv'
<1> SUFFICES ASSUME HandlersInv, [Next]_vars PROVE HandlersInv'
  BY Zenon
<1>0. HInv(store, open, latest, raced) BY Zenon DEF HandlersInv
<1>1. ASSUME NEW k \in Keys, GetAttrStep(k) PROVE HandlersInv'
  <2> DEFINE su == GetAttr(store, k)
  <2>1. Exists(store, k) /\ Leave(su, open, latest) BY <1>1, Zenon DEF GetAttrStep
  <2>2. WorksOn({k}, store, open, latest, raced, su, open, latest)
    BY <1>0, <2>1, GetAttrWorks, GroundsHold, Zenon
  <2> HIDE DEF su
  <2> QED BY <2>1, <2>2, LeaveStep, Zenon
<1>2. ASSUME NEW k \in Keys, UnlinkStep(k) PROVE HandlersInv'
  <2> DEFINE su == Unlink(store, k)
             content == [latest EXCEPT ![k] = NoValue]
  <2>1. Exists(store, k) /\ Leave(su, open, content) BY <1>2, Zenon DEF UnlinkStep
  <2>2. WorksOn({k}, store, open, latest, raced, su, open, content)
    BY <1>0, <2>1, UnlinkWorks, GroundsHold, Zenon
  <2> HIDE DEF su, content
  <2> QED BY <2>1, <2>2, LeaveStep, Zenon
<1>3. ASSUME NEW k \in Keys, NEW v \in Versions, SetAttrStep(k, v) PROVE HandlersInv'
  <2> DEFINE su == SetAttr(store, k, v)
             content == [latest EXCEPT ![k] = v]
  <2>1. Exists(store, k) /\ Leave(su, open, content) BY <1>3, Zenon DEF SetAttrStep
  <2>2. WorksOn({k}, store, open, latest, raced, su, open, content)
    BY <1>0, <2>1, SetAttrWorks, GroundsHold, Zenon
  <2> HIDE DEF su, content
  <2> QED BY <2>1, <2>2, LeaveStep, Zenon
<1>4. ASSUME NEW k \in Keys, NEW v \in Versions, MakeStep(k, v) PROVE HandlersInv'
  <2> DEFINE su == Make(store, k, v)
             content == [latest EXCEPT ![k] = v]
  <2>1. ~Exists(store, k) /\ LeaveNumbered(su, open, content, TRUE) BY <1>4, Zenon DEF MakeStep
  <2>2. WorksOn({k}, store, open, latest, raced, su, open, content)
    BY <1>0, <2>1, MakeWorks, GroundsHold, Zenon
  <2> HIDE DEF su, content
  <2> QED BY <2>1, <2>2, LeaveNumberedStep, Zenon
<1>5. ASSUME NEW old \in Keys, NEW new \in Keys, RenameStep(old, new) PROVE HandlersInv'
  <2> DEFINE su == Rename(store, old, new)
             content == [latest EXCEPT ![new] = Found(store, old), ![old] = NoValue]
             K == {old, new}
  <2>1. old # new /\ Exists(store, old) /\ Leave(su, open, content) BY <1>5, Zenon DEF RenameStep
  <2>2. WorksOn(K, store, open, latest, raced, su, open, content)
    BY <1>0, <2>1, RenameWorks, Zenon
  <2> HIDE DEF su, content, K
  <2> QED BY <2>1, <2>2, LeaveStep, Zenon
<1>6. ASSUME NEW f \in Files, NEW k \in Keys, NEW how \in {Reading, Writing, Listing},
             OpenStep(f, k, how)
      PROVE  HandlersInv'
  <2> DEFINE mode == IF how = Writing THEN INODE_WRITE ELSE INODE_READ
             su == Open(store, k, mode)
             files == [open EXCEPT ![f] = [handle |-> Handle(store, k), how |-> how]]
  <2>1. open[f].how = NotOpen /\ Exists(store, k) /\ Leave(su, files, latest)
    BY <1>6, Zenon DEF OpenStep, OpenFiles
  <2>2. WorksOn({k}, store, open, latest, raced, su, files, latest)
    BY <1>0, <2>1, OpenWorks, Zenon, GroundsHold
  <2> HIDE DEF su, files
  <2> QED BY <2>1, <2>2, LeaveStep, Zenon
<1>7. ASSUME NEW f \in Files, NEW v \in Versions, WriteStep(f, v) PROVE HandlersInv'
  <2> DEFINE h == open[f].handle
             k == store.shard.key[h]
             su == Write(store, h, v)
             content == [latest EXCEPT ![k] = v]
  <2>1. open[f].how = Writing /\ Leave(su, open, content) BY <1>7, Zenon DEF WriteStep, HandleKey
  <2>2. WorksOn({k}, store, open, latest, raced, su, open, content)
    BY <1>0, <2>1, WriteWorks, GroundsHold, Zenon
  <2> HIDE DEF su, content, k
  <2> QED BY <2>1, <2>2, LeaveStep, Zenon
<1>8. ASSUME NEW f \in Files, ReleaseStep(f) PROVE HandlersInv'
  <2> DEFINE h == open[f].handle
             k == store.shard.key[h]
             su == Close(store, h)
             files == [open EXCEPT ![f] = Closed]
  <2>1. open[f].how \in {Reading, Writing} /\ Leave(su, files, latest) BY <1>8, Zenon DEF ReleaseStep
  <2>2. WorksOn({k}, store, open, latest, raced, su, files, latest)
    BY <1>0, <2>1, CloseWorks, GroundsHold, Zenon
  <2> HIDE DEF su, files, k
  <2> QED BY <2>1, <2>2, LeaveStep, Zenon
<1>9. ASSUME NEW f \in Files, ReleaseDirStep(f) PROVE HandlersInv'
  <2> DEFINE h == open[f].handle
             k == store.shard.key[h]
             su == CloseDir(store, h)
             files == [open EXCEPT ![f] = Closed]
  <2>1. open[f].how = Listing /\ Leave(su, files, latest) BY <1>9, Zenon DEF ReleaseDirStep
  <2>2. WorksOn({k}, store, open, latest, raced, su, files, latest)
    BY <1>0, <2>1, CloseDirWorks, GroundsHold, Zenon
  <2> HIDE DEF su, files, k
  <2> QED BY <2>1, <2>2, LeaveStep, Zenon
<1>10. CASE Crash
  <2>1. saved \in BOOLEAN /\ saved' = saved /\ MountOn(store.db, saved)
    BY <1>10, Zenon DEF Crash, HandlersInv
  <2>2. saved' \in BOOLEAN BY <2>1, Zenon
  <2> QED BY <2>1, <2>2, RestartStep, Zenon
<1>11. CASE Remount
  <2>1. Destroyed(store).db = store.db BY <1>0, DestroyedSame, Zenon
  <2>2. /\ numbered \in BOOLEAN /\ saved' = numbered
        /\ MountOn(Destroyed(store).db, numbered)
    BY <1>11, Zenon DEF Remount, HandlersInv
  <2>3. saved' \in BOOLEAN BY <2>2, Zenon
  <2> QED BY <2>1, <2>2, <2>3, RestartStep, Zenon
<1>12. CASE UNCHANGED vars
  <2>1. /\ store' = store /\ open' = open /\ latest' = latest /\ raced' = raced
        /\ numbered' = numbered /\ saved' = saved
    BY <1>12, Zenon DEF vars
  <2> QED BY <1>0, <2>1, Zenon DEF HandlersInv
<1> QED BY <1>1, <1>2, <1>3, <1>4, <1>5, <1>6, <1>7, <1>8, <1>9, <1>10, <1>11, <1>12, SMTT(30) DEF Next

(* The invariant says what the run checks.                                  *)
LEMMA HandlersInvEnough == HandlersInv => TypeOK /\ CacheSound
<1> SUFFICES ASSUME HandlersInv PROVE TypeOK /\ CacheSound
  BY Zenon
<1> DEFINE p == Held(open)
           c == store.shard
<1>0. HInv(store, open, latest, raced) BY Zenon DEF HandlersInv
<1>1. /\ Good(store, p) /\ OpenOK(open) /\ ModesOK(store, open)
      /\ latest \in [Keys -> Values] /\ raced \subseteq Keys
      /\ \A k \in Keys \ raced : KeyHolds(store, latest[k], k)
  BY <1>0, Zenon DEF HInv
<1>2. store \in StoreType /\ Sound(c, p) BY <1>1, Zenon DEF Good
<1>3. TypeOK
  <2>1. /\ store.shard \in ShardType /\ store.value \in [Handles -> Values]
        /\ store.mode \in [Handles -> Modes] /\ store.db \in [Keys -> Values]
    BY <1>2, StoreFields, Zenon
  <2>2. numbered \in BOOLEAN /\ saved \in BOOLEAN BY Zenon DEF HandlersInv
  <2> QED BY <1>1, <2>1, <2>2, Zenon DEF TypeOK, Values, Modes, OpenOK, OpenType
<1>4. HandlesBalanced
  <2> SUFFICES ASSUME NEW h \in Handles
               PROVE  c.refs[h] = Cardinality({f \in Files : open[f].handle = h})
                                  + IF h \in Cached(c) THEN 1 ELSE 0
    BY Zenon DEF HandlesBalanced
  <2>1. c.refs[h] = p[h] + IF h \in Cached(c) THEN 1 ELSE 0 BY <1>2, Zenon DEF Sound, RefsCount
  <2>2. p[h] = Cardinality({f \in Files : open[f].handle = h}) BY Zenon DEF Held
  <2> QED BY <2>1, <2>2, Zenon
<1>5. Coherent BY <1>1, Zenon DEF Coherent, KeyHolds, Found
<1>6. DurableWhenClosed
  <2> SUFFICES ASSUME NEW k \in Keys \ raced, \A f \in OpenFiles : HandleKey(open[f].handle) # k
               PROVE  store.db[k] = latest[k]
    BY Zenon DEF DurableWhenClosed
  <2>1. \A f \in Files : open[f].how # NotOpen => store.shard.key[open[f].handle] # k
    BY Zenon DEF OpenFiles, HandleKey
  <2> QED BY <1>0, <2>1, ClosedIsStored
<1>7. CachedUnopenedIsClean BY <1>1, Zenon DEF CachedUnopenedIsClean, ModesOK
<1> QED BY <1>3, <1>4, <1>5, <1>6, <1>7, Zenon DEF CacheSound

(***************************************************************************)
(* The inode cache under the calls of class TableFS, for any number of     *)
(* records, handles, open files and capacity: every handle a call takes is *)
(* given back on every path; until an open handle is pushed out of the     *)
(* cache the cache and the store answer with the last content; a closed    *)
(* file is in the store, so that a crash loses nothing of it; and the LRU  *)
(* never evicts a handle that still had to be written.                     *)
(***************************************************************************)
THEOREM InodeCacheSafety == Spec => [](TypeOK /\ CacheSound)
<1>1. Init => HandlersInv BY InitHandlersInv, Zenon
<1>2. HandlersInv /\ [Next]_vars => HandlersInv' BY NextHandlersInv, Zenon
<1>3. HandlersInv => TypeOK /\ CacheSound BY HandlersInvEnough, Zenon
<1> QED BY <1>1, <1>2, <1>3, PTL DEF Spec

(* Its first part: GetAttr, Open, Write, Close, Rename and the other calls  *)
(* leave exactly the references of the cache and of the open files.         *)
THEOREM HandlesReleased == Spec => []HandlesBalanced
<1>1. CacheSound => HandlesBalanced BY Zenon DEF CacheSound
<1> QED BY <1>1, InodeCacheSafety, PTL

(* Its second part: what a call finds under a key through the cache and the *)
(* store is what the last completed call left there.                        *)
THEOREM CacheCoherent == Spec => []Coherent
<1>1. CacheSound => Coherent BY Zenon DEF CacheSound
<1> QED BY <1>1, InodeCacheSafety, PTL

(* Its third part: after the last Close of a file the metadata store holds  *)
(* the latest content of its record.                                        *)
THEOREM CloseIsDurable == Spec => []DurableWhenClosed
<1>1. CacheSound => DurableWhenClosed BY Zenon DEF CacheSound
<1> QED BY <1>1, InodeCacheSafety, PTL
=============================================================================
