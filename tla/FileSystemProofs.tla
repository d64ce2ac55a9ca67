-------------------------- MODULE FileSystemProofs ---------------------------
(***************************************************************************)
(* Proofs about two components of the file system that share no state: the *)
(* dentry cache, for every set of keys, inode numbers and list nodes and   *)
(* every maxsize; and the data of a file, for every threshold, every set   *)
(* of bytes and every bound on the sizes.                                  *)
(***************************************************************************)
EXTENDS DentryCache, FileData

-----------------------------------------------------------------------------
(* The dentry cache *)

(* push_front moves every node one position back.                          *)
LEMMA PushFrontProperties ==
  ASSUME NEW list \in Seq(Nodes), NEW node \in Nodes
  PROVE  /\ <<node>> \o list \in Seq(Nodes)
         /\ Len(<<node>> \o list) = Len(list) + 1
         /\ (<<node>> \o list)[1] = node
         /\ \A i \in 2 .. Len(list) + 1 : (<<node>> \o list)[i] = list[i - 1]
<1>1. <<node>> \in Seq(Nodes) /\ Len(<<node>>) = 1 /\ <<node>>[1] = node
  OBVIOUS
<1>2. Len(list) \in Nat BY LenProperties
<1> QED BY <1>1, <1>2, ConcatProperties

(* Find's push_front and erase: the nodes in front of the found one move   *)
(* back by one, the others keep their place.                               *)
MovedToFront(list, at, node) == <<node>> \o Unlinked(list, list[at])

LEMMA MoveToFrontProperties ==
  ASSUME NEW list \in Seq(Nodes), Distinct(list), NEW at \in DOMAIN list,
         NEW node \in Nodes \ Range(list)
  PROVE  /\ MovedToFront(list, at, node) \in Seq(Nodes)
         /\ Len(MovedToFront(list, at, node)) = Len(list)
         /\ MovedToFront(list, at, node)[1] = node
         /\ \A i \in 2 .. Len(list) :
              MovedToFront(list, at, node)[i] = IF i <= at THEN list[i - 1] ELSE list[i]
         /\ Distinct(MovedToFront(list, at, node))
<1> DEFINE rest == Unlinked(list, list[at])
           moved == MovedToFront(list, at, node)
<1>1. /\ Len(list) \in Nat
      /\ DOMAIN list = 1 .. Len(list)
      /\ at \in 1 .. Len(list)
      /\ node \in Nodes
  BY LenProperties
<1>2. /\ rest \in Seq(Nodes)
      /\ Len(rest) = Len(list) - 1
      /\ \A i \in 1 .. Len(list) - 1 :
           rest[i] = IF i < at THEN list[i] ELSE list[i + 1]
  BY UnlinkedProperties
<1>3. moved = <<node>> \o rest
  BY DEF MovedToFront
<1> HIDE DEF rest, moved
<1>4. /\ moved \in Seq(Nodes)
      /\ Len(moved) = Len(list)
      /\ moved[1] = node
      /\ \A i \in 2 .. Len(list) :
           moved[i] = IF i <= at THEN list[i - 1] ELSE list[i]
  <2>1. /\ moved \in Seq(Nodes)
        /\ Len(moved) = Len(rest) + 1
        /\ moved[1] = node
        /\ \A i \in 2 .. Len(rest) + 1 : moved[i] = rest[i - 1]
    BY <1>1, <1>2, <1>3, PushFrontProperties, Zenon
  <2>2. Len(rest) + 1 = Len(list) BY <1>1, <1>2
  <2>3. ASSUME NEW i \in 2 .. Len(list)
        PROVE  moved[i] = IF i <= at THEN list[i - 1] ELSE list[i]
    <3>1. i - 1 \in 1 .. Len(list) - 1 /\ (i - 1 < at <=> i <= at) /\ (i - 1) + 1 = i
      BY <1>1
    <3>2. moved[i] = rest[i - 1] BY <2>1, <2>2, <2>3, Zenon
    <3>3. rest[i - 1] = IF i - 1 < at THEN list[i - 1] ELSE list[(i - 1) + 1]
      BY <1>2, <3>1, Zenon
    <3> QED BY <3>1, <3>2, <3>3, Zenon
  <2> QED BY <2>1, <2>2, <2>3, Zenon
<1>5. \A i \in 1 .. Len(list) : list[i] # node
  BY <1>1 DEF Range
<1>6. Distinct(moved)
  <2>1. DOMAIN moved = 1 .. Len(list) BY <1>4, LenProperties
  <2> SUFFICES ASSUME NEW i \in 1 .. Len(list), NEW j \in 1 .. Len(list),
                      moved[i] = moved[j]
               PROVE  i = j
    BY <2>1 DEF Distinct
  <2>2. CASE i = 1 \/ j = 1 BY <1>1, <1>4, <1>5, <2>2
  <2>3. CASE i # 1 /\ j # 1
    <3>1. \E m, n \in 1 .. Len(list) :
             /\ m # at /\ n # at
             /\ m = (IF i <= at THEN i - 1 ELSE i)
             /\ n = (IF j <= at THEN j - 1 ELSE j)
             /\ list[m] = list[n]
      BY <1>1, <1>4, <2>3
    <3>2. PICK m, n \in 1 .. Len(list) :
             /\ m # at /\ n # at
             /\ m = (IF i <= at THEN i - 1 ELSE i)
             /\ n = (IF j <= at THEN j - 1 ELSE j)
             /\ list[m] = list[n]
      BY <3>1
    <3>3. m = n BY <1>1, <3>2 DEF Distinct
    <3> QED BY <1>1, <2>3, <3>2, <3>3
  <2> QED BY <2>2, <2>3
<1> QED BY <1>4, <1>6 DEF moved

-----------------------------------------------------------------------------
(* The inductive invariant: the safety properties are inductive together.  *)
IInv == TypeOK /\ NoDanglingIterator /\ ListBounded /\ LookupIsNewest

LEMMA InitIInv == Init => IInv
<1> SUFFICES ASSUME Init PROVE IInv
  OBVIOUS
<1>1. cache \in Seq(Nodes) /\ Len(cache) = 0 /\ DOMAIN cache = {}
  BY DEF Init
<1>2. TypeOK BY <1>1, SentinelAssumption DEF Init, TypeOK
<1>3. NoDanglingIterator BY DEF Init, NoDanglingIterator
<1>4. ListBounded BY <1>1, MaxSizeAssumption DEF ListBounded, Distinct
<1>5. LookupIsNewest BY <1>1 DEF LookupIsNewest
<1> QED BY <1>2, <1>3, <1>4, <1>5 DEF IInv

LEMMA HitFindIInv ==
  ASSUME IInv, NEW k \in Keys, HitFind(k)
  PROVE  IInv'
<1>1. PICK node \in Nodes \ Range(cache) :
        /\ cache' = <<node>> \o Unlinked(cache, lookup[k])
        /\ entry' = [entry EXCEPT ![node] = entry[lookup[k]]]
        /\ lookup' = [lookup EXCEPT ![k] = node]
  BY DEF HitFind, FreshNodes
<1>2. /\ cache \in Seq(Nodes) /\ Distinct(cache)
      /\ Len(cache) \in Nat /\ DOMAIN cache = 1 .. Len(cache)
      /\ entry \in [Nodes -> [key : Keys, inode : Inodes]]
      /\ lookup \in [Keys -> Nodes \cup {NoNode}]
      /\ lookup[k] # NoNode
  BY LenProperties DEF IInv, TypeOK, ListBounded, Distinct, HitFind
<1>3. PICK at \in DOMAIN cache : cache[at] = lookup[k]
  BY <1>2 DEF IInv, NoDanglingIterator, Range
<1>4. /\ cache' \in Seq(Nodes)
      /\ Len(cache') = Len(cache)
      /\ DOMAIN cache' = 1 .. Len(cache)
      /\ cache'[1] = node
      /\ \A i \in 2 .. Len(cache) :
           cache'[i] = IF i <= at THEN cache[i - 1] ELSE cache[i]
      /\ Distinct(cache')
  <2>1. cache' = MovedToFront(cache, at, node) BY <1>1, <1>3 DEF MovedToFront
  <2> DEFINE moved == MovedToFront(cache, at, node)
  <2>2. /\ moved \in Seq(Nodes)
        /\ Len(moved) = Len(cache)
        /\ moved[1] = node
        /\ \A i \in 2 .. Len(cache) :
             moved[i] = IF i <= at THEN cache[i - 1] ELSE cache[i]
        /\ Distinct(moved)
    BY <1>2, MoveToFrontProperties
  <2>3. /\ cache' \in Seq(Nodes)
        /\ Len(cache') = Len(cache)
        /\ cache'[1] = node
        /\ \A i \in 2 .. Len(cache) :
             cache'[i] = IF i <= at THEN cache[i - 1] ELSE cache[i]
        /\ Distinct(cache')
    BY <2>1, <2>2
  <2>4. DOMAIN cache' = 1 .. Len(cache) BY <2>3, LenProperties
  <2> QED BY <2>3, <2>4
<1>5. \A i \in 1 .. Len(cache) : cache[i] # node /\ cache[i] \in Nodes
  BY <1>2 DEF Range
<1>6. /\ entry[lookup[k]].key = k
      /\ entry'[node] = entry[lookup[k]]
      /\ \A n \in Nodes : n # node => entry'[n] = entry[n]
      /\ lookup[k] \in Nodes
  BY <1>1, <1>2, <1>5 DEF IInv, NoDanglingIterator
<1>7. TypeOK'
  <2>1. entry' \in [Nodes -> [key : Keys, inode : Inodes]] BY <1>1, <1>2, <1>6
  <2>2. lookup' \in [Keys -> Nodes \cup {NoNode}] BY <1>1, <1>2
  <2>3. call' \in {<<>>} \cup {"Find", "Insert", "Evict"} \X Keys \X (Inodes \cup {NoInode})
    BY <1>2, <1>6 DEF HitFind
  <2> QED BY <1>4, <2>1, <2>2, <2>3 DEF TypeOK
<1>8. NoDanglingIterator'
  <2> SUFFICES ASSUME NEW q \in Keys, lookup'[q] # NoNode
               PROVE  lookup'[q] \in Range(cache') /\ entry'[lookup'[q]].key = q
    BY DEF NoDanglingIterator
  <2>1. CASE q = k
    <3>1. lookup'[q] = node BY <1>1, <1>2, <2>1
    <3>2. 1 \in DOMAIN cache' BY <1>2, <1>3, <1>4
    <3>3. node \in Range(cache') BY <1>4, <3>2, Zenon DEF Range
    <3> QED BY <1>6, <2>1, <3>1, <3>3
  <2>2. CASE q # k
    <3>1. lookup'[q] = lookup[q] BY <1>1, <1>2, <2>2
    <3>2. PICK m \in 1 .. Len(cache) : cache[m] = lookup[q]
      BY <1>2, <3>1 DEF IInv, NoDanglingIterator, Range
    <3>3. entry[lookup[q]].key = q BY <3>1 DEF IInv, NoDanglingIterator
    <3>4. m # at BY <1>3, <1>6, <2>2, <3>2, <3>3
    <3>5. \E i \in 2 .. Len(cache) : cache'[i] = cache[m]
      <4>1. CASE m < at
        <5>1. m + 1 \in 2 .. Len(cache) /\ m + 1 <= at /\ (m + 1) - 1 = m
          BY <1>2, <4>1
        <5> QED BY <1>4, <5>1
      <4>2. CASE m > at
        <5>1. m \in 2 .. Len(cache) /\ ~(m <= at) BY <1>2, <4>2
        <5> QED BY <1>4, <5>1
      <4> QED BY <1>2, <3>4, <4>1, <4>2
    <3>6. lookup[q] \in Range(cache') BY <1>2, <1>4, <3>2, <3>5 DEF Range
    <3>7. lookup[q] # node /\ lookup[q] \in Nodes BY <1>5, <3>2
    <3> QED BY <1>6, <3>1, <3>3, <3>6, <3>7
  <2> QED BY <2>1, <2>2
<1>9. ListBounded'
  BY <1>4 DEF IInv, ListBounded, Distinct
<1>10. LookupIsNewest'
  <2> SUFFICES ASSUME NEW q \in Keys, NEW i \in 1 .. Len(cache), NEW j \in 1 .. Len(cache),
                      lookup'[q] = cache'[i], entry'[cache'[j]].key = q
               PROVE  i <= j
    BY <1>4 DEF LookupIsNewest
  <2>1. CASE q = k
    <3>1. cache'[i] = cache'[1] BY <1>1, <1>2, <1>4, <2>1
    <3>2. 1 \in DOMAIN cache' /\ i \in DOMAIN cache' BY <1>2, <1>3, <1>4
    <3>3. i = 1 BY <1>4, <3>1, <3>2, Zenon DEF Distinct
    <3> QED BY <1>2, <3>3
  <2>2. CASE q # k
    <3>1. lookup'[q] = lookup[q] BY <1>1, <1>2, <2>2
    <3>2. j # 1 BY <1>4, <1>6, <2>2
    <3>3. CASE i = 1
      <4>1. lookup[q] = node BY <1>4, <3>1, <3>3
      <4>2. FALSE BY <1>1, <1>5, <4>1, SentinelAssumption DEF IInv, NoDanglingIterator
      <4> QED BY <4>2
    <3>4. CASE i # 1
      <4> DEFINE m == IF i <= at THEN i - 1 ELSE i
                 n == IF j <= at THEN j - 1 ELSE j
      <4>1. /\ m \in 1 .. Len(cache) /\ cache'[i] = cache[m]
            /\ n \in 1 .. Len(cache) /\ cache'[j] = cache[n]
            /\ m # at /\ n # at
        BY <1>2, <1>4, <3>2, <3>4
      <4>2. entry[cache[n]].key = q BY <1>5, <1>6, <4>1
      <4>3. m <= n
        BY <1>2, <3>1, <4>1, <4>2 DEF IInv, LookupIsNewest
      <4> QED BY <1>2, <4>1, <4>3
    <3> QED BY <3>3, <3>4
  <2> QED BY <2>1, <2>2
<1> QED BY <1>7, <1>8, <1>9, <1>10 DEF IInv

LEMMA InsertIInv ==
  ASSUME IInv, NEW k \in Keys, NEW v \in Inodes, Insert(k, v)
  PROVE  IInv'
<1> DEFINE List(node) == <<node>> \o cache
           Ent(node) == [entry EXCEPT ![node] = [key |-> k, inode |-> v]]
           Map1(node) == [lookup EXCEPT ![k] = node]
           n == Len(cache)
<1>1. PICK node \in Nodes \ Range(cache) :
        /\ call' = <<"Insert", k, v>>
        /\ entry' = Ent(node)
        /\ \/ /\ Len(List(node)) <= MaxSize
              /\ cache' = List(node)
              /\ lookup' = Map1(node)
           \/ /\ Len(List(node)) > MaxSize
              /\ cache' = SubSeq(List(node), 1, Len(List(node)) - 1)
              /\ lookup' = [Map1(node) EXCEPT
                              ![Ent(node)[List(node)[Len(List(node))]].key] = NoNode]
  BY Zenon DEF Insert, FreshNodes
<1> DEFINE list == List(node)
           ent == Ent(node)
           map == Map1(node)
<1>2. /\ cache \in Seq(Nodes) /\ Distinct(cache)
      /\ n \in Nat /\ DOMAIN cache = 1 .. n
      /\ n <= MaxSize
      /\ entry \in [Nodes -> [key : Keys, inode : Inodes]]
      /\ lookup \in [Keys -> Nodes \cup {NoNode}]
      /\ node \in Nodes
  BY LenProperties DEF IInv, TypeOK, ListBounded, Distinct
<1>3. /\ list \in Seq(Nodes)
      /\ Len(list) = n + 1
      /\ list[1] = node
      /\ \A i \in 2 .. n + 1 : list[i] = cache[i - 1]
  BY <1>2, PushFrontProperties
<1>4. /\ ent \in [Nodes -> [key : Keys, inode : Inodes]]
      /\ ent[node].key = k
      /\ \A m \in Nodes : m # node => ent[m] = entry[m]
      /\ map \in [Keys -> Nodes \cup {NoNode}]
      /\ map[k] = node
      /\ \A q \in Keys : q # k => map[q] = lookup[q]
  BY <1>2
<1>5. \A i \in 1 .. n : cache[i] # node /\ cache[i] \in Nodes
  BY <1>2 DEF Range
<1> HIDE DEF n, List, Ent, Map1, list, ent, map
(* The list after the push, before the possible pop.                       *)
<1>6. \A i, j \in 1 .. n + 1 : list[i] = list[j] => i = j
  <2> SUFFICES ASSUME NEW i \in 1 .. n + 1, NEW j \in 1 .. n + 1, list[i] = list[j]
               PROVE  i = j
    OBVIOUS
  <2>1. CASE i = 1 \/ j = 1 BY <1>2, <1>3, <1>5, <2>1
  <2>2. CASE i # 1 /\ j # 1
    <3>1. /\ i - 1 \in 1 .. n /\ j - 1 \in 1 .. n
          /\ cache[i - 1] = cache[j - 1]
      BY <1>2, <1>3, <2>2
    <3>2. i - 1 = j - 1 BY <1>2, <3>1, Zenon DEF Distinct
    <3> QED BY <1>2, <3>2
  <2> QED BY <2>1, <2>2
<1>7. \A q \in Keys : map[q] # NoNode =>
        /\ \E i \in 1 .. n + 1 : list[i] = map[q]
        /\ ent[map[q]].key = q
  <2> SUFFICES ASSUME NEW q \in Keys, map[q] # NoNode
               PROVE  /\ \E i \in 1 .. n + 1 : list[i] = map[q]
                      /\ ent[map[q]].key = q
    OBVIOUS
  <2>1. CASE q = k
    <3>1. 1 \in 1 .. n + 1 BY <1>2
    <3> QED BY <1>3, <1>4, <2>1, <3>1
  <2>2. CASE q # k
    <3>1. map[q] = lookup[q] BY <1>4, <2>2
    <3>2. PICK m \in 1 .. n : cache[m] = lookup[q]
      BY <1>2, <3>1 DEF IInv, NoDanglingIterator, Range
    <3>3. m + 1 \in 2 .. n + 1 /\ m + 1 \in 1 .. n + 1 /\ (m + 1) - 1 = m BY <1>2
    <3>4. list[m + 1] = map[q] BY <1>3, <3>1, <3>2, <3>3
    <3>5. ent[map[q]].key = q
      BY <1>4, <1>5, <3>1, <3>2 DEF IInv, NoDanglingIterator
    <3> QED BY <3>3, <3>4, <3>5
  <2> QED BY <2>1, <2>2
<1>8. \A q \in Keys : \A i, j \in 1 .. n + 1 :
        map[q] = list[i] /\ ent[list[j]].key = q => i <= j
  <2> SUFFICES ASSUME NEW q \in Keys, NEW i \in 1 .. n + 1, NEW j \in 1 .. n + 1,
                      map[q] = list[i], ent[list[j]].key = q
               PROVE  i <= j
    OBVIOUS
  <2>1. CASE q = k
    <3>1. 1 \in 1 .. n + 1 /\ list[i] = list[1] BY <1>2, <1>3, <1>4, <2>1
    <3>2. i = 1 BY <1>6, <3>1, Zenon
    <3> QED BY <1>2, <3>2
  <2>2. CASE q # k
    <3>1. map[q] = lookup[q] BY <1>4, <2>2
    <3>2. j # 1 BY <1>3, <1>4, <2>2
    <3>3. i # 1
      <4> SUFFICES ASSUME i = 1 PROVE FALSE
        OBVIOUS
      <4>1. lookup[q] = node BY <1>3, <3>1
      <4>2. lookup[q] \in Range(cache)
        BY <1>2, <4>1, SentinelAssumption DEF IInv, NoDanglingIterator
      <4> QED BY <4>1, <4>2
    <3>4. /\ i - 1 \in 1 .. n /\ j - 1 \in 1 .. n
          /\ list[i] = cache[i - 1] /\ list[j] = cache[j - 1]
      BY <1>2, <1>3, <3>2, <3>3
    <3>5. entry[cache[j - 1]].key = q BY <1>4, <1>5, <3>4
    <3>6. i - 1 <= j - 1
      BY <1>2, <3>1, <3>4, <3>5, Zenon DEF IInv, LookupIsNewest
    <3> QED BY <1>2, <3>6
  <2> QED BY <2>1, <2>2
<1>9. /\ call' \in {<<>>} \cup {"Find", "Insert", "Evict"} \X Keys \X (Inodes \cup {NoInode})
      /\ entry' = ent
  BY <1>1 DEF ent
<1>10. CASE /\ Len(list) <= MaxSize
            /\ cache' = list
            /\ lookup' = map
  <2>1. DOMAIN cache' = 1 .. n + 1 /\ Len(cache') = n + 1
    BY <1>3, <1>10, LenProperties
  <2>2. TypeOK' BY <1>3, <1>4, <1>9, <1>10 DEF TypeOK
  <2>3. NoDanglingIterator' BY <1>7, <1>9, <1>10, <2>1 DEF NoDanglingIterator, Range
  <2>4. ListBounded' BY <1>3, <1>6, <1>10, <2>1 DEF ListBounded, Distinct
  <2>5. LookupIsNewest' BY <1>8, <1>9, <1>10, <2>1 DEF LookupIsNewest
  <2> QED BY <2>2, <2>3, <2>4, <2>5 DEF IInv
<1>11. CASE /\ Len(list) > MaxSize
            /\ cache' = SubSeq(list, 1, Len(list) - 1)
            /\ lookup' = [map EXCEPT ![ent[list[Len(list)]].key] = NoNode]
  <2> DEFINE victim == ent[list[n + 1]].key
  <2>1. list[n + 1] \in Nodes /\ victim \in Keys
    <3>1. n + 1 \in 1 .. Len(list) BY <1>2, <1>3
    <3>2. list[n + 1] \in Nodes BY <1>3, <3>1, ElementOfSeq
    <3> QED BY <1>4, <3>2
  <2>2. /\ cache' \in Seq(Nodes) /\ Len(cache') = n
        /\ DOMAIN cache' = 1 .. n
        /\ \A i \in 1 .. n : cache'[i] = list[i]
    <3>1. \A i \in 1 .. n : list[i] \in Nodes BY <1>2, <1>3, ElementOfSeq
    <3>2. cache' = SubSeq(list, 1, n) BY <1>2, <1>3, <1>11
    <3>3. /\ SubSeq(list, 1, n) \in Seq(Nodes)
          /\ Len(SubSeq(list, 1, n)) = n
          /\ \A i \in 1 .. n : SubSeq(list, 1, n)[i] = list[i]
      BY <1>2, <3>1, SubSeqProperties
    <3> QED BY <3>2, <3>3, LenProperties
  <2>3. /\ lookup' \in [Keys -> Nodes \cup {NoNode}]
        /\ lookup'[victim] = NoNode
        /\ \A q \in Keys : q # victim => lookup'[q] = map[q]
    BY <1>3, <1>4, <1>11, <2>1
  <2> HIDE DEF victim
  <2>4. TypeOK' BY <1>4, <1>9, <2>2, <2>3 DEF TypeOK
  <2>5. NoDanglingIterator'
    <3> SUFFICES ASSUME NEW q \in Keys, lookup'[q] # NoNode
                 PROVE  lookup'[q] \in Range(cache') /\ entry'[lookup'[q]].key = q
      BY DEF NoDanglingIterator
    <3>1. q # victim /\ lookup'[q] = map[q] BY <2>3
    <3>2. PICK i \in 1 .. n + 1 : list[i] = map[q] BY <1>7, <3>1
    <3>3. ent[map[q]].key = q BY <1>7, <3>1
    <3>4. i # n + 1 BY <3>1, <3>2, <3>3 DEF victim
    <3>5. i \in 1 .. n BY <1>2, <3>4
    <3> QED BY <1>9, <2>2, <3>1, <3>2, <3>3, <3>5 DEF Range
  <2>6. ListBounded'
    <3>1. \A i \in 1 .. n : i \in 1 .. n + 1 BY <1>2
    <3> QED BY <1>2, <1>6, <2>2, <3>1 DEF ListBounded, Distinct
  <2>7. LookupIsNewest'
    <3> SUFFICES ASSUME NEW q \in Keys, NEW i \in 1 .. n, NEW j \in 1 .. n,
                        lookup'[q] = cache'[i], entry'[cache'[j]].key = q
                 PROVE  i <= j
      BY <2>2 DEF LookupIsNewest
    <3>1. i \in 1 .. n + 1 /\ j \in 1 .. n + 1 BY <1>2
    <3>2. list[i] \in Nodes BY <1>3, <3>1, ElementOfSeq
    <3>3. q # victim /\ lookup'[q] = map[q]
      BY <2>2, <2>3, <3>2, SentinelAssumption
    <3> QED BY <1>8, <1>9, <2>2, <3>1, <3>3
  <2> QED BY <2>4, <2>5, <2>6, <2>7 DEF IInv
<1> QED BY <1>1, <1>10, <1>11 DEF list, ent, map

LEMMA NextIInv == IInv /\ [Next]_vars => IInv'
<1> SUFFICES ASSUME IInv, [Next]_vars PROVE IInv'
  OBVIOUS
<1>1. ASSUME NEW k \in Keys, MissingFind(k) PROVE IInv'
  BY <1>1 DEF MissingFind, IInv, TypeOK, NoDanglingIterator, ListBounded, LookupIsNewest
<1>2. ASSUME NEW k \in Keys, HitFind(k) PROVE IInv'
  BY <1>2, HitFindIInv
<1>3. ASSUME NEW k \in Keys, Evict(k) PROVE IInv'
  <2>1. /\ lookup \in [Keys -> Nodes \cup {NoNode}]
        /\ lookup' \in [Keys -> Nodes \cup {NoNode}]
        /\ lookup'[k] = NoNode
        /\ \A q \in Keys : q # k => lookup'[q] = lookup[q]
    BY <1>3 DEF Evict, IInv, TypeOK
  <2>2. TypeOK' BY <1>3, <2>1 DEF Evict, IInv, TypeOK
  <2>3. NoDanglingIterator' BY <1>3, <2>1 DEF Evict, IInv, NoDanglingIterator
  <2>4. ListBounded' BY <1>3 DEF Evict, IInv, ListBounded
  <2>5. LookupIsNewest'
    <3>1. \A i \in DOMAIN cache : cache[i] # NoNode
      BY SentinelAssumption DEF IInv, TypeOK
    <3> QED BY <1>3, <2>1, <3>1 DEF Evict, IInv, LookupIsNewest
  <2> QED BY <2>2, <2>3, <2>4, <2>5 DEF IInv
<1>4. ASSUME NEW k \in Keys, NEW v \in Inodes, Insert(k, v) PROVE IInv'
  BY <1>4, InsertIInv
<1>5. CASE UNCHANGED vars
  BY <1>5 DEF vars, IInv, TypeOK, NoDanglingIterator, ListBounded, LookupIsNewest
<1> QED BY <1>1, <1>2, <1>3, <1>4, <1>5 DEF Next, Find

(***************************************************************************)
(* Whatever the sequence of Find, Insert and Evict calls, the variables    *)
(* keep their types, no iterator of the map dangles, the list stays within *)
(* maxsize, and the map points to the newest node of each key.             *)
(***************************************************************************)
THEOREM DentryCacheSafety == Spec => [](TypeOK /\ NoDanglingIterator /\ ListBounded /\ LookupIsNewest)
<1>1. Spec => []IInv BY InitIInv, NextIInv, PTL DEF Spec
<1>2. IInv => TypeOK /\ NoDanglingIterator /\ ListBounded /\ LookupIsNewest
  BY DEF IInv
<1> QED BY <1>1, <1>2, PTL

-----------------------------------------------------------------------------
(* Every step of the cache is a step of the map it stands for.             *)
LEMMA StepRefines == IInv /\ [Next]_vars => [Map!Next]_(Map!mvars)
<1> SUFFICES ASSUME IInv, [Next]_vars PROVE [Map!Next]_(Map!mvars)
  OBVIOUS
<1> USE DEF Map!mvars
<1>0. /\ lookup \in [Keys -> Nodes \cup {NoNode}]
      /\ entry \in [Nodes -> [key : Keys, inode : Inodes]]
      /\ cache \in Seq(Nodes)
      /\ \A q \in Keys : lookup[q] # NoNode => lookup[q] \in Range(cache) /\ lookup[q] \in Nodes
  BY DEF IInv, TypeOK, NoDanglingIterator
<1>1. ASSUME NEW k \in Keys, MissingFind(k) PROVE Map!Find(k)
  BY <1>1 DEF MissingFind, Map!Find, Binding
<1>2. ASSUME NEW k \in Keys, HitFind(k) PROVE Map!Find(k)
  <2>1. PICK node \in Nodes \ Range(cache) :
          /\ entry' = [entry EXCEPT ![node] = entry[lookup[k]]]
          /\ lookup' = [lookup EXCEPT ![k] = node]
    BY <1>2 DEF HitFind, FreshNodes
  <2>2. node # NoNode /\ lookup[k] # NoNode BY <1>2, SentinelAssumption DEF HitFind
  <2>3. ASSUME NEW q \in Keys PROVE Binding'[q] = Binding[q]
    <3>1. CASE q = k BY <1>0, <2>1, <2>2, <3>1 DEF Binding
    <3>2. CASE q # k
      <4>1. lookup'[q] = lookup[q] BY <1>0, <2>1, <3>2
      <4>2. lookup[q] # NoNode => lookup[q] # node BY <1>0, <2>1
      <4> QED BY <1>0, <2>1, <4>1, <4>2 DEF Binding
    <3> QED BY <3>1, <3>2
  <2>4. Binding' = Binding BY <2>3 DEF Binding
  <2>5. call' = <<"Find", k, Binding[k]>> BY <1>2, <2>2 DEF HitFind, Binding
  <2> QED BY <2>4, <2>5 DEF Map!Find
<1>3. ASSUME NEW k \in Keys, Evict(k) PROVE Map!Evict(k)
  BY <1>0, <1>3 DEF Evict, Map!Evict, Binding
<1>4. ASSUME NEW k \in Keys, NEW v \in Inodes, Insert(k, v) PROVE Map!Insert(k, v)
  <2> DEFINE full == [Binding EXCEPT ![k] = v]
  <2>1. PICK node \in Nodes \ Range(cache) :
          /\ call' = <<"Insert", k, v>>
          /\ entry' = [entry EXCEPT ![node] = [key |-> k, inode |-> v]]
          /\ \/ lookup' = [lookup EXCEPT ![k] = node]
             \/ \E list \in Seq(Nodes) :
                  /\ Len(list) \in Nat \ {0}
                  /\ lookup' = [[lookup EXCEPT ![k] = node] EXCEPT
                                 ![entry'[list[Len(list)]].key] = NoNode]
    <3>1. PICK node \in Nodes \ Range(cache) :
        LET list  == <<node>> \o cache
            ent   == [entry EXCEPT ![node] = [key |-> k, inode |-> v]]
            map   == [lookup EXCEPT ![k] = node]
            back  == list[Len(list)]
        IN  /\ call' = <<"Insert", k, v>>
            /\ entry' = ent
            /\ \/ /\ Len(list) <= MaxSize
                  /\ cache' = list
                  /\ lookup' = map
               \/ /\ Len(list) > MaxSize
                  /\ cache' = SubSeq(list, 1, Len(list) - 1)
                  /\ lookup' = [map EXCEPT ![ent[back].key] = NoNode]
      BY <1>4, Zenon DEF Insert, FreshNodes
    <3>2. <<node>> \o cache \in Seq(Nodes) /\ Len(<<node>> \o cache) \in Nat \ {0}
      BY <1>0, LenProperties, PushFrontProperties
    <3> QED BY <3>1, <3>2
  <2>2. node # NoNode /\ node \in Nodes BY SentinelAssumption
  <2>3. ASSUME NEW q \in Keys
        PROVE  full[q] = LET map == [lookup EXCEPT ![k] = node]
                         IN  IF map[q] = NoNode THEN NoInode ELSE entry'[map[q]].inode
    <3>1. CASE q = k BY <1>0, <2>1, <2>2, <3>1 DEF Binding
    <3>2. CASE q # k
      <4>1. lookup[q] # NoNode => lookup[q] # node BY <1>0, <2>1
      <4> QED BY <1>0, <2>1, <3>2, <4>1 DEF Binding
    <3> QED BY <3>1, <3>2
  <2>4. CASE lookup' = [lookup EXCEPT ![k] = node]
    <3>1. Binding' = full BY <2>3, <2>4 DEF Binding
    <3> QED BY <2>1, <3>1 DEF Map!Insert
  <2>5. ASSUME NEW list \in Seq(Nodes), Len(list) \in Nat \ {0},
               lookup' = [[lookup EXCEPT ![k] = node] EXCEPT
                            ![entry'[list[Len(list)]].key] = NoNode]
        PROVE  Map!Insert(k, v)
    <3> DEFINE lost == entry'[list[Len(list)]].key
    <3>1. lost \in Keys
      <4>1. list[Len(list)] \in Nodes BY <2>5, ElementOfSeq
      <4>2. entry' \in [Nodes -> [key : Keys, inode : Inodes]] BY <1>0, <2>1
      <4> QED BY <4>1, <4>2
    <3> HIDE DEF lost
    <3>2. ASSUME NEW q \in Keys PROVE Binding'[q] = [full EXCEPT ![lost] = NoInode][q]
      BY <1>0, <2>2, <2>3, <2>5, <3>1 DEF Binding, lost
    <3>3. Binding' = [full EXCEPT ![lost] = NoInode] BY <3>2 DEF Binding
    <3> QED BY <2>1, <3>1, <3>3 DEF Map!Insert
  <2> QED BY <2>1, <2>4, <2>5
<1>5. CASE UNCHANGED vars BY <1>5 DEF vars, Binding
<1> QED BY <1>1, <1>2, <1>3, <1>4, <1>5 DEF Next, Find, Map!Next

(***************************************************************************)
(* The dentry cache implements the lossy map: a Find never answers with an *)
(* inode number other than that of the latest Insert of the key.           *)
(***************************************************************************)
THEOREM DentryCacheRefinement == Spec => ImplementsMap
<1>1. Init => Map!Init BY DEF Init, Map!Init, Binding
<1>2. Spec => []IInv BY InitIInv, NextIInv, PTL DEF Spec
<1> QED BY <1>1, <1>2, StepRefines, PTL DEF Spec, ImplementsMap, Map!Spec

-----------------------------------------------------------------------------
(* The data of a file *)

Byte == Bytes \cup {Zero}

-----------------------------------------------------------------------------
(* Byte sequences *)

LEMMA FunctionIsSeq ==
  ASSUME NEW S, NEW n \in Nat, NEW f \in [1 .. n -> S]
  PROVE  f \in Seq(S) /\ Len(f) = n
<1>1. f \in Seq(S) BY SeqDef
<1>2. Len(f) \in Nat /\ 1 .. n = 1 .. Len(f) BY <1>1, LenProperties
<1>3. Len(f) = n
  <2>1. CASE n = 0 BY <1>2, <2>1
  <2>2. CASE n > 0 BY <1>2, <2>2
  <2> QED BY <2>1, <2>2
<1> QED BY <1>1, <1>3

LEMMA SequencesEqual ==
  ASSUME NEW S, NEW s \in Seq(S), NEW t \in Seq(S), Len(s) = Len(t),
         \A i \in 1 .. Len(s) : s[i] = t[i]
  PROVE  s = t
  BY LenProperties

LEMMA OverlayProperties ==
  ASSUME NEW bytes \in Seq(Byte), NEW offset \in Nat, NEW data \in Seq(Byte)
  PROVE  /\ Overlay(bytes, offset, data) \in Seq(Byte)
         /\ Len(Overlay(bytes, offset, data)) = Larger(Len(bytes), offset + Len(data))
         /\ \A i \in 1 .. Larger(Len(bytes), offset + Len(data)) :
              Overlay(bytes, offset, data)[i] =
                IF i \in offset + 1 .. offset + Len(data) THEN data[i - offset]
                ELSE IF i <= Len(bytes) THEN bytes[i] ELSE Zero
<1> DEFINE n == Larger(Len(bytes), offset + Len(data))
           At(i) == IF i \in offset + 1 .. offset + Len(data) THEN data[i - offset]
                    ELSE IF i <= Len(bytes) THEN bytes[i] ELSE Zero
<1>1. /\ Len(bytes) \in Nat /\ bytes \in [1 .. Len(bytes) -> Byte]
      /\ Len(data) \in Nat /\ data \in [1 .. Len(data) -> Byte]
  BY LenProperties
<1>2. n \in Nat BY <1>1 DEF Larger
<1>3. ASSUME NEW i \in 1 .. n PROVE At(i) \in Byte
  <2>1. CASE i \in offset + 1 .. offset + Len(data)
    <3>1. i - offset \in 1 .. Len(data) BY <1>1, <2>1
    <3> QED BY <1>1, <2>1, <3>1
  <2>2. CASE i \notin offset + 1 .. offset + Len(data)
    <3>1. i \in 1 .. Len(bytes) \/ ~(i <= Len(bytes)) BY <1>1, <1>2
    <3> QED BY <1>1, <2>2, <3>1 DEF Byte
  <2> QED BY <2>1, <2>2
<1>4. Overlay(bytes, offset, data) = [i \in 1 .. n |-> At(i)] BY DEF Overlay
<1> HIDE DEF n, At
<1>5. [i \in 1 .. n |-> At(i)] \in [1 .. n -> Byte] BY <1>3
<1>6. /\ Overlay(bytes, offset, data) \in Seq(Byte)
      /\ Len(Overlay(bytes, offset, data)) = n
      /\ \A i \in 1 .. n : Overlay(bytes, offset, data)[i] = At(i)
  BY <1>2, <1>4, <1>5, FunctionIsSeq
<1> QED BY <1>6 DEF n, At

LEMMA ResizedProperties ==
  ASSUME NEW bytes \in Seq(Byte), NEW size \in Nat
  PROVE  /\ Resized(bytes, size) \in Seq(Byte)
         /\ Len(Resized(bytes, size)) = size
         /\ \A i \in 1 .. size :
              Resized(bytes, size)[i] = IF i <= Len(bytes) THEN bytes[i] ELSE Zero
<1> DEFINE At(i) == IF i <= Len(bytes) THEN bytes[i] ELSE Zero
<1>1. Len(bytes) \in Nat /\ bytes \in [1 .. Len(bytes) -> Byte] BY LenProperties
<1>2. ASSUME NEW i \in 1 .. size PROVE At(i) \in Byte
  <2>1. i \in 1 .. Len(bytes) \/ ~(i <= Len(bytes)) BY <1>1
  <2> QED BY <1>1, <2>1 DEF Byte
<1>3. Resized(bytes, size) = [i \in 1 .. size |-> At(i)] BY DEF Resized
<1> HIDE DEF At
<1>4. [i \in 1 .. size |-> At(i)] \in [1 .. size -> Byte] BY <1>2
<1>5. /\ Resized(bytes, size) \in Seq(Byte)
      /\ Len(Resized(bytes, size)) = size
      /\ \A i \in 1 .. size : Resized(bytes, size)[i] = At(i)
  BY <1>3, <1>4, FunctionIsSeq
<1> QED BY <1>5 DEF At

(* A sequence resized to its length, or laid over nothing, is itself.       *)
LEMMA ResizedToLength ==
  ASSUME NEW bytes \in Seq(Byte)
  PROVE  Resized(bytes, Len(bytes)) = bytes
<1>1. Len(bytes) \in Nat BY LenProperties
<1>2. /\ Resized(bytes, Len(bytes)) \in Seq(Byte)
      /\ Len(Resized(bytes, Len(bytes))) = Len(bytes)
      /\ \A i \in 1 .. Len(bytes) : Resized(bytes, Len(bytes))[i] = bytes[i]
  BY <1>1, ResizedProperties
<1> QED BY <1>2, SequencesEqual

LEMMA OverlayOfNothing ==
  ASSUME NEW data \in Seq(Byte)
  PROVE  Overlay(<<>>, 0, data) = data
<1> DEFINE At(i) == IF i \in 0 + 1 .. 0 + Len(data) THEN data[i - 0]
                    ELSE IF i <= Len(<<>>) THEN <<>>[i] ELSE Zero
<1>1. Len(data) \in Nat /\ data \in [1 .. Len(data) -> Byte] BY LenProperties
<1>2. Larger(Len(<<>>), 0 + Len(data)) = Len(data) BY <1>1 DEF Larger
<1>3. Overlay(<<>>, 0, data) = [i \in 1 .. Len(data) |-> At(i)] BY <1>2 DEF Overlay
<1>4. \A i \in 1 .. Len(data) : At(i) = data[i] BY <1>1
<1> HIDE DEF At
<1>5. data = [i \in 1 .. Len(data) |-> data[i]] BY <1>1
<1> QED BY <1>3, <1>4, <1>5

(* A pwrite lays its data over the file, unless it writes no bytes past the *)
(* end.                                                                     *)
LEMMA PWriteOverlays ==
  ASSUME NEW bytes \in Seq(Byte), NEW offset \in Nat, NEW data \in Seq(Byte),
         Len(data) # 0 \/ offset <= Len(bytes)
  PROVE  PWrite(bytes, offset, data) = Overlay(bytes, offset, data)
<1>1. CASE Len(data) # 0 BY <1>1 DEF PWrite
<1>2. CASE Len(data) = 0
  <2>1. Len(bytes) \in Nat /\ offset <= Len(bytes) BY <1>2, LenProperties
  <2>2. Larger(Len(bytes), offset + Len(data)) = Len(bytes) BY <1>2, <2>1 DEF Larger
  <2>3. offset + 1 .. offset + Len(data) = {} BY <1>2
  <2>4. /\ Overlay(bytes, offset, data) \in Seq(Byte)
        /\ Len(Overlay(bytes, offset, data)) = Len(bytes)
        /\ \A i \in 1 .. Len(bytes) :
             Overlay(bytes, offset, data)[i] =
               IF i \in offset + 1 .. offset + Len(data) THEN data[i - offset]
               ELSE IF i <= Len(bytes) THEN bytes[i] ELSE Zero
    BY <2>2, OverlayProperties, Zenon
  <2>5. \A i \in 1 .. Len(bytes) : bytes[i] = Overlay(bytes, offset, data)[i]
    BY <2>1, <2>3, <2>4
  <2>6. bytes = Overlay(bytes, offset, data) BY <2>4, <2>5, SequencesEqual
  <2> QED BY <1>2, <2>6 DEF PWrite
<1> QED BY <1>1, <1>2

-----------------------------------------------------------------------------
(* The inductive invariant *)

Sound(r) ==
  /\ r \in [size : 0 .. MaxFileSize, blob : BOOLEAN, inline : Seq(Byte)]
  /\ r.blob <=> r.size > Threshold
  /\ Len(r.inline) = IF r.blob THEN 0 ELSE r.size

Bounded(bytes) == bytes \in Seq(Byte) /\ Len(bytes) <= MaxFileSize

(* Records are sound in memory and in the store, even after a write has     *)
(* missed the file; a clean handle agrees with the store; and the data that *)
(* the record and the disk file hold is the file's content.                 *)
DataInv ==
  /\ Sound(rec) /\ Sound(stored)
  /\ dirty \in BOOLEAN
  /\ disk \in [exists : BOOLEAN, bytes : Seq(Byte)] /\ Len(disk.bytes) <= MaxFileSize
  /\ ~disk.exists => disk.bytes = <<>>
  /\ fd \in {Closed, NoFd, OnDisk, OnOrphan, Dangling}
  /\ Bounded(orphan) /\ Bounded(content)
  /\ tainted \in BOOLEAN /\ leaked = FALSE
  /\ fd = Closed => ~dirty
  /\ ~dirty => rec = stored
  /\ ~tainted => Consistent(rec) /\ DataOf(rec) = content

LEMMA EmptyBounded == Bounded(<<>>)
  BY BoundsAssumption DEF Bounded

LEMMA NewRecordSound == Sound(NewRecord) /\ DataOf(NewRecord) = <<>>
<1>1. NewRecord \in [size : 0 .. MaxFileSize, blob : BOOLEAN, inline : Seq(Byte)]
  BY EmptyBounded, BoundsAssumption DEF NewRecord, Bounded
<1>2. /\ NewRecord.size = 0
      /\ NewRecord.blob = FALSE
      /\ NewRecord.inline = <<>>
      /\ Len(NewRecord.inline) = 0
  BY DEF NewRecord
<1> QED BY <1>1, <1>2, BoundsAssumption DEF Sound, DataOf

LEMMA NoFileType ==
  /\ NoFile \in [exists : BOOLEAN, bytes : Seq(Byte)]
  /\ NoFile.exists = FALSE
  /\ NoFile.bytes = <<>>
  /\ Len(NoFile.bytes) <= MaxFileSize
  BY EmptyBounded DEF NoFile, Bounded

LEMMA InitDataInv == FileInit => DataInv
<1> SUFFICES ASSUME FileInit PROVE DataInv
  OBVIOUS
<1>1. rec.blob = FALSE BY DEF FileInit, NewRecord
<1>2. Consistent(rec) BY <1>1, NoFileType DEF FileInit, Consistent
<1> QED
  BY <1>2, EmptyBounded, NewRecordSound, NoFileType DEF FileInit, DataInv, Closed

LEMMA OpenDataInv == DataInv /\ Open => DataInv'
  BY DEF DataInv, Open, Sound, Bounded, DiskFile, Consistent, DataOf,
         Closed, NoFd, OnDisk, OnOrphan, Dangling

LEMMA ReadDataInv == DataInv /\ Read => DataInv'
  BY DEF DataInv, Read, BlobFd, Sound, Bounded, Consistent, DataOf,
         Closed, NoFd, OnDisk, OnOrphan, Dangling

LEMMA CloseDataInv == DataInv /\ Close => DataInv'
<1> SUFFICES ASSUME DataInv, Close PROVE DataInv'
  OBVIOUS
<1>1. rec' = rec /\ stored' = rec BY DEF DataInv, Close
<1>2. ~tainted' => Consistent(rec)' /\ DataOf(rec)' = content'
  BY <1>1 DEF DataInv, Close, Consistent, DataOf
<1> QED BY <1>1, <1>2, EmptyBounded DEF DataInv, Close, Closed

LEMMA UnlinkDataInv == DataInv /\ Unlink => DataInv'
<1> SUFFICES ASSUME DataInv, Unlink PROVE DataInv'
  OBVIOUS
<1>1. rec' = NewRecord /\ stored' = NewRecord /\ disk' = NoFile /\ content' = <<>>
  BY DEF Unlink
<1>2. Consistent(rec)' /\ DataOf(rec)' = content'
  BY <1>1, NoFileType DEF Consistent, DataOf, NewRecord
<1>3. leaked' = FALSE
  <2>1. ~(~tainted /\ disk.exists /\ rec.size <= Threshold)
    BY BoundsAssumption DEF DataInv, Sound, Consistent
  <2> QED BY <2>1 DEF DataInv, Unlink
<1> QED BY <1>1, <1>2, <1>3, EmptyBounded, NewRecordSound, NoFileType DEF DataInv, Unlink

LEMMA CrashDataInv == DataInv /\ Crash => DataInv'
<1> SUFFICES ASSUME DataInv, Crash PROVE DataInv'
  OBVIOUS
<1>1. rec' = stored /\ stored' = stored /\ disk' = disk BY DEF Crash
<1>2. Consistent(rec)' = Consistent(stored) /\ DataOf(rec)' = DataOf(stored)
  BY <1>1 DEF Consistent, DataOf
<1>3. Bounded(content')
  BY BoundsAssumption DEF DataInv, Crash, DataOf, Sound, Bounded
<1>4. ~tainted' => Consistent(stored) BY DEF Crash
<1>5. tainted' \in BOOLEAN BY DEF Crash
<1> QED BY <1>1, <1>2, <1>3, <1>4, <1>5, EmptyBounded DEF DataInv, Crash, Closed

-----------------------------------------------------------------------------
(* Write *)

LEMMA OverlayBounded ==
  ASSUME NEW bytes, Bounded(bytes), NEW offset \in Nat, NEW data \in Seq(Byte),
         offset + Len(data) <= MaxFileSize
  PROVE  Bounded(Overlay(bytes, offset, data))
<1>1. Len(bytes) \in Nat /\ Len(data) \in Nat BY LenProperties DEF Bounded
<1> QED BY <1>1, OverlayProperties, BoundsAssumption DEF Bounded, Larger

LEMMA PWriteBounded ==
  ASSUME NEW bytes, Bounded(bytes), NEW offset \in Nat, NEW data \in Seq(Byte),
         offset + Len(data) <= MaxFileSize
  PROVE  Bounded(PWrite(bytes, offset, data))
  BY OverlayBounded DEF PWrite

(* What MigrateToDiskFile puts on the disk and leaves in the record, when   *)
(* the record is inline.                                                    *)
LEMMA MigrationProperties ==
  ASSUME DataInv, ~rec.blob
  PROVE  /\ Resized(rec.inline, rec.size) = rec.inline
         /\ Bounded(Migrated)
         /\ ~tainted => Migrated = rec.inline
         /\ Dropped = [size |-> rec.size, blob |-> FALSE, inline |-> <<>>]
<1>1. /\ rec \in [size : 0 .. MaxFileSize, blob : BOOLEAN, inline : Seq(Byte)]
      /\ Len(rec.inline) = rec.size
      /\ rec.size \in 0 .. MaxFileSize
      /\ rec.inline \in Seq(Byte)
      /\ rec.blob = FALSE
  BY DEF DataInv, Sound
<1>2. Resized(rec.inline, rec.size) = rec.inline BY <1>1, ResizedToLength
<1>3. Bounded(Migrated)
  <2>1. Bounded(disk.bytes) BY DEF DataInv, Bounded
  <2>2. 0 \in Nat /\ 0 + Len(rec.inline) <= MaxFileSize BY <1>1, BoundsAssumption
  <2> QED BY <1>1, <1>2, <2>1, <2>2, OverlayBounded DEF Migrated
<1>4. ASSUME ~tainted PROVE Migrated = rec.inline
  <2>1. disk.bytes = <<>> BY <1>1, <1>4 DEF DataInv, Consistent
  <2> QED BY <1>1, <1>2, <2>1, OverlayOfNothing DEF Migrated
<1>5. Dropped = [size |-> rec.size, blob |-> FALSE, inline |-> <<>>]
  <2>1. CASE rec.size > 0 BY <1>1, <2>1 DEF Dropped
  <2>2. CASE rec.size = 0
    <3>1. rec.inline = <<>> BY <1>1, <2>2, EmptySeq
    <3> QED BY <1>1, <2>2, <3>1 DEF Dropped
  <2> QED BY <1>1, <2>1, <2>2, BoundsAssumption
<1> QED BY <1>2, <1>3, <1>4, <1>5

LEMMA WriteDataInv ==
  ASSUME DataInv, NEW offset \in Nat, NEW data \in Seq(Byte),
         offset + Len(data) <= MaxFileSize, Write(offset, data)
  PROVE  DataInv'
<1> DEFINE end == offset + Len(data)
<1>1. /\ fd # Closed /\ dirty' = TRUE /\ stored' = stored /\ leaked' = FALSE
      /\ content' = Overlay(content, offset, data)
      /\ Bounded(content')
      /\ end \in Nat /\ end <= MaxFileSize
      /\ MaxFileSize \in Nat /\ Threshold \in Nat
  BY OverlayBounded, LenProperties, BoundsAssumption DEF DataInv, Write
<1>2. /\ rec \in [size : 0 .. MaxFileSize, blob : BOOLEAN, inline : Seq(Byte)]
      /\ rec.size \in 0 .. MaxFileSize
      /\ rec.inline \in Seq(Byte)
      /\ rec.blob \in BOOLEAN
      /\ rec.blob <=> rec.size > Threshold
      /\ Len(rec.inline) = IF rec.blob THEN 0 ELSE rec.size
  BY DEF DataInv, Sound
<1> HIDE DEF end
<1>3. CASE WriteInline(offset, data)
  <2> DEFINE bytes == Overlay(rec.inline, offset, data)
             size == Larger(rec.size, end)
  <2>1. /\ rec.blob = FALSE /\ end <= Threshold
        /\ rec' = [rec EXCEPT !.inline = bytes, !.size = size]
        /\ disk' = disk /\ fd' = fd /\ orphan' = orphan /\ tainted' = tainted
    BY <1>2, <1>3 DEF WriteInline, end
  <2>2. bytes \in Seq(Byte) /\ Len(bytes) = size
    BY <1>2, <2>1, OverlayProperties DEF end
  <2>3. size \in 0 .. MaxFileSize /\ size <= Threshold
    BY <1>1, <1>2, <2>1 DEF Larger
  <2> HIDE DEF bytes, size
  <2>4. /\ rec' \in [size : 0 .. MaxFileSize, blob : BOOLEAN, inline : Seq(Byte)]
        /\ rec'.size = size /\ rec'.blob = FALSE /\ rec'.inline = bytes
    BY <1>2, <2>1, <2>2, <2>3
  <2>5. Sound(rec') BY <1>1, <2>2, <2>3, <2>4 DEF Sound
  <2>6. ASSUME ~tainted' PROVE Consistent(rec)' /\ DataOf(rec)' = content'
    <3>1. ~disk.exists /\ rec.inline = content BY <2>1, <2>6 DEF DataInv, Consistent, DataOf
    <3>2. bytes = content' BY <1>1, <3>1 DEF bytes
    <3> QED BY <2>1, <2>4, <3>1, <3>2 DEF Consistent, DataOf
  <2> QED BY <1>1, <2>1, <2>5, <2>6 DEF DataInv
<1>4. CASE WriteMigrates(offset, data)
  <2> DEFINE bytes == PWrite(Migrated, offset, data)
  <2>1. /\ rec.blob = FALSE /\ end > Threshold
        /\ disk' = [exists |-> TRUE, bytes |-> bytes]
        /\ rec' = [Dropped EXCEPT !.size = end, !.blob = TRUE]
        /\ fd' = OnDisk /\ orphan' = orphan
        /\ tainted' = (tainted \/ Ungrown(offset, data))
    BY <1>2, <1>4 DEF WriteMigrates, DiskFile, end
  <2>2. Bounded(bytes) BY <1>1, <2>1, MigrationProperties, PWriteBounded DEF end
  <2>3. rec' = [size |-> end, blob |-> TRUE, inline |-> <<>>]
    <3>1. Dropped = [size |-> rec.size, blob |-> FALSE, inline |-> <<>>]
      BY <2>1, MigrationProperties
    <3>2. rec' = [[size |-> rec.size, blob |-> FALSE, inline |-> <<>>]
                    EXCEPT !.size = end, !.blob = TRUE]
      BY <2>1, <3>1, Zenon
    <3> QED BY <3>2
  <2>4. /\ rec'.size = end /\ rec'.blob = TRUE /\ rec'.inline = <<>>
        /\ Len(rec'.inline) = 0
        /\ rec' \in [size : 0 .. MaxFileSize, blob : BOOLEAN, inline : Seq(Byte)]
    BY <1>1, <2>3
  <2>5. Sound(rec') BY <1>1, <2>1, <2>4 DEF Sound
  <2>6. ASSUME ~tainted' PROVE Consistent(rec)' /\ DataOf(rec)' = content'
    <3>1. rec.inline = content /\ Migrated = content
      BY <2>1, <2>6, MigrationProperties DEF DataInv, DataOf
    <3>2. bytes = content'
      <4>1. content \in Seq(Byte) BY DEF DataInv, Bounded
      <4>2. Len(content) = rec.size BY <1>2, <2>1, <3>1
      <4>3. Len(data) # 0 \/ offset <= Len(content)
        <5>1. ~Ungrown(offset, data) BY <2>1, <2>6, Zenon
        <5> QED BY <1>2, <4>2, <5>1, BoundsAssumption DEF Ungrown
      <4> QED BY <1>1, <3>1, <4>1, <4>3, PWriteOverlays
    <3>3. Len(bytes) = Larger(Len(content), end)
      <4>1. content \in Seq(Byte) BY DEF DataInv, Bounded
      <4>2. Len(Overlay(content, offset, data)) = Larger(Len(content), offset + Len(data))
        BY <4>1, OverlayProperties, Zenon
      <4> QED BY <1>1, <3>2, <4>2 DEF end
    <3>4. Len(bytes) = end BY <1>1, <1>2, <2>1, <3>1, <3>3 DEF Larger
    <3> QED BY <2>1, <2>4, <3>2, <3>4 DEF Consistent, DataOf
  <2> HIDE DEF bytes
  <2>7. /\ disk' \in [exists : BOOLEAN, bytes : Seq(Byte)]
        /\ Len(disk'.bytes) <= MaxFileSize /\ disk'.exists
    BY <2>1, <2>2 DEF Bounded
  <2> QED BY <1>1, <2>1, <2>5, <2>6, <2>7 DEF DataInv, OnDisk, Closed
<1>5. CASE WriteBlob(offset, data)
  <2> DEFINE size == Larger(rec.size, end)
             bytes == PWrite(disk.bytes, offset, data)
  <2>1. rec.blob = TRUE /\ fd' = BlobFd /\ fd' # Closed /\ BlobFd \in {OnDisk, OnOrphan, Dangling}
    BY <1>1, <1>2, <1>5 DEF DataInv, WriteBlob, BlobFd, Closed, NoFd, OnDisk, OnOrphan, Dangling
  <2>2. size \in 0 .. MaxFileSize /\ size > Threshold
    BY <1>1, <1>2, <2>1 DEF Larger
  <2>3. ASSUME rec' = [rec EXCEPT !.size = Larger(@, offset + Len(data))]
        PROVE  Sound(rec') /\ rec'.size = size /\ rec'.blob = TRUE
    <3>1. rec' = [rec EXCEPT !.size = size] BY <1>2, <2>3 DEF end
    <3> HIDE DEF size
    <3>2. /\ rec' \in [size : 0 .. MaxFileSize, blob : BOOLEAN, inline : Seq(Byte)]
          /\ rec'.size = size /\ rec'.blob = TRUE /\ rec'.inline = rec.inline
      BY <1>2, <2>1, <2>2, <3>1
    <3> QED BY <1>1, <1>2, <2>1, <2>2, <3>2 DEF Sound
  <2>4. CASE BlobFd = OnDisk
    <3>1. /\ disk' = [exists |-> TRUE, bytes |-> bytes]
          /\ rec' = [rec EXCEPT !.size = Larger(@, offset + Len(data))]
          /\ orphan' = orphan /\ tainted' = (tainted \/ Ungrown(offset, data))
      BY <1>5, <2>4 DEF WriteBlob, DiskFile, OnDisk, OnOrphan, Dangling
    <3>2. Bounded(disk.bytes) BY DEF DataInv, Bounded
    <3>3. Bounded(bytes) BY <1>1, <3>2, PWriteBounded DEF end
    <3>4. ASSUME ~tainted' PROVE Consistent(rec)' /\ DataOf(rec)' = content'
      <4>1. Len(disk.bytes) = rec.size /\ disk.bytes = content
        BY <2>1, <3>1, <3>4 DEF DataInv, Consistent, DataOf
      <4>2. bytes = Overlay(disk.bytes, offset, data)
        <5>1. Len(data) # 0 \/ offset <= Len(disk.bytes)
          <6>1. ~Ungrown(offset, data) BY <3>1, <3>4, Zenon
          <6> QED BY <1>2, <4>1, <6>1, BoundsAssumption DEF Ungrown
        <5> QED BY <3>2, <5>1, PWriteOverlays DEF Bounded
      <4>3. Len(bytes) = size
        <5>1. Len(Overlay(disk.bytes, offset, data)) = Larger(Len(disk.bytes), offset + Len(data))
          BY <3>2, OverlayProperties, Zenon DEF Bounded
        <5> QED BY <4>1, <4>2, <5>1 DEF end
      <4>4. bytes = content' BY <1>1, <4>1, <4>2
      <4> QED BY <2>3, <3>1, <4>3, <4>4 DEF Consistent, DataOf
    <3> HIDE DEF bytes
    <3>5. /\ disk' \in [exists : BOOLEAN, bytes : Seq(Byte)]
          /\ Len(disk'.bytes) <= MaxFileSize /\ disk'.exists
      BY <3>1, <3>3 DEF Bounded
    <3> QED BY <1>1, <2>1, <2>3, <3>1, <3>4, <3>5 DEF DataInv, OnDisk
  <2>5. CASE BlobFd = OnOrphan
    <3>1. /\ orphan' = PWrite(orphan, offset, data)
          /\ rec' = [rec EXCEPT !.size = Larger(@, offset + Len(data))]
          /\ disk' = disk /\ tainted' = TRUE
      BY <1>5, <2>5 DEF WriteBlob, OnDisk, OnOrphan, Dangling
    <3>2. Bounded(orphan') BY <1>1, <3>1, PWriteBounded DEF DataInv, end
    <3> QED BY <1>1, <2>1, <2>3, <2>5, <3>1, <3>2 DEF DataInv
  <2>6. CASE BlobFd = Dangling
    <3>1. rec' = rec /\ orphan' = orphan /\ disk' = disk /\ tainted' = TRUE
      BY <1>5, <2>6 DEF WriteBlob, OnDisk, OnOrphan, Dangling
    <3> QED BY <1>1, <2>1, <2>6, <3>1 DEF DataInv
  <2> QED BY <2>1, <2>4, <2>5, <2>6
<1> QED BY <1>3, <1>4, <1>5 DEF Write

-----------------------------------------------------------------------------
(* Truncate *)

LEMMA ResizedBounded ==
  ASSUME NEW bytes \in Seq(Byte), NEW size \in 0 .. MaxFileSize
  PROVE  Bounded(Resized(bytes, size))
<1>1. size \in Nat /\ size <= MaxFileSize BY BoundsAssumption
<1> QED BY <1>1, ResizedProperties DEF Bounded

(* The header that ends Truncate, on a record whose inline data is right.   *)
LEMMA HeadedSound ==
  ASSUME DataInv, NEW size \in 0 .. MaxFileSize, NEW inline \in Seq(Byte), NEW blob \in BOOLEAN,
         Len(inline) = IF size > Threshold THEN 0 ELSE size,
         size = rec.size => blob = rec.blob,
         rec' = Headed([size |-> rec.size, blob |-> blob, inline |-> inline], size)
  PROVE  /\ Sound(rec')
         /\ rec' = [size |-> size, blob |-> size > Threshold, inline |-> inline]
<1>1. rec.blob <=> rec.size > Threshold BY DEF DataInv, Sound
<1>2. rec' = [size |-> size, blob |-> size > Threshold, inline |-> inline]
  <2>1. CASE size = rec.size
    <3>1. blob = (size > Threshold) BY <1>1, <2>1 DEF DataInv, Sound
    <3> QED BY <2>1, <3>1 DEF Headed
  <2>2. CASE size # rec.size BY <2>2 DEF Headed
  <2> QED BY <2>1, <2>2
<1> DEFINE large == size > Threshold
<1>3. large \in BOOLEAN OBVIOUS
<1>4. Len(inline) = IF large THEN 0 ELSE size OBVIOUS
<1>5. rec' = [size |-> size, blob |-> large, inline |-> inline] BY <1>2
<1>6. large <=> size > Threshold OBVIOUS
<1> HIDE DEF large
<1>7. /\ rec' \in [size : 0 .. MaxFileSize, blob : BOOLEAN, inline : Seq(Byte)]
      /\ rec'.size = size /\ rec'.blob = large /\ rec'.inline = inline
  BY <1>3, <1>5
<1>8. Sound(rec') BY <1>4, <1>6, <1>7 DEF Sound
<1> QED BY <1>2, <1>8

LEMMA TruncateDataInv ==
  ASSUME DataInv, NEW size \in 0 .. MaxFileSize, Truncate(size)
  PROVE  DataInv'
<1> DEFINE large == size > Threshold
<1>1. /\ rec \in [size : 0 .. MaxFileSize, blob : BOOLEAN, inline : Seq(Byte)]
      /\ rec.blob <=> rec.size > Threshold
      /\ Len(rec.inline) = IF rec.blob THEN 0 ELSE rec.size
      /\ disk \in [exists : BOOLEAN, bytes : Seq(Byte)]
      /\ disk.bytes \in Seq(Byte)
      /\ Bounded(disk.bytes) /\ Bounded(orphan) /\ Bounded(content)
      /\ content \in Seq(Byte)
      /\ size \in Nat
  BY DEF DataInv, Sound, Bounded
<1>2. Bounded(Resized(content, size)) BY <1>1, ResizedBounded, Zenon
<1>3. Bounded(Resized(disk.bytes, size)) BY <1>1, ResizedBounded, Zenon
<1>4. rec = [size |-> rec.size, blob |-> rec.blob, inline |-> rec.inline] BY <1>1
<1>5. /\ stored' = rec' /\ dirty' = FALSE /\ content' = Resized(content, size)
      /\ tainted' = tainted /\ leaked' = leaked
  BY DEF Truncate
(* What is left for each kind of truncation                                 *)
<1> DEFINE Kept ==
      /\ Sound(rec')
      /\ disk' \in [exists : BOOLEAN, bytes : Seq(Byte)] /\ Len(disk'.bytes) <= MaxFileSize
      /\ ~disk'.exists => disk'.bytes = <<>>
      /\ fd' \in {Closed, NoFd, OnDisk, OnOrphan, Dangling}
      /\ fd = Closed <=> fd' = Closed
      /\ Bounded(orphan')
      /\ ~tainted => Consistent(rec)' /\ DataOf(rec)' = Resized(content, size)
<1>6. ASSUME TruncateBlob(size) PROVE Kept
  <2>1. rec.blob /\ large BY <1>6 DEF TruncateBlob
  <2>2. /\ Sound(rec')
        /\ rec' = [size |-> size, blob |-> large, inline |-> rec.inline]
    <3>1. rec' = Headed([size |-> rec.size, blob |-> rec.blob, inline |-> rec.inline], size)
      BY <1>4, <1>6 DEF TruncateBlob
    <3>2. rec.inline \in Seq(Byte) /\ rec.blob \in BOOLEAN BY <1>1
    <3>3. Len(rec.inline) = IF size > Threshold THEN 0 ELSE size BY <1>1, <2>1
    <3> QED BY <3>1, <3>2, <3>3, HeadedSound
  <2>3. rec'.blob = large /\ rec'.size = size BY <2>2
  <2>4. CASE disk.exists
    <3>1. disk' = DiskFile(Resized(disk.bytes, size)) BY <1>6, <2>4 DEF TruncateBlob
    <3>2. /\ disk' \in [exists : BOOLEAN, bytes : Seq(Byte)]
          /\ disk'.exists /\ disk'.bytes = Resized(disk.bytes, size)
      BY <1>3, <3>1 DEF DiskFile, Bounded
    <3>3. Len(disk'.bytes) = size BY <1>1, <3>2, ResizedProperties
    <3>4. ~tainted => disk.bytes = content BY <2>1 DEF DataInv, DataOf
    <3> QED BY <1>6, <2>1, <2>2, <2>3, <3>2, <3>3, <3>4
            DEF DataInv, TruncateBlob, Consistent, DataOf
  <2>5. CASE ~disk.exists
    <3>1. tainted BY <2>1, <2>5 DEF DataInv, Consistent
    <3> QED BY <1>1, <1>6, <2>2, <2>5, <3>1 DEF DataInv, TruncateBlob
  <2> QED BY <2>4, <2>5
<1>7. ASSUME TruncateToInline(size) PROVE Kept
  <2>1. rec.blob /\ ~large BY <1>1, <1>7, BoundsAssumption DEF TruncateToInline
  <2>2. rec.inline = <<>> BY <1>1, <2>1, EmptySeq
  <2> DEFINE bytes == Resized(disk.bytes, size)
  <2>3. bytes \in Seq(Byte) /\ Len(bytes) = size BY <1>1, ResizedProperties
  <2>4. Overlay(rec.inline, 0, bytes) = bytes BY <2>2, <2>3, OverlayOfNothing
  <2>5. /\ Sound(rec')
        /\ rec' = [size |-> size, blob |-> large, inline |-> bytes]
    <3>1. rec' = Headed([size |-> rec.size, blob |-> rec.blob, inline |-> bytes], size)
      <4>1. rec' = Headed([rec EXCEPT !.inline = Overlay(@, 0, bytes)], size)
        BY <1>7 DEF TruncateToInline
      <4> HIDE DEF bytes
      <4>2. [rec EXCEPT !.inline = Overlay(@, 0, bytes)] =
              [size |-> rec.size, blob |-> rec.blob, inline |-> bytes]
        BY <1>1, <2>4
      <4> QED BY <4>1, <4>2
    <3>2. rec.blob \in BOOLEAN BY <1>1
    <3>3. Len(bytes) = IF size > Threshold THEN 0 ELSE size BY <2>1, <2>3
    <3> HIDE DEF bytes
    <3> QED BY <2>3, <3>1, <3>2, <3>3, HeadedSound
  <2>6. rec'.blob = large /\ rec'.inline = bytes BY <2>5
  <2>7. disk' = NoFile BY <1>7 DEF TruncateToInline
  <2>8. ~tainted => disk.bytes = content BY <2>1 DEF DataInv, DataOf
  <2>9. /\ fd' \in {Closed, NoFd, OnDisk, OnOrphan, Dangling}
        /\ fd = Closed <=> fd' = Closed
        /\ Bounded(orphan')
    BY <1>1, <1>7 DEF DataInv, TruncateToInline, Closed, NoFd, OnDisk, OnOrphan, Dangling
  <2> QED BY <2>1, <2>5, <2>6, <2>7, <2>8, <2>9, NoFileType DEF Consistent, DataOf
<1>8. ASSUME TruncateInline(size) PROVE Kept
  <2>1. ~rec.blob /\ ~large BY <1>1, <1>8, BoundsAssumption DEF TruncateInline
  <2> DEFINE bytes == Resized(rec.inline, size)
  <2>2. rec.inline \in Seq(Byte) BY <1>1
  <2>3. bytes \in Seq(Byte) /\ Len(bytes) = size BY <1>1, <2>2, ResizedProperties
  <2>4. /\ Sound(rec')
        /\ rec' = [size |-> size, blob |-> large, inline |-> bytes]
    <3>1. rec' = Headed([size |-> rec.size, blob |-> rec.blob, inline |-> bytes], size)
      BY <1>4, <1>8 DEF TruncateInline
    <3>2. rec.blob \in BOOLEAN BY <1>1
    <3>3. Len(bytes) = IF size > Threshold THEN 0 ELSE size BY <2>1, <2>3
    <3> HIDE DEF bytes
    <3> QED BY <2>3, <3>1, <3>2, <3>3, HeadedSound
  <2>5. rec'.blob = large /\ rec'.inline = bytes BY <2>4
  <2>6. ~tainted => rec.inline = content /\ ~disk.exists BY <2>1 DEF DataInv, DataOf, Consistent
  <2> QED BY <1>8, <2>1, <2>4, <2>5, <2>6 DEF DataInv, TruncateInline, Consistent, DataOf
<1>9. ASSUME TruncateToBlob(size) PROVE Kept
  <2>1. ~rec.blob /\ large BY <1>9 DEF TruncateToBlob
  <2>2. rec.inline \in Seq(Byte) /\ Len(rec.inline) = rec.size BY <1>1, <2>1
  <2>3. Resized(rec.inline, rec.size) = rec.inline BY <2>2, ResizedToLength
  <2> DEFINE bytes == Resized(rec.inline, size)
  <2>4. Bounded(bytes) /\ Len(bytes) = size
    BY <1>1, <2>2, ResizedBounded, ResizedProperties
  <2>5. disk' = DiskFile(bytes) BY <1>9, <2>3 DEF TruncateToBlob
  <2> HIDE DEF bytes
  <2>6. /\ disk' \in [exists : BOOLEAN, bytes : Seq(Byte)]
        /\ disk'.exists /\ disk'.bytes = bytes
    BY <2>4, <2>5 DEF DiskFile, Bounded
  <2>7. Dropped = [size |-> rec.size, blob |-> rec.blob, inline |-> <<>>]
    BY <1>1, <2>1, MigrationProperties
  <2>8. /\ Sound(rec')
        /\ rec' = [size |-> size, blob |-> large, inline |-> <<>>]
    <3>1. rec' = Headed([size |-> rec.size, blob |-> rec.blob, inline |-> <<>>], size)
      BY <1>9, <2>7 DEF TruncateToBlob
    <3>2. rec.blob \in BOOLEAN /\ <<>> \in Seq(Byte) BY <1>1, EmptySeq
    <3>3. Len(<<>>) = IF size > Threshold THEN 0 ELSE size BY <2>1
    <3> QED BY <3>1, <3>2, <3>3, HeadedSound
  <2>9. rec'.blob = large /\ rec'.size = size BY <2>8
  <2>10. ~tainted => rec.inline = content BY <2>1 DEF DataInv, DataOf
  <2>11. /\ fd' \in {Closed, NoFd, OnDisk, OnOrphan, Dangling}
         /\ fd = Closed <=> fd' = Closed
         /\ Bounded(orphan')
    BY <1>1, <1>9, EmptyBounded
       DEF DataInv, TruncateToBlob, Closed, NoFd, OnDisk, OnOrphan, Dangling
  <2> QED BY <2>1, <2>4, <2>6, <2>8, <2>9, <2>10, <2>11 DEF Consistent, DataOf, Bounded, bytes
<1>10. Kept BY <1>6, <1>7, <1>8, <1>9 DEF Truncate
<1> QED BY <1>2, <1>5, <1>10 DEF DataInv

-----------------------------------------------------------------------------
LEMMA NextDataInv == DataInv /\ [FileNext]_fileVars => DataInv'
<1> SUFFICES ASSUME DataInv, [FileNext]_fileVars PROVE DataInv'
  OBVIOUS
<1>1. ASSUME NEW n \in 0 .. MaxWrite, NEW offset \in 0 .. MaxFileSize - n,
             NEW data \in [1 .. n -> Bytes], Write(offset, data)
      PROVE  DataInv'
  <2>1. n \in Nat /\ data \in [1 .. n -> Byte] BY BoundsAssumption DEF Byte
  <2>2. data \in Seq(Byte) /\ Len(data) = n BY <2>1, FunctionIsSeq
  <2>3. offset \in Nat /\ offset + Len(data) <= MaxFileSize BY <2>1, <2>2, BoundsAssumption
  <2> QED BY <1>1, <2>2, <2>3, WriteDataInv
<1>2. CASE UNCHANGED fileVars
  BY <1>2 DEF fileVars, DataInv, Sound, Bounded, Consistent, DataOf
<1> QED
  BY <1>1, <1>2, OpenDataInv, ReadDataInv, CloseDataInv, UnlinkDataInv, CrashDataInv, TruncateDataInv DEF FileNext

LEMMA DataInvType == DataInv => DataTypeOK
<1> SUFFICES ASSUME DataInv PROVE DataTypeOK
  OBVIOUS
<1>1. ASSUME NEW bytes, Bounded(bytes) PROVE FileTypeOK(bytes)
  BY <1>1, LenProperties DEF Bounded, FileTypeOK, Byte
<1>2. ASSUME NEW r, Sound(r) PROVE RecordTypeOK(r)
  <2>1. r.size \in 0 .. MaxFileSize /\ r.blob \in BOOLEAN BY <1>2 DEF Sound
  <2>2. Bounded(r.inline) BY <1>2, BoundsAssumption DEF Sound, Bounded
  <2> QED BY <1>1, <2>1, <2>2 DEF RecordTypeOK
<1>3. disk.exists \in BOOLEAN /\ Bounded(disk.bytes) BY DEF DataInv, Bounded
<1> QED BY <1>1, <1>2, <1>3 DEF DataInv, DataTypeOK

LEMMA DataInvReads == DataInv => ReadsExact
<1> SUFFICES ASSUME DataInv, ~tainted, ~Stray, fd # Closed,
                    NEW offset \in 0 .. MaxFileSize, NEW size \in 0 .. MaxFileSize
             PROVE  ReadResult(offset, size) = Slice(content, offset, size)
  BY DEF ReadsExact
<1>1. DataOf(rec) = content BY DEF DataInv
<1>2. CASE ~rec.blob BY <1>1, <1>2 DEF ReadResult, DataOf
<1>3. CASE rec.blob
  <2>1. BlobFd = OnDisk
    BY <1>3 DEF DataInv, Stray, BlobFd, Closed, NoFd, OnDisk, OnOrphan, Dangling
  <2> QED BY <1>1, <1>3, <2>1 DEF ReadResult, DataOf, OnDisk, OnOrphan
<1> QED BY <1>2, <1>3

(***************************************************************************)
(* For every threshold, every alphabet and all bounds: has_blob says which *)
(* side of the threshold a file is on, records and disk files match, reads *)
(* return what Write and Truncate have put in the file, and a closed file  *)
(* is all in the store and on the disk.                                    *)
(***************************************************************************)
THEOREM FileDataSafety == FileSpec => [](DataTypeOK /\ ReadsExact /\ DataKept)
<1>1. DataInv => BlobIffLarge BY DEF DataInv, Sound, BlobIffLarge
<1>2. DataInv => DiskFileMatches BY DEF DataInv, DiskFileMatches
<1>3. DataInv => DurableWhenClosed BY DEF DataInv, DurableWhenClosed
<1>4. DataInv => DataKept BY <1>1, <1>2, <1>3 DEF DataKept
<1> QED BY <1>4, InitDataInv, NextDataInv, DataInvType, DataInvReads, PTL DEF FileSpec

(* Its middle part: Read returns the bytes that Write and Truncate left.    *)
THEOREM ReadsAlwaysExact == FileSpec => []ReadsExact
  BY FileDataSafety, PTL
=============================================================================
