----------------------------- MODULE LinkedList -----------------------------
(* A doubly linked list as the sequence of its nodes, front first: the      *)
(* std::list of the dentry cache and the circular list of the LRU cache;    *)
(* and what the operations do to the nodes, for lists of any length.        *)
EXTENDS Naturals, Sequences, Functions, SequenceTheorems, TLAPS

(* Each node is linked once.                                                *)
Distinct(list) == \A i, j \in DOMAIN list : list[i] = list[j] => i = j

(* The list without the node: std::list::erase, LRUCache::LRU_Remove.       *)
Unlinked(list, node) ==
  LET at == CHOOSE i \in DOMAIN list : list[i] = node
  IN  SubSeq(list, 1, at - 1) \o SubSeq(list, at + 1, Len(list))
-----------------------------------------------------------------------------
(* Erasing the node at position "at" shifts the nodes behind it by one.    *)
LEMMA UnlinkedProperties ==
  ASSUME NEW S, NEW list \in Seq(S), Distinct(list), NEW at \in DOMAIN list
  PROVE  /\ Unlinked(list, list[at]) \in Seq(S)
         /\ Len(Unlinked(list, list[at])) = Len(list) - 1
         /\ \A i \in 1 .. Len(list) - 1 :
              Unlinked(list, list[at])[i] = IF i < at THEN list[i] ELSE list[i + 1]
<1> DEFINE head == SubSeq(list, 1, at - 1)
           tail == SubSeq(list, at + 1, Len(list))
<1>1. /\ Len(list) \in Nat
      /\ DOMAIN list = 1 .. Len(list)
      /\ at \in 1 .. Len(list)
  BY LenProperties
<1>2. Unlinked(list, list[at]) = head \o tail
  <2>1. (CHOOSE i \in DOMAIN list : list[i] = list[at]) = at
    BY DEF Distinct
  <2> QED BY <2>1 DEF Unlinked
<1>3. /\ head \in Seq(S)
      /\ Len(head) = at - 1
      /\ \A i \in 1 .. at - 1 : head[i] = list[i]
  <2>1. \A i \in 1 .. at - 1 : list[i] \in S
    BY <1>1, ElementOfSeq
  <2> QED BY <1>1, <2>1, SubSeqProperties
<1>4. /\ tail \in Seq(S)
      /\ Len(tail) = Len(list) - at
      /\ \A i \in 1 .. Len(list) - at : tail[i] = list[at + i]
  <2>1. \A i \in at + 1 .. Len(list) : list[i] \in S
    BY <1>1, ElementOfSeq
  <2> QED BY <1>1, <2>1, SubSeqProperties
<1> HIDE DEF head, tail
<1>5. /\ head \o tail \in Seq(S)
      /\ Len(head \o tail) = Len(list) - 1
      /\ \A i \in 1 .. Len(list) - 1 :
           (head \o tail)[i] = IF i <= at - 1 THEN head[i] ELSE tail[i - (at - 1)]
  <2>1. /\ head \o tail \in Seq(S)
        /\ Len(head \o tail) = Len(head) + Len(tail)
        /\ \A i \in 1 .. Len(head) + Len(tail) :
             (head \o tail)[i] = IF i <= Len(head) THEN head[i] ELSE tail[i - Len(head)]
    BY <1>3, <1>4, ConcatProperties, Zenon
  <2>2. Len(head) + Len(tail) = Len(list) - 1
    BY <1>1, <1>3, <1>4
  <2> QED BY <1>3, <2>1, <2>2, Zenon
<1>6. \A i \in 1 .. Len(list) - 1 :
        (head \o tail)[i] = IF i < at THEN list[i] ELSE list[i + 1]
  <2> TAKE i \in 1 .. Len(list) - 1
  <2>1. CASE i < at BY <1>1, <1>3, <1>5, <2>1
  <2>2. CASE ~(i < at)
    <3>1. i - (at - 1) \in 1 .. Len(list) - at BY <1>1, <2>2
    <3>2. tail[i - (at - 1)] = list[at + (i - (at - 1))] BY <1>4, <3>1
    <3>3. at + (i - (at - 1)) = i + 1 BY <1>1
    <3> QED BY <1>1, <1>5, <2>2, <3>2, <3>3
  <2> QED BY <2>1, <2>2
<1> QED BY <1>2, <1>5, <1>6

(* The same seen from the set of nodes in the list.                        *)
LEMMA UnlinkedNodes ==
  ASSUME NEW S, NEW list \in Seq(S), Distinct(list), NEW node \in Range(list)
  PROVE  /\ Unlinked(list, node) \in Seq(S)
         /\ Distinct(Unlinked(list, node))
         /\ Range(Unlinked(list, node)) = Range(list) \ {node}
<1> DEFINE rest == Unlinked(list, node)
           n == Len(list)
<1>1. PICK at \in DOMAIN list : list[at] = node
  BY DEF Range
<1>2. /\ n \in Nat
      /\ DOMAIN list = 1 .. n
      /\ at \in 1 .. n
  BY LenProperties
<1>3. /\ rest \in Seq(S)
      /\ Len(rest) = n - 1
      /\ \A i \in 1 .. n - 1 : rest[i] = IF i < at THEN list[i] ELSE list[i + 1]
  BY <1>1, UnlinkedProperties
<1>4. DOMAIN rest = 1 .. n - 1 BY <1>3, LenProperties
<1> HIDE DEF rest, n
<1>5. Distinct(rest)
  <2> SUFFICES ASSUME NEW i \in 1 .. n - 1, NEW j \in 1 .. n - 1, rest[i] = rest[j]
               PROVE  i = j
    BY <1>4 DEF Distinct
  <2> DEFINE p == IF i < at THEN i ELSE i + 1
             q == IF j < at THEN j ELSE j + 1
  <2>1. p \in 1 .. n /\ q \in 1 .. n BY <1>2
  <2>2. list[p] = list[q] BY <1>3
  <2>3. p = q BY <1>2, <2>1, <2>2, Zenon DEF Distinct
  <2> QED BY <1>2, <2>3
<1>6. ASSUME NEW x \in Range(rest) PROVE x \in Range(list) \ {node}
  <2>1. PICK i \in 1 .. n - 1 : rest[i] = x BY <1>4 DEF Range
  <2> DEFINE p == IF i < at THEN i ELSE i + 1
  <2>2. p \in 1 .. n /\ p # at /\ list[p] = x BY <1>2, <1>3, <2>1
  <2> HIDE DEF p
  <2>3. x # node BY <1>1, <1>2, <2>2, Zenon DEF Distinct
  <2> QED BY <1>2, <2>2, <2>3 DEF Range
<1>7. ASSUME NEW x \in Range(list) \ {node} PROVE x \in Range(rest)
  <2>1. PICK p \in 1 .. n : list[p] = x BY <1>2 DEF Range
  <2>2. p # at BY <1>1, <2>1
  <2> DEFINE i == IF p < at THEN p ELSE p - 1
  <2>3. i \in 1 .. n - 1 /\ rest[i] = x
    <3>1. CASE p < at BY <1>2, <1>3, <2>1, <3>1
    <3>2. CASE p > at
      <4>1. p - 1 \in 1 .. n - 1 /\ ~(p - 1 < at) /\ (p - 1) + 1 = p BY <1>2, <3>2
      <4>2. rest[p - 1] = list[p] BY <1>3, <4>1
      <4> QED BY <1>2, <2>1, <3>2, <4>1, <4>2
    <3> QED BY <1>2, <2>2, <3>1, <3>2
  <2> QED BY <1>4, <2>3 DEF Range
<1> QED BY <1>3, <1>5, <1>6, <1>7 DEF rest

(* LRU_Append of a node that is not in the list.                           *)
LEMMA AppendNodes ==
  ASSUME NEW S, NEW list \in Seq(S), Distinct(list), NEW node \in S, node \notin Range(list)
  PROVE  /\ Append(list, node) \in Seq(S)
         /\ Distinct(Append(list, node))
         /\ Range(Append(list, node)) = Range(list) \cup {node}
<1> DEFINE longer == Append(list, node)
           n == Len(list)
<1>1. /\ n \in Nat
      /\ DOMAIN list = 1 .. n
  BY LenProperties
<1>2. /\ longer \in Seq(S)
      /\ Len(longer) = n + 1
      /\ \A i \in 1 .. n : longer[i] = list[i]
      /\ longer[n + 1] = node
  BY AppendProperties
<1>3. DOMAIN longer = 1 .. n + 1 BY <1>2, LenProperties
<1> HIDE DEF longer, n
<1>4. \A i \in 1 .. n : list[i] # node BY <1>1 DEF Range
<1>5. Distinct(longer)
  <2> SUFFICES ASSUME NEW i \in 1 .. n + 1, NEW j \in 1 .. n + 1, longer[i] = longer[j]
               PROVE  i = j
    BY <1>3 DEF Distinct
  <2>1. CASE i = n + 1 \/ j = n + 1 BY <1>1, <1>2, <1>4, <2>1
  <2>2. CASE i # n + 1 /\ j # n + 1
    <3>1. i \in 1 .. n /\ j \in 1 .. n BY <1>1, <2>2
    <3> QED BY <1>1, <1>2, <3>1, Zenon DEF Distinct
  <2> QED BY <2>1, <2>2
<1>6. Range(longer) = Range(list) \cup {node}
  <2>1. ASSUME NEW x \in Range(longer) PROVE x \in Range(list) \cup {node}
    <3>1. PICK i \in 1 .. n + 1 : longer[i] = x BY <1>3 DEF Range
    <3>2. i = n + 1 \/ i \in 1 .. n BY <1>1
    <3> QED BY <1>1, <1>2, <3>1, <3>2 DEF Range
  <2>2. n + 1 \in 1 .. n + 1 /\ \A i \in 1 .. n : i \in 1 .. n + 1 BY <1>1
  <2>3. node \in Range(longer) BY <1>2, <1>3, <2>2, Zenon DEF Range
  <2>4. ASSUME NEW x \in Range(list) PROVE x \in Range(longer)
    <3>1. PICK i \in 1 .. n : list[i] = x BY <1>1 DEF Range
    <3> QED BY <1>2, <1>3, <2>2, <3>1 DEF Range
  <2> QED BY <2>1, <2>3, <2>4
<1> QED BY <1>2, <1>5, <1>6 DEF longer

(* Dropping the first m nodes.                                             *)
LEMMA SuffixNodes ==
  ASSUME NEW S, NEW list \in Seq(S), Distinct(list), NEW m \in 0 .. Len(list)
  PROVE  /\ SubSeq(list, m + 1, Len(list)) \in Seq(S)
         /\ Distinct(SubSeq(list, m + 1, Len(list)))
         /\ Range(SubSeq(list, m + 1, Len(list))) = Range(list) \ {list[i] : i \in 1 .. m}
<1> DEFINE rest == SubSeq(list, m + 1, Len(list))
           n == Len(list)
<1>1. /\ n \in Nat
      /\ DOMAIN list = 1 .. n
      /\ m \in Nat /\ m <= n
  BY LenProperties
<1>2. /\ rest \in Seq(S)
      /\ Len(rest) = n - m
      /\ \A i \in 1 .. n - m : rest[i] = list[m + i]
  <2>1. \A i \in m + 1 .. n : list[i] \in S BY <1>1, ElementOfSeq
  <2>2. m + 1 \in 1 .. n + 1 /\ m + 1 \in Int /\ n \in Int BY <1>1
  <2>3. /\ rest \in Seq(S)
        /\ Len(rest) = IF m + 1 <= n THEN n - (m + 1) + 1 ELSE 0
        /\ \A i \in 1 .. n - (m + 1) + 1 : rest[i] = list[(m + 1) + i - 1]
    BY <2>1, <2>2, SubSeqProperties
  <2> HIDE DEF rest, n
  <2> QED BY <1>1, <2>3
<1>3. DOMAIN rest = 1 .. n - m BY <1>2, LenProperties
<1> HIDE DEF rest, n
<1>4. \A i \in 1 .. n - m : m + i \in 1 .. n /\ ~(m + i <= m) BY <1>1
<1>5. Distinct(rest)
  <2> SUFFICES ASSUME NEW i \in 1 .. n - m, NEW j \in 1 .. n - m, rest[i] = rest[j]
               PROVE  i = j
    BY <1>3 DEF Distinct
  <2>1. list[m + i] = list[m + j] BY <1>2
  <2>2. m + i = m + j BY <1>1, <1>4, <2>1, Zenon DEF Distinct
  <2> QED BY <1>1, <2>2
<1>6. ASSUME NEW x \in Range(rest) PROVE x \in Range(list) \ {list[i] : i \in 1 .. m}
  <2>1. PICK i \in 1 .. n - m : rest[i] = x BY <1>3 DEF Range
  <2>2. m + i \in 1 .. n /\ list[m + i] = x BY <1>2, <1>4, <2>1
  <2>3. ASSUME NEW j \in 1 .. m, list[j] = x PROVE FALSE
    <3>1. j \in 1 .. n BY <1>1
    <3>2. j = m + i BY <1>1, <2>2, <2>3, <3>1, Zenon DEF Distinct
    <3> QED BY <1>1, <3>2
  <2> QED BY <1>1, <2>2, <2>3 DEF Range
<1>7. ASSUME NEW x \in Range(list) \ {list[i] : i \in 1 .. m} PROVE x \in Range(rest)
  <2>1. PICK p \in 1 .. n : list[p] = x BY <1>1 DEF Range
  <2>2. p \notin 1 .. m BY <2>1
  <2>3. p - m \in 1 .. n - m /\ m + (p - m) = p BY <1>1, <2>2
  <2>4. rest[p - m] = x BY <1>2, <2>1, <2>3
  <2> QED BY <1>3, <2>3, <2>4 DEF Range
<1> QED BY <1>2, <1>5, <1>6, <1>7 DEF rest, n

(* Erasing a node leaves the others in their order.                        *)
LEMMA UnlinkedOrder ==
  ASSUME NEW S, NEW list \in Seq(S), Distinct(list), NEW node \in Range(list),
         NEW i \in DOMAIN list, NEW j \in DOMAIN list, i <= j, list[i] # node, list[j] # node
  PROVE  \E a, b \in DOMAIN Unlinked(list, node) :
           a <= b /\ Unlinked(list, node)[a] = list[i] /\ Unlinked(list, node)[b] = list[j]
<1> DEFINE rest == Unlinked(list, node)
           n == Len(list)
<1>1. PICK at \in DOMAIN list : list[at] = node
  BY DEF Range
<1>2. n \in Nat /\ DOMAIN list = 1 .. n /\ at \in 1 .. n /\ i \in 1 .. n /\ j \in 1 .. n
  BY LenProperties
<1>3. /\ rest \in Seq(S) /\ Len(rest) = n - 1
      /\ \A m \in 1 .. n - 1 : rest[m] = IF m < at THEN list[m] ELSE list[m + 1]
  BY <1>1, UnlinkedProperties
<1>4. DOMAIN rest = 1 .. n - 1 BY <1>3, LenProperties
<1> HIDE DEF rest, n
<1>5. i # at /\ j # at BY <1>1
<1>6. ASSUME NEW m \in 1 .. n, m # at
      PROVE  LET q == IF m < at THEN m ELSE m - 1 IN q \in 1 .. n - 1 /\ rest[q] = list[m]
  <2>1. CASE m < at BY <1>2, <1>3, <2>1
  <2>2. CASE m > at
    <3>1. m - 1 \in 1 .. n - 1 /\ ~(m - 1 < at) /\ (m - 1) + 1 = m BY <1>2, <2>2
    <3>2. rest[m - 1] = list[m] BY <1>3, <3>1
    <3> QED BY <1>2, <2>2, <3>1, <3>2
  <2> QED BY <1>2, <1>6, <2>1, <2>2
<1> DEFINE a == IF i < at THEN i ELSE i - 1
           b == IF j < at THEN j ELSE j - 1
<1>7. a \in DOMAIN rest /\ b \in DOMAIN rest /\ rest[a] = list[i] /\ rest[b] = list[j]
  BY <1>2, <1>4, <1>5, <1>6
<1>8. a <= b BY <1>2, <1>5
<1> HIDE DEF a, b
<1> QED BY <1>7, <1>8 DEF rest
=============================================================================
