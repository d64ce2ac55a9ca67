-------------------------- MODULE WriteQueueProofs --------------------------
(***************************************************************************)
(* For any number of threads: only the writer in front of the queue makes  *)
(* room or writes the log, and a write whose caller was told it succeeded  *)
(* stays in the log, a memtable or a table.  For any number of mounts: the *)
(* shutdown handshake of MonitorThread frees nothing a thread still uses.  *)
(***************************************************************************)
EXTENDS TLAPS, FiniteSetTheorems, WriteQueue, MonitorThread

WriterRecords ==
  [pc : {"idle", "queue", "room", "log", "settle"}, id : Nat, sync : BOOLEAN,
   force : BOOLEAN, delay : BOOLEAN, awake : BOOLEAN, done : BOOLEAN, ok : BOOLEAN,
   group : Seq(Threads), before : SUBSET Nat]

QueueType ==
  /\ writers \in Seq(Threads)
  /\ w \in [Threads -> WriterRecords]
  /\ count \in Nat
  /\ acked \subseteq [id : Nat, sync : BOOLEAN]

(* The queue holds the writers that are neither idle nor done, each once;   *)
(* a leader is in front of it and leads a prefix of it.                     *)
QueueShape ==
  /\ \A i, j \in 1 .. Len(writers) : writers[i] = writers[j] => i = j
  /\ \A i \in 1 .. Len(writers) :
       w[writers[i]].pc \in {"queue", "room", "log"} /\ ~w[writers[i]].done
  /\ \A t \in Threads : w[t].pc \in {"room", "log"} => Len(writers) > 0 /\ writers[1] = t
  /\ \A t \in Threads : w[t].pc = "log" =>
       \E n \in 1 .. Len(writers) : w[t].group = SubSeq(writers, 1, n)
  /\ \A t \in Threads : w[t].pc = "queue" /\ ~w[t].done =>
       \E i \in 1 .. Len(writers) : writers[i] = t

QueueInv == QueueType /\ QueueShape

(* A step that leaves the queue, and where its writers are, as they were.   *)
LEMMA SameQueue ==
  ASSUME QueueInv, writers' = writers, w' \in [Threads -> WriterRecords],
         count' \in Nat, (acked \subseteq [id : Nat, sync : BOOLEAN])',
         \A t \in Threads : /\ w'[t].pc = w[t].pc /\ w'[t].done = w[t].done
                            /\ w'[t].group = w[t].group
  PROVE  QueueInv'
<1>1. QueueType'
  BY Zenon DEF QueueInv, QueueType
<1>2. QueueShape'
  BY SMTT(30) DEF QueueInv, QueueType, QueueShape
<1> QED BY <1>1, <1>2, Zenon DEF QueueInv

(* PopGroup takes a prefix of the queue away, and tells those behind the    *)
(* leader that they are done; the requests stay what they were.             *)
LEMMA PopGroupEffect ==
  ASSUME QueueInv, NEW t \in Threads, NEW ok \in BOOLEAN, NEW n \in 1 .. Len(writers),
         w[t].pc \in {"room", "log"}, PopGroup(t, SubSeq(writers, 1, n), ok)
  PROVE  /\ Len(writers) > 0 /\ writers[1] = t
         /\ writers' \in Seq(Threads) /\ Len(writers') = Len(writers) - n
         /\ \A i \in 1 .. Len(writers') : writers'[i] = writers[i + n]
         /\ w' \in [Threads -> WriterRecords]
         /\ w'[t].pc \in {"idle", "settle"}
         /\ \A u \in Threads : u # t =>
              /\ w'[u].pc = w[u].pc /\ w'[u].id = w[u].id /\ w'[u].sync = w[u].sync
              /\ u \in {writers[i] : i \in 2 .. n} => w'[u].done /\ w'[u].ok = ok
              /\ u \notin {writers[i] : i \in 2 .. n} =>
                   w'[u].done = w[u].done /\ w'[u].ok = w[u].ok /\ w'[u].group = w[u].group
<1> DEFINE group == SubSeq(writers, 1, n)
           rest == SubSeq(writers, n + 1, Len(writers))
           back == {writers[i] : i \in 2 .. n}
           woken == WokenByLeader(w, rest, group, ok)
<1> USE DEF QueueInv, QueueType
<1>1. writers[1] = t /\ Len(writers) > 0
  BY Zenon DEF QueueShape
<1>2. /\ group \in Seq(Threads) /\ Len(group) = n
      /\ \A i \in 1 .. n : group[i] = writers[i]
  OBVIOUS
<1>3. Range(Tail(group)) = back
  <2>1. Tail(group) \in Seq(Threads) /\ Len(Tail(group)) = n - 1
    BY <1>2
  <2>2. \A i \in 1 .. n - 1 : Tail(group)[i] = writers[i + 1]
    BY <1>2
  <2>3. ASSUME NEW x \in Range(Tail(group)) PROVE x \in back
    BY <2>1, <2>2, <2>3 DEF Range
  <2>4. ASSUME NEW i \in 2 .. n PROVE writers[i] \in Range(Tail(group))
    <3>1. i - 1 \in 1 .. n - 1 /\ Tail(group)[i - 1] = writers[i]
      BY <2>2
    <3>2. DOMAIN Tail(group) = 1 .. n - 1
      BY <2>1
    <3> HIDE DEF group
    <3> QED BY <3>1, <3>2, Zenon DEF Range
  <2> QED BY <2>3, <2>4, Zenon
<1>4. /\ writers' = rest /\ rest \in Seq(Threads) /\ Len(rest) = Len(writers) - n
      /\ \A i \in 1 .. Len(rest) : rest[i] = writers[i + n]
  <2>1. writers' = rest
    BY <1>2, Zenon DEF PopGroup
  <2>2. rest \in Seq(Threads) /\ Len(rest) = Len(writers) - n
    OBVIOUS
  <2>3. \A i \in 1 .. Len(rest) : rest[i] = writers[i + n]
    BY <2>2
  <2> QED BY <2>1, <2>2, <2>3, Zenon
<1> DEFINE Told(u) == [w[u] EXCEPT !.done = TRUE, !.ok = ok, !.awake = TRUE]
           Awake(u) == [w[u] EXCEPT !.awake = TRUE]
<1>5. ASSUME NEW u \in Threads
      PROVE  /\ woken[u] = IF u \in back THEN Told(u)
                           ELSE IF rest # <<>> /\ u = Head(rest) THEN Awake(u) ELSE w[u]
             /\ woken = [v \in Threads |-> woken[v]]
  <2> HIDE DEF rest, group, back
  <2> QED BY <1>3, Zenon DEF WokenByLeader
<1>6. ASSUME NEW u \in Threads
      PROVE  /\ Told(u) \in WriterRecords /\ Told(u).pc = w[u].pc /\ Told(u).id = w[u].id
             /\ Told(u).sync = w[u].sync /\ Told(u).done /\ Told(u).ok = ok
             /\ Awake(u) \in WriterRecords /\ Awake(u).pc = w[u].pc /\ Awake(u).id = w[u].id
             /\ Awake(u).sync = w[u].sync /\ Awake(u).done = w[u].done
             /\ Awake(u).ok = w[u].ok /\ Awake(u).group = w[u].group
  <2>1. w[u] \in WriterRecords
    BY Zenon
  <2> QED BY <2>1, Zenon DEF WriterRecords
<1> HIDE DEF woken, rest, back, Told, Awake
<1>7. \A u \in Threads :
        /\ woken[u] \in WriterRecords
        /\ woken[u].pc = w[u].pc /\ woken[u].id = w[u].id /\ woken[u].sync = w[u].sync
        /\ u \in back => woken[u].done /\ woken[u].ok = ok
        /\ u \notin back => /\ woken[u].done = w[u].done /\ woken[u].ok = w[u].ok
                            /\ woken[u].group = w[u].group
  <2> TAKE u \in Threads
  <2>1. CASE u \in back
    BY <1>5, <1>6, <2>1, ZenonT(30)
  <2>2. CASE u \notin back /\ rest # <<>> /\ u = Head(rest)
    BY <1>5, <1>6, <2>2, ZenonT(30)
  <2>3. CASE u \notin back /\ ~(rest # <<>> /\ u = Head(rest))
    BY <1>5, <2>3, Zenon
  <2> QED BY <2>1, <2>2, <2>3, Zenon
<1>8. woken \in [Threads -> WriterRecords]
  <2>1. \A u \in Threads : woken[u] \in WriterRecords
    BY <1>7, Zenon
  <2> QED BY <1>1, <1>5, <2>1, Zenon
<1>9. /\ w' \in [Threads -> WriterRecords]
      /\ \A u \in Threads : u # t => w'[u] = woken[u]
      /\ w'[t].pc \in {"idle", "settle"}
  <2>1. w' = [woken EXCEPT ![t] = IF ok /\ w[t].id = 0
                                  THEN [@ EXCEPT !.pc = "settle", !.awake = TRUE] ELSE NoWriter]
    BY <1>4, Zenon DEF PopGroup, woken, rest
  <2>2. NoWriter \in WriterRecords /\ NoWriter.pc = "idle"
    BY DEF NoWriter, WriterRecords
  <2>3. /\ [woken[t] EXCEPT !.pc = "settle", !.awake = TRUE] \in WriterRecords
        /\ [woken[t] EXCEPT !.pc = "settle", !.awake = TRUE].pc = "settle"
    <3>1. woken[t] \in WriterRecords
      BY <1>7, Zenon
    <3> QED BY <3>1, Zenon DEF WriterRecords
  <2> QED BY <1>8, <2>1, <2>2, <2>3, Zenon
<1>10. /\ writers' \in Seq(Threads) /\ Len(writers') = Len(writers) - n
       /\ \A i \in 1 .. Len(writers') : writers'[i] = writers[i + n]
  BY <1>4, Zenon
<1>11. \A u \in Threads : u # t =>
         /\ w'[u].pc = w[u].pc /\ w'[u].id = w[u].id /\ w'[u].sync = w[u].sync
         /\ u \in back => w'[u].done /\ w'[u].ok = ok
         /\ u \notin back =>
              w'[u].done = w[u].done /\ w'[u].ok = w[u].ok /\ w'[u].group = w[u].group
  <2> TAKE u \in Threads
  <2> HAVE u # t
  <2>1. w'[u] = woken[u]
    BY <1>9, Zenon
  <2> QED BY <1>7, <2>1, Zenon
<1> USE DEF back
<1> QED BY ONLY <1>1, <1>9, <1>10, <1>11, Zenon

LEMMA PopGroupKeeps ==
  ASSUME QueueInv, NEW t \in Threads, NEW ok \in BOOLEAN, NEW n \in 1 .. Len(writers),
         w[t].pc \in {"room", "log"}, PopGroup(t, SubSeq(writers, 1, n), ok), count' = count
  PROVE  QueueInv'
<1> DEFINE back == {writers[i] : i \in 2 .. n}
<1>1. /\ Len(writers) > 0 /\ writers[1] = t
      /\ writers' \in Seq(Threads) /\ Len(writers') = Len(writers) - n
      /\ \A i \in 1 .. Len(writers') : writers'[i] = writers[i + n]
  BY PopGroupEffect
<1>2. w' \in [Threads -> WriterRecords] /\ w'[t].pc \in {"idle", "settle"}
  BY PopGroupEffect
<1>3. \A u \in Threads : u # t =>
        /\ w'[u].pc = w[u].pc
        /\ u \in back => w'[u].done
        /\ u \notin back => w'[u].done = w[u].done /\ w'[u].group = w[u].group
  BY PopGroupEffect
<1>4. writers \in Seq(Threads)
  BY Zenon DEF QueueInv, QueueType
<1>5. QueueType'
  <2>1. [id |-> w[t].id, sync |-> w[t].sync] \in [id : Nat, sync : BOOLEAN]
    BY Zenon DEF QueueInv, QueueType, WriterRecords
  <2>2. (acked \subseteq [id : Nat, sync : BOOLEAN])'
    BY <2>1, Zenon DEF PopGroup, QueueInv, QueueType
  <2> QED BY <1>1, <1>2, <2>2, Zenon DEF QueueInv, QueueType
<1>6. \A i \in 1 .. Len(writers') :
        /\ writers'[i] # t /\ writers'[i] \notin back /\ w'[writers'[i]].pc = "queue"
        /\ ~w'[writers'[i]].done
  <2> TAKE i \in 1 .. Len(writers')
  <2>1. i + n \in 1 .. Len(writers) /\ writers'[i] = writers[i + n]
    BY <1>1, <1>4
  <2>2. writers'[i] \in Threads /\ writers'[i] # t /\ writers'[i] \notin back
    BY <1>1, <1>4, <2>1 DEF QueueInv, QueueShape
  <2>3. w[writers'[i]].pc = "queue" /\ ~w[writers'[i]].done
    BY <1>1, <2>1, <2>2 DEF QueueInv, QueueShape
  <2> QED BY <1>3, <2>2, <2>3, Zenon
<1>7. \A u \in Threads : w'[u].pc \notin {"room", "log"}
  BY <1>1, <1>2, <1>3, Zenon DEF QueueInv, QueueShape
<1>8. ASSUME NEW u \in Threads, w'[u].pc = "queue", ~w'[u].done
      PROVE  \E i \in 1 .. Len(writers') : writers'[i] = u
  <2>1. u # t /\ u \notin back /\ w[u].pc = "queue" /\ ~w[u].done
    BY <1>2, <1>3, <1>8, Zenon
  <2>2. PICK k \in 1 .. Len(writers) : writers[k] = u
    BY <2>1, Zenon DEF QueueInv, QueueShape
  <2>3. k > n
    BY <1>1, <1>4, <2>1, <2>2
  <2>4. k - n \in 1 .. Len(writers') /\ writers'[k - n] = u
    BY <1>1, <1>4, <2>2, <2>3
  <2> QED BY <2>4, Zenon
<1>9. \A i, j \in 1 .. Len(writers') : writers'[i] = writers'[j] => i = j
  <2> TAKE i, j \in 1 .. Len(writers')
  <2>1. i + n \in 1 .. Len(writers) /\ j + n \in 1 .. Len(writers)
    BY <1>1, <1>4
  <2>2. writers'[i] = writers[i + n] /\ writers'[j] = writers[j + n]
    BY <1>1, Zenon
  <2>3. writers[i + n] = writers[j + n] => i + n = j + n
    BY <2>1, Zenon DEF QueueInv, QueueShape
  <2> QED BY <2>2, <2>3
<1> QED BY <1>5, <1>6, <1>7, <1>8, <1>9, Zenon DEF QueueInv, QueueShape

(* Write up to its wait puts the writer at the end of the queue.            *)
LEMMA EnqueueKeeps ==
  ASSUME QueueInv, NEW t \in Threads, NEW sync \in BOOLEAN, NEW null \in BOOLEAN,
         Enqueue(t, sync, null)
  PROVE  QueueInv'
<1> USE DEF QueueInv, QueueType
<1> DEFINE pc == IF writers = <<>> THEN "room" ELSE "queue"
           id == IF null THEN 0 ELSE count + 1
           front == writers = <<>>
           before == IF null THEN {a.id : a \in acked} ELSE {}
           r == [pc |-> pc, id |-> id, sync |-> sync, force |-> null, delay |-> ~null,
                 awake |-> front, done |-> FALSE, ok |-> TRUE, group |-> <<>>, before |-> before]
<1>1. r \in WriterRecords /\ ~r.done /\ r.pc = pc
  <2>1. {a.id : a \in acked} \in SUBSET Nat
    BY Zenon
  <2>2. pc \in {"queue", "room"} /\ id \in Nat /\ before \in SUBSET Nat
    BY <2>1
  <2>3. front \in BOOLEAN /\ (~null) \in BOOLEAN
    BY Zenon
  <2>4. <<>> \in Seq(Threads)
    OBVIOUS
  <2> HIDE DEF pc, id, front, before
  <2>5. r \in WriterRecords
    BY <2>2, <2>3, <2>4, Zenon DEF WriterRecords
  <2>6. ~r.done /\ r.pc = pc
    BY Zenon
  <2> QED BY <2>5, <2>6, Zenon
<1>2. /\ w' = [w EXCEPT ![t] = r] /\ writers' = Append(writers, t) /\ count' \in Nat
      /\ acked' = acked /\ w[t].pc = "idle"
  BY DEF Enqueue
<1> HIDE DEF r, id, front, before
<1>3. /\ writers' \in Seq(Threads) /\ Len(writers') = Len(writers) + 1
      /\ \A i \in 1 .. Len(writers) : writers'[i] = writers[i] /\ writers[i] # t
      /\ writers'[Len(writers) + 1] = t
  BY <1>2 DEF QueueShape
<1>4. QueueType'
  BY <1>1, <1>2, <1>3, Zenon
<1>5. w'[t] = r /\ \A u \in Threads : u # t => w'[u] = w[u]
  BY <1>2, Zenon
<1>6. QueueShape'
  <2>1. \A i, j \in 1 .. Len(writers') : writers'[i] = writers'[j] => i = j
    BY <1>3 DEF QueueShape
  <2>2. \A i \in 1 .. Len(writers') :
           w'[writers'[i]].pc \in {"queue", "room", "log"} /\ ~w'[writers'[i]].done
    BY <1>1, <1>3, <1>5 DEF QueueShape
  <2>3. \A u \in Threads : w'[u].pc \in {"room", "log"} => Len(writers') > 0 /\ writers'[1] = u
    <3> TAKE u \in Threads
    <3>1. CASE u = t
      BY <1>1, <1>3, <1>5, <3>1, SMTT(30) DEF pc
    <3>2. CASE u # t
      BY <1>3, <1>5, <3>2 DEF QueueShape
    <3> QED BY <3>1, <3>2, Zenon
  <2>4. \A u \in Threads : w'[u].pc = "log" =>
          \E n \in 1 .. Len(writers') : w'[u].group = SubSeq(writers', 1, n)
    <3> TAKE u \in Threads
    <3> HAVE w'[u].pc = "log"
    <3>1. u # t /\ w[u].pc = "log" /\ w'[u].group = w[u].group
      BY <1>1, <1>5, Zenon
    <3>2. PICK n \in 1 .. Len(writers) : w[u].group = SubSeq(writers, 1, n)
      BY <3>1, Zenon DEF QueueShape
    <3>3. SubSeq(writers', 1, n) = SubSeq(writers, 1, n)
      BY <1>3
    <3>4. n \in 1 .. Len(writers')
      BY <1>3
    <3> QED BY <3>1, <3>2, <3>3, <3>4, Zenon
  <2>5. \A u \in Threads : w'[u].pc = "queue" /\ ~w'[u].done =>
          \E i \in 1 .. Len(writers') : writers'[i] = u
    BY <1>3, <1>5 DEF QueueShape
  <2> QED BY <2>1, <2>2, <2>3, <2>4, <2>5, Zenon DEF QueueShape
<1> QED BY <1>4, <1>6, Zenon

(* A writer that wakes is done and leaves, or is in front and leads, or     *)
(* goes on waiting.                                                         *)
LEMMA WakesKeeps ==
  ASSUME QueueInv, NEW t \in Threads, Wakes(t)
  PROVE  QueueInv'
<1> USE DEF QueueInv, QueueType
<1>0. w[t] \in WriterRecords /\ w[t].pc = "queue" /\ writers' = writers /\ count' = count
  BY Zenon DEF Wakes
<1>1. CASE w[t].done /\ Returns(t, w[t].ok)
  <2> DEFINE r == IF w[t].ok /\ w[t].id = 0 THEN [w[t] EXCEPT !.pc = "settle", !.awake = TRUE]
                  ELSE NoWriter
  <2>1. r \in WriterRecords /\ r.pc \in {"idle", "settle"}
    <3>1. NoWriter \in WriterRecords /\ NoWriter.pc = "idle"
      BY DEF WriterRecords, NoWriter
    <3>2. /\ [w[t] EXCEPT !.pc = "settle", !.awake = TRUE] \in WriterRecords
          /\ [w[t] EXCEPT !.pc = "settle", !.awake = TRUE].pc = "settle"
      BY <1>0, Zenon DEF WriterRecords
    <3> QED BY <3>1, <3>2, Zenon
  <2>2. w' = [w EXCEPT ![t] = r]
    BY <1>1, Zenon DEF Returns
  <2>3. [id |-> w[t].id, sync |-> w[t].sync] \in [id : Nat, sync : BOOLEAN]
    BY <1>0, Zenon DEF WriterRecords
  <2>4. (acked \subseteq [id : Nat, sync : BOOLEAN])'
    BY <1>1, <2>3, Zenon DEF Returns
  <2> HIDE DEF r
  <2>5. QueueType'
    BY <1>0, <2>1, <2>2, <2>4, Zenon
  <2>6. \A i \in 1 .. Len(writers) : writers[i] \in Threads /\ writers[i] # t
    BY <1>1 DEF QueueShape
  <2>7. w'[t].pc \in {"idle", "settle"} /\ \A u \in Threads : u # t => w'[u] = w[u]
    BY <2>1, <2>2, Zenon
  <2>8. QueueShape'
    BY <1>0, <2>6, <2>7, SMTT(30) DEF QueueShape
  <2> QED BY <2>5, <2>8, Zenon
<1>2. CASE ~w[t].done /\ acked' = acked
           /\ w' = [w EXCEPT ![t].pc = IF Head(writers) = t THEN "room" ELSE "queue",
                             ![t].awake = Head(writers) = t]
  <2> DEFINE r == [w[t] EXCEPT !.pc = IF Head(writers) = t THEN "room" ELSE "queue",
                               !.awake = Head(writers) = t]
  <2>1. /\ r \in WriterRecords /\ r.pc = (IF Head(writers) = t THEN "room" ELSE "queue")
        /\ r.done = w[t].done
    BY <1>0, Zenon DEF WriterRecords
  <2>2. w' = [w EXCEPT ![t] = r]
    BY <1>2, Zenon
  <2>3. PICK k \in 1 .. Len(writers) : writers[k] = t
    BY <1>0, <1>2, Zenon DEF QueueShape
  <2>4. Len(writers) > 0 /\ Head(writers) = writers[1]
    BY <2>3
  <2> HIDE DEF r
  <2>5. QueueType'
    BY <1>0, <1>2, <2>1, <2>2, ZenonT(30)
  <2>6. /\ w'[t].pc = (IF writers[1] = t THEN "room" ELSE "queue") /\ ~w'[t].done
        /\ \A u \in Threads : u # t => w'[u] = w[u]
    BY <1>2, <2>1, <2>2, <2>4, Zenon
  <2>7. QueueShape'
    <3>1. \A u \in Threads : w'[u].pc \in {"room", "log"} => writers[1] = u
      BY <2>6, Zenon DEF QueueShape
    <3>2. \A u \in Threads : w'[u].pc = "log" => u # t /\ w[u].pc = "log"
      BY <2>6, Zenon
    <3>3. \A i \in 1 .. Len(writers) :
            w'[writers[i]].pc \in {"queue", "room", "log"} /\ ~w'[writers[i]].done
      BY <2>6, SMTT(30) DEF QueueShape
    <3>4. \A u \in Threads : w'[u].pc = "queue" /\ ~w'[u].done =>
            \E i \in 1 .. Len(writers) : writers[i] = u
      BY <2>3, <2>6, Zenon DEF QueueShape
    <3> QED BY <1>0, <2>4, <2>6, <3>1, <3>2, <3>3, <3>4, SMTT(30) DEF QueueShape
  <2> QED BY <2>5, <2>7, Zenon
<1> QED BY <1>1, <1>2, Zenon DEF Wakes

(* With room, a batch leads a prefix of the queue; a NULL batch is done.    *)
LEMMA LeadGroupKeeps ==
  ASSUME QueueInv, NEW t \in Threads, LeadGroup(t)
  PROVE  QueueInv'
<1> USE DEF QueueInv, QueueType
<1>0. w[t] \in WriterRecords /\ w[t].pc = "room" /\ Len(writers) > 0 /\ writers[1] = t
  BY Zenon DEF LeadGroup, AtFront, QueueShape
<1>1. CASE PopGroup(t, <<t>>, TRUE)
  <2>1. <<t>> = SubSeq(writers, 1, 1) /\ 1 \in 1 .. Len(writers)
    BY <1>0
  <2> QED BY <1>0, <1>1, <2>1, PopGroupKeeps, ZenonT(40) DEF LeadGroup
<1>2. ASSUME NEW n \in 1 .. Len(writers), writers' = writers, acked' = acked, count' = count,
             w' = [w EXCEPT ![t].pc = "log", ![t].group = SubSeq(writers, 1, n)]
      PROVE  QueueInv'
  <2> DEFINE r == [w[t] EXCEPT !.pc = "log", !.group = SubSeq(writers, 1, n)]
  <2>1. SubSeq(writers, 1, n) \in Seq(Threads)
    OBVIOUS
  <2>2. /\ r \in WriterRecords /\ r.pc = "log" /\ r.done = w[t].done
        /\ r.group = SubSeq(writers, 1, n)
    BY <1>0, <2>1, Zenon DEF WriterRecords
  <2>3. w' = [w EXCEPT ![t] = r]
    BY <1>2, Zenon
  <2> HIDE DEF r
  <2>4. QueueType'
    BY <1>2, <2>2, <2>3, Zenon
  <2>5. w'[t] = r /\ \A u \in Threads : u # t => w'[u] = w[u]
    BY <2>3, Zenon
  <2>6. QueueShape'
    <3>1. \A u \in Threads : w'[u].pc \in {"room", "log"} => writers[1] = u
      BY <1>0, <2>5, Zenon DEF QueueShape
    <3>2. \A u \in Threads : w'[u].pc = "log" =>
            \E k \in 1 .. Len(writers) : w'[u].group = SubSeq(writers, 1, k)
      <4> TAKE u \in Threads
      <4>1. CASE u = t
        BY <2>2, <2>5, <4>1, Zenon
      <4>2. CASE u # t
        BY <2>5, <4>2, SMTT(30) DEF QueueShape
      <4> QED BY <4>1, <4>2, Zenon
    <3>3. \A i \in 1 .. Len(writers) :
            w'[writers[i]].pc \in {"queue", "room", "log"} /\ ~w'[writers[i]].done
      BY <1>0, <2>2, <2>5, SMTT(30) DEF QueueShape
    <3>4. \A u \in Threads : w'[u].pc = "queue" /\ ~w'[u].done =>
            \E i \in 1 .. Len(writers) : writers[i] = u
      BY <2>2, <2>5, ZenonT(30) DEF QueueShape
    <3>5. \A i, j \in 1 .. Len(writers) : writers[i] = writers[j] => i = j
      BY Zenon DEF QueueShape
    <3>6. writers' = writers /\ Len(writers) > 0
      BY <1>0, <1>2, Zenon
    <3> QED BY <3>1, <3>2, <3>3, <3>4, <3>5, <3>6, ZenonT(60) DEF QueueShape
  <2> QED BY <2>4, <2>6, Zenon
<1>3. \A n \in Groups : n \in 1 .. Len(writers)
  BY Zenon DEF Groups
<1> QED BY <1>1, <1>2, <1>3, Zenon DEF LeadGroup

(* The leader writes the log and ends its group.                            *)
LEMMA WriteGroupKeeps ==
  ASSUME QueueInv, NEW t \in Threads, NEW added \in BOOLEAN, NEW synced \in BOOLEAN,
         WriteGroup(t, added, synced)
  PROVE  QueueInv'
<1> DEFINE ok == added /\ (w[t].sync => synced)
<1>1. PopGroup(t, w[t].group, ok) /\ w[t].pc = "log" /\ count' = count
  BY Zenon DEF WriteGroup
<1>2. PICK n \in 1 .. Len(writers) : w[t].group = SubSeq(writers, 1, n)
  BY <1>1, Zenon DEF QueueInv, QueueShape
<1>3. ok \in BOOLEAN
  BY Zenon
<1> HIDE DEF ok
<1> QED BY <1>1, <1>2, <1>3, PopGroupKeeps, Zenon

(* A caller of TEST_CompactMemTable is not in the queue when it waits for   *)
(* the memtable.                                                            *)
LEMMA SettleKeeps ==
  ASSUME QueueInv, NEW t \in Threads, SettleWaits(t)
  PROVE  QueueInv'
<1> USE DEF QueueInv, QueueType
<1> DEFINE r == IF ~has_imm THEN NoWriter ELSE [w[t] EXCEPT !.awake = FALSE]
<1>0. w[t] \in WriterRecords /\ w[t].pc = "settle"
  BY Zenon DEF SettleWaits
<1>1. r \in WriterRecords /\ r.pc \in {"idle", "settle"}
  <2>1. NoWriter \in WriterRecords /\ NoWriter.pc = "idle"
    BY DEF WriterRecords, NoWriter
  <2>2. [w[t] EXCEPT !.awake = FALSE] \in WriterRecords /\ [w[t] EXCEPT !.awake = FALSE].pc = "settle"
    BY <1>0, Zenon DEF WriterRecords
  <2> QED BY <2>1, <2>2, Zenon
<1>2. w' = [w EXCEPT ![t] = r] /\ writers' = writers /\ acked' = acked /\ count' = count
  BY Zenon DEF SettleWaits
<1> HIDE DEF r
<1>3. QueueType'
  BY <1>1, <1>2, Zenon
<1>4. w'[t] = r /\ \A u \in Threads : u # t => w'[u] = w[u]
  BY <1>2, Zenon
<1>5. \A i \in 1 .. Len(writers) : writers[i] \in Threads /\ writers[i] # t
  BY <1>0 DEF QueueShape
<1>6. QueueShape'
  BY <1>1, <1>2, <1>4, <1>5 DEF QueueShape
<1> QED BY <1>3, <1>6, Zenon

(* A step of one writer that only touches its flags.                        *)
LEMMA FlagKeeps ==
  ASSUME QueueInv, NEW t \in Threads, writers' = writers, count' = count, acked' = acked,
         \/ \E b \in BOOLEAN : w' = [w EXCEPT ![t].awake = b]
         \/ w' = [w EXCEPT ![t].delay = FALSE]
         \/ w' = [w EXCEPT ![t].force = FALSE]
  PROVE  QueueInv'
<1>0. w \in [Threads -> WriterRecords] /\ w[t] \in WriterRecords
  BY Zenon DEF QueueInv, QueueType
<1>1. ASSUME NEW r \in WriterRecords, w' = [w EXCEPT ![t] = r], r.pc = w[t].pc,
             r.done = w[t].done, r.group = w[t].group
      PROVE  QueueInv'
  <2>1. \A u \in Threads : w'[u] = IF u = t THEN r ELSE w[u]
    BY <1>0, <1>1, Zenon
  <2>2. w' \in [Threads -> WriterRecords] /\ count' \in Nat /\ (acked \subseteq [id : Nat, sync : BOOLEAN])'
    BY <1>0, <1>1, Zenon DEF QueueInv, QueueType
  <2> QED BY <1>1, <2>1, <2>2, SameQueue, Zenon
<1>2. ASSUME NEW b \in BOOLEAN, w' = [w EXCEPT ![t].awake = b] PROVE QueueInv'
  <2> DEFINE r == [w[t] EXCEPT !.awake = b]
  <2>1. r \in WriterRecords /\ r.pc = w[t].pc /\ r.done = w[t].done /\ r.group = w[t].group
    BY <1>0, Zenon DEF WriterRecords
  <2>2. w' = [w EXCEPT ![t] = r]
    BY <1>2, Zenon
  <2> HIDE DEF r
  <2> QED BY <1>1, <2>1, <2>2, Zenon
<1>3. CASE w' = [w EXCEPT ![t].delay = FALSE]
  <2> DEFINE r == [w[t] EXCEPT !.delay = FALSE]
  <2>1. r \in WriterRecords /\ r.pc = w[t].pc /\ r.done = w[t].done /\ r.group = w[t].group
    BY <1>0, Zenon DEF WriterRecords
  <2>2. w' = [w EXCEPT ![t] = r]
    BY <1>3, Zenon
  <2> HIDE DEF r
  <2> QED BY <1>1, <2>1, <2>2, Zenon
<1>4. CASE w' = [w EXCEPT ![t].force = FALSE]
  <2> DEFINE r == [w[t] EXCEPT !.force = FALSE]
  <2>1. r \in WriterRecords /\ r.pc = w[t].pc /\ r.done = w[t].done /\ r.group = w[t].group
    BY <1>0, Zenon DEF WriterRecords
  <2>2. w' = [w EXCEPT ![t] = r]
    BY <1>4, Zenon
  <2> HIDE DEF r
  <2> QED BY <1>1, <2>1, <2>2, Zenon
<1> QED BY <1>2, <1>3, <1>4, Zenon

(* SignalAll wakes writers where they are.                                  *)
LEMMA SignalKeeps ==
  ASSUME QueueInv, writers' = writers, count' = count, acked' = acked, w' \in {w, SignalAll(w)}
  PROVE  QueueInv'
<1>0. w \in [Threads -> WriterRecords]
  BY Zenon DEF QueueInv, QueueType
<1>1. ASSUME NEW t \in Threads
      PROVE  /\ [w[t] EXCEPT !.awake = TRUE] \in WriterRecords
             /\ [w[t] EXCEPT !.awake = TRUE].pc = w[t].pc
             /\ [w[t] EXCEPT !.awake = TRUE].done = w[t].done
             /\ [w[t] EXCEPT !.awake = TRUE].group = w[t].group
  <2>1. w[t] \in WriterRecords
    BY <1>0, Zenon
  <2> QED BY <2>1, Zenon DEF WriterRecords
<1>2. \A t \in Threads : /\ w'[t] \in WriterRecords /\ w'[t].pc = w[t].pc
                         /\ w'[t].done = w[t].done /\ w'[t].group = w[t].group
  BY <1>0, <1>1, Zenon DEF SignalAll
<1>3. w' \in [Threads -> WriterRecords]
  BY <1>0, <1>2, Zenon DEF SignalAll
<1>4. count' \in Nat /\ (acked \subseteq [id : Nat, sync : BOOLEAN])'
  BY Zenon DEF QueueInv, QueueType
<1> QED BY <1>2, <1>3, <1>4, SameQueue, Zenon

(* The shape of the queue survives every step of every thread.              *)
LEMMA QueueInductive ==
  ASSUME QueueInv, [Next]_vars
  PROVE  QueueInv'
<1>1. CASE UNCHANGED vars
  BY <1>1, SignalKeeps, Zenon DEF vars
<1>2. ASSUME NEW t \in Threads, NEW sync \in BOOLEAN, NEW null \in BOOLEAN, Enqueue(t, sync, null)
      PROVE  QueueInv'
  BY <1>2, EnqueueKeeps, Zenon
<1>3. ASSUME NEW t \in Threads, WriterStep(t) PROVE QueueInv'
  <2>1. CASE Wakes(t)
    BY <2>1, WakesKeeps, Zenon
  <2>2. CASE DelayOnce(t)
    BY <2>2, FlagKeeps, Zenon DEF DelayOnce
  <2>3. CASE WaitForRoom(t)
    BY <2>3, FlagKeeps, Zenon DEF WaitForRoom
  <2>4. CASE SwitchMemTable(t)
    BY <2>4, FlagKeeps, Zenon DEF SwitchMemTable
  <2>5. CASE SwitchFails(t)
    <3>1. w[t].pc = "room" /\ count' = count /\ PopGroup(t, <<t>>, FALSE)
      BY <2>5, Zenon DEF SwitchFails, AtFront
    <3>2. <<t>> = SubSeq(writers, 1, 1) /\ 1 \in 1 .. Len(writers)
      BY <3>1 DEF QueueInv, QueueType, QueueShape
    <3> QED BY <3>1, <3>2, PopGroupKeeps, Zenon
  <2>6. CASE LeadGroup(t)
    BY <2>6, LeadGroupKeeps, Zenon
  <2>7. CASE SettleWaits(t)
    BY <2>7, SettleKeeps, Zenon
  <2>8. CASE \E added, synced \in BOOLEAN : WriteGroup(t, added, synced)
    BY <2>8, WriteGroupKeeps, Zenon
  <2> QED BY <1>3, <2>1, <2>2, <2>3, <2>4, <2>5, <2>6, <2>7, <2>8, Zenon DEF WriterStep
<1>4. ASSUME NEW t \in Threads, SpuriousWakeup(t) PROVE QueueInv'
  BY <1>4, FlagKeeps, Zenon DEF SpuriousWakeup
<1>5. CASE BackgroundStep
  <2>1. writers' = writers /\ count' = count /\ acked' = acked /\ w' \in {w, SignalAll(w)}
    BY <1>5, Zenon DEF BackgroundStep, BackgroundCall, CompactMemTable, CompactLevel0, BackgroundFails,
                BackgroundEnd
  <2> QED BY <2>1, SignalKeeps, Zenon
<1>6. CASE Close \/ CloseEnds
  BY <1>6, SignalKeeps, Zenon DEF Close, CloseEnds
<1> QED BY <1>1, <1>2, <1>3, <1>4, <1>5, <1>6, Zenon DEF Next

(* Whatever groups form, fail, wait for room or are woken for nothing, only *)
(* the writer in front of the queue is past the wait of DBImpl::Write: two  *)
(* threads never make room or write the log together, although the leader   *)
(* has let the mutex go.                                                    *)
THEOREM LeaderAlwaysInFront == Spec => []LeaderInFront
<1>1. Init => QueueInv
  <2>1. NoWriter \in WriterRecords /\ NoWriter.pc = "idle"
    BY DEF WriterRecords, NoWriter
  <2> QED BY <2>1 DEF Init, QueueInv, QueueType, QueueShape
<1>2. QueueInv /\ [Next]_vars => QueueInv'
  BY QueueInductive, Zenon
<1>3. QueueInv => LeaderInFront
  BY DEF QueueInv, QueueType, QueueShape, LeaderInFront
<1> QED BY <1>1, <1>2, <1>3, PTL DEF Spec
-----------------------------------------------------------------------------
(* The writes that a reader can find.                                       *)
Applied == tables \cup Range(imm) \cup Range(mem)

Ascending(s) == \A i, j \in 1 .. Len(s) : i < j => s[i] < s[j]

(* Tables, the old memtable and the new one hold writes in the order of     *)
(* their arrival, and the log has what the new one has.                     *)
KeptData ==
  /\ log \in Seq(Nat) /\ mem \in Seq(Nat) /\ imm \in Seq(Nat) /\ tables \subseteq Nat
  /\ ~has_imm => imm = <<>>
  /\ Ascending(imm) /\ Ascending(mem)
  /\ \A x \in Range(imm), y \in Range(mem) : x < y
  /\ \A x \in tables, y \in Range(imm) \cup Range(mem) : x < y
  /\ Range(mem) \subseteq Range(log)
  /\ \A x \in Applied : x <= count

(* The writes in the queue arrived after those that were applied, and wait  *)
(* in the order of their arrival.                                           *)
Waiting ==
  /\ \A i \in 1 .. Len(writers) : w[writers[i]].id <= count
  /\ \A i, j \in 1 .. Len(writers) :
       i < j /\ w[writers[i]].id # 0 /\ w[writers[j]].id # 0 =>
         w[writers[i]].id < w[writers[j]].id
  /\ \A i \in 1 .. Len(writers), x \in Applied :
       w[writers[i]].id # 0 => x < w[writers[i]].id

(* What was acknowledged, and what a leader has told a writer is done, is   *)
(* kept as it was asked for.                                                *)
Answers ==
  /\ \A a \in acked : a.id \in Applied /\ (a.sync => a.id \in durable \cup tables)
  /\ \A t \in Threads : w[t].pc = "queue" /\ w[t].done /\ w[t].ok /\ w[t].id # 0 =>
       w[t].id \in Applied /\ (w[t].sync => w[t].id \in durable \cup tables)

(* Behind a leader that does not sync nobody wants to.                      *)
Joined ==
  \A t \in Threads : w[t].pc = "log" =>
    \A i \in 1 .. Len(w[t].group) : w[w[t].group[i]].sync => w[t].sync

KeptInv == KeptData /\ Waiting /\ Answers /\ Joined

(* A finite set of numbers can be listed in ascending order.                *)
LEMMA OrderExists ==
  ASSUME NEW n \in Nat, NEW places \in SUBSET (1 .. n)
  PROVE  /\ Cardinality(places) \in Nat
         /\ InOrder(places) \in [1 .. Cardinality(places) -> places]
         /\ \A i, j \in 1 .. Cardinality(places) : i < j => InOrder(places)[i] < InOrder(places)[j]
         /\ \A p \in places : \E i \in 1 .. Cardinality(places) : InOrder(places)[i] = p
<1> DEFINE c == Cardinality(places)
           upTo(p) == {q \in places : q <= p}
           rank == [p \in places |-> Cardinality(upTo(p))]
<1>0. 1 \in Int /\ n \in Int /\ \A p \in places : p \in Int
  OBVIOUS
<1>1. IsFiniteSet(places) /\ c \in Nat
  <2>1. IsFiniteSet(1 .. n)
    BY <1>0, FS_Interval, Zenon
  <2> QED BY <2>1, FS_Subset, FS_CardinalityType, Zenon
<1>2. ASSUME NEW p \in places
      PROVE  IsFiniteSet(upTo(p)) /\ Cardinality(upTo(p)) \in 1 .. c
  <2>1. upTo(p) \in SUBSET places /\ p \in upTo(p)
    OBVIOUS
  <2>2. IsFiniteSet(upTo(p)) /\ Cardinality(upTo(p)) <= c /\ Cardinality(upTo(p)) \in Nat
    BY <1>1, <2>1, FS_Subset, FS_CardinalityType, Zenon
  <2>3. Cardinality(upTo(p)) # 0
    BY <2>1, <2>2, FS_EmptySet, Zenon
  <2> QED BY <1>1, <2>2, <2>3
<1>3. ASSUME NEW p \in places, NEW q \in places, p < q
      PROVE  Cardinality(upTo(p)) < Cardinality(upTo(q))
  <2>1. upTo(p) \in SUBSET upTo(q) /\ q \in upTo(q) /\ q \notin upTo(p)
    <3>1. \A r \in places : r <= p => r <= q
      BY <1>0, <1>3
    <3>2. q <= q /\ ~(q <= p)
      BY <1>0, <1>3
    <3> QED BY <3>1, <3>2, Zenon
  <2>2. Cardinality(upTo(p)) <= Cardinality(upTo(q)) /\ Cardinality(upTo(p)) # Cardinality(upTo(q))
    BY <1>2, <2>1, FS_Subset, Zenon
  <2> QED BY <1>2, <2>2
<1>4. rank \in [places -> 1 .. c]
  BY <1>2, Zenon
<1>5. \A p, q \in places : p < q => rank[p] < rank[q]
  BY <1>3, Zenon
<1> HIDE DEF rank
<1>6. rank \in Injection(places, 1 .. c)
  <2>1. \A p, q \in places : rank[p] = rank[q] => p = q
    BY <1>0, <1>4, <1>5
  <2> QED BY <1>4, <2>1, Zenon DEF Injection, IsInjective
<1>7. IsFiniteSet(1 .. c) /\ Cardinality(1 .. c) = c
  BY <1>1, FS_Interval
<1>8. rank \in Surjection(places, 1 .. c)
  BY <1>6, <1>7, FS_Injection, Zenon
<1>9. \A i \in 1 .. c : \E p \in places : rank[p] = i
  BY <1>8, Zenon DEF Surjection
<1> DEFINE order == [i \in 1 .. c |-> CHOOSE p \in places : rank[p] = i]
<1>10. \A i \in 1 .. c : order[i] \in places /\ rank[order[i]] = i
  BY <1>9, Zenon
<1>11. order \in [1 .. c -> places] /\ \A i, j \in 1 .. c : i < j => order[i] < order[j]
  <2>1. order \in [1 .. c -> places]
    BY <1>10, Zenon
  <2> HIDE DEF order
  <2>2. ASSUME NEW i \in 1 .. c, NEW j \in 1 .. c, i < j, ~(order[i] < order[j]) PROVE FALSE
    <3>0. order[i] \in Int /\ order[j] \in Int
      BY <1>0, <1>10, Zenon
    <3>1. order[i] = order[j] \/ order[j] < order[i]
      BY <2>2, <3>0
    <3>2. rank[order[i]] = rank[order[j]] \/ rank[order[j]] < rank[order[i]]
      <4>1. CASE order[i] = order[j]
        BY <4>1, Zenon
      <4>2. CASE order[j] < order[i]
        BY <1>5, <1>10, <4>2, Zenon
      <4> QED BY <3>1, <4>1, <4>2, Zenon
    <3> QED BY <1>1, <1>10, <2>2, <3>2
  <2> QED BY <2>1, <2>2, Zenon
<1> DEFINE Ascends(o) == \A i, j \in 1 .. c : i < j => o[i] < o[j]
           chosen == InOrder(places)
<1>12. chosen \in [1 .. c -> places] /\ Ascends(chosen)
  <2>1. chosen = CHOOSE o \in [1 .. c -> places] : Ascends(o)
    BY Zenon DEF InOrder
  <2>2. \E o \in [1 .. c -> places] : Ascends(o)
    BY <1>11, Zenon
  <2> HIDE DEF Ascends, chosen
  <2> QED BY <2>1, <2>2, Zenon
<1> HIDE DEF chosen
<1>13. chosen \in Injection(1 .. c, places)
  <2>1. ASSUME NEW i \in 1 .. c, NEW j \in 1 .. c, chosen[i] = chosen[j], i # j PROVE FALSE
    <3>1. i < j \/ j < i
      BY <1>1, <2>1
    <3>2. chosen[i] < chosen[j] \/ chosen[j] < chosen[i]
      BY <1>12, <3>1, Zenon
    <3>3. chosen[i] \in Int
      BY <1>0, <1>12, Zenon
    <3> QED BY <2>1, <3>2, <3>3
  <2> QED BY <1>12, <2>1, Zenon DEF Injection, IsInjective
<1>14. chosen \in Surjection(1 .. c, places)
  BY <1>1, <1>7, <1>13, FS_Injection, Zenon
<1>15. \A p \in places : \E i \in 1 .. c : chosen[i] = p
  BY <1>14, Zenon DEF Surjection
<1> QED BY <1>1, <1>12, <1>15, Zenon DEF chosen
(* The joint batch of a group holds the writes of its members, in order.    *)
LEMMA GroupIds ==
  ASSUME QueueInv, Waiting, NEW n \in 1 .. Len(writers)
  PROVE  /\ Ids(SubSeq(writers, 1, n)) \in Seq(Nat)
         /\ Ascending(Ids(SubSeq(writers, 1, n)))
         /\ \A x : x \in Range(Ids(SubSeq(writers, 1, n))) <=>
                   \E i \in 1 .. n : x = w[writers[i]].id /\ w[writers[i]].id # 0
<1> DEFINE group == SubSeq(writers, 1, n)
           places == Batches(group)
           c == Cardinality(places)
           order == InOrder(places)
           ids == Ids(group)
<1>1. /\ writers \in Seq(Threads) /\ n \in Nat
      /\ \A i \in 1 .. n : i \in 1 .. Len(writers) /\ writers[i] \in Threads /\ w[writers[i]].id \in Nat
  BY DEF QueueInv, QueueType, WriterRecords
<1>2. DOMAIN group = 1 .. n /\ \A i \in 1 .. n : group[i] = writers[i]
  BY <1>1
<1>3. places = {i \in 1 .. n : w[writers[i]].id # 0}
  <2>1. \A i \in 1 .. n : w[writers[i]].pc # "idle"
    BY <1>1, Zenon DEF QueueInv, QueueShape
  <2> HIDE DEF group
  <2> QED BY <1>2, <2>1, Zenon DEF Batches, NullBatch
<1>4. ids = [i \in 1 .. c |-> w[group[order[i]]].id]
  BY Zenon DEF Ids
<1>5. places \in SUBSET (1 .. n)
  BY <1>3, Zenon
<1> HIDE DEF places, group, ids
<1>6. /\ c \in Nat /\ order \in [1 .. c -> places]
      /\ \A i, j \in 1 .. c : i < j => order[i] < order[j]
      /\ \A p \in places : \E i \in 1 .. c : order[i] = p
  BY <1>1, <1>5, OrderExists, Zenon
<1> HIDE DEF order, c
<1>7. \A i \in 1 .. c : /\ order[i] \in 1 .. n /\ w[writers[order[i]]].id # 0
                        /\ ids[i] = w[writers[order[i]]].id /\ ids[i] \in Nat
  BY <1>1, <1>2, <1>3, <1>4, <1>6, Zenon
<1>8. ids \in Seq(Nat) /\ Len(ids) = c /\ DOMAIN ids = 1 .. c
  <2>1. ids \in [1 .. c -> Nat]
    BY <1>4, <1>7, Zenon
  <2> QED BY <1>6, <2>1
<1>9. Ascending(ids)
  <2> SUFFICES ASSUME NEW i \in 1 .. c, NEW j \in 1 .. c, i < j
               PROVE  ids[i] < ids[j]
    BY <1>8, Zenon DEF Ascending
  <2>1. order[i] < order[j]
    BY <1>6, Zenon
  <2>2. /\ order[i] \in 1 .. Len(writers) /\ order[j] \in 1 .. Len(writers)
        /\ w[writers[order[i]]].id # 0 /\ w[writers[order[j]]].id # 0
    BY <1>1, <1>7, Zenon
  <2>3. w[writers[order[i]]].id < w[writers[order[j]]].id
    BY <2>1, <2>2, Zenon DEF Waiting
  <2>4. ids[i] = w[writers[order[i]]].id /\ ids[j] = w[writers[order[j]]].id
    BY <1>7, Zenon
  <2> QED BY <2>3, <2>4, Zenon
<1>10. ASSUME NEW x, x \in Range(ids)
       PROVE  \E i \in 1 .. n : x = w[writers[i]].id /\ w[writers[i]].id # 0
  BY <1>7, <1>8, <1>10, Zenon DEF Range
<1>11. ASSUME NEW i \in 1 .. n, w[writers[i]].id # 0
       PROVE  w[writers[i]].id \in Range(ids)
  <2>1. PICK k \in 1 .. c : order[k] = i
    BY <1>3, <1>6, <1>11, Zenon
  <2> QED BY <1>7, <1>8, <2>1, Zenon DEF Range
<1> QED BY <1>8, <1>9, <1>10, <1>11, Zenon DEF ids, group

LEMMA Concatenation ==
  ASSUME NEW s \in Seq(Nat), NEW u \in Seq(Nat)
  PROVE  /\ s \o u \in Seq(Nat)
         /\ Range(s \o u) = Range(s) \cup Range(u)
         /\ Ascending(s) /\ Ascending(u) /\ (\A x \in Range(s), y \in Range(u) : x < y) =>
              Ascending(s \o u)
<1> DEFINE su == s \o u
<1>1. /\ su \in Seq(Nat) /\ Len(su) = Len(s) + Len(u) /\ DOMAIN su = 1 .. Len(s) + Len(u)
      /\ \A i \in 1 .. Len(s) + Len(u) : su[i] = IF i <= Len(s) THEN s[i] ELSE u[i - Len(s)]
  OBVIOUS
<1>2. /\ DOMAIN s = 1 .. Len(s) /\ DOMAIN u = 1 .. Len(u) /\ Len(s) \in Nat /\ Len(u) \in Nat
      /\ \A i \in 1 .. Len(s) : s[i] \in Range(s)
      /\ \A i \in 1 .. Len(u) : u[i] \in Range(u)
  BY DEF Range
<1> HIDE DEF su
<1>3. ASSUME NEW x \in Range(su) PROVE x \in Range(s) \cup Range(u)
  <2>1. PICK i \in 1 .. Len(s) + Len(u) : x = su[i]
    BY <1>1, Zenon DEF Range
  <2>2. CASE i <= Len(s)
    BY <1>1, <1>2, <2>1, <2>2
  <2>3. CASE ~(i <= Len(s))
    <3>1. i - Len(s) \in 1 .. Len(u)
      BY <1>2, <2>3
    <3> QED BY <1>1, <1>2, <2>1, <2>3, <3>1, Zenon
  <2> QED BY <2>2, <2>3, Zenon
<1>4. ASSUME NEW i \in 1 .. Len(s) PROVE s[i] \in Range(su)
  <2>1. i \in 1 .. Len(s) + Len(u) /\ su[i] = s[i]
    BY <1>1, <1>2, SMTT(30)
  <2> QED BY <1>1, <2>1, Zenon DEF Range
<1>5. ASSUME NEW i \in 1 .. Len(u) PROVE u[i] \in Range(su)
  <2> DEFINE k == i + Len(s)
  <2>1. k \in 1 .. Len(s) + Len(u) /\ ~(k <= Len(s)) /\ k - Len(s) = i
    BY <1>2
  <2> HIDE DEF k
  <2>2. su[k] = u[k - Len(s)]
    BY <1>1, <2>1, Zenon
  <2> QED BY <1>1, <2>1, <2>2, Zenon DEF Range
<1>6. Range(su) = Range(s) \cup Range(u)
  BY <1>2, <1>3, <1>4, <1>5, Zenon DEF Range
<1>7. ASSUME Ascending(s), Ascending(u), \A x \in Range(s), y \in Range(u) : x < y,
             NEW i \in 1 .. Len(su), NEW j \in 1 .. Len(su), i < j
      PROVE  su[i] < su[j]
  <2>1. CASE j <= Len(s)
    BY <1>1, <1>2, <1>7, <2>1 DEF Ascending
  <2>2. CASE i <= Len(s) /\ ~(j <= Len(s))
    <3>1. i \in 1 .. Len(s) /\ j - Len(s) \in 1 .. Len(u)
      BY <1>1, <1>2, <2>2
    <3> QED BY <1>1, <1>2, <1>7, <2>2, <3>1, Zenon
  <2>3. CASE ~(i <= Len(s))
    <3> DEFINE a == i - Len(s)
               b == j - Len(s)
    <3>1. a \in 1 .. Len(u) /\ b \in 1 .. Len(u) /\ a < b /\ ~(j <= Len(s))
      BY <1>1, <1>2, <1>7, <2>3, SMTT(30)
    <3>2. su[i] = u[a] /\ su[j] = u[b]
      BY <1>1, <2>3, <3>1, Zenon
    <3> HIDE DEF a, b
    <3>3. u[a] < u[b]
      BY <1>7, <3>1, Zenon DEF Ascending
    <3> QED BY <3>2, <3>3, Zenon
  <2> QED BY <1>1, <1>2, <1>7, <2>1, <2>2, <2>3, Zenon
<1> QED BY <1>1, <1>6, <1>7, Zenon DEF su, Ascending

(* Empty sequences, for the memtables and the log after a switch.           *)
LEMMA EmptyMemTable ==
  <<>> \in Seq(Nat) /\ Range(<<>>) = {} /\ Ascending(<<>>)
BY DEF Range, Ascending

(* What is in a sequence of numbers is a number.                            *)
LEMMA RangeNat ==
  ASSUME NEW s \in Seq(Nat)
  PROVE  Range(s) \subseteq Nat
<1>1. DOMAIN s = 1 .. Len(s) /\ \A i \in 1 .. Len(s) : s[i] \in Nat
  OBVIOUS
<1> QED BY <1>1, Zenon DEF Range

(* What a leader ends keeps the answers true: the writes of its group are   *)
(* held if they are reported to be, and are older than those behind it.     *)
LEMMA PopKept ==
  ASSUME QueueInv, KeptInv, NEW t \in Threads, NEW ok \in BOOLEAN,
         NEW n \in 1 .. Len(writers), w[t].pc \in {"room", "log"},
         PopGroup(t, SubSeq(writers, 1, n), ok), count' = count,
         Applied \subseteq Applied', durable \cup tables \subseteq durable' \cup tables',
         \A x \in Applied' : x \in Applied \/ \E i \in 1 .. n : x = w[writers[i]].id /\ x # 0,
         ok => \A i \in 1 .. n : w[writers[i]].id # 0 =>
                 /\ w[writers[i]].id \in Applied'
                 /\ w[writers[i]].sync => w[writers[i]].id \in durable' \cup tables'
  PROVE  Waiting' /\ Answers' /\ Joined'
<1> DEFINE back == {writers[i] : i \in 2 .. n}
<1>1. /\ Len(writers) > 0 /\ writers[1] = t
      /\ writers' \in Seq(Threads) /\ Len(writers') = Len(writers) - n
      /\ \A i \in 1 .. Len(writers') : writers'[i] = writers[i + n]
      /\ w'[t].pc \in {"idle", "settle"}
  BY PopGroupEffect
<1>2. \A u \in Threads : u # t =>
        /\ w'[u].pc = w[u].pc /\ w'[u].id = w[u].id /\ w'[u].sync = w[u].sync
        /\ u \in back => w'[u].done /\ w'[u].ok = ok
        /\ u \notin back => w'[u].done = w[u].done /\ w'[u].ok = w[u].ok
  BY PopGroupEffect
<1>3. writers \in Seq(Threads) /\ w \in [Threads -> WriterRecords] /\ count \in Nat
  BY Zenon DEF QueueInv, QueueType
<1>4. \A i \in 1 .. Len(writers') :
        /\ i + n \in 1 .. Len(writers) /\ writers[i + n] \in Threads
        /\ w'[writers'[i]].id = w[writers[i + n]].id
  <2> TAKE i \in 1 .. Len(writers')
  <2>1. i + n \in 1 .. Len(writers) /\ writers'[i] = writers[i + n]
    BY <1>1, <1>3
  <2>2. writers[i + n] \in Threads /\ writers[i + n] # t
    BY <1>1, <1>3, <2>1 DEF QueueInv, QueueShape
  <2> QED BY <1>2, <2>1, <2>2, Zenon
<1>5. \A i \in 1 .. Len(writers) : w[writers[i]].id \in Nat
  BY <1>3, SMTT(30) DEF WriterRecords
<1>6. Waiting'
  <2>1. \A i \in 1 .. Len(writers') : w'[writers'[i]].id <= count'
    BY <1>4, Zenon DEF KeptInv, Waiting
  <2>2. ASSUME NEW i \in 1 .. Len(writers'), NEW j \in 1 .. Len(writers'), i < j,
               w'[writers'[i]].id # 0, w'[writers'[j]].id # 0
        PROVE  w'[writers'[i]].id < w'[writers'[j]].id
    <3>1. i + n < j + n
      BY <1>1, <1>3, <2>2
    <3> QED BY <1>4, <2>2, <3>1, Zenon DEF KeptInv, Waiting
  <2>3. ASSUME NEW i \in 1 .. Len(writers'), NEW x \in Applied', w'[writers'[i]].id # 0
        PROVE  x < w'[writers'[i]].id
    <3>1. CASE x \in Applied
      BY <1>4, <2>3, <3>1, Zenon DEF KeptInv, Waiting
    <3>2. CASE \E k \in 1 .. n : x = w[writers[k]].id /\ x # 0
      <4>1. PICK k \in 1 .. n : x = w[writers[k]].id /\ x # 0
        BY <3>2, Zenon
      <4>2. k \in 1 .. Len(writers) /\ k < i + n
        BY <1>1, <1>3, SMTT(30)
      <4> QED BY <1>4, <2>3, <4>1, <4>2, Zenon DEF KeptInv, Waiting
    <3> QED BY <3>1, <3>2, Zenon
  <2> QED BY <2>1, <2>2, <2>3, Zenon DEF Waiting
<1>7. Answers'
  <2>1. ASSUME NEW a \in acked'
        PROVE  a.id \in Applied' /\ (a.sync => a.id \in durable' \cup tables')
    <3>1. CASE a \in acked
      BY <3>1, Zenon DEF KeptInv, Answers
    <3>2. CASE a \notin acked
      <4>1. ok /\ w[t].id # 0 /\ a = [id |-> w[t].id, sync |-> w[t].sync]
        BY <2>1, <3>2, Zenon DEF PopGroup
      <4>2. 1 \in 1 .. n /\ writers[1] = t
        BY <1>1
      <4> QED BY <4>1, <4>2, Zenon
    <3> QED BY <3>1, <3>2, Zenon
  <2>2. ASSUME NEW u \in Threads, w'[u].pc = "queue", w'[u].done, w'[u].ok, w'[u].id # 0
        PROVE  w'[u].id \in Applied' /\ (w'[u].sync => w'[u].id \in durable' \cup tables')
    <3>1. u # t
      BY <1>1, <2>2, Zenon
    <3>2. CASE u \in back
      <4>1. PICK k \in 2 .. n : u = writers[k]
        BY <3>2, Zenon
      <4>2. ok /\ k \in 1 .. n /\ w'[u].id = w[writers[k]].id /\ w'[u].sync = w[writers[k]].sync
        BY <1>2, <2>2, <3>1, <3>2, <4>1, SMTT(30)
      <4> QED BY <2>2, <4>2, Zenon
    <3>3. CASE u \notin back
      <4>1. /\ w[u].pc = "queue" /\ w[u].done /\ w[u].ok /\ w[u].id # 0
            /\ w'[u].id = w[u].id /\ w'[u].sync = w[u].sync
        BY <1>2, <2>2, <3>1, <3>3, Zenon
      <4>2. w[u].id \in Applied /\ (w[u].sync => w[u].id \in durable \cup tables)
        BY <4>1, Zenon DEF KeptInv, Answers
      <4> QED BY <4>1, <4>2, Zenon
    <3> QED BY <3>2, <3>3, Zenon
  <2> QED BY <2>1, <2>2, Zenon DEF Answers
<1>8. Joined'
  <2>1. \A u \in Threads : w'[u].pc # "log"
    BY <1>1, <1>2 DEF QueueInv, QueueShape
  <2> QED BY <2>1, Zenon DEF Joined
<1> QED BY <1>6, <1>7, <1>8, Zenon

(* A step that leaves the queue alone, lets no writer that waits change its *)
(* request, and tells nobody that a write is done.                          *)
LEMMA StillKept ==
  ASSUME QueueInv, QueueInv', KeptInv, writers' = writers, count' = count, Applied' = Applied,
         durable \cup tables \subseteq durable' \cup tables',
         \A u \in Threads : w'[u].pc \in {"queue", "room", "log"} =>
            w'[u].id = w[u].id /\ w'[u].sync = w[u].sync,
         \A u \in Threads : w'[u].pc = "queue" /\ w'[u].done /\ w'[u].ok =>
            w[u].pc = "queue" /\ w[u].done /\ w[u].ok,
         \A a \in acked' : \/ a \in acked
                           \/ a.id \in Applied /\ (a.sync => a.id \in durable \cup tables)
  PROVE  Waiting' /\ Answers'
<1>1. \A i \in 1 .. Len(writers) : writers[i] \in Threads /\ w'[writers[i]].id = w[writers[i]].id
  BY DEF QueueInv, QueueType, QueueShape
<1>2. Waiting'
  <2>1. \A i \in 1 .. Len(writers) : w'[writers[i]].id <= count
    BY <1>1, Zenon DEF KeptInv, Waiting
  <2>2. \A i, j \in 1 .. Len(writers) :
          i < j /\ w'[writers[i]].id # 0 /\ w'[writers[j]].id # 0 =>
            w'[writers[i]].id < w'[writers[j]].id
    BY <1>1, Zenon DEF KeptInv, Waiting
  <2>3. \A i \in 1 .. Len(writers), x \in Applied :
          w'[writers[i]].id # 0 => x < w'[writers[i]].id
    BY <1>1, Zenon DEF KeptInv, Waiting
  <2> QED BY <2>1, <2>2, <2>3, Zenon DEF Waiting
<1>3. Answers'
  <2>1. \A a \in acked' : a.id \in Applied' /\ (a.sync => a.id \in durable' \cup tables')
    BY Zenon DEF KeptInv, Answers
  <2>2. ASSUME NEW u \in Threads, w'[u].pc = "queue", w'[u].done, w'[u].ok, w'[u].id # 0
        PROVE  w'[u].id \in Applied' /\ (w'[u].sync => w'[u].id \in durable' \cup tables')
    <3>1. w[u].pc = "queue" /\ w[u].done /\ w[u].ok
      BY <2>2, Zenon
    <3>2. w'[u].id = w[u].id /\ w'[u].sync = w[u].sync
      BY <2>2, Zenon
    <3>3. w[u].id \in Applied /\ (w[u].sync => w[u].id \in durable \cup tables)
      BY <2>2, <3>1, <3>2, Zenon DEF KeptInv, Answers
    <3> QED BY <3>2, <3>3, Zenon
  <2> QED BY <2>1, <2>2, Zenon DEF Answers
<1> QED BY <1>2, <1>3, Zenon

LEMMA StillJoined ==
  ASSUME QueueInv, QueueInv', KeptInv, writers' = writers,
         \A u \in Threads : w'[u].pc \in {"queue", "room", "log"} =>
            w'[u].id = w[u].id /\ w'[u].sync = w[u].sync,
         \A u \in Threads : w'[u].pc = "log" => w[u].pc = "log" /\ w'[u].group = w[u].group
  PROVE  Joined'
<1> SUFFICES ASSUME NEW u \in Threads, w'[u].pc = "log", NEW i \in 1 .. Len(w'[u].group),
                    w'[w'[u].group[i]].sync
             PROVE  w'[u].sync
  BY Zenon DEF Joined
<1>1. w[u].pc = "log" /\ w'[u].group = w[u].group /\ w'[u].sync = w[u].sync
  BY Zenon
<1>2. PICK n \in 1 .. Len(writers) : w[u].group = SubSeq(writers, 1, n)
  BY <1>1, Zenon DEF QueueInv, QueueShape
<1>3. i \in 1 .. Len(writers) /\ w[u].group[i] = writers[i]
  BY <1>1, <1>2, SMTT(30) DEF QueueInv, QueueType
<1>4. writers[i] \in Threads /\ w'[writers[i]].sync = w[writers[i]].sync
  BY <1>3, SMTT(30) DEF QueueInv, QueueType, QueueShape
<1>5. i \in 1 .. Len(w[u].group) /\ w[w[u].group[i]].sync
  BY <1>1, <1>3, <1>4, Zenon
<1> QED BY <1>1, <1>5, Zenon DEF KeptInv, Joined

(* What a step on the flags of writers leaves as it was.                    *)
SameRequests ==
  \A u \in Threads :
    /\ w'[u].pc = w[u].pc /\ w'[u].done = w[u].done /\ w'[u].group = w[u].group
    /\ w'[u].id = w[u].id /\ w'[u].sync = w[u].sync /\ w'[u].ok = w[u].ok

LEMMA FlagSame ==
  ASSUME QueueInv, NEW t \in Threads,
         \/ \E b \in BOOLEAN : w' = [w EXCEPT ![t].awake = b]
         \/ w' = [w EXCEPT ![t].delay = FALSE]
         \/ w' = [w EXCEPT ![t].force = FALSE]
  PROVE  SameRequests
<1>0. w \in [Threads -> WriterRecords] /\ w[t] \in WriterRecords
  BY Zenon DEF QueueInv, QueueType
<1>1. ASSUME NEW r, w' = [w EXCEPT ![t] = r], r.pc = w[t].pc, r.done = w[t].done,
             r.group = w[t].group, r.id = w[t].id, r.sync = w[t].sync, r.ok = w[t].ok
      PROVE  SameRequests
  <2>1. \A u \in Threads : w'[u] = IF u = t THEN r ELSE w[u]
    BY <1>0, <1>1, Zenon
  <2> QED BY <1>1, <2>1, Zenon DEF SameRequests
<1>2. ASSUME NEW b \in BOOLEAN, w' = [w EXCEPT ![t].awake = b] PROVE SameRequests
  <2> DEFINE r == [w[t] EXCEPT !.awake = b]
  <2>1. /\ r.pc = w[t].pc /\ r.done = w[t].done /\ r.group = w[t].group
        /\ r.id = w[t].id /\ r.sync = w[t].sync /\ r.ok = w[t].ok
    BY <1>0, Zenon DEF WriterRecords
  <2>2. w' = [w EXCEPT ![t] = r]
    BY <1>2, Zenon
  <2> HIDE DEF r
  <2> QED BY <1>1, <2>1, <2>2, Zenon
<1>3. CASE w' = [w EXCEPT ![t].delay = FALSE]
  <2> DEFINE r == [w[t] EXCEPT !.delay = FALSE]
  <2>1. /\ r.pc = w[t].pc /\ r.done = w[t].done /\ r.group = w[t].group
        /\ r.id = w[t].id /\ r.sync = w[t].sync /\ r.ok = w[t].ok
    BY <1>0, Zenon DEF WriterRecords
  <2>2. w' = [w EXCEPT ![t] = r]
    BY <1>3, Zenon
  <2> HIDE DEF r
  <2> QED BY <1>1, <2>1, <2>2, Zenon
<1>4. CASE w' = [w EXCEPT ![t].force = FALSE]
  <2> DEFINE r == [w[t] EXCEPT !.force = FALSE]
  <2>1. /\ r.pc = w[t].pc /\ r.done = w[t].done /\ r.group = w[t].group
        /\ r.id = w[t].id /\ r.sync = w[t].sync /\ r.ok = w[t].ok
    BY <1>0, Zenon DEF WriterRecords
  <2>2. w' = [w EXCEPT ![t] = r]
    BY <1>4, Zenon
  <2> HIDE DEF r
  <2> QED BY <1>1, <2>1, <2>2, Zenon
<1> QED BY <1>2, <1>3, <1>4, Zenon

LEMMA SignalSame ==
  ASSUME QueueInv, w' \in {w, SignalAll(w)}
  PROVE  SameRequests
<1>1. ASSUME NEW u \in Threads
      PROVE  LET r == [w[u] EXCEPT !.awake = TRUE]
             IN /\ r.pc = w[u].pc /\ r.done = w[u].done /\ r.group = w[u].group
                /\ r.id = w[u].id /\ r.sync = w[u].sync /\ r.ok = w[u].ok
  <2>1. w[u] \in WriterRecords
    BY Zenon DEF QueueInv, QueueType
  <2> QED BY <2>1, Zenon DEF WriterRecords
<1> QED BY <1>1, Zenon DEF SignalAll, SameRequests

LEMMA RequestsKept ==
  ASSUME QueueInv, QueueInv', KeptInv, writers' = writers, count' = count, acked' = acked,
         SameRequests, Applied' = Applied, durable \cup tables \subseteq durable' \cup tables'
  PROVE  Waiting' /\ Answers' /\ Joined'
<1>1. Waiting' /\ Answers'
  BY StillKept, Zenon DEF SameRequests
<1>2. Joined'
  BY StillJoined, Zenon DEF SameRequests
<1> QED BY <1>1, <1>2, Zenon

(* Steps that leave the memtables, the tables and the log alone.            *)
LEMMA SameData ==
  ASSUME KeptInv, UNCHANGED db, count' = count
  PROVE  KeptData' /\ Applied' = Applied /\ durable \cup tables = durable' \cup tables'
<1>1. Applied' = Applied /\ durable \cup tables = durable' \cup tables'
  BY Zenon DEF Applied, db
<1>2. KeptData'
  BY <1>1, Zenon DEF KeptInv, KeptData, Ascending, db
<1> QED BY <1>1, <1>2, Zenon

LEMMA EnqueueKept ==
  ASSUME QueueInv, KeptInv, NEW t \in Threads, NEW sync \in BOOLEAN, NEW null \in BOOLEAN,
         Enqueue(t, sync, null)
  PROVE  KeptInv'
<1>1. /\ w[t].pc = "idle" /\ count \in Nat /\ count' = count + 1
      /\ writers \in Seq(Threads) /\ w \in [Threads -> WriterRecords]
  BY Zenon DEF Enqueue, QueueInv, QueueType
<1>2. /\ Len(writers') = Len(writers) + 1 /\ writers'[Len(writers) + 1] = t
      /\ \A i \in 1 .. Len(writers) : writers'[i] = writers[i] /\ writers[i] # t
  BY <1>1, SMTT(30) DEF Enqueue, QueueInv, QueueShape
<1>3. /\ w'[t].id \in {0, count + 1} /\ w'[t].pc \in {"room", "queue"} /\ ~w'[t].done
      /\ \A u \in Threads : u # t => w'[u] = w[u]
  BY <1>1, Zenon DEF Enqueue
<1>4. /\ Applied' = Applied /\ durable' = durable /\ tables' = tables /\ acked' = acked
      /\ mem' = mem /\ imm' = imm /\ log' = log /\ has_imm' = has_imm
  BY Zenon DEF Enqueue, db, Applied
<1>5. \A x \in Applied : x \in Nat /\ x <= count
  BY RangeNat, Zenon DEF KeptInv, KeptData, Applied
<1>6. KeptData'
  BY <1>1, <1>4, <1>5 DEF KeptInv, KeptData, Ascending
<1>7. \A i \in 1 .. Len(writers) :
        /\ writers[i] \in Threads /\ w[writers[i]].id \in Nat /\ w[writers[i]].id <= count
        /\ w'[writers'[i]].id = w[writers[i]].id
  <2> SUFFICES ASSUME NEW i \in 1 .. Len(writers)
               PROVE  /\ writers[i] \in Threads /\ w[writers[i]].id \in Nat
                      /\ w[writers[i]].id <= count
                      /\ w'[writers'[i]].id = w[writers[i]].id
    BY Zenon
  <2>1. writers[i] \in Threads /\ writers'[i] = writers[i] /\ writers[i] # t
    BY <1>1, <1>2
  <2> DEFINE u == writers[i]
  <2> HIDE DEF u
  <2>2. u \in Threads /\ u = writers[i] /\ writers'[i] = u /\ u # t
    BY <2>1, Zenon DEF u
  <2>3. w'[u] = w[u]
    BY <1>3, <2>2, Zenon
  <2>4. w[u].id \in Nat
    BY <1>1, <2>2, Zenon DEF WriterRecords
  <2>5. w[writers[i]].id <= count
    BY Zenon DEF KeptInv, Waiting
  <2> QED BY <2>2, <2>3, <2>4, <2>5, Zenon
<1>8. Waiting'
  <2>1. \A i \in 1 .. Len(writers') : i \in 1 .. Len(writers) \/ (i = Len(writers) + 1)
    BY <1>1, <1>2
  <2>2. ASSUME NEW i \in 1 .. Len(writers') PROVE w'[writers'[i]].id <= count'
    <3>1. CASE i \in 1 .. Len(writers)
      BY <1>1, <1>7, <3>1
    <3>2. CASE i = Len(writers) + 1
      BY <1>1, <1>2, <1>3, <3>2
    <3> QED BY <2>1, <3>1, <3>2, Zenon
  <2>3. ASSUME NEW i \in 1 .. Len(writers'), NEW j \in 1 .. Len(writers'), i < j,
               w'[writers'[i]].id # 0, w'[writers'[j]].id # 0
        PROVE  w'[writers'[i]].id < w'[writers'[j]].id
    <3>1. i \in 1 .. Len(writers)
      BY <1>1, <1>2, <2>3
    <3>2. CASE j \in 1 .. Len(writers)
      BY <1>7, <2>3, <3>1, <3>2, Zenon DEF KeptInv, Waiting
    <3>3. CASE j = Len(writers) + 1
      BY <1>1, <1>2, <1>3, <1>7, <2>3, <3>1, <3>3
    <3> QED BY <2>1, <3>2, <3>3, Zenon
  <2>4. ASSUME NEW i \in 1 .. Len(writers'), NEW x \in Applied', w'[writers'[i]].id # 0
        PROVE  x < w'[writers'[i]].id
    <3>1. CASE i \in 1 .. Len(writers)
      BY <1>4, <1>7, <2>4, <3>1, Zenon DEF KeptInv, Waiting
    <3>2. CASE i = Len(writers) + 1
      BY <1>1, <1>2, <1>3, <1>4, <1>5, <2>4, <3>2, SMTT(30)
    <3> QED BY <2>1, <3>1, <3>2, Zenon
  <2> QED BY <2>2, <2>3, <2>4, Zenon DEF Waiting
<1>9. Answers'
  BY <1>3, <1>4, Zenon DEF KeptInv, Answers
<1>10. Joined'
  <2> SUFFICES ASSUME NEW u \in Threads, w'[u].pc = "log", NEW i \in 1 .. Len(w'[u].group),
                      w'[w'[u].group[i]].sync
               PROVE  w'[u].sync
    BY Zenon DEF Joined
  <2>1. u # t /\ w'[u] = w[u]
    BY <1>3, Zenon
  <2>2. PICK n \in 1 .. Len(writers) : w[u].group = SubSeq(writers, 1, n)
    BY <2>1, Zenon DEF QueueInv, QueueShape
  <2>3. i \in 1 .. Len(writers) /\ w[u].group[i] = writers[i]
    BY <1>1, <2>1, <2>2, SMTT(30)
  <2>4. w'[writers[i]] = w[writers[i]]
    BY <1>2, <1>3, <1>7, <2>3, Zenon
  <2>5. i \in 1 .. Len(w[u].group) /\ w[w[u].group[i]].sync /\ w[u].pc = "log"
    BY <2>1, <2>3, <2>4, Zenon
  <2>6. w[u].sync
    BY <2>5, Zenon DEF KeptInv, Joined
  <2> QED BY <2>1, <2>6, Zenon
<1> QED BY <1>6, <1>8, <1>9, <1>10, Zenon DEF KeptInv

(* Who returns from the wait and was told that its write is done.           *)
LEMMA WakesKept ==
  ASSUME QueueInv, KeptInv, NEW t \in Threads, Wakes(t)
  PROVE  KeptInv'
<1>1. /\ w[t].pc = "queue" /\ writers' = writers /\ count' = count /\ UNCHANGED db
      /\ w \in [Threads -> WriterRecords] /\ w[t] \in WriterRecords
  BY Zenon DEF Wakes, QueueInv, QueueType
<1>2. QueueInv'
  BY WakesKeeps, Zenon
<1>3. KeptData' /\ Applied' = Applied /\ durable \cup tables = durable' \cup tables'
  BY <1>1, SameData, Zenon
<1>4. CASE w[t].done /\ Returns(t, w[t].ok)
  <2>1. w'[t].pc \in {"idle", "settle"} /\ \A u \in Threads : u # t => w'[u] = w[u]
    <3> DEFINE r == IF w[t].ok /\ w[t].id = 0 THEN [w[t] EXCEPT !.pc = "settle", !.awake = TRUE]
                    ELSE NoWriter
    <3>1. r.pc \in {"idle", "settle"}
      <4>1. [w[t] EXCEPT !.pc = "settle", !.awake = TRUE].pc = "settle"
        BY <1>1, Zenon DEF WriterRecords
      <4> QED BY <4>1, Zenon DEF NoWriter
    <3>2. w' = [w EXCEPT ![t] = r]
      BY <1>4, Zenon DEF Returns
    <3> HIDE DEF r
    <3> QED BY <1>1, <3>1, <3>2, Zenon
  <2>2. ASSUME NEW a \in acked', a \notin acked
        PROVE  a.id \in Applied /\ (a.sync => a.id \in durable \cup tables)
    <3>1. w[t].ok /\ w[t].id # 0 /\ a = [id |-> w[t].id, sync |-> w[t].sync]
      BY <1>4, <2>2, Zenon DEF Returns
    <3>2. w[t].id \in Applied /\ (w[t].sync => w[t].id \in durable \cup tables)
      BY <1>1, <1>4, <3>1, Zenon DEF KeptInv, Answers
    <3> QED BY <3>1, <3>2, Zenon
  <2>3. \A u \in Threads : w'[u].pc \in {"queue", "room", "log"} => w'[u] = w[u]
    BY <2>1, Zenon
  <2>4. Waiting' /\ Answers'
    BY <1>1, <1>2, <1>3, <2>2, <2>3, StillKept, Zenon
  <2>5. Joined'
    BY <1>1, <1>2, <2>3, StillJoined, Zenon
  <2> QED BY <1>3, <2>4, <2>5, Zenon DEF KeptInv
<1>5. CASE ~w[t].done /\ acked' = acked
           /\ w' = [w EXCEPT ![t].pc = IF Head(writers) = t THEN "room" ELSE "queue",
                             ![t].awake = Head(writers) = t]
  <2> DEFINE r == [w[t] EXCEPT !.pc = IF Head(writers) = t THEN "room" ELSE "queue",
                               !.awake = Head(writers) = t]
  <2>1. /\ r.pc \in {"room", "queue"} /\ r.done = w[t].done /\ r.id = w[t].id /\ r.sync = w[t].sync
        /\ r.ok = w[t].ok
    BY <1>1, Zenon DEF WriterRecords
  <2>2. w' = [w EXCEPT ![t] = r]
    BY <1>5, Zenon
  <2> HIDE DEF r
  <2>3. w'[t] = r /\ \A u \in Threads : u # t => w'[u] = w[u]
    BY <1>1, <2>2, Zenon
  <2>4. Waiting' /\ Answers'
    BY <1>1, <1>2, <1>3, <1>5, <2>1, <2>3, StillKept, Zenon
  <2>5. Joined'
    BY <1>1, <1>2, <2>1, <2>3, StillJoined, Zenon
  <2> QED BY <1>3, <2>4, <2>5, Zenon DEF KeptInv
<1> QED BY <1>4, <1>5, Zenon DEF Wakes

(* A group is formed only of writers that do not ask for more than its      *)
(* leader.                                                                  *)
LEMMA LeadGroupKept ==
  ASSUME QueueInv, KeptInv, NEW t \in Threads, LeadGroup(t)
  PROVE  KeptInv'
<1>1. /\ w[t].pc = "room" /\ count' = count /\ UNCHANGED db /\ Len(writers) > 0 /\ writers[1] = t
      /\ writers \in Seq(Threads) /\ w \in [Threads -> WriterRecords] /\ w[t] \in WriterRecords
  BY Zenon DEF LeadGroup, AtFront, QueueInv, QueueType, QueueShape
<1>2. QueueInv'
  BY LeadGroupKeeps, Zenon
<1>3. KeptData' /\ Applied' = Applied /\ durable \cup tables = durable' \cup tables'
  BY <1>1, SameData, Zenon
<1>4. CASE NullBatch(t) /\ PopGroup(t, <<t>>, TRUE)
  <2>1. <<t>> = SubSeq(writers, 1, 1) /\ 1 \in 1 .. Len(writers)
    BY <1>1
  <2>2. \A i \in 1 .. 1 : w[writers[i]].id = 0
    BY <1>1, <1>4 DEF NullBatch
  <2>3. PopGroup(t, SubSeq(writers, 1, 1), TRUE)
    BY <1>4, <2>1, Zenon
  <2>4. Waiting' /\ Answers' /\ Joined'
    BY <1>1, <1>3, <2>1, <2>2, <2>3, PopKept, Zenon
  <2> QED BY <1>3, <2>4, Zenon DEF KeptInv
<1>5. ASSUME NEW n \in Groups, writers' = writers, acked' = acked,
             w' = [w EXCEPT ![t].pc = "log", ![t].group = SubSeq(writers, 1, n)]
      PROVE  KeptInv'
  <2> DEFINE r == [w[t] EXCEPT !.pc = "log", !.group = SubSeq(writers, 1, n)]
  <2>1. /\ r.pc = "log" /\ r.id = w[t].id /\ r.sync = w[t].sync /\ r.group = SubSeq(writers, 1, n)
    BY <1>1, Zenon DEF WriterRecords
  <2>2. w' = [w EXCEPT ![t] = r]
    BY <1>5, Zenon
  <2> HIDE DEF r
  <2>3. w'[t] = r /\ \A u \in Threads : u # t => w'[u] = w[u]
    BY <1>1, <2>2, Zenon
  <2>4. Waiting' /\ Answers'
    BY <1>1, <1>2, <1>3, <1>5, <2>1, <2>3, StillKept, Zenon
  <2>5. n \in 1 .. Len(writers) /\ \A i \in 2 .. n : w[writers[i]].sync => w[t].sync
    BY <1>1, <1>5, Zenon DEF Groups, MayJoin
  <2>6. Joined'
    <3> SUFFICES ASSUME NEW u \in Threads, w'[u].pc = "log", NEW i \in 1 .. Len(w'[u].group),
                        w'[w'[u].group[i]].sync
                 PROVE  w'[u].sync
      BY Zenon DEF Joined
    <3>1. u = t
      BY <1>1, <2>3, Zenon DEF QueueInv, QueueShape
    <3>2. w'[u].group = SubSeq(writers, 1, n) /\ w'[u].sync = w[t].sync
      BY <2>1, <2>3, <3>1, Zenon
    <3>3. i \in 1 .. n /\ w'[u].group[i] = writers[i] /\ writers[i] \in Threads
      BY <1>1, <2>5, <3>2
    <3>4. w'[writers[i]].sync = w[writers[i]].sync
      BY <2>1, <2>3, <3>3, Zenon
    <3>5. CASE i = 1
      BY <1>1, <3>2, <3>3, <3>4, <3>5, Zenon
    <3>6. CASE i \in 2 .. n
      BY <2>5, <3>2, <3>3, <3>4, <3>6, Zenon
    <3> QED BY <3>3, <3>5, <3>6
  <2> QED BY <1>3, <2>4, <2>6, Zenon DEF KeptInv
<1> QED BY <1>4, <1>5, Zenon DEF LeadGroup

(* The log, its sync and the memtable under the leader of a group.          *)
LEMMA WriteGroupKept ==
  ASSUME QueueInv, KeptInv, NEW t \in Threads, NEW added \in BOOLEAN, NEW synced \in BOOLEAN,
         WriteGroup(t, added, synced)
  PROVE  KeptInv'
<1> DEFINE ok == added /\ (w[t].sync => synced)
           ids == Ids(w[t].group)
<1>1. /\ w[t].pc = "log" /\ count' = count /\ PopGroup(t, w[t].group, ok)
      /\ imm' = imm /\ has_imm' = has_imm /\ tables' = tables
      /\ log' = IF added THEN log \o ids ELSE log
      /\ durable' = IF w[t].sync /\ ok THEN durable \cup Range(log') ELSE durable
      /\ mem' = IF ok THEN mem \o ids ELSE mem
  BY Zenon DEF WriteGroup, Inserts
<1>2. PICK n \in 1 .. Len(writers) : w[t].group = SubSeq(writers, 1, n)
  BY <1>1, Zenon DEF QueueInv, QueueShape
<1>3. /\ ids \in Seq(Nat) /\ Ascending(ids)
      /\ \A x : x \in Range(ids) <=>
                \E i \in 1 .. n : x = w[writers[i]].id /\ w[writers[i]].id # 0
  BY <1>2, GroupIds, Zenon DEF KeptInv
<1>4. ok \in BOOLEAN /\ (ok => added)
  BY Zenon
<1>5. log \in Seq(Nat) /\ mem \in Seq(Nat) /\ imm \in Seq(Nat) /\ tables \subseteq Nat
  BY Zenon DEF KeptInv, KeptData
<1> HIDE DEF ok, ids
<1>6. \A i \in 1 .. n : i \in 1 .. Len(writers)
  BY SMTT(30) DEF QueueInv, QueueType
<1>7. \A x \in Applied, y \in Range(ids) : x < y
  <2> TAKE x \in Applied, y \in Range(ids)
  <2>1. PICK i \in 1 .. n : y = w[writers[i]].id /\ w[writers[i]].id # 0
    BY <1>3, Zenon
  <2>2. i \in 1 .. Len(writers)
    BY <1>6, Zenon
  <2>3. x < w[writers[i]].id
    BY <2>1, <2>2, Zenon DEF KeptInv, Waiting
  <2> QED BY <2>1, <2>3, Zenon
<1>8. \A y \in Range(ids) : y <= count
  BY <1>3, <1>6, SMTT(30) DEF KeptInv, Waiting
<1>9. /\ log \o ids \in Seq(Nat) /\ Range(log \o ids) = Range(log) \cup Range(ids)
      /\ mem \o ids \in Seq(Nat) /\ Range(mem \o ids) = Range(mem) \cup Range(ids)
  BY <1>3, <1>5, Concatenation, Zenon
<1>10. Ascending(mem \o ids)
  <2>1. Ascending(mem) /\ \A x \in Range(mem) : x \in Applied
    BY Zenon DEF KeptInv, KeptData, Applied
  <2> QED BY <1>3, <1>5, <1>7, <2>1, Concatenation, Zenon
<1>11. Range(mem') = (IF ok THEN Range(mem) \cup Range(ids) ELSE Range(mem))
  BY <1>1, <1>9, Zenon
<1>12. Range(log') = (IF added THEN Range(log) \cup Range(ids) ELSE Range(log))
  BY <1>1, <1>9, Zenon
<1>13. Applied' = (IF ok THEN Applied \cup Range(ids) ELSE Applied)
  BY <1>1, <1>11, Zenon DEF Applied
<1>14. KeptData'
  <2>1. /\ log' \in Seq(Nat) /\ mem' \in Seq(Nat) /\ imm' \in Seq(Nat) /\ tables' \subseteq Nat
        /\ ~has_imm' => imm' = <<>>
    BY <1>1, <1>5, <1>9, Zenon DEF KeptInv, KeptData
  <2>2. Ascending(imm') /\ Ascending(mem')
    BY <1>1, <1>10, Zenon DEF KeptInv, KeptData
  <2>3. \A x \in Range(imm'), y \in Range(mem') : x < y
    BY <1>1, <1>7, <1>11, Zenon DEF KeptInv, KeptData, Applied
  <2>4. \A x \in tables', y \in Range(imm') \cup Range(mem') : x < y
    BY <1>1, <1>7, <1>11, Zenon DEF KeptInv, KeptData, Applied
  <2>5. Range(mem') \subseteq Range(log')
    BY <1>4, <1>11, <1>12, Zenon DEF KeptInv, KeptData
  <2>6. \A x \in Applied' : x <= count'
    BY <1>1, <1>8, <1>13, Zenon DEF KeptInv, KeptData
  <2> QED BY <2>1, <2>2, <2>3, <2>4, <2>5, <2>6, Zenon DEF KeptData, Ascending
<1>15. Waiting' /\ Answers' /\ Joined'
  <2>1. Applied \subseteq Applied' /\ durable \cup tables \subseteq durable' \cup tables'
    BY <1>1, <1>13, Zenon
  <2>2. \A x \in Applied' : x \in Applied \/ \E i \in 1 .. n : x = w[writers[i]].id /\ x # 0
    BY <1>3, <1>13, Zenon
  <2>3. ASSUME ok, NEW i \in 1 .. n, w[writers[i]].id # 0
        PROVE  /\ w[writers[i]].id \in Applied'
               /\ w[writers[i]].sync => w[writers[i]].id \in durable' \cup tables'
    <3>1. w[writers[i]].id \in Range(ids)
      BY <1>3, <2>3, Zenon
    <3>2. w[writers[i]].sync => w[t].sync
      <4>1. i \in 1 .. Len(w[t].group) /\ w[t].group[i] = writers[i]
        BY <1>2, SMTT(30) DEF QueueInv, QueueType
      <4> QED BY <1>1, <4>1, Zenon DEF KeptInv, Joined
    <3>3. w[t].sync => w[writers[i]].id \in durable'
      BY <1>1, <1>4, <1>12, <2>3, <3>1, Zenon
    <3> QED BY <1>13, <2>3, <3>1, <3>2, <3>3, Zenon
  <2>4. PopGroup(t, SubSeq(writers, 1, n), ok)
    BY <1>1, <1>2, Zenon
  <2> QED BY <1>1, <1>4, <2>1, <2>2, <2>3, <2>4, PopKept, SMTT(30)
<1> QED BY <1>14, <1>15, Zenon DEF KeptInv

(* The memtable becomes the old one, which was empty, and a new log starts. *)
LEMMA SwitchKept ==
  ASSUME QueueInv, QueueInv', KeptInv, NEW t \in Threads, SwitchMemTable(t)
  PROVE  KeptInv'
<1>1. /\ log' = <<>> /\ mem' = <<>> /\ imm' = mem /\ has_imm' = TRUE /\ tables' = tables
      /\ durable' = durable /\ count' = count /\ writers' = writers /\ acked' = acked
      /\ w' = [w EXCEPT ![t].force = FALSE] /\ ~has_imm
  BY Zenon DEF SwitchMemTable, MustWait
<1>2. imm = <<>>
  BY <1>1, Zenon DEF KeptInv, KeptData
<1>3. Range(mem') = {} /\ Range(imm) = {} /\ Range(imm') = Range(mem)
  BY <1>1, <1>2, EmptyMemTable, Zenon
<1>4. Applied' = Applied
  BY <1>1, <1>3, Zenon DEF Applied
<1>5. KeptData'
  <2>1. /\ log' \in Seq(Nat) /\ mem' \in Seq(Nat) /\ imm' \in Seq(Nat) /\ tables' \subseteq Nat
        /\ Ascending(mem') /\ Ascending(imm')
    BY <1>1, EmptyMemTable, Zenon DEF KeptInv, KeptData
  <2>2. \A x \in tables', y \in Range(imm') \cup Range(mem') : x < y
    BY <1>1, <1>3, Zenon DEF KeptInv, KeptData
  <2> QED BY <1>1, <1>3, <1>4, <2>1, <2>2, Zenon DEF KeptInv, KeptData, Ascending
<1>6. SameRequests
  BY <1>1, FlagSame, Zenon
<1>7. Waiting' /\ Answers' /\ Joined'
  BY <1>1, <1>4, <1>6, RequestsKept, Zenon
<1> QED BY <1>5, <1>7, Zenon DEF KeptInv

(* A table takes the place of the old memtable.                             *)
LEMMA CompactKept ==
  ASSUME QueueInv, QueueInv', KeptInv, NEW level0 \in BOOLEAN, CompactMemTable(level0)
  PROVE  KeptInv'
<1>1. /\ log' = log /\ mem' = mem /\ imm' = <<>> /\ has_imm' = FALSE
      /\ tables' = tables \cup Range(imm)
      /\ durable' = durable /\ count' = count /\ writers' = writers /\ acked' = acked
      /\ w' \in {w, SignalAll(w)}
  BY Zenon DEF CompactMemTable
<1>2. Range(imm') = {}
  BY <1>1, EmptyMemTable, Zenon
<1>3. Applied' = Applied
  BY <1>1, <1>2, Zenon DEF Applied
<1>4. KeptData'
  <2>1. /\ log' \in Seq(Nat) /\ mem' \in Seq(Nat) /\ imm' \in Seq(Nat)
        /\ Ascending(mem') /\ Ascending(imm')
    BY <1>1, EmptyMemTable, Zenon DEF KeptInv, KeptData
  <2>2. tables' \subseteq Nat
    BY <1>1, RangeNat, Zenon DEF KeptInv, KeptData
  <2>3. \A x \in tables', y \in Range(imm') \cup Range(mem') : x < y
    BY <1>1, <1>2, Zenon DEF KeptInv, KeptData
  <2> QED BY <1>1, <1>2, <1>3, <2>1, <2>2, <2>3, Zenon DEF KeptInv, KeptData, Ascending
<1>5. SameRequests
  BY <1>1, SignalSame, Zenon
<1>6. Waiting' /\ Answers' /\ Joined'
  BY <1>1, <1>3, <1>5, RequestsKept, Zenon
<1> QED BY <1>4, <1>6, Zenon DEF KeptInv

LEMMA KeptInductive ==
  ASSUME QueueInv, KeptInv, [Next]_vars
  PROVE  KeptInv'
<1>0. QueueInv'
  BY QueueInductive, Zenon
<1>1. ASSUME writers' = writers, count' = count, acked' = acked, UNCHANGED db, SameRequests
      PROVE  KeptInv'
  <2>1. KeptData' /\ Applied' = Applied /\ durable \cup tables = durable' \cup tables'
    BY <1>1, SameData, Zenon
  <2>2. Waiting' /\ Answers' /\ Joined'
    BY <1>0, <1>1, <2>1, RequestsKept, Zenon
  <2> QED BY <2>1, <2>2, Zenon DEF KeptInv
<1>2. CASE UNCHANGED vars
  BY <1>1, <1>2, SignalSame, Zenon DEF vars
<1>3. ASSUME NEW t \in Threads, NEW sync \in BOOLEAN, NEW null \in BOOLEAN, Enqueue(t, sync, null)
      PROVE  KeptInv'
  BY <1>3, EnqueueKept, Zenon
<1>4. ASSUME NEW t \in Threads, WriterStep(t) PROVE KeptInv'
  <2>1. CASE Wakes(t)
    BY <2>1, WakesKept, Zenon
  <2>2. CASE DelayOnce(t)
    <3>1. SameRequests
      BY <2>2, FlagSame, Zenon DEF DelayOnce
    <3> QED BY <1>1, <2>2, <3>1, Zenon DEF DelayOnce
  <2>3. CASE WaitForRoom(t)
    <3>1. SameRequests
      BY <2>3, FlagSame, Zenon DEF WaitForRoom
    <3> QED BY <1>1, <2>3, <3>1, Zenon DEF WaitForRoom
  <2>4. CASE SwitchMemTable(t)
    BY <1>0, <2>4, SwitchKept, Zenon
  <2>5. CASE SwitchFails(t)
    <3>1. /\ w[t].pc = "room" /\ count' = count /\ UNCHANGED db
          /\ PopGroup(t, <<t>>, FALSE)
      BY <2>5, Zenon DEF SwitchFails, AtFront
    <3>2. <<t>> = SubSeq(writers, 1, 1) /\ 1 \in 1 .. Len(writers)
      BY <3>1 DEF QueueInv, QueueType, QueueShape
    <3>3. KeptData' /\ Applied' = Applied /\ durable \cup tables = durable' \cup tables'
      BY <3>1, SameData, Zenon
    <3>4. PopGroup(t, SubSeq(writers, 1, 1), FALSE)
      BY <3>1, <3>2, Zenon
    <3>5. Waiting' /\ Answers' /\ Joined'
      BY <3>1, <3>2, <3>3, <3>4, PopKept, Zenon
    <3> QED BY <3>3, <3>5, Zenon DEF KeptInv
  <2>6. CASE LeadGroup(t)
    BY <2>6, LeadGroupKept, Zenon
  <2>7. CASE SettleWaits(t)
    <3>1. /\ w[t].pc = "settle" /\ w[t] \in WriterRecords /\ writers' = writers /\ count' = count
          /\ acked' = acked /\ UNCHANGED db /\ w \in [Threads -> WriterRecords]
      BY <2>7, Zenon DEF SettleWaits, QueueInv, QueueType
    <3> DEFINE r == IF ~has_imm THEN NoWriter ELSE [w[t] EXCEPT !.awake = FALSE]
    <3>2. r.pc \in {"idle", "settle"}
      <4>1. [w[t] EXCEPT !.awake = FALSE].pc = "settle"
        BY <3>1, Zenon DEF WriterRecords
      <4> QED BY <4>1, Zenon DEF NoWriter
    <3>3. w' = [w EXCEPT ![t] = r]
      BY <2>7, Zenon DEF SettleWaits
    <3> HIDE DEF r
    <3>4. \A u \in Threads : w'[u].pc \in {"queue", "room", "log"} => w'[u] = w[u]
      BY <3>1, <3>2, <3>3, Zenon
    <3>5. KeptData' /\ Applied' = Applied /\ durable \cup tables = durable' \cup tables'
      BY <3>1, SameData, Zenon
    <3>6. Waiting' /\ Answers'
      BY <1>0, <3>1, <3>4, <3>5, StillKept, Zenon
    <3>7. Joined'
      BY <1>0, <3>1, <3>4, StillJoined, Zenon
    <3> QED BY <3>5, <3>6, <3>7, Zenon DEF KeptInv
  <2>8. CASE \E added, synced \in BOOLEAN : WriteGroup(t, added, synced)
    BY <2>8, WriteGroupKept, Zenon
  <2> QED BY <1>4, <2>1, <2>2, <2>3, <2>4, <2>5, <2>6, <2>7, <2>8 DEF WriterStep
<1>5. ASSUME NEW t \in Threads, SpuriousWakeup(t) PROVE KeptInv'
  <2>1. SameRequests
    BY <1>5, FlagSame, Zenon DEF SpuriousWakeup
  <2> QED BY <1>1, <1>5, <2>1, Zenon DEF SpuriousWakeup
<1>6. CASE BackgroundStep
  <2>1. CASE \E level0 \in BOOLEAN : CompactMemTable(level0)
    BY <1>0, <2>1, CompactKept, Zenon
  <2>2. CASE BackgroundCall \/ CompactLevel0 \/ BackgroundFails \/ BackgroundEnd
    <3>1. /\ writers' = writers /\ count' = count /\ acked' = acked /\ w' \in {w, SignalAll(w)}
          /\ log' = log /\ durable' = durable /\ mem' = mem /\ imm' = imm
          /\ has_imm' = has_imm /\ tables' = tables
      BY <2>2, Zenon DEF BackgroundCall, CompactLevel0, BackgroundFails, BackgroundEnd, db
    <3>2. SameRequests
      BY <3>1, SignalSame, Zenon
    <3>3. Applied' = Applied
      BY <3>1, Zenon DEF Applied
    <3>4. KeptData'
      BY <3>1, <3>3, Zenon DEF KeptInv, KeptData, Ascending
    <3>5. Waiting' /\ Answers' /\ Joined'
      BY <1>0, <3>1, <3>2, <3>3, RequestsKept, Zenon
    <3> QED BY <3>4, <3>5, Zenon DEF KeptInv
  <2> QED BY <1>6, <2>1, <2>2, Zenon DEF BackgroundStep
<1>7. CASE Close \/ CloseEnds
  <2>1. /\ writers' = writers /\ count' = count /\ acked' = acked /\ w' = w /\ UNCHANGED db
    BY <1>7, Zenon DEF Close, CloseEnds
  <2>2. SameRequests
    BY <2>1, SignalSame, Zenon
  <2> QED BY <1>1, <2>1, <2>2, Zenon
<1> QED BY <1>2, <1>3, <1>4, <1>5, <1>6, <1>7, Zenon DEF Next

(* Whoever led the group of a write, whatever failed before and however     *)
(* often the memtable was switched: a write that returned OK is in a        *)
(* memtable or a table, in the order of arrival; if it was synchronous, in  *)
(* a log that was synced with it or in a table; and what the memtable holds *)
(* is in the log that a recovery would read.                                *)
THEOREM AckedWritesKept == Spec => []AckedKept
<1>1. Init => QueueInv /\ KeptInv
  <2> SUFFICES ASSUME Init PROVE QueueInv /\ KeptInv
    BY Zenon
  <2>1. NoWriter \in WriterRecords /\ NoWriter.pc = "idle"
    BY DEF WriterRecords, NoWriter
  <2>2. QueueInv
    BY <2>1 DEF Init, QueueInv, QueueType, QueueShape
  <2>3. Applied = {}
    BY EmptyMemTable, Zenon DEF Init, Applied
  <2>4. KeptData
    BY <2>3, EmptyMemTable, Zenon DEF Init, KeptData
  <2>5. Waiting /\ Answers /\ Joined
    BY <2>1, <2>3 DEF Init, Waiting, Answers, Joined
  <2> QED BY <2>2, <2>4, <2>5, Zenon DEF KeptInv
<1>2. QueueInv /\ KeptInv /\ [Next]_vars => QueueInv' /\ KeptInv'
  BY QueueInductive, KeptInductive, Zenon
<1>3. KeptInv => AckedKept
  <2> SUFFICES ASSUME KeptInv PROVE AckedKept
    BY Zenon
  <2>1. /\ imm \in Seq(Nat) /\ mem \in Seq(Nat) /\ Ascending(imm) /\ Ascending(mem)
        /\ \A x \in Range(imm), y \in Range(mem) : x < y
    BY Zenon DEF KeptInv, KeptData
  <2>2. /\ imm \o mem \in Seq(Nat) /\ Range(imm \o mem) = Range(imm) \cup Range(mem)
        /\ Ascending(imm \o mem)
    BY <2>1, Concatenation, Zenon
  <2>3. \A i, j \in DOMAIN (imm \o mem) : i < j => (imm \o mem)[i] < (imm \o mem)[j]
    <3> DEFINE both == imm \o mem
    <3>1. DOMAIN both = 1 .. Len(both)
      BY <2>2
    <3> HIDE DEF both
    <3>2. \A i, j \in DOMAIN both : i < j => both[i] < both[j]
      BY <2>2, <3>1, Zenon DEF Ascending, both
    <3> QED BY <3>2, Zenon DEF both
  <2>4. AckedApplied
    BY <2>2, <2>3, Zenon DEF KeptInv, KeptData, Answers, Applied, AckedApplied
  <2>5. SyncedDurable /\ MemLogged
    BY Zenon DEF KeptInv, KeptData, Answers, SyncedDurable, MemLogged
  <2> QED BY <2>4, <2>5, Zenon DEF AckedKept
<1> QED BY <1>1, <1>2, <1>3, PTL DEF Spec
-----------------------------------------------------------------------------
(* Who is where: the mutex belongs to the thread that stands between a lock *)
(* and an unlock, at most one monitor thread is running, only sleeping      *)
(* threads are queued, the finish flag is set by the monitor thread on its  *)
(* way out, and the main thread is past the handshake only when every       *)
(* monitor thread has left.                                                 *)
HandshakeInv ==
  /\ HandshakeTypeOK
  /\ mtx_monitor = Main <=> synchronised /\ mainpc \in {"stop", "test"}
  /\ \A t \in Monitors :
       mtx_monitor = t <=> monpc[t] \in {"test", "sample", "wait", "unlock"}
  /\ \A t, u \in Monitors : Exited(t) \/ Exited(u) \/ t = u
  /\ Main \in cv_monitor => mainpc = "asleep"
  /\ \A t \in cv_monitor \ {Main} : monpc[t] = "asleep"
  /\ flag_monitor_thread_finish =>
       \A t \in Monitors : Exited(t) \/ monpc[t] = "unlock"
  /\ mainpc \in {"new", "free", "close", "down"} => \A t \in Monitors : Exited(t)
  /\ ~metadb => \A t \in Monitors : Exited(t)
  /\ mainpc = "free" => flag_monitor_thread_finish
  /\ ~synchronised =>
       /\ mainpc \in {"close", "down", "up", "lock", "stop", "test", "free"}
       /\ flag_monitor_thread_finish
       /\ \A t \in Monitors : Exited(t)

LEMMA HandshakeStarts == HandshakeInit => HandshakeInv
  BY ThreadsAssumption, Zenon DEF HandshakeInit, HandshakeInv, HandshakeTypeOK, Exited

LEMMA HandshakeInductive == HandshakeInv /\ [HandshakeNext]_handshakeVars => HandshakeInv'
<1> SUFFICES ASSUME HandshakeInv, [HandshakeNext]_handshakeVars PROVE HandshakeInv'
  BY Zenon
<1> USE ThreadsAssumption
    DEF HandshakeInv, HandshakeTypeOK, Exited, At, Acquire, Wait, WakeUp, flags, resources
<1>1. CASE InitFails BY <1>1, Zenon DEF InitFails
<1>2. CASE Destroy BY <1>2, Zenon DEF Destroy
<1>3. CASE DestroyLocks BY <1>3, Zenon DEF DestroyLocks
<1>4. CASE DestroySignals BY <1>4, Zenon DEF DestroySignals
<1>5. CASE DestroyWaits BY <1>5, Zenon DEF DestroyWaits
<1>6. CASE DestroyWakesUp BY <1>6, Zenon DEF DestroyWakesUp
<1>7. CASE DestroyRelocks BY <1>7, Zenon DEF DestroyRelocks
<1>8. CASE DestroyUnlocks BY <1>8, Zenon DEF DestroyUnlocks
<1>9. CASE DestroyFrees BY <1>9, Zenon DEF DestroyFrees
<1>10. CASE DestroyCloses BY <1>10, Zenon DEF DestroyCloses
<1>11. ASSUME NEW t \in Monitors, MonitorInit(t) PROVE HandshakeInv' BY <1>11, Zenon DEF MonitorInit
<1>12. ASSUME NEW t \in Monitors, MonitorLocks(t) PROVE HandshakeInv' BY <1>12 DEF MonitorLocks
<1>13. ASSUME NEW t \in Monitors, MonitorContinues(t) PROVE HandshakeInv' BY <1>13 DEF MonitorContinues
<1>14. ASSUME NEW t \in Monitors, MonitorSamples(t) PROVE HandshakeInv' BY <1>14 DEF MonitorSamples
<1>15. ASSUME NEW t \in Monitors, MonitorWaits(t) PROVE HandshakeInv' BY <1>15 DEF MonitorWaits
<1>16. ASSUME NEW t \in Monitors, MonitorWakesUp(t) PROVE HandshakeInv' BY <1>16 DEF MonitorWakesUp
<1>17. ASSUME NEW t \in Monitors, MonitorFinishes(t) PROVE HandshakeInv' BY <1>17 DEF MonitorFinishes
<1>18. ASSUME NEW t \in Monitors, MonitorUnlocks(t) PROVE HandshakeInv' BY <1>18 DEF MonitorUnlocks
<1>19. ASSUME NEW t \in Monitors, MonitorReturns(t) PROVE HandshakeInv' BY <1>19, SMTT(30) DEF MonitorReturns
<1>20. CASE UNCHANGED handshakeVars BY <1>20, Zenon DEF handshakeVars
<1> QED
  BY <1>1, <1>2, <1>3, <1>4, <1>5, <1>6, <1>7, <1>8, <1>9, <1>10,
     <1>11, <1>12, <1>13, <1>14, <1>15, <1>16, <1>17, <1>18, <1>19, <1>20, Zenon
  DEF HandshakeNext, MonitorStep

(***************************************************************************)
(* Whatever the schedule and the spurious wake-ups, TableFS::Destroy       *)
(* destroys the mutex and the condition variable only when nobody holds or *)
(* waits for them, and closes the store only when the monitor thread has   *)
(* left, for any number of mounts and monitor threads.                     *)
(***************************************************************************)
THEOREM TeardownSafety == HandshakeSpec => [](HandshakeTypeOK /\ TeardownAfterExit)
<1>1. HandshakeInv => HandshakeTypeOK /\ TeardownAfterExit
  BY ThreadsAssumption DEF HandshakeInv, HandshakeTypeOK, TeardownAfterExit, Exited
<1>2. HandshakeSpec => []HandshakeInv BY HandshakeStarts, HandshakeInductive, PTL DEF HandshakeSpec
<1> QED BY <1>1, <1>2, PTL
=============================================================================
