--------------------------- MODULE WriteQueueProofs ---------------------------
(***************************************************************************)
(* Proofs about WriteQueue, for any clients, requests, limits and errors:  *)
(* a status is true of the batch it is given for, whoever committed it     *)
(* (StatusIsOwn), and no thread waits for a signal that does not come      *)
(* (SleepersWake).                                                         *)
(***************************************************************************)
EXTENDS WriteQueue, TLAPS, FiniteSetTheorems, SequenceTheorems, WellFoundedInduction

-------------------------------------------------------------------------------
(* Operators. *)

\* A group is a beginning of the queue, its leader at least.
LEMMA GroupIsFront ==
  ASSUME Len(queue) \in Nat, queue # <<>>, Len(queue) # 0
  PROVE  BuildBatchGroup \in 1 .. Len(queue)
<1> DEFINE R == {p \in Nat \X Nat : p[1] < p[2]}
           T == {n \in 1 .. Len(queue) : n = Len(queue) \/ ~Joins(n + 1)}
<1>1. IsWellFoundedOn(R, Nat)
  BY NatLessThanWellFounded DEF OpToRel
<1>2. T \subseteq Nat /\ T # {}
  <2>1. Len(queue) \in T
    OBVIOUS
  <2> QED BY <2>1
<1>3. PICK x \in T : \A y \in T : ~(<<y, x>> \in R)
  <2> HIDE DEF R, T
  <2> QED BY <1>1, <1>2, WFMin
<1>4. \A m \in 2 .. x : Joins(m)
  <2> SUFFICES ASSUME NEW m \in 2 .. x, ~Joins(m) PROVE FALSE
    OBVIOUS
  <2>1. m - 1 \in 1 .. Len(queue) /\ (m - 1) + 1 = m /\ m - 1 \in Nat /\ x \in Nat /\ m - 1 < x
    OBVIOUS
  <2>2. m - 1 \in T
    BY <2>1
  <2>3. <<m - 1, x>> \in R
    BY <2>1
  <2> QED BY <1>3, <2>2, <2>3
<1>5. x \in 1 .. Len(queue) /\ (x < Len(queue) => ~Joins(x + 1))
  OBVIOUS
<1> QED BY <1>4, <1>5 DEF BuildBatchGroup

\* What is left of the queue behind its first n writers.
LEMMA RestOfQueue ==
  ASSUME queue \in Seq(Client), NEW n \in 1 .. Len(queue),
         NEW rest, rest = SubSeq(queue, n + 1, Len(queue))
  PROVE  /\ rest \in Seq(Client) /\ Len(rest) = Len(queue) - n /\ Len(rest) \in Nat
         /\ \A i \in 1 .. Len(rest) : rest[i] = queue[n + i] /\ n + i \in 1 .. Len(queue)
<1>1. Len(queue) \in Nat /\ n + 1 \in Int /\ \A i \in (n + 1) .. Len(queue) : queue[i] \in Client
  BY LenProperties, ElementOfSeq
<1>2. /\ rest \in Seq(Client)
      /\ Len(rest) = IF n + 1 <= Len(queue) THEN Len(queue) - (n + 1) + 1 ELSE 0
      /\ \A i \in 1 .. Len(queue) - (n + 1) + 1 : rest[i] = queue[(n + 1) + i - 1]
  BY <1>1, SubSeqProperties
<1> QED BY <1>1, <1>2

\* p is pc after some of those who wait for the background thread were woken up.
Roused(p) ==
  /\ p \in [Client -> Pc]
  /\ \A d \in Client : \/ p[d] = pc[d]
                       \/ pc[d] = "room wait" /\ p[d] = "room"
                       \/ pc[d] = "flush wait" /\ p[d] = "flush"

\* SignalAll rouses.
LEMMA WokenRouses == ASSUME pc \in [Client -> Pc] PROVE Roused(Woken(pc)) /\ Roused(pc)
<1>1. \A d \in Client : \/ Woken(pc)[d] = pc[d]
                        \/ pc[d] = "room wait" /\ Woken(pc)[d] = "room"
                        \/ pc[d] = "flush wait" /\ Woken(pc)[d] = "flush"
  BY DEF Woken
<1>2. \A d \in Client : Woken(pc)[d] \in Pc
  BY <1>1 DEF Pc, Leading
<1>3. Woken(pc) \in [Client -> Pc]
  BY <1>2 DEF Woken
<1> QED BY <1>1, <1>3 DEF Roused

-------------------------------------------------------------------------------
(* The queue. *)

\* None is not a status.
LEMMA NoneIsNoStatus == None # "ok" /\ None # "error"
BY QueueAssumption

\* The leader of a queue is its head.
LEMMA LeaderIsHead ==
  ASSUME QueueTypes, Queued, NEW c \in Client, pc[c] \in Leading
  PROVE  Len(queue) \in Nat /\ Len(queue) # 0 /\ queue # <<>> /\ queue[1] = c /\ result[c] = None
<1>1. Len(queue) \in Nat /\ DOMAIN queue = 1 .. Len(queue)
  BY LenProperties DEF QueueTypes
<1>2. c \in ToSet(queue)
  BY DEF Queued, Leading, Committing
<1>3. PICK i \in 1 .. Len(queue) : queue[i] = c
  BY <1>1, <1>2 DEF ToSet
<1>4. i = 1
  BY <1>3 DEF Queued, Leading, Committing, Waiting
<1>5. Len(queue) # 0 /\ queue[1] = c /\ 1 \in 1 .. Len(queue)
  BY <1>1, <1>3, <1>4
<1>6. result[c] = None
  BY <1>5 DEF Queued
<1>7. queue # <<>>
  BY <1>5, EmptySeq
<1> QED BY <1>1, <1>5, <1>6, <1>7

\* The writers that PopWriters takes off the queue get the status, and the others
\* stay as they are.
LEMMA PopStep ==
  ASSUME QueueTypes, Queued, InGroup, UNCHANGED req,
         NEW c \in Client, Len(queue) # 0, queue[1] = c,
         NEW upto \in 1 .. Len(queue), NEW status \in {"ok", "error"},
         NEW p, Roused(p), PopWriters(c, upto, status, p)
  PROVE  /\ Queued' /\ InGroup'
         /\ result' \in [Client -> {None, "ok", "error"}] /\ pc' \in [Client -> Pc]
         /\ queue' \in Seq(Client) /\ last' \in Nat
         /\ \A d \in Client : result'[d] = IF d \in Foremost(upto) THEN status ELSE result[d]
         /\ \A d \in Foremost(upto) : d \in Client /\ result[d] = None
         /\ queue' # <<>> => pc'[queue'[1]] # "sleeping"
         /\ \A d \in Client : pc'[d] \in {p[d], "awake", "flush", "returned"}
<1> DEFINE rest == SubSeq(queue, upto + 1, Len(queue))
           done == Foremost(upto)
<1>1. /\ Len(queue) \in Nat /\ DOMAIN queue = 1 .. Len(queue)
      /\ \A i \in 1 .. Len(queue) : queue[i] \in Client
  BY LenProperties, ElementOfSeq DEF QueueTypes
<1>2. /\ rest \in Seq(Client) /\ Len(rest) = Len(queue) - upto /\ Len(rest) \in Nat
      /\ \A i \in 1 .. Len(rest) : rest[i] = queue[upto + i] /\ upto + i \in 1 .. Len(queue)
  <2> HIDE DEF rest
  <2>1. queue \in Seq(Client)
    BY DEF QueueTypes
  <2>2. rest = SubSeq(queue, upto + 1, Len(queue))
    BY DEF rest
  <2> QED BY <2>1, <2>2, RestOfQueue
<1>3. DOMAIN rest = 1 .. Len(rest)
  BY <1>2, LenProperties
<1> HIDE DEF rest
<1>4. /\ result' = [d \in Client |-> IF d \in done THEN status ELSE result[d]]
      /\ queue' = rest /\ last' = 0
      /\ pc' = [d \in Client |->
                  IF d = c THEN (IF Null(c) /\ status = "ok" THEN "flush" ELSE "returned")
                  ELSE IF p[d] = "sleeping" /\ (d \in done \/ (rest # <<>> /\ d = rest[1]))
                  THEN "awake" ELSE p[d]]
  BY DEF PopWriters, rest
<1>5. /\ c \in done
      /\ \A d \in done : d \in Client /\ \E i \in 1 .. upto : d = queue[i]
  BY <1>1 DEF Foremost
<1>6. \A i \in 1 .. Len(queue) : i > upto => queue[i] \notin done
  <2> SUFFICES ASSUME NEW i \in 1 .. Len(queue), i > upto, queue[i] \in done PROVE FALSE
    OBVIOUS
  <2>1. PICK j \in 1 .. upto : queue[i] = queue[j]
    BY <1>5
  <2>2. j \in 1 .. Len(queue) /\ i # j
    BY <1>1, <2>1
  <2> QED BY <2>1, <2>2 DEF Queued
<1>7. \A d \in done : result[d] = None /\ (d # c => pc[d] \in Waiting)
  <2> SUFFICES ASSUME NEW d \in done PROVE result[d] = None /\ (d # c => pc[d] \in Waiting)
    OBVIOUS
  <2>1. PICK i \in 1 .. Len(queue) : d = queue[i]
    BY <1>1, <1>5
  <2> QED BY <2>1 DEF Queued
<1>8. \A d \in Client : result'[d] = IF d \in done THEN status ELSE result[d]
  BY <1>4
<1>9. result' \in [Client -> {None, "ok", "error"}]
  BY <1>4 DEF QueueTypes
<1>10. /\ pc' \in [Client -> Pc]
       /\ pc'[c] \in {"flush", "returned"} /\ (pc'[c] = "flush" => Null(c))
  BY <1>4 DEF Roused, Pc, Waiting
<1>11. \A i \in 1 .. Len(rest) : /\ rest[i] \in Client /\ rest[i] \notin done /\ rest[i] # c
                                 /\ pc[rest[i]] \in Waiting /\ result[rest[i]] = None
                                 /\ p[rest[i]] = pc[rest[i]]
  <2> SUFFICES ASSUME NEW i \in 1 .. Len(rest)
               PROVE  /\ rest[i] \in Client /\ rest[i] \notin done /\ rest[i] # c
                      /\ pc[rest[i]] \in Waiting /\ result[rest[i]] = None
                      /\ p[rest[i]] = pc[rest[i]]
    OBVIOUS
  <2>1. rest[i] = queue[upto + i] /\ upto + i \in 1 .. Len(queue) /\ upto + i > upto /\ upto + i # 1
    BY <1>2
  <2>2. pc[rest[i]] \in Waiting /\ result[rest[i]] = None /\ rest[i] \in Client
    BY <1>1, <2>1 DEF Queued
  <2>3. rest[i] \notin done
    BY <1>6, <2>1
  <2> QED BY <1>5, <2>2, <2>3 DEF Roused, Waiting
<1>12. \A i \in 1 .. Len(rest) : pc'[rest[i]] \in Waiting
  BY <1>4, <1>11 DEF Waiting
<1>13. rest # <<>> => Len(rest) # 0 /\ pc'[rest[1]] # "sleeping"
  <2>1. rest # <<>> => 1 \in 1 .. Len(rest)
    BY <1>2, EmptySeq
  <2> QED BY <1>4, <1>11, <2>1
<1>14. \A d \in Client : d \in done /\ d # c => pc'[d] = "awake"
  BY <1>4, <1>7 DEF Roused, Waiting
<1>15. \A d \in Client : d \notin ToSet(queue) =>
         /\ d \notin done /\ d # c /\ pc'[d] = p[d]
         /\ p[d] # "sleeping"
         /\ p[d] \notin Committing
  <2> SUFFICES ASSUME NEW d \in Client, d \notin ToSet(queue)
               PROVE  d \notin done /\ d # c /\ pc'[d] = p[d] /\ p[d] # "sleeping" /\ p[d] \notin Committing
    OBVIOUS
  <2>1. d \notin done /\ d # c
    BY <1>1, <1>5 DEF ToSet
  <2>2. pc[d] \in {"idle", "awake", "flush", "flush wait", "returned"}
    BY DEF Queued
  <2>3. p[d] # "sleeping" /\ p[d] \notin Committing
    BY <2>2 DEF Roused, Committing
  <2> QED BY <1>4, <2>1, <2>3
<1>16. \A d \in Client : d \in ToSet(queue) <=> d \in done \/ d \in ToSet(rest)
  <2>1. \A i \in 1 .. Len(queue) : i <= upto \/ (i - upto \in 1 .. Len(rest) /\ rest[i - upto] = queue[i])
    BY <1>1, <1>2
  <2>2. \A i \in 1 .. upto : queue[i] \in done
    BY DEF Foremost
  <2> QED BY <1>1, <1>2, <1>3, <1>5, <2>1, <2>2 DEF ToSet
<1> HIDE DEF done
<1>17. Queued'
  <2>1. ASSUME NEW i \in 1 .. Len(rest), NEW j \in 1 .. Len(rest), rest[i] = rest[j] PROVE i = j
    <3>1. /\ queue[upto + i] = queue[upto + j]
          /\ upto + i \in 1 .. Len(queue) /\ upto + j \in 1 .. Len(queue)
      BY <1>2, <2>1
    <3>2. upto + i = upto + j
      BY <3>1 DEF Queued
    <3> QED BY <1>2, <3>2
  <2>2. \A i \in 1 .. Len(rest) : result'[rest[i]] = None /\ pc'[rest[i]] \in Waiting
    BY <1>8, <1>11, <1>12
  <2>3. ASSUME NEW d \in Client, d \notin ToSet(rest)
        PROVE  IF result'[d] = None THEN pc'[d] = "idle"
               ELSE pc'[d] \in {"awake", "flush", "flush wait", "returned"}
    <3>1. CASE d \in done
      BY <1>8, <1>10, <1>14, <3>1, NoneIsNoStatus
    <3>2. CASE d \notin done
      <4>1. d \notin ToSet(queue)
        BY <1>16, <2>3, <3>2
      <4>2. result'[d] = result[d] /\ pc'[d] = p[d]
        BY <1>8, <1>15, <3>2, <4>1
      <4> QED BY <4>1, <4>2 DEF Queued, Roused
    <3> QED BY <3>1, <3>2
  <2>4. queue' = rest
    BY <1>4
  <2>5. \A i \in 1 .. Len(rest) : pc'[rest[i]] \in Waiting \union (IF i = 1 THEN Leading ELSE {})
    BY <2>2
  <2> QED BY <2>1, <2>2, <2>3, <2>4, <2>5 DEF Queued
<1>18. InGroup'
  <2>1. ASSUME NEW d \in Client, pc'[d] \in {"flush", "flush wait"} PROVE Null(d)'
    <3>1. CASE d = c
      BY <1>10, <2>1, <3>1 DEF Null
    <3>2. CASE d # c
      <4>1. pc'[d] \in {p[d], "awake"}
        BY <1>4, <3>2
      <4>2. pc[d] \in {"flush", "flush wait"}
        BY <2>1, <4>1 DEF Roused
      <4> QED BY <4>2 DEF InGroup, Null
    <3> QED BY <3>1, <3>2
  <2>2. ASSUME NEW d \in Client PROVE pc'[d] \notin Committing
    <3>1. CASE d \notin ToSet(queue)
      BY <1>15, <3>1
    <3>2. CASE d \in done
      BY <1>10, <1>14, <3>2 DEF Committing
    <3>3. CASE d \in ToSet(rest)
      BY <1>3, <1>12, <3>3 DEF ToSet, Waiting, Committing
    <3> QED BY <1>16, <3>1, <3>2, <3>3
  <2> QED BY <2>1, <2>2 DEF InGroup
<1>19. queue' # <<>> => pc'[queue'[1]] # "sleeping"
  BY <1>4, <1>13
<1>20. \A d \in Client : pc'[d] \in {p[d], "awake", "flush", "returned"}
  BY <1>4
<1> QED
  BY <1>2, <1>4, <1>5, <1>7, <1>8, <1>9, <1>10, <1>17, <1>18, <1>19, <1>20 DEF done

\* Those who wait are woken up, and nothing else changes.
LEMMA RouseStep ==
  ASSUME QueueTypes, Queued, InGroup, UNCHANGED <<req, result, queue, last>>, Roused(pc')
  PROVE  Queued' /\ InGroup' /\ pc' \in [Client -> Pc]
<1>1. pc' \in [Client -> Pc]
  BY DEF Roused
<1>2. ASSUME NEW i \in 1 .. Len(queue)
      PROVE  /\ result[queue[i]] = None
             /\ pc'[queue[i]] \in Waiting \union (IF i = 1 THEN Leading ELSE {})
  <2>1. queue[i] \in Client
    BY ElementOfSeq DEF QueueTypes
  <2>2. /\ result[queue[i]] = None
        /\ pc[queue[i]] \in Waiting \union (IF i = 1 THEN Leading ELSE {})
    BY DEF Queued
  <2> QED BY <2>1, <2>2 DEF Roused, Waiting, Leading, Committing
<1>3. ASSUME NEW c \in Client, c \notin ToSet(queue)
      PROVE  IF result[c] = None THEN pc'[c] = "idle"
             ELSE pc'[c] \in {"awake", "flush", "flush wait", "returned"}
  BY <1>3 DEF Queued, Roused
<1>4. Queued'
  BY <1>2, <1>3 DEF Queued
<1>5. InGroup'
  BY DEF InGroup, Roused, Null, Committing
<1> QED BY <1>1, <1>4, <1>5

\* The leader goes on.
LEMMA LeadStep ==
  ASSUME QueueTypes, Queued, InGroup, UNCHANGED <<req, result, queue>>, last' \in Nat,
         NEW c \in Client, pc[c] \in Leading,
         NEW x \in Leading, x \in Committing => last' \in 1 .. Len(queue),
         pc' = [pc EXCEPT ![c] = x]
  PROVE  Queued' /\ InGroup' /\ pc' \in [Client -> Pc]
<1>1. Len(queue) \in Nat /\ Len(queue) # 0 /\ queue # <<>> /\ queue[1] = c /\ result[c] = None
  BY LeaderIsHead
<1>2. pc' \in [Client -> Pc] /\ pc'[c] = x /\ \A d \in Client : d # c => pc'[d] = pc[d]
  BY DEF QueueTypes, Pc
<1>3. ASSUME NEW i \in 1 .. Len(queue)
      PROVE  /\ result[queue[i]] = None
             /\ pc'[queue[i]] \in Waiting \union (IF i = 1 THEN Leading ELSE {})
  <2>1. queue[i] \in Client
    BY ElementOfSeq DEF QueueTypes
  <2>2. /\ result[queue[i]] = None
        /\ pc[queue[i]] \in Waiting \union (IF i = 1 THEN Leading ELSE {})
    BY DEF Queued
  <2>3. queue[i] = c => i = 1
    <3>1. 1 \in 1 .. Len(queue)
      BY <1>1
    <3>2. \A j, k \in 1 .. Len(queue) : queue[j] = queue[k] => j = k
      BY DEF Queued
    <3> QED BY <1>1, <3>1, <3>2
  <2> QED BY <1>2, <2>1, <2>2, <2>3
<1>4. ASSUME NEW d \in Client, d \notin ToSet(queue)
      PROVE  IF result[d] = None THEN pc'[d] = "idle"
             ELSE pc'[d] \in {"awake", "flush", "flush wait", "returned"}
  <2>1. DOMAIN queue = 1 .. Len(queue)
    BY LenProperties DEF QueueTypes
  <2>2. d # c
    BY <1>1, <1>4, <2>1 DEF ToSet
  <2> QED BY <1>2, <1>4, <2>2 DEF Queued
<1>5. Queued'
  BY <1>3, <1>4 DEF Queued
<1>6. ASSUME NEW d \in Client, pc'[d] \in Committing PROVE last' \in 1 .. Len(queue)
  <2>1. CASE d = c
    BY <1>2, <1>6, <2>1
  <2>2. CASE d # c
    <3>1. pc[d] \in Leading
      BY <1>2, <1>6, <2>2 DEF Leading
    <3> QED BY <1>1, <2>2, <3>1, LeaderIsHead
  <2> QED BY <2>1, <2>2
<1>7. ASSUME NEW d \in Client, pc'[d] \in {"flush", "flush wait"} PROVE Null(d)'
  BY <1>2, <1>7 DEF InGroup, Null, Leading, Committing
<1> QED BY <1>2, <1>5, <1>6, <1>7 DEF InGroup

\* A client joins the queue.
LEMMA WriteStep ==
  ASSUME QueueTypes, Queued, InGroup, NEW c \in Client, NEW r \in Requests[c], Write(c, r)
  PROVE  /\ Queued' /\ InGroup' /\ pc' \in [Client -> Pc] /\ queue' \in Seq(Client)
         /\ result[c] = None
         /\ queue' # <<>> => pc'[queue'[1]] # "sleeping" \/ (queue # <<>> /\ pc[queue[1]] = "sleeping")
         /\ \A d \in Client : pc'[d] \in {pc[d], "room", "sleeping"}
<1>0. /\ pc[c] = "idle" /\ req' = [req EXCEPT ![c] = r] /\ queue' = Append(queue, c)
      /\ UNCHANGED <<result, last>>
      /\ pc' = [pc EXCEPT ![c] = IF queue = <<>> THEN "room" ELSE "sleeping"]
  BY DEF Write
<1>1. /\ queue \in Seq(Client) /\ Len(queue) \in Nat /\ DOMAIN queue = 1 .. Len(queue)
      /\ \A i \in 1 .. Len(queue) : queue[i] \in Client
      /\ (Len(queue) = 0 => queue = <<>>)
  BY LenProperties, ElementOfSeq, EmptySeq DEF QueueTypes
<1>2. /\ queue' \in Seq(Client) /\ Len(queue') = Len(queue) + 1
      /\ \A i \in 1 .. Len(queue) : queue'[i] = queue[i]
      /\ queue'[Len(queue) + 1] = c
  BY <1>0, <1>1, AppendProperties
<1>3. \A i \in 1 .. Len(queue) : queue[i] # c
  BY <1>0 DEF Queued, Waiting, Leading, Committing
<1>4. result[c] = None
  <2>1. c \notin ToSet(queue)
    BY <1>1, <1>3 DEF ToSet
  <2> QED BY <1>0, <2>1 DEF Queued
<1>5. /\ pc' \in [Client -> Pc] /\ \A d \in Client : d # c => pc'[d] = pc[d]
      /\ pc'[c] = IF queue = <<>> THEN "room" ELSE "sleeping"
  BY <1>0 DEF QueueTypes, Pc, Waiting, Leading
<1>6. DOMAIN queue' = 1 .. Len(queue) + 1 /\ queue = <<>> => Len(queue) = 0
  BY <1>2, LenProperties, EmptySeq
<1>7. ASSUME NEW i \in 1 .. Len(queue')
      PROVE  /\ result[queue'[i]] = None
             /\ pc'[queue'[i]] \in Waiting \union (IF i = 1 THEN Leading ELSE {})
  <2>1. CASE i \in 1 .. Len(queue)
    <3>1. queue'[i] = queue[i] /\ queue[i] # c /\ queue[i] \in Client
      BY <1>1, <1>2, <1>3, <2>1
    <3> QED BY <1>5, <2>1, <3>1 DEF Queued
  <2>2. CASE i = Len(queue) + 1
    <3>1. queue'[i] = c
      BY <1>2, <2>2
    <3>2. queue = <<>> => i = 1
      BY <1>6, <2>2
    <3> QED BY <1>4, <1>5, <3>1, <3>2 DEF Waiting, Leading
  <2> QED BY <1>1, <1>2, <2>1, <2>2
<1>8. ASSUME NEW i \in 1 .. Len(queue'), NEW j \in 1 .. Len(queue'), queue'[i] = queue'[j] PROVE i = j
  <2>1. i \in 1 .. Len(queue) \/ i = Len(queue) + 1
    BY <1>1, <1>2
  <2>2. j \in 1 .. Len(queue) \/ j = Len(queue) + 1
    BY <1>1, <1>2
  <2> QED BY <1>2, <1>3, <1>8, <2>1, <2>2 DEF Queued
<1>9. ASSUME NEW d \in Client, d \notin ToSet(queue')
      PROVE  IF result[d] = None THEN pc'[d] = "idle"
             ELSE pc'[d] \in {"awake", "flush", "flush wait", "returned"}
  <2>1. d # c /\ d \notin ToSet(queue)
    BY <1>1, <1>2, <1>6, <1>9 DEF ToSet
  <2> QED BY <1>5, <2>1 DEF Queued
<1>10. Queued'
  BY <1>0, <1>7, <1>8, <1>9 DEF Queued
<1>11. ASSUME NEW d \in Client, pc'[d] \in {"flush", "flush wait"} PROVE Null(d)'
  <2>1. d # c
    BY <1>5, <1>11
  <2> QED BY <1>0, <1>5, <1>11, <2>1 DEF InGroup, Null, QueueTypes
<1>12. ASSUME NEW d \in Client, pc'[d] \in Committing PROVE last' \in 1 .. Len(queue')
  <2>1. d # c
    BY <1>5, <1>12 DEF Committing
  <2>2. last \in 1 .. Len(queue)
    BY <1>5, <1>12, <2>1 DEF InGroup
  <2> QED BY <1>0, <1>1, <1>2, <2>2
<1>13. queue' # <<>> => pc'[queue'[1]] # "sleeping" \/ (queue # <<>> /\ pc[queue[1]] = "sleeping")
  <2>1. CASE queue = <<>>
    BY <1>2, <1>5, <1>6, <2>1
  <2>2. CASE queue # <<>>
    <3>1. 1 \in 1 .. Len(queue)
      BY <1>1, <2>2
    <3> QED BY <1>1, <1>2, <1>3, <1>5, <2>2, <3>1
  <2> QED BY <2>1, <2>2
<1> QED BY <1>2, <1>4, <1>5, <1>10, <1>11, <1>12, <1>13 DEF InGroup

\* A client wakes up in Write.
LEMMA WakeUpStep ==
  ASSUME QueueTypes, Queued, InGroup, NEW c \in Client, WakeUp(c)
  PROVE  /\ Queued' /\ InGroup' /\ pc' \in [Client -> Pc]
         /\ queue # <<>> => pc'[queue[1]] # "sleeping" \/ pc[queue[1]] = "sleeping"
         /\ \A d \in Client : pc'[d] \in {pc[d], "flush", "returned", "room", "sleeping"}
<1>0. pc[c] = "awake" /\ UNCHANGED <<req, result, queue, last>>
  BY DEF WakeUp
<1>1. /\ Len(queue) \in Nat /\ DOMAIN queue = 1 .. Len(queue)
      /\ \A i \in 1 .. Len(queue) : queue[i] \in Client
      /\ (queue # <<>> => 1 \in 1 .. Len(queue))
  BY LenProperties, ElementOfSeq, EmptySeq DEF QueueTypes
<1>2. PICK x : /\ pc' = [pc EXCEPT ![c] = x]
               /\ IF result[c] # None
                  THEN x \in {"flush", "returned"} /\ (x = "flush" => Null(c))
                  ELSE IF c = queue[1] THEN x = "room" ELSE x = "sleeping"
  BY DEF WakeUp
<1>3. /\ pc' \in [Client -> Pc] /\ pc'[c] = x /\ \A d \in Client : d # c => pc'[d] = pc[d]
  BY <1>2 DEF QueueTypes, Pc, Waiting, Leading
<1>4. ASSUME NEW i \in 1 .. Len(queue)
      PROVE  /\ result[queue[i]] = None
             /\ pc'[queue[i]] \in Waiting \union (IF i = 1 THEN Leading ELSE {})
  <2>1. /\ result[queue[i]] = None
        /\ pc[queue[i]] \in Waiting \union (IF i = 1 THEN Leading ELSE {})
    BY DEF Queued
  <2>2. c = queue[i] /\ c = queue[1] => i = 1
    <3>1. 1 \in 1 .. Len(queue)
      BY <1>1
    <3>2. \A j, k \in 1 .. Len(queue) : queue[j] = queue[k] => j = k
      BY DEF Queued
    <3> QED BY <3>1, <3>2
  <2> QED BY <1>1, <1>2, <1>3, <2>1, <2>2 DEF Waiting, Leading
<1>5. ASSUME NEW d \in Client, d \notin ToSet(queue)
      PROVE  IF result[d] = None THEN pc'[d] = "idle"
             ELSE pc'[d] \in {"awake", "flush", "flush wait", "returned"}
  BY <1>0, <1>2, <1>3, <1>5 DEF Queued
<1>6. Queued'
  BY <1>0, <1>4, <1>5 DEF Queued
<1>7. InGroup'
  BY <1>0, <1>2, <1>3 DEF InGroup, Null, Committing
<1> QED BY <1>1, <1>2, <1>3, <1>6, <1>7

-------------------------------------------------------------------------------
(* The places of the batches. *)

\* A step that leaves the memtables and the tables alone and acknowledges nothing.
LEMMA SamePlaces ==
  ASSUME OnePlace, PlacedIfAcknowledged, UNCHANGED <<mem, imm, tables>>,
         \A d \in Client : Acknowledged(d)' <=> Acknowledged(d)
  PROVE  OnePlace' /\ PlacedIfAcknowledged'
<1>1. \A d : MemPlaces(d)' = MemPlaces(d) /\ ImmPlaces(d)' = ImmPlaces(d)
  BY DEF MemPlaces, ImmPlaces
<1>2. OnePlace'
  BY <1>1 DEF OnePlace
<1>3. \A d : Somewhere(d)' <=> Somewhere(d)
  BY <1>1 DEF Somewhere
<1> QED BY <1>2, <1>3 DEF PlacedIfAcknowledged

\* The memtable becomes the immutable one.
LEMMA SwitchPlaces ==
  ASSUME QueueTypes, OnePlace, PlacedIfAcknowledged, imm = None, imm' = mem, mem' = <<>>, UNCHANGED tables,
         \A d \in Client : Acknowledged(d)' <=> Acknowledged(d)
  PROVE  OnePlace' /\ PlacedIfAcknowledged' /\ imm' # None
<1>1. mem # None
  BY QueueAssumption DEF QueueTypes
<1>2. DOMAIN mem' = {}
  OBVIOUS
<1>3. \A d : MemPlaces(d)' = {} /\ ImmPlaces(d)' = MemPlaces(d) /\ ImmPlaces(d) = {}
  BY <1>1, <1>2 DEF MemPlaces, ImmPlaces
<1>4. OnePlace'
  BY <1>3 DEF OnePlace
<1>5. \A d : Somewhere(d)' <=> Somewhere(d)
  BY <1>3 DEF Somewhere
<1> QED BY <1>1, <1>4, <1>5 DEF PlacedIfAcknowledged

\* A group is inserted into the memtable.
LEMMA CommitPlaces ==
  ASSUME QueueTypes, OnePlace, PlacedIfAcknowledged, UNCHANGED <<req, imm, tables>>,
         NEW G \in SUBSET Client, \A d \in G : result[d] = None,
         mem' = Append(mem, {d \in G : ~Null(d)}),
         \A d \in Client : result'[d] = IF d \in G THEN "ok" ELSE result[d]
  PROVE  OnePlace' /\ PlacedIfAcknowledged' /\ mem' \in Seq(SUBSET Client)
<1> DEFINE g == {d \in G : ~Null(d)}
           n == Len(mem) + 1
<1>1. /\ mem' \in Seq(SUBSET Client) /\ Len(mem') = n /\ Len(mem) \in Nat
      /\ \A i \in 1 .. Len(mem) : mem'[i] = mem[i]
      /\ mem'[n] = g
  <2>1. mem \in Seq(SUBSET Client) /\ g \in SUBSET Client /\ Len(mem) \in Nat
    BY LenProperties DEF QueueTypes
  <2> QED BY <2>1, AppendProperties
<1>2. DOMAIN mem = 1 .. Len(mem) /\ DOMAIN mem' = 1 .. n
  BY <1>1, LenProperties DEF QueueTypes
<1>3. \A d : ImmPlaces(d)' = ImmPlaces(d)
  BY DEF ImmPlaces
<1>4. ASSUME NEW d \in Client, d \in g
      PROVE  MemPlaces(d) = {} /\ ImmPlaces(d) = {} /\ d \notin tables /\ MemPlaces(d)' = {n} /\ Acknowledged(d)'
  <2>1. result[d] = None /\ ~Null(d) /\ result'[d] = "ok"
    BY <1>4
  <2>2. ~Acknowledged(d) /\ Acknowledged(d)'
    BY <2>1, NoneIsNoStatus DEF Acknowledged, Null
  <2>3. MemPlaces(d) = {} /\ ImmPlaces(d) = {} /\ d \notin tables
    BY <2>2 DEF PlacedIfAcknowledged, Somewhere
  <2>4. \A i \in 1 .. Len(mem) : d \notin mem[i]
    BY <1>2, <2>3 DEF MemPlaces
  <2>5. \A i \in 1 .. n : d \in mem'[i] <=> i = n
    BY <1>1, <1>4, <2>4
  <2>6. MemPlaces(d)' = {n}
    BY <1>1, <1>2, <2>5 DEF MemPlaces
  <2> QED BY <2>2, <2>3, <2>6
<1>5. ASSUME NEW d \in Client, d \notin g
      PROVE  MemPlaces(d)' = MemPlaces(d) /\ (Acknowledged(d)' <=> Acknowledged(d))
  <2>1. \A i \in 1 .. n : d \in mem'[i] <=> i \in 1 .. Len(mem) /\ d \in mem[i]
    BY <1>1, <1>5
  <2>2. MemPlaces(d)' = MemPlaces(d)
    BY <1>1, <1>2, <2>1 DEF MemPlaces
  <2>3. CASE d \in G
    BY <1>5, <2>2, <2>3, NoneIsNoStatus DEF Acknowledged, Null
  <2>4. CASE d \notin G
    BY <2>2, <2>4 DEF Acknowledged, Null
  <2> QED BY <2>3, <2>4
<1> HIDE DEF g, n
<1>6. OnePlace'
  <2> SUFFICES ASSUME NEW d \in Client
               PROVE  /\ \A i, j \in MemPlaces(d)' : i = j
                      /\ \A i, j \in ImmPlaces(d)' : i = j
                      /\ MemPlaces(d)' = {} \/ ImmPlaces(d)' = {}
                      /\ d \in tables' => MemPlaces(d)' = {} /\ ImmPlaces(d)' = {}
    BY DEF OnePlace
  <2>1. CASE d \in g
    BY <1>3, <1>4, <2>1
  <2>2. CASE d \notin g
    BY <1>3, <1>5, <2>2 DEF OnePlace
  <2> QED BY <2>1, <2>2
<1>7. PlacedIfAcknowledged'
  BY <1>3, <1>4, <1>5 DEF PlacedIfAcknowledged, Somewhere
<1> QED BY <1>1, <1>6, <1>7

\* The immutable memtable becomes a table.
LEMMA FlushPlaces ==
  ASSUME QueueTypes, OnePlace, PlacedIfAcknowledged, UNCHANGED <<req, result, mem>>, imm # None,
         imm' = None, tables' = tables \union UNION ToSet(imm)
  PROVE  OnePlace' /\ PlacedIfAcknowledged' /\ tables' \subseteq Client
<1>1. imm \in Seq(SUBSET Client) /\ \A i \in DOMAIN imm : imm[i] \subseteq Client
  BY ElementOfSeq, LenProperties DEF QueueTypes
<1>2. tables' \subseteq Client
  BY <1>1 DEF ToSet, QueueTypes
<1>3. \A d \in Client : /\ MemPlaces(d)' = MemPlaces(d) /\ ImmPlaces(d)' = {}
                        /\ d \in tables' <=> d \in tables \/ ImmPlaces(d) # {}
                        /\ Acknowledged(d)' <=> Acknowledged(d)
  BY DEF MemPlaces, ImmPlaces, ToSet, Acknowledged, Null
<1>4. OnePlace'
  BY <1>3 DEF OnePlace
<1>5. PlacedIfAcknowledged'
  BY <1>3 DEF PlacedIfAcknowledged, Somewhere
<1> QED BY <1>2, <1>4, <1>5

-------------------------------------------------------------------------------
(* The actions of the writers. *)

\* A head of the queue that is not asleep.
HeadAwake == queue # <<>> => pc[queue[1]] # "sleeping"

\* Writers that fail are not acknowledged, and were not before.
LEMMA FailStep ==
  ASSUME UNCHANGED req, NEW G, \A d \in G : d \in Client /\ result[d] = None,
         \A d \in Client : result'[d] = IF d \in G THEN "error" ELSE result[d]
  PROVE  \A d \in Client : Acknowledged(d)' <=> Acknowledged(d)
BY NoneIsNoStatus DEF Acknowledged, Null

\* The leader fails alone.
LEMMA FailAlone ==
  ASSUME QueueInv, NEW c \in Client, pc[c] \in Leading, PopWriters(c, 1, "error", pc),
         UNCHANGED <<req, mem, imm, tables>>
  PROVE  /\ QueueTypes' /\ Queued' /\ InGroup' /\ OnePlace' /\ PlacedIfAcknowledged' /\ HeadAwake'
         /\ \A d \in Client : pc'[d] \in {pc[d], "awake", "flush", "returned"}
<1>1. QueueTypes /\ Queued /\ InGroup /\ OnePlace /\ PlacedIfAcknowledged
  BY DEF QueueInv
<1>2. Len(queue) \in Nat /\ Len(queue) # 0 /\ queue[1] = c
  BY <1>1, LeaderIsHead
<1>3. 1 \in 1 .. Len(queue) /\ Roused(pc) /\ "error" \in {"ok", "error"}
  BY <1>1, <1>2, WokenRouses DEF QueueTypes
<1>4. /\ Queued' /\ InGroup'
      /\ result' \in [Client -> {None, "ok", "error"}] /\ pc' \in [Client -> Pc]
      /\ queue' \in Seq(Client) /\ last' \in Nat
      /\ \A d \in Client : result'[d] = IF d \in Foremost(1) THEN "error" ELSE result[d]
      /\ \A d \in Foremost(1) : d \in Client /\ result[d] = None
      /\ queue' # <<>> => pc'[queue'[1]] # "sleeping"
      /\ \A d \in Client : pc'[d] \in {pc[d], "awake", "flush", "returned"}
  BY <1>1, <1>2, <1>3, PopStep
<1>5. \A d \in Client : Acknowledged(d)' <=> Acknowledged(d)
  BY <1>4, FailStep
<1>6. OnePlace' /\ PlacedIfAcknowledged'
  BY <1>1, <1>5, SamePlaces
<1>7. QueueTypes'
  BY <1>1, <1>4 DEF QueueTypes
<1> QED BY <1>4, <1>6, <1>7 DEF HeadAwake

\* The leader has room: a batch goes on with its group, a request for a flush is done.
LEMMA RoomMadeStep ==
  ASSUME QueueInv, NEW c \in Client, pc[c] = "room", RoomMade(c), UNCHANGED req
  PROVE  /\ result' \in [Client -> {None, "ok", "error"}] /\ pc' \in [Client -> Pc]
         /\ queue' \in Seq(Client) /\ last' \in Nat
         /\ Queued' /\ InGroup' /\ HeadAwake'
         /\ \A d \in Client : Acknowledged(d)' <=> Acknowledged(d)
         /\ \A d \in Client : pc'[d] \in {pc[d], "awake", "flush", "returned", "logging"}
<1>1. QueueTypes /\ Queued /\ InGroup /\ pc[c] \in Leading
  BY DEF QueueInv, Leading
<1>2. Len(queue) \in Nat /\ Len(queue) # 0 /\ queue # <<>> /\ queue[1] = c
  BY <1>1, LeaderIsHead
<1>3. CASE Null(c)
  <2>1. 1 \in 1 .. Len(queue) /\ Roused(pc) /\ "ok" \in {"ok", "error"} /\ PopWriters(c, 1, "ok", pc)
    BY <1>1, <1>2, <1>3, WokenRouses DEF QueueTypes, RoomMade
  <2>2. /\ Queued' /\ InGroup'
        /\ result' \in [Client -> {None, "ok", "error"}] /\ pc' \in [Client -> Pc]
        /\ queue' \in Seq(Client) /\ last' \in Nat
        /\ \A d \in Client : result'[d] = IF d \in Foremost(1) THEN "ok" ELSE result[d]
        /\ \A d \in Foremost(1) : d \in Client /\ result[d] = None
        /\ queue' # <<>> => pc'[queue'[1]] # "sleeping"
        /\ \A d \in Client : pc'[d] \in {pc[d], "awake", "flush", "returned"}
    BY <1>1, <1>2, <2>1, PopStep
  <2>3. \A d \in Foremost(1) : d = c
    BY <1>2 DEF Foremost
  <2>4. \A d \in Client : Acknowledged(d)' <=> Acknowledged(d)
    BY <1>3, <2>2, <2>3 DEF Acknowledged, Null
  <2> QED BY <2>2, <2>4 DEF HeadAwake
<1>4. CASE ~Null(c)
  <2>1. /\ last' = BuildBatchGroup /\ pc' = [pc EXCEPT ![c] = "logging"]
        /\ UNCHANGED <<req, queue, result>>
    BY <1>4 DEF RoomMade
  <2>2. last' \in 1 .. Len(queue)
    BY <1>2, <2>1, GroupIsFront
  <2>3. last' \in Nat /\ "logging" \in Leading
    BY <1>2, <2>2 DEF Leading, Committing
  <2>4. Queued' /\ InGroup' /\ pc' \in [Client -> Pc]
    BY <1>1, <2>1, <2>2, <2>3, LeadStep
  <2>5. \A d \in Client : pc'[d] \in {pc[d], "awake", "flush", "returned", "logging"}
    BY <1>1, <2>1 DEF QueueTypes
  <2>6. HeadAwake'
    BY <1>1, <1>2, <2>1 DEF HeadAwake, QueueTypes
  <2>7. \A d \in Client : Acknowledged(d)' <=> Acknowledged(d)
    BY <2>1 DEF Acknowledged, Null
  <2> QED BY <1>1, <2>1, <2>3, <2>4, <2>5, <2>6, <2>7 DEF QueueTypes
<1> QED BY <1>3, <1>4

\* The leader moves within MakeRoomForWrite or goes on to the log: nothing is
\* acknowledged or moved.
LEMMA LeadInv ==
  ASSUME QueueInv, NEW c \in Client, pc[c] \in Leading, UNCHANGED <<req, result, queue, mem, imm, tables>>,
         last' \in Nat, NEW x \in Leading, x \in Committing => last' \in 1 .. Len(queue),
         pc' = [pc EXCEPT ![c] = x]
  PROVE  /\ QueueTypes' /\ Queued' /\ InGroup' /\ OnePlace' /\ PlacedIfAcknowledged' /\ HeadAwake'
         /\ \A d \in Client : pc'[d] \in {pc[d], x}
<1>1. QueueTypes /\ Queued /\ InGroup /\ OnePlace /\ PlacedIfAcknowledged
  BY DEF QueueInv
<1>2. Queued' /\ InGroup' /\ pc' \in [Client -> Pc]
  BY <1>1, LeadStep
<1>3. \A d \in Client : Acknowledged(d)' <=> Acknowledged(d)
  BY DEF Acknowledged, Null
<1>4. OnePlace' /\ PlacedIfAcknowledged'
  BY <1>1, <1>3, SamePlaces
<1>5. HeadAwake'
  BY <1>1, LeaderIsHead DEF HeadAwake, QueueTypes, Leading, Committing
<1>6. \A d \in Client : pc'[d] \in {pc[d], x}
  BY <1>1 DEF QueueTypes
<1> QED BY <1>1, <1>2, <1>4, <1>5, <1>6 DEF QueueTypes

\* A client waits for the background thread.
OnSignal(d) == pc[d] \in {"room wait", "flush wait"}

\* MaybeScheduleCompaction does not make the background thread flush.
LEMMA ScheduleStep ==
  ASSUME NEW already, NEW error, NEW immutable, NEW level0, NEW thread,
         MaybeScheduleCompaction(already, error, immutable, level0, thread)
  PROVE  bg' \in {thread, "ready"}
BY DEF MaybeScheduleCompaction, Schedule

\* A round of MakeRoomForWrite.
LEMMA MakeRoomInv ==
  ASSUME QueueInv, NEW c \in Client, MakeRoomForWrite(c)
  PROVE  /\ QueueInv' /\ HeadAwake'
         /\ \/ \A d \in Client : OnSignal(d)' => OnSignal(d)
            \/ ~bgError /\ (imm # None \/ l0 >= L0Stop) /\ UNCHANGED <<store, back>>
<1>1. /\ QueueTypes /\ Queued /\ InGroup /\ OnePlace /\ PlacedIfAcknowledged /\ FlushesSomething
      /\ pc[c] = "room" /\ pc[c] \in Leading /\ UNCHANGED req /\ last \in Nat
  BY DEF QueueInv, MakeRoomForWrite, Leading, QueueTypes
<1>2. CASE PopWriters(c, 1, "error", pc) /\ UNCHANGED <<store, back>>
  <2>1. UNCHANGED <<mem, imm, tables, bg>>
    BY <1>2 DEF store, back
  <2>2. /\ QueueTypes' /\ Queued' /\ InGroup' /\ OnePlace' /\ PlacedIfAcknowledged' /\ HeadAwake'
        /\ \A d \in Client : pc'[d] \in {pc[d], "awake", "flush", "returned"}
    BY <1>1, <1>2, <2>1, FailAlone
  <2> QED BY <1>1, <2>1, <2>2 DEF QueueInv, FlushesSomething, OnSignal
<1>3. CASE /\ ~bgError /\ pc' = [pc EXCEPT ![c] = "delayed"]
           /\ UNCHANGED <<result, queue, last, store, back>>
  <2>1. UNCHANGED <<mem, imm, tables, bg>> /\ last' \in Nat /\ "delayed" \in Leading \ Committing
    BY <1>1, <1>3 DEF store, back, Leading, Committing
  <2>2. /\ QueueTypes' /\ Queued' /\ InGroup' /\ OnePlace' /\ PlacedIfAcknowledged' /\ HeadAwake'
        /\ \A d \in Client : pc'[d] \in {pc[d], "delayed"}
    BY <1>1, <1>3, <2>1, LeadInv
  <2> QED BY <1>1, <2>1, <2>2 DEF QueueInv, FlushesSomething, OnSignal
<1>4. CASE /\ ~bgError /\ (imm # None \/ l0 >= L0Stop) /\ pc' = [pc EXCEPT ![c] = "room wait"]
           /\ UNCHANGED <<result, queue, last, store, back>>
  <2>1. UNCHANGED <<mem, imm, tables, bg>> /\ last' \in Nat /\ "room wait" \in Leading \ Committing
    BY <1>1, <1>4 DEF store, back, Leading, Committing
  <2>2. /\ QueueTypes' /\ Queued' /\ InGroup' /\ OnePlace' /\ PlacedIfAcknowledged' /\ HeadAwake'
        /\ \A d \in Client : pc'[d] \in {pc[d], "room wait"}
    BY <1>1, <1>4, <2>1, LeadInv
  <2> QED BY <1>1, <1>4, <2>1, <2>2 DEF QueueInv, FlushesSomething, OnSignal
<1>5. CASE RoomMade(c) /\ UNCHANGED <<store, back>>
  <2>1. UNCHANGED <<mem, imm, tables, bg>>
    BY <1>5 DEF store, back
  <2>2. /\ result' \in [Client -> {None, "ok", "error"}] /\ pc' \in [Client -> Pc]
        /\ queue' \in Seq(Client) /\ last' \in Nat
        /\ Queued' /\ InGroup' /\ HeadAwake'
        /\ \A d \in Client : Acknowledged(d)' <=> Acknowledged(d)
        /\ \A d \in Client : pc'[d] \in {pc[d], "awake", "flush", "returned", "logging"}
    BY <1>1, <1>5, RoomMadeStep
  <2>3. OnePlace' /\ PlacedIfAcknowledged'
    BY <1>1, <2>1, <2>2, SamePlaces
  <2>4. QueueTypes'
    BY <1>1, <2>1, <2>2 DEF QueueTypes
  <2> QED BY <1>1, <2>1, <2>2, <2>3, <2>4 DEF QueueInv, FlushesSomething, OnSignal
<1>6. CASE /\ RoomMade(c) /\ imm = None /\ imm' = mem /\ mem' = <<>> /\ UNCHANGED tables
           /\ MaybeScheduleCompaction(scheduled, FALSE, mem, l0, bg)
  <2>2. /\ result' \in [Client -> {None, "ok", "error"}] /\ pc' \in [Client -> Pc]
        /\ queue' \in Seq(Client) /\ last' \in Nat
        /\ Queued' /\ InGroup' /\ HeadAwake'
        /\ \A d \in Client : Acknowledged(d)' <=> Acknowledged(d)
        /\ \A d \in Client : pc'[d] \in {pc[d], "awake", "flush", "returned", "logging"}
    BY <1>1, <1>6, RoomMadeStep
  <2>3. OnePlace' /\ PlacedIfAcknowledged' /\ imm' # None
    BY <1>1, <1>6, <2>2, SwitchPlaces
  <2>4. QueueTypes'
    BY <1>1, <1>6, <2>2, EmptySeq DEF QueueTypes
  <2> QED BY <2>2, <2>3, <2>4 DEF QueueInv, FlushesSomething, OnSignal
<1> QED BY <1>2, <1>3, <1>4, <1>5, <1>6 DEF MakeRoomForWrite

\* The leader comes back from a delay or from writing to the log.
LEMMA DelayedInv ==
  ASSUME QueueInv, NEW c \in Client, Delayed(c) \/ LogRecord(c)
  PROVE  /\ QueueInv' /\ HeadAwake' /\ UNCHANGED <<imm, back, bgError, closer>>
         /\ \A d \in Client : OnSignal(d)' => OnSignal(d)
<1>1. /\ QueueTypes /\ Queued /\ InGroup /\ OnePlace /\ PlacedIfAcknowledged /\ FlushesSomething
  BY DEF QueueInv
<1>2. PICK x : /\ pc' = [pc EXCEPT ![c] = x] /\ x \in {"room", "logged", "failed"}
               /\ x = "room" \/ pc[c] = "logging"
  BY DEF Delayed, LogRecord
<1>3. /\ UNCHANGED <<req, result, queue, last, mem, imm, tables, back, bgError, closer>>
      /\ pc[c] \in {"delayed", "logging"}
  BY DEF Delayed, LogRecord, store
<1>4. pc[c] \in Leading /\ x \in Leading /\ last' \in Nat
  BY <1>1, <1>2, <1>3 DEF Leading, Committing, QueueTypes
<1>5. x \in Committing => last' \in 1 .. Len(queue)
  BY <1>1, <1>2, <1>3 DEF InGroup, Committing
<1>6. /\ QueueTypes' /\ Queued' /\ InGroup' /\ OnePlace' /\ PlacedIfAcknowledged' /\ HeadAwake'
      /\ \A d \in Client : pc'[d] \in {pc[d], x}
  BY <1>2, <1>3, <1>4, <1>5, LeadInv
<1> QED BY <1>1, <1>2, <1>3, <1>6 DEF QueueInv, FlushesSomething, OnSignal, back

\* The leader ends its Write, and that of its group.
LEMMA CommitInv ==
  ASSUME QueueInv, NEW c \in Client, Commit(c)
  PROVE  /\ QueueInv' /\ HeadAwake' /\ UNCHANGED <<imm, back>> /\ bgError' \in {bgError, TRUE}
         /\ closer' \in {closer, CloserWoken}
         /\ \A d \in Client : OnSignal(d)' => OnSignal(d)
<1>1. /\ QueueTypes /\ Queued /\ InGroup /\ OnePlace /\ PlacedIfAcknowledged /\ FlushesSomething
      /\ QueueInv /\ pc[c] \in Committing /\ pc[c] \in Leading
  BY DEF QueueInv, Commit, Committing, Leading
<1>2. Len(queue) \in Nat /\ Len(queue) # 0 /\ queue[1] = c /\ last \in 1 .. Len(queue)
  BY <1>1, LeaderIsHead DEF InGroup
<1>3. UNCHANGED <<req, imm, back, tables>> /\ bgError' \in {bgError, TRUE} /\ closer' \in {closer, CloserWoken}
  BY DEF Commit, store
<1>4. PICK status \in {"ok", "error"}, p \in {pc, Woken(pc)} :
        /\ PopWriters(c, last, status, p)
        /\ IF status = "ok" THEN mem' = Append(mem, {d \in Foremost(last) : ~Null(d)}) ELSE UNCHANGED mem
  BY DEF Commit, store
<1>5. Roused(p)
  BY <1>1, WokenRouses DEF QueueTypes
<1>6. /\ Queued' /\ InGroup'
      /\ result' \in [Client -> {None, "ok", "error"}] /\ pc' \in [Client -> Pc]
      /\ queue' \in Seq(Client) /\ last' \in Nat
      /\ \A d \in Client : result'[d] = IF d \in Foremost(last) THEN status ELSE result[d]
      /\ \A d \in Foremost(last) : d \in Client /\ result[d] = None
      /\ queue' # <<>> => pc'[queue'[1]] # "sleeping"
      /\ \A d \in Client : pc'[d] \in {p[d], "awake", "flush", "returned"}
  BY <1>1, <1>2, <1>3, <1>4, <1>5, PopStep
<1>7. OnePlace' /\ PlacedIfAcknowledged' /\ mem' \in Seq(SUBSET Client)
  <2>1. CASE status = "ok"
    <3>1. Foremost(last) \in SUBSET Client
      BY <1>6
    <3> QED BY <1>1, <1>3, <1>4, <1>6, <2>1, <3>1, CommitPlaces
  <2>2. CASE status = "error"
    <3>1. UNCHANGED <<mem, imm, tables>>
      BY <1>3, <1>4, <2>2
    <3>2. \A d \in Client : Acknowledged(d)' <=> Acknowledged(d)
      BY <1>3, <1>6, <2>2, FailStep
    <3> QED BY <1>1, <3>1, <3>2, SamePlaces DEF QueueTypes
  <2> QED BY <2>1, <2>2
<1>8. QueueTypes'
  BY <1>1, <1>3, <1>6, <1>7 DEF QueueTypes
<1>9. \A d \in Client : OnSignal(d)' => OnSignal(d)
  BY <1>5, <1>6 DEF OnSignal, Roused
<1> QED BY <1>1, <1>3, <1>6, <1>7, <1>8, <1>9 DEF QueueInv, FlushesSomething, HeadAwake, back

\* A client that has asked for a flush waits for it, or returns.
LEMMA FlushRequestInv ==
  ASSUME QueueInv, HeadAwake, NEW c \in Client, TEST_CompactMemTable(c)
  PROVE  /\ QueueInv' /\ HeadAwake' /\ UNCHANGED <<imm, back, bgError, closer>>
         /\ \/ \A d \in Client : OnSignal(d)' => OnSignal(d)
            \/ ~bgError /\ imm # None
<1>1. /\ QueueTypes /\ Queued /\ InGroup /\ OnePlace /\ PlacedIfAcknowledged /\ FlushesSomething
      /\ pc[c] = "flush"
  BY DEF QueueInv, TEST_CompactMemTable
<1>2. /\ UNCHANGED <<req, queue, last, mem, imm, tables, back, bgError, closer, bg>>
      /\ pc' = [pc EXCEPT ![c] = IF imm # None /\ ~bgError THEN "flush wait" ELSE "returned"]
  BY DEF TEST_CompactMemTable, store, back
<1>3. /\ Len(queue) \in Nat /\ DOMAIN queue = 1 .. Len(queue)
      /\ \A i \in 1 .. Len(queue) : queue[i] \in Client /\ queue[i] # c
      /\ (queue # <<>> => 1 \in 1 .. Len(queue))
  <2>1. /\ Len(queue) \in Nat /\ DOMAIN queue = 1 .. Len(queue)
        /\ \A i \in 1 .. Len(queue) : queue[i] \in Client
        /\ (queue # <<>> => 1 \in 1 .. Len(queue))
    BY <1>1, LenProperties, ElementOfSeq, EmptySeq DEF QueueTypes
  <2>2. \A i \in 1 .. Len(queue) : queue[i] # c
    BY <1>1 DEF Queued, Waiting, Leading, Committing
  <2> QED BY <2>1, <2>2
<1>4. c \notin ToSet(queue) /\ result[c] # None /\ Null(c)
  <2>1. c \notin ToSet(queue)
    BY <1>3 DEF ToSet
  <2> QED BY <1>1, <2>1 DEF Queued, InGroup
<1>5. /\ result' \in [Client -> {None, "ok", "error"}]
      /\ result'[c] # None /\ \A d \in Client : d # c => result'[d] = result[d]
  BY <1>1, <1>4, NoneIsNoStatus DEF TEST_CompactMemTable, QueueTypes
<1>6. /\ pc' \in [Client -> Pc] /\ pc'[c] \in {"flush wait", "returned"}
      /\ \A d \in Client : d # c => pc'[d] = pc[d]
      /\ pc'[c] = "flush wait" => ~bgError /\ imm # None
  BY <1>1, <1>2 DEF QueueTypes, Pc
<1>7. \A d \in Client : Acknowledged(d)' <=> Acknowledged(d)
  BY <1>2, <1>4, <1>5 DEF Acknowledged, Null
<1>8. OnePlace' /\ PlacedIfAcknowledged'
  BY <1>1, <1>2, <1>7, SamePlaces
<1>9. Queued'
  <2>1. \A i \in 1 .. Len(queue) : /\ result'[queue[i]] = None
                                  /\ pc'[queue[i]] \in Waiting \union (IF i = 1 THEN Leading ELSE {})
    BY <1>1, <1>3, <1>5, <1>6 DEF Queued
  <2>2. \A d \in Client : d \notin ToSet(queue) =>
          IF result'[d] = None THEN pc'[d] = "idle"
          ELSE pc'[d] \in {"awake", "flush", "flush wait", "returned"}
    BY <1>1, <1>5, <1>6 DEF Queued
  <2> QED BY <1>1, <1>2, <2>1, <2>2 DEF Queued
<1>10. InGroup'
  BY <1>1, <1>2, <1>4, <1>6 DEF InGroup, Null, Committing
<1>11. QueueTypes' /\ FlushesSomething'
  BY <1>1, <1>2, <1>5, <1>6 DEF QueueTypes, FlushesSomething
<1>12. HeadAwake'
  BY <1>2, <1>3, <1>6 DEF HeadAwake
<1>13. \/ \A d \in Client : OnSignal(d)' => OnSignal(d)
       \/ ~bgError /\ imm # None
  BY <1>6 DEF OnSignal
<1> QED BY <1>2, <1>8, <1>9, <1>10, <1>11, <1>12, <1>13 DEF QueueInv

-------------------------------------------------------------------------------
(* The background thread and the destructor. *)

\* What every step of theirs leaves as it is.
LEMMA BackgroundFrame ==
  ASSUME QueueInv, BackgroundStep
  PROVE  /\ UNCHANGED <<req, result, queue, last, mem>> /\ Roused(pc')
         /\ \/ UNCHANGED <<imm, tables>>
            \/ imm # None /\ imm' = None /\ tables' = tables \union UNION ToSet(imm)
         /\ bg' = "flush" => imm' # None
<1>1. Roused(Woken(pc)) /\ Roused(pc)
  BY WokenRouses DEF QueueInv, QueueTypes
<1>2. CASE BackgroundThreadMain
  BY <1>1, <1>2 DEF BackgroundThreadMain, clients, store
<1>3. CASE BackgroundCall
  <2>1. UNCHANGED <<req, result, queue, last, mem, imm, tables>> /\ pc' \in {pc, Woken(pc)}
    BY <1>3 DEF BackgroundCall, BackgroundDone, store
  <2>2. bg' = "flush" => imm # None
    <3>1. CASE BackgroundDone(bgError, imm, l0)
      <4>1. MaybeScheduleCompaction(FALSE, bgError, imm, l0, "ready")
        BY <3>1 DEF BackgroundDone
      <4>2. bg' = "ready"
        BY <4>1 DEF MaybeScheduleCompaction, Schedule
      <4> QED BY <4>2
    <3>2. CASE bg' = IF imm # None THEN "flush" ELSE "merge"
      BY <3>2
    <3> QED BY <1>3, <3>1, <3>2 DEF BackgroundCall
  <2> QED BY <1>1, <2>1, <2>2
<1>4. CASE FlushDone
  <2>1. imm # None /\ UNCHANGED <<req, result, queue, last, mem>> /\ pc' = Woken(pc) /\ bg' = "ready"
    BY <1>4, ScheduleStep DEF FlushDone, BackgroundDone, QueueInv, FlushesSomething
  <2>2. \/ UNCHANGED <<imm, tables>>
        \/ imm' = None /\ tables' = tables \union UNION ToSet(imm)
    BY <1>4 DEF FlushDone, CompactMemTable
  <2> QED BY <1>1, <2>1, <2>2
<1>5. CASE FlushWhileMerging
  BY <1>1, <1>5 DEF FlushWhileMerging, CompactMemTable
<1>6. CASE MergeDone
  <2>1. UNCHANGED <<req, result, queue, last, mem, imm, tables>> /\ pc' = Woken(pc) /\ bg' = "ready"
    BY <1>6, ScheduleStep DEF MergeDone, BackgroundDone, store
  <2> QED BY <1>1, <2>1
<1> QED BY <1>2, <1>3, <1>4, <1>5, <1>6 DEF BackgroundStep

\* Their steps preserve the invariant.
LEMMA BackgroundInv ==
  ASSUME QueueInv, BackgroundStep
  PROVE  /\ QueueInv' /\ (HeadAwake => HeadAwake')
         /\ \A d \in Client : OnSignal(d)' => OnSignal(d)
<1>1. /\ QueueTypes /\ Queued /\ InGroup /\ OnePlace /\ PlacedIfAcknowledged /\ FlushesSomething
  BY DEF QueueInv
<1>2. /\ UNCHANGED <<req, result, queue, last, mem>> /\ Roused(pc')
      /\ \/ UNCHANGED <<imm, tables>>
         \/ imm # None /\ imm' = None /\ tables' = tables \union UNION ToSet(imm)
      /\ bg' = "flush" => imm' # None
  BY BackgroundFrame
<1>3. Queued' /\ InGroup' /\ pc' \in [Client -> Pc]
  BY <1>1, <1>2, RouseStep
<1>4. OnePlace' /\ PlacedIfAcknowledged' /\ tables' \subseteq Client
  <2>1. CASE UNCHANGED <<imm, tables>>
    <3>1. \A d \in Client : Acknowledged(d)' <=> Acknowledged(d)
      BY <1>2 DEF Acknowledged, Null
    <3> QED BY <1>1, <1>2, <2>1, <3>1, SamePlaces DEF QueueTypes
  <2>2. CASE imm # None /\ imm' = None /\ tables' = tables \union UNION ToSet(imm)
    BY <1>1, <1>2, <2>2, FlushPlaces
  <2> QED BY <1>2, <2>1, <2>2
<1>5. QueueTypes'
  BY <1>1, <1>2, <1>3, <1>4 DEF QueueTypes
<1>6. HeadAwake => HeadAwake'
  <2>1. queue # <<>> => queue[1] \in Client
    BY <1>1, ElementOfSeq, EmptySeq, LenProperties DEF QueueTypes
  <2> QED BY <1>2, <2>1 DEF HeadAwake, Roused
<1>7. \A d \in Client : OnSignal(d)' => OnSignal(d)
  BY <1>2 DEF OnSignal, Roused
<1> QED BY <1>2, <1>3, <1>4, <1>5, <1>6, <1>7 DEF QueueInv, FlushesSomething

-------------------------------------------------------------------------------
(* The status of a batch. *)

\* QueueInv holds initially.
LEMMA InitQueueInv == Init => QueueInv
<1> SUFFICES ASSUME Init PROVE QueueInv
  OBVIOUS
<1>1. queue = <<>> /\ mem = <<>> /\ imm = None /\ tables = {} /\ last = 0 /\ bg = "none"
  BY DEF Init
<1>2. \A c \in Client : req[c] = None /\ pc[c] = "idle" /\ result[c] = None
  BY DEF Init
<1>3. QueueTypes
  <2>1. queue \in Seq(Client) /\ mem \in Seq(SUBSET Client)
    BY <1>1, EmptySeq
  <2>2. pc \in [Client -> Pc] /\ result \in [Client -> {None, "ok", "error"}]
    BY DEF Init, Pc
  <2>3. req = [c \in Client |-> req[c]]
    BY DEF Init
  <2> QED BY <1>1, <1>2, <2>1, <2>2, <2>3 DEF QueueTypes
<1>4. Len(queue) = 0 /\ DOMAIN queue = {} /\ DOMAIN mem = {}
  BY <1>1, EmptySeq
<1>5. Queued /\ InGroup
  <2>1. 1 .. Len(queue) = {}
    BY <1>4
  <2>2. \A c \in Client : pc[c] \notin Committing /\ pc[c] \notin {"flush", "flush wait"}
    BY <1>2 DEF Committing
  <2> QED BY <1>2, <2>1, <2>2 DEF Queued, InGroup
<1>6. \A c \in Client : MemPlaces(c) = {} /\ ImmPlaces(c) = {} /\ c \notin tables /\ ~Acknowledged(c)
  BY <1>1, <1>2, <1>4, NoneIsNoStatus DEF MemPlaces, ImmPlaces, Acknowledged
<1>7. OnePlace /\ PlacedIfAcknowledged
  BY <1>6 DEF OnePlace, PlacedIfAcknowledged, Somewhere
<1> QED BY <1>1, <1>3, <1>5, <1>7 DEF QueueInv, FlushesSomething

\* Every step preserves QueueInv, and the head of the queue does not fall asleep.
LEMMA NextQueueInv ==
  ASSUME QueueInv, HeadAwake, [Next]_vars
  PROVE  QueueInv' /\ HeadAwake'
<1>1. /\ QueueTypes /\ Queued /\ InGroup /\ OnePlace /\ PlacedIfAcknowledged /\ FlushesSomething
  BY DEF QueueInv
<1>2. ASSUME NEW c \in Client, NEW r \in Requests[c], Write(c, r) PROVE QueueInv' /\ HeadAwake'
  <2>1. /\ Queued' /\ InGroup' /\ pc' \in [Client -> Pc] /\ queue' \in Seq(Client)
        /\ result[c] = None
        /\ queue' # <<>> => pc'[queue'[1]] # "sleeping" \/ (queue # <<>> /\ pc[queue[1]] = "sleeping")
    BY <1>1, <1>2, WriteStep
  <2>2. /\ UNCHANGED <<result, last, mem, imm, tables, bg>> /\ req' = [req EXCEPT ![c] = r]
    BY <1>2 DEF Write, store, back
  <2>3. \A d \in Client : Acknowledged(d)' <=> Acknowledged(d)
    BY <1>1, <2>1, <2>2, NoneIsNoStatus DEF Acknowledged, Null, QueueTypes
  <2>4. OnePlace' /\ PlacedIfAcknowledged'
    BY <1>1, <2>2, <2>3, SamePlaces
  <2>5. /\ \A d \in Client : req'[d] \in Requests[d] \union {None}
        /\ req' = [d \in Client |-> req'[d]]
    BY <1>1, <2>2 DEF QueueTypes
  <2>6. QueueTypes' /\ FlushesSomething'
    BY <1>1, <2>1, <2>2, <2>5 DEF QueueTypes, FlushesSomething
  <2> QED BY <2>1, <2>4, <2>6 DEF QueueInv, HeadAwake
<1>3. ASSUME NEW c \in Client, WakeUp(c) PROVE QueueInv' /\ HeadAwake'
  <2>1. /\ Queued' /\ InGroup' /\ pc' \in [Client -> Pc]
        /\ queue # <<>> => pc'[queue[1]] # "sleeping" \/ pc[queue[1]] = "sleeping"
    BY <1>1, <1>3, WakeUpStep
  <2>2. UNCHANGED <<req, result, queue, last, mem, imm, tables, bg>>
    BY <1>3 DEF WakeUp, store, back
  <2>3. \A d \in Client : Acknowledged(d)' <=> Acknowledged(d)
    BY <2>2 DEF Acknowledged, Null
  <2>4. OnePlace' /\ PlacedIfAcknowledged'
    BY <1>1, <2>2, <2>3, SamePlaces
  <2> QED BY <1>1, <2>1, <2>2, <2>4 DEF QueueInv, QueueTypes, FlushesSomething, HeadAwake
<1>4. ASSUME NEW c \in Client, WriterStep(c) PROVE QueueInv' /\ HeadAwake'
  BY <1>3, <1>4, MakeRoomInv, DelayedInv, CommitInv, FlushRequestInv DEF WriterStep
<1>5. CASE BackgroundStep
  BY <1>5, BackgroundInv
<1>6. CASE Close \/ CloseWakes \/ UNCHANGED vars
  <2>1. UNCHANGED <<req, result, queue, last, pc, mem, imm, tables, bg>>
    BY <1>6 DEF Close, CloseWakes, vars, clients, store, back
  <2>2. Roused(pc')
    BY <1>1, <2>1, WokenRouses DEF QueueTypes
  <2>3. \A d \in Client : Acknowledged(d)' <=> Acknowledged(d)
    BY <2>1 DEF Acknowledged, Null
  <2>4. OnePlace' /\ PlacedIfAcknowledged'
    BY <1>1, <2>1, <2>3, SamePlaces
  <2>5. Queued' /\ InGroup'
    BY <2>1, <2>2, <1>1, RouseStep
  <2> QED BY <1>1, <2>1, <2>4, <2>5 DEF QueueInv, QueueTypes, FlushesSomething, HeadAwake
<1> QED BY <1>2, <1>4, <1>5, <1>6 DEF Next

\* QueueInv implies StatusIsOwn: counting the places of a batch.
LEMMA CountPlaces == QueueInv => StatusIsOwn
<1> SUFFICES ASSUME QueueInv, NEW c \in Client
             PROVE  LET n == Cardinality(MemPlaces(c)) + Cardinality(ImmPlaces(c))
                               + (IF c \in tables THEN 1 ELSE 0)
                    IN /\ result[c] # None => n = (IF Acknowledged(c) THEN 1 ELSE 0)
                       /\ n <= 1
  BY DEF StatusIsOwn
<1>1. /\ \A i, j \in MemPlaces(c) : i = j
      /\ \A i, j \in ImmPlaces(c) : i = j
      /\ MemPlaces(c) = {} \/ ImmPlaces(c) = {}
      /\ c \in tables => MemPlaces(c) = {} /\ ImmPlaces(c) = {}
      /\ Acknowledged(c) <=> Somewhere(c)
  BY DEF QueueInv, OnePlace, PlacedIfAcknowledged
<1>2. ASSUME NEW S, \A i, j \in S : i = j PROVE Cardinality(S) = IF S = {} THEN 0 ELSE 1
  <2>1. CASE S = {}
    BY <2>1, FS_EmptySet
  <2>2. CASE S # {}
    <3>1. PICK x : S = {x}
      BY <1>2, <2>2
    <3> QED BY <2>2, <3>1, FS_Singleton
  <2> QED BY <2>1, <2>2
<1>3. /\ Cardinality(MemPlaces(c)) = IF MemPlaces(c) = {} THEN 0 ELSE 1
      /\ Cardinality(ImmPlaces(c)) = IF ImmPlaces(c) = {} THEN 0 ELSE 1
  BY <1>1, <1>2
<1> QED BY <1>1, <1>3 DEF Somewhere

\* A status is true of the client's own batch, whoever in the queue did the work
\* (DBImpl::Write and its group commit): it is in exactly one of the memtables and
\* the tables if the write was acknowledged, and in none if it failed.
THEOREM StatusesAreOwn == Spec => []StatusIsOwn
<1>1. Init => QueueInv /\ HeadAwake
  BY InitQueueInv DEF Init, HeadAwake
<1>2. (QueueInv /\ HeadAwake) /\ [Next]_vars => (QueueInv /\ HeadAwake)'
  BY NextQueueInv
<1> QED BY <1>1, <1>2, CountPlaces, PTL DEF Spec

-------------------------------------------------------------------------------
(* Signals. *)

\* What SleepersWake adds to QueueInv and HeadAwake.
BackInv ==
  /\ WorkScheduled /\ ClosedAlone
  /\ (\E d \in Client : OnSignal(d)) \/ closer = "waiting" => scheduled
  /\ scheduled \in BOOLEAN /\ bgError \in BOOLEAN /\ l0 \in Nat /\ merging \in Nat
  /\ bg = "merge" => merging <= l0

\* WakeInv in these terms.
LEMMA WakeInvParts == QueueInv /\ HeadAwake /\ BackInv => WakeInv
<1> SUFFICES ASSUME QueueInv, HeadAwake, BackInv PROVE WakeInv
  OBVIOUS
<1>1. \A c \in Client : pc[c] = "sleeping" => c \in ToSet(queue)
  BY DEF QueueInv, Queued
<1>2. scheduled => (work = 1 /\ bg = "ready") \/ bg \in {"call", "flush", "merge"}
  BY DEF BackInv, WorkScheduled
<1>3. SleepersWake
  BY <1>1, <1>2 DEF SleepersWake, HeadAwake, BackInv, OnSignal
<1> QED BY <1>3 DEF WakeInv, BackInv

\* A client that is in a call keeps the database open.
LEMMA OpenInCall == ASSUME BackInv, NEW c \in Client, pc[c] \notin {"idle", "returned"} PROVE closer = "no"
BY DEF BackInv, ClosedAlone, shuttingDown

\* A step of a client that leaves the background alone.
LEMMA ClientStep ==
  ASSUME BackInv, closer = "no", closer' = "no", UNCHANGED <<imm, back>>, bgError' \in {bgError, TRUE},
         \/ \A d \in Client : OnSignal(d)' => OnSignal(d)
         \/ ~bgError /\ (imm # None \/ l0 >= L0Stop)
  PROVE  BackInv'
<1>1. UNCHANGED <<l0, merging, scheduled, work, bg>>
  BY DEF back
<1>2. ~shuttingDown /\ ~shuttingDown'
  BY DEF shuttingDown
<1>3. l0 \in Nat /\ {L0Compact, L0Slowdown, L0Stop} \subseteq Nat /\ L0Compact <= L0Slowdown /\ L0Slowdown <= L0Stop
  BY QueueAssumption DEF BackInv
<1>4. l0 >= L0Stop => l0 >= L0Compact
  BY <1>3
<1>5. (\E d \in Client : OnSignal(d)') => scheduled
  BY <1>2, <1>4 DEF BackInv, WorkScheduled
<1>6. WorkScheduled'
  BY <1>1, <1>2 DEF BackInv, WorkScheduled
<1>7. ClosedAlone'
  BY <1>2 DEF ClosedAlone
<1>8. bgError' \in BOOLEAN
  BY DEF BackInv
<1> QED BY <1>1, <1>5, <1>6, <1>7, <1>8 DEF BackInv

\* The memtable is switched: the flush of the old one is scheduled.
LEMMA SwitchStep ==
  ASSUME BackInv, closer = "no", closer' = "no", UNCHANGED <<l0, merging, bgError>>,
         mem # None, imm' = mem, MaybeScheduleCompaction(scheduled, FALSE, mem, l0, bg)
  PROVE  BackInv'
<1>1. ~shuttingDown /\ ~shuttingDown'
  BY DEF shuttingDown
<1>2. CASE scheduled = TRUE
  <2>1. UNCHANGED <<scheduled, work, bg>>
    BY <1>2 DEF MaybeScheduleCompaction
  <2> QED BY <1>1, <1>2, <2>1 DEF BackInv, WorkScheduled, ClosedAlone
<1>3. CASE scheduled = FALSE
  <2>1. scheduled' = TRUE /\ Schedule(bg)
    BY <1>1, <1>3 DEF MaybeScheduleCompaction
  <2>2. work = 0 /\ bg \in {"none", "waiting", "ready"}
    BY <1>3 DEF BackInv, WorkScheduled
  <2>3. work' = 1 /\ bg' = "ready"
    BY <2>1, <2>2 DEF Schedule
  <2> QED BY <1>1, <2>1, <2>3 DEF BackInv, WorkScheduled, ClosedAlone
<1> QED BY <1>2, <1>3 DEF BackInv

\* The end of BackgroundCall: everyone is woken up, and what is left to do is scheduled.
LEMMA DoneStep ==
  ASSUME QueueInv, BackInv, work = 0, bgError' \in BOOLEAN, l0' \in Nat, merging' \in Nat,
         BackgroundDone(bgError', imm', l0')
  PROVE  BackInv'
<1>1. /\ MaybeScheduleCompaction(FALSE, bgError', imm', l0', "ready")
      /\ pc' = Woken(pc) /\ closer' = CloserWoken
  BY DEF BackgroundDone
<1>2. closer' # "waiting" /\ (shuttingDown' <=> shuttingDown)
  BY <1>1 DEF CloserWoken, shuttingDown
<1>3. \A d \in Client : ~OnSignal(d)' /\ (pc[d] \in {"idle", "returned"} => pc'[d] = pc[d])
  BY <1>1 DEF OnSignal, Woken
<1>4. ClosedAlone'
  BY <1>2, <1>3 DEF BackInv, ClosedAlone
<1>5. CASE shuttingDown \/ bgError' \/ (imm' = None /\ l0' < L0Compact)
  <2>1. scheduled' = FALSE /\ work' = 0 /\ bg' = "ready"
    BY <1>1, <1>5 DEF MaybeScheduleCompaction
  <2>2. ~(l0' < L0Compact /\ l0' >= L0Compact)
    BY QueueAssumption
  <2>3. WorkScheduled'
    BY <1>2, <1>5, <2>1, <2>2 DEF WorkScheduled
  <2> QED BY <1>2, <1>3, <1>4, <2>1, <2>3 DEF BackInv
<1>6. CASE ~(shuttingDown \/ bgError' \/ (imm' = None /\ l0' < L0Compact))
  <2>1. scheduled' = TRUE /\ work' = 1 /\ bg' = "ready"
    BY <1>1, <1>6 DEF MaybeScheduleCompaction, Schedule
  <2>2. WorkScheduled'
    BY <2>1 DEF WorkScheduled
  <2> QED BY <1>2, <1>3, <1>4, <2>1, <2>2 DEF BackInv
<1> QED BY <1>5, <1>6

\* Every step of a client keeps the work scheduled.
LEMMA ClientsBackInv ==
  ASSUME QueueInv, HeadAwake, BackInv, NEW c \in Client,
         (\E r \in Requests[c] : Write(c, r)) \/ WriterStep(c)
  PROVE  BackInv'
<1>1. QueueTypes /\ Queued /\ InGroup
  BY DEF QueueInv
<1>2. CASE \E r \in Requests[c] : Write(c, r)
  <2>1. PICK r \in Requests[c] : Write(c, r)
    BY <1>2
  <2>2. closer = "no" /\ UNCHANGED <<imm, back, bgError, closer>>
    BY <2>1 DEF Write, shuttingDown, store
  <2>3. \A d \in Client : pc'[d] \in {pc[d], "room", "sleeping"}
    BY <1>1, <2>1, WriteStep
  <2>4. \A d \in Client : OnSignal(d)' => OnSignal(d)
    BY <2>3 DEF OnSignal
  <2> QED BY <2>2, <2>4, ClientStep
<1>3. CASE WakeUp(c)
  <2>1. closer = "no" /\ UNCHANGED <<imm, back, bgError, closer>>
    BY <1>3, OpenInCall DEF WakeUp, store
  <2>2. \A d \in Client : pc'[d] \in {pc[d], "flush", "returned", "room", "sleeping"}
    BY <1>1, <1>3, WakeUpStep
  <2>3. \A d \in Client : OnSignal(d)' => OnSignal(d)
    BY <2>2 DEF OnSignal
  <2> QED BY <2>1, <2>3, ClientStep
<1>4. CASE MakeRoomForWrite(c)
  <2>1. closer = "no" /\ UNCHANGED <<bgError, closer>>
    BY <1>4, OpenInCall DEF MakeRoomForWrite
  <2>2. \/ \A d \in Client : OnSignal(d)' => OnSignal(d)
        \/ ~bgError /\ (imm # None \/ l0 >= L0Stop)
    BY <1>4, MakeRoomInv
  <2>3. CASE UNCHANGED <<store, back>>
    BY <2>1, <2>2, <2>3, ClientStep DEF store
  <2>4. CASE /\ imm' = mem /\ UNCHANGED <<l0, merging>>
             /\ MaybeScheduleCompaction(scheduled, FALSE, mem, l0, bg)
    <3>1. mem # None
      BY <1>1, QueueAssumption DEF QueueTypes
    <3> QED BY <2>1, <2>4, <3>1, SwitchStep
  <2> QED BY <1>4, <2>3, <2>4 DEF MakeRoomForWrite
<1>5. CASE Delayed(c) \/ LogRecord(c)
  <2>1. closer = "no"
    BY <1>5, OpenInCall DEF Delayed, LogRecord
  <2>2. UNCHANGED <<imm, back, bgError, closer>> /\ \A d \in Client : OnSignal(d)' => OnSignal(d)
    BY <1>5, DelayedInv
  <2> QED BY <2>1, <2>2, ClientStep
<1>6. CASE Commit(c)
  <2>1. closer = "no"
    BY <1>6, OpenInCall DEF Commit
  <2>2. /\ UNCHANGED <<imm, back>> /\ bgError' \in {bgError, TRUE}
        /\ closer' \in {closer, CloserWoken}
        /\ \A d \in Client : OnSignal(d)' => OnSignal(d)
    BY <1>6, CommitInv
  <2>3. closer' = "no"
    BY <2>1, <2>2 DEF CloserWoken
  <2> QED BY <2>1, <2>2, <2>3, ClientStep
<1>7. CASE TEST_CompactMemTable(c)
  <2>1. closer = "no"
    BY <1>7, OpenInCall DEF TEST_CompactMemTable
  <2>2. /\ UNCHANGED <<imm, back, bgError, closer>>
        /\ \/ \A d \in Client : OnSignal(d)' => OnSignal(d)
           \/ ~bgError /\ imm # None
    BY <1>7, FlushRequestInv
  <2> QED BY <2>1, <2>2, ClientStep
<1> QED BY <1>2, <1>3, <1>4, <1>5, <1>6, <1>7 DEF WriterStep

\* Every step of the background thread does.
LEMMA BackgroundBackInv == ASSUME QueueInv, BackInv, BackgroundStep PROVE BackInv'
<1>0. \A d \in Client : OnSignal(d)' => OnSignal(d)
  BY BackgroundInv
<1>1. CASE BackgroundThreadMain
  <2>1. /\ bg = "ready" /\ UNCHANGED <<pc, imm, l0, merging, scheduled, bgError, closer>>
        /\ IF work = 0 THEN bg' = "waiting" /\ work' = work ELSE bg' = "call" /\ work' = work - 1
    BY <1>1 DEF BackgroundThreadMain, clients, store
  <2>2. WorkScheduled'
    BY <2>1 DEF BackInv, WorkScheduled, shuttingDown
  <2>3. ClosedAlone'
    BY <2>1 DEF BackInv, ClosedAlone, shuttingDown
  <2> QED BY <1>0, <2>1, <2>2, <2>3 DEF BackInv
<1>2. CASE BackgroundCall
  <2>1. scheduled /\ work = 0 /\ UNCHANGED <<imm, l0, bgError>>
    BY <1>2 DEF BackgroundCall, BackInv, WorkScheduled, store
  <2>2. CASE BackgroundDone(bgError, imm, l0) /\ UNCHANGED merging
    <3>1. BackgroundDone(bgError', imm', l0')
      BY <2>1, <2>2
    <3> QED BY <2>1, <2>2, <3>1, DoneStep DEF BackInv
  <2>3. CASE /\ bg' = (IF imm # None THEN "flush" ELSE "merge")
             /\ merging' = (IF imm # None THEN 0 ELSE l0)
             /\ UNCHANGED <<scheduled, work, pc, closer>>
    <3>1. WorkScheduled'
      BY <2>1, <2>3 DEF BackInv, WorkScheduled
    <3>2. ClosedAlone'
      BY <2>3 DEF BackInv, ClosedAlone, shuttingDown
    <3>3. merging' \in Nat /\ merging' <= l0'
      BY <2>1, <2>3 DEF BackInv
    <3> QED BY <1>0, <2>1, <2>3, <3>1, <3>2, <3>3 DEF BackInv
  <2> QED BY <1>2, <2>2, <2>3 DEF BackgroundCall
<1>3. ASSUME CompactMemTable, UNCHANGED merging
      PROVE  bgError' \in BOOLEAN /\ l0' \in Nat /\ merging' \in Nat /\ l0' >= l0
  <2>1. bgError' \in BOOLEAN /\ merging' \in Nat
    BY <1>3 DEF CompactMemTable, BackInv
  <2>2. l0' \in {l0, l0 + 1} /\ l0 \in Nat
    BY <1>3 DEF CompactMemTable, BackInv
  <2>3. l0' \in Nat /\ l0' >= l0
    BY <2>2
  <2> QED BY <2>1, <2>3
<1>4. CASE FlushDone
  <2>1. work = 0 /\ CompactMemTable /\ UNCHANGED merging /\ BackgroundDone(bgError', imm', l0')
    BY <1>4 DEF FlushDone, BackInv, WorkScheduled
  <2> QED BY <1>3, <2>1, DoneStep
<1>5. CASE FlushWhileMerging
  <2>1. /\ bg = "merge" /\ ~shuttingDown /\ CompactMemTable /\ pc' = Woken(pc) /\ closer' = CloserWoken
        /\ UNCHANGED <<merging, scheduled, work, bg>>
    BY <1>5 DEF FlushWhileMerging
  <2>2. scheduled /\ work = 0
    BY <2>1 DEF BackInv, WorkScheduled
  <2>3. WorkScheduled'
    BY <2>1, <2>2 DEF WorkScheduled
  <2>4. ~shuttingDown'
    BY <2>1 DEF shuttingDown, CloserWoken
  <2>5. bgError' \in BOOLEAN /\ l0' \in Nat /\ merging' \in Nat /\ merging' <= l0'
    BY <1>3, <2>1 DEF BackInv
  <2> QED BY <2>1, <2>2, <2>3, <2>4, <2>5 DEF BackInv, ClosedAlone
<1>6. CASE MergeDone
  <2>1. work = 0 /\ merging' = 0 /\ UNCHANGED imm /\ BackgroundDone(bgError', imm, l0')
    BY <1>6 DEF MergeDone, BackInv, WorkScheduled, store
  <2>2. bgError' \in BOOLEAN
    BY <1>6 DEF MergeDone, BackInv
  <2>3. l0' \in {l0, l0 - merging} /\ l0 \in Nat /\ merging \in Nat /\ merging <= l0
    BY <1>6 DEF MergeDone, BackInv
  <2>4. l0' \in Nat
    BY <2>3
  <2> QED BY <2>1, <2>2, <2>4, DoneStep
<1> QED BY <1>1, <1>2, <1>4, <1>5, <1>6 DEF BackgroundStep

\* No thread of the database waits for a signal that does not come
\* (DBImpl::Write, MakeRoomForWrite, BackgroundCall, ~DBImpl): the safety behind
\* WritesReturn and CloseReturns.
THEOREM SleepersAreWoken == Spec => []SleepersWake
<1>1. Init => QueueInv /\ HeadAwake /\ BackInv
  <2> SUFFICES ASSUME Init PROVE QueueInv /\ HeadAwake /\ BackInv
    OBVIOUS
  <2>1. HeadAwake
    BY DEF Init, HeadAwake
  <2>2. \A d \in Client : ~OnSignal(d)
    BY DEF Init, OnSignal
  <2>3. WorkScheduled
    <3>1. ~(l0 >= L0Compact) /\ imm = None
      BY QueueAssumption DEF Init
    <3> QED BY <3>1 DEF Init, WorkScheduled
  <2>4. ClosedAlone
    BY DEF Init, ClosedAlone, shuttingDown
  <2>5. BackInv
    BY <2>2, <2>3, <2>4 DEF Init, BackInv
  <2> QED BY <2>1, <2>5, InitQueueInv
<1>2. (QueueInv /\ HeadAwake /\ BackInv) /\ [Next]_vars => (QueueInv /\ HeadAwake /\ BackInv)'
  <2> SUFFICES ASSUME QueueInv, HeadAwake, BackInv, [Next]_vars PROVE BackInv'
    BY NextQueueInv
  <2>1. CASE Close \/ CloseWakes
    <3>1. /\ UNCHANGED <<pc, imm, l0, merging, scheduled, work, bg, bgError>>
          /\ closer' = IF scheduled THEN "waiting" ELSE "closed"
      BY <2>1 DEF Close, CloseWakes, clients, store, back
    <3>2. \A c \in Client : pc[c] \in {"idle", "returned"}
      BY <2>1 DEF Close, CloseWakes, BackInv, ClosedAlone, shuttingDown
    <3>3. shuttingDown'
      BY <3>1 DEF shuttingDown
    <3>4. WorkScheduled' /\ ClosedAlone'
      BY <3>1, <3>2, <3>3 DEF BackInv, WorkScheduled, ClosedAlone
    <3>5. \A d \in Client : ~OnSignal(d)'
      BY <3>1, <3>2 DEF OnSignal
    <3> QED BY <3>1, <3>4, <3>5 DEF BackInv
  <2>2. CASE UNCHANGED vars
    <3>1. UNCHANGED <<pc, imm, l0, merging, scheduled, work, bg, bgError, closer>>
      BY <2>2 DEF vars, clients, store, back
    <3>2. WorkScheduled' /\ ClosedAlone' /\ \A d \in Client : OnSignal(d)' <=> OnSignal(d)
      BY <3>1 DEF BackInv, WorkScheduled, ClosedAlone, OnSignal, shuttingDown
    <3> QED BY <3>1, <3>2 DEF BackInv
  <2> QED BY <2>1, <2>2, ClientsBackInv, BackgroundBackInv DEF Next
<1>3. QueueInv /\ HeadAwake /\ BackInv => SleepersWake
  BY WakeInvParts DEF WakeInv
<1> QED BY <1>1, <1>2, <1>3, PTL DEF Spec
===============================================================================
