--------------------------- MODULE MemTableProofs ---------------------------
(***************************************************************************)
(* Proofs about the memtable, for any number of readers, keys and entries  *)
(* and any height: a reader never follows a link that was not set, every   *)
(* search that overlaps insertions finds what it should, and a get finds   *)
(* the newest entry as of its sequence number.                             *)
(***************************************************************************)
EXTENDS MemTable, FiniteSetTheorems, SequenceTheorems, TLAPS

InternalKey == [key : Int, seq : Nat, type : {"put", "del"}]

\* Internal keys are in a strict order.
LEMMA LessOrder ==
  ASSUME NEW a \in InternalKey, NEW b \in InternalKey, NEW c \in InternalKey
  PROVE  /\ ~Less(a, a)
         /\ Less(a, b) => ~Less(b, a)
         /\ Less(a, b) /\ Less(b, c) => Less(a, c)
BY DEF Less, Tag, InternalKey

\* Keys of different sequence numbers are ordered.
LEMMA LessTotal ==
  ASSUME NEW a \in InternalKey, NEW b \in InternalKey, a.seq # b.seq
  PROVE  Less(a, b) \/ Less(b, a)
BY DEF Less, Tag, InternalKey

\* The levels below a height.
LEMMA LevelBelow ==
  ASSUME NEW h \in Int, NEW l \in Int, 0 <= l, l < h
  PROVE  l \in 0..(h - 1)
OBVIOUS

\* The larger of two heights.
LEMMA MaxOfTwo ==
  ASSUME NEW a \in Int, NEW b \in Int
  PROVE  /\ Max({a, b}) \in {a, b}
         /\ Max({a, b}) >= a /\ Max({a, b}) >= b
BY DEF Max

\* Every node has a link at level 0, and at every level below one that it has.
LEMMA NodeLevels ==
  ASSUME ListTypes, NEW n \in 0..Len(keys)
  PROVE  \E h \in 1..kMaxHeight : DOMAIN next_[n] = 0..(h - 1) /\ next_[n] \in [0..(h - 1) -> Link]
<1>1. next_[n] \in Links
  BY DEF ListTypes
<1>2. PICK h \in 1..kMaxHeight : next_[n] \in [0..(h - 1) -> Link]
  BY <1>1 DEF Links
<1> QED
  BY <1>2

\* The levels of a node are without a gap, from 0 on.
LEMMA NodeLinks ==
  ASSUME ListTypes, NEW n \in 0..Len(keys)
  PROVE  /\ 0 \in DOMAIN next_[n] /\ DOMAIN next_[n] \subseteq Nat
         /\ \A l \in DOMAIN next_[n] : next_[n][l] \in Link
         /\ \A l \in DOMAIN next_[n] : l > 0 => l - 1 \in DOMAIN next_[n]
<1>1. PICK h \in 1..kMaxHeight : DOMAIN next_[n] = 0..(h - 1) /\ next_[n] \in [0..(h - 1) -> Link]
  BY NodeLevels
<1>2. h \in Nat \ {0}
  BY MemTableAssumption
<1> QED
  BY <1>1, <1>2

\* What is no node is neither a number nor a link to one.
LEMMA NoNode == Nil \notin Int /\ Garbage \notin Int /\ Garbage # Nil
BY MemTableAssumption

\* One link is set, and nothing else of the list changes.
SetLink(a, i, v) ==
  /\ next_' = [next_ EXCEPT ![a][i] = v]
  /\ keys' = keys /\ max_height_' = max_height_ /\ heights' = heights

\* Setting one link changes that link and no other.
LEMMA OneLink ==
  ASSUME ListTypes, NEW a \in 0..Len(keys), NEW i \in DOMAIN next_[a], NEW v \in Link,
         SetLink(a, i, v)
  PROVE  /\ ListTypes'
         /\ \A n \in 0..Len(keys) : DOMAIN next_'[n] = DOMAIN next_[n]
         /\ \A n \in 0..Len(keys) : \A l \in DOMAIN next_[n] :
              next_'[n][l] = IF n = a /\ l = i THEN v ELSE next_[n][l]
<1> USE DEF SetLink
<1>1. next_ \in [0..Len(keys) -> Links] /\ Link' = Link /\ Links' = Links
  BY DEF ListTypes, Link, Links
<1>2. PICK h \in 1..kMaxHeight : DOMAIN next_[a] = 0..(h - 1) /\ next_[a] \in [0..(h - 1) -> Link]
  BY NodeLevels
<1>3. [next_[a] EXCEPT ![i] = v] \in [0..(h - 1) -> Link]
  BY <1>2
<1>4. [next_[a] EXCEPT ![i] = v] \in Links
  BY <1>3 DEF Links
<1>5. /\ next_'[a] = [next_[a] EXCEPT ![i] = v]
      /\ \A n \in 0..Len(keys) : n # a => next_'[n] = next_[n]
  BY <1>1
<1>6. next_' \in [0..Len(keys) -> Links]
  BY <1>1, <1>4
<1>7. \A n \in 0..Len(keys) : DOMAIN next_'[n] = DOMAIN next_[n]
  BY <1>2, <1>3, <1>5
<1>8. \A n \in 0..Len(keys) : \A l \in DOMAIN next_[n] :
        next_'[n][l] = IF n = a /\ l = i THEN v ELSE next_[n][l]
  BY <1>2, <1>5
<1>9. head_ \in 0..Len(keys) /\ DOMAIN next_'[head_] = DOMAIN next_[head_]
  BY <1>7 DEF head_, ListTypes
<1>10. ListTypes'
  BY <1>1, <1>6, <1>9 DEF ListTypes, Level
<1> QED
  BY <1>7, <1>8, <1>10

\* The new node's link is set to what follows its predecessor at that level;
\* nobody can see it yet.
LEMMA SetNextList ==
  ASSUME ListInv, SetNext
  PROVE  /\ ListInv' /\ Linked' = Linked
         /\ \A n \in 0..Len(keys) : \A l \in DOMAIN next_[n] :
              /\ l \in DOMAIN next_'[n]
              /\ next_[n][l] # Garbage => next_'[n][l] # Garbage
<1> DEFINE N == Len(keys)
           i == insert.level
           p == insert.prev[i]
           v == next_[p][i]
<1>1. /\ Inserting /\ ~insert.set
      /\ next_' = [next_ EXCEPT ![New][i] = v]
      /\ insert' = [insert EXCEPT !.set = TRUE]
      /\ UNCHANGED <<keys, max_height_, heights>>
  BY DEF SetNext, Inserting
<1>2. /\ insert = [prev |-> insert.prev, level |-> i, set |-> insert.set]
      /\ New = N /\ N \in Nat \ {0} /\ i \in DOMAIN next_[N]
      /\ \A l \in DOMAIN next_[N] : insert.prev[l] \in 0..(N - 1) /\ l \in DOMAIN next_[insert.prev[l]]
  BY <1>1 DEF ListInv, InsertAt, New
<1>3. /\ insert'.prev = insert.prev /\ insert'.level = i /\ insert'.set = TRUE
      /\ insert' = [prev |-> insert.prev, level |-> i, set |-> TRUE]
  BY <1>1, <1>2
<1>4. Inserting' /\ New' = New
  BY <1>1, <1>3 DEF Inserting, NoInsert, New
<1>5. ListTypes
  BY DEF ListInv
<1>6. p \in 0..N /\ p # N /\ i \in DOMAIN next_[p] /\ v \in Link
  BY <1>2, <1>5, NodeLinks
<1>7. v # Garbage /\ next_[N][i] = Garbage
  BY <1>1, <1>2, <1>6 DEF ListInv, UnsetAbove
<1> HIDE DEF p, v
<1>8. /\ ListTypes'
      /\ \A n \in 0..N : DOMAIN next_'[n] = DOMAIN next_[n]
      /\ \A n \in 0..N : \A l \in DOMAIN next_[n] :
           next_'[n][l] = IF n = N /\ l = i THEN v ELSE next_[n][l]
  <2>1. N \in 0..Len(keys) /\ i \in DOMAIN next_[N] /\ SetLink(N, i, v)
    BY <1>1, <1>2 DEF SetLink
  <2> QED
    BY <1>5, <1>6, <2>1, OneLink
<1>9. Linked' = Linked
  <2>1. /\ DOMAIN next_ = 0..N /\ DOMAIN next_' = 0..N /\ Len(keys') = N
        /\ \A m \in 0..N : 0 \in DOMAIN next_[m]
    BY <1>1, <1>5, <1>8, NodeLinks DEF ListTypes
  <2>2. ASSUME NEW n \in 1..N, NEW m \in 0..N, next_'[m][0] = n
        PROVE  \E k \in 0..N : next_[k][0] = n
    <3>1. CASE m = N /\ i = 0
      BY <1>6, <1>8, <2>1, <2>2, <3>1 DEF v
    <3>2. CASE ~ (m = N /\ i = 0)
      BY <1>8, <2>1, <2>2, <3>2
    <3> QED
      BY <3>1, <3>2
  <2>3. ASSUME NEW n \in 1..N, NEW m \in 0..N, next_[m][0] = n
        PROVE  next_'[m][0] = n
    <3>1. ~ (m = N /\ i = 0)
      BY <1>7, <2>3, NoNode
    <3> QED
      BY <1>8, <2>1, <2>3, <3>1
  <2> QED
    BY <2>1, <2>2, <2>3 DEF Linked
<1>10. UnsetAbove'
  <2> SUFFICES ASSUME NEW n \in 0..N, NEW l \in DOMAIN next_[n]
               PROVE  next_'[n][l] = Garbage <=> n = N /\ (l > i \/ (l = i /\ ~insert'.set))
    BY <1>1, <1>2, <1>3, <1>4, <1>8 DEF UnsetAbove
  <2>1. next_[n][l] = Garbage <=> n = N /\ (l > i \/ (l = i /\ ~insert.set))
    BY <1>1, <1>2 DEF ListInv, UnsetAbove
  <2>2. l \in Nat /\ i \in Nat
    BY <1>2, <1>5, NodeLinks
  <2> QED
    BY <1>3, <1>7, <1>8, <2>1, <2>2
<1>11. LinksLead'
  <2> SUFFICES ASSUME NEW n \in 0..N, NEW l \in DOMAIN next_[n], next_'[n][l] \in 1..N
               PROVE  /\ l \in DOMAIN next_'[next_'[n][l]]
                      /\ next_'[next_'[n][l]][l] # Garbage
                      /\ next_'[n][l] \in Linked
    BY <1>1, <1>8, <1>9 DEF LinksLead
  <2> DEFINE m == next_'[n][l]
  <2>1. l \in DOMAIN next_[m] /\ next_[m][l] # Garbage /\ m \in Linked
    <3>1. CASE n = N /\ l = i
      <4>1. m = next_[p][i]
        BY <1>8, <3>1 DEF v
      <4> QED
        BY <1>6, <3>1, <4>1 DEF ListInv, LinksLead
    <3>2. CASE ~ (n = N /\ l = i)
      BY <1>8, <3>2 DEF ListInv, LinksLead
    <3> QED
      BY <3>1, <3>2
  <2>2. m \in 0..N
    OBVIOUS
  <2> HIDE DEF m
  <2>3. l \in DOMAIN next_'[m] /\ next_'[m][l] # Garbage
    BY <1>7, <1>8, <2>1, <2>2
  <2> QED
    BY <2>1, <2>3 DEF m
<1>12. InsertAt'
  <2>1. insert' = [prev |-> insert'.prev, level |-> insert'.level, set |-> insert'.set]
    BY <1>3
  <2>2. New' = N /\ N \in 0..N
    BY <1>2, <1>4
  <2>3. insert'.level \in DOMAIN next_'[N] /\ insert'.set \in BOOLEAN
    BY <1>2, <1>3, <1>8, <2>2
  <2>4. \A l \in DOMAIN next_'[N] : /\ insert'.prev[l] \in 0..(N - 1)
                                    /\ l \in DOMAIN next_'[insert'.prev[l]]
    BY <1>2, <1>3, <1>8, <2>2
  <2> QED
    BY <1>2, <2>1, <2>2, <2>3, <2>4 DEF InsertAt
<1>13. InsertPlace'
  <2> SUFFICES ASSUME i = 0
               PROVE  /\ N \notin Linked
                      /\ p = head_ \/ Less(keys[p], keys[N])
                      /\ ~KeyIsAfterNode(keys[N], next_'[p][0])
                      /\ next_'[N][0] = next_'[p][0]
    BY <1>1, <1>2, <1>3, <1>4, <1>9 DEF InsertPlace, KeyIsAfterNode, p
  <2>1. /\ N \notin Linked
        /\ p = head_ \/ Less(keys[p], keys[N])
        /\ ~KeyIsAfterNode(keys[N], next_[p][0])
    BY <1>1, <1>2 DEF ListInv, InsertPlace, p
  <2>2. next_'[p][0] = next_[p][0] /\ next_'[N][0] = v
    BY <1>2, <1>6, <1>8
  <2> QED
    BY <2>1, <2>2 DEF v
<1>14. AllLinked'
  BY <1>1, <1>2, <1>3, <1>4, <1>9 DEF ListInv, AllLinked
<1>15. \A x \in Linked \union {head_} : next_'[x][0] = next_[x][0]
  <2> SUFFICES ASSUME NEW x \in Linked \union {head_} PROVE next_'[x][0] = next_[x][0]
    OBVIOUS
  <2>1. x \in 0..N /\ 0 \in DOMAIN next_[x]
    BY <1>2, <1>5, NodeLinks DEF Linked, head_
  <2>2. CASE x = N /\ i = 0
    <3>1. x \in Linked
      BY <1>2, <2>2 DEF head_
    <3>2. PICK m \in 0..N : next_[m][0] = x
      BY <1>5, <3>1 DEF Linked, ListTypes
    <3>3. 0 \in DOMAIN next_[m] /\ x \in 1..N
      BY <1>2, <1>5, <2>2, NodeLinks
    <3>4. next_[x][0] # Garbage
      BY <3>2, <3>3 DEF ListInv, LinksLead
    <3> QED
      BY <1>7, <2>2, <3>4
  <2> QED
    BY <1>8, <2>1, <2>2
<1>16. Sorted'
  BY <1>1, <1>9, <1>15 DEF ListInv, Sorted
<1> QED
  BY <1>7, <1>8, <1>9, <1>10, <1>11, <1>12, <1>13, <1>14, <1>16 DEF ListInv

\* The links at level 0 of the nodes L, and of head_, go upwards and leave out
\* none of L.
SortedBy(K, L, next) ==
  \A x \in L \union {0} :
    /\ next[x] # Nil => x = 0 \/ Less(K[x], K[next[x]])
    /\ \A y \in L : x = 0 \/ Less(K[x], K[y]) => next[x] # Nil /\ ~Less(K[y], K[next[x]])

\* Node N is linked behind node p of L, in its place: next are the links at
\* level 0 before, after those after it.
PutInPlace(N, K, L, next, p, after) ==
  /\ N \in Nat /\ N \in 1..N /\ L \subseteq 1..N /\ N \notin L
  /\ \A n \in 1..N : K[n] \in InternalKey /\ K[n].seq = n
  /\ \A x \in L \union {0} : next[x] \in L \union {Nil}
  /\ p \in L \union {0} /\ (p = 0 \/ Less(K[p], K[N]))
  /\ next[p] # Nil => ~Less(K[next[p]], K[N])
  /\ after[p] = N /\ after[N] = next[p]
  /\ \A x \in L \union {0} : x # p => after[x] = next[x]

\* A node put in its place keeps the order of the list.
LEMMA SortedInsert ==
  ASSUME NEW N, NEW K, NEW L, NEW next, NEW p, NEW after,
         SortedBy(K, L, next), PutInPlace(N, K, L, next, p, after)
  PROVE  SortedBy(K, L \union {N}, after)
<1> USE NoNode DEF PutInPlace
<1> DEFINE v == next[p]
<1>1. \A a \in 1..N : ~Less(K[a], K[a])
  BY LessOrder
<1>2. \A a, b, c \in 1..N : Less(K[a], K[b]) /\ Less(K[b], K[c]) => Less(K[a], K[c])
  BY LessOrder
<1>3. \A a, b \in 1..N : a # b => Less(K[a], K[b]) \/ Less(K[b], K[a])
  BY LessTotal
<1>4. \A a, b \in 1..N : Less(K[a], K[b]) => ~Less(K[b], K[a])
  BY LessOrder
<1>5. v \in L \union {Nil} /\ N # Nil /\ p # N /\ N # 0
  <2>1. N # 0 /\ N # Nil
    OBVIOUS
  <2>2. p # N
    BY <2>1
  <2> QED
    BY <2>1, <2>2
<1>6. v # Nil => v \in 1..N /\ v # N /\ Less(K[N], K[v])
  BY <1>3, <1>5
\* Whatever is after p in the list is after the new node.
<1>7. ASSUME NEW y \in L, p = 0 \/ Less(K[p], K[y])
      PROVE  v # Nil /\ Less(K[N], K[y]) /\ ~Less(K[y], K[v])
  <2>1. v # Nil /\ ~Less(K[y], K[v])
    BY <1>7 DEF SortedBy
  <2>2. y = v \/ Less(K[v], K[y])
    BY <1>3, <1>5, <2>1
  <2> QED
    BY <1>2, <1>5, <1>6, <2>1, <2>2
<1> QED
  <2> SUFFICES ASSUME NEW x \in L \union {N} \union {0}
               PROVE  /\ after[x] # Nil => x = 0 \/ Less(K[x], K[after[x]])
                      /\ \A y \in L \union {N} : x = 0 \/ Less(K[x], K[y]) =>
                           after[x] # Nil /\ ~Less(K[y], K[after[x]])
    BY DEF SortedBy
  <2> HIDE DEF v
  <2>1. CASE x = p
    <3>1. after[x] = N
      BY <2>1
    <3>2. \A y \in L \union {N} : x = 0 \/ Less(K[x], K[y]) => ~Less(K[y], K[N])
      BY <1>1, <1>4, <1>7, <2>1
    <3> QED
      BY <1>5, <2>1, <3>1, <3>2
  <2>2. CASE x = N
    <3>1. after[x] = v
      BY <2>2 DEF v
    <3>2. ASSUME NEW y \in L \union {N}, Less(K[N], K[y]) PROVE v # Nil /\ ~Less(K[y], K[v])
      <4>1. y \in L
        BY <1>1, <3>2
      <4>2. p = 0 \/ Less(K[p], K[y])
        BY <1>2, <3>2, <4>1
      <4> QED
        BY <1>7, <4>1, <4>2
    <3> QED
      BY <1>5, <1>6, <2>2, <3>1, <3>2
  <2>3. CASE x # p /\ x # N
    <3>1. after[x] = next[x] /\ x \in L \union {0}
      BY <2>3
    <3>2. ASSUME x = 0 \/ Less(K[x], K[N])
          PROVE  next[x] # Nil /\ ~Less(K[N], K[next[x]])
      <4>1. p # 0
        <5> SUFFICES ASSUME p = 0 PROVE FALSE
          OBVIOUS
        <5>1. x \in L
          BY <2>3, <3>1
        <5>2. Less(K[N], K[x])
          BY <1>7, <5>1
        <5> QED
          BY <1>4, <2>3, <3>2, <5>1, <5>2
      <4>2. p \in L /\ Less(K[p], K[N])
        BY <4>1
      <4>3. x = 0 \/ Less(K[x], K[p])
        <5> SUFFICES ASSUME x # 0, Less(K[p], K[x]) PROVE FALSE
          BY <1>3, <2>3, <3>1, <4>2
        <5>1. x \in L
          BY <3>1
        <5>2. Less(K[N], K[x])
          BY <1>7, <5>1
        <5> QED
          BY <1>4, <3>2, <5>1, <5>2
      <4>4. next[x] # Nil /\ ~Less(K[p], K[next[x]])
        BY <3>1, <4>2, <4>3 DEF SortedBy
      <4>5. next[x] \in 1..N
        BY <3>1, <4>4
      <4>6. next[x] = p \/ Less(K[next[x]], K[p])
        BY <1>3, <4>2, <4>4, <4>5
      <4>7. Less(K[next[x]], K[N])
        BY <1>2, <4>2, <4>5, <4>6
      <4> QED
        BY <1>4, <4>4, <4>5, <4>7
    <3> QED
      BY <3>1, <3>2 DEF SortedBy
  <2> QED
    BY <2>1, <2>2, <2>3

\* The nodes in the list, and head_, have a link at level 0 that is set and
\* leads to a node in the list.
LEMMA LinkedNext ==
  ASSUME ListInv, NEW x \in Linked \union {head_}
  PROVE  /\ x \in 0..Len(keys) /\ 0 \in DOMAIN next_[x]
         /\ next_[x][0] \in Linked \union {Nil}
<1>1. ListTypes /\ Len(keys) \in Nat
  BY DEF ListInv, ListTypes
<1>2. x \in 0..Len(keys)
  BY <1>1 DEF Linked, head_
<1>3. 0 \in DOMAIN next_[x] /\ next_[x][0] \in Link
  BY <1>1, <1>2, NodeLinks
<1>4. next_[x][0] # Garbage
  <2>1. CASE x = head_
    <3>1. Inserting => x # New
      BY <2>1 DEF ListInv, InsertAt, head_
    <3> QED
      BY <1>2, <1>3, <3>1 DEF ListInv, UnsetAbove
  <2>2. CASE x \in Linked
    <3>1. PICK m \in 0..Len(keys) : next_[m][0] = x
      BY <1>1, <2>2 DEF Linked, ListTypes
    <3>2. 0 \in DOMAIN next_[m] /\ x \in 1..Len(keys)
      BY <1>1, <2>2, NodeLinks DEF Linked
    <3> QED
      BY <3>1, <3>2 DEF ListInv, LinksLead
  <2> QED
    BY <2>1, <2>2
<1>5. next_[x][0] \in 1..Len(keys) => next_[x][0] \in Linked
  BY <1>2, <1>3 DEF ListInv, LinksLead
<1> QED
  BY <1>2, <1>3, <1>4, <1>5 DEF Link

\* The predecessor's link makes the new node visible at one level.
LEMMA PublishList ==
  ASSUME ListInv, Publish
  PROVE  /\ ListInv' /\ Linked' = Linked \union {New}
         /\ \A n \in 0..Len(keys) : \A l \in DOMAIN next_[n] :
              /\ l \in DOMAIN next_'[n]
              /\ next_[n][l] # Garbage => next_'[n][l] # Garbage
<1> DEFINE N == Len(keys)
           i == insert.level
           p == insert.prev[i]
<1>1. /\ Inserting /\ insert.set
      /\ next_' = [next_ EXCEPT ![p][i] = New]
      /\ insert' = IF i + 1 = Cardinality(DOMAIN next_[New]) THEN NoInsert
                   ELSE [insert EXCEPT !.level = i + 1, !.set = FALSE]
      /\ UNCHANGED <<keys, max_height_, heights>>
  BY DEF Publish, Inserting
<1>2. /\ insert = [prev |-> insert.prev, level |-> i, set |-> insert.set]
      /\ New = N /\ N \in Nat \ {0} /\ i \in DOMAIN next_[N]
      /\ \A l \in DOMAIN next_[N] : insert.prev[l] \in 0..(N - 1) /\ l \in DOMAIN next_[insert.prev[l]]
  BY <1>1 DEF ListInv, InsertAt, New
<1>3. ListTypes
  BY DEF ListInv
<1>4. PICK h \in 1..kMaxHeight : DOMAIN next_[N] = 0..(h - 1)
  BY <1>2, <1>3, NodeLevels
<1>5. h \in Nat \ {0} /\ i \in Nat /\ Cardinality(DOMAIN next_[New]) = h
  <2>1. h \in Nat \ {0}
    BY MemTableAssumption
  <2>2. Cardinality(0..(h - 1)) = h
    BY <2>1, FS_Interval
  <2> QED
    BY <1>2, <1>4, <2>1, <2>2
<1>6. /\ ~Inserting' => i + 1 = h
      /\ Inserting' => /\ i + 1 \in DOMAIN next_[N]
                       /\ insert' = [prev |-> insert.prev, level |-> i + 1, set |-> FALSE]
  <2>1. CASE i + 1 = h
    BY <1>1, <1>5, <2>1 DEF Inserting
  <2>2. CASE i + 1 # h
    <3>1. insert' = [prev |-> insert.prev, level |-> i + 1, set |-> FALSE]
      BY <1>1, <1>2, <1>5, <2>2
    <3>2. Inserting'
      BY <1>5, <3>1 DEF Inserting, NoInsert
    <3>3. i + 1 \in DOMAIN next_[N]
      BY <1>2, <1>4, <1>5, <2>2
    <3> QED
      BY <3>1, <3>2, <3>3
  <2> QED
    BY <2>1, <2>2
<1>7. /\ New' = N /\ p \in 0..N /\ p # N /\ i \in DOMAIN next_[p] /\ N \in Link /\ N # Garbage
      /\ N \in 0..N /\ N \in 1..N
  BY <1>1, <1>2, NoNode DEF New, Link
<1>8. /\ \A n \in 0..N : \A l \in DOMAIN next_[n] : next_[n][l] = Garbage <=> n = N /\ l > i
  BY <1>1, <1>2 DEF ListInv, UnsetAbove
<1> HIDE DEF p
<1>9. /\ ListTypes'
      /\ \A n \in 0..N : DOMAIN next_'[n] = DOMAIN next_[n]
      /\ \A n \in 0..N : \A l \in DOMAIN next_[n] :
           next_'[n][l] = IF n = p /\ l = i THEN N ELSE next_[n][l]
  <2>1. SetLink(p, i, N)
    BY <1>1, <1>2 DEF SetLink
  <2> QED
    BY <1>3, <1>7, <2>1, OneLink
<1>10. \A m \in 0..N : 0 \in DOMAIN next_[m]
  BY <1>3, NodeLinks
<1>11. i = 0 => /\ N \notin Linked
                /\ p = head_ \/ Less(keys[p], keys[N])
                /\ ~KeyIsAfterNode(keys[N], next_[p][0])
                /\ next_[N][0] = next_[p][0]
  BY <1>1, <1>2 DEF ListInv, InsertPlace, p
<1>12. i # 0 => N \in Linked
  BY <1>2, <1>7 DEF ListInv, AllLinked
<1>13. Linked' = Linked \union {N}
  <2>1. DOMAIN next_ = 0..N /\ DOMAIN next_' = 0..N /\ Len(keys') = N
    BY <1>1, <1>3, <1>9 DEF ListTypes
  <2>2. ASSUME NEW n \in 1..N, NEW m \in 0..N, next_'[m][0] = n
        PROVE  n = N \/ \E k \in 0..N : next_[k][0] = n
    BY <1>9, <1>10, <2>2
  <2>3. ASSUME NEW n \in 1..N, NEW m \in 0..N, next_[m][0] = n
        PROVE  \E k \in 0..N : next_'[k][0] = n
    <3>1. CASE m = p /\ i = 0
      <4>1. next_'[N][0] = n
        BY <1>7, <1>9, <1>10, <1>11, <2>3, <3>1
      <4> QED
        BY <1>7, <4>1
    <3>2. CASE ~ (m = p /\ i = 0)
      BY <1>9, <1>10, <2>3, <3>2
    <3> QED
      BY <3>1, <3>2
  <2>4. \E k \in 0..N : next_'[k][0] = N
    <3>1. CASE i = 0
      BY <1>7, <1>9, <1>10, <3>1
    <3>2. CASE i # 0
      BY <1>12, <2>1, <2>3, <3>2 DEF Linked
    <3> QED
      BY <3>1, <3>2
  <2> QED
    BY <1>7, <2>1, <2>2, <2>3, <2>4 DEF Linked
<1>14. UnsetAbove'
  <2> SUFFICES ASSUME NEW n \in 0..N, NEW l \in DOMAIN next_[n]
               PROVE  next_'[n][l] = Garbage <=>
                        /\ Inserting' /\ n = N
                        /\ l > insert'.level \/ (l = insert'.level /\ ~insert'.set)
    BY <1>1, <1>7, <1>9 DEF UnsetAbove
  <2>1. l \in Nat
    BY <1>3, NodeLinks
  <2>2. next_'[n][l] = Garbage <=> n = N /\ l > i
    BY <1>7, <1>8, <1>9
  <2>3. CASE Inserting'
    <3>1. insert'.level = i + 1 /\ ~insert'.set
      BY <1>6, <2>3
    <3>2. l > i <=> l > i + 1 \/ l = i + 1
      BY <1>5, <2>1
    <3> QED
      BY <2>2, <2>3, <3>1, <3>2
  <2>4. CASE ~Inserting'
    BY <1>4, <1>5, <1>6, <2>1, <2>2, <2>4
  <2> QED
    BY <2>3, <2>4
<1>15. LinksLead'
  <2> SUFFICES ASSUME NEW n \in 0..N, NEW l \in DOMAIN next_[n], NEW m \in 1..N, m = next_'[n][l]
               PROVE  l \in DOMAIN next_'[m] /\ next_'[m][l] # Garbage /\ m \in Linked \union {N}
    BY <1>1, <1>9, <1>13 DEF LinksLead
  <2>1. l \in DOMAIN next_[m] /\ next_[m][l] # Garbage /\ m \in Linked \union {N}
    <3>1. CASE n = p /\ l = i
      <4>1. m = N
        BY <1>9, <3>1
      <4> QED
        BY <1>2, <1>5, <1>7, <1>8, <3>1, <4>1
    <3>2. CASE ~ (n = p /\ l = i)
      BY <1>9, <3>2 DEF ListInv, LinksLead
    <3> QED
      BY <3>1, <3>2
  <2>2. m \in 0..N
    OBVIOUS
  <2> QED
    BY <1>7, <1>9, <2>1, <2>2
<1>16. InsertAt'
  <2> SUFFICES ASSUME Inserting' PROVE InsertAt'
    BY DEF InsertAt
  <2>1. /\ insert' = [prev |-> insert'.prev, level |-> insert'.level, set |-> insert'.set]
        /\ insert'.level = i + 1 /\ insert'.set = FALSE /\ insert'.prev = insert.prev
    BY <1>6
  <2>2. insert'.level \in DOMAIN next_'[N] /\ insert'.set \in BOOLEAN
    BY <1>6, <1>7, <1>9, <2>1
  <2>3. \A l \in DOMAIN next_'[N] : /\ insert'.prev[l] \in 0..(N - 1)
                                    /\ l \in DOMAIN next_'[insert'.prev[l]]
    BY <1>2, <1>7, <1>9, <2>1
  <2> QED
    BY <1>2, <1>7, <2>1, <2>2, <2>3 DEF InsertAt
<1>17. InsertPlace'
  <2>1. Inserting' => insert'.level # 0
    BY <1>5, <1>6
  <2> QED
    BY <2>1 DEF InsertPlace
<1>18. AllLinked'
  BY <1>1, <1>2, <1>13 DEF ListInv, AllLinked
<1>19. Sorted'
  <2> DEFINE K == keys
             L == Linked
             next == [x \in 0..N |-> next_[x][0]]
             after == [x \in 0..N |-> next_'[x][0]]
  <2>1. \A n \in 1..N : K[n] \in InternalKey /\ K[n].seq = n
    <3>1. keys \in Seq(InternalKey) /\ \A n \in 1..N : keys[n].seq = n
      BY <1>3 DEF ListTypes, InternalKey
    <3> QED
      BY <3>1
  <2>2. L \subseteq 1..N /\ \A x \in L \union {0} : next[x] \in L \union {Nil} /\ next[x] = next_[x][0]
    BY LinkedNext DEF head_, Linked
  <2>3. SortedBy(K, L, next)
    BY <2>2 DEF ListInv, Sorted, SortedBy, head_
  <2>4. \A x \in 0..N : after[x] = next_'[x][0]
    OBVIOUS
  <2>5. CASE i = 0
    <3>1. p \in L \union {0}
      BY <1>2, <1>7 DEF ListInv, AllLinked
    <3>2. p = 0 \/ Less(K[p], K[N])
      BY <1>11, <2>5 DEF head_
    <3>3. next[p] # Nil => ~Less(K[next[p]], K[N])
      BY <1>7, <1>11, <2>5 DEF KeyIsAfterNode
    <3>4. after[p] = N /\ after[N] = next[p]
      BY <1>7, <1>9, <1>10, <1>11, <2>5
    <3>5. \A x \in L \union {0} : x # p => after[x] = next[x]
      BY <1>9, <1>10, <2>2, <2>5
    <3>6. N \in Nat /\ N \in 1..N /\ N \notin L /\ Nil \notin Int
      BY <1>2, <1>7, <1>11, <2>5, NoNode
    <3> HIDE DEF K, L, next, after
    <3>7. SortedBy(K, L \union {N}, after)
      <4>1. PutInPlace(N, K, L, next, p, after)
        BY <2>1, <2>2, <3>1, <3>2, <3>3, <3>4, <3>5, <3>6 DEF PutInPlace
      <4> QED
        BY <2>3, <4>1, SortedInsert
    <3>8. \A x \in L \union {N} \union {0} : after[x] = next_'[x][0]
      BY <2>2, <2>4, <3>6
    <3> QED
      BY <1>1, <1>13, <3>7, <3>8 DEF Sorted, SortedBy, K, L, head_
  <2>6. CASE i # 0
    <3>1. \A x \in L \union {head_} : next_'[x][0] = next_[x][0]
      BY <1>9, <1>10, <2>2, <2>6 DEF head_
    <3>2. Linked' = Linked
      BY <1>12, <1>13, <2>6
    <3> QED
      BY <1>1, <3>1, <3>2 DEF ListInv, Sorted
  <2> QED
    BY <2>5, <2>6
<1> QED
  BY <1>2, <1>7, <1>9, <1>13, <1>14, <1>15, <1>16, <1>17, <1>18, <1>19 DEF ListInv

\* A new node is allocated; nothing leads to it yet.
LEMMA AddList ==
  ASSUME ListInv, NEW k \in UserKey, NEW type \in {"put", "del"}, NEW height \in 1..kMaxHeight,
         Add(k, type, height)
  PROVE  /\ ListInv' /\ Linked' = Linked /\ Inserting'
         /\ Len(keys') = Len(keys) + 1
         /\ \A n \in 1..Len(keys) : keys'[n] = keys[n]
         /\ \A n \in 0..Len(keys) : next_'[n] = next_[n]
<1> DEFINE N == Len(keys)
           e == [key |-> k, seq |-> N + 1, type |-> type]
<1>1. /\ ~Inserting
      /\ max_height_' = Max({height, max_height_})
      /\ heights' = heights \union {max_height_'}
      /\ keys' = Append(keys, e)
      /\ next_' = [n \in DOMAIN next_ \union {N + 1} |->
                     IF n = N + 1 THEN [l \in 0..(height - 1) |-> Garbage] ELSE next_[n]]
  BY DEF Add, Inserting
<1>2. PICK prev :
        /\ prev \in [0..(max_height_' - 1) -> DOMAIN next_]
        /\ FindGreaterOrEqual(e, prev)
        /\ \A l \in max_height_..(height - 1) : prev[l] = head_
        /\ insert' = [prev |-> prev, level |-> 0, set |-> FALSE]
  BY DEF Add
<1>3. /\ ListTypes /\ N \in Nat /\ keys \in Seq(InternalKey) /\ DOMAIN next_ = 0..N
      /\ max_height_ \in 1..kMaxHeight
  BY DEF ListInv, ListTypes, InternalKey
<1>4. height \in Nat \ {0} /\ max_height_ \in Nat \ {0} /\ kMaxHeight \in Nat \ {0} /\ k \in Int
  BY <1>3, MemTableAssumption
<1>5. /\ max_height_' \in 1..kMaxHeight /\ max_height_' \in Nat \ {0}
      /\ max_height_' >= height /\ max_height_' >= max_height_
  <2>1. max_height_' \in {height, max_height_} /\ max_height_' >= height /\ max_height_' >= max_height_
    <3>1. height \in Int /\ max_height_ \in Int
      BY <1>4
    <3>2. /\ Max({height, max_height_}) \in {height, max_height_}
          /\ Max({height, max_height_}) >= height /\ Max({height, max_height_}) >= max_height_
      BY <3>1, MaxOfTwo
    <3> QED
      BY <1>1, <3>2
  <2> QED
    BY <1>3, <1>4, <2>1
<1>6. e \in InternalKey
  BY <1>3, <1>4 DEF InternalKey
<1>7. /\ keys' \in Seq(InternalKey) /\ Len(keys') = N + 1 /\ keys'[N + 1] = e
      /\ \A n \in 1..N : keys'[n] = keys[n]
  <2> HIDE DEF e
  <2> QED
    BY <1>1, <1>3, <1>6
<1>8. /\ DOMAIN next_' = 0..(N + 1)
      /\ next_'[N + 1] = [l \in 0..(height - 1) |-> Garbage]
      /\ \A n \in 0..N : next_'[n] = next_[n]
  <2>1. 0..N \union {N + 1} = 0..(N + 1) /\ \A n \in 0..N : n # N + 1
    BY <1>3
  <2> QED
    BY <1>1, <1>3, <2>1
<1>9. New' = N + 1
  BY <1>7 DEF New
<1>10. /\ insert'.prev = prev /\ insert'.level = 0 /\ insert'.set = FALSE
       /\ insert' = [prev |-> insert'.prev, level |-> insert'.level, set |-> insert'.set]
  BY <1>2
<1>11. Inserting'
  <2>1. 0 \in DOMAIN prev
    BY <1>2, <1>5
  <2>2. prev # << >>
    BY <2>1
  <2> QED
    BY <1>10, <2>2 DEF Inserting, NoInsert
<1>12. \A n \in 0..N : \A l \in DOMAIN next_[n] : next_[n][l] # Garbage /\ next_[n][l] \in 1..N \union {Nil}
  <2> SUFFICES ASSUME NEW n \in 0..N, NEW l \in DOMAIN next_[n]
               PROVE  next_[n][l] # Garbage /\ next_[n][l] \in 1..N \union {Nil}
    OBVIOUS
  <2>1. next_[n][l] # Garbage
    BY <1>1 DEF ListInv, UnsetAbove
  <2>2. next_[n][l] \in Link
    BY <1>3, NodeLinks
  <2> QED
    BY <2>1, <2>2 DEF Link
<1>13. ListTypes'
  <2>1. \A n \in 1..Len(keys') : keys'[n].seq = n
    <3>1. \A n \in 1..N : keys'[n].seq = n
      BY <1>3, <1>7 DEF ListTypes
    <3>2. keys'[N + 1].seq = N + 1
      BY <1>7
    <3> QED
      BY <1>3, <1>7, <3>1, <3>2
  <2>2. Link \subseteq Link'
    BY <1>3, <1>7 DEF Link
  <2>3. ASSUME NEW n \in 0..N PROVE next_'[n] \in Links'
    <3>1. PICK h \in 1..kMaxHeight : next_[n] \in [0..(h - 1) -> Link]
      BY <1>3, NodeLevels
    <3>2. next_[n] \in [0..(h - 1) -> Link']
      BY <2>2, <3>1
    <3> QED
      BY <1>8, <3>2 DEF Links
  <2>4. next_'[N + 1] \in Links'
    <3>1. next_'[N + 1] \in [0..(height - 1) -> Link']
      BY <1>8 DEF Link
    <3> QED
      BY <3>1 DEF Links
  <2>5. next_' \in [0..Len(keys') -> Links']
    <3>1. next_' = [n \in 0..(N + 1) |-> next_'[n]]
      BY <1>1, <1>8
    <3>2. \A n \in 0..(N + 1) : next_'[n] \in Links'
      BY <1>3, <2>3, <2>4
    <3> QED
      BY <1>7, <3>1, <3>2
  <2>6. DOMAIN next_'[head_] = Level'
    BY <1>3, <1>8 DEF ListTypes, head_, Level
  <2>7. max_height_' \in heights' /\ heights' \subseteq 1..kMaxHeight
    BY <1>1, <1>5, <1>3 DEF ListTypes
  <2> QED
    BY <1>7, <2>1, <2>5, <2>6, <2>7 DEF ListTypes, InternalKey
<1>14. \A n \in 0..N : 0 \in DOMAIN next_[n]
  BY <1>3, NodeLinks
<1>15. Linked' = Linked
  <2>1. 0 \in DOMAIN next_'[N + 1] /\ next_'[N + 1][0] = Garbage
    BY <1>4, <1>8
  <2>2. \A m \in 0..N : next_[m][0] # N + 1
    BY <1>3, <1>12, <1>14, NoNode
  <2>3. ASSUME NEW n \in 1..(N + 1), NEW m \in 0..(N + 1), next_'[m][0] = n
        PROVE  n \in 1..N /\ m \in 0..N /\ next_[m][0] = n
    <3>1. m # N + 1
      BY <2>1, <2>3, NoNode
    <3>2. m \in 0..N
      BY <1>3, <3>1
    <3> QED
      BY <1>3, <1>8, <2>2, <2>3, <3>2
  <2>4. \A n \in 1..N, m \in 0..N : next_[m][0] = n =>
          n \in 1..(N + 1) /\ m \in 0..(N + 1) /\ next_'[m][0] = n
    BY <1>3, <1>8
  <2> QED
    BY <1>3, <1>7, <1>8, <2>3, <2>4 DEF Linked
<1>16. UnsetAbove'
  <2> SUFFICES ASSUME NEW n \in 0..(N + 1), NEW l \in DOMAIN next_'[n]
               PROVE  next_'[n][l] = Garbage <=> n = N + 1 /\ (l > 0 \/ l = 0)
    BY <1>7, <1>9, <1>10, <1>11 DEF UnsetAbove
  <2>1. CASE n = N + 1
    BY <1>4, <1>8, <2>1
  <2>2. CASE n # N + 1
    <3>1. n \in 0..N
      BY <1>3, <2>2
    <3> QED
      BY <1>8, <1>12, <2>2, <3>1
  <2> QED
    BY <2>1, <2>2
<1>17. LinksLead'
  <2> SUFFICES ASSUME NEW n \in 0..(N + 1), NEW l \in DOMAIN next_'[n],
                      NEW m \in 1..(N + 1), m = next_'[n][l]
               PROVE  l \in DOMAIN next_'[m] /\ next_'[m][l] # Garbage /\ m \in Linked
    BY <1>7, <1>15 DEF LinksLead
  <2>1. n # N + 1
    BY <1>8, NoNode
  <2>2. n \in 0..N /\ m \in 1..N /\ m = next_[n][l] /\ l \in DOMAIN next_[n]
    <3>1. n \in 0..N
      BY <1>3, <2>1
    <3>2. m = next_[n][l] /\ l \in DOMAIN next_[n]
      BY <1>8, <3>1
    <3>3. m \in 1..N \union {Nil}
      BY <1>12, <3>1, <3>2
    <3> QED
      BY <3>1, <3>2, <3>3, NoNode
  <2>3. l \in DOMAIN next_[m] /\ next_[m][l] # Garbage /\ m \in Linked
    BY <2>2 DEF ListInv, LinksLead
  <2> QED
    BY <1>3, <1>8, <2>2, <2>3
<1>18. InsertAt'
  <2>1. ASSUME NEW l \in 0..(height - 1)
        PROVE  prev[l] \in 0..N /\ l \in DOMAIN next_[prev[l]]
    <3>1. l \in 0..(max_height_' - 1)
      <4>1. max_height_' \in Int /\ l \in Int /\ 0 <= l /\ l < max_height_'
        BY <1>4, <1>5
      <4> QED
        BY <4>1, LevelBelow
    <3>2. prev[l] \in 0..N
      BY <1>2, <1>3, <3>1
    <3>3. CASE l < max_height_
      BY <1>2, <1>4, <3>2, <3>3 DEF FindGreaterOrEqual
    <3>4. CASE l >= max_height_
      <4>1. prev[l] = head_
        BY <1>2, <1>4, <3>4
      <4>2. l \in Level
        BY <1>4 DEF Level
      <4> QED
        BY <1>3, <3>2, <4>1, <4>2 DEF ListTypes
    <3> QED
      BY <1>4, <3>2, <3>3, <3>4
  <2>2. DOMAIN next_'[N + 1] = 0..(height - 1) /\ 0 \in 0..(height - 1)
    BY <1>4, <1>8
  <2>3. \A l \in DOMAIN next_'[N + 1] :
          insert'.prev[l] \in 0..(N + 1 - 1) /\ l \in DOMAIN next_'[insert'.prev[l]]
    BY <1>3, <1>8, <1>10, <2>1, <2>2
  <2>4. N + 1 \in Nat \ {0} /\ insert'.level \in DOMAIN next_'[N + 1] /\ insert'.set \in BOOLEAN
    BY <1>3, <1>10, <2>2
  <2> QED
    BY <1>9, <1>10, <2>3, <2>4 DEF InsertAt
<1>19. InsertPlace'
  <2>1. 0 \in 0..(max_height_ - 1) /\ 0 \in DOMAIN prev
    BY <1>2, <1>4, <1>5
  <2>2. /\ prev[0] # head_ => Less(keys[prev[0]], e)
        /\ 0 \in DOMAIN next_[prev[0]]
        /\ ~KeyIsAfterNode(e, next_[prev[0]][0])
    BY <1>2, <2>1 DEF FindGreaterOrEqual
  <2>3. prev[0] \in 0..N
    BY <1>2, <1>3, <2>1
  <2>4. prev[0] # head_ => Less(keys'[prev[0]], keys'[N + 1])
    BY <1>3, <1>7, <2>2, <2>3 DEF head_
  <2>5. next_'[prev[0]][0] = next_[prev[0]][0] /\ next_[prev[0]][0] \in 1..N \union {Nil}
    BY <1>8, <1>12, <2>2, <2>3
  <2>6. ~(next_'[prev[0]][0] # Nil /\ Less(keys'[next_'[prev[0]][0]], keys'[N + 1]))
    BY <1>7, <2>2, <2>5 DEF KeyIsAfterNode
  <2>7. N + 1 \notin Linked'
    BY <1>3, <1>15 DEF Linked
  <2>8. insert'.prev = prev /\ ~insert'.set
    BY <1>10
  <2> QED
    BY <1>9, <2>4, <2>6, <2>7, <2>8 DEF InsertPlace, KeyIsAfterNode
<1>20. AllLinked'
  <2> SUFFICES ASSUME NEW n \in 1..(N + 1), n # N + 1 PROVE n \in Linked
    BY <1>7, <1>9, <1>10, <1>11, <1>15 DEF AllLinked
  <2>1. n \in 1..N
    BY <1>3
  <2> QED
    BY <1>1, <2>1 DEF ListInv, AllLinked
<1>21. Sorted'
  <2>1. \A x \in Linked \union {head_} : /\ x \in 0..N /\ next_'[x][0] = next_[x][0]
                                         /\ next_[x][0] \in Linked \union {Nil}
    BY <1>8, LinkedNext
  <2>2. \A x \in Linked : keys'[x] = keys[x]
    BY <1>7 DEF Linked
  <2>3. ASSUME NEW x \in Linked \union {head_}
        PROVE  /\ next_'[x][0] # Nil => x = head_ \/ Less(keys'[x], keys'[next_'[x][0]])
               /\ \A y \in Linked : x = head_ \/ Less(keys'[x], keys'[y]) =>
                    next_'[x][0] # Nil /\ ~Less(keys'[y], keys'[next_'[x][0]])
    BY <2>1, <2>2 DEF ListInv, Sorted
  <2> QED
    BY <1>15, <2>3 DEF Sorted
<1> QED
  BY <1>7, <1>8, <1>11, <1>13, <1>15, <1>16, <1>17, <1>18, <1>19, <1>20, <1>21 DEF ListInv

-----------------------------------------------------------------------------
\* Steps that leave the list and the insertion alone.
LEMMA SameList ==
  ASSUME ListInv, UNCHANGED <<list, insert>>
  PROVE  ListInv' /\ Linked' = Linked
<1>1. UNCHANGED <<keys, next_, max_height_, heights, insert>>
  BY DEF list
<1>2. Linked' = Linked
  BY <1>1 DEF Linked
<1>3. ListTypes' /\ UnsetAbove' /\ InsertAt'
  BY <1>1 DEF ListInv, ListTypes, UnsetAbove, InsertAt, Link, Links, Level, Inserting, New
<1>4. LinksLead' /\ AllLinked' /\ Sorted'
  BY <1>1, <1>2 DEF ListInv, LinksLead, AllLinked, Sorted, Inserting, New
<1>5. InsertPlace'
  BY <1>1, <1>2 DEF ListInv, InsertPlace, Inserting, New, KeyIsAfterNode
<1> QED
  BY <1>2, <1>3, <1>4, <1>5 DEF ListInv

\* What the writer does disturbs no reader: nodes stay in the list with their
\* entries, and a link that is set stays set.
LEMMA GrowReaders ==
  ASSUME ListTypes, ReadersInv, UNCHANGED readers, Linked \subseteq Linked',
         \A n \in 1..Len(keys) : keys'[n] = keys[n],
         \A n \in 0..Len(keys) : \A l \in DOMAIN next_[n] :
           /\ l \in DOMAIN next_'[n]
           /\ next_[n][l] # Garbage => next_'[n][l] # Garbage,
         lastSequence \in Int, lastSequence' \in Int, lastSequence <= lastSequence'
  PROVE  ReadersInv'
<1>1. asOf' = asOf /\ node_' = node_ /\ search' = search /\ Len(keys) \in Nat
  BY DEF readers, ListTypes
<1>2. ASSUME NEW r \in Reader
      PROVE  /\ node_[r] # Nil => node_[r] \in Linked'
             /\ asOf[r] # Nil => asOf[r] <= lastSequence'
  BY DEF ReadersInv
<1>3. ASSUME NEW r \in Reader, search[r].op # "idle" PROVE SearchAt(search[r])'
  <2> DEFINE s == search[r]
  <2>1. SearchAt(s) /\ s' = s
    BY <1>1, <1>3 DEF ReadersInv
  <2> HIDE DEF s
  <2>2. s.x \in 0..Len(keys) /\ (s.x # head_ => keys'[s.x] = keys[s.x])
    BY <1>1, <2>1 DEF SearchAt, Linked, head_
  <2>3. s.level \in DOMAIN next_'[s.x] /\ next_'[s.x][s.level] # Garbage
    BY <2>1, <2>2 DEF SearchAt
  <2>4. s.x \in Linked' \union {head_} /\ s.before \subseteq Linked'
    BY <2>1 DEF SearchAt
  <2>5. /\ s.op \in {"seek", "less"} => s.x = head_ \/ Less(keys'[s.x], s.target)
        /\ s.op = "next" => s.target = IF s.x = head_ THEN Nil ELSE keys'[s.x]
    BY <2>1, <2>2 DEF SearchAt
  <2>6. SearchAt(s)'
    BY <2>1, <2>3, <2>4, <2>5 DEF SearchAt, head_
  <2> QED
    BY <2>6 DEF s
<1> QED
  BY <1>1, <1>2, <1>3 DEF ReadersInv

\* The new memtable.
LEMMA InitMemTable == Init => MemTableInv
<1> SUFFICES ASSUME Init PROVE MemTableInv
  OBVIOUS
<1>1. /\ keys = <<>> /\ next_ = [n \in {0} |-> [l \in Level |-> Nil]]
      /\ max_height_ = 1 /\ heights = {1} /\ insert = NoInsert /\ lastSequence = 0
      /\ refs_ = 1 /\ held = TRUE
      /\ asOf = [r \in Reader |-> Nil] /\ node_ = asOf /\ search = [r \in Reader |-> Idle]
  BY DEF Init, head_
<1>2. Len(keys) = 0 /\ 0..0 = {0} /\ kMaxHeight \in Nat \ {0} /\ 1..0 = {}
  BY <1>1, MemTableAssumption
<1>3. Linked = {} /\ ~Inserting
  BY <1>1, <1>2 DEF Linked, Inserting
<1>4. ListTypes
  <2>1. next_[0] = [l \in Level |-> Nil] /\ DOMAIN next_ = {0}
    BY <1>1
  <2>2. next_[0] \in [0..(kMaxHeight - 1) -> Link]
    BY <2>1 DEF Level, Link
  <2>3. next_[0] \in Links
    BY <1>2, <2>2 DEF Links
  <2>4. next_ \in [0..Len(keys) -> Links]
    BY <1>1, <1>2, <2>1, <2>3
  <2>5. keys \in Seq([key : Int, seq : Nat, type : {"put", "del"}]) /\ \A i \in 1..Len(keys) : keys[i].seq = i
    BY <1>1, <1>2
  <2>6. max_height_ \in heights /\ heights \subseteq 1..kMaxHeight
    BY <1>1, <1>2
  <2> QED
    BY <2>1, <2>4, <2>5, <2>6 DEF ListTypes, head_, Level
<1>5. \A n \in 0..Len(keys) : \A l \in DOMAIN next_[n] : next_[n][l] = Nil
  BY <1>1, <1>2
<1>6. UnsetAbove /\ LinksLead
  BY <1>2, <1>3, <1>5, NoNode DEF UnsetAbove, LinksLead
<1>7. InsertAt /\ InsertPlace /\ AllLinked
  BY <1>2, <1>3 DEF InsertAt, InsertPlace, AllLinked
<1>8. Sorted
  <2>1. next_[head_][0] = Nil
    <3>1. 0 \in DOMAIN next_[0] /\ 0 \in 0..Len(keys)
      BY <1>2, <1>4, NodeLinks
    <3> QED
      BY <1>5, <3>1 DEF head_
  <2> QED
    BY <1>3, <2>1 DEF Sorted
<1>9. ReadersInv
  BY <1>1 DEF ReadersInv, Idle, SearchFields
<1>10. SequenceInv
  BY <1>1, <1>2, <1>3 DEF SequenceInv
<1>11. RefsInv
  <2>1. {r \in Reader : asOf[r] # Nil} = {}
    BY <1>1
  <2>2. Cardinality({r \in Reader : asOf[r] # Nil}) = 0
    BY <2>1, FS_EmptySet
  <2> QED
    BY <1>1, <2>2 DEF RefsInv
<1> QED
  BY <1>4, <1>6, <1>7, <1>8, <1>9, <1>10, <1>11 DEF MemTableInv, ListInv

\* References taken and dropped.
LEMMA RefCounts ==
  ASSUME MemTableInv
  PROVE  /\ IsFiniteSet({q \in Reader : asOf[q] # Nil})
         /\ Cardinality({q \in Reader : asOf[q] # Nil}) \in Nat
         /\ \A r \in Reader : asOf[r] # Nil => Cardinality({q \in Reader : asOf[q] # Nil}) > 0
<1> DEFINE S == {q \in Reader : asOf[q] # Nil}
<1>1. IsFiniteSet(S)
  BY MemTableAssumption, FS_Subset
<1>2. Cardinality(S) \in Nat
  BY <1>1, FS_CardinalityType
<1>3. \A r \in Reader : asOf[r] # Nil => Cardinality(S) # 0
  BY <1>1, FS_EmptySet
<1> QED
  BY <1>1, <1>2, <1>3

\* A reader that takes a reference is counted.
LEMMA RefStep ==
  ASSUME MemTableInv, NEW r \in Reader, Ref(r)
  PROVE  RefsInv'
<1> DEFINE S == {q \in Reader : asOf[q] # Nil}
<1>1. /\ asOf[r] = Nil /\ refs_' = refs_ + 1 /\ held' = held
      /\ asOf' = [asOf EXCEPT ![r] = lastSequence] /\ asOf \in [Reader -> Nat \union {Nil}]
      /\ lastSequence \in Int
  BY DEF Ref, MemTableInv, ReadersInv, SequenceInv
<1>2. {q \in Reader : asOf'[q] # Nil} = S \union {r} /\ r \notin S
  BY <1>1, NoNode
<1>3. IsFiniteSet(S) /\ Cardinality(S) \in Nat
  BY RefCounts
<1>4. Cardinality(S \union {r}) = Cardinality(S) + 1
  BY <1>2, <1>3, FS_AddElement
<1>5. held \in BOOLEAN /\ refs_ = Cardinality(S) + (IF held THEN 1 ELSE 0)
  BY DEF MemTableInv, RefsInv
<1> HIDE DEF S
<1>6. refs_' = Cardinality(S \union {r}) + (IF held THEN 1 ELSE 0)
  BY <1>1, <1>3, <1>4, <1>5
<1> QED
  BY <1>1, <1>2, <1>5, <1>6 DEF RefsInv

\* A reader that drops its reference is no longer counted.
LEMMA UnrefStep ==
  ASSUME MemTableInv, NEW r \in Reader, Unref(r)
  PROVE  RefsInv'
<1> DEFINE S == {q \in Reader : asOf[q] # Nil}
<1>1. /\ asOf[r] # Nil /\ refs_' = refs_ - 1 /\ held' = held
      /\ asOf' = [asOf EXCEPT ![r] = Nil] /\ asOf \in [Reader -> Nat \union {Nil}]
  BY DEF Unref, Ready, MemTableInv, ReadersInv
<1>2. {q \in Reader : asOf'[q] # Nil} = S \ {r} /\ r \in S
  BY <1>1
<1>3. IsFiniteSet(S) /\ Cardinality(S) \in Nat
  BY RefCounts
<1>4. Cardinality(S \ {r}) = Cardinality(S) - 1
  BY <1>2, <1>3, FS_RemoveElement
<1>5. held \in BOOLEAN /\ refs_ = Cardinality(S) + (IF held THEN 1 ELSE 0)
  BY DEF MemTableInv, RefsInv
<1> HIDE DEF S
<1>6. refs_' = Cardinality(S \ {r}) + (IF held THEN 1 ELSE 0)
  BY <1>1, <1>3, <1>4, <1>5
<1> QED
  BY <1>1, <1>2, <1>5, <1>6 DEF RefsInv

\* What ReadersInv says of one reader.
ReaderOK(a, n, s) ==
  /\ DOMAIN s = SearchFields
  /\ n # Nil => n \in Linked
  /\ s.op # "idle" => a # Nil /\ SearchAt(s)
  /\ a # Nil => a <= lastSequence
  /\ s.op = "seek" => /\ s.target.seq = a /\ s.target.type = "put"
                      /\ 1..a \subseteq s.before

\* The invariant of the readers, reader by reader.
LEMMA ReadersOne ==
  ReadersInv <=> /\ asOf \in [Reader -> Nat \union {Nil}] /\ DOMAIN search = Reader /\ DOMAIN node_ = Reader
                 /\ \A r \in Reader : ReaderOK(asOf[r], node_[r], search[r])
BY DEF ReadersInv, ReaderOK

\* A step of one reader concerns that reader only.
LEMMA OneReader ==
  ASSUME MemTableInv, NEW r \in Reader, UNCHANGED <<list, insert, lastSequence>>,
         asOf' \in [Reader -> Nat \union {Nil}], DOMAIN search' = Reader, DOMAIN node_' = Reader,
         \A q \in Reader \ {r} : asOf'[q] = asOf[q] /\ node_'[q] = node_[q] /\ search'[q] = search[q],
         ReaderOK(asOf'[r], node_'[r], search'[r])
  PROVE  ReadersInv'
<1>1. ListInv /\ Linked' = Linked
  BY SameList DEF MemTableInv
<1>2. /\ keys' = keys /\ next_' = next_ /\ lastSequence' = lastSequence /\ head_' = head_
  BY DEF list, head_
<1>3. \A q \in Reader : ReaderOK(asOf'[q], node_'[q], search'[q])
  <2> SUFFICES ASSUME NEW q \in Reader, q # r PROVE ReaderOK(asOf'[q], node_'[q], search'[q])
    OBVIOUS
  <2>1. ReaderOK(asOf[q], node_[q], search[q])
    BY ReadersOne DEF MemTableInv
  <2> QED
    BY <2>1
<1>4. \A q \in Reader : ReaderOK(asOf[q], node_[q], search[q])'
  BY <1>1, <1>2, <1>3 DEF ReaderOK, SearchAt
<1> QED
  BY <1>4 DEF ReadersInv, ReaderOK

\* The start of a search at head_, at any height that the list has had.
LEMMA BeginOK ==
  ASSUME MemTableInv, NEW r \in Reader, NEW op \in {"seek", "less", "last"}, NEW target,
         Ready(r), Begin(r, op, target), UNCHANGED <<list, insert, lastSequence, asOf, node_>>,
         op # "last" => target \in InternalKey,
         op = "seek" => target.seq = asOf[r] /\ target.type = "put"
  PROVE  ReadersInv'
<1>1. PICK h \in heights :
        search' = [search EXCEPT ![r] = [op |-> op, target |-> target, x |-> head_,
                                         level |-> h - 1, before |-> Linked]]
  BY DEF Begin
<1> DEFINE s == [op |-> op, target |-> target, x |-> head_, level |-> h - 1, before |-> Linked]
<1>2. /\ asOf \in [Reader -> Nat \union {Nil}] /\ DOMAIN search = Reader /\ DOMAIN node_ = Reader
      /\ ReaderOK(asOf[r], node_[r], search[r]) /\ ListInv /\ ListTypes
  BY ReadersOne DEF MemTableInv, ListInv
<1>3. h - 1 \in DOMAIN next_[head_] /\ next_[head_][h - 1] # Garbage
  <2>1. h \in 1..kMaxHeight /\ h - 1 \in Level /\ kMaxHeight \in Nat
    BY <1>2, MemTableAssumption DEF ListTypes, Level
  <2>2. h - 1 \in DOMAIN next_[head_]
    BY <1>2, <2>1 DEF ListTypes
  <2>3. Inserting => head_ # New
    BY <1>2 DEF ListInv, InsertAt, head_
  <2>4. head_ \in 0..Len(keys)
    BY <1>2 DEF ListTypes, head_
  <2> QED
    BY <1>2, <2>2, <2>3, <2>4 DEF ListInv, UnsetAbove
<1>4. asOf[r] # Nil /\ asOf[r] \in Nat /\ 1..asOf[r] \subseteq Linked
  <2>1. asOf[r] # Nil /\ asOf[r] \in Nat /\ asOf[r] <= lastSequence
    BY <1>2 DEF Ready, ReaderOK
  <2>2. lastSequence \in 0..Len(keys) /\ (Inserting => lastSequence < Len(keys)) /\ Len(keys) \in Nat
    BY <1>2 DEF MemTableInv, SequenceInv, ListTypes
  <2>3. ASSUME NEW n \in 1..asOf[r] PROVE n \in Linked
    <3>1. n \in 1..Len(keys) /\ (Inserting => n # New)
      BY <2>1, <2>2 DEF New
    <3> QED
      BY <1>2, <3>1 DEF ListInv, AllLinked
  <2> QED
    BY <2>1, <2>3
<1>5. SearchAt(s)
  BY <1>3 DEF SearchAt, InternalKey
<1>6. ReaderOK(asOf[r], node_[r], s)
  BY <1>2, <1>4, <1>5 DEF ReaderOK, SearchFields
<1>7. search'[r] = s /\ DOMAIN search' = Reader /\ \A q \in Reader \ {r} : search'[q] = search[q]
  BY <1>1, <1>2
<1> HIDE DEF s
<1>8. ReaderOK(asOf'[r], node_'[r], search'[r])
  BY <1>6, <1>7
<1> QED
  BY <1>2, <1>7, <1>8, OneReader

\* Following the one link of a node in the list.
LEMMA NextFromOK ==
  ASSUME MemTableInv, NEW r \in Reader, NEW x, NextFrom(r, x)
  PROVE  ReadersInv'
<1> DEFINE s == [op |-> "next", target |-> IF x = head_ THEN Nil ELSE keys[x],
                 x |-> x, level |-> 0, before |-> Linked]
<1>1. /\ asOf \in [Reader -> Nat \union {Nil}] /\ DOMAIN search = Reader /\ DOMAIN node_ = Reader
      /\ ReaderOK(asOf[r], node_[r], search[r]) /\ ListInv
  BY ReadersOne DEF MemTableInv, ListInv
<1>2. /\ asOf[r] # Nil /\ x \in {head_, node_[r]} \ {Nil}
      /\ search' = [search EXCEPT ![r] = s]
      /\ UNCHANGED <<list, insert, lastSequence, asOf, node_>>
  BY DEF NextFrom, Ready
<1>3. x \in Linked \union {head_}
  BY <1>1, <1>2 DEF ReaderOK
<1>4. 0 \in DOMAIN next_[x] /\ next_[x][0] # Garbage
  <2>1. 0 \in DOMAIN next_[x] /\ next_[x][0] \in Linked \union {Nil}
    BY <1>1, <1>3, LinkedNext
  <2> QED
    BY <2>1, NoNode DEF Linked
<1>5. SearchAt(s)
  BY <1>3, <1>4 DEF SearchAt
<1>6. ReaderOK(asOf[r], node_[r], s)
  BY <1>1, <1>2, <1>5 DEF ReaderOK, SearchFields
<1> HIDE DEF s
<1>7. search'[r] = s /\ DOMAIN search' = Reader /\ \A q \in Reader \ {r} : search'[q] = search[q]
  BY <1>1, <1>2
<1>8. ReaderOK(asOf'[r], node_'[r], search'[r])
  BY <1>2, <1>6, <1>7
<1> QED
  BY <1>1, <1>2, <1>7, <1>8, OneReader

\* What one turn of a search may do: on along the link, down one level, or done.
StepOn(s, next) ==
  CASE s.op = "next" -> FALSE
    [] s.op = "last" -> next # Nil
    [] OTHER -> KeyIsAfterNode(s.target, next)

\* One load of a link takes a search one node further, or ends it.
LEMMA StepOK ==
  ASSUME MemTableInv, NEW r \in Reader, Step(r)
  PROVE  ReadersInv'
<1> DEFINE s == search[r]
           next == next_[s.x][s.level]
           found == IF s.op \in {"seek", "next"} THEN next ELSE IF s.x = head_ THEN Nil ELSE s.x
<1>1. /\ asOf \in [Reader -> Nat \union {Nil}] /\ DOMAIN search = Reader /\ DOMAIN node_ = Reader
      /\ ReaderOK(asOf[r], node_[r], s) /\ ListInv /\ ListTypes
  BY ReadersOne DEF MemTableInv, ListInv
<1>2. /\ s.op # "idle" /\ UNCHANGED <<list, insert, lastSequence, asOf>>
      /\ \/ /\ StepOn(s, next)
            /\ search' = [search EXCEPT ![r].x = next] /\ node_' = node_
         \/ /\ ~StepOn(s, next) /\ s.level > 0
            /\ search' = [search EXCEPT ![r].level = s.level - 1] /\ node_' = node_
         \/ /\ ~StepOn(s, next) /\ ~(s.level > 0)
            /\ node_' = [node_ EXCEPT ![r] = found] /\ search' = [search EXCEPT ![r] = Idle]
  BY DEF Step, StepOn
<1>3. asOf[r] # Nil /\ SearchAt(s) /\ DOMAIN s = SearchFields
  BY <1>1, <1>2 DEF ReaderOK
<1>4. s.x \in 0..Len(keys) /\ s.level \in DOMAIN next_[s.x] /\ next # Garbage
  BY <1>1, <1>3 DEF SearchAt, Linked, head_, ListTypes
<1>5. next \in 1..Len(keys) \union {Nil}
  BY <1>1, <1>4, NodeLinks DEF Link
<1>6. next # Nil => next \in Linked /\ s.level \in DOMAIN next_[next] /\ next_[next][s.level] # Garbage
  BY <1>1, <1>4, <1>5 DEF ListInv, LinksLead
<1> HIDE DEF next
<1>7. ASSUME NEW t, NEW n, search' = [search EXCEPT ![r] = t], DOMAIN node_' = Reader,
             \A q \in Reader : node_'[q] = IF q = r THEN n ELSE node_[q],
             ReaderOK(asOf[r], n, t)
      PROVE  ReadersInv'
  <2>1. /\ search'[r] = t /\ DOMAIN search' = Reader /\ \A q \in Reader \ {r} : search'[q] = search[q]
        /\ node_'[r] = n /\ DOMAIN node_' = Reader /\ \A q \in Reader \ {r} : node_'[q] = node_[q]
    BY <1>1, <1>7
  <2>2. ReaderOK(asOf'[r], node_'[r], search'[r])
    BY <1>2, <1>7, <2>1
  <2> QED
    BY <1>1, <1>2, <2>1, <2>2, OneReader
<1>8. /\ node_' = node_ => /\ DOMAIN node_' = Reader
                           /\ \A q \in Reader : node_'[q] = IF q = r THEN node_[r] ELSE node_[q]
      /\ node_' = [node_ EXCEPT ![r] = found] =>
           /\ DOMAIN node_' = Reader
           /\ \A q \in Reader : node_'[q] = IF q = r THEN found ELSE node_[q]
  BY <1>1
<1>9. CASE /\ StepOn(s, next)
           /\ search' = [search EXCEPT ![r].x = next] /\ node_' = node_
  <2> DEFINE t == [s EXCEPT !.x = next]
  <2>1. search' = [search EXCEPT ![r] = t]
    BY <1>9
  <2>2. /\ DOMAIN t = SearchFields /\ t.x = next /\ t.op = s.op /\ t.target = s.target
        /\ t.level = s.level /\ t.before = s.before
    BY <1>3 DEF SearchFields
  <2>3. s.op # "next" /\ next # Nil /\ (s.op # "last" => Less(keys[next], s.target))
    BY <1>9 DEF StepOn, KeyIsAfterNode
  <2>4. SearchAt(t)
    BY <1>3, <1>6, <2>2, <2>3 DEF SearchAt
  <2>5. ReaderOK(asOf[r], node_[r], t)
    BY <1>1, <1>3, <2>2, <2>4 DEF ReaderOK
  <2> HIDE DEF t
  <2> QED
    BY <1>7, <1>8, <1>9, <2>1, <2>5
<1>10. CASE /\ ~StepOn(s, next) /\ s.level > 0
            /\ search' = [search EXCEPT ![r].level = s.level - 1] /\ node_' = node_
  <2> DEFINE t == [s EXCEPT !.level = s.level - 1]
  <2>1. search' = [search EXCEPT ![r] = t]
    BY <1>10
  <2>2. /\ DOMAIN t = SearchFields /\ t.x = s.x /\ t.op = s.op /\ t.target = s.target
        /\ t.level = s.level - 1 /\ t.before = s.before
    BY <1>3 DEF SearchFields
  <2>3. s.op # "next" /\ s.level \in Nat /\ s.level - 1 \in DOMAIN next_[s.x]
    BY <1>1, <1>3, <1>4, <1>10, NodeLinks DEF SearchAt
  <2>4. next_[s.x][s.level - 1] # Garbage
    <3>1. SUFFICES ASSUME Inserting, s.x = New PROVE next_[s.x][s.level - 1] # Garbage
      BY <1>1, <1>4, <2>3 DEF ListInv, UnsetAbove
    <3>2. insert.level \in Nat
      BY <1>1, <1>4, <3>1, NodeLinks DEF ListInv, InsertAt
    <3>3. ~ (s.level > insert.level \/ (s.level = insert.level /\ ~insert.set))
      BY <1>1, <1>4, <3>1 DEF ListInv, UnsetAbove, next
    <3>4. ~ (s.level - 1 > insert.level \/ (s.level - 1 = insert.level /\ ~insert.set))
      BY <2>3, <3>2, <3>3
    <3> QED
      BY <1>1, <1>4, <2>3, <3>1, <3>4 DEF ListInv, UnsetAbove
  <2>5. SearchAt(t)
    BY <1>3, <2>2, <2>3, <2>4 DEF SearchAt
  <2>6. ReaderOK(asOf[r], node_[r], t)
    BY <1>1, <1>3, <2>2, <2>5 DEF ReaderOK
  <2> HIDE DEF t
  <2> QED
    BY <1>7, <1>8, <1>10, <2>1, <2>6
<1>11. CASE /\ ~StepOn(s, next) /\ ~(s.level > 0)
            /\ node_' = [node_ EXCEPT ![r] = found] /\ search' = [search EXCEPT ![r] = Idle]
  <2>1. found # Nil => found \in Linked
    BY <1>3, <1>6 DEF SearchAt
  <2>2. ReaderOK(asOf[r], found, Idle)
    BY <1>1, <2>1 DEF ReaderOK, Idle, SearchFields
  <2> HIDE DEF found
  <2> QED
    BY <1>7, <1>8, <1>11, <2>2
<1> QED
  BY <1>2, <1>9, <1>10, <1>11

\* Every step keeps the invariant.
LEMMA NextMemTable == MemTableInv /\ [Next]_vars => MemTableInv'
<1> SUFFICES ASSUME MemTableInv, [Next]_vars PROVE MemTableInv'
  OBVIOUS
<1>1. ListInv /\ ListTypes /\ ReadersInv /\ SequenceInv /\ RefsInv /\ Len(keys) \in Nat
  BY DEF MemTableInv, ListInv, ListTypes
<1>2. lastSequence \in 0..Len(keys) /\ lastSequence \in Int /\ (Inserting => lastSequence < Len(keys))
  BY <1>1 DEF SequenceInv
<1>3. ASSUME UNCHANGED <<list, insert, lastSequence>> PROVE ListInv' /\ SequenceInv'
  <2>1. ListInv'
    BY <1>1, <1>3, SameList
  <2>2. SequenceInv'
    BY <1>1, <1>3 DEF SequenceInv, list, Inserting
  <2> QED
    BY <2>1, <2>2
<1>4. ASSUME UNCHANGED <<owners, asOf>> PROVE RefsInv'
  BY <1>1, <1>4 DEF RefsInv, owners
<1>5. ASSUME UNCHANGED <<list, insert, lastSequence, readers>> PROVE ReadersInv'
  <2>1. Linked' = Linked /\ keys' = keys /\ next_' = next_
    BY <1>1, <1>5, SameList DEF list
  <2> QED
    BY <1>1, <1>2, <1>5, <2>1, GrowReaders
<1>6. ASSUME NEW n \in 1..2, InsertInto(n) PROVE MemTableInv'
  BY <1>3, <1>4, <1>5, <1>6 DEF InsertInto, MemTableInv, readers
<1>7. ASSUME NEW k \in UserKey, NEW type \in {"put", "del"}, NEW h \in 1..kMaxHeight, Add(k, type, h)
      PROVE  MemTableInv'
  <2>1. /\ ListInv' /\ Linked' = Linked /\ Inserting' /\ Len(keys') = Len(keys) + 1
        /\ \A n \in 1..Len(keys) : keys'[n] = keys[n]
        /\ \A n \in 0..Len(keys) : next_'[n] = next_[n]
    BY <1>1, <1>7, AddList
  <2>2. UNCHANGED <<lastSequence, owners, readers>>
    BY <1>7 DEF Add
  <2>3. ReadersInv'
    BY <1>1, <1>2, <2>1, <2>2, GrowReaders
  <2>4. SequenceInv'
    BY <1>1, <1>2, <2>1, <2>2 DEF SequenceInv
  <2> QED
    BY <1>4, <2>1, <2>2, <2>3, <2>4 DEF MemTableInv, readers
<1>8. CASE SetNext
  <2>1. /\ ListInv' /\ Linked' = Linked
        /\ \A n \in 0..Len(keys) : \A l \in DOMAIN next_[n] :
              /\ l \in DOMAIN next_'[n]
              /\ next_[n][l] # Garbage => next_'[n][l] # Garbage
    BY <1>1, <1>8, SetNextList
  <2>2. UNCHANGED <<keys, lastSequence, owners, readers>> /\ Inserting
    BY <1>8 DEF SetNext, Inserting
  <2>3. ReadersInv'
    BY <1>1, <1>2, <2>1, <2>2, GrowReaders
  <2>4. SequenceInv'
    BY <1>1, <1>2, <2>2 DEF SequenceInv
  <2> QED
    BY <1>4, <2>1, <2>2, <2>3, <2>4 DEF MemTableInv, readers
<1>9. CASE Publish
  <2>1. /\ ListInv' /\ Linked' = Linked \union {New}
        /\ \A n \in 0..Len(keys) : \A l \in DOMAIN next_[n] :
              /\ l \in DOMAIN next_'[n]
              /\ next_[n][l] # Garbage => next_'[n][l] # Garbage
    BY <1>1, <1>9, PublishList
  <2>2. UNCHANGED <<keys, owners, readers>> /\ Inserting
    BY <1>9 DEF Publish, Inserting
  <2>3. lastSequence' = lastSequence \/ (lastSequence' = New /\ insert' = NoInsert)
    BY <1>9 DEF Publish
  <2>4. /\ lastSequence' \in 0..Len(keys) /\ lastSequence <= lastSequence'
        /\ Inserting' => lastSequence' < Len(keys)
    BY <1>1, <1>2, <2>2, <2>3 DEF New, Inserting
  <2>5. ReadersInv'
    BY <1>1, <1>2, <2>1, <2>2, <2>4, GrowReaders
  <2>6. SequenceInv'
    BY <2>2, <2>4 DEF SequenceInv
  <2> QED
    BY <1>4, <2>1, <2>2, <2>5, <2>6 DEF MemTableInv, readers
<1>10. ASSUME NEW r \in Reader, Ref(r) PROVE MemTableInv'
  <2>1. /\ asOf \in [Reader -> Nat \union {Nil}] /\ DOMAIN search = Reader /\ DOMAIN node_ = Reader
        /\ ReaderOK(asOf[r], node_[r], search[r])
    BY <1>1, ReadersOne
  <2>2. /\ UNCHANGED <<list, insert, lastSequence, node_, search>> /\ asOf[r] = Nil
        /\ asOf' = [asOf EXCEPT ![r] = lastSequence]
    BY <1>10 DEF Ref
  <2>3. search[r].op = "idle"
    BY <2>1, <2>2 DEF ReaderOK
  <2>4. ReaderOK(lastSequence, node_[r], search[r])
    BY <1>2, <2>1, <2>3 DEF ReaderOK
  <2>5. /\ asOf'[r] = lastSequence /\ asOf' \in [Reader -> Nat \union {Nil}]
        /\ \A q \in Reader \ {r} : asOf'[q] = asOf[q]
    BY <1>2, <2>1, <2>2
  <2>6. ReaderOK(asOf'[r], node_'[r], search'[r])
    BY <2>2, <2>4, <2>5
  <2>7. ReadersInv'
    BY <2>1, <2>2, <2>5, <2>6, OneReader
  <2>8. RefsInv'
    BY <1>10, RefStep
  <2> QED
    BY <1>3, <2>2, <2>7, <2>8 DEF MemTableInv
<1>11. ASSUME NEW r \in Reader, NEW k \in UserKey, Seek(r, k) PROVE MemTableInv'
  <2>1. /\ UNCHANGED <<list, insert, lastSequence, owners, asOf, node_>> /\ Ready(r)
        /\ Begin(r, "seek", [key |-> k, seq |-> asOf[r], type |-> "put"])
    BY <1>11 DEF Seek
  <2>2. [key |-> k, seq |-> asOf[r], type |-> "put"] \in InternalKey
    BY <1>1, <2>1, MemTableAssumption DEF InternalKey, Ready, ReadersInv
  <2>3. ReadersInv'
    BY <2>1, <2>2, BeginOK
  <2> QED
    BY <1>3, <1>4, <2>1, <2>3 DEF MemTableInv
<1>12. ASSUME NEW r \in Reader, SeekToLast(r) PROVE MemTableInv'
  <2>1. /\ UNCHANGED <<list, insert, lastSequence, owners, asOf, node_>> /\ Ready(r)
        /\ Begin(r, "last", Nil)
    BY <1>12 DEF SeekToLast
  <2>2. ReadersInv'
    BY <2>1, BeginOK
  <2> QED
    BY <1>3, <1>4, <2>1, <2>2 DEF MemTableInv
<1>13. ASSUME NEW r \in Reader, PrevOf(r) PROVE MemTableInv'
  <2>1. /\ UNCHANGED <<list, insert, lastSequence, owners, asOf, node_>> /\ Ready(r)
        /\ node_[r] # Nil /\ Begin(r, "less", keys[node_[r]])
    BY <1>13 DEF PrevOf
  <2>2. keys[node_[r]] \in InternalKey
    <3>1. node_[r] \in 1..Len(keys) /\ keys \in Seq(InternalKey)
      BY <1>1, <2>1 DEF ReadersInv, Linked, ListTypes, InternalKey
    <3> QED
      BY <3>1
  <2>3. ReadersInv'
    BY <2>1, <2>2, BeginOK
  <2> QED
    BY <1>3, <1>4, <2>1, <2>3 DEF MemTableInv
<1>14. ASSUME NEW r \in Reader, NEW x \in DOMAIN next_, NextFrom(r, x) PROVE MemTableInv'
  <2>1. UNCHANGED <<list, insert, lastSequence, owners, asOf, node_>>
    BY <1>14 DEF NextFrom
  <2>2. ReadersInv'
    BY <1>14, NextFromOK
  <2> QED
    BY <1>3, <1>4, <2>1, <2>2 DEF MemTableInv
<1>15. ASSUME NEW r \in Reader, Step(r) PROVE MemTableInv'
  <2>1. UNCHANGED <<list, insert, lastSequence, owners, asOf>>
    BY <1>15 DEF Step
  <2>2. ReadersInv'
    BY <1>15, StepOK
  <2> QED
    BY <1>3, <1>4, <2>1, <2>2 DEF MemTableInv
<1>16. ASSUME NEW r \in Reader, Unref(r) PROVE MemTableInv'
  <2>1. /\ asOf \in [Reader -> Nat \union {Nil}] /\ DOMAIN search = Reader /\ DOMAIN node_ = Reader
        /\ ReaderOK(asOf[r], node_[r], search[r])
    BY <1>1, ReadersOne
  <2>2. /\ UNCHANGED <<list, insert, lastSequence, search>> /\ search[r].op = "idle"
        /\ asOf' = [asOf EXCEPT ![r] = Nil] /\ node_' = [node_ EXCEPT ![r] = Nil]
    BY <1>16 DEF Unref, Ready
  <2>3. ReaderOK(Nil, Nil, search[r])
    BY <2>1, <2>2 DEF ReaderOK
  <2>4. /\ asOf'[r] = Nil /\ asOf' \in [Reader -> Nat \union {Nil}]
        /\ \A q \in Reader \ {r} : asOf'[q] = asOf[q]
    BY <2>1, <2>2
  <2>5. node_'[r] = Nil /\ DOMAIN node_' = Reader /\ \A q \in Reader \ {r} : node_'[q] = node_[q]
    BY <2>1, <2>2
  <2>6. ReaderOK(asOf'[r], node_'[r], search'[r])
    BY <2>2, <2>3, <2>4, <2>5
  <2>7. ReadersInv'
    BY <2>1, <2>2, <2>4, <2>5, <2>6, OneReader
  <2>8. RefsInv'
    BY <1>16, UnrefStep
  <2> QED
    BY <1>3, <2>2, <2>7, <2>8 DEF MemTableInv
<1>17. CASE Drop
  <2>1. /\ held /\ ~held' /\ held' \in BOOLEAN /\ refs_' = refs_ - 1
        /\ UNCHANGED <<list, insert, lastSequence, readers>> /\ asOf' = asOf
    BY <1>17 DEF Drop, readers
  <2>2. RefsInv'
    <3>1. refs_ = Cardinality({q \in Reader : asOf[q] # Nil}) + 1
      BY <1>1, <2>1 DEF RefsInv
    <3>2. Cardinality({q \in Reader : asOf[q] # Nil}) \in Nat
      BY RefCounts
    <3>3. refs_' = Cardinality({q \in Reader : asOf[q] # Nil})
      BY <2>1, <3>1, <3>2
    <3> QED
      BY <2>1, <3>2, <3>3 DEF RefsInv
  <2> QED
    BY <1>3, <1>5, <2>1, <2>2 DEF MemTableInv
<1>18. CASE UNCHANGED vars
  BY <1>3, <1>4, <1>5, <1>18 DEF vars, MemTableInv, readers
<1> QED
  BY <1>6, <1>7, <1>8, <1>9, <1>10, <1>11, <1>12, <1>13, <1>14, <1>15, <1>16, <1>17, <1>18 DEF Next

\* The list is sorted and complete at level 0, links that are not set are those
\* of the node being inserted, and every search stands before its target.
THEOREM MemTableInvariance == Spec => []MemTableInv
  BY InitMemTable, NextMemTable, PTL DEF Spec

\* A reader that holds no lock only loads links that its node has and that were
\* set, in a memtable that is not deleted, whatever the writer is in the middle
\* of: SkipList::Insert publishes a node only after its own link is set.
THEOREM ReadersLoadSetLinks == Spec => []LoadsValid
<1>1. MemTableInv => LoadsValid
  <2> SUFFICES ASSUME MemTableInv, NEW r \in Reader, asOf[r] # Nil
               PROVE  /\ refs_ > 0
                      /\ search[r].op # "idle" =>
                           /\ search[r].level \in DOMAIN next_[search[r].x]
                           /\ next_[search[r].x][search[r].level] # Garbage
    BY DEF LoadsValid
  <2>1. refs_ > 0
    <3>1. Cardinality({q \in Reader : asOf[q] # Nil}) \in Nat /\ Cardinality({q \in Reader : asOf[q] # Nil}) > 0
      BY RefCounts
    <3>2. refs_ = Cardinality({q \in Reader : asOf[q] # Nil}) + (IF held THEN 1 ELSE 0)
      BY DEF MemTableInv, RefsInv
    <3> QED
      BY <3>1, <3>2
  <2>2. search[r].op # "idle" => SearchAt(search[r])
    BY DEF MemTableInv, ReadersInv
  <2> QED
    BY <2>1, <2>2 DEF SearchAt
<1> QED
  BY <1>1, MemTableInvariance, PTL
-----------------------------------------------------------------------------
\* Only a step of its own search ends it.
LEMMA OnlyStepEnds ==
  ASSUME MemTableInv, [Next]_vars, NEW r \in Reader,
         search[r].op # "idle", search'[r].op = "idle"
  PROVE  Step(r)
<1>1. DOMAIN search = Reader
  BY DEF MemTableInv, ReadersInv
<1>2. \A q \in Reader : \A op, target : Ready(q) /\ Begin(q, op, target) => search'[r] = search[r]
  BY <1>1 DEF Begin, Ready
<1>3. \A q \in Reader : \A x : ~NextFrom(q, x) \/ search'[r] = search[r]
  BY <1>1 DEF NextFrom, Ready
<1>4. \A q \in Reader : Step(q) /\ q # r => search'[r] = search[r]
  BY <1>1 DEF Step
<1>5. \A q \in Reader : /\ \A k \in UserKey : ~Seek(q, k) \/ search'[r] = search[r]
                        /\ ~SeekToLast(q) \/ search'[r] = search[r]
                        /\ ~PrevOf(q) \/ search'[r] = search[r]
  BY <1>2 DEF Seek, SeekToLast, PrevOf
<1>6. \A q \in Reader : (Ref(q) \/ Unref(q)) => search' = search
  BY DEF Ref, Unref
<1>7. (SetNext \/ Publish \/ Drop) => search' = search
  BY DEF SetNext, Publish, Drop, readers
<1>8. /\ \A n \in 1..2 : ~InsertInto(n) \/ search' = search
      /\ \A k \in UserKey, type \in {"put", "del"}, h \in 1..kMaxHeight :
           ~Add(k, type, h) \/ search' = search
  BY DEF InsertInto, Add, readers
<1>9. UNCHANGED vars => search' = search
  BY DEF vars, readers
<1> QED
  BY <1>3, <1>4, <1>5, <1>6, <1>7, <1>8, <1>9 DEF Next

\* How a search ends: at level 0, with what follows its node there.
LEMMA SearchEnd ==
  ASSUME MemTableInv, NEW r \in Reader, Step(r),
         search[r].op # "idle", search'[r].op = "idle"
  PROVE  LET s == search[r]
             next == next_[s.x][0]
         IN /\ SearchAt(s) /\ ~StepOn(s, next)
            /\ node_'[r] = IF s.op \in {"seek", "next"} THEN next
                           ELSE IF s.x = head_ THEN Nil ELSE s.x
<1> DEFINE s == search[r]
           next == next_[s.x][s.level]
           found == IF s.op \in {"seek", "next"} THEN next ELSE IF s.x = head_ THEN Nil ELSE s.x
<1>1. /\ DOMAIN search = Reader /\ DOMAIN node_ = Reader /\ ListTypes
      /\ SearchAt(s) /\ DOMAIN s = SearchFields
  BY DEF MemTableInv, ReadersInv, ListInv
<1>2. \/ StepOn(s, next) /\ search' = [search EXCEPT ![r].x = next]
      \/ search' = [search EXCEPT ![r].level = s.level - 1]
      \/ /\ ~StepOn(s, next) /\ ~(s.level > 0) /\ node_' = [node_ EXCEPT ![r] = found]
  BY DEF Step, StepOn
<1>3. search' # [search EXCEPT ![r].x = next]
  <2>1. [search EXCEPT ![r].x = next][r].op = s.op
    BY <1>1 DEF SearchFields
  <2> QED
    BY <2>1
<1>4. search' # [search EXCEPT ![r].level = s.level - 1]
  <2>1. [search EXCEPT ![r].level = s.level - 1][r].op = s.op
    BY <1>1 DEF SearchFields
  <2> QED
    BY <2>1
<1>5. s.level = 0
  <2>1. s.x \in 0..Len(keys)
    BY <1>1 DEF SearchAt, Linked, head_, ListTypes
  <2>2. s.level \in Nat
    BY <1>1, <2>1, NodeLinks DEF SearchAt
  <2> QED
    BY <1>2, <1>3, <1>4, <2>2
<1> QED
  BY <1>1, <1>2, <1>3, <1>4, <1>5

\* The order of the list around the end of a search.
LEMMA AroundEnd ==
  ASSUME MemTableInv, NEW x \in Linked \union {head_}
  PROVE  /\ next_[x][0] \in Linked \union {Nil}
         /\ next_[x][0] # Nil => x = head_ \/ Less(keys[x], keys[next_[x][0]])
         /\ \A y \in Linked : x = head_ \/ Less(keys[x], keys[y]) =>
              next_[x][0] # Nil /\ ~Less(keys[y], keys[next_[x][0]])
         /\ \A y \in Linked : keys[y] \in InternalKey /\ keys[y].seq = y
<1>1. ListInv /\ ListTypes
  BY DEF MemTableInv, ListInv
<1>2. \A y \in Linked : keys[y] \in InternalKey /\ keys[y].seq = y
  <2>1. keys \in Seq(InternalKey) /\ \A i \in 1..Len(keys) : keys[i].seq = i
    BY <1>1 DEF ListTypes, InternalKey
  <2> QED
    BY <2>1 DEF Linked
<1>3. next_[x][0] \in Linked \union {Nil}
  BY <1>1, LinkedNext
<1> QED
  BY <1>1, <1>2, <1>3 DEF ListInv, Sorted

\* FindGreaterOrEqual stops at the first entry that is not before its target.
LEMMA SeekRight ==
  ASSUME MemTableInv, NEW s, SearchAt(s), s.op = "seek", NEW n, n = next_[s.x][0], ~StepOn(s, n)
  PROVE  /\ n \in Linked \union {Nil} /\ s.before \subseteq Linked
         /\ n # Nil => ~Less(keys[n], s.target)
         /\ \A m \in s.before : ~Less(keys[m], s.target) => n # Nil /\ ~Less(keys[m], keys[n])
<1>1. /\ s.x \in Linked \union {head_} /\ s.before \subseteq Linked
      /\ s.target \in InternalKey /\ (s.x = head_ \/ Less(keys[s.x], s.target))
  BY DEF SearchAt, InternalKey
<1>2. n # Nil => ~Less(keys[n], s.target)
  BY DEF StepOn, KeyIsAfterNode
<1>3. ASSUME NEW m \in s.before, ~Less(keys[m], s.target), s.x # head_
      PROVE  Less(keys[s.x], keys[m])
  <2>1. /\ keys[m] \in InternalKey /\ keys[s.x] \in InternalKey
        /\ keys[m].seq = m /\ keys[s.x].seq = s.x
    BY <1>1, <1>3, AroundEnd
  <2>2. m # s.x
    BY <1>1, <1>3
  <2>3. ~Less(keys[m], keys[s.x])
    BY <1>1, <1>3, <2>1, LessOrder
  <2> QED
    BY <2>1, <2>2, <2>3, LessTotal
<1> QED
  BY <1>1, <1>2, <1>3, AroundEnd

\* Next goes to the entry right after that of its node.
LEMMA NextRight ==
  ASSUME MemTableInv, NEW s, SearchAt(s), s.op = "next", NEW n, n = next_[s.x][0]
  PROVE  /\ n # Nil => s.target = Nil \/ Less(s.target, keys[n])
         /\ \A m \in s.before : s.target = Nil \/ Less(s.target, keys[m]) =>
              n # Nil /\ ~Less(keys[m], keys[n])
<1>1. /\ s.x \in Linked \union {head_} /\ s.before \subseteq Linked
      /\ s.target = IF s.x = head_ THEN Nil ELSE keys[s.x]
  BY DEF SearchAt
<1>2. s.x # head_ => keys[s.x] # Nil
  <2>1. s.x # head_ => keys[s.x] \in InternalKey
    BY <1>1, AroundEnd
  <2> QED
    BY <2>1, MemTableAssumption DEF InternalKey
<1> QED
  BY <1>1, <1>2, AroundEnd

\* FindLessThan stops at the last entry before its target.
LEMMA LessRight ==
  ASSUME MemTableInv, NEW s, SearchAt(s), s.op = "less", ~StepOn(s, next_[s.x][0]),
         NEW n, n = IF s.x = head_ THEN Nil ELSE s.x
  PROVE  /\ n # Nil => Less(keys[n], s.target)
         /\ \A m \in s.before : Less(keys[m], s.target) => n # Nil /\ ~Less(keys[n], keys[m])
<1> DEFINE next == next_[s.x][0]
<1>1. /\ s.x \in Linked \union {head_} /\ s.before \subseteq Linked
      /\ s.target \in InternalKey /\ (s.x = head_ \/ Less(keys[s.x], s.target))
  BY DEF SearchAt, InternalKey
<1>2. next # Nil => ~Less(keys[next], s.target)
  BY DEF StepOn, KeyIsAfterNode
<1>3. next \in Linked \union {Nil}
  BY <1>1, AroundEnd
<1>4. s.x # head_ => s.x # Nil
  BY <1>1, NoNode DEF Linked
<1> HIDE DEF next
<1>5. ASSUME NEW m \in s.before, Less(keys[m], s.target), s.x = head_ \/ Less(keys[s.x], keys[m])
      PROVE  FALSE
  <2>1. next # Nil /\ ~Less(keys[m], keys[next])
    BY <1>1, <1>5, AroundEnd DEF next
  <2>2. /\ keys[m] \in InternalKey /\ keys[m].seq = m
        /\ keys[next] \in InternalKey /\ keys[next].seq = next
    BY <1>1, <1>3, <1>5, <2>1, AroundEnd
  <2>3. m = next \/ Less(keys[next], keys[m])
    BY <2>1, <2>2, LessTotal
  <2> QED
    BY <1>1, <1>2, <1>5, <2>1, <2>2, <2>3, LessOrder
<1> QED
  BY <1>1, <1>4, <1>5

\* FindLast stops at the last entry.
LEMMA LastRight ==
  ASSUME MemTableInv, NEW s, SearchAt(s), s.op = "last", ~StepOn(s, next_[s.x][0]),
         NEW n, n = IF s.x = head_ THEN Nil ELSE s.x
  PROVE  \A m \in s.before : n # Nil /\ ~Less(keys[n], keys[m])
<1>1. s.x \in Linked \union {head_} /\ s.before \subseteq Linked
  BY DEF SearchAt
<1>2. next_[s.x][0] = Nil
  BY DEF StepOn
<1>3. s.x # head_ => s.x # Nil
  BY <1>1, NoNode DEF Linked
<1> QED
  BY <1>1, <1>2, <1>3, AroundEnd

\* Every search that overlaps insertions ends where one at a single moment could
\* have ended: on the right side of its target, with nothing that was in the list
\* when it began left out, for Seek, Next, Prev and SeekToLast alike.
THEOREM SearchesEndRight == Spec => SearchesRight
<1>1. ASSUME MemTableInv, [Next]_vars, NEW r \in Reader,
             search[r].op # "idle", search'[r].op = "idle"
      PROVE  EndsRight(search[r], node_'[r])
  <2> DEFINE s == search[r]
             n == node_'[r]
  <2>1. /\ SearchAt(s) /\ ~StepOn(s, next_[s.x][0])
        /\ n = IF s.op \in {"seek", "next"} THEN next_[s.x][0]
               ELSE IF s.x = head_ THEN Nil ELSE s.x
    BY <1>1, OnlyStepEnds, SearchEnd
  <2>2. s.op \in {"seek", "less", "next", "last"}
    BY <2>1 DEF SearchAt
  <2> HIDE DEF s, n
  <2>3. s.op = "seek" =>
          /\ n # Nil => ~Less(keys[n], s.target)
          /\ \A m \in s.before : ~Less(keys[m], s.target) => n # Nil /\ ~Less(keys[m], keys[n])
    BY <1>1, <2>1, SeekRight
  <2>4. s.op = "next" =>
          /\ n # Nil => s.target = Nil \/ Less(s.target, keys[n])
          /\ \A m \in s.before : s.target = Nil \/ Less(s.target, keys[m]) =>
               n # Nil /\ ~Less(keys[m], keys[n])
    BY <1>1, <2>1, NextRight
  <2>5. s.op = "less" =>
          /\ n # Nil => Less(keys[n], s.target)
          /\ \A m \in s.before : Less(keys[m], s.target) => n # Nil /\ ~Less(keys[n], keys[m])
    <3>1. s.op = "less" => n = IF s.x = head_ THEN Nil ELSE s.x
      BY <2>1
    <3> QED
      BY <1>1, <2>1, <3>1, LessRight
  <2>6. s.op = "last" => \A m \in s.before : n # Nil /\ ~Less(keys[n], keys[m])
    <3>1. s.op = "last" => n = IF s.x = head_ THEN Nil ELSE s.x
      BY <2>1
    <3> QED
      BY <1>1, <2>1, <3>1, LastRight
  <2>7. EndsRight(s, n)
    BY <2>2, <2>3, <2>4, <2>5, <2>6 DEF EndsRight
  <2> QED
    BY <2>7 DEF s, n
<1>2. MemTableInv /\ [Next]_vars =>
        [\A r \in Reader : search[r].op # "idle" /\ search'[r].op = "idle" =>
            EndsRight(search[r], node_'[r])]_vars
  BY <1>1
<1> QED
  BY <1>2, MemTableInvariance, PTL DEF Spec, SearchesRight

\* The order of two entries by their parts.
LEMMA LessParts ==
  ASSUME NEW a \in InternalKey, NEW b \in InternalKey
  PROVE  /\ a.key = b.key /\ a.seq > b.seq => Less(a, b)
         /\ a.key < b.key => Less(a, b)
         /\ Less(a, b) => a.key < b.key \/ (a.key = b.key /\ a.seq >= b.seq)
         /\ b.type = "put" /\ a.key = b.key /\ a.seq <= b.seq => ~Less(a, b)
         /\ a.key \in Int /\ a.seq \in Nat /\ b.key \in Int /\ b.seq \in Nat
BY DEF Less, Tag, InternalKey

\* A get that overlaps any number of insertions finds the newest entry of its key
\* among those that were visible when it took its sequence number, or none.
THEOREM GetsFindAsOf == Spec => GetsAsOf
<1>1. ASSUME MemTableInv, [Next]_vars, NEW r \in Reader,
             search[r].op = "seek", search'[r].op = "idle"
      PROVE  FindsAsOf(search[r].target.key, asOf[r], node_'[r])
  <2> DEFINE s == search[r]
             n == node_'[r]
             T == s.target
             k == T.key
             older == {i \in 1..asOf[r] : keys[i].key = k}
             hit == n # Nil /\ keys[n].key = k
  <2>1. /\ SearchAt(s) /\ ~StepOn(s, next_[s.x][0]) /\ n = next_[s.x][0]
    BY <1>1, OnlyStepEnds, SearchEnd
  <2>2. /\ n \in Linked \union {Nil} /\ s.before \subseteq Linked
        /\ n # Nil => ~Less(keys[n], T)
        /\ \A m \in s.before : ~Less(keys[m], T) => n # Nil /\ ~Less(keys[m], keys[n])
    BY <1>1, <2>1, SeekRight
  <2>3. T \in InternalKey /\ T.type = "put" /\ T.seq = asOf[r] /\ 1..asOf[r] \subseteq s.before
    BY <1>1, <2>1 DEF SearchAt, InternalKey, MemTableInv, ReadersInv
  <2>4. asOf[r] \in Nat /\ k \in Int
    BY <2>3 DEF InternalKey
  <2>5. \A y \in Linked : keys[y] \in InternalKey /\ keys[y].seq = y /\ y \in Nat \ {0}
    <3>1. \A y \in Linked : y \in Nat \ {0}
      BY <1>1 DEF Linked, MemTableInv, ListInv, ListTypes
    <3> QED
      BY <1>1, <2>1, <3>1, AroundEnd DEF SearchAt
  <2> HIDE DEF s, n, T, k
  <2>6. hit => n \in older
    <3> SUFFICES ASSUME hit PROVE n \in older
      OBVIOUS
    <3>1. n \in Linked /\ ~Less(keys[n], T) /\ keys[n].key = T.key
      BY <2>2 DEF k
    <3>2. keys[n] \in InternalKey /\ keys[n].seq = n /\ n \in Nat \ {0}
      BY <2>5, <3>1
    <3>3. ~(keys[n].seq > T.seq)
      BY <2>3, <3>1, <3>2, LessParts
    <3>4. n \in 1..asOf[r]
      BY <2>3, <2>4, <3>2, <3>3
    <3> QED
      BY <3>1, <3>4 DEF k
  <2>7. ASSUME NEW i \in older PROVE hit /\ n >= i
    <3>1. i \in 1..asOf[r] /\ i \in s.before /\ i \in Linked /\ keys[i].key = T.key
      BY <2>2, <2>3 DEF k
    <3>2. keys[i] \in InternalKey /\ keys[i].seq = i /\ i \in Nat
      BY <2>5, <3>1
    <3>3. ~Less(keys[i], T)
      BY <2>3, <2>4, <3>1, <3>2, LessParts
    <3>4. n # Nil /\ ~Less(keys[i], keys[n]) /\ ~Less(keys[n], T)
      BY <2>2, <3>1, <3>3
    <3>5. keys[n] \in InternalKey /\ keys[n].seq = n /\ n \in Nat
      BY <2>2, <2>5, <3>4
    <3>6. ~(keys[i].key < keys[n].key) /\ ~(keys[n].key < T.key)
      BY <2>3, <3>2, <3>4, <3>5, LessParts
    <3>7. keys[n].key \in Int /\ T.key \in Int
      BY <2>3, <3>5 DEF InternalKey
    <3>8. keys[n].key = T.key
      BY <3>1, <3>6, <3>7
    <3>9. ~(keys[i].seq > keys[n].seq)
      BY <3>1, <3>2, <3>4, <3>5, <3>8, LessParts
    <3> QED
      BY <3>2, <3>4, <3>5, <3>8, <3>9 DEF k
  <2>8. CASE older = {}
    BY <2>6, <2>8 DEF FindsAsOf, s, n, T, k
  <2>9. CASE older # {}
    <3>1. hit /\ n \in older /\ older \subseteq Nat
      BY <2>4, <2>6, <2>7, <2>9
    <3>2. \A y \in older : n >= y
      BY <2>7
    <3> HIDE DEF older, hit
    <3>3. n = Max(older)
      <4>1. \A z \in older : (\A y \in older : z >= y) => z = n
        BY <3>1, <3>2
      <4> QED
        BY <3>1, <3>2, <4>1 DEF Max
    <3> QED
      BY <2>9, <3>1, <3>3 DEF FindsAsOf, s, n, T, k, older, hit
  <2> QED
    BY <2>8, <2>9
<1>2. MemTableInv /\ [Next]_vars =>
        [\A r \in Reader : search[r].op = "seek" /\ search'[r].op = "idle" =>
            FindsAsOf(search[r].target.key, asOf[r], node_'[r])]_vars
  BY <1>1
<1> QED
  BY <1>2, MemTableInvariance, PTL DEF Spec, GetsAsOf

-----------------------------------------------------------------------------
(***************************************************************************)
(* The arena, for any sizes of blocks, entries and pointers.               *)
(***************************************************************************)

\* Quotient and remainder.
LEMMA DivMod ==
  ASSUME NEW a \in Nat \ {0}, NEW p \in Nat
  PROVE  p = a * (p \div a) + (p % a) /\ p % a \in 0..(a - 1) /\ p \div a \in Nat
OBVIOUS

\* A multiple leaves no remainder.
LEMMA MultipleMod ==
  ASSUME NEW a \in Nat \ {0}, NEW c \in Nat
  PROVE  (a * c) % a = 0
OBVIOUS

\* The slop takes an address to the next multiple.
LEMMA SlopAligns ==
  ASSUME NEW a \in Nat \ {0}, NEW p \in Nat, p % a # 0
  PROVE  (p + (a - (p % a))) % a = 0
<1>1. PICK q \in Nat : p = a * q + (p % a)
  BY DivMod
<1>2. p + (a - (p % a)) = a * q + a
  <2> DEFINE m == p % a
             s == a * q
  <2>1. m \in Nat /\ s \in Nat /\ p = s + m
    BY <1>1, DivMod
  <2> HIDE DEF m, s
  <2>2. p + (a - m) = s + a
    BY <2>1
  <2> QED
    BY <2>2 DEF m, s
<1>3. a * q + a = a * (q + 1) /\ q + 1 \in Nat
  OBVIOUS
<1> QED
  BY <1>2, <1>3, MultipleMod

\* One more chunk, apart from the others, of an arena whose old chunks are
\* still its own.
LEMMA ChunkAdded ==
  ASSUME NEW a, NEW b, NEW cs, NEW c,
         ArenaHolds(a, cs), ArenaFields(b), ChunkOf(b, c),
         \A d \in cs : ChunkOf(b, d) /\ d # c /\ Apart(c, d) /\ Apart(d, c)
  PROVE  /\ ArenaHolds(b, cs \union {c})
         /\ Cardinality(cs \union {c}) = Cardinality(cs) + 1
<1>1. IsFiniteSet(cs) /\ c \notin cs
  BY DEF ArenaHolds
<1>2. IsFiniteSet(cs \union {c}) /\ Cardinality(cs \union {c}) = Cardinality(cs) + 1
  BY <1>1, FS_AddElement
<1>3. \A d \in cs \union {c} : ChunkOf(b, d)
  OBVIOUS
<1>4. \A d, e \in cs \union {c} : d # e => Apart(d, e)
  BY DEF ArenaHolds
<1> QED
  BY <1>2, <1>3, <1>4 DEF ArenaHolds

Arena == [block : Nat, ptr : Nat, remaining : Nat, usage : Nat, blocks : Nat]

\* Arena a with n bytes behind a slop cut from its block is b.
CutFrom(a, n, slop, b) ==
  /\ b \in Arena /\ b.block = a.block /\ b.blocks = a.blocks /\ b.usage = a.usage
  /\ b.ptr = a.ptr + n + slop /\ b.remaining = a.remaining - n - slop

\* A chunk cut from the block in use, behind a slop.
LEMMA CutFits ==
  ASSUME NEW a, NEW cs, ArenaHolds(a, cs), NEW n \in Nat \ {0}, NEW slop \in Nat,
         n + slop <= a.remaining, NEW isNode \in BOOLEAN,
         isNode => (a.ptr + slop) % kAlign = 0,
         NEW b, CutFrom(a, n, slop, b),
         NEW c, c = Chunk(a.block, a.ptr + slop, n, kBlockSize, isNode)
  PROVE  /\ ArenaHolds(b, cs \union {c})
         /\ Cardinality(cs \union {c}) = Cardinality(cs) + 1
<1> DEFINE p == a.ptr + n + slop
           q == a.remaining - n - slop
           from == a.ptr + slop
<1>1. kBlockSize \in Nat
  BY MemTableAssumption
<1>2. ArenaFields(a) /\ a \in Arena
  BY DEF ArenaHolds, ArenaFields, Arena
<1>3. a.ptr \in Nat /\ a.remaining \in Nat /\ a.block \in Nat /\ a.blocks \in Nat
  BY <1>2 DEF Arena
<1>4. p \in Nat /\ q \in Nat /\ from \in Nat
  BY <1>3
<1>5. b \in Arena /\ b.block = a.block /\ b.blocks = a.blocks /\ b.ptr = p /\ b.remaining = q
  BY DEF CutFrom
<1>6. /\ c \in [block : Nat, from : Nat, to : Nat, size : Nat, node : BOOLEAN]
      /\ c.block = a.block /\ c.from = from /\ c.to = from + n /\ c.size = kBlockSize /\ c.node = isNode
  BY <1>1, <1>3, <1>4 DEF Chunk
<1>7. a.block <= a.blocks /\ a.ptr + a.remaining <= kBlockSize
  BY <1>2 DEF ArenaFields
<1>8. ArenaFields(b)
  BY <1>1, <1>3, <1>5, <1>7 DEF ArenaFields, Arena
<1>9. ChunkOf(b, c)
  BY <1>1, <1>3, <1>4, <1>5, <1>6, <1>7 DEF ChunkOf
<1>10. ASSUME NEW d \in cs
       PROVE  ChunkOf(b, d) /\ d # c /\ Apart(c, d) /\ Apart(d, c)
  <2>1. ChunkOf(a, d)
    BY DEF ArenaHolds
  <2>2. ChunkOf(b, d)
    BY <1>3, <1>4, <1>5, <2>1 DEF ChunkOf
  <2>3. d.block = c.block => d.to <= c.from /\ d.from < c.from
    BY <1>3, <1>4, <1>6, <2>1 DEF ChunkOf
  <2> QED
    BY <1>4, <1>6, <2>2, <2>3 DEF ChunkOf, Apart
<1> QED
  BY <1>8, <1>9, <1>10, ChunkAdded

\* A chunk in a new block.
LEMMA FallbackFits ==
  ASSUME NEW a, NEW cs, ArenaHolds(a, cs), NEW n \in Nat \ {0}, NEW isNode \in BOOLEAN,
         NEW r, r = AllocateFallback(a, n, isNode)
  PROVE  /\ ArenaHolds(r.a, cs \union {r.c})
         /\ Cardinality(cs \union {r.c}) = Cardinality(cs) + 1
<1> DEFINE b == r.a
           c == r.c
<1>1. kBlockSize \in Nat /\ kLink \in Nat
  BY MemTableAssumption
<1>2. 0 % kAlign = 0
  <2>1. kAlign \in Nat \ {0}
    BY MemTableAssumption
  <2> QED
    BY <2>1
<1>3. ArenaFields(a) /\ a \in Arena
  BY DEF ArenaHolds, ArenaFields, Arena
<1>4. /\ a.ptr \in Nat /\ a.remaining \in Nat /\ a.block \in Nat /\ a.blocks \in Nat
      /\ a.usage \in Nat /\ a.block <= a.blocks /\ a.ptr + a.remaining <= kBlockSize
  BY <1>3 DEF Arena, ArenaFields
<1>5. /\ ArenaFields(b) /\ b.blocks = a.blocks + 1
      /\ \/ b.block = a.block /\ b.ptr = a.ptr
         \/ b.block = a.blocks + 1 /\ b.ptr = n
      /\ c.block = a.blocks + 1 /\ c.from = 0 /\ c.to = n
      /\ c \in [block : Nat, from : Nat, to : Nat, size : Nat, node : BOOLEAN]
      /\ c.to <= c.size
  <2>1. CASE n > kBlockSize \div 4
    <3>1. /\ b = [a EXCEPT !.usage = a.usage + n + kLink, !.blocks = a.blocks + 1]
          /\ c = Chunk(a.blocks + 1, 0, n, n, isNode)
      BY <2>1 DEF AllocateFallback
    <3>2. a.usage + n + kLink \in Nat /\ a.blocks + 1 \in Nat
      BY <1>1, <1>4
    <3> HIDE DEF b, c
    <3>3. /\ b \in Arena /\ b.block = a.block /\ b.blocks = a.blocks + 1
          /\ b.ptr = a.ptr /\ b.remaining = a.remaining
      BY <1>3, <3>1, <3>2 DEF Arena
    <3>4. ArenaFields(b)
      BY <1>4, <3>3 DEF ArenaFields, Arena
    <3> QED
      BY <1>4, <3>1, <3>3, <3>4 DEF Chunk
  <2>2. CASE ~(n > kBlockSize \div 4)
    <3>1. /\ b = [block |-> a.blocks + 1, ptr |-> n, remaining |-> kBlockSize - n,
                  usage |-> a.usage + kBlockSize + kLink, blocks |-> a.blocks + 1]
          /\ c = Chunk(a.blocks + 1, 0, n, kBlockSize, isNode)
      BY <2>2 DEF AllocateFallback
    <3>2. n <= kBlockSize
      BY <1>1, <2>2
    <3> HIDE DEF b, c
    <3> QED
      BY <1>1, <1>4, <3>1, <3>2 DEF ArenaFields, Chunk
  <2> QED
    BY <2>1, <2>2
<1> HIDE DEF b, c
<1>6. ChunkOf(b, c)
  BY <1>2, <1>4, <1>5 DEF ChunkOf
<1>7. ASSUME NEW d \in cs
      PROVE  ChunkOf(b, d) /\ d # c /\ Apart(c, d) /\ Apart(d, c)
  <2>1. ChunkOf(a, d)
    BY DEF ArenaHolds
  <2>2. d.block # c.block
    BY <1>4, <1>5, <2>1 DEF ChunkOf
  <2>3. ChunkOf(b, d)
    BY <1>4, <1>5, <2>1 DEF ChunkOf
  <2> QED
    BY <2>2, <2>3 DEF Apart
<1>8. /\ ArenaHolds(b, cs \union {c})
      /\ Cardinality(cs \union {c}) = Cardinality(cs) + 1
  BY <1>5, <1>6, <1>7, ChunkAdded
<1> QED
  BY <1>8 DEF b, c

\* A byte is taken by a chunk of its block.
LEMMA TakenMember ==
  ASSUME NEW cs, NEW u
  PROVE  u \in Taken(cs) <=> \E c \in cs : u \in {c.block} \X (1..(c.size + kLink))
BY DEF Taken

\* A chunk of a block that has one already takes nothing more.
LEMMA CutUsage ==
  ASSUME NEW a, NEW cs, ArenaFields(a), UsageExact(a, cs), NEW n \in Nat \ {0},
         NEW slop \in Nat, n + slop <= a.remaining,
         NEW b, CutFrom(a, n, slop, b),
         NEW c, c.block = a.block, c.size = kBlockSize
  PROVE  UsageExact(b, cs \union {c})
<1>1. a.remaining \in Nat /\ a.block # 0
  BY DEF ArenaFields, UsageExact
<1>2. PICK d \in cs : d.block = a.block /\ d.size = kBlockSize
  BY <1>1 DEF UsageExact
<1>3. Taken(cs \union {c}) = Taken(cs)
  <2>1. \A u : u \in Taken(cs \union {c}) <=> u \in Taken(cs)
    BY <1>2, TakenMember
  <2> QED
    BY <2>1
<1>4. \A e, f \in cs \union {c} : e.block = f.block => e.size = f.size
  BY <1>2 DEF UsageExact
<1>5. b.usage = a.usage /\ b.block = a.block
  BY DEF CutFrom
<1> QED
  BY <1>1, <1>2, <1>3, <1>4, <1>5 DEF UsageExact

\* A block of n bytes takes n and a pointer.
LEMMA BlockTakes ==
  ASSUME NEW c, c.size \in Nat
  PROVE  /\ IsFiniteSet({c.block} \X (1..(c.size + kLink)))
         /\ Cardinality({c.block} \X (1..(c.size + kLink))) = c.size + kLink
<1> DEFINE n == c.size + kLink
<1>1. n \in Nat
  BY MemTableAssumption
<1> HIDE DEF n
<1>2. IsFiniteSet(1..n) /\ Cardinality(1..n) = n
  <2>1. 1 \in Int /\ n \in Int
    BY <1>1
  <2>2. Cardinality(1..n) = (IF 1 > n THEN 0 ELSE n - 1 + 1) /\ IsFiniteSet(1..n)
    BY <2>1, FS_Interval
  <2> QED
    BY <1>1, <2>2
<1>3. IsFiniteSet({c.block}) /\ Cardinality({c.block}) = 1
  BY FS_Singleton
<1> DEFINE B == {c.block}
           I == 1..n
<1>4. IsFiniteSet({c.block} \X (1..n)) /\ Cardinality({c.block} \X (1..n)) = 1 * n
  <2>1. IsFiniteSet(B) /\ IsFiniteSet(I) /\ Cardinality(B) = 1 /\ Cardinality(I) = n
    BY <1>2, <1>3
  <2> HIDE DEF B, I
  <2>2. IsFiniteSet(B \X I) /\ Cardinality(B \X I) = Cardinality(B) * Cardinality(I)
    BY <2>1, FS_Product
  <2>3. IsFiniteSet(B \X I) /\ Cardinality(B \X I) = 1 * n
    BY <2>1, <2>2, Zenon
  <2> QED
    BY <2>3 DEF B, I
<1>5. 1 * n = n
  BY <1>1
<1> QED
  BY <1>4, <1>5 DEF n

\* A chunk in a block without one adds that block and its pointer.
LEMMA NewBlockTakes ==
  ASSUME NEW cs, IsFiniteSet(Taken(cs)), NEW c, c.size \in Nat, \A d \in cs : d.block # c.block
  PROVE  /\ IsFiniteSet(Taken(cs \union {c}))
         /\ Cardinality(Taken(cs \union {c})) = Cardinality(Taken(cs)) + c.size + kLink
<1> DEFINE S == {c.block} \X (1..(c.size + kLink))
           T == Taken(cs)
           m == c.size + kLink
<1>1. IsFiniteSet(S) /\ Cardinality(S) = m
  BY BlockTakes
<1>2. Taken(cs \union {c}) = T \union S
  <2>1. \A u : u \in Taken(cs \union {c}) <=> u \in T \union S
    BY TakenMember
  <2> QED
    BY <2>1
<1>3. T \cap S = {}
  <2> SUFFICES ASSUME NEW u \in T, u \in S PROVE FALSE
    OBVIOUS
  <2>1. PICK d \in cs : u \in {d.block} \X (1..(d.size + kLink))
    BY TakenMember
  <2>2. u[1] = d.block /\ u[1] = c.block
    BY <2>1
  <2> QED
    BY <2>2
<1>4. Cardinality(T) \in Nat
  BY FS_CardinalityType
<1>5. m \in Nat /\ c.size \in Nat /\ kLink \in Nat
  BY MemTableAssumption
<1>7. Cardinality(T \cap S) = 0
  BY <1>3, FS_EmptySet
<1> HIDE DEF S, T
<1>6. IsFiniteSet(T)
  BY DEF T
<1>8. /\ IsFiniteSet(T \union S)
      /\ Cardinality(T \union S) = Cardinality(T) + Cardinality(S) - Cardinality(T \cap S)
  BY <1>1, <1>6, FS_Union
<1>9. Cardinality(T \union S) = Cardinality(T) + c.size + kLink
  BY <1>1, <1>4, <1>5, <1>7, <1>8
<1> QED
  BY <1>2, <1>8, <1>9 DEF T

\* AllocateNewBlock counts the block that it allocates.
LEMMA FallbackUsage ==
  ASSUME NEW a, NEW cs, ArenaHolds(a, cs), UsageExact(a, cs), NEW n \in Nat \ {0},
         NEW isNode \in BOOLEAN, NEW r, r = AllocateFallback(a, n, isNode)
  PROVE  UsageExact(r.a, cs \union {r.c})
<1> DEFINE b == r.a
           c == r.c
<1>1. kBlockSize \in Nat /\ kLink \in Nat
  BY MemTableAssumption
<1>2. a \in Arena
  BY DEF ArenaHolds, ArenaFields, Arena
<1>3. a.usage \in Nat /\ a.block \in Nat /\ a.blocks \in Nat /\ a.remaining \in Nat
  BY <1>2 DEF Arena
<1>4. /\ c.block = a.blocks + 1 /\ c.size \in Nat /\ b.usage = a.usage + c.size + kLink
      /\ \/ b.block = a.block /\ b.remaining = a.remaining
         \/ b.block = a.blocks + 1 /\ c.size = kBlockSize
  <2>1. CASE n > kBlockSize \div 4
    <3>1. /\ b = [a EXCEPT !.usage = a.usage + n + kLink, !.blocks = a.blocks + 1]
          /\ c = Chunk(a.blocks + 1, 0, n, n, isNode)
      BY <2>1 DEF AllocateFallback
    <3> HIDE DEF b, c
    <3>2. b.usage = a.usage + n + kLink /\ b.block = a.block /\ b.remaining = a.remaining
      BY <1>2, <3>1 DEF Arena
    <3> QED
      BY <3>1, <3>2 DEF Chunk
  <2>2. CASE ~(n > kBlockSize \div 4)
    <3>1. /\ b = [block |-> a.blocks + 1, ptr |-> n, remaining |-> kBlockSize - n,
                  usage |-> a.usage + kBlockSize + kLink, blocks |-> a.blocks + 1]
          /\ c = Chunk(a.blocks + 1, 0, n, kBlockSize, isNode)
      BY <2>2 DEF AllocateFallback
    <3> HIDE DEF b, c
    <3> QED
      BY <1>1, <3>1 DEF Chunk
  <2> QED
    BY <2>1, <2>2
<1> HIDE DEF b, c
<1>5. \A d \in cs : d.block # c.block
  <2> SUFFICES ASSUME NEW d \in cs PROVE d.block # c.block
    OBVIOUS
  <2>1. d.block \in Nat /\ d.block <= a.blocks
    BY DEF ArenaHolds, ChunkOf
  <2> QED
    BY <1>3, <1>4, <2>1
<1>6. /\ IsFiniteSet(Taken(cs \union {c}))
      /\ Cardinality(Taken(cs \union {c})) = Cardinality(Taken(cs)) + c.size + kLink
  BY <1>4, <1>5, NewBlockTakes DEF UsageExact
<1>7. \A d, e \in cs \union {c} : d.block = e.block => d.size = e.size
  BY <1>5 DEF UsageExact
<1>8. b.usage = Cardinality(Taken(cs \union {c}))
  BY <1>4, <1>6 DEF UsageExact
<1>9. /\ b.block = 0 => b.remaining = 0
      /\ b.block # 0 => \E d \in cs \union {c} : d.block = b.block /\ d.size = kBlockSize
  BY <1>3, <1>4 DEF UsageExact
<1>10. UsageExact(b, cs \union {c})
  BY <1>6, <1>7, <1>8, <1>9 DEF UsageExact
<1> QED
  BY <1>10 DEF b, c

\* What Allocate hands out.
LEMMA AllocateFits ==
  ASSUME NEW a, NEW cs, ArenaHolds(a, cs), UsageExact(a, cs), NEW n \in Nat \ {0},
         NEW r, r = Allocate(a, n)
  PROVE  /\ ArenaHolds(r.a, cs \union {r.c}) /\ UsageExact(r.a, cs \union {r.c})
         /\ Cardinality(cs \union {r.c}) = Cardinality(cs) + 1
<1>1. a \in Arena /\ a.remaining \in Nat /\ a.ptr \in Nat /\ ArenaFields(a)
  BY DEF ArenaHolds, ArenaFields, Arena
<1>2. CASE n <= a.remaining
  <2>1. a.ptr + n \in Nat /\ a.remaining - n \in Nat
    BY <1>1, <1>2
  <2>2. /\ r.a = [a EXCEPT !.ptr = a.ptr + n, !.remaining = a.remaining - n]
        /\ r.c = Chunk(a.block, a.ptr, n, kBlockSize, FALSE)
    BY <1>2 DEF Allocate
  <2>3. /\ r.a \in Arena /\ r.a.block = a.block /\ r.a.blocks = a.blocks
        /\ r.a.ptr = a.ptr + n /\ r.a.remaining = a.remaining - n /\ r.a.usage = a.usage
    BY <1>1, <2>1, <2>2 DEF Arena
  <2>4. CutFrom(a, n, 0, r.a)
    BY <1>1, <2>3 DEF CutFrom
  <2>5. PICK isNode \in BOOLEAN : ~isNode /\ r.c = Chunk(a.block, a.ptr, n, kBlockSize, isNode)
    BY <2>2
  <2>6. a.ptr + 0 = a.ptr /\ n + 0 <= a.remaining
    BY <1>1, <1>2
  <2>7. r.c.block = a.block /\ r.c.size = kBlockSize
    BY <2>2 DEF Chunk
  <2>8. UsageExact(r.a, cs \union {r.c})
    BY <1>1, <2>4, <2>6, <2>7, CutUsage
  <2> QED
    BY <2>4, <2>5, <2>6, <2>8, CutFits
<1>3. CASE ~(n <= a.remaining)
  <2>1. PICK isNode \in BOOLEAN : r = AllocateFallback(a, n, isNode)
    BY <1>3 DEF Allocate
  <2>2. /\ ArenaHolds(r.a, cs \union {r.c})
        /\ Cardinality(cs \union {r.c}) = Cardinality(cs) + 1
    BY <2>1, FallbackFits
  <2>3. UsageExact(r.a, cs \union {r.c})
    BY <2>1, FallbackUsage
  <2> QED
    BY <2>2, <2>3
<1> QED
  BY <1>2, <1>3

\* What AllocateAligned hands out.
LEMMA AllocateAlignedFits ==
  ASSUME NEW a, NEW cs, ArenaHolds(a, cs), UsageExact(a, cs), NEW n \in Nat \ {0},
         NEW r, r = AllocateAligned(a, n)
  PROVE  /\ ArenaHolds(r.a, cs \union {r.c}) /\ UsageExact(r.a, cs \union {r.c})
         /\ Cardinality(cs \union {r.c}) = Cardinality(cs) + 1
<1> DEFINE mod == a.ptr % kAlign
           slop == IF mod = 0 THEN 0 ELSE kAlign - mod
<1>1. a \in Arena /\ a.remaining \in Nat /\ a.ptr \in Nat /\ ArenaFields(a)
  BY DEF ArenaHolds, ArenaFields, Arena
<1>2. kAlign \in Nat \ {0}
  BY MemTableAssumption
<1>3. mod \in 0..(kAlign - 1)
  BY <1>1, <1>2, DivMod
<1>4. slop \in Nat
  BY <1>2, <1>3
<1>5. (a.ptr + slop) % kAlign = 0
  <2>1. CASE mod = 0
    BY <1>1, <2>1
  <2>2. CASE mod # 0
    BY <1>1, <1>2, <2>2, SlopAligns
  <2> QED
    BY <2>1, <2>2
<1>6. r = IF n + slop <= a.remaining
          THEN [a |-> [a EXCEPT !.ptr = a.ptr + n + slop, !.remaining = a.remaining - n - slop],
                c |-> Chunk(a.block, a.ptr + slop, n, kBlockSize, TRUE)]
          ELSE AllocateFallback(a, n, TRUE)
  BY DEF AllocateAligned
<1> HIDE DEF slop
<1>7. CASE n + slop <= a.remaining
  <2>1. a.ptr + n + slop \in Nat /\ a.remaining - n - slop \in Nat
    BY <1>1, <1>4, <1>7
  <2>2. /\ r.a = [a EXCEPT !.ptr = a.ptr + n + slop, !.remaining = a.remaining - n - slop]
        /\ r.c = Chunk(a.block, a.ptr + slop, n, kBlockSize, TRUE)
    BY <1>6, <1>7
  <2>3. CutFrom(a, n, slop, r.a)
    BY <1>1, <2>1, <2>2 DEF Arena, CutFrom
  <2>4. PICK isNode \in BOOLEAN : r.c = Chunk(a.block, a.ptr + slop, n, kBlockSize, isNode)
    BY <2>2
  <2>5. r.c.block = a.block /\ r.c.size = kBlockSize
    BY <2>2 DEF Chunk
  <2>6. UsageExact(r.a, cs \union {r.c})
    BY <1>1, <1>4, <1>7, <2>3, <2>5, CutUsage
  <2> QED
    BY <1>4, <1>5, <1>7, <2>3, <2>4, <2>6, CutFits
<1>8. CASE ~(n + slop <= a.remaining)
  <2>1. PICK isNode \in BOOLEAN : r = AllocateFallback(a, n, isNode)
    BY <1>6, <1>8
  <2>2. /\ ArenaHolds(r.a, cs \union {r.c})
        /\ Cardinality(cs \union {r.c}) = Cardinality(cs) + 1
    BY <2>1, FallbackFits
  <2>3. UsageExact(r.a, cs \union {r.c})
    BY <2>1, FallbackUsage
  <2> QED
    BY <2>2, <2>3
<1> QED
  BY <1>7, <1>8

\* The memory of a node.
LEMMA NewNodeFits ==
  ASSUME NEW a, NEW cs, ArenaHolds(a, cs), UsageExact(a, cs), NEW h \in Nat \ {0},
         NEW r, r = NewNode(a, h)
  PROVE  /\ ArenaHolds(r.a, cs \union {r.c}) /\ UsageExact(r.a, cs \union {r.c})
         /\ Cardinality(cs \union {r.c}) = Cardinality(cs) + 1
<1>1. kLink \in Nat \ {0}
  BY MemTableAssumption
<1>2. kLink * (1 + h) \in Nat \ {0}
  BY <1>1
<1> QED
  BY <1>2, AllocateAlignedFits DEF NewNode

\* The arena with head_ in it.
LEMMA InitArena == Init => ArenaInv
<1> SUFFICES ASSUME Init PROVE ArenaInv
  OBVIOUS
<1> DEFINE a == [block |-> 0, ptr |-> 0, remaining |-> 0, usage |-> 0, blocks |-> 0]
           r == NewNode(a, kMaxHeight)
<1>1. kMaxHeight \in Nat \ {0} /\ kBlockSize \in Nat
  BY MemTableAssumption
<1>2. ArenaHolds(a, {})
  BY <1>1, FS_EmptySet DEF ArenaHolds, ArenaFields
<1>6. UsageExact(a, {})
  <2>1. Taken({}) = {}
    BY DEF Taken
  <2> QED
    BY <2>1, FS_EmptySet DEF UsageExact
<1>3. /\ ArenaHolds(r.a, {} \union {r.c}) /\ UsageExact(r.a, {} \union {r.c})
      /\ Cardinality({} \union {r.c}) = Cardinality({}) + 1
  <2> HIDE DEF a
  <2> QED
    BY <1>1, <1>2, <1>6, NewNodeFits
<1>4. arena = r.a /\ chunks = {} \union {r.c}
  BY DEF Init
<1>5. keys = << >>
  BY DEF Init
<1> HIDE DEF r
<1> QED
  BY <1>3, <1>4, <1>5, FS_EmptySet DEF ArenaInv

\* Only Add allocates.
LEMMA NextArena == ArenaInv /\ [Next]_vars => ArenaInv'
<1> SUFFICES ASSUME ArenaInv, [Next]_vars PROVE ArenaInv'
  OBVIOUS
<1>1. CASE \E k \in UserKey, type \in {"put", "del"}, h \in 1..kMaxHeight : Add(k, type, h)
  <2>1. PICK k \in UserKey, type \in {"put", "del"}, h \in 1..kMaxHeight : Add(k, type, h)
    BY <1>1
  <2> DEFINE e == [key |-> k, seq |-> Len(keys) + 1, type |-> type]
             buf == Allocate(arena, Size[type])
             node == NewNode(buf.a, h)
  <2>2. Size[type] \in Nat \ {0} /\ h \in Nat \ {0} /\ k \in Int
    BY MemTableAssumption
  <2>3. keys' = Append(keys, e) /\ arena' = node.a /\ chunks' = (chunks \union {buf.c}) \union {node.c}
    <3>1. chunks' = chunks \union {buf.c, node.c} /\ keys' = Append(keys, e) /\ arena' = node.a
      BY <2>1 DEF Add
    <3> HIDE DEF buf, node, e
    <3> QED
      BY <3>1
  <2>4. ArenaHolds(arena, chunks) /\ UsageExact(arena, chunks)
    BY DEF ArenaInv
  <2>5. /\ ArenaHolds(buf.a, chunks \union {buf.c}) /\ UsageExact(buf.a, chunks \union {buf.c})
        /\ Cardinality(chunks \union {buf.c}) = Cardinality(chunks) + 1
    BY <2>2, <2>4, AllocateFits
  <2> HIDE DEF buf
  <2>6. /\ ArenaHolds(node.a, (chunks \union {buf.c}) \union {node.c})
        /\ UsageExact(node.a, (chunks \union {buf.c}) \union {node.c})
        /\ Cardinality((chunks \union {buf.c}) \union {node.c}) = Cardinality(chunks \union {buf.c}) + 1
    BY <2>2, <2>5, NewNodeFits
  <2> HIDE DEF node
  <2>7. keys' \in Seq([key : Int, seq : Nat, type : {"put", "del"}]) /\ Len(keys') = Len(keys) + 1
    BY <2>2, <2>3 DEF ArenaInv
  <2>8. Cardinality(chunks') = 1 + 2 * Len(keys')
    <3>1. Cardinality(chunks) = 1 + 2 * Len(keys) /\ Len(keys) \in Nat
      BY DEF ArenaInv
    <3> QED
      BY <2>3, <2>5, <2>6, <2>7, <3>1
  <2> QED
    BY <2>3, <2>6, <2>7, <2>8 DEF ArenaInv
<1>2. CASE ~\E k \in UserKey, type \in {"put", "del"}, h \in 1..kMaxHeight : Add(k, type, h)
  <2>1. UNCHANGED <<keys, arena, chunks>>
    BY <1>2 DEF Next, vars, list, memory, owners, readers, InsertInto, SetNext, Publish, Ref, Seek,
                SeekToLast, PrevOf, NextFrom, Step, Unref, Drop
  <2> QED
    BY <2>1 DEF ArenaInv, ArenaHolds, ArenaFields, ChunkOf, Apart, UsageExact, Taken
<1> QED
  BY <1>1, <1>2

\* Arena::Allocate and AllocateAligned: whatever the sizes, what they hand
\* out lies within a block, apart from everything handed out before, nodes
\* are aligned, and memory_usage_ is exactly what the blocks take.
THEOREM ArenaCutsApart == Spec => []ChunksApart
<1>1. ArenaInv => ChunksApart
  BY DEF ArenaInv, ArenaHolds, UsageExact, ChunkOf, Apart, ChunksFit, ChunksApart
<1> QED
  BY <1>1, InitArena, NextArena, PTL DEF Spec
=============================================================================
