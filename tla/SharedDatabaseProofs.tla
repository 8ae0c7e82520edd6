------------------------- MODULE SharedDatabaseProofs -------------------------
(***************************************************************************)
(* Proof that sharing converges, for any set of fields and versions, any   *)
(* number of shares, lost connections and restarts.                        *)
(***************************************************************************)
EXTENDS SharedDownload, SequenceTheorems, TLAPS

\* Every position after the root's belongs to one field and one attribute.
LEMMA Position ==
  ASSUME NEW n \in Nat, NEW p \in 2 .. 1 + 3 * n
  PROVE  /\ cntAt(p) \in 0 .. n - 1
         /\ turnAt(p) \in 1 .. 3
         /\ p = 3 * cntAt(p) + turnAt(p) + 1
BY DEF cntAt, turnAt

\* Every field and attribute has its position.
LEMMA Thirds ==
  ASSUME NEW c \in Nat, NEW k \in 1 .. 3
  PROVE  cntAt(3 * c + k + 1) = c /\ turnAt(3 * c + k + 1) = k
BY DEF cntAt, turnAt

\* What PutsOf(F) holds at each position.
LEMMA PutsAt ==
  ASSUME NEW F \in Versions
  PROVE  /\ PutsOf(F) \in Seq(Put) /\ Len(PutsOf(F)) = 1 + 3 * Len(F) /\ Len(F) \in Nat
         /\ PutsOf(F)[1] = [at |-> Root, val |-> Missing]
         /\ \A p \in 2 .. 1 + 3 * Len(F) :
              /\ PutsOf(F)[p].at = <<cntAt(p), AttrOrder[turnAt(p)]>>
              /\ PutsOf(F)[p].at \in Leaf
              /\ PutsOf(F)[p].val = Image(F).leaf[PutsOf(F)[p].at]
<1>1. F \in Seq(Field) /\ Len(F) \in Nat /\ Len(F) <= MaxFields
  BY VersionsAssumption
<1>2. \A k \in 1 .. 3 : AttrOrder[k] \in Attr
  BY DEF AttrOrder, Attr
<1>3. ASSUME NEW p \in 2 .. 1 + 3 * Len(F)
      PROVE  /\ PutsOf(F)[p].at = <<cntAt(p), AttrOrder[turnAt(p)]>>
             /\ PutsOf(F)[p].at \in Leaf
             /\ PutsOf(F)[p].val = Image(F).leaf[PutsOf(F)[p].at]
             /\ PutsOf(F)[p] \in Put
  <2> DEFINE a == AttrOrder[turnAt(p)]
  <2>1. cntAt(p) \in 0 .. Len(F) - 1 /\ turnAt(p) \in 1 .. 3
    BY <1>1, Position
  <2>2. a \in Attr
    BY <2>1, <1>2
  <2>3. PutsOf(F)[p] = [at |-> <<cntAt(p), a>>, val |-> Written(F[cntAt(p) + 1], a)]
    BY <1>1 DEF PutsOf
  <2> HIDE DEF a
  <2>4. <<cntAt(p), a>> \in Leaf
    BY <1>1, <2>1, <2>2, BoundsAssumption DEF Leaf
  <2>5. F[cntAt(p) + 1] \in Field
    BY <1>1, <2>1
  <2>6. Written(F[cntAt(p) + 1], a) \in Value
    BY <2>2, <2>5 DEF Value
  <2>7. Image(F).leaf[<<cntAt(p), a>>] = Written(F[cntAt(p) + 1], a)
    BY <2>1, <2>4 DEF Image
  <2>8. PutsOf(F)[p] \in Put
    BY <2>3, <2>4, <2>6 DEF Put
  <2> QED
    BY <2>3, <2>4, <2>7, <2>8 DEF a
<1>4. PutsOf(F)[1] = [at |-> Root, val |-> Missing] /\ PutsOf(F)[1] \in Put
  BY <1>1 DEF PutsOf, Put, Value
<1>5. PutsOf(F) \in Seq(Put) /\ Len(PutsOf(F)) = 1 + 3 * Len(F)
  <2> DEFINE n == 1 + 3 * Len(F)
  <2>1. n \in Nat /\ DOMAIN PutsOf(F) = 1 .. n /\ PutsOf(F) = [p \in 1 .. n |-> PutsOf(F)[p]]
    BY <1>1 DEF PutsOf
  <2>2. \A p \in 1 .. n : PutsOf(F)[p] \in Put
    BY <1>1, <1>3, <1>4
  <2> HIDE DEF n
  <2>3. PutsOf(F) \in [1 .. n -> Put]
    BY <2>1, <2>2
  <2> QED
    BY <2>1, <2>3, SeqDef, LenProperties DEF n
<1> QED
  BY <1>1, <1>3, <1>4, <1>5

\* Equal pairs have equal parts.
LEMMA PairEqual ==
  ASSUME NEW a, NEW b, NEW c, NEW d, <<a, b>> = <<c, d>>
  PROVE  a = c /\ b = d
<1>1. <<a, b>>[1] = a /\ <<c, d>>[1] = c /\ <<a, b>>[2] = b /\ <<c, d>>[2] = d
  OBVIOUS
<1> QED
  BY <1>1

\* The root's place is no leaf.
LEMMA RootNoLeaf == Root \notin Leaf
BY BoundsAssumption DEF Root, Leaf

\* In PutsOf(F) the last write at a leaf puts F's value there.
LEMMA LastPut ==
  ASSUME NEW F \in Versions, NEW l \in Leaf
  PROVE  \E j \in 1 .. Len(PutsOf(F)) :
           /\ Writes(PutsOf(F)[j], l)
           /\ ValueAt(PutsOf(F)[j], l) = Image(F).leaf[l]
           /\ \A k \in 1 .. Len(PutsOf(F)) : Writes(PutsOf(F)[k], l) => k <= j
<1> DEFINE q == PutsOf(F)
<1>1. /\ Len(q) = 1 + 3 * Len(F) /\ Len(F) \in Nat
      /\ q[1] = [at |-> Root, val |-> Missing]
      /\ \A p \in 2 .. 1 + 3 * Len(F) :
           /\ q[p].at = <<cntAt(p), AttrOrder[turnAt(p)]>>
           /\ q[p].at \in Leaf
           /\ q[p].val = Image(F).leaf[q[p].at]
  BY PutsAt
<1> HIDE DEF q
<1>2. \A p \in 2 .. Len(q) : Writes(q[p], l) <=> q[p].at = l
  BY <1>1, RootNoLeaf DEF Writes
<1>3. \A p, r \in 2 .. Len(q) : q[p].at = q[r].at => p = r
  <2> SUFFICES ASSUME NEW p \in 2 .. Len(q), NEW r \in 2 .. Len(q), q[p].at = q[r].at
               PROVE  p = r
    OBVIOUS
  <2>0. /\ q[p].at = <<cntAt(p), AttrOrder[turnAt(p)]>>
        /\ q[r].at = <<cntAt(r), AttrOrder[turnAt(r)]>>
    BY <1>1
  <2>1. cntAt(p) = cntAt(r) /\ AttrOrder[turnAt(p)] = AttrOrder[turnAt(r)]
    <3>1. <<cntAt(p), AttrOrder[turnAt(p)]>> = <<cntAt(r), AttrOrder[turnAt(r)]>>
      BY <2>0
    <3> QED
      BY <3>1, PairEqual
  <2>2. \A i, k \in 1 .. 3 : AttrOrder[i] = AttrOrder[k] => i = k
    BY DEF AttrOrder
  <2>3. /\ turnAt(p) \in 1 .. 3 /\ cntAt(p) \in Int /\ p = 3 * cntAt(p) + turnAt(p) + 1
        /\ turnAt(r) \in 1 .. 3 /\ r = 3 * cntAt(r) + turnAt(r) + 1
    <3>1. Len(F) \in Nat /\ p \in 2 .. 1 + 3 * Len(F) /\ r \in 2 .. 1 + 3 * Len(F)
      BY <1>1
    <3>2. cntAt(p) \in 0 .. Len(F) - 1 /\ turnAt(p) \in 1 .. 3 /\ p = 3 * cntAt(p) + turnAt(p) + 1
      BY <3>1, Position
    <3>3. cntAt(r) \in 0 .. Len(F) - 1 /\ turnAt(r) \in 1 .. 3 /\ r = 3 * cntAt(r) + turnAt(r) + 1
      BY <3>1, Position
    <3> QED
      BY <3>1, <3>2, <3>3
  <2>4. turnAt(p) = turnAt(r)
    BY <2>1, <2>2, <2>3
  <2> QED
    BY <2>1, <2>3, <2>4
<1>4. CASE \E p \in 2 .. Len(q) : q[p].at = l
  <2>1. PICK p \in 2 .. Len(q) : q[p].at = l
    BY <1>4
  <2>2. Writes(q[p], l) /\ ValueAt(q[p], l) = Image(F).leaf[l]
    BY <1>1, <2>1 DEF Writes, ValueAt
  <2>3. \A k \in 1 .. Len(q) : Writes(q[k], l) => k <= p
    BY <1>1, <1>2, <1>3, <2>1
  <2> QED
    BY <1>1, <2>1, <2>2, <2>3 DEF q
<1>5. CASE \A p \in 2 .. Len(q) : q[p].at # l
  <2>1. l[1] >= Len(F)
    <3> SUFFICES ASSUME l[1] < Len(F) PROVE FALSE
      BY <1>1 DEF Leaf
    <3>1. l[1] \in Nat /\ l[2] \in Attr /\ l = <<l[1], l[2]>>
      BY BoundsAssumption DEF Leaf
    <3>2. PICK k \in 1 .. 3 : AttrOrder[k] = l[2]
      BY <3>1 DEF AttrOrder, Attr
    <3> DEFINE p == 3 * l[1] + k + 1
    <3>3. p \in 2 .. Len(q)
      BY <1>1, <3>1
    <3>4. cntAt(p) = l[1] /\ turnAt(p) = k
      BY <3>1, Thirds
    <3> HIDE DEF p
    <3>5. q[p].at = l
      BY <1>1, <3>1, <3>2, <3>3, <3>4
    <3> QED
      BY <1>5, <3>3, <3>5
  <2>2. Image(F).leaf[l] = Missing
    BY <1>1, <2>1 DEF Image, Leaf
  <2>3. Writes(q[1], l) /\ ValueAt(q[1], l) = Missing
    BY <1>1, RootNoLeaf DEF Writes, ValueAt
  <2>4. \A k \in 1 .. Len(q) : Writes(q[k], l) => k <= 1
    BY <1>1, <1>2, <1>5
  <2> QED
    BY <1>1, <2>2, <2>3, <2>4 DEF q
<1> QED
  BY <1>4, <1>5
-------------------------------------------------------------------------------
\* Sharing version F settles every leaf on F's value, whatever is queued before.
LEMMA ShareSettles ==
  ASSUME NEW q \in Seq(Put), NEW F \in Versions, NEW i \in 0 .. Len(q), NEW l \in Leaf, NEW now
  PROVE  LeafSettles(q \o PutsOf(F), i, l, now, Image(F).leaf[l])
<1> DEFINE P == PutsOf(F)
           n == q \o P
<1>1. PICK j \in 1 .. Len(P) :
        /\ Writes(P[j], l)
        /\ ValueAt(P[j], l) = Image(F).leaf[l]
        /\ \A k \in 1 .. Len(P) : Writes(P[k], l) => k <= j
  BY LastPut
<1>2. P \in Seq(Put)
  BY PutsAt
<1> HIDE DEF P
<1>3. /\ Len(n) = Len(q) + Len(P) /\ Len(q) \in Nat /\ Len(P) \in Nat
      /\ \A k \in 1 .. Len(P) : n[Len(q) + k] = P[k]
      /\ \A k \in Len(q) + 1 .. Len(n) : k - Len(q) \in 1 .. Len(P) /\ n[k] = P[k - Len(q)]
  BY <1>2
<1> HIDE DEF n
<1>4. Len(q) + j \in Later(n, i, l)
  BY <1>1, <1>3 DEF Later
<1>5. \A k \in Later(n, i, l) : k <= Len(q) + j
  BY <1>1, <1>3 DEF Later
<1>6. ValueAt(n[Len(q) + j], l) = Image(F).leaf[l]
  BY <1>1, <1>3
<1>7. LeafSettles(n, i, l, now, Image(F).leaf[l])
  BY <1>4, <1>5, <1>6 DEF LeafSettles
<1> QED
  BY <1>7 DEF n, P

\* A write that was already applied, and is still queued, settles as before:
\* sending it again is harmless.
LEMMA ResendSettles ==
  ASSUME NEW q \in Seq(Put), NEW s \in 1 .. Len(q), NEW l \in Leaf, NEW now, NEW v,
         LeafSettles(q, 0, l, now, v)
  PROVE  LeafSettles(q, 0, l, IF Writes(q[s], l) THEN ValueAt(q[s], l) ELSE now, v)
BY DEF LeafSettles, Later

\* Applying the next write moves it from the queue to the tree.
LEMMA ApplySettles ==
  ASSUME NEW q \in Seq(Put), NEW i \in 0 .. Len(q) - 1, NEW l \in Leaf, NEW now, NEW v,
         LeafSettles(q, i, l, now, v)
  PROVE  LeafSettles(q, i + 1, l, IF Writes(q[i + 1], l) THEN ValueAt(q[i + 1], l) ELSE now, v)
<1>1. Later(q, i, l) = Later(q, i + 1, l) \cup (IF Writes(q[i + 1], l) THEN {i + 1} ELSE {})
  BY DEF Later
<1>2. \A j \in Later(q, i + 1, l) : j > i + 1
  BY DEF Later
<1>3. CASE Writes(q[i + 1], l)
  <2>1. PICK j \in Later(q, i, l) : ValueAt(q[j], l) = v /\ \A k \in Later(q, i, l) : k <= j
    BY <1>1, <1>3 DEF LeafSettles
  <2>2. CASE j = i + 1
    <3>1. Later(q, i + 1, l) = {}
      BY <1>1, <1>2, <2>1, <2>2 DEF Later
    <3> QED
      BY <1>3, <2>1, <2>2, <3>1 DEF LeafSettles
  <2>3. CASE j # i + 1
    <3>1. j \in Later(q, i + 1, l) /\ \A k \in Later(q, i + 1, l) : k <= j
      BY <1>1, <2>1, <2>3
    <3> QED
      BY <2>1, <3>1 DEF LeafSettles
  <2> QED
    BY <2>2, <2>3
<1>4. CASE ~ Writes(q[i + 1], l)
  <2>1. Later(q, i + 1, l) = Later(q, i, l)
    BY <1>1, <1>4
  <2> QED
    BY <1>4, <2>1 DEF LeafSettles
<1> QED
  BY <1>3, <1>4

\* Forgetting an acknowledged write: the rest of the queue settles by itself.
LEMMA AckSettles ==
  ASSUME NEW q \in Seq(Put), NEW s \in 1 .. Len(q), NEW l \in Leaf, NEW now, NEW v,
         LeafSettles(q, 0, l, now, v), LeafSettles(q, s, l, now, v)
  PROVE  LeafSettles(Tail(q), 0, l, now, v) /\ LeafSettles(Tail(q), s - 1, l, now, v)
<1> DEFINE t == Tail(q)
<1>1. /\ Len(t) = Len(q) - 1 /\ Len(q) \in Nat
      /\ \A k \in 1 .. Len(t) : t[k] = q[k + 1]
      /\ \A k \in 2 .. Len(q) : k - 1 \in 1 .. Len(t) /\ q[k] = t[k - 1]
  OBVIOUS
<1> HIDE DEF t
<1>2. \A i \in 1 .. Len(q), k \in Int : k \in Later(q, i, l) <=> k - 1 \in Later(t, i - 1, l)
  BY <1>1 DEF Later
<1>3. \A i \in 0 .. Len(q) : \A k \in Later(q, i, l) : k \in Int
  BY DEF Later
<1>5. ASSUME NEW i \in 1 .. Len(q), NEW j \in Later(q, i, l), ValueAt(q[j], l) = v,
             \A k \in Later(q, i, l) : k <= j
      PROVE  LeafSettles(t, i - 1, l, now, v)
  <2>1. j - 1 \in Later(t, i - 1, l) /\ j \in 2 .. Len(q)
    BY <1>2, <1>3, <1>5 DEF Later
  <2>2. ValueAt(t[j - 1], l) = v
    BY <1>1, <1>5, <2>1
  <2>3. \A k \in Later(t, i - 1, l) : k + 1 \in Later(q, i, l) /\ k \in Int
    BY <1>1 DEF Later
  <2>4. \A k \in Later(t, i - 1, l) : k <= j - 1
    BY <1>5, <2>1, <2>3
  <2> QED
    BY <2>1, <2>2, <2>4 DEF LeafSettles
<1>6. ASSUME NEW i \in 1 .. Len(q), Later(q, i, l) = {}
      PROVE  Later(t, i - 1, l) = {}
  <2>1. \A k \in Later(t, i - 1, l) : k + 1 \in Later(q, i, l)
    BY <1>1 DEF Later
  <2> QED
    BY <1>6, <2>1
<1>7. LeafSettles(t, s - 1, l, now, v)
  BY <1>5, <1>6 DEF LeafSettles
<1>8. LeafSettles(t, 0, l, now, v)
  <2>1. CASE Later(q, 1, l) = {}
    <3>1. Later(q, s, l) = {}
      BY <2>1 DEF Later
    <3>2. now = v
      BY <3>1 DEF LeafSettles
    <3> QED
      BY <1>6, <2>1, <3>2 DEF LeafSettles
  <2>2. CASE Later(q, 1, l) # {}
    <3>1. PICK m \in Later(q, 1, l) : TRUE
      BY <2>2
    <3>2. Later(q, 1, l) \subseteq Later(q, 0, l) /\ \A k \in Later(q, 0, l) : k \in Int /\ (k >= 2 => k \in Later(q, 1, l))
      BY DEF Later
    <3>3. PICK j \in Later(q, 0, l) : ValueAt(q[j], l) = v /\ \A k \in Later(q, 0, l) : k <= j
      BY <3>1, <3>2 DEF LeafSettles
    <3>4. j \in Later(q, 1, l)
      BY <3>1, <3>2, <3>3 DEF Later
    <3> QED
      BY <1>5, <3>2, <3>3, <3>4
  <2> QED
    BY <2>1, <2>2
<1> QED
  BY <1>7, <1>8 DEF t
-------------------------------------------------------------------------------
\* A written value never leaves the tree's type.
LEMMA SetValueType ==
  ASSUME NEW p \in Put, NEW tree \in [url : BOOLEAN, leaf : [Leaf -> Value]]
  PROVE  setValue(p, tree) \in [url : BOOLEAN, leaf : [Leaf -> Value]]
<1>1. \A l \in Leaf : (IF Writes(p, l) THEN ValueAt(p, l) ELSE tree.leaf[l]) \in Value
  BY DEF Put, Value, ValueAt
<1> QED
  BY <1>1 DEF setValue

\* Nothing has been shared yet.
LEMMA InitSharerInv == InitSharer => SharerInv
<1> SUFFICES ASSUME InitSharer PROVE SharerInv
  OBVIOUS
<1>1. server \in [url : BOOLEAN, leaf : [Leaf -> Value]]
  BY DEF InitSharer, EmptyTree, Value
<1>2. <<>> \in Seq(Put) /\ <<>> \in Seq(Versions) /\ Len(<<>>) = 0
  BY EmptySeq
<1>3. TypeOKSharer
  <2>1. /\ outstandingPuts \in Seq(Put) /\ shared \in Seq(Versions)
        /\ sent \in 0 .. Len(outstandingPuts) /\ disconnects \in Nat /\ restarts \in Nat
    BY <1>2 DEF InitSharer
  <2>2. connected \in BOOLEAN /\ lastShared \in Versions \cup {NoVersion}
    BY DEF InitSharer
  <2> QED
    BY <1>1, <2>1, <2>2 DEF TypeOKSharer
<1> QED
  BY <1>3 DEF InitSharer, SharerInv

\* Sharing a version keeps the invariant: its writes settle on it.
LEMMA ShareStep ==
  ASSUME SharerInv, NEW F \in Versions, shareDoucment(F)
  PROVE  SharerInv'
<1> DEFINE q == outstandingPuts
           P == PutsOf(F)
<1>1. q \in Seq(Put) /\ P \in Seq(Put) /\ Len(P) >= 1 /\ P[1].at = Root /\ sent \in 0 .. Len(q)
  BY PutsAt DEF SharerInv, TypeOKSharer
<1>2. /\ outstandingPuts' = q \o P /\ lastShared' = F /\ shared' = Append(shared, F)
      /\ UNCHANGED <<sent, connected, server, disconnects, restarts>>
  BY DEF shareDoucment, putInternal
<1>3. \A i \in 0 .. Len(q), l \in Leaf :
        LeafSettles(q \o P, i, l, server.leaf[l], Image(F).leaf[l])
  BY <1>1, ShareSettles
<1> HIDE DEF P
<1>4. /\ q \o P \in Seq(Put) /\ Len(q \o P) = Len(q) + Len(P) /\ (q \o P)[Len(q) + 1] = P[1]
  BY <1>1
<1>5. \A i \in 0 .. Len(q) : RootSettles(q \o P, i, server.url)
  <2> SUFFICES ASSUME NEW i \in 0 .. Len(q) PROVE RootSettles(q \o P, i, server.url)
    OBVIOUS
  <2>1. Len(q) + 1 \in i + 1 .. Len(q \o P)
    BY <1>1, <1>4
  <2> QED
    BY <1>1, <1>4, <2>1 DEF RootSettles
<1>6. TypeOKSharer'
  BY <1>1, <1>2, <1>4 DEF SharerInv, TypeOKSharer
<1>7. Settles(0, F)' /\ Settles(sent, F)'
  BY <1>1, <1>2, <1>3, <1>5 DEF Settles
<1> QED
  BY <1>2, <1>6, <1>7 DEF SharerInv

\* Carrying the next write to the server keeps the invariant.
LEMMA SendStep ==
  ASSUME SharerInv, sendPut
  PROVE  SharerInv'
<1> DEFINE q == outstandingPuts
           p == q[sent + 1]
<1>1. /\ q \in Seq(Put) /\ sent \in 0 .. Len(q) - 1 /\ p \in Put
      /\ server \in [url : BOOLEAN, leaf : [Leaf -> Value]]
  BY DEF SharerInv, TypeOKSharer, sendPut, canSendWrites
<1>2. /\ server' = setValue(p, server) /\ sent' = sent + 1 /\ connected
      /\ UNCHANGED <<outstandingPuts, connected, lastShared, shared, disconnects, restarts>>
  BY DEF sendPut, canSendWrites
<1>3. TypeOKSharer'
  BY <1>1, <1>2, SetValueType DEF SharerInv, TypeOKSharer
<1>4. /\ server'.url = (server.url \/ p.at = Root)
      /\ \A l \in Leaf : server'.leaf[l] = IF Writes(p, l) THEN ValueAt(p, l) ELSE server.leaf[l]
  BY <1>2 DEF setValue
<1>5. ASSUME NEW F \in Versions, Settles(0, F), Settles(sent, F)
      PROVE  Settles(0, F)' /\ Settles(sent, F)'
  <2>1. \A l \in Leaf : LeafSettles(q, 0, l, server'.leaf[l], Image(F).leaf[l])
    BY <1>1, <1>4, <1>5, ResendSettles DEF Settles
  <2>2. \A l \in Leaf : LeafSettles(q, sent + 1, l, server'.leaf[l], Image(F).leaf[l])
    BY <1>1, <1>4, <1>5, ApplySettles DEF Settles
  <2>3. RootSettles(q, 0, server'.url) /\ RootSettles(q, sent + 1, server'.url)
    <3>1. CASE server.url \/ p.at = Root
      BY <1>4, <3>1 DEF RootSettles
    <3>2. CASE ~ (server.url \/ p.at = Root)
      <4>1. PICK j \in sent + 1 .. Len(q) : q[j].at = Root
        BY <1>5, <3>2 DEF Settles, RootSettles
      <4>2. j \in sent + 1 + 1 .. Len(q) /\ j \in 0 + 1 .. Len(q)
        BY <1>1, <3>2, <4>1
      <4> QED
        BY <4>1, <4>2 DEF RootSettles
    <3> QED
      BY <3>1, <3>2
  <2> QED
    BY <1>2, <2>1, <2>2, <2>3 DEF Settles
<1> QED
  BY <1>2, <1>3, <1>5 DEF SharerInv, TypeOKSharer

\* Forgetting an acknowledged write keeps the invariant.
LEMMA AckStep ==
  ASSUME SharerInv, ackPut
  PROVE  SharerInv'
<1> DEFINE q == outstandingPuts
<1>1. q \in Seq(Put) /\ sent \in 1 .. Len(q)
  BY DEF SharerInv, TypeOKSharer, ackPut, onDataMessage, canSendWrites
<1>2. /\ outstandingPuts' = Tail(q) /\ sent' = sent - 1 /\ connected
      /\ UNCHANGED <<connected, server, lastShared, shared, disconnects, restarts>>
  BY DEF ackPut, onDataMessage, canSendWrites
<1>3. /\ Tail(q) \in Seq(Put) /\ Len(Tail(q)) = Len(q) - 1
      /\ \A k \in 1 .. Len(q) - 1 : Tail(q)[k] = q[k + 1]
  BY <1>1
<1>4. TypeOKSharer'
  BY <1>1, <1>2, <1>3 DEF SharerInv, TypeOKSharer
<1>5. ASSUME NEW F \in Versions, Settles(0, F), Settles(sent, F)
      PROVE  Settles(0, F)' /\ Settles(sent, F)'
  <2>1. \A l \in Leaf :
          /\ LeafSettles(Tail(q), 0, l, server.leaf[l], Image(F).leaf[l])
          /\ LeafSettles(Tail(q), sent - 1, l, server.leaf[l], Image(F).leaf[l])
    BY <1>1, <1>5, AckSettles DEF Settles
  <2>2. RootSettles(Tail(q), 0, server.url) /\ RootSettles(Tail(q), sent - 1, server.url)
    <3>1. CASE server.url
      BY <3>1 DEF RootSettles
    <3>2. CASE ~ server.url
      <4>1. PICK j \in sent + 1 .. Len(q) : q[j].at = Root
        BY <1>5, <3>2 DEF Settles, RootSettles
      <4>2. /\ j - 1 \in 0 + 1 .. Len(Tail(q)) /\ j - 1 \in sent - 1 + 1 .. Len(Tail(q))
            /\ Tail(q)[j - 1].at = Root
        BY <1>1, <1>3, <4>1
      <4> QED
        BY <4>2 DEF RootSettles
    <3> QED
      BY <3>1, <3>2
  <2> QED
    BY <1>2, <2>1, <2>2 DEF Settles
<1> QED
  BY <1>2, <1>4, <1>5 DEF SharerInv, TypeOKSharer

\* Every step of the author keeps the invariant.
LEMMA NextSharerInv == SharerInv /\ [NextSharer]_sharer => SharerInv'
<1> SUFFICES ASSUME SharerInv, [NextSharer]_sharer PROVE SharerInv'
  OBVIOUS
<1>1. ASSUME NEW F \in Versions, shareDoucment(F) PROVE SharerInv'
  BY <1>1, ShareStep
<1>2. CASE sendPut
  BY <1>2, SendStep
<1>3. CASE ackPut
  BY <1>3, AckStep
<1>4. CASE onDisconnect
  <2>1. TypeOKSharer'
    <3>1. sent' \in 0 .. Len(outstandingPuts') /\ disconnects' \in Nat
      BY <1>4 DEF onDisconnect, SharerInv, TypeOKSharer
    <3>2. connected' \in BOOLEAN
      BY <1>4 DEF onDisconnect
    <3> QED
      BY <1>4, <3>1, <3>2 DEF onDisconnect, SharerInv, TypeOKSharer
  <2>2. lastShared' # NoVersion => Settles(0, lastShared)' /\ Settles(sent, lastShared)'
    BY <1>4 DEF onDisconnect, SharerInv, Settles
  <2> QED
    BY <1>4, <2>1, <2>2 DEF onDisconnect, SharerInv
<1>5. CASE restoreState
  BY <1>5 DEF restoreState, tryScheduleReconnect, restoreAuth, SharerInv, TypeOKSharer, Settles
<1>6. CASE Restart
  <2>1. TypeOKSharer'
    <3>1. <<>> \in Seq(Put) /\ Len(<<>>) = 0
      BY EmptySeq
    <3>2. /\ outstandingPuts' \in Seq(Put) /\ sent' \in 0 .. Len(outstandingPuts')
          /\ restarts' \in Nat
      BY <1>6, <3>1 DEF Restart, SharerInv, TypeOKSharer
    <3>3. connected' \in BOOLEAN /\ lastShared' \in Versions \cup {NoVersion}
      BY <1>6 DEF Restart, SharerInv, TypeOKSharer
    <3> QED
      BY <1>6, <3>2, <3>3 DEF Restart, SharerInv, TypeOKSharer
  <2>2. lastShared' # NoVersion => Settles(0, lastShared)' /\ Settles(sent, lastShared)'
    BY <1>6 DEF Restart, SharerInv, Settles
  <2> QED
    BY <1>6, <2>1, <2>2 DEF Restart, SharerInv
<1>7. CASE UNCHANGED sharer
  BY <1>7 DEF sharer, SharerInv, TypeOKSharer, Settles
<1> QED
  BY <1>1, <1>2, <1>3, <1>4, <1>5, <1>6, <1>7 DEF NextSharer

\* The writes that are queued always settle on the version shared last.
THEOREM SharerInvariance == SpecSharer => []SharerInv
  BY InitSharerInv, NextSharerInv, PTL DEF SpecSharer

\* Once every write is acknowledged, the server holds exactly the version shared
\* last, after any number of shares, lost connections and resent writes.
THEOREM SharingConverges == SpecSharer => []Converged
<1>1. SharerInv => Converged
  <2> SUFFICES ASSUME SharerInv, outstandingPuts = <<>>, lastShared # NoVersion
               PROVE  server = Image(lastShared)
    BY DEF Converged
  <2>1. /\ server \in [url : BOOLEAN, leaf : [Leaf -> Value]]
        /\ server.url \/ \E j \in 1 .. Len(outstandingPuts) : outstandingPuts[j].at = Root
    BY DEF SharerInv, TypeOKSharer, Settles, RootSettles
  <2>2. \A l \in Leaf : Later(outstandingPuts, 0, l) = {}
    BY DEF Later
  <2>3. \A l \in Leaf : server.leaf[l] = Image(lastShared).leaf[l]
    BY <2>2 DEF SharerInv, Settles, LeafSettles
  <2>4. server.url = TRUE
    BY <2>1
  <2>5. server.leaf = Image(lastShared).leaf
    BY <2>1, <2>3 DEF Image
  <2> QED
    BY <2>1, <2>4, <2>5 DEF Image
<1> QED
  BY <1>1, SharerInvariance, PTL
-------------------------------------------------------------------------------
\* The root's write is the only one of a version that is at the root.
LEMMA RootFirst ==
  ASSUME NEW F \in Versions, NEW p \in 1 .. Len(PutsOf(F)), PutsOf(F)[p].at = Root
  PROVE  p = 1
BY PutsAt, RootNoLeaf

\* Acknowledging the first write leaves what is carried after it in place.
LEMMA TailCarries ==
  ASSUME NEW q \in Seq(Put), NEW i \in 1 .. Len(q), NEW n \in Nat, NEW m \in 0 .. 3 * n,
         NEW F, Len(F) = n, Carries(q, i, F, m)
  PROVE  Carries(Tail(q), i - 1, F, m)
<1> DEFINE end == i + (3 * n - m)
<1>1. /\ Len(Tail(q)) = Len(q) - 1
      /\ \A k \in 1 .. Len(q) - 1 : Tail(q)[k] = q[k + 1]
  OBVIOUS
<1>2. /\ end <= Len(q) /\ AtRoot(q, end)
      /\ \A j \in i + 1 .. end : q[j] = PutsOf(F)[m + 1 + (j - i)]
  BY DEF Carries
<1>3. end \in Nat /\ end >= i /\ Len(q) \in Nat /\ (i - 1) + (3 * n - m) = end - 1
  OBVIOUS
<1> HIDE DEF end
<1>4. AtRoot(Tail(q), end - 1)
  BY <1>1, <1>2, <1>3 DEF AtRoot
<1>5. ASSUME NEW j \in (i - 1) + 1 .. end - 1
      PROVE  Tail(q)[j] = PutsOf(F)[m + 1 + (j - (i - 1))]
  <2>1. j + 1 \in i + 1 .. end /\ j \in 1 .. Len(q) - 1 /\ (j + 1) - i = j - (i - 1)
    BY <1>2, <1>3
  <2> QED
    BY <1>1, <1>2, <2>1
<1> QED
  BY <1>1, <1>2, <1>3, <1>4, <1>5 DEF Carries

\* A version queued behind the others leaves what they carry in place.
LEMMA AppendCarries ==
  ASSUME NEW q \in Seq(Put), NEW P \in Seq(Put), Len(P) >= 1, P[1].at = Root,
         NEW i \in 0 .. Len(q)
  PROVE  /\ AtRoot(q, i) => AtRoot(q \o P, i)
         /\ \A n \in Nat : \A m \in 0 .. 3 * n : \A F :
              Len(F) = n /\ Carries(q, i, F, m) => Carries(q \o P, i, F, m)
<1>1. /\ Len(q \o P) = Len(q) + Len(P) /\ Len(q) \in Nat /\ Len(P) \in Nat
      /\ \A k \in 1 .. Len(q) : (q \o P)[k] = q[k]
      /\ (q \o P)[Len(q) + 1] = P[1]
  OBVIOUS
<1>2. ASSUME NEW e \in 0 .. Len(q), AtRoot(q, e) PROVE AtRoot(q \o P, e)
  <2>1. CASE e < Len(q)
    BY <1>1, <1>2, <2>1 DEF AtRoot
  <2>2. CASE e = Len(q)
    BY <1>1, <2>2 DEF AtRoot
  <2> QED
    BY <2>1, <2>2
<1>3. ASSUME NEW n \in Nat, NEW m \in 0 .. 3 * n, NEW F, Len(F) = n, Carries(q, i, F, m)
      PROVE  Carries(q \o P, i, F, m)
  <2> DEFINE end == i + (3 * n - m)
  <2>1. /\ end <= Len(q) /\ AtRoot(q, end)
        /\ \A j \in i + 1 .. end : q[j] = PutsOf(F)[m + 1 + (j - i)]
    BY <1>3 DEF Carries
  <2>2. end \in 0 .. Len(q)
    BY <1>1, <2>1
  <2> HIDE DEF end
  <2>3. \A j \in i + 1 .. end : (q \o P)[j] = PutsOf(F)[m + 1 + (j - i)]
    BY <1>1, <2>1, <2>2
  <2>4. AtRoot(q \o P, end)
    BY <1>2, <2>1, <2>2
  <2>5. end <= Len(q \o P)
    BY <1>1, <2>2
  <2> QED
    BY <1>3, <2>3, <2>4, <2>5 DEF Carries, end
<1> QED
  BY <1>2, <1>3

\* The writes of a version queued last are carried to their end.
LEMMA OwnCarries ==
  ASSUME NEW q \in Seq(Put), NEW F \in Versions
  PROVE  Carries(q \o PutsOf(F), Len(q) + 1, F, 0)
<1> DEFINE P == PutsOf(F)
           n == Len(F)
<1>1. P \in Seq(Put) /\ Len(P) = 1 + 3 * n /\ n \in Nat
  BY PutsAt
<1> HIDE DEF P
<1>2. /\ Len(q \o P) = Len(q) + 1 + 3 * n /\ Len(q) \in Nat
      /\ \A k \in 1 .. Len(P) : (q \o P)[Len(q) + k] = P[k]
  BY <1>1
<1>3. ASSUME NEW j \in Len(q) + 1 + 1 .. Len(q) + 1 + (3 * n - 0)
      PROVE  (q \o P)[j] = P[0 + 1 + (j - (Len(q) + 1))]
  <2>1. j - Len(q) \in 1 .. Len(P) /\ j = Len(q) + (j - Len(q))
        /\ 0 + 1 + (j - (Len(q) + 1)) = j - Len(q)
    BY <1>1, <1>2
  <2> QED
    BY <1>2, <2>1
<1>4. Len(q) + 1 + (3 * n - 0) = Len(q \o P)
  BY <1>1, <1>2
<1> QED
  BY <1>1, <1>2, <1>3, <1>4 DEF Carries, AtRoot, P

\* The root's write leaves the first part of any version.
LEMMA RootPart ==
  ASSUME NEW F \in Versions, NEW tree \in [url : BOOLEAN, leaf : [Leaf -> Value]],
         NEW p \in Put, p.at = Root
  PROVE  setValue(p, tree) = PartOf(F, 0)
<1>1. \A l \in Leaf : Writes(p, l) /\ ValueAt(p, l) = Missing
  BY RootNoLeaf DEF Writes, ValueAt
<1>2. ~ \E r \in 2 .. 0 + 1 : TRUE
  OBVIOUS
<1>3. setValue(p, tree).url = TRUE /\ PartOf(F, 0).url = TRUE
  BY DEF setValue, PartOf
<1>4. setValue(p, tree).leaf = PartOf(F, 0).leaf
  BY <1>1, <1>2 DEF setValue, PartOf
<1>5. setValue(p, tree) = [url |-> TRUE, leaf |-> setValue(p, tree).leaf]
  BY <1>3 DEF setValue
<1> QED
  BY <1>4, <1>5 DEF PartOf

\* The next leaf write of a version adds to the part of it that has arrived.
LEMMA NextPart ==
  ASSUME NEW F \in Versions, NEW m \in 0 .. 3 * Len(F) - 1
  PROVE  setValue(PutsOf(F)[m + 2], PartOf(F, m)) = PartOf(F, m + 1)
<1> DEFINE q == PutsOf(F)
           p == q[m + 2]
<1>1. /\ Len(F) \in Nat
      /\ \A r \in 2 .. 1 + 3 * Len(F) :
           /\ q[r].at = <<cntAt(r), AttrOrder[turnAt(r)]>>
           /\ q[r].at \in Leaf
           /\ q[r].val = Image(F).leaf[q[r].at]
  BY PutsAt
<1>2. m + 2 \in 2 .. 1 + 3 * Len(F) /\ p.at \in Leaf /\ p.val = Image(F).leaf[p.at]
  BY <1>1
<1>3. p.at[1] = cntAt(m + 2) /\ cntAt(m + 2) < Len(F)
  <2>1. p.at = <<cntAt(m + 2), AttrOrder[turnAt(m + 2)]>>
    BY <1>1, <1>2
  <2>2. cntAt(m + 2) \in 0 .. Len(F) - 1
    BY <1>1, <1>2, Position
  <2> QED
    BY <1>1, <2>1, <2>2
<1>4. p.val = Written(F[p.at[1] + 1], p.at[2])
  BY <1>2, <1>3 DEF Image
<1>5. \A l \in Leaf : Writes(p, l) <=> p.at = l
  BY <1>2, RootNoLeaf DEF Writes
<1> HIDE DEF q, p
<1>6. \A l \in Leaf :
        (\E r \in 2 .. (m + 1) + 1 : q[r].at = l) <=> (p.at = l \/ \E r \in 2 .. m + 1 : q[r].at = l)
  BY <1>1 DEF p
<1>7. setValue(p, PartOf(F, m)).url = TRUE
  BY DEF setValue, PartOf
<1>8. ASSUME NEW l \in Leaf
      PROVE  setValue(p, PartOf(F, m)).leaf[l] = PartOf(F, m + 1).leaf[l]
  <2>1. setValue(p, PartOf(F, m)).leaf[l] =
          IF p.at = l THEN p.val ELSE PartOf(F, m).leaf[l]
    BY <1>5 DEF setValue, ValueAt
  <2>2. \A k : PartOf(F, k).leaf[l] =
          IF \E r \in 2 .. k + 1 : q[r].at = l THEN Written(F[l[1] + 1], l[2]) ELSE Missing
    BY DEF PartOf, q
  <2> QED
    BY <1>4, <1>6, <2>1, <2>2
<1>9. /\ setValue(p, PartOf(F, m)) = [url |-> TRUE, leaf |-> setValue(p, PartOf(F, m)).leaf]
      /\ setValue(p, PartOf(F, m)).leaf = [l \in Leaf |-> setValue(p, PartOf(F, m)).leaf[l]]
  BY <1>7 DEF setValue
<1>10. /\ PartOf(F, m + 1) = [url |-> TRUE, leaf |-> PartOf(F, m + 1).leaf]
       /\ PartOf(F, m + 1).leaf = [l \in Leaf |-> PartOf(F, m + 1).leaf[l]]
  BY DEF PartOf
<1> QED
  BY <1>8, <1>9, <1>10 DEF p, q
\* Carrying a write of the version that is arriving, or beginning another version.
LEMMA SendPart ==
  ASSUME VersionInv, disconnects = 0, sendPut
  PROVE  WholeVersions' /\ PartArrived'
<1> DEFINE q == outstandingPuts
           p == q[sent + 1]
<1>1. /\ q \in Seq(Put) /\ sent \in 0 .. Len(q) - 1 /\ p \in Put
      /\ server \in [url : BOOLEAN, leaf : [Leaf -> Value]] /\ shared \in Seq(Versions)
  BY DEF VersionInv, SharerInv, TypeOKSharer, sendPut, canSendWrites
<1>2. /\ server' = setValue(p, server) /\ sent' = sent + 1
      /\ outstandingPuts' = q /\ shared' = shared
  BY DEF sendPut, canSendWrites
<1>3. WholeVersions /\ PartArrived
  BY DEF VersionInv
<1>4. WholeVersions'
  BY <1>2, <1>3 DEF WholeVersions
<1>5. \A i \in 1 .. Len(shared) : shared[i] \in Versions /\ Len(shared[i]) \in Nat
  BY <1>1, VersionsAssumption
<1>6. CASE AtRoot(q, sent)
  <2>1. p.at = Root /\ sent + 1 \in 1 .. Len(q)
    BY <1>1, <1>6 DEF AtRoot
  <2>2. PICK i \in 1 .. Len(shared) : Carries(q, sent + 1, shared[i], 0)
    BY <1>3, <2>1 DEF WholeVersions
  <2>3. server' = PartOf(shared[i], 0)
    BY <1>1, <1>2, <1>5, <2>1, RootPart
  <2>4. 0 \in 0 .. 3 * Len(shared[i])
    BY <1>5
  <2> QED
    BY <1>2, <1>4, <2>2, <2>3, <2>4 DEF PartArrived
<1>7. CASE ~ AtRoot(q, sent)
  <2>0. PICK i \in 1 .. Len(shared) : \E m \in 0 .. 3 * Len(shared[i]) :
          server = PartOf(shared[i], m) /\ Carries(q, sent, shared[i], m)
    BY <1>3, <1>7 DEF PartArrived
  <2>1. PICK m \in 0 .. 3 * Len(shared[i]) :
          server = PartOf(shared[i], m) /\ Carries(q, sent, shared[i], m)
    BY <2>0
  <2> DEFINE F == shared[i]
             n == Len(F)
             end == sent + (3 * n - m)
  <2>2. /\ end <= Len(q) /\ AtRoot(q, end)
        /\ \A j \in sent + 1 .. end : q[j] = PutsOf(F)[m + 1 + (j - sent)]
    BY <2>1 DEF Carries
  <2>3. F \in Versions /\ n \in Nat /\ sent \in Nat
    BY <1>1, <1>5
  <2>4. m < 3 * n
    <3> SUFFICES ASSUME m = 3 * n PROVE FALSE
      BY <2>3
    <3>1. end = sent
      BY <2>3
    <3> QED
      BY <1>7, <2>2, <3>1
  <2> HIDE DEF F
  <2>5. sent + 1 \in sent + 1 .. end /\ m + 1 + ((sent + 1) - sent) = m + 2
    BY <2>3, <2>4
  <2>6. p = PutsOf(F)[m + 2]
    BY <2>2, <2>5
  <2>7. server' = PartOf(F, m + 1)
    BY <1>2, <2>1, <2>3, <2>4, <2>6, NextPart DEF F
  <2>8. Carries(q, sent + 1, F, m + 1)
    <3>1. (sent + 1) + (3 * n - (m + 1)) = end
      BY <2>3
    <3>2. \A j \in (sent + 1) + 1 .. end : q[j] = PutsOf(F)[(m + 1) + 1 + (j - (sent + 1))]
      <4> SUFFICES ASSUME NEW j \in (sent + 1) + 1 .. end
                   PROVE  q[j] = PutsOf(F)[(m + 1) + 1 + (j - (sent + 1))]
        OBVIOUS
      <4>1. j \in sent + 1 .. end /\ (m + 1) + 1 + (j - (sent + 1)) = m + 1 + (j - sent)
        BY <2>3
      <4> QED
        BY <2>2, <4>1
    <3> QED
      BY <2>2, <3>1, <3>2 DEF Carries
  <2>9. m + 1 \in 0 .. 3 * Len(shared[i])
    BY <2>3, <2>4 DEF F
  <2> QED
    BY <1>2, <1>4, <2>7, <2>8, <2>9 DEF PartArrived, F
<1> QED
  BY <1>6, <1>7

\* Forgetting an acknowledged write leaves the rest of the queue as it is.
LEMMA AckPart ==
  ASSUME VersionInv, disconnects = 0, ackPut
  PROVE  WholeVersions' /\ PartArrived'
<1> DEFINE q == outstandingPuts
<1>1. q \in Seq(Put) /\ sent \in 1 .. Len(q) /\ shared \in Seq(Versions)
  BY DEF VersionInv, SharerInv, TypeOKSharer, ackPut, onDataMessage, canSendWrites
<1>2. /\ outstandingPuts' = Tail(q) /\ sent' = sent - 1
      /\ server' = server /\ shared' = shared
  BY DEF ackPut, onDataMessage, canSendWrites
<1>3. /\ Tail(q) \in Seq(Put) /\ Len(Tail(q)) = Len(q) - 1
      /\ \A k \in 1 .. Len(q) - 1 : Tail(q)[k] = q[k + 1]
  BY <1>1
<1>4. WholeVersions /\ PartArrived
  BY DEF VersionInv
<1>5. \A i \in 1 .. Len(shared) : Len(shared[i]) \in Nat
  BY <1>1, VersionsAssumption
<1>6. \A i \in 1 .. Len(shared), k \in 1 .. Len(q) : \A m \in 0 .. 3 * Len(shared[i]) :
        Carries(q, k, shared[i], m) => Carries(Tail(q), k - 1, shared[i], m)
  BY <1>1, <1>5, TailCarries
<1>7. AtRoot(q, sent) => AtRoot(Tail(q), sent - 1)
  BY <1>1, <1>3 DEF AtRoot
<1>8. WholeVersions'
  <2> SUFFICES ASSUME NEW j \in 1 .. Len(Tail(q)), Tail(q)[j].at = Root
               PROVE  \E i \in 1 .. Len(shared) : Carries(Tail(q), j, shared[i], 0)
    BY <1>2 DEF WholeVersions
  <2>1. j + 1 \in 1 .. Len(q) /\ q[j + 1].at = Root /\ (j + 1) - 1 = j
    BY <1>1, <1>3
  <2>2. PICK i \in 1 .. Len(shared) : Carries(q, j + 1, shared[i], 0)
    BY <1>4, <2>1 DEF WholeVersions
  <2>3. 0 \in 0 .. 3 * Len(shared[i])
    BY <1>5
  <2>4. Carries(Tail(q), (j + 1) - 1, shared[i], 0)
    BY <1>6, <2>1, <2>2, <2>3
  <2> QED
    BY <2>1, <2>4
<1>9. PartArrived'
  BY <1>1, <1>2, <1>4, <1>6, <1>7 DEF PartArrived
<1> QED
  BY <1>8, <1>9

\* A version shared now is queued as a whole behind the others.
LEMMA SharePart ==
  ASSUME VersionInv, disconnects = 0, NEW F \in Versions, shareDoucment(F)
  PROVE  WholeVersions' /\ PartArrived'
<1> DEFINE q == outstandingPuts
           P == PutsOf(F)
           n == Len(shared)
<1>1. q \in Seq(Put) /\ sent \in 0 .. Len(q) /\ shared \in Seq(Versions)
  BY DEF VersionInv, SharerInv, TypeOKSharer
<1>2. /\ outstandingPuts' = q \o P /\ shared' = Append(shared, F)
      /\ server' = server /\ sent' = sent
  BY DEF shareDoucment, putInternal
<1>3. P \in Seq(Put) /\ Len(P) >= 1 /\ P[1].at = Root
  BY PutsAt
<1>4. WholeVersions /\ PartArrived
  BY DEF VersionInv
<1>5. /\ n \in Nat /\ Len(shared') = n + 1 /\ shared'[n + 1] = F
      /\ \A i \in 1 .. n : /\ i \in 1 .. Len(shared')
                           /\ shared'[i] = shared[i] /\ Len(shared[i]) \in Nat
  BY <1>1, <1>2, VersionsAssumption
<1>6. Carries(q \o P, Len(q) + 1, F, 0)
  BY <1>1, OwnCarries
<1>7. \A j \in 1 .. Len(P) : P[j].at = Root => j = 1
  BY RootFirst
<1> HIDE DEF P, n
<1>8. \A i \in 1 .. n, k \in 0 .. Len(q) : \A m \in 0 .. 3 * Len(shared[i]) :
        Carries(q, k, shared[i], m) => Carries(q \o P, k, shared[i], m)
  BY <1>1, <1>3, <1>5, AppendCarries
<1>9. AtRoot(q, sent) => AtRoot(q \o P, sent)
  BY <1>1, <1>3, AppendCarries
<1>10. /\ Len(q \o P) = Len(q) + Len(P) /\ Len(q) \in Nat /\ Len(P) \in Nat
       /\ \A k \in 1 .. Len(q) : (q \o P)[k] = q[k]
       /\ \A k \in 1 .. Len(P) : (q \o P)[Len(q) + k] = P[k]
  BY <1>1, <1>3
<1>11. WholeVersions'
  <2> SUFFICES ASSUME NEW j \in 1 .. Len(q \o P), (q \o P)[j].at = Root
               PROVE  \E i \in 1 .. Len(shared') : Carries(q \o P, j, shared'[i], 0)
    BY <1>2 DEF WholeVersions
  <2>1. CASE j \in 1 .. Len(q)
    <3>1. PICK i \in 1 .. n : Carries(q, j, shared[i], 0)
      BY <1>4, <1>10, <2>1 DEF WholeVersions, n
    <3>2. 0 \in 0 .. 3 * Len(shared[i]) /\ j \in 0 .. Len(q)
      BY <1>5, <2>1
    <3> QED
      BY <1>5, <1>8, <3>1, <3>2
  <2>2. CASE j \notin 1 .. Len(q)
    <3>1. j - Len(q) \in 1 .. Len(P) /\ j = Len(q) + (j - Len(q))
      BY <1>10, <2>2
    <3>2. P[j - Len(q)].at = Root
      BY <1>10, <3>1
    <3>3. j = Len(q) + 1
      BY <1>7, <1>10, <3>1, <3>2
    <3>4. n + 1 \in 1 .. Len(shared')
      BY <1>5
    <3> QED
      BY <1>5, <1>6, <3>3, <3>4
  <2> QED
    BY <2>1, <2>2
<1>12. PartArrived'
  <2>1. CASE server = EmptyTree /\ AtRoot(q, sent)
    BY <1>2, <1>9, <2>1 DEF PartArrived
  <2>2. CASE ~ (server = EmptyTree /\ AtRoot(q, sent))
    <3>0. PICK i \in 1 .. n : \E m \in 0 .. 3 * Len(shared[i]) :
            /\ server = PartOf(shared[i], m)
            /\ AtRoot(q, sent) \/ Carries(q, sent, shared[i], m)
      BY <1>4, <2>2 DEF PartArrived, n
    <3>1. PICK m \in 0 .. 3 * Len(shared[i]) :
            /\ server = PartOf(shared[i], m)
            /\ AtRoot(q, sent) \/ Carries(q, sent, shared[i], m)
      BY <3>0
    <3>2. AtRoot(q \o P, sent) \/ Carries(q \o P, sent, shared[i], m)
      BY <1>1, <1>8, <1>9, <3>1
    <3>3. i \in 1 .. Len(shared') /\ shared'[i] = shared[i]
      BY <1>5
    <3> QED
      BY <1>2, <3>1, <3>2, <3>3 DEF PartArrived
  <2> QED
    BY <2>1, <2>2
<1> QED
  BY <1>11, <1>12

\* Every step of the author keeps what the server holds inside one version.
LEMMA NextVersionInv == VersionInv /\ [NextSharer]_sharer => VersionInv'
<1> SUFFICES ASSUME VersionInv, [NextSharer]_sharer PROVE VersionInv'
  OBVIOUS
<1>1. SharerInv'
  BY NextSharerInv DEF VersionInv
<1>2. disconnects \in Nat
  BY DEF VersionInv, SharerInv, TypeOKSharer
<1> SUFFICES ASSUME disconnects' = 0 PROVE WholeVersions' /\ PartArrived'
  BY <1>1 DEF VersionInv
<1>3. ~ onDisconnect
  BY <1>2 DEF onDisconnect
<1>4. disconnects = 0
  BY <1>3 DEF NextSharer, shareDoucment, putInternal, sendPut, canSendWrites, ackPut,
    onDataMessage, restoreState, tryScheduleReconnect, restoreAuth, Restart, sharer
<1>5. WholeVersions /\ PartArrived
  BY <1>4 DEF VersionInv
<1>6. ASSUME NEW F \in Versions, shareDoucment(F) PROVE WholeVersions' /\ PartArrived'
  BY <1>4, <1>6, SharePart
<1>7. CASE sendPut
  BY <1>4, <1>7, SendPart
<1>8. CASE ackPut
  BY <1>4, <1>8, AckPart
<1>9. CASE restoreState
  BY <1>5, <1>9 DEF restoreState, tryScheduleReconnect, restoreAuth, WholeVersions, PartArrived
<1>10. CASE Restart
  <2>1. /\ outstandingPuts' = <<>> /\ sent' = 0 /\ server' = server /\ shared' = shared
        /\ Len(<<>>) = 0
    BY <1>10 DEF Restart
  <2>2. WholeVersions'
    BY <2>1 DEF WholeVersions
  <2>3. AtRoot(outstandingPuts, sent)'
    BY <2>1 DEF AtRoot
  <2> QED
    BY <1>5, <2>1, <2>2, <2>3 DEF PartArrived
<1>11. CASE UNCHANGED sharer
  BY <1>5, <1>11 DEF sharer, WholeVersions, PartArrived
<1> QED
  BY <1>3, <1>6, <1>7, <1>8, <1>9, <1>10, <1>11 DEF NextSharer

\* Nothing has been shared, and the server holds nothing.
LEMMA InitVersionInv == InitSharer => VersionInv
<1> SUFFICES ASSUME InitSharer PROVE VersionInv
  OBVIOUS
<1>1. SharerInv
  BY InitSharerInv
<1>2. outstandingPuts = <<>> /\ sent = 0 /\ server = EmptyTree /\ Len(<<>>) = 0
  BY DEF InitSharer
<1>3. WholeVersions /\ PartArrived
  BY <1>2 DEF WholeVersions, PartArrived, AtRoot
<1> QED
  BY <1>1, <1>3 DEF VersionInv

\* The queue is made of whole versions, of which the server holds an initial part.
THEOREM VersionInvariance == SpecSharer => []VersionInv
  BY InitVersionInv, NextVersionInv, PTL DEF SpecSharer

\* Until a connection is lost, the tree on the server is an initial part of a single
\* shared version: the fields of two versions never mix, however often the author
\* shares and whenever the app is killed between two of the writes of shareDoucment.
THEOREM VersionsNeverMix == SpecSharer => []OneVersionAtATime
<1>1. VersionInv => OneVersionAtATime
  BY DEF VersionInv, PartArrived, OneVersionAtATime
<1> QED
  BY <1>1, VersionInvariance, PTL
-------------------------------------------------------------------------------
\* A recipient only reads: every step of SharedDownload is a step of the author's or
\* leaves everything of the author's as it is.
THEOREM DownloadsOnlyRead == Spec => SpecSharer
<1>1. Init => InitSharer
  BY DEF Init
<1>2. [Next]_vars => [NextSharer]_sharer
  BY DEF Next, vars, observeSingleEvent, downloadDocument
<1> QED
  BY <1>1, <1>2, PTL DEF Spec, SpecSharer

\* Beside a recipient, too, the server ends with exactly the version shared last.
THEOREM DownloadsConverge == Spec => []Converged
  BY DownloadsOnlyRead, SharingConverges

\* What a recipient is answered with is, until a connection is lost, an initial part
\* of a single version.
THEOREM DownloadsOneVersion == Spec => []OneVersionAtATime
  BY DownloadsOnlyRead, VersionsNeverMix
===============================================================================
