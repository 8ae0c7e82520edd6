-------------------------- MODULE TableCacheProofs --------------------------
(***************************************************************************)
(* Proofs about TableCache, for any threads, files, hashes, charges,       *)
(* capacity and limits.  Each operation of the cache keeps CacheOK, the    *)
(* books of a cache given the handles that threads have; each step of a    *)
(* thread takes from a limiter what it adds to what is held.  TCInv puts   *)
(* the two together and is inductive.  What the recursive function Only    *)
(* computes is proved by induction on the least counterexample.            *)
(***************************************************************************)
EXTENDS TableCache, FiniteSetTheorems, WellFoundedInduction, TLAPS

\* A set of natural numbers that is not empty has a least element.
LEMMA LeastNat ==
    ASSUME NEW T \in SUBSET Nat, T # {}
    PROVE  \E m \in T : \A x \in T : m <= x
<1> DEFINE R == OpToRel(<, Nat)
<1>1. IsWellFoundedOn(R, Nat)
    BY NatLessThanWellFounded
<1> HIDE DEF R
<1>2. PICK m \in T : \A y \in T : ~ (<<y, m>> \in R)
    BY <1>1, WFMin
<1>3. \A y \in T : ~(y < m)
    BY <1>2 DEF R, OpToRel
<1> QED BY <1>3

\* Induction up to n, for a set: what it proves of a recursive function does
\* not need an operator as a parameter.
LEMMA Induction ==
    ASSUME NEW n \in Nat, NEW T \in SUBSET (0..n), 0 \in T,
           \A i \in 1..n : i - 1 \in T => i \in T
    PROVE  T = 0..n
<1> SUFFICES ASSUME (0..n) \ T # {} PROVE FALSE
    OBVIOUS
<1>1. PICK m \in (0..n) \ T : \A x \in (0..n) \ T : m <= x
  <2> DEFINE M == (0..n) \ T
  <2>1. M \in SUBSET Nat /\ M # {}
    OBVIOUS
  <2> HIDE DEF M
  <2>2. \E m \in M : \A x \in M : m <= x
    BY <2>1, LeastNat
  <2> QED BY <2>2 DEF M
<1>2. m \in 1..n /\ m - 1 \in 0..n /\ ~(m <= m - 1)
    BY <1>1
<1> QED BY <1>1, <1>2

\* One step of Only, from the elements kept so far.
Kept(s, S, i, kept) == IF s[i] \in S THEN Append(kept, s[i]) ELSE kept

\* f gives what Only has kept of the first elements of s.
IsRun(T, s, S, n, f) ==
    /\ f \in [0..n -> Seq(T)] /\ f[0] = <<>>
    /\ \A i \in 1..n : f[i] = Kept(s, S, i, f[i - 1])

\* Only is computed element by element.
LEMMA OnlySteps ==
    ASSUME NEW T, NEW s \in Seq(T), NEW S
    PROVE  \E f : IsRun(T, s, S, Len(s), f) /\ Only(s, S) = f[Len(s)]
<1> DEFINE N == Len(s)
           Step(f, i) == IF i = 0 THEN <<>> ELSE IF s[i] \in S THEN Append(f[i - 1], s[i]) ELSE f[i - 1]
           Fun(f) == f = [i \in 0..N |-> Step(f, i)]
           D == {n \in 0..N : \E f : IsRun(T, s, S, n, f)}
<1>0. N \in Nat
    OBVIOUS
<1> HIDE DEF N
<1>1. 0 \in D
  <2>1. IsRun(T, s, S, 0, [i \in 0..0 |-> <<>>])
    BY DEF IsRun
  <2> QED BY <2>1, <1>0
<1>2. ASSUME NEW n \in 1..N, n - 1 \in D PROVE n \in D
  <2>1. PICK f : IsRun(T, s, S, n - 1, f)
    BY <1>2
  <2>2. n - 1 \in 0..(n - 1) /\ f[n - 1] \in Seq(T) /\ s[n] \in T
    BY <2>1, <1>0 DEF N, IsRun
  <2> DEFINE k == Kept(s, S, n, f[n - 1])
             g == [i \in 0..n |-> IF i = n THEN k ELSE f[i]]
  <2>3. k \in Seq(T)
    BY <2>2 DEF Kept
  <2>4. g \in [0..n -> Seq(T)]
    <3> SUFFICES ASSUME NEW i \in 0..n PROVE (IF i = n THEN k ELSE f[i]) \in Seq(T)
      OBVIOUS
    <3>1. CASE i = n
      BY <3>1, <2>3
    <3>2. CASE i # n
      <4>1. i \in 0..(n - 1)
        BY <3>2, <1>0
      <4> QED BY <4>1, <2>1, <3>2 DEF IsRun
    <3> QED BY <3>1, <3>2
  <2>5. g[0] = <<>>
    BY <2>1, <1>0 DEF IsRun
  <2>6. ASSUME NEW i \in 1..n PROVE g[i] = Kept(s, S, i, g[i - 1])
    <3>1. g[i - 1] = f[i - 1]
      BY <1>0
    <3>2. CASE i = n
      BY <3>1, <3>2
    <3>3. CASE i # n
      <4>1. i \in 1..(n - 1)
        BY <3>3, <1>0
      <4>2. g[i] = f[i]
        BY <3>3, <1>0
      <4>3. f[i] = Kept(s, S, i, f[i - 1])
        BY <2>1, <4>1 DEF IsRun
      <4> HIDE DEF g
      <4> QED BY <3>1, <4>2, <4>3
    <3> QED BY <3>2, <3>3
  <2>7. IsRun(T, s, S, n, g)
    <3> HIDE DEF g
    <3> QED BY <2>4, <2>5, <2>6 DEF IsRun
  <2> HIDE DEF g
  <2> QED BY <2>7, <1>0
<1>3. D = 0..N
  <2> HIDE DEF D
  <2>1. \A i \in 1..N : i - 1 \in D => i \in D
    BY <1>2
  <2>2. D \in SUBSET (0..N)
    BY DEF D
  <2> QED BY <2>1, <2>2, <1>0, <1>1, Induction
<1>4. PICK f : IsRun(T, s, S, N, f)
  <2>1. N \in D
    <3> HIDE DEF D
    <3> QED BY <1>3, <1>0
  <2> QED BY <2>1
<1>5. Fun(f)
  <2>1. ASSUME NEW i \in 0..N PROVE f[i] = Step(f, i)
    <3>1. CASE i = 0
      BY <3>1, <1>4 DEF IsRun
    <3>2. CASE i # 0
      <4>1. i \in 1..N
        BY <3>2, <1>0
      <4>2. f[i] = Kept(s, S, i, f[i - 1])
        BY <4>1, <1>4 DEF IsRun
      <4> QED BY <4>2, <3>2 DEF Kept
    <3> QED BY <3>1, <3>2
  <2>2. f = [i \in 0..N |-> f[i]]
    BY <1>4 DEF IsRun
  <2> HIDE DEF Step
  <2> QED BY <2>1, <2>2
<1> DEFINE h == CHOOSE g : Fun(g)
<1>6. Fun(h)
  <2> HIDE DEF Fun
  <2> QED BY <1>5
<1>7. Only(s, S) = h[N]
    BY DEF Only, N
<1> HIDE DEF h
<1>8. h = f
  <2> DEFINE E == {i \in 0..N : h[i] = f[i]}
  <2>0. \A i \in 0..N : h[i] = Step(h, i)
    BY <1>6
  <2>1. 0 \in E
    BY <2>0, <1>0, <1>4 DEF IsRun
  <2>2. ASSUME NEW i \in 1..N, i - 1 \in E PROVE i \in E
    <3>1. i \in 0..N /\ i # 0
      BY <1>0
    <3>2. h[i] = Step(h, i)
      BY <2>0, <3>1
    <3>3. f[i] = Step(f, i)
      <4> HIDE DEF Step
      <4> QED BY <1>5, <3>1
    <3> QED BY <3>1, <3>2, <3>3, <2>2
  <2>3. E = 0..N
    <3> HIDE DEF E
    <3>1. E \in SUBSET (0..N)
      BY DEF E
    <3> QED BY <2>1, <2>2, <3>1, <1>0, Induction
  <2>4. \A i \in 0..N : h[i] = f[i]
    BY <2>3
  <2>5. h = [i \in 0..N |-> h[i]]
    BY <1>6
  <2>6. f = [i \in 0..N |-> f[i]]
    BY <1>4 DEF IsRun
  <2> QED BY <2>4, <2>5, <2>6
<1> QED BY <1>4, <1>7, <1>8 DEF N

\* Only keeps the elements of s that are in S, and repeats none that s does
\* not repeat: taking an entry out of lru_ or of a bucket leaves the others.
LEMMA OnlyFacts ==
    ASSUME NEW T, NEW s \in Seq(T), NEW S
    PROVE  /\ Only(s, S) \in Seq(T)
           /\ ToSet(Only(s, S)) = ToSet(s) \cap S
           /\ IsInjective(s) => IsInjective(Only(s, S))
<1>1. PICK f : IsRun(T, s, S, Len(s), f) /\ Only(s, S) = f[Len(s)]
    BY OnlySteps
<1> DEFINE N == Len(s)
           First(i) == {s[j] : j \in 1..i}
           D == {i \in 0..N : /\ ToSet(f[i]) = First(i) \cap S
                              /\ IsInjective(s) => IsInjective(f[i])}
<1>0. N \in Nat
    OBVIOUS
<1>2. 0 \in D
  <2>1. ToSet(f[0]) = {} /\ First(0) = {} /\ IsInjective(f[0])
    BY <1>1 DEF ToSet, IsInjective, IsRun
  <2> QED BY <2>1, <1>0
<1>3. ASSUME NEW i \in 1..N, i - 1 \in D PROVE i \in D
  <2> DEFINE k == f[i - 1]
  <2>1. /\ i - 1 \in 0..N /\ i \in 0..N /\ k \in Seq(T) /\ s[i] \in T
        /\ f[i] = IF s[i] \in S THEN Append(k, s[i]) ELSE k
    BY <1>1 DEF Kept, IsRun
  <2>2. First(i) = First(i - 1) \union {s[i]}
    BY <1>0
  <2>3. ToSet(k) = First(i - 1) \cap S /\ (IsInjective(s) => IsInjective(k))
    BY <1>3
  <2> HIDE DEF k
  <2>4. CASE s[i] \in S
    <3>1. f[i] = Append(k, s[i])
      BY <2>1, <2>4
    <3>2. ToSet(f[i]) = ToSet(k) \union {s[i]}
      <4>1. DOMAIN f[i] = 1..(Len(k) + 1) /\ DOMAIN k = 1..Len(k) /\ Len(k) \in Nat
        BY <2>1, <3>1
      <4>2. f[i][Len(k) + 1] = s[i] /\ \A j \in 1..Len(k) : f[i][j] = k[j]
        BY <2>1, <3>1
      <4> QED BY <4>1, <4>2 DEF ToSet
    <3>3. ToSet(f[i]) = First(i) \cap S
      BY <3>2, <2>2, <2>3, <2>4
    <3>4. ASSUME IsInjective(s) PROVE IsInjective(f[i])
      <4>1. s[i] \notin First(i - 1)
        BY <3>4, <1>0 DEF IsInjective
      <4>2. s[i] \notin ToSet(k)
        BY <4>1, <2>3
      <4>3. \A a \in 1..Len(k) : k[a] # s[i]
        BY <4>2, <2>1 DEF ToSet
      <4> QED BY <4>3, <3>4, <2>3, <3>1, <2>1 DEF IsInjective
    <3> QED BY <3>3, <3>4, <2>1
  <2>5. CASE s[i] \notin S
    BY <2>5, <2>1, <2>2, <2>3
  <2> QED BY <2>4, <2>5
<1>4. D = 0..N
  <2>1. \A i \in 1..N : i - 1 \in D => i \in D
    BY <1>3
  <2>2. D \in SUBSET (0..N)
    OBVIOUS
  <2> HIDE DEF D, N
  <2> QED BY <2>1, <2>2, <1>0, <1>2, Induction
<1>5. N \in D /\ First(N) = ToSet(s)
  <2>1. First(N) = ToSet(s)
    BY DEF ToSet
  <2>2. N \in 0..N
    BY <1>0
  <2> HIDE DEF N, D
  <2> QED BY <1>4, <2>2, <2>1
<1>6. Only(s, S) \in Seq(T)
    BY <1>1, <1>0 DEF IsRun
<1> QED BY <1>5, <1>6, <1>1
-----------------------------------------------------------------------------
\* A sequence is one over every set that has its elements.
LEMMA SeqOver ==
    ASSUME NEW T, NEW s \in Seq(T), NEW X, ToSet(s) \subseteq X
    PROVE  s \in Seq(X)
  BY DEF ToSet

\* An entry put at the end of lru_ or of a bucket.
LEMMA SeqAppend ==
    ASSUME NEW T, NEW s \in Seq(T), NEW e
    PROVE  /\ Append(s, e) \in Seq(T \union {e})
           /\ ToSet(Append(s, e)) = ToSet(s) \union {e}
           /\ IsInjective(s) /\ e \notin ToSet(s) => IsInjective(Append(s, e))
<1> DEFINE a == Append(s, e)
<1>0. s \in Seq(T \union {e})
    OBVIOUS
<1>1. DOMAIN a = 1..(Len(s) + 1) /\ DOMAIN s = 1..Len(s) /\ Len(s) \in Nat
    BY <1>0
<1>2. a[Len(s) + 1] = e /\ \A j \in 1..Len(s) : a[j] = s[j]
    BY <1>0
<1>3. a \in Seq(T \union {e})
    BY <1>0
<1> HIDE DEF a
<1>4. ToSet(a) = ToSet(s) \union {e}
    BY <1>1, <1>2 DEF ToSet
<1>5. ASSUME IsInjective(s), e \notin ToSet(s) PROVE IsInjective(a)
  <2>1. \A j \in 1..Len(s) : s[j] # e
    BY <1>5, <1>1 DEF ToSet
  <2> QED BY <1>1, <1>2, <1>5, <2>1 DEF IsInjective
<1> QED BY <1>3, <1>4, <1>5 DEF a

PutAt(s, i, e) == [s EXCEPT ![i] = e]

\* An entry put in the place of another one of its bucket.
LEMMA SeqPut ==
    ASSUME NEW T, NEW s \in Seq(T), NEW e, NEW i \in 1..Len(s),
           IsInjective(s), e \notin ToSet(s)
    PROVE  /\ PutAt(s, i, e) \in Seq(T \union {e})
           /\ ToSet(PutAt(s, i, e)) = (ToSet(s) \ {s[i]}) \union {e}
           /\ IsInjective(PutAt(s, i, e))
<1> DEFINE a == [s EXCEPT ![i] = e]
<1>1. DOMAIN a = 1..Len(s) /\ DOMAIN s = 1..Len(s) /\ Len(s) \in Nat
    OBVIOUS
<1>2. a[i] = e /\ \A j \in 1..Len(s) : j # i => a[j] = s[j]
    OBVIOUS
<1>3. a \in Seq(T \union {e})
    OBVIOUS
<1> HIDE DEF a
<1>4. \A j \in 1..Len(s) : s[j] # e
    BY <1>1 DEF ToSet
<1>5. \A j, m \in 1..Len(s) : s[j] = s[m] => j = m
    BY <1>1 DEF IsInjective
<1>6. ToSet(a) = (ToSet(s) \ {s[i]}) \union {e}
    BY <1>1, <1>2, <1>5 DEF ToSet
<1>7. IsInjective(a)
    BY <1>1, <1>2, <1>4, <1>5 DEF IsInjective
<1> QED BY <1>3, <1>6, <1>7 DEF a, PutAt

\* Pushing the entries of a bucket at the head of another keeps them all.
LEMMA SeqReverse ==
    ASSUME NEW T, NEW s \in Seq(T)
    PROVE  /\ Reverse(s) \in Seq(T)
           /\ ToSet(Reverse(s)) = ToSet(s)
           /\ IsInjective(s) => IsInjective(Reverse(s))
<1> DEFINE a == Reverse(s)
           n == Len(s)
<1>1. DOMAIN s = 1..n /\ n \in Nat
    OBVIOUS
<1>2. a = [i \in 1..n |-> s[(n - i) + 1]]
    BY DEF Reverse
<1>3. \A i \in 1..n : (n - i) + 1 \in 1..n /\ (n - ((n - i) + 1)) + 1 = i
    BY <1>1
<1>4. a \in Seq(T)
  <2>1. \A i \in 1..n : s[(n - i) + 1] \in T
    BY <1>3
  <2> QED BY <1>1, <1>2, <2>1
<1> HIDE DEF a, n
<1>5. ToSet(a) = ToSet(s)
  <2>1. ASSUME NEW x \in ToSet(s) PROVE x \in ToSet(a)
    <3>1. PICK j \in 1..n : x = s[j]
      BY <2>1, <1>1 DEF ToSet
    <3>2. (n - j) + 1 \in 1..n /\ a[(n - j) + 1] = s[j]
      BY <1>2, <1>3
    <3> QED BY <3>1, <3>2, <1>2 DEF ToSet
  <2>2. ASSUME NEW x \in ToSet(a) PROVE x \in ToSet(s)
    <3>1. PICK j \in 1..n : x = s[(n - j) + 1]
      BY <2>2, <1>2 DEF ToSet
    <3> QED BY <3>1, <1>3, <1>1 DEF ToSet
  <2> QED BY <2>1, <2>2
<1>6. ASSUME IsInjective(s) PROVE IsInjective(a)
  <2> SUFFICES ASSUME NEW i \in 1..n, NEW j \in 1..n, a[i] = a[j] PROVE i = j
    BY <1>2 DEF IsInjective
  <2>1. s[(n - i) + 1] = s[(n - j) + 1]
    BY <1>2
  <2>2. (n - i) + 1 = (n - j) + 1
    BY <2>1, <1>6, <1>1, <1>3 DEF IsInjective
  <2> QED BY <2>2, <1>1
<1> QED BY <1>4, <1>5, <1>6 DEF a

-----------------------------------------------------------------------------
\* The units that the entries of S are charged.
Units(H, S) == UNION {{e} \X (1..Charge[H[e].key]) : e \in S}

\* A unit is one of those charged for an entry of S.
LEMMA UnitsMember ==
    ASSUME NEW H, NEW S, NEW u
    PROVE  u \in Units(H, S) <=> \E e \in S : u \in {e} \X (1..Charge[H[e].key])
  BY DEF Units

\* The charges of finitely many entries have a sum.
LEMMA UnitsFinite ==
    ASSUME NEW H, NEW S, IsFiniteSet(S), \A e \in S : Charge[H[e].key] \in Nat
    PROVE  /\ IsFiniteSet(Units(H, S))
           /\ SumCharge(H, S) = Cardinality(Units(H, S))
           /\ SumCharge(H, S) \in Nat
<1> DEFINE unit(e) == {e} \X (1..Charge[H[e].key])
           f == [e \in S |-> unit(e)]
           F == {unit(e) : e \in S}
<1>1. \A e \in S : IsFiniteSet(unit(e))
  <2> SUFFICES ASSUME NEW e \in S PROVE IsFiniteSet(unit(e))
    OBVIOUS
  <2>1. IsFiniteSet({e})
    BY FS_Singleton
  <2>2. IsFiniteSet(1..Charge[H[e].key])
    <3> DEFINE n == Charge[H[e].key]
    <3>1. n \in Int /\ 1 \in Int
      OBVIOUS
    <3> HIDE DEF n
    <3>2. IsFiniteSet(1..n)
      BY <3>1, FS_Interval
    <3> QED BY <3>2 DEF n
  <2> QED BY <2>1, <2>2, FS_Product
<1> HIDE DEF unit
<1>2. f \in Surjection(S, F)
    BY DEF Surjection
<1>3. IsFiniteSet(F)
  <2> HIDE DEF f, F
  <2> QED BY <1>2, FS_Surjection
<1>4. IsFiniteSet(UNION F)
  <2>1. \A x \in F : IsFiniteSet(x)
    BY <1>1
  <2> HIDE DEF F
  <2> QED BY <1>3, <2>1, FS_UNION
<1>5. UNION F = Units(H, S)
    BY DEF Units, unit
<1>6. SumCharge(H, S) = Cardinality(Units(H, S))
    BY DEF SumCharge, Units
<1> QED BY <1>4, <1>5, <1>6, FS_CardinalityType

\* The sum over two sets of entries without a common one.
LEMMA SumSplit ==
    ASSUME NEW H, NEW S, NEW T, IsFiniteSet(S), IsFiniteSet(T), S \cap T = {},
           \A e \in S \union T : Charge[H[e].key] \in Nat
    PROVE  SumCharge(H, S \union T) = SumCharge(H, S) + SumCharge(H, T)
<1>1. IsFiniteSet(S \union T)
    BY FS_Union
<1>2. /\ IsFiniteSet(Units(H, S)) /\ IsFiniteSet(Units(H, T))
      /\ SumCharge(H, S) = Cardinality(Units(H, S))
      /\ SumCharge(H, T) = Cardinality(Units(H, T))
      /\ SumCharge(H, S \union T) = Cardinality(Units(H, S \union T))
      /\ SumCharge(H, S) \in Nat /\ SumCharge(H, T) \in Nat
    BY <1>1, UnitsFinite
<1>3. Units(H, S \union T) = Units(H, S) \union Units(H, T)
    BY DEF Units
<1>4. Units(H, S) \cap Units(H, T) = {}
  <2> SUFFICES ASSUME NEW u \in Units(H, S), u \in Units(H, T) PROVE FALSE
    OBVIOUS
  <2>1. PICK e \in S : u \in {e} \X (1..Charge[H[e].key])
    BY UnitsMember
  <2>2. PICK d \in T : u \in {d} \X (1..Charge[H[d].key])
    BY UnitsMember
  <2>3. u[1] = e /\ u[1] = d
    BY <2>1, <2>2
  <2> QED BY <2>3
<1>5. Cardinality(Units(H, S) \union Units(H, T))
        = Cardinality(Units(H, S)) + Cardinality(Units(H, T))
                                   - Cardinality(Units(H, S) \cap Units(H, T))
    BY <1>2, FS_Union
<1>6. Cardinality(Units(H, S) \cap Units(H, T)) = 0
    BY <1>4, FS_EmptySet
<1> DEFINE a == Cardinality(Units(H, S))
           b == Cardinality(Units(H, T))
           u == SumCharge(H, S \union T)
           x == Cardinality(Units(H, S) \cap Units(H, T))
<1>7. u = a + b - x
    BY <1>2, <1>3, <1>5, Zenon
<1>8. a = SumCharge(H, S) /\ b = SumCharge(H, T) /\ a \in Nat /\ b \in Nat /\ x = 0
    BY <1>2, <1>6
<1> HIDE DEF a, b, u, x
<1>9. u = a + b
    BY <1>7, <1>8
<1> QED BY <1>8, <1>9 DEF u

\* The sum over one entry is its charge.
LEMMA SumOne ==
    ASSUME NEW H, NEW e, Charge[H[e].key] \in Nat
    PROVE  SumCharge(H, {e}) = Charge[H[e].key]
<1> DEFINE n == Charge[H[e].key]
<1>1. SumCharge(H, {e}) = Cardinality({e} \X (1..n))
  <2>1. UNION {{x} \X (1..Charge[H[x].key]) : x \in {e}} = {e} \X (1..n)
    OBVIOUS
  <2> QED BY <2>1 DEF SumCharge
<1>2. IsFiniteSet({e}) /\ Cardinality({e}) = 1
    BY FS_Singleton
<1>3. IsFiniteSet(1..n) /\ Cardinality(1..n) = n
  <2>1. n \in Nat /\ 1 \in Int
    OBVIOUS
  <2> HIDE DEF n
  <2>2. Cardinality(1..n) = (IF 1 > n THEN 0 ELSE n - 1 + 1) /\ IsFiniteSet(1..n)
    BY <2>1, FS_Interval
  <2> QED BY <2>1, <2>2
<1>4. Cardinality({e} \X (1..n)) = 1 * n
    BY <1>2, <1>3, FS_Product
<1> QED BY <1>1, <1>4

\* The sum only depends on the keys of the entries.
LEMMA SumSame ==
    ASSUME NEW H, NEW G, NEW S, \A e \in S : H[e].key = G[e].key
    PROVE  SumCharge(H, S) = SumCharge(G, S)
<1>1. UNION {{e} \X (1..Charge[H[e].key]) : e \in S} = UNION {{e} \X (1..Charge[G[e].key]) : e \in S}
  <2>1. Units(H, S) = Units(G, S)
    <3>1. \A u : u \in Units(H, S) <=> u \in Units(G, S)
      BY UnitsMember
    <3> QED BY <3>1
  <2> QED BY <2>1 DEF Units
<1> QED BY <1>1 DEF SumCharge

-----------------------------------------------------------------------------
(***************************************************************************)
(* What holds of the cache between two operations, for handles H, threads  *)
(* P (pc, or what it becomes), and the parts of the cache.                 *)
(***************************************************************************)

UsersIn(P, e) == {t \in Thread : P[t].handle = e}
Cached(H) == {e \in DOMAIN H : H[e].in_cache}
OneIf(b) == IF b THEN 1 ELSE 0

Handles(H) ==
    /\ IsFiniteSet(DOMAIN H) /\ DOMAIN H \subseteq Nat
    /\ H = [e \in DOMAIN H |-> H[e]]
    /\ \A e \in DOMAIN H : H[e] \in [key : File, kind : Kind, refs : Nat, in_cache : BOOLEAN]

\* An entry has one reference per user, one of the cache, and at least one.
Counted(H, P) ==
    \A e \in DOMAIN H : /\ H[e].refs = Cardinality(UsersIn(P, e)) + OneIf(H[e].in_cache)
                        /\ H[e].in_cache \/ UsersIn(P, e) # {}

\* Whoever has a handle has one that is not deleted.
Held(H, P) == \A t \in Thread : P[t].handle # None => P[t].handle \in DOMAIN H

Lists(H, P, lru, used) ==
    /\ lru \in Seq(DOMAIN H) /\ IsInjective(lru)
    /\ ToSet(lru) = {e \in Cached(H) : UsersIn(P, e) = {}}
    /\ used = {e \in Cached(H) : UsersIn(P, e) # {}}

\* The table has the cached entries, each once and in the bucket of its key,
\* and no two with the same key.
Table(H, list) ==
    /\ Length(list) \in Nat \ {0} /\ DOMAIN list = 0..(Length(list) - 1)
    /\ list = [b \in DOMAIN list |-> list[b]]
    /\ \A b \in DOMAIN list :
          /\ list[b] \in Seq(DOMAIN H) /\ IsInjective(list[b])
          /\ ToSet(list[b]) = {e \in Cached(H) : Bucket(list, H[e].key) = b}
    /\ \A e, d \in Cached(H) : H[e].key = H[d].key => e = d

Body(H, lru, used, usage, P) ==
    /\ Handles(H) /\ Counted(H, P) /\ Held(H, P) /\ Lists(H, P, lru, used)
    /\ usage = SumCharge(H, Cached(H))

Fields == {"H", "lru", "used", "list", "elems", "usage"}

CacheOK(c, P) ==
    /\ c = [f \in Fields |-> c[f]]
    /\ Body(c.H, c.lru, c.used, c.usage, P)
    /\ Table(c.H, c.list)
    /\ c.elems = Cardinality(Cached(c.H))

\* G has the files that H has for the entries of both.
SameFiles(H, G) ==
    \A e \in DOMAIN H \cap DOMAIN G : G[e].key = H[e].key /\ G[e].kind = H[e].kind

-----------------------------------------------------------------------------
\* The fields of an entry, and the hash and the charge of its key.
LEMMA HandleFields ==
    ASSUME NEW H, Handles(H), NEW e \in DOMAIN H
    PROVE  /\ H[e].key \in File /\ H[e].kind \in Kind /\ H[e].refs \in Nat
           /\ H[e].in_cache \in BOOLEAN
           /\ Charge[H[e].key] \in Nat /\ Charge[H[e].key] # 0 /\ Hash[H[e].key] \in Nat
<1>1. H[e] \in [key : File, kind : Kind, refs : Nat, in_cache : BOOLEAN]
    BY DEF Handles
<1>2. H[e].key \in File /\ H[e].kind \in Kind /\ H[e].refs \in Nat /\ H[e].in_cache \in BOOLEAN
    BY <1>1
<1> QED BY <1>2, CacheAssumption

\* There are finitely many entries, and their charges have a sum.
LEMMA CachedFinite ==
    ASSUME NEW H, Handles(H), NEW S, S \subseteq DOMAIN H
    PROVE  /\ IsFiniteSet(S) /\ Cardinality(S) \in Nat
           /\ IsFiniteSet(Cached(H)) /\ Cardinality(Cached(H)) \in Nat
           /\ SumCharge(H, S) \in Nat
<1>1. IsFiniteSet(DOMAIN H) /\ Cached(H) \subseteq DOMAIN H
    BY DEF Handles, Cached
<1>2. IsFiniteSet(S) /\ IsFiniteSet(Cached(H))
    BY <1>1, FS_Subset
<1>3. \A e \in S : Charge[H[e].key] \in Nat
    BY HandleFields
<1> QED BY <1>2, <1>3, FS_CardinalityType, UnitsFinite

\* An entry has finitely many users, at most all threads.
LEMMA UsersFinite ==
    ASSUME NEW P, NEW e
    PROVE  /\ IsFiniteSet(UsersIn(P, e)) /\ Cardinality(UsersIn(P, e)) \in Nat
           /\ Cardinality(UsersIn(P, e)) <= Cardinality(Thread)
           /\ Cardinality(UsersIn(P, e)) = 0 <=> UsersIn(P, e) = {}
<1>1. UsersIn(P, e) \in SUBSET Thread /\ IsFiniteSet(Thread)
    BY CacheAssumption DEF UsersIn
<1>2. IsFiniteSet(UsersIn(P, e)) /\ Cardinality(UsersIn(P, e)) <= Cardinality(Thread)
    BY <1>1, FS_Subset
<1> QED BY <1>2, FS_CardinalityType, FS_EmptySet

\* What a lookup finds: the cached entry of the key, or nothing.
LEMMA FindOK ==
    ASSUME NEW H, NEW list, Handles(H), Table(H, list), NEW k \in File,
           NEW i, i = FindPointer(H, list, k)
    PROVE  /\ Bucket(list, k) \in DOMAIN list
           /\ \/ /\ i = 0 /\ Find(H, list, k) = None
                 /\ \A e \in Cached(H) : H[e].key # k
              \/ /\ i \in 1..Len(list[Bucket(list, k)])
                 /\ Find(H, list, k) = list[Bucket(list, k)][i]
                 /\ Find(H, list, k) \in Cached(H)
                 /\ H[Find(H, list, k)].key = k
<1> DEFINE b == Bucket(list, k)
           s == list[b]
           I == {j \in 1..Len(s) : H[s[j]].key = k}
<1>1. b \in DOMAIN list
  <2>1. Hash[k] \in Nat /\ Length(list) \in Nat /\ Length(list) # 0
    BY CacheAssumption DEF Table
  <2>2. Hash[k] % Length(list) \in 0..(Length(list) - 1)
    BY <2>1
  <2> QED BY <2>2 DEF Table, Bucket
<1>2. s \in Seq(DOMAIN H) /\ ToSet(s) = {e \in Cached(H) : Bucket(list, H[e].key) = b}
    BY <1>1 DEF Table
<1>3. i = (IF I # {} THEN Min(I) ELSE 0)
    BY DEF FindPointer, SelectInSeq
<1>4. Find(H, list, k) = (IF i = 0 THEN None ELSE s[i])
    BY DEF Find
<1>5. DOMAIN s = 1..Len(s)
    BY <1>2
<1> HIDE DEF b, s
<1>6. CASE I = {}
  <2>1. ASSUME NEW e \in Cached(H), H[e].key = k PROVE FALSE
    <3>1. e \in ToSet(s)
      BY <1>2, <2>1 DEF b
    <3>2. PICK j \in 1..Len(s) : e = s[j]
      BY <3>1, <1>5 DEF ToSet
    <3> QED BY <3>2, <2>1, <1>6
  <2> QED BY <2>1, <1>1, <1>3, <1>4, <1>6 DEF b
<1>7. CASE I # {}
  <2>1. I \in SUBSET Nat
    OBVIOUS
  <2>2. \E m \in I : \A x \in I : m <= x
    <3> HIDE DEF I
    <3> QED BY <2>1, <1>7, LeastNat
  <2>3. Min(I) \in I
    <3> HIDE DEF I
    <3> QED BY <2>2 DEF Min
  <2>4. i \in I
    BY <2>3, <1>3, <1>7
  <2>5. i \in 1..Len(s) /\ H[s[i]].key = k /\ i # 0
    BY <2>4
  <2>6. s[i] \in ToSet(s)
    BY <2>5, <1>5 DEF ToSet
  <2>7. s[i] \in Cached(H)
    BY <2>6, <1>2
  <2> QED BY <2>5, <2>7, <1>1, <1>4 DEF b, s
<1> QED BY <1>6, <1>7

\* A cached entry is found by its key.
LEMMA FindsCached ==
    ASSUME NEW H, NEW list, Handles(H), Table(H, list), NEW e \in Cached(H)
    PROVE  Find(H, list, H[e].key) = e
<1>1. e \in DOMAIN H /\ H[e].key \in File
    BY HandleFields DEF Cached
<1>2. /\ Find(H, list, H[e].key) \in Cached(H)
      /\ H[Find(H, list, H[e].key)].key = H[e].key
    BY <1>1, FindOK
<1> QED BY <1>2 DEF Table

-----------------------------------------------------------------------------
(***************************************************************************)
(* FinishErase and Erase of a set S of cached entries.                     *)
(***************************************************************************)

Erased(h) == [h EXCEPT !.refs = @ - 1, !.in_cache = FALSE]
ErasedFrom(H, S) ==
    [e \in DOMAIN H \ {x \in S : H[x].refs = 1} |-> IF e \in S THEN Erased(H[e]) ELSE H[e]]

\* Erased entries lose one reference: those with a user stay, uncached, the
\* others are deleted.
LEMMA EraseHandles ==
    ASSUME NEW H, NEW P, NEW S, Handles(H), Counted(H, P), S \subseteq Cached(H),
           NEW G, G = ErasedFrom(H, S)
    PROVE  /\ Handles(G) /\ Counted(G, P)
           /\ DOMAIN G \subseteq DOMAIN H /\ SameFiles(H, G)
           /\ Cached(G) = Cached(H) \ S
           /\ \A e \in DOMAIN H \ S : e \in DOMAIN G
           /\ \A e \in S : e \in DOMAIN G <=> UsersIn(P, e) # {}
<1> DEFINE last == {x \in S : H[x].refs = 1}
<1>1. DOMAIN G = DOMAIN H \ last /\ G = [e \in DOMAIN G |-> G[e]]
    BY DEF ErasedFrom
<1>2. \A e \in DOMAIN G \cap S : G[e] = Erased(H[e])
    BY DEF ErasedFrom
<1>3. \A e \in DOMAIN G \ S : G[e] = H[e]
    BY DEF ErasedFrom
<1>4. ASSUME NEW e \in S
      PROVE  /\ e \in DOMAIN H /\ H[e].in_cache
             /\ H[e].refs = Cardinality(UsersIn(P, e)) + 1
             /\ e \in DOMAIN G <=> UsersIn(P, e) # {}
  <2>1. e \in DOMAIN H /\ H[e].in_cache
    BY DEF Cached
  <2>2. H[e].refs = Cardinality(UsersIn(P, e)) + 1
    BY <2>1 DEF Counted, OneIf
  <2>3. Cardinality(UsersIn(P, e)) \in Nat /\ (Cardinality(UsersIn(P, e)) = 0 <=> UsersIn(P, e) = {})
    BY UsersFinite
  <2>4. H[e].refs = 1 <=> UsersIn(P, e) = {}
    BY <2>2, <2>3
  <2>5. e \in last <=> UsersIn(P, e) = {}
    BY <2>4
  <2> QED BY <2>1, <2>2, <2>5, <1>1
<1>5. ASSUME NEW e \in DOMAIN G \cap S
      PROVE  /\ G[e] \in [key : File, kind : Kind, refs : Nat, in_cache : BOOLEAN]
             /\ G[e].key = H[e].key /\ G[e].kind = H[e].kind
             /\ G[e].refs = Cardinality(UsersIn(P, e)) /\ G[e].in_cache = FALSE
  <2>1. H[e] \in [key : File, kind : Kind, refs : Nat, in_cache : BOOLEAN]
    BY <1>4 DEF Handles
  <2>2. G[e] = [H[e] EXCEPT !.refs = @ - 1, !.in_cache = FALSE]
    <3>1. G[e] = Erased(H[e])
      BY <1>2
    <3> QED BY <3>1, Zenon DEF Erased
  <2>3. H[e].refs = Cardinality(UsersIn(P, e)) + 1 /\ Cardinality(UsersIn(P, e)) \in Nat
    BY <1>4, UsersFinite
  <2>4. H[e].refs - 1 = Cardinality(UsersIn(P, e))
    BY <2>3
  <2> QED BY <2>1, <2>2, <2>3, <2>4
<1> HIDE DEF last
<1>6. Handles(G)
  <2>1. IsFiniteSet(DOMAIN H) /\ DOMAIN G \subseteq DOMAIN H
    BY <1>1 DEF Handles
  <2>2. IsFiniteSet(DOMAIN G)
    BY <2>1, FS_Subset
  <2>3. \A e \in DOMAIN G : G[e] \in [key : File, kind : Kind, refs : Nat, in_cache : BOOLEAN]
    BY <1>3, <1>5, <2>1 DEF Handles
  <2> QED BY <2>1, <2>2, <2>3, <1>1 DEF Handles
<1>7. Counted(G, P)
  <2> SUFFICES ASSUME NEW e \in DOMAIN G
               PROVE  /\ G[e].refs = Cardinality(UsersIn(P, e)) + OneIf(G[e].in_cache)
                      /\ G[e].in_cache \/ UsersIn(P, e) # {}
    BY DEF Counted
  <2>1. CASE e \in S
    <3>1. G[e].refs = Cardinality(UsersIn(P, e)) /\ G[e].in_cache = FALSE
      BY <1>5, <2>1
    <3>2. Cardinality(UsersIn(P, e)) \in Nat /\ UsersIn(P, e) # {}
      BY UsersFinite, <1>4, <2>1
    <3> QED BY <3>1, <3>2 DEF OneIf
  <2>2. CASE e \notin S
    <3>1. G[e] = H[e] /\ e \in DOMAIN H
      BY <1>1, <1>3, <2>2
    <3> QED BY <3>1 DEF Counted
  <2> QED BY <2>1, <2>2
<1>8. SameFiles(H, G)
    BY <1>3, <1>5 DEF SameFiles
<1>9. Cached(G) = Cached(H) \ S
  <2>1. \A e \in S : e \notin Cached(G)
    BY <1>5 DEF Cached
  <2>2. \A e \in DOMAIN H \ S : e \in DOMAIN G
    BY <1>1 DEF last
  <2>3. \A e \in DOMAIN H \ S : e \in Cached(G) <=> e \in Cached(H)
    BY <2>2, <1>3 DEF Cached
  <2>4. Cached(G) \subseteq DOMAIN H /\ Cached(H) \subseteq DOMAIN H
    BY <1>1 DEF Cached
  <2> QED BY <2>1, <2>3, <2>4
<1>10. \A e \in DOMAIN H \ S : e \in DOMAIN G
    BY <1>1 DEF last
<1> QED BY <1>1, <1>4, <1>6, <1>7, <1>8, <1>9, <1>10

\* The lists and usage_ after the erasure.
LEMMA EraseBody ==
    ASSUME NEW H, NEW P, NEW lru, NEW used, NEW usage, NEW S,
           Body(H, lru, used, usage, P), S \subseteq Cached(H),
           NEW G, G = ErasedFrom(H, S)
    PROVE  Body(G, Only(lru, DOMAIN H \ S), used \ S, usage - SumCharge(H, S), P)
<1>1. /\ Handles(H) /\ Counted(H, P) /\ Held(H, P) /\ Lists(H, P, lru, used)
      /\ usage = SumCharge(H, Cached(H))
    BY DEF Body
<1>2. /\ Handles(G) /\ Counted(G, P)
      /\ DOMAIN G \subseteq DOMAIN H /\ SameFiles(H, G)
      /\ Cached(G) = Cached(H) \ S
      /\ \A e \in DOMAIN H \ S : e \in DOMAIN G
      /\ \A e \in S : e \in DOMAIN G <=> UsersIn(P, e) # {}
    BY <1>1, EraseHandles
<1>3. Held(G, P)
  <2> SUFFICES ASSUME NEW t \in Thread, P[t].handle # None PROVE P[t].handle \in DOMAIN G
    BY DEF Held
  <2>1. P[t].handle \in DOMAIN H
    BY <1>1 DEF Held
  <2>2. UsersIn(P, P[t].handle) # {}
    BY DEF UsersIn
  <2> QED BY <2>1, <2>2, <1>2
<1> DEFINE s == Only(lru, DOMAIN H \ S)
<1>4. Lists(G, P, s, used \ S)
  <2>1. lru \in Seq(DOMAIN H) /\ IsInjective(lru)
    BY <1>1 DEF Lists
  <2>2. s \in Seq(DOMAIN H) /\ ToSet(s) = ToSet(lru) \cap (DOMAIN H \ S) /\ IsInjective(s)
    BY <2>1, OnlyFacts
  <2> HIDE DEF s
  <2>3. Cached(H) \subseteq DOMAIN H /\ Cached(G) \subseteq DOMAIN G
    BY DEF Cached
  <2>4. ToSet(s) = {e \in Cached(G) : UsersIn(P, e) = {}}
    BY <2>2, <2>3, <1>1, <1>2 DEF Lists
  <2>5. s \in Seq(DOMAIN G)
    BY <2>2, <2>3, <2>4, SeqOver
  <2>6. used \ S = {e \in Cached(G) : UsersIn(P, e) # {}}
    BY <1>1, <1>2 DEF Lists
  <2> QED BY <2>2, <2>4, <2>5, <2>6 DEF Lists
<1>5. usage - SumCharge(H, S) = SumCharge(G, Cached(G))
  <2> DEFINE R == Cached(H) \ S
  <2>1. Cached(H) \subseteq DOMAIN H
    BY DEF Cached
  <2>2. /\ IsFiniteSet(S) /\ IsFiniteSet(R) /\ R \cap S = {} /\ R \union S = Cached(H)
        /\ SumCharge(H, S) \in Nat /\ SumCharge(H, R) \in Nat
    BY <2>1, <1>1, CachedFinite
  <2>3. \A e \in R \union S : Charge[H[e].key] \in Nat
    BY <2>1, <1>1, HandleFields
  <2>4. SumCharge(H, R \union S) = SumCharge(H, R) + SumCharge(H, S)
    <3> HIDE DEF R
    <3> QED BY <2>2, <2>3, SumSplit
  <2>5. \A e \in R : H[e].key = G[e].key
    BY <1>2, <2>1 DEF SameFiles
  <2>6. SumCharge(H, R) = SumCharge(G, R)
    <3> HIDE DEF R
    <3> QED BY <2>5, SumSame
  <2>7. usage = SumCharge(G, R) + SumCharge(H, S) /\ SumCharge(G, R) \in Nat
    BY <1>1, <2>2, <2>4, <2>6
  <2>8. usage - SumCharge(H, S) = SumCharge(G, R)
    <3> DEFINE x == SumCharge(G, R)
               y == SumCharge(H, S)
    <3>1. usage = x + y /\ x \in Nat /\ y \in Nat
      BY <2>2, <2>7
    <3> HIDE DEF x, y
    <3>2. usage - y = x
      BY <3>1
    <3> QED BY <3>2 DEF x, y
  <2> QED BY <2>8, <1>2
<1> QED BY <1>2, <1>3, <1>4, <1>5 DEF Body

\* The hash table without the erased entries.
LEMMA EraseTable ==
    ASSUME NEW H, NEW S, NEW list, Handles(H), Table(H, list), S \subseteq Cached(H),
           NEW G, DOMAIN G \subseteq DOMAIN H, SameFiles(H, G), Cached(G) = Cached(H) \ S,
           NEW new, new = [b \in DOMAIN list |-> Only(list[b], DOMAIN H \ S)]
    PROVE  Table(G, new)
<1>1. DOMAIN new = DOMAIN list /\ Length(new) = Length(list)
    BY DEF Length
<1>2. \A k : Bucket(new, k) = Bucket(list, k)
    BY <1>1 DEF Bucket
<1>3. \A e \in Cached(G) : e \in DOMAIN H /\ e \in DOMAIN G /\ G[e].key = H[e].key
    BY DEF Cached, SameFiles
<1>4. ASSUME NEW b \in DOMAIN new
      PROVE  /\ new[b] \in Seq(DOMAIN G) /\ IsInjective(new[b])
             /\ ToSet(new[b]) = {e \in Cached(G) : Bucket(new, G[e].key) = b}
  <2>1. /\ b \in DOMAIN list /\ list[b] \in Seq(DOMAIN H) /\ IsInjective(list[b])
        /\ ToSet(list[b]) = {e \in Cached(H) : Bucket(list, H[e].key) = b}
    BY <1>1 DEF Table
  <2>2. new[b] = Only(list[b], DOMAIN H \ S)
    BY <2>1
  <2>3. /\ new[b] \in Seq(DOMAIN H) /\ ToSet(new[b]) = ToSet(list[b]) \cap (DOMAIN H \ S)
        /\ IsInjective(new[b])
    BY <2>1, <2>2, OnlyFacts
  <2>4. ToSet(new[b]) = {e \in Cached(G) : Bucket(list, H[e].key) = b}
    BY <2>1, <2>3, <1>3
  <2>5. ToSet(new[b]) = {e \in Cached(G) : Bucket(new, G[e].key) = b}
    BY <2>4, <1>2, <1>3
  <2>6. new[b] \in Seq(DOMAIN G)
    BY <2>3, <2>5, <1>3, SeqOver
  <2> QED BY <2>3, <2>5, <2>6
<1>5. \A e, d \in Cached(G) : G[e].key = G[d].key => e = d
    BY <1>3 DEF Table
<1>6. Length(new) \in Nat \ {0} /\ DOMAIN new = 0..(Length(new) - 1)
    BY <1>1 DEF Table
<1>7. new = [b \in DOMAIN new |-> new[b]]
    OBVIOUS
<1> HIDE DEF Length
<1> QED BY <1>4, <1>5, <1>6, <1>7 DEF Table

\* The number of elements left.
LEMMA CardMinus ==
    ASSUME NEW S, IsFiniteSet(S), NEW R, R \subseteq S
    PROVE  Cardinality(S \ R) = Cardinality(S) - Cardinality(R)
<1>1. Cardinality(S \ R) = Cardinality(S) - Cardinality(S \cap R)
    BY FS_Difference
<1>2. S \cap R = R
    OBVIOUS
<1> QED BY <1>1, <1>2

\* HandleTable::Remove and FinishErase together keep the cache in order.
LEMMA EraseOK ==
    ASSUME NEW c, NEW P, CacheOK(c, P), NEW S, S \subseteq Cached(c.H)
    PROVE  /\ CacheOK(Erase(c, S), P)
           /\ Erase(c, S).H = ErasedFrom(c.H, S)
<1> DEFINE H == c.H
           d == Erase(c, S)
           G == ErasedFrom(H, S)
           new == [b \in DOMAIN c.list |-> Only(c.list[b], DOMAIN H \ S)]
<1>1. c = [f \in Fields |-> c[f]]
    BY DEF CacheOK
<1>2. /\ d.H = G /\ d.lru = Only(c.lru, DOMAIN H \ S) /\ d.used = c.used \ S
      /\ d.list = new /\ d.elems = c.elems - Cardinality(S)
      /\ d.usage = c.usage - SumCharge(H, S)
      /\ d = [f \in Fields |-> d[f]]
    BY <1>1 DEF Erase, FinishErase, ErasedFrom, Erased, Fields
<1>3. Body(H, c.lru, c.used, c.usage, P) /\ Table(H, c.list) /\ c.elems = Cardinality(Cached(H))
    BY DEF CacheOK
<1>4. Handles(H) /\ Counted(H, P)
    BY <1>3 DEF Body
<1> HIDE DEF d, G, H
<1>5. Body(G, Only(c.lru, DOMAIN H \ S), c.used \ S, c.usage - SumCharge(H, S), P)
    BY <1>3, EraseBody DEF G, H
<1>6. DOMAIN G \subseteq DOMAIN H /\ SameFiles(H, G) /\ Cached(G) = Cached(H) \ S
  <2>1. S \subseteq Cached(H) /\ G = ErasedFrom(H, S)
    BY DEF G, H
  <2> QED BY <1>4, <2>1, EraseHandles
<1>7. Table(G, new)
  <2> HIDE DEF new
  <2>1. new = [b \in DOMAIN c.list |-> Only(c.list[b], DOMAIN H \ S)]
    BY DEF new
  <2>2. S \subseteq Cached(H)
    BY DEF H
  <2> QED BY <1>3, <1>4, <1>6, <2>1, <2>2, EraseTable
<1>8. c.elems - Cardinality(S) = Cardinality(Cached(G))
  <2>1. IsFiniteSet(Cached(H)) /\ S \subseteq Cached(H)
    BY <1>4, CachedFinite DEF H
  <2> QED BY <2>1, <1>3, <1>6, CardMinus
<1> QED BY <1>2, <1>5, <1>7, <1>8 DEF CacheOK, d, G, H

-----------------------------------------------------------------------------
(***************************************************************************)
(* A thread t gets or gives back a handle; the others keep theirs.         *)
(***************************************************************************)

Moves(P, Q, t) == t \in Thread /\ \A u \in Thread \ {t} : Q[u].handle = P[u].handle

\* t becomes a user of e.
LEMMA UsersJoin ==
    ASSUME NEW P, NEW Q, NEW t, Moves(P, Q, t), NEW e, P[t].handle # e, Q[t].handle = e
    PROVE  /\ UsersIn(Q, e) = UsersIn(P, e) \union {t}
           /\ Cardinality(UsersIn(Q, e)) = Cardinality(UsersIn(P, e)) + 1
<1>1. UsersIn(Q, e) = UsersIn(P, e) \union {t} /\ t \notin UsersIn(P, e)
    BY DEF UsersIn, Moves
<1>2. IsFiniteSet(UsersIn(P, e))
    BY UsersFinite
<1>3. Cardinality(UsersIn(P, e) \union {t}) = Cardinality(UsersIn(P, e)) + 1
    BY <1>1, <1>2, FS_AddElement
<1> QED BY <1>1, <1>3

\* t stops being a user of e.
LEMMA UsersLeave ==
    ASSUME NEW P, NEW Q, NEW t, Moves(P, Q, t), NEW e, P[t].handle = e, Q[t].handle # e
    PROVE  /\ UsersIn(Q, e) = UsersIn(P, e) \ {t} /\ t \in UsersIn(P, e)
           /\ Cardinality(UsersIn(P, e)) = Cardinality(UsersIn(Q, e)) + 1
<1>1. UsersIn(Q, e) = UsersIn(P, e) \ {t} /\ UsersIn(P, e) = UsersIn(Q, e) \union {t}
      /\ t \notin UsersIn(Q, e)
    BY DEF UsersIn, Moves
<1>2. IsFiniteSet(UsersIn(Q, e))
    BY UsersFinite
<1>3. Cardinality(UsersIn(Q, e) \union {t}) = Cardinality(UsersIn(Q, e)) + 1
    BY <1>1, <1>2, FS_AddElement
<1> QED BY <1>1, <1>3

\* The users of the other entries are those they were.
LEMMA UsersOthers ==
    ASSUME NEW P, NEW Q, NEW t, Moves(P, Q, t), NEW x, P[t].handle # x, Q[t].handle # x
    PROVE  UsersIn(Q, x) = UsersIn(P, x)
  BY DEF UsersIn, Moves

\* The table only looks at the cached entries and their keys.
LEMMA TableSame ==
    ASSUME NEW H, NEW G, NEW list, Table(H, list), Cached(G) = Cached(H),
           \A e \in Cached(H) : G[e].key = H[e].key
    PROVE  Table(G, list)
<1>1. \A b \in DOMAIN list :
         /\ list[b] \in Seq(DOMAIN H) /\ IsInjective(list[b])
         /\ ToSet(list[b]) = {e \in Cached(H) : Bucket(list, H[e].key) = b}
    BY DEF Table
<1>2. ASSUME NEW b \in DOMAIN list
      PROVE  /\ list[b] \in Seq(DOMAIN G) /\ IsInjective(list[b])
             /\ ToSet(list[b]) = {e \in Cached(G) : Bucket(list, G[e].key) = b}
  <2>1. ToSet(list[b]) = {e \in Cached(G) : Bucket(list, G[e].key) = b}
    BY <1>1
  <2>2. ToSet(list[b]) \subseteq DOMAIN G
    BY <2>1 DEF Cached
  <2>3. list[b] \in Seq(DOMAIN G)
    BY <1>1, <2>2, SeqOver
  <2> QED BY <1>1, <2>1, <2>3
<1>3. \A e, d \in Cached(G) : G[e].key = G[d].key => e = d
    BY DEF Table
<1>4. /\ Length(list) \in Nat \ {0} /\ DOMAIN list = 0..(Length(list) - 1)
      /\ list = [b \in DOMAIN list |-> list[b]]
    BY DEF Table
<1> QED BY <1>2, <1>3, <1>4 DEF Table

\* G is H but for the references of e, now n.
Rerefs(H, G, e, n) ==
    /\ DOMAIN G = DOMAIN H /\ G = [x \in DOMAIN G |-> G[x]]
    /\ \A x \in DOMAIN H : x # e => G[x] = H[x]
    /\ G[e].key = H[e].key /\ G[e].kind = H[e].kind /\ G[e].in_cache = H[e].in_cache
    /\ G[e].refs = n /\ n \in Nat
    /\ G[e] \in [key : File, kind : Kind, refs : Nat, in_cache : BOOLEAN]

\* An assignment to refs.
LEMMA RerefsOf ==
    ASSUME NEW H, Handles(H), NEW e \in DOMAIN H, NEW n \in Nat,
           NEW G, G = [H EXCEPT ![e].refs = n]
    PROVE  Rerefs(H, G, e, n)
<1>1. H[e] \in [key : File, kind : Kind, refs : Nat, in_cache : BOOLEAN] /\ H = [x \in DOMAIN H |-> H[x]]
    BY DEF Handles
<1>2. DOMAIN G = DOMAIN H /\ G = [x \in DOMAIN G |-> G[x]] /\ \A x \in DOMAIN H : x # e => G[x] = H[x]
    BY <1>1
<1>3. G[e] = [H[e] EXCEPT !.refs = n]
    BY <1>1
<1>4. /\ G[e].key = H[e].key /\ G[e].kind = H[e].kind /\ G[e].in_cache = H[e].in_cache
      /\ G[e].refs = n
      /\ G[e] \in [key : File, kind : Kind, refs : Nat, in_cache : BOOLEAN]
    BY <1>1, <1>3
<1> QED BY <1>2, <1>4 DEF Rerefs

\* It does not change what is cached, nor the sum of the charges.
LEMMA RerefsFacts ==
    ASSUME NEW H, NEW G, NEW e \in DOMAIN H, NEW n, Handles(H), Rerefs(H, G, e, n)
    PROVE  /\ Handles(G) /\ DOMAIN G = DOMAIN H /\ SameFiles(H, G)
           /\ Cached(G) = Cached(H) /\ \A x \in Cached(H) : G[x].key = H[x].key
           /\ SumCharge(G, Cached(G)) = SumCharge(H, Cached(H))
<1>1. \A x \in DOMAIN H : /\ G[x].key = H[x].key /\ G[x].kind = H[x].kind
                          /\ G[x].in_cache = H[x].in_cache
    BY DEF Rerefs
<1>2. DOMAIN G = DOMAIN H
    BY DEF Rerefs
<1>3. Handles(G)
    BY DEF Handles, Rerefs
<1>4. SameFiles(H, G)
    BY <1>1 DEF SameFiles
<1>5. Cached(G) = Cached(H)
    BY <1>1, <1>2 DEF Cached
<1>6. \A x \in Cached(H) : G[x].key = H[x].key
    BY <1>1 DEF Cached
<1>7. SumCharge(G, Cached(H)) = SumCharge(H, Cached(H))
    BY <1>6, SumSame
<1> QED BY <1>2, <1>3, <1>4, <1>5, <1>6, <1>7

-----------------------------------------------------------------------------
\* LRUCache::Ref, for a thread that had no handle.
LEMMA RefOK ==
    ASSUME NEW c, NEW P, NEW Q, NEW t, CacheOK(c, P), Moves(P, Q, t),
           NEW e, e \in Cached(c.H), P[t].handle = None, Q[t].handle = e
    PROVE  CacheOK(Ref(c, e), Q) /\ SameFiles(c.H, Ref(c, e).H) /\ DOMAIN Ref(c, e).H = DOMAIN c.H
<1> DEFINE H == c.H
           d == Ref(c, e)
           G == d.H
           n == Cardinality(UsersIn(P, e))
<1>1. /\ c = [f \in Fields |-> c[f]] /\ Table(H, c.list) /\ c.elems = Cardinality(Cached(H))
      /\ Handles(H) /\ Counted(H, P) /\ Held(H, P) /\ Lists(H, P, c.lru, c.used)
      /\ c.usage = SumCharge(H, Cached(H))
    BY DEF CacheOK, Body
<1>2. e \in DOMAIN H /\ H[e].in_cache /\ e # None /\ H[e].refs \in Nat
  <2>1. e \in DOMAIN H /\ H[e].in_cache /\ H[e].refs \in Nat
    BY <1>1, HandleFields DEF Cached
  <2> QED BY <2>1, <1>1, CacheAssumption DEF Handles
<1>3. n \in Nat /\ (n = 0 <=> UsersIn(P, e) = {}) /\ H[e].refs = n + 1
    BY <1>1, <1>2, UsersFinite DEF Counted, OneIf
<1>4. /\ G = [H EXCEPT ![e].refs = n + 2]
      /\ d.lru = IF n = 0 THEN Only(c.lru, DOMAIN H \ {e}) ELSE c.lru
      /\ d.used = IF n = 0 THEN c.used \union {e} ELSE c.used
      /\ d.list = c.list /\ d.elems = c.elems /\ d.usage = c.usage
      /\ d = [f \in Fields |-> d[f]]
  <2>1. H[e].refs + 1 = n + 2 /\ (H[e].refs = 1 /\ H[e].in_cache <=> n = 0)
    BY <1>2, <1>3
  <2> QED BY <1>1, <2>1 DEF Ref, Fields
<1> HIDE DEF n, d, H
<1>5. Rerefs(H, G, e, n + 2)
  <2>1. n + 2 \in Nat
    BY <1>3
  <2> HIDE DEF G
  <2> QED BY <1>1, <1>2, <1>4, <2>1, RerefsOf
<1>6. /\ Handles(G) /\ DOMAIN G = DOMAIN H /\ SameFiles(H, G)
      /\ Cached(G) = Cached(H) /\ \A x \in Cached(H) : G[x].key = H[x].key
      /\ SumCharge(G, Cached(G)) = SumCharge(H, Cached(H))
    BY <1>1, <1>2, <1>5, RerefsFacts
<1>7. /\ UsersIn(Q, e) = UsersIn(P, e) \union {t}
      /\ Cardinality(UsersIn(Q, e)) = n + 1
      /\ \A x \in DOMAIN H : x # e => UsersIn(Q, x) = UsersIn(P, x)
  <2>1. \A x \in DOMAIN H : x # None
    BY <1>1, CacheAssumption DEF Handles
  <2> QED BY <1>2, <2>1, UsersJoin, UsersOthers DEF n
<1>8. Counted(G, Q)
  <2>1. ASSUME NEW x \in DOMAIN G, x # e
        PROVE  /\ G[x].refs = Cardinality(UsersIn(Q, x)) + OneIf(G[x].in_cache)
               /\ G[x].in_cache \/ UsersIn(Q, x) # {}
    BY <2>1, <1>1, <1>5, <1>6, <1>7 DEF Counted, Rerefs
  <2>2. G[e].refs = n + 2 /\ G[e].in_cache
    BY <1>5, <1>2 DEF Rerefs
  <2>3. G[e].refs = Cardinality(UsersIn(Q, e)) + OneIf(G[e].in_cache)
    BY <2>2, <1>3, <1>7 DEF OneIf
  <2> QED BY <2>1, <2>2, <2>3 DEF Counted
<1>9. Held(G, Q)
    BY <1>1, <1>2, <1>6 DEF Held, Moves
<1>10. Lists(G, Q, d.lru, d.used)
  <2>1. /\ c.lru \in Seq(DOMAIN H) /\ IsInjective(c.lru)
        /\ ToSet(c.lru) = {x \in Cached(H) : UsersIn(P, x) = {}}
        /\ c.used = {x \in Cached(H) : UsersIn(P, x) # {}}
    BY <1>1 DEF Lists
  <2>2. Cached(H) \subseteq DOMAIN H
    BY DEF Cached
  <2>3. UsersIn(Q, e) # {} /\ e \in Cached(H)
    BY <1>7 DEF H
  <2>4. CASE n = 0
    <3> DEFINE s == Only(c.lru, DOMAIN H \ {e})
    <3>1. s \in Seq(DOMAIN H) /\ ToSet(s) = ToSet(c.lru) \cap (DOMAIN H \ {e}) /\ IsInjective(s)
      BY <2>1, OnlyFacts
    <3> HIDE DEF s
    <3>2. d.lru = s /\ d.used = c.used \union {e}
      BY <1>4, <2>4 DEF s
    <3>3. ToSet(s) = {x \in Cached(G) : UsersIn(Q, x) = {}}
      BY <3>1, <2>1, <2>2, <2>3, <1>6, <1>7
    <3>4. c.used \union {e} = {x \in Cached(G) : UsersIn(Q, x) # {}}
      BY <2>1, <2>2, <2>3, <1>6, <1>7
    <3> QED BY <3>1, <3>2, <3>3, <3>4, <1>6 DEF Lists
  <2>5. CASE n # 0
    <3>1. UsersIn(P, e) # {}
      BY <2>5, <1>3
    <3>2. ToSet(c.lru) = {x \in Cached(G) : UsersIn(Q, x) = {}}
      BY <3>1, <2>1, <2>2, <2>3, <1>6, <1>7
    <3>3. c.used = {x \in Cached(G) : UsersIn(Q, x) # {}}
      BY <3>1, <2>1, <2>2, <2>3, <1>6, <1>7
    <3>4. d.lru = c.lru /\ d.used = c.used
      BY <1>4, <2>5
    <3> QED BY <3>2, <3>3, <3>4, <2>1, <1>6 DEF Lists
  <2> QED BY <2>4, <2>5
<1>11. Table(G, c.list)
    BY <1>1, <1>6, TableSame
<1>12. Body(G, d.lru, d.used, d.usage, Q)
    BY <1>1, <1>4, <1>6, <1>8, <1>9, <1>10 DEF Body
<1>13. d.elems = Cardinality(Cached(G))
    BY <1>1, <1>4, <1>6
<1>14. CacheOK(d, Q)
    BY <1>4, <1>11, <1>12, <1>13 DEF CacheOK
<1> QED BY <1>14, <1>6 DEF d, H

\* LRUCache::Unref, for a thread that gives its handle back: the last reference
\* deletes the entry, the one before moves it to lru_.
LEMMA UnrefOK ==
    ASSUME NEW c, NEW P, NEW Q, NEW t, CacheOK(c, P), Moves(P, Q, t),
           NEW e, e \in DOMAIN c.H, P[t].handle = e, Q[t].handle = None
    PROVE  /\ CacheOK(Unref(c, e), Q) /\ SameFiles(c.H, Unref(c, e).H)
           /\ DOMAIN Unref(c, e).H \subseteq DOMAIN c.H
<1> DEFINE H == c.H
           d == Unref(c, e)
           G == d.H
           n == Cardinality(UsersIn(Q, e))
<1>1. /\ c = [f \in Fields |-> c[f]] /\ Table(H, c.list) /\ c.elems = Cardinality(Cached(H))
      /\ Handles(H) /\ Counted(H, P) /\ Held(H, P) /\ Lists(H, P, c.lru, c.used)
      /\ c.usage = SumCharge(H, Cached(H))
    BY DEF CacheOK, Body
<1>2. e \in DOMAIN H /\ e # None /\ H[e].refs \in Nat /\ H[e].in_cache \in BOOLEAN
  <2>1. e \in DOMAIN H /\ H[e].refs \in Nat /\ H[e].in_cache \in BOOLEAN
    BY <1>1, HandleFields
  <2> QED BY <2>1, <1>1, CacheAssumption DEF Handles
<1>3. /\ UsersIn(Q, e) = UsersIn(P, e) \ {t} /\ t \in UsersIn(P, e)
      /\ Cardinality(UsersIn(P, e)) = n + 1
      /\ \A x \in DOMAIN H : x # e => UsersIn(Q, x) = UsersIn(P, x)
  <2>1. \A x \in DOMAIN H : x # None
    BY <1>1, CacheAssumption DEF Handles
  <2> QED BY <1>2, <2>1, UsersLeave, UsersOthers
<1>4. n \in Nat /\ (n = 0 <=> UsersIn(Q, e) = {})
    BY UsersFinite
<1>5. H[e].refs = n + 1 + OneIf(H[e].in_cache) /\ UsersIn(P, e) # {}
    BY <1>1, <1>2, <1>3 DEF Counted
<1>6. /\ c.lru \in Seq(DOMAIN H) /\ IsInjective(c.lru)
      /\ ToSet(c.lru) = {x \in Cached(H) : UsersIn(P, x) = {}}
      /\ c.used = {x \in Cached(H) : UsersIn(P, x) # {}}
    BY <1>1 DEF Lists
<1>7. Cached(H) \subseteq DOMAIN H
    BY DEF Cached
<1>8. Held(H, Q)
    BY <1>1 DEF Held, Moves
<1>9. CASE H[e].refs = 1
  <2>1. n = 0 /\ ~H[e].in_cache
    BY <1>9, <1>2, <1>4, <1>5 DEF OneIf
  <2>2. /\ G = [x \in DOMAIN H \ {e} |-> H[x]] /\ d.lru = c.lru /\ d.used = c.used
        /\ d.list = c.list /\ d.elems = c.elems /\ d.usage = c.usage
        /\ d = [f \in Fields |-> d[f]]
    BY <1>1, <1>9 DEF Unref, Fields
  <2> HIDE DEF n, d, H, G
  <2>3. DOMAIN G = DOMAIN H \ {e} /\ \A x \in DOMAIN H : x # e => G[x] = H[x]
    BY <2>2
  <2>4. Cached(G) = Cached(H) /\ e \notin Cached(H)
    BY <2>1, <2>3 DEF Cached
  <2>5. \A x \in Cached(H) : G[x].key = H[x].key
    BY <2>3, <2>4, <1>7
  <2>6. Handles(G)
    <3>1. IsFiniteSet(DOMAIN G)
      BY <1>1, <2>3, FS_Subset DEF Handles
    <3> QED BY <3>1, <2>2, <2>3, <1>1 DEF Handles
  <2>7. SameFiles(H, G)
    BY <2>3 DEF SameFiles
  <2>8. Counted(G, Q)
    BY <2>3, <1>1, <1>3 DEF Counted
  <2>9. Held(G, Q)
    <3> SUFFICES ASSUME NEW u \in Thread, Q[u].handle # None PROVE Q[u].handle \in DOMAIN G
      BY DEF Held
    <3>1. Q[u].handle \in DOMAIN H
      BY <1>8 DEF Held
    <3>2. Q[u].handle # e
      BY <2>1, <1>4 DEF UsersIn
    <3> QED BY <3>1, <3>2, <2>3
  <2>10. Lists(G, Q, c.lru, c.used)
    <3>1. ToSet(c.lru) = {x \in Cached(G) : UsersIn(Q, x) = {}}
      BY <1>6, <1>7, <1>3, <2>4
    <3>2. c.used = {x \in Cached(G) : UsersIn(Q, x) # {}}
      BY <1>6, <1>7, <1>3, <2>4
    <3>3. c.lru \in Seq(DOMAIN G)
      <4>1. ToSet(c.lru) \subseteq DOMAIN G
        BY <3>1 DEF Cached
      <4> QED BY <4>1, <1>6, SeqOver
    <3> QED BY <3>1, <3>2, <3>3, <1>6 DEF Lists
  <2>11. SumCharge(G, Cached(H)) = SumCharge(H, Cached(H))
    BY <2>5, SumSame
  <2>12. Table(G, c.list)
    BY <1>1, <2>4, <2>5, TableSame
  <2>13. Body(G, d.lru, d.used, d.usage, Q)
    BY <1>1, <2>2, <2>4, <2>6, <2>8, <2>9, <2>10, <2>11 DEF Body
  <2>14. CacheOK(d, Q)
    BY <2>2, <2>4, <2>12, <2>13, <1>1 DEF CacheOK, G
  <2> QED BY <2>14, <2>3, <2>7 DEF d, H, G
<1>10. CASE H[e].refs # 1
  <2> DEFINE r == H[e].refs - 1
  <2>0. r \in Nat /\ r = n + OneIf(H[e].in_cache)
    <3>1. OneIf(H[e].in_cache) \in {0, 1}
      BY DEF OneIf
    <3> QED BY <3>1, <1>4, <1>5
  <2>1. (H[e].in_cache /\ H[e].refs = 2) <=> (n = 0)
    BY <1>2, <1>4, <1>5, <1>10 DEF OneIf
  <2>2. /\ G = [H EXCEPT ![e].refs = r]
        /\ d.lru = IF n = 0 THEN Append(c.lru, e) ELSE c.lru
        /\ d.used = IF n = 0 THEN c.used \ {e} ELSE c.used
        /\ d.list = c.list /\ d.elems = c.elems /\ d.usage = c.usage
        /\ d = [f \in Fields |-> d[f]]
    <3>1. CASE n = 0
      <4>1. H[e].in_cache /\ H[e].refs = 2 /\ r = 1
        BY <3>1, <2>1
      <4> QED BY <3>1, <4>1, <1>1, <1>10 DEF Unref, Fields
    <3>2. CASE n # 0
      BY <3>2, <2>1, <1>1, <1>10 DEF Unref, Fields
    <3> QED BY <3>1, <3>2
  <2> HIDE DEF n, d, H, G, r
  <2>3. Rerefs(H, G, e, r)
    BY <2>0, <2>2, <1>1, <1>2, RerefsOf
  <2>4. /\ Handles(G) /\ DOMAIN G = DOMAIN H /\ SameFiles(H, G)
        /\ Cached(G) = Cached(H) /\ \A x \in Cached(H) : G[x].key = H[x].key
        /\ SumCharge(G, Cached(G)) = SumCharge(H, Cached(H))
    BY <2>3, <1>1, <1>2, RerefsFacts
  <2>5. n = 0 => e \in Cached(H)
    BY <2>1, <1>2 DEF Cached
  <2>6. Counted(G, Q)
    <3>1. ASSUME NEW x \in DOMAIN G, x # e
          PROVE  /\ G[x].refs = Cardinality(UsersIn(Q, x)) + OneIf(G[x].in_cache)
                 /\ G[x].in_cache \/ UsersIn(Q, x) # {}
      BY <3>1, <1>1, <1>3, <2>3, <2>4 DEF Counted, Rerefs
    <3>2. G[e].refs = r /\ G[e].in_cache = H[e].in_cache
      BY <2>3 DEF Rerefs
    <3>3. G[e].refs = Cardinality(UsersIn(Q, e)) + OneIf(G[e].in_cache)
      BY <3>2, <2>0 DEF n
    <3>4. G[e].in_cache \/ UsersIn(Q, e) # {}
      BY <3>2, <2>1, <1>4
    <3> QED BY <3>1, <3>3, <3>4 DEF Counted
  <2>7. Held(G, Q)
    BY <1>8, <2>4 DEF Held
  <2>8. Lists(G, Q, d.lru, d.used)
    <3>1. CASE n = 0
      <4>1. d.lru = Append(c.lru, e) /\ d.used = c.used \ {e}
        BY <3>1, <2>2
      <4>2. e \notin ToSet(c.lru)
        BY <1>6, <1>5
      <4>3. /\ Append(c.lru, e) \in Seq(DOMAIN H \union {e})
            /\ ToSet(Append(c.lru, e)) = ToSet(c.lru) \union {e}
            /\ IsInjective(Append(c.lru, e))
        BY <4>2, <1>6, SeqAppend
      <4>4. DOMAIN H \union {e} = DOMAIN G
        BY <1>2, <2>4
      <4>5. ToSet(c.lru) \union {e} = {x \in Cached(G) : UsersIn(Q, x) = {}}
        BY <3>1, <1>3, <1>4, <1>5, <1>6, <1>7, <2>4, <2>5
      <4>6. c.used \ {e} = {x \in Cached(G) : UsersIn(Q, x) # {}}
        BY <3>1, <1>3, <1>4, <1>5, <1>6, <1>7, <2>4, <2>5
      <4> QED BY <4>1, <4>3, <4>4, <4>5, <4>6 DEF Lists
    <3>2. CASE n # 0
      <4>1. d.lru = c.lru /\ d.used = c.used
        BY <3>2, <2>2
      <4>2. ToSet(c.lru) = {x \in Cached(G) : UsersIn(Q, x) = {}}
        BY <3>2, <1>3, <1>4, <1>5, <1>6, <1>7, <2>4
      <4>3. c.used = {x \in Cached(G) : UsersIn(Q, x) # {}}
        BY <3>2, <1>3, <1>4, <1>5, <1>6, <1>7, <2>4
      <4> QED BY <4>1, <4>2, <4>3, <1>6, <2>4 DEF Lists
    <3> QED BY <3>1, <3>2
  <2>9. Table(G, c.list)
    BY <1>1, <2>4, TableSame
  <2>10. Body(G, d.lru, d.used, d.usage, Q)
    BY <1>1, <2>2, <2>4, <2>6, <2>7, <2>8 DEF Body
  <2>11. CacheOK(d, Q)
    BY <2>2, <2>4, <2>9, <2>10, <1>1 DEF CacheOK, G
  <2> QED BY <2>11, <2>4 DEF d, H, G
<1> QED BY <1>9, <1>10

-----------------------------------------------------------------------------
(***************************************************************************)
(* LRUCache::Insert.                                                       *)
(***************************************************************************)

NewHandle(new) ==
    /\ new \in [key : File, kind : Kind, refs : Nat, in_cache : BOOLEAN]
    /\ new.refs = 1 + OneIf(new.in_cache)
Added(H, e, new) == [x \in DOMAIN H \union {e} |-> IF x = e THEN new ELSE H[x]]

\* A new entry has one user, and one reference more if it is cached.
LEMMA AddHandles ==
    ASSUME NEW H, NEW P, NEW Q, NEW t, Handles(H), Counted(H, P), Held(H, P), Moves(P, Q, t),
           NEW e \in Nat, e \notin DOMAIN H, P[t].handle = None, Q[t].handle = e,
           NEW new, NewHandle(new),
           NEW G, G = Added(H, e, new)
    PROVE  /\ Handles(G) /\ Counted(G, Q) /\ Held(G, Q) /\ SameFiles(H, G)
           /\ DOMAIN G = DOMAIN H \union {e} /\ G[e] = new
           /\ \A x \in DOMAIN H : x # e /\ G[x] = H[x] /\ UsersIn(Q, x) = UsersIn(P, x)
           /\ UsersIn(Q, e) = {t}
           /\ Cached(G) = IF new.in_cache THEN Cached(H) \union {e} ELSE Cached(H)
<1>1. /\ DOMAIN G = DOMAIN H \union {e} /\ G = [x \in DOMAIN G |-> G[x]] /\ G[e] = new
      /\ \A x \in DOMAIN H : x # e /\ G[x] = H[x]
    BY DEF Added
<1>2. e # None /\ \A x \in DOMAIN H : x # None
    BY CacheAssumption DEF Handles
<1>3. UsersIn(P, e) = {}
    BY <1>2 DEF Held, UsersIn
<1>4. \A x \in DOMAIN H : UsersIn(Q, x) = UsersIn(P, x)
    BY <1>1, <1>2, UsersOthers
<1>5. UsersIn(Q, e) = {t} /\ Cardinality(UsersIn(Q, e)) = 1
  <2>1. UsersIn(Q, e) = UsersIn(P, e) \union {t}
    BY <1>2, UsersJoin
  <2>2. UsersIn(Q, e) = {t}
    BY <2>1, <1>3
  <2> QED BY <2>2, FS_Singleton
<1>6. Handles(G)
  <2>1. IsFiniteSet(DOMAIN G)
    BY <1>1, FS_AddElement DEF Handles
  <2>2. \A x \in DOMAIN G : G[x] \in [key : File, kind : Kind, refs : Nat, in_cache : BOOLEAN]
    BY <1>1 DEF Handles, NewHandle
  <2>3. DOMAIN G \subseteq Nat
    BY <1>1 DEF Handles
  <2> QED BY <1>1, <2>1, <2>2, <2>3 DEF Handles
<1>7. Counted(G, Q)
  <2>1. ASSUME NEW x \in DOMAIN H
        PROVE  /\ G[x].refs = Cardinality(UsersIn(Q, x)) + OneIf(G[x].in_cache)
               /\ G[x].in_cache \/ UsersIn(Q, x) # {}
    BY <1>1, <1>4 DEF Counted
  <2>2. G[e].refs = Cardinality(UsersIn(Q, e)) + OneIf(G[e].in_cache) /\ UsersIn(Q, e) # {}
    BY <1>1, <1>5 DEF NewHandle
  <2> QED BY <2>1, <2>2, <1>1 DEF Counted
<1>8. Held(G, Q)
    BY <1>1 DEF Held, Moves
<1>9. SameFiles(H, G)
    BY <1>1 DEF SameFiles
<1>10. Cached(G) = IF new.in_cache THEN Cached(H) \union {e} ELSE Cached(H)
    BY <1>1 DEF Cached, NewHandle
<1> QED BY <1>1, <1>4, <1>5, <1>6, <1>7, <1>8, <1>9, <1>10

\* The lists and usage_ with a new entry.
LEMMA AddBody ==
    ASSUME NEW H, NEW P, NEW Q, NEW t, NEW lru, NEW used, NEW usage,
           Body(H, lru, used, usage, P), Moves(P, Q, t),
           NEW e \in Nat, e \notin DOMAIN H, P[t].handle = None, Q[t].handle = e,
           NEW new, NewHandle(new),
           NEW G, G = Added(H, e, new)
    PROVE  Body(G, lru, IF new.in_cache THEN used \union {e} ELSE used,
                IF new.in_cache THEN usage + Charge[new.key] ELSE usage, Q)
<1> DEFINE u == IF new.in_cache THEN used \union {e} ELSE used
           g == IF new.in_cache THEN usage + Charge[new.key] ELSE usage
<1>1. /\ Handles(H) /\ Counted(H, P) /\ Held(H, P) /\ Lists(H, P, lru, used)
      /\ usage = SumCharge(H, Cached(H))
    BY DEF Body
<1>2. /\ Handles(G) /\ Counted(G, Q) /\ Held(G, Q) /\ SameFiles(H, G)
      /\ DOMAIN G = DOMAIN H \union {e} /\ G[e] = new
      /\ \A x \in DOMAIN H : x # e /\ G[x] = H[x] /\ UsersIn(Q, x) = UsersIn(P, x)
      /\ UsersIn(Q, e) = {t}
      /\ Cached(G) = IF new.in_cache THEN Cached(H) \union {e} ELSE Cached(H)
    BY <1>1, AddHandles
<1>3. Cached(H) \subseteq DOMAIN H
    BY DEF Cached
<1>4. /\ lru \in Seq(DOMAIN H) /\ IsInjective(lru)
      /\ ToSet(lru) = {x \in Cached(H) : UsersIn(P, x) = {}}
      /\ used = {x \in Cached(H) : UsersIn(P, x) # {}}
    BY <1>1 DEF Lists
<1>5. Lists(G, Q, lru, u)
  <2>0. /\ \A x \in Cached(H) : x \in Cached(G) /\ UsersIn(Q, x) = UsersIn(P, x)
        /\ \A x \in Cached(G) : UsersIn(Q, x) = {} => x \in Cached(H)
    BY <1>2, <1>3
  <2>1. ToSet(lru) = {x \in Cached(G) : UsersIn(Q, x) = {}}
    BY <2>0, <1>4
  <2>2. u = {x \in Cached(G) : UsersIn(Q, x) # {}}
    BY <1>2, <1>3, <1>4
  <2>3. lru \in Seq(DOMAIN G)
    <3>1. ToSet(lru) \subseteq DOMAIN G
      BY <2>1 DEF Cached
    <3> QED BY <3>1, <1>4, SeqOver
  <2> QED BY <2>1, <2>2, <2>3, <1>4 DEF Lists
<1>6. SumCharge(G, Cached(H)) = usage /\ usage \in Nat
  <2>1. \A x \in Cached(H) : G[x].key = H[x].key
    BY <1>2, <1>3
  <2>2. SumCharge(G, Cached(H)) = SumCharge(H, Cached(H))
    BY <2>1, SumSame
  <2> QED BY <2>2, <1>1, <1>3, CachedFinite
<1>7. g = SumCharge(G, Cached(G))
  <2>1. CASE ~new.in_cache
    BY <2>1, <1>2, <1>6
  <2>2. CASE new.in_cache
    <3>1. G[e].key = new.key /\ Charge[G[e].key] \in Nat
      BY <1>2, HandleFields
    <3>2. SumCharge(G, {e}) = Charge[new.key]
      BY <3>1, SumOne
    <3>3. IsFiniteSet(Cached(H)) /\ IsFiniteSet({e}) /\ Cached(H) \cap {e} = {}
      BY <1>1, <1>2, <1>3, CachedFinite, FS_Singleton
    <3>4. \A x \in Cached(H) \union {e} : Charge[G[x].key] \in Nat
      BY <1>2, <1>3, HandleFields
    <3>5. SumCharge(G, Cached(H) \union {e}) = SumCharge(G, Cached(H)) + SumCharge(G, {e})
      BY <3>3, <3>4, SumSplit
    <3> QED BY <2>2, <3>2, <3>5, <1>2, <1>6
  <2> QED BY <2>1, <2>2
<1> HIDE DEF u, g
<1>8. Body(G, lru, u, g, Q)
    BY <1>2, <1>5, <1>7 DEF Body
<1> QED BY <1>8 DEF u, g

-----------------------------------------------------------------------------
\* Division with remainder.
LEMMA DivMod ==
  ASSUME NEW a \in Nat \ {0}, NEW p \in Nat
  PROVE  p = a * (p \div a) + (p % a) /\ p % a \in 0..(a - 1) /\ p \div a \in Nat
OBVIOUS

\* The remainder is the only one.
LEMMA ModUnique ==
  ASSUME NEW a \in Nat \ {0}, NEW q \in Nat, NEW r \in 0..(a - 1)
  PROVE  (a * q + r) % a = r
OBVIOUS

\* A hash that is taken modulo twice the length falls, modulo the length,
\* where it did before.
LEMMA ModHalf ==
  ASSUME NEW a \in Nat \ {0}, NEW h \in Nat
  PROVE  (h % (2 * a)) % a = h % a
<1> DEFINE n == 2 * a
           m == h % n
           q == h \div n
           p == m \div a
           r == m % a
<1>0. n \in Nat \ {0}
    OBVIOUS
<1>1. h = n * q + m /\ m \in Nat /\ q \in Nat
  <2> HIDE DEF n
  <2> QED BY <1>0, DivMod
<1> HIDE DEF m, q
<1>2. m = a * p + r /\ r \in 0..(a - 1) /\ p \in Nat
    BY <1>1, DivMod
<1> HIDE DEF p, r
<1>3. h = a * (2 * q + p) + r /\ 2 * q + p \in Nat
  <2>1. h = (2 * a) * q + (a * p + r)
    BY <1>1, <1>2
  <2>2. (2 * a) * q = a * (2 * q)
    BY <1>1
  <2>3. a * (2 * q) + a * p = a * (2 * q + p)
    BY <1>1, <1>2
  <2>4. a * p \in Nat /\ a * (2 * q) \in Nat /\ r \in Nat
    BY <1>1, <1>2
  <2> DEFINE x == a * p
             y == a * (2 * q)
  <2>5. y + (x + r) = (y + x) + r
    <3> HIDE DEF x, y
    <3>1. x \in Nat /\ y \in Nat /\ r \in Nat
      BY <2>4 DEF x, y
    <3> QED BY <3>1
  <2> QED BY <2>1, <2>2, <2>3, <2>5, <1>1, <1>2
<1>4. h % a = r
  <2> DEFINE k == 2 * q + p
  <2>1. k \in Nat /\ h = a * k + r
    BY <1>3
  <2> HIDE DEF k
  <2>2. (a * k + r) % a = r
    BY <2>1, <1>2, ModUnique
  <2> QED BY <2>1, <2>2
<1> QED BY <1>4 DEF r, m, n

\* HandleTable::Resize puts every entry in the bucket of its key.
LEMMA ResizeTable ==
    ASSUME NEW H, NEW list, Handles(H), Table(H, list), NEW new, new = Resize(H, list)
    PROVE  Table(H, new)
<1> DEFINE L == Length(list)
           n == 2 * L
           want(b) == {e \in DOMAIN H : Hash[H[e].key] % n = b}
<1>1. L \in Nat \ {0} /\ DOMAIN list = 0..(L - 1)
    BY DEF Table
<1>2. n \in Nat \ {0}
    BY <1>1
<1>3. new = [b \in 0..(n - 1) |-> Reverse(Only(list[b % L], want(b)))]
    BY DEF Resize
<1> HIDE DEF L
<1>4. DOMAIN new = 0..(n - 1) /\ Length(new) = n
  <2>1. DOMAIN new = 0..(n - 1)
    BY <1>3
  <2> HIDE DEF n
  <2>2. Cardinality(0..(n - 1)) = IF 0 > n - 1 THEN 0 ELSE (n - 1) - 0 + 1
    BY <1>2, FS_Interval
  <2>3. Cardinality(0..(n - 1)) = n
    BY <1>2, <2>2
  <2> QED BY <2>1, <2>3 DEF Length
<1>5. ASSUME NEW b \in DOMAIN new
      PROVE  /\ new[b] \in Seq(DOMAIN H) /\ IsInjective(new[b])
             /\ ToSet(new[b]) = {e \in Cached(H) : Bucket(new, H[e].key) = b}
  <2> DEFINE a == b % L
             s == list[a]
             o == Only(s, want(b))
  <2>1. b \in 0..(n - 1) /\ b \in Nat
    BY <1>2, <1>4
  <2>2. a \in DOMAIN list
    BY <2>1, <1>1
  <2>3. /\ s \in Seq(DOMAIN H) /\ IsInjective(s)
        /\ ToSet(s) = {e \in Cached(H) : Bucket(list, H[e].key) = a}
    BY <2>2 DEF Table
  <2>4. new[b] = Reverse(o)
    BY <1>3, <2>1
  <2> HIDE DEF s, want
  <2>5. o \in Seq(DOMAIN H) /\ ToSet(o) = ToSet(s) \cap want(b) /\ IsInjective(o)
    BY <2>3, OnlyFacts
  <2> HIDE DEF o
  <2>6. /\ new[b] \in Seq(DOMAIN H) /\ IsInjective(new[b]) /\ ToSet(new[b]) = ToSet(o)
    BY <2>4, <2>5, SeqReverse
  <2>7. ASSUME NEW e \in Cached(H)
        PROVE  e \in ToSet(o) <=> Bucket(new, H[e].key) = b
    <3> DEFINE h == Hash[H[e].key]
    <3>1. e \in DOMAIN H /\ h \in Nat
      BY HandleFields DEF Cached
    <3>2. Bucket(new, H[e].key) = h % n /\ Bucket(list, H[e].key) = h % L
      BY <1>4 DEF Bucket, L
    <3>3. (h % n) % L = h % L
      <4> HIDE DEF h
      <4> QED BY <3>1, <1>1, ModHalf
    <3>4. e \in want(b) <=> h % n = b
      BY <3>1 DEF want
    <3>5. e \in ToSet(s) <=> h % L = a
      BY <2>3, <3>2
    <3> HIDE DEF h, n
    <3> QED BY <2>5, <3>2, <3>3, <3>4, <3>5
  <2>8. ToSet(o) \subseteq Cached(H)
    BY <2>3, <2>5
  <2>9. ToSet(o) = {e \in Cached(H) : Bucket(new, H[e].key) = b}
    BY <2>7, <2>8
  <2> QED BY <2>6, <2>9
<1>6. \A e, d \in Cached(H) : H[e].key = H[d].key => e = d
    BY DEF Table
<1>7. new = [b \in DOMAIN new |-> new[b]]
    BY <1>3
<1> HIDE DEF n
<1> QED BY <1>2, <1>4, <1>5, <1>6, <1>7 DEF Table

\* The entry e takes its bucket's place of the entries O with its key, if any.
LEMMA PutTable ==
    ASSUME NEW H, NEW list, Handles(H), Table(H, list), NEW O, O \subseteq Cached(H),
           NEW G, NEW e \in DOMAIN G, e \notin DOMAIN H, Cached(G) = (Cached(H) \ O) \union {e},
           NEW k \in File, G[e].key = k,
           \A x \in O : H[x].key = k,
           \A x \in Cached(H) \ O : G[x].key = H[x].key /\ H[x].key # k,
           NEW X, NEW s \in Seq(X), IsInjective(s),
           ToSet(s) = (ToSet(list[Bucket(list, k)]) \ O) \union {e},
           NEW new, new = PutAt(list, Bucket(list, k), s)
    PROVE  Table(G, new)
<1> DEFINE a == Bucket(list, k)
<1>1. a \in DOMAIN list
    BY FindOK
<1>2. /\ Length(list) \in Nat \ {0} /\ DOMAIN list = 0..(Length(list) - 1)
      /\ list = [b \in DOMAIN list |-> list[b]]
      /\ \A b \in DOMAIN list :
            /\ list[b] \in Seq(DOMAIN H) /\ IsInjective(list[b])
            /\ ToSet(list[b]) = {x \in Cached(H) : Bucket(list, H[x].key) = b}
      /\ \A x, d \in Cached(H) : H[x].key = H[d].key => x = d
    BY DEF Table
<1>3. DOMAIN new = DOMAIN list /\ new = [b \in DOMAIN new |-> new[b]] /\ new[a] = s
      /\ \A b \in DOMAIN list : b # a => new[b] = list[b]
    BY <1>1, <1>2 DEF PutAt
<1>4. Length(new) = Length(list) /\ \A x : Bucket(new, x) = Bucket(list, x)
    BY <1>3 DEF Length, Bucket
<1> HIDE DEF a
<1>5. ASSUME NEW b \in DOMAIN new
      PROVE  /\ IsInjective(new[b])
             /\ ToSet(new[b]) = {x \in Cached(G) : Bucket(new, G[x].key) = b}
             /\ \E Y : new[b] \in Seq(Y)
  <2>1. /\ list[b] \in Seq(DOMAIN H) /\ IsInjective(list[b])
        /\ ToSet(list[b]) = {x \in Cached(H) : Bucket(list, H[x].key) = b}
    BY <1>2, <1>3
  <2>2. CASE b = a
    <3>1. ToSet(s) = (ToSet(list[b]) \ O) \union {e}
      BY <2>2 DEF a
    <3>2. Bucket(list, G[e].key) = b
      BY <2>2 DEF a
    <3>3. ToSet(s) = {x \in Cached(G) : Bucket(list, G[x].key) = b}
      BY <3>1, <3>2, <2>1
    <3> QED BY <3>3, <2>2, <1>3, <1>4
  <2>3. CASE b # a
    <3>1. new[b] = list[b]
      BY <2>3, <1>3
    <3>2. \A x \in O \union {e} : x \in Cached(H) => Bucket(list, H[x].key) = a
      BY DEF a, Cached
    <3>3. Bucket(list, G[e].key) = a
      BY DEF a
    <3>4. ToSet(list[b]) = {x \in Cached(G) : Bucket(list, G[x].key) = b}
      BY <3>2, <3>3, <2>1, <2>3
    <3> QED BY <3>1, <3>4, <2>1, <1>4
  <2> QED BY <2>2, <2>3
<1>6. ASSUME NEW b \in DOMAIN new PROVE new[b] \in Seq(DOMAIN G)
  <2>1. ToSet(new[b]) \subseteq DOMAIN G
    BY <1>5 DEF Cached
  <2>2. PICK Y : new[b] \in Seq(Y)
    BY <1>5
  <2> QED BY <2>1, <2>2, SeqOver
<1>7. \A x, d \in Cached(G) : G[x].key = G[d].key => x = d
    BY <1>2
<1> QED BY <1>2, <1>3, <1>4, <1>5, <1>6, <1>7 DEF Table

\* What erasing leaves: entries of the cache before, over the same files.
LEMMA EraseSame ==
    ASSUME NEW c, NEW P, CacheOK(c, P), NEW S, S \subseteq Cached(c.H)
    PROVE  /\ SameFiles(c.H, Erase(c, S).H) /\ DOMAIN Erase(c, S).H \subseteq DOMAIN c.H
           /\ \A e \in S : e \in DOMAIN Erase(c, S).H <=> UsersIn(P, e) # {}
<1>1. Handles(c.H) /\ Counted(c.H, P)
    BY DEF CacheOK, Body
<1> DEFINE H == c.H
           G == Erase(c, S).H
<1>2. Handles(H) /\ Counted(H, P) /\ S \subseteq Cached(H) /\ G = ErasedFrom(H, S)
    BY <1>1, EraseOK
<1> HIDE DEF H, G
<1>3. /\ DOMAIN G \subseteq DOMAIN H /\ SameFiles(H, G)
      /\ \A e \in S : e \in DOMAIN G <=> UsersIn(P, e) # {}
    BY <1>2, EraseHandles
<1> QED BY <1>3 DEF H, G

\* The eviction loop of Insert only erases idle entries.
LEMMA EvictOK ==
    ASSUME NEW c, NEW P, CacheOK(c, P)
    PROVE  /\ CacheOK(Evict(c), P)
           /\ SameFiles(c.H, Evict(c).H) /\ DOMAIN Evict(c).H \subseteq DOMAIN c.H
<1> DEFINE oldest(n) == ToSet(SubSeq(c.lru, 1, n))
           N == {n \in 0..(Len(c.lru) - 1) : c.usage - SumCharge(c.H, oldest(n)) > capacity_}
           S == oldest(Cardinality(N))
<1>1. Evict(c) = Erase(c, S)
    BY DEF Evict
<1>2. /\ c.lru \in Seq(DOMAIN c.H) /\ ToSet(c.lru) \subseteq Cached(c.H)
    BY DEF CacheOK, Body, Lists
<1>3. Cardinality(N) \in 0..Len(c.lru)
  <2> DEFINE m == Len(c.lru)
             A == 0..(m - 1)
  <2>1. m \in Nat
    BY <1>2
  <2>2. N \in SUBSET A
    OBVIOUS
  <2> HIDE DEF N, m
  <2>3. IsFiniteSet(A) /\ Cardinality(A) = IF 0 > m - 1 THEN 0 ELSE (m - 1) - 0 + 1
    BY <2>1, FS_Interval
  <2>4. Cardinality(A) = m
    BY <2>1, <2>3
  <2> HIDE DEF A
  <2>5. IsFiniteSet(N) /\ Cardinality(N) <= Cardinality(A)
    BY <2>2, <2>3, FS_Subset
  <2>6. Cardinality(N) \in Nat
    BY <2>5, FS_CardinalityType
  <2>7. Cardinality(N) \in 0..m
    BY <2>1, <2>4, <2>5, <2>6
  <2> QED BY <2>7 DEF m
<1>4. S \subseteq Cached(c.H)
  <2> HIDE DEF N
  <2> DEFINE g == Cardinality(N)
  <2>1. g \in 0..Len(c.lru)
    BY <1>3
  <2> HIDE DEF g
  <2>2. ToSet(SubSeq(c.lru, 1, g)) \subseteq ToSet(c.lru)
    BY <1>2, <2>1 DEF ToSet
  <2> QED BY <2>2, <1>2 DEF g
<1> HIDE DEF S
<1> QED BY <1>1, <1>4, EraseOK, EraseSame

WithHandles(c, G) == [c EXCEPT !.H = G]

\* Insert without a cache, and with one up to the eviction.
LEMMA InsertUncached ==
    ASSUME NEW c, NEW P, NEW Q, NEW t, CacheOK(c, P), Moves(P, Q, t),
           NEW e \in Nat, e \notin DOMAIN c.H, P[t].handle = None, Q[t].handle = e,
           NEW new, NewHandle(new), ~new.in_cache,
           NEW d, d = WithHandles(c, Added(c.H, e, new))
    PROVE  /\ CacheOK(d, Q) /\ SameFiles(c.H, d.H)
           /\ DOMAIN d.H = DOMAIN c.H \union {e} /\ d.H[e] = new
<1> DEFINE H == c.H
           G == Added(H, e, new)
<1>1. /\ c = [f \in Fields |-> c[f]] /\ Table(H, c.list) /\ c.elems = Cardinality(Cached(H))
      /\ Body(H, c.lru, c.used, c.usage, P)
    BY DEF CacheOK
<1>2. /\ d.H = G /\ d.lru = c.lru /\ d.used = c.used /\ d.list = c.list /\ d.elems = c.elems
      /\ d.usage = c.usage /\ d = [f \in Fields |-> d[f]]
    BY <1>1 DEF Fields, WithHandles
<1>3. Handles(H) /\ Counted(H, P) /\ Held(H, P)
    BY <1>1 DEF Body
<1>4. G = Added(H, e, new) /\ e \notin DOMAIN H
    OBVIOUS
<1> HIDE DEF G, H
<1>5. Body(G, c.lru, c.used, c.usage, Q)
    BY <1>1, <1>4, AddBody
<1>6. /\ SameFiles(H, G) /\ DOMAIN G = DOMAIN H \union {e} /\ G[e] = new
      /\ \A x \in DOMAIN H : G[x] = H[x]
      /\ Cached(G) = Cached(H)
    BY <1>3, <1>4, AddHandles
<1>7. Table(G, c.list)
  <2>1. \A x \in Cached(H) : G[x].key = H[x].key
    BY <1>6 DEF Cached
  <2> QED BY <1>1, <1>6, <2>1, TableSame
<1>8. CacheOK(d, Q)
    BY <1>1, <1>2, <1>5, <1>6, <1>7 DEF CacheOK
<1> QED BY <1>2, <1>6, <1>8 DEF H

Inserting(c, e, new, r) ==
    [c EXCEPT !.H = Added(c.H, e, new), !.used = @ \union {e}, !.usage = @ + Charge[new.key],
              !.list = r.list, !.elems = r.elems]

\* The entry that gives its place to the new one of the same key.
Replaced(H, list, k) == {Find(H, list, k)} \ {None}

Shaped(c) == c = [f \in Fields |-> c[f]]

\* The fields of the cache after FinishErase.
LEMMA FinishEraseFields ==
    ASSUME NEW c, Shaped(c), NEW S, NEW d, d = FinishErase(c, S)
    PROVE  /\ d.H = ErasedFrom(c.H, S) /\ d.lru = Only(c.lru, DOMAIN c.H \ S)
           /\ d.used = c.used \ S /\ d.list = c.list /\ d.elems = c.elems
           /\ d.usage = c.usage - SumCharge(c.H, S) /\ Shaped(d)
  BY DEF Fields, FinishErase, ErasedFrom, Erased, Shaped

Inserts(c, P, Q, t, e, new) ==
    /\ CacheOK(c, P) /\ Moves(P, Q, t)
    /\ e \in Nat /\ e \notin DOMAIN c.H /\ P[t].handle = None /\ Q[t].handle = e
    /\ NewHandle(new) /\ new.in_cache

\* The cache after FinishErase(table_.Insert(e)).
Inserted(c, e, new) ==
    FinishErase(Inserting(c, e, new, TableInsert(Added(c.H, e, new), c.list, c.elems, e)),
                Replaced(c.H, c.list, new.key))

\* Insert with a cache, up to the eviction: the new entry takes the place of
\* the one that another thread has put there, if any.
LEMMA InsertCached ==
    ASSUME NEW c, NEW P, NEW Q, NEW t, NEW e, NEW new, Inserts(c, P, Q, t, e, new),
           NEW d, d = Inserted(c, e, new)
    PROVE  /\ CacheOK(d, Q) /\ SameFiles(c.H, d.H)
           /\ DOMAIN d.H \subseteq DOMAIN c.H \union {e} /\ e \in DOMAIN d.H
           /\ d.H[e].key = new.key /\ d.H[e].kind = new.kind
<1> DEFINE H == c.H
           k == new.key
           A == Added(H, e, new)
           r == TableInsert(A, c.list, c.elems, e)
           O == Replaced(H, c.list, k)
           G == ErasedFrom(A, O)
           i == FindPointer(H, c.list, k)
           a == Bucket(c.list, k)
           s == c.list[a]
           put == [c.list EXCEPT ![a] = IF i = 0 THEN Append(@, e) ELSE [@ EXCEPT ![i] = e]]
<1>1. /\ c = [f \in Fields |-> c[f]] /\ Table(H, c.list) /\ c.elems = Cardinality(Cached(H))
      /\ Body(H, c.lru, c.used, c.usage, P)
    BY DEF CacheOK, Inserts
<1>0. /\ Moves(P, Q, t) /\ e \in Nat /\ P[t].handle = None /\ Q[t].handle = e
      /\ NewHandle(new) /\ new.in_cache
    BY DEF Inserts
<1>2. /\ d.H = G /\ d.lru = Only(c.lru, DOMAIN A \ O) /\ d.used = (c.used \union {e}) \ O
      /\ d.list = r.list /\ d.elems = r.elems
      /\ d.usage = (c.usage + Charge[k]) - SumCharge(A, O)
      /\ d = [f \in Fields |-> d[f]]
  <2> DEFINE m == Inserting(c, e, new, r)
  <2>1. /\ m.H = A /\ m.lru = c.lru /\ m.used = c.used \union {e}
        /\ m.usage = c.usage + Charge[k] /\ m.list = r.list /\ m.elems = r.elems
        /\ m = [f \in Fields |-> m[f]]
    BY <1>1 DEF Fields, Inserting
  <2>2. d = FinishErase(m, O)
    BY DEF Inserted
  <2> HIDE DEF m, A, O, r
  <2>3. /\ d.H = ErasedFrom(m.H, O) /\ d.lru = Only(m.lru, DOMAIN m.H \ O)
        /\ d.used = m.used \ O /\ d.list = m.list /\ d.elems = m.elems
        /\ d.usage = m.usage - SumCharge(m.H, O) /\ Shaped(d)
    <3>1. Shaped(m)
      BY <2>1 DEF Shaped
    <3> QED BY <3>1, <2>2, FinishEraseFields
  <2> QED BY <2>1, <2>3 DEF Shaped
<1>3. Handles(H) /\ Counted(H, P) /\ Held(H, P)
    BY <1>1 DEF Body
<1>4. A = Added(H, e, new) /\ e \notin DOMAIN H /\ G = ErasedFrom(A, O)
    BY DEF Inserts
<1>5. k \in File /\ O = Replaced(H, c.list, k) /\ e # None
    BY <1>0, CacheAssumption DEF NewHandle
<1> HIDE DEF A, G, H, O, r
<1>6. Body(A, c.lru, c.used \union {e}, c.usage + Charge[k], Q)
    BY <1>0, <1>1, <1>4, AddBody
<1>7. /\ Handles(A) /\ Counted(A, Q) /\ SameFiles(H, A)
      /\ DOMAIN A = DOMAIN H \union {e} /\ A[e] = new
      /\ \A x \in DOMAIN H : A[x] = H[x]
      /\ Cached(A) = Cached(H) \union {e}
    BY <1>0, <1>3, <1>4, AddHandles
<1>8. Cached(H) \subseteq DOMAIN H /\ e \notin Cached(H)
    BY <1>4 DEF Cached
<1>9. /\ a \in DOMAIN c.list
      /\ \/ i = 0 /\ O = {} /\ \A x \in Cached(H) : H[x].key # k
         \/ /\ i \in 1..Len(s) /\ O = {s[i]} /\ s[i] \in Cached(H) /\ H[s[i]].key = k
  <2>1. /\ a \in DOMAIN c.list
        /\ \/ /\ i = 0 /\ Find(H, c.list, k) = None
              /\ \A x \in Cached(H) : H[x].key # k
           \/ /\ i \in 1..Len(s)
              /\ Find(H, c.list, k) = s[i]
              /\ Find(H, c.list, k) \in Cached(H)
              /\ H[Find(H, c.list, k)].key = k
    BY <1>1, <1>3, <1>5, FindOK
  <2>2. None \notin Cached(H)
    BY <1>3, <1>8, CacheAssumption DEF Handles
  <2> QED BY <2>1, <2>2, <1>5 DEF Replaced
<1>10. O \subseteq Cached(H) /\ O \subseteq Cached(A) /\ e \notin O
    BY <1>9, <1>7, <1>8
<1>11. /\ Handles(G) /\ DOMAIN G \subseteq DOMAIN A /\ SameFiles(A, G)
       /\ Cached(G) = Cached(A) \ O /\ \A x \in DOMAIN A \ O : x \in DOMAIN G
  <2>1. Handles(A) /\ Counted(A, Q) /\ O \subseteq Cached(A) /\ G = ErasedFrom(A, O)
    BY <1>4, <1>7, <1>10
  <2> QED BY <2>1, EraseHandles
<1>12. /\ e \in DOMAIN G /\ G[e].key = k /\ G[e].kind = new.kind
       /\ \A x \in Cached(H) \ O : G[x].key = H[x].key
  <2>1. e \in DOMAIN A /\ e \in DOMAIN G
    BY <1>7, <1>10, <1>11
  <2>2. \A x \in DOMAIN A \cap DOMAIN G : G[x].key = A[x].key /\ G[x].kind = A[x].kind
    BY <1>11 DEF SameFiles
  <2>3. \A x \in Cached(H) \ O : x \in DOMAIN H /\ x \in DOMAIN A \cap DOMAIN G
    BY <1>7, <1>8, <1>11
  <2> QED BY <2>1, <2>2, <2>3, <1>7
<1>13. Body(G, Only(c.lru, DOMAIN A \ O), (c.used \union {e}) \ O,
            (c.usage + Charge[k]) - SumCharge(A, O), Q)
    BY <1>4, <1>6, <1>10, EraseBody
<1>14. s \in Seq(DOMAIN H) /\ IsInjective(s) /\ ToSet(s) \subseteq Cached(H)
  <2>1. \A b \in DOMAIN c.list :
           /\ c.list[b] \in Seq(DOMAIN H) /\ IsInjective(c.list[b])
           /\ ToSet(c.list[b]) = {x \in Cached(H) : Bucket(c.list, H[x].key) = b}
    BY <1>1 DEF Table
  <2>2. a \in DOMAIN c.list
    BY <1>9
  <2> HIDE DEF a
  <2> QED BY <2>1, <2>2
<1>15. /\ r.elems = IF i = 0 THEN c.elems + 1 ELSE c.elems
       /\ r.list = IF i = 0 /\ c.elems + 1 > Length(c.list) THEN Resize(A, put) ELSE put
  <2>1. FindPointer(A, c.list, k) = i
    <3>1. \A j \in 1..Len(s) : s[j] \in DOMAIN H
      BY <1>14
    <3>2. {j \in 1..Len(s) : A[s[j]].key = k} = {j \in 1..Len(s) : H[s[j]].key = k}
      BY <3>1, <1>7
    <3> QED BY <3>2 DEF FindPointer, SelectInSeq
  <2>2. A[e].key = k
    BY <1>7
  <2>3. r = TableInsert(A, c.list, c.elems, e)
    BY DEF r
  <2>4. put = [c.list EXCEPT ![a] = IF i = 0 THEN Append(@, e) ELSE [@ EXCEPT ![i] = e]]
    OBVIOUS
  <2> HIDE DEF put, i
  <2>5. r = IF i # 0 THEN [list |-> put, elems |-> c.elems]
            ELSE [list |-> IF c.elems + 1 > Length(c.list) THEN Resize(A, put) ELSE put,
                  elems |-> c.elems + 1]
    BY <2>1, <2>2, <2>3, <2>4 DEF TableInsert
  <2> QED BY <2>5
<1>16. Cached(G) = (Cached(H) \ O) \union {e}
    BY <1>7, <1>10, <1>11
<1> HIDE DEF s, k, i, a
<1>17. e \notin ToSet(s)
    BY <1>8, <1>14
<1>20. ASSUME Table(G, r.list), r.elems = Cardinality(Cached(G))
       PROVE  /\ CacheOK(d, Q) /\ SameFiles(c.H, d.H)
              /\ DOMAIN d.H \subseteq DOMAIN c.H \union {e} /\ e \in DOMAIN d.H
              /\ d.H[e].key = new.key /\ d.H[e].kind = new.kind
  <2>1. CacheOK(d, Q)
    BY <1>2, <1>13, <1>20 DEF CacheOK
  <2>2. SameFiles(H, G)
    BY <1>7, <1>11 DEF SameFiles
  <2> QED BY <2>1, <2>2, <1>2, <1>7, <1>11, <1>12 DEF H, k
<1>18. CASE i = 0
  <2> DEFINE new_s == Append(s, e)
  <2>1. O = {} /\ \A x \in Cached(H) : H[x].key # k
    BY <1>9, <1>18
  <2>2. /\ new_s \in Seq(DOMAIN H \union {e}) /\ ToSet(new_s) = ToSet(s) \union {e}
        /\ IsInjective(new_s)
    BY <1>14, <1>17, SeqAppend
  <2>3. put = [c.list EXCEPT ![a] = new_s]
    BY <1>18 DEF s
  <2> HIDE DEF new_s, put
  <2>4. ToSet(new_s) = (ToSet(c.list[a]) \ O) \union {e}
    BY <2>1, <2>2 DEF s
  <2>5. \A x \in Cached(H) \ O : G[x].key = H[x].key /\ H[x].key # k
    BY <1>12, <2>1
  <2>6. Table(G, put)
    <3>1. \A x \in O : H[x].key = k
      BY <2>1
    <3>2. ToSet(new_s) = (ToSet(c.list[Bucket(c.list, k)]) \ O) \union {e}
          /\ put = PutAt(c.list, Bucket(c.list, k), new_s)
      BY <2>3, <2>4 DEF a, PutAt
    <3>3. /\ Handles(H) /\ Table(H, c.list) /\ O \subseteq Cached(H) /\ e \in DOMAIN G
          /\ e \notin DOMAIN H /\ G[e].key = k /\ k \in File
      BY <1>1, <1>3, <1>4, <1>5, <1>10, <1>12
    <3> DEFINE X == DOMAIN H \union {e}
    <3>4. new_s \in Seq(X) /\ IsInjective(new_s)
      BY <2>2
    <3> HIDE DEF X
    <3> QED BY <3>1, <3>2, <3>3, <3>4, <1>16, <2>5, PutTable
  <2>7. Cached(A) = Cached(G) /\ \A x \in Cached(G) : A[x].key = G[x].key
    <3>1. Cached(A) = Cached(G)
      BY <2>1, <1>11
    <3>2. \A x \in Cached(G) : x \in DOMAIN A \cap DOMAIN G
      BY <1>11 DEF Cached
    <3> QED BY <3>1, <3>2, <1>11 DEF SameFiles
  <2>8. Table(G, r.list)
    <3>1. Table(A, put)
      BY <2>6, <2>7, TableSame
    <3>2. Table(A, Resize(A, put))
      BY <3>1, <1>7, ResizeTable
    <3>3. Table(A, r.list)
      BY <3>1, <3>2, <1>15
    <3> QED BY <3>3, <2>7, TableSame
  <2>9. r.elems = Cardinality(Cached(G))
    <3>1. IsFiniteSet(Cached(H)) /\ Cardinality(Cached(H)) \in Nat
      BY <1>3, CachedFinite
    <3>2. Cardinality(Cached(H) \union {e}) = Cardinality(Cached(H)) + 1
      BY <3>1, <1>8, FS_AddElement
    <3>3. Cached(G) = Cached(H) \union {e}
      BY <1>16, <2>1
    <3> QED BY <3>2, <3>3, <1>1, <1>15, <1>18
  <2> QED BY <2>8, <2>9, <1>20
<1>19. CASE i # 0
  <2> DEFINE new_s == PutAt(s, i, e)
             old == s[i]
  <2>1. i \in 1..Len(s) /\ O = {old} /\ old \in Cached(H) /\ H[old].key = k
    BY <1>9, <1>19
  <2>2. /\ new_s \in Seq(DOMAIN H \union {e}) /\ ToSet(new_s) = (ToSet(s) \ {old}) \union {e}
        /\ IsInjective(new_s)
    <3> HIDE DEF i
    <3> DEFINE T == DOMAIN H
    <3>1. i \in 1..Len(s) /\ s \in Seq(T) /\ IsInjective(s) /\ e \notin ToSet(s)
      BY <1>14, <1>17, <2>1
    <3> HIDE DEF T
    <3>2. /\ PutAt(s, i, e) \in Seq(T \union {e})
          /\ ToSet(PutAt(s, i, e)) = (ToSet(s) \ {s[i]}) \union {e}
          /\ IsInjective(PutAt(s, i, e))
      BY <3>1, SeqPut
    <3> QED BY <3>2 DEF T
  <2>3. put = [c.list EXCEPT ![a] = new_s]
    BY <1>19 DEF s, PutAt
  <2> HIDE DEF new_s, put, old
  <2>4. ToSet(new_s) = (ToSet(c.list[a]) \ O) \union {e}
    BY <2>1, <2>2 DEF s
  <2>5. \A x \in Cached(H) \ O : G[x].key = H[x].key /\ H[x].key # k
    <3>1. \A x \in Cached(H) : H[x].key = H[old].key => x = old
      BY <1>1, <2>1 DEF Table
    <3> QED BY <1>12, <2>1, <3>1
  <2>6. Table(G, put)
    <3>1. \A x \in O : H[x].key = k
      BY <2>1
    <3>2. ToSet(new_s) = (ToSet(c.list[Bucket(c.list, k)]) \ O) \union {e}
          /\ put = PutAt(c.list, Bucket(c.list, k), new_s)
      BY <2>3, <2>4 DEF a, PutAt
    <3>3. /\ Handles(H) /\ Table(H, c.list) /\ O \subseteq Cached(H) /\ e \in DOMAIN G
          /\ e \notin DOMAIN H /\ G[e].key = k /\ k \in File
      BY <1>1, <1>3, <1>4, <1>5, <1>10, <1>12
    <3> DEFINE X == DOMAIN H \union {e}
    <3>4. new_s \in Seq(X) /\ IsInjective(new_s)
      BY <2>2
    <3> HIDE DEF X
    <3> QED BY <3>1, <3>2, <3>3, <3>4, <1>16, <2>5, PutTable
  <2>7. r.elems = Cardinality(Cached(G))
    <3>1. IsFiniteSet(Cached(H)) /\ Cardinality(Cached(H)) \in Nat
      BY <1>3, CachedFinite
    <3>2. /\ IsFiniteSet(Cached(H) \ {old})
          /\ Cardinality(Cached(H) \ {old}) = Cardinality(Cached(H)) - 1
      BY <3>1, <2>1, FS_RemoveElement
    <3>3. Cardinality((Cached(H) \ {old}) \union {e}) = Cardinality(Cached(H) \ {old}) + 1
      BY <3>2, <1>8, FS_AddElement
    <3>4. Cached(G) = (Cached(H) \ {old}) \union {e}
      BY <1>16, <2>1
    <3> QED BY <3>1, <3>2, <3>3, <3>4, <1>1, <1>15, <1>19
  <2>8. r.list = put
    BY <1>15, <1>19
  <2> QED BY <2>6, <2>7, <2>8, <1>20
<1> QED BY <1>18, <1>19

NewOf(k, kind, n, cached) == [key |-> k, kind |-> kind, refs |-> n, in_cache |-> cached]

\* The entry that Insert makes, without and with a cache.
LEMMA NewOfOK ==
    ASSUME NEW k \in File, NEW kind \in Kind
    PROVE  /\ NewHandle(NewOf(k, kind, 1, FALSE)) /\ NewOf(k, kind, 1, FALSE).key = k
           /\ NewOf(k, kind, 1, FALSE).kind = kind /\ ~NewOf(k, kind, 1, FALSE).in_cache
           /\ NewHandle(NewOf(k, kind, 2, TRUE)) /\ NewOf(k, kind, 2, TRUE).key = k
           /\ NewOf(k, kind, 2, TRUE).kind = kind /\ NewOf(k, kind, 2, TRUE).in_cache
<1>1. /\ OneIf(FALSE) = 0 /\ OneIf(TRUE) = 1
    BY DEF OneIf
<1>2. /\ NewHandle(NewOf(k, kind, 1, FALSE)) /\ NewOf(k, kind, 1, FALSE).key = k
      /\ NewOf(k, kind, 1, FALSE).kind = kind /\ ~NewOf(k, kind, 1, FALSE).in_cache
  <2>1. PICK x : x = FALSE
    OBVIOUS
  <2>2. x \in BOOLEAN /\ ~x /\ OneIf(x) = 0
    BY <2>1, <1>1
  <2>3. NewHandle(NewOf(k, kind, 1, x)) /\ ~NewOf(k, kind, 1, x).in_cache
    BY <2>2 DEF NewHandle, NewOf
  <2> QED BY <2>1, <2>3 DEF NewOf
<1>3. /\ NewHandle(NewOf(k, kind, 2, TRUE)) /\ NewOf(k, kind, 2, TRUE).key = k
      /\ NewOf(k, kind, 2, TRUE).kind = kind /\ NewOf(k, kind, 2, TRUE).in_cache
  <2>1. PICK x : x = TRUE
    OBVIOUS
  <2>2. x \in BOOLEAN /\ x /\ OneIf(x) = 1
    BY <2>1, <1>1
  <2>a. 1 + OneIf(x) = 2
    <3>1. OneIf(x) = 1
      BY <2>2
    <3> HIDE <2>1
    <3> QED BY <3>1
  <2>b. NewOf(k, kind, 2, x) \in [key : File, kind : Kind, refs : Nat, in_cache : BOOLEAN]
    BY <2>2 DEF NewOf
  <2>c. NewOf(k, kind, 2, x).refs = 2 /\ NewOf(k, kind, 2, x).in_cache = x
    BY DEF NewOf
  <2>3. NewHandle(NewOf(k, kind, 2, x)) /\ NewOf(k, kind, 2, x).in_cache
    BY <2>2, <2>a, <2>b, <2>c DEF NewHandle
  <2> QED BY <2>1, <2>3 DEF NewOf
<1> QED BY <1>2, <1>3

\* LRUCache::Insert as a whole.
LEMMA InsertOK ==
    ASSUME NEW c, NEW P, NEW Q, NEW t, CacheOK(c, P), Moves(P, Q, t),
           NEW e \in Nat, e \notin DOMAIN c.H, P[t].handle = None, Q[t].handle = e,
           NEW k \in File, NEW kind \in Kind, NEW d, d = CacheInsert(c, e, k, kind)
    PROVE  /\ CacheOK(d, Q) /\ SameFiles(c.H, d.H)
           /\ DOMAIN d.H \subseteq DOMAIN c.H \union {e} /\ e \in DOMAIN d.H
           /\ d.H[e].key = k /\ d.H[e].kind = kind
<1>0. capacity_ \in Nat
    BY CacheAssumption
<1>4. CASE capacity_ = 0
  <2> DEFINE new == NewOf(k, kind, 1, FALSE)
  <2>1. d = WithHandles(c, Added(c.H, e, new))
    <3>1. (capacity_ > 0) = FALSE /\ (IF capacity_ > 0 THEN 2 ELSE 1) = 1
      BY <1>4
    <3>2. d = IF capacity_ = 0
              THEN WithHandles(c, Added(c.H, e, NewOf(k, kind, IF capacity_ > 0 THEN 2 ELSE 1, capacity_ > 0)))
              ELSE d
      BY DEF CacheInsert, Added, WithHandles, NewOf
    <3> QED BY <1>4, <3>1, <3>2
  <2>2. NewHandle(new) /\ new.key = k /\ new.kind = kind /\ ~new.in_cache
    BY NewOfOK
  <2>3. new = NewOf(k, kind, 1, FALSE)
    OBVIOUS
  <2> HIDE DEF new
  <2>4. /\ CacheOK(d, Q) /\ SameFiles(c.H, d.H)
        /\ DOMAIN d.H = DOMAIN c.H \union {e} /\ d.H[e] = new
    BY <2>1, <2>2, InsertUncached
  <2> QED BY <2>2, <2>4
<1>5. CASE capacity_ # 0
  <2> DEFINE new == NewOf(k, kind, 2, TRUE)
             m == Inserted(c, e, new)
  <2>0. NewHandle(new) /\ new.key = k /\ new.kind = kind /\ new.in_cache
    BY NewOfOK
  <2>a. capacity_ > 0
    BY <1>0, <1>5
  <2>1. d = Evict(m)
    BY <1>5, <2>a DEF CacheInsert, Added, Inserted, Inserting, Replaced, NewOf
  <2> HIDE DEF new
  <2>2. Inserts(c, P, Q, t, e, new)
    BY <2>0 DEF Inserts
  <2>3. m = Inserted(c, e, new)
    OBVIOUS
  <2> HIDE DEF m
  <2>4. /\ CacheOK(m, Q) /\ SameFiles(c.H, m.H)
        /\ DOMAIN m.H \subseteq DOMAIN c.H \union {e} /\ e \in DOMAIN m.H
        /\ m.H[e].key = k /\ m.H[e].kind = kind
    BY <2>0, <2>2, <2>3, InsertCached
  <2>5. CacheOK(d, Q) /\ SameFiles(m.H, d.H) /\ DOMAIN d.H \subseteq DOMAIN m.H
    BY <2>1, <2>4, EvictOK
  <2>6. e \in DOMAIN d.H
    <3>1. Held(d.H, Q)
      BY <2>5 DEF CacheOK, Body
    <3>2. e # None /\ t \in Thread
      BY CacheAssumption DEF Moves
    <3> QED BY <3>1, <3>2 DEF Held
  <2> QED BY <2>4, <2>5, <2>6 DEF SameFiles
<1> QED BY <1>4, <1>5

-----------------------------------------------------------------------------
(***************************************************************************)
(* The limiters.                                                           *)
(***************************************************************************)

HeldBy(H, kind) == {e \in DOMAIN H : H[e].kind = kind}
WithKind(P, kind) == {t \in Thread : P[t].kind = kind}
At(P, place) == {t \in Thread : P[t].at = place}
Gone(H, G, kind) == {e \in DOMAIN H \ DOMAIN G : H[e].kind = kind}

Limits(H, P, mmaps, fds) ==
    LET held(kind) == Cardinality(HeldBy(H, kind)) + Cardinality(WithKind(P, kind))
        at(place) == Cardinality(At(P, place))
    IN /\ held("mmap") + at("map") <= MaxMmaps /\ held("fd") <= MaxFds
       /\ mmaps = MaxMmaps - held("mmap") - at("map") - at("noMap")
       /\ fds = MaxFds - held("fd") - at("noDescriptor")

\* LimitersExact, as a predicate of its parts.
LEMMA LimitersAre == LimitersExact <=> Limits(handles, pc, mmapAllowed, fdAllowed)
  BY DEF LimitersExact, Limits, HeldBy, WithKind, At

\* Two sets that differ in x at most.
LEMMA CardOne ==
    ASSUME NEW S, NEW T, NEW x, IsFiniteSet(S), IsFiniteSet(T), S \ {x} = T \ {x},
           NEW a, a = OneIf(x \in S), NEW b, b = OneIf(x \in T)
    PROVE  Cardinality(T) = Cardinality(S) - a + b
<1>1. /\ Cardinality(S) \in Nat /\ Cardinality(T) \in Nat
      /\ Cardinality(S \ {x}) = IF x \in S THEN Cardinality(S) - 1 ELSE Cardinality(S)
      /\ Cardinality(T \ {x}) = IF x \in T THEN Cardinality(T) - 1 ELSE Cardinality(T)
    BY FS_RemoveElement, FS_CardinalityType
<1>2. Cardinality(S \ {x}) = Cardinality(T \ {x})
    OBVIOUS
<1> QED BY <1>1, <1>2 DEF OneIf

AtOne(P, t, place) == IF P[t].at = place THEN 1 ELSE 0
KindOne(P, t, kind) == IF P[t].kind = kind THEN 1 ELSE 0

\* A thread t takes a step, the others do not.
Steps(P, Q, t) == t \in Thread /\ \A u \in Thread \ {t} : Q[u] = P[u]

\* How many threads are at a place, or hold an object of a kind, after a step.
LEMMA StepCounts ==
    ASSUME NEW P, NEW Q, NEW t, Steps(P, Q, t), NEW v
    PROVE  /\ Cardinality(At(P, v)) \in Nat /\ Cardinality(WithKind(P, v)) \in Nat
           /\ Cardinality(At(Q, v)) = Cardinality(At(P, v)) - AtOne(P, t, v) + AtOne(Q, t, v)
           /\ Cardinality(WithKind(Q, v))
                = Cardinality(WithKind(P, v)) - KindOne(P, t, v) + KindOne(Q, t, v)
<1>1. /\ At(P, v) \in SUBSET Thread /\ At(Q, v) \in SUBSET Thread
      /\ WithKind(P, v) \in SUBSET Thread /\ WithKind(Q, v) \in SUBSET Thread
      /\ IsFiniteSet(Thread)
    BY CacheAssumption DEF At, WithKind
<1>2. /\ IsFiniteSet(At(P, v)) /\ IsFiniteSet(At(Q, v))
      /\ IsFiniteSet(WithKind(P, v)) /\ IsFiniteSet(WithKind(Q, v))
    BY <1>1, FS_Subset
<1>3. /\ At(P, v) \ {t} = At(Q, v) \ {t} /\ WithKind(P, v) \ {t} = WithKind(Q, v) \ {t}
    BY DEF Steps, At, WithKind
<1>4. /\ (t \in At(P, v)) <=> (P[t].at = v)
      /\ (t \in At(Q, v)) <=> (Q[t].at = v)
      /\ (t \in WithKind(P, v)) <=> (P[t].kind = v)
      /\ (t \in WithKind(Q, v)) <=> (Q[t].kind = v)
    BY DEF Steps, At, WithKind
<1>5. /\ AtOne(P, t, v) = OneIf(t \in At(P, v)) /\ AtOne(Q, t, v) = OneIf(t \in At(Q, v))
      /\ KindOne(P, t, v) = OneIf(t \in WithKind(P, v))
      /\ KindOne(Q, t, v) = OneIf(t \in WithKind(Q, v))
    BY <1>4 DEF OneIf, AtOne, KindOne
<1>6. Cardinality(At(Q, v)) = Cardinality(At(P, v)) - AtOne(P, t, v) + AtOne(Q, t, v)
    BY <1>2, <1>3, <1>5, CardOne
<1>7. Cardinality(WithKind(Q, v))
        = Cardinality(WithKind(P, v)) - KindOne(P, t, v) + KindOne(Q, t, v)
    BY <1>2, <1>3, <1>5, CardOne
<1> QED BY <1>2, <1>6, <1>7, FS_CardinalityType

\* Finitely many entries hold a file object of a kind.
LEMMA HeldFinite ==
    ASSUME NEW H, Handles(H), NEW kind
    PROVE  IsFiniteSet(HeldBy(H, kind)) /\ Cardinality(HeldBy(H, kind)) \in Nat
<1>1. HeldBy(H, kind) \subseteq DOMAIN H
    BY DEF HeldBy
<1> QED BY <1>1, CachedFinite

\* What is closed is what the deleted entries held.
LEMMA HeldAfter ==
    ASSUME NEW H, NEW G, Handles(H), Handles(G), SameFiles(H, G),
           DOMAIN G \subseteq DOMAIN H, NEW kind
    PROVE  /\ Cardinality(HeldBy(G, kind))
                = Cardinality(HeldBy(H, kind)) - Cardinality(Gone(H, G, kind))
           /\ Cardinality(Gone(H, G, kind)) \in Nat
<1>1. /\ IsFiniteSet(HeldBy(H, kind)) /\ Gone(H, G, kind) \subseteq HeldBy(H, kind)
      /\ Gone(H, G, kind) \subseteq DOMAIN H
    BY HeldFinite DEF HeldBy, Gone
<1>2. HeldBy(G, kind) = HeldBy(H, kind) \ Gone(H, G, kind)
    BY DEF HeldBy, Gone, SameFiles
<1> QED BY <1>1, <1>2, CardMinus, CachedFinite

\* The same when a new entry e has been inserted.
LEMMA HeldAfterInsert ==
    ASSUME NEW H, NEW G, Handles(H), Handles(G), SameFiles(H, G),
           NEW e, DOMAIN G \subseteq DOMAIN H \union {e}, e \in DOMAIN G, e \notin DOMAIN H,
           NEW kind, NEW b, b = OneIf(G[e].kind = kind)
    PROVE  /\ Cardinality(HeldBy(G, kind))
                = Cardinality(HeldBy(H, kind)) - Cardinality(Gone(H, G, kind)) + b
           /\ Cardinality(Gone(H, G, kind)) \in Nat
<1> DEFINE R == HeldBy(H, kind) \ Gone(H, G, kind)
<1>1. /\ IsFiniteSet(HeldBy(H, kind)) /\ Gone(H, G, kind) \subseteq HeldBy(H, kind)
      /\ Gone(H, G, kind) \subseteq DOMAIN H /\ Cardinality(HeldBy(H, kind)) \in Nat
    BY HeldFinite DEF HeldBy, Gone
<1>2. HeldBy(G, kind) = IF G[e].kind = kind THEN R \union {e} ELSE R
    BY DEF HeldBy, Gone, SameFiles
<1>3. Cardinality(R) = Cardinality(HeldBy(H, kind)) - Cardinality(Gone(H, G, kind))
    BY <1>1, CardMinus
<1>4. IsFiniteSet(R) /\ e \notin R
    BY <1>1, FS_Difference DEF HeldBy
<1>5. Cardinality(R \union {e}) = Cardinality(R) + 1
    BY <1>4, FS_AddElement
<1>6. Cardinality(Gone(H, G, kind)) \in Nat
    BY <1>1, CachedFinite
<1> HIDE DEF R
<1> QED BY <1>1, <1>2, <1>3, <1>5, <1>6 DEF OneIf

\* How much a step adds to what is held: by the cache, by t, or being mapped.
More(P, Q, t, place) == AtOne(Q, t, place) - AtOne(P, t, place)
MoreKind(P, Q, t, kind) == KindOne(Q, t, kind) - KindOne(P, t, kind)
MoreHeld(H, G, kind) == Cardinality(HeldBy(G, kind)) - Cardinality(HeldBy(H, kind))
MoreMaps(H, G, P, Q, t) == MoreHeld(H, G, "mmap") + MoreKind(P, Q, t, "mmap") + More(P, Q, t, "map")
MoreFds(H, G, P, Q, t) == MoreHeld(H, G, "fd") + MoreKind(P, Q, t, "fd")

\* Each limiter, at n, takes what the step adds and what it takes to put back.
Takes(n, n2, x, failed) == n2 = n - x - failed /\ (x <= 0 \/ (x = 1 /\ n > 0))

\* A step that takes from each limiter what it adds keeps them exact.
LEMMA LimitsStep ==
    ASSUME NEW H, NEW G, NEW P, NEW Q, NEW t, Handles(H), Handles(G), Steps(P, Q, t),
           NEW m, NEW f, NEW m2, NEW f2, Limits(H, P, m, f),
           Takes(m, m2, MoreMaps(H, G, P, Q, t), More(P, Q, t, "noMap")),
           Takes(f, f2, MoreFds(H, G, P, Q, t), More(P, Q, t, "noDescriptor"))
    PROVE  Limits(G, Q, m2, f2)
<1> DEFINE hm == Cardinality(HeldBy(H, "mmap"))
           hf == Cardinality(HeldBy(H, "fd"))
           gm == Cardinality(HeldBy(G, "mmap"))
           gf == Cardinality(HeldBy(G, "fd"))
           km == Cardinality(WithKind(P, "mmap"))
           kf == Cardinality(WithKind(P, "fd"))
           jm == Cardinality(WithKind(Q, "mmap"))
           jf == Cardinality(WithKind(Q, "fd"))
           am == Cardinality(At(P, "map"))
           an == Cardinality(At(P, "noMap"))
           ad == Cardinality(At(P, "noDescriptor"))
           bm == Cardinality(At(Q, "map"))
           bn == Cardinality(At(Q, "noMap"))
           bd == Cardinality(At(Q, "noDescriptor"))
           dkm == MoreKind(P, Q, t, "mmap")
           dkf == MoreKind(P, Q, t, "fd")
           dam == More(P, Q, t, "map")
           dan == More(P, Q, t, "noMap")
           dad == More(P, Q, t, "noDescriptor")
           x == MoreMaps(H, G, P, Q, t)
           y == MoreFds(H, G, P, Q, t)
<1>1. /\ hm \in Nat /\ hf \in Nat /\ gm \in Nat /\ gf \in Nat
    BY HeldFinite
<1>2. /\ km \in Nat /\ kf \in Nat /\ am \in Nat /\ an \in Nat /\ ad \in Nat
    BY StepCounts
<1>3. \A v : /\ AtOne(P, t, v) \in Int /\ AtOne(Q, t, v) \in Int
             /\ KindOne(P, t, v) \in Int /\ KindOne(Q, t, v) \in Int
    BY DEF AtOne, KindOne
<1>4. /\ dkm \in Int /\ dkf \in Int /\ dam \in Int /\ dan \in Int /\ dad \in Int
    BY <1>3 DEF More, MoreKind
<1>5. jm = km + dkm /\ jf = kf + dkf
    BY <1>2, <1>3, StepCounts DEF MoreKind
<1>6. bm = am + dam /\ bn = an + dan /\ bd = ad + dad
    BY <1>2, <1>3, StepCounts DEF More
<1>7. /\ (hm + km) + am <= MaxMmaps /\ hf + kf <= MaxFds
      /\ m = MaxMmaps - (hm + km) - am - an /\ f = MaxFds - (hf + kf) - ad
    BY DEF Limits
<1>8. x = (gm - hm) + dkm + dam /\ y = (gf - hf) + dkf
    BY DEF MoreHeld, MoreMaps, MoreFds
<1>9. MaxMmaps \in Nat /\ MaxFds \in Nat
    BY CacheAssumption
<1>10. /\ m2 = m - x - dan /\ f2 = f - y - dad
       /\ (x <= 0 \/ (x = 1 /\ m > 0)) /\ (y <= 0 \/ (y = 1 /\ f > 0))
    BY DEF Takes
<1> HIDE DEF hm, hf, gm, gf, km, kf, jm, jf, am, an, ad, bm, bn, bd, dkm, dkf, dam, dan, dad, x, y
<1>11. /\ (gm + jm) + bm <= MaxMmaps /\ gf + jf <= MaxFds
       /\ m2 = MaxMmaps - (gm + jm) - bm - bn /\ f2 = MaxFds - (gf + jf) - bd
    BY <1>1, <1>2, <1>4, <1>5, <1>6, <1>7, <1>8, <1>9, <1>10
<1> QED BY <1>11 DEF Limits, gm, gf, jm, jf, bm, bn, bd

-----------------------------------------------------------------------------
(***************************************************************************)
(* The inductive invariant.                                                *)
(***************************************************************************)

Places == {"idle", "open", "map", "noMap", "descriptor", "noDescriptor", "opened", "use"}

ThreadOK(r) ==
    /\ r \in [at : Places, key : File \union {None}, handle : Nat \union {None},
              kind : Kind \union {None}]
    /\ r.key = None <=> r.at = "idle"
    /\ r.handle # None <=> r.at = "use"
    /\ r.kind # None <=> r.at = "opened"

PcOK(P) ==
    /\ DOMAIN P = Thread /\ P = [t \in DOMAIN P |-> P[t]]
    /\ \A t \in Thread : ThreadOK(P[t])

UsesKey(H, P) == \A t \in Thread : P[t].handle # None => H[P[t].handle].key = P[t].key

OnDisk(H, P, D) ==
    /\ \A t \in Thread : P[t].key # None => P[t].key \in D
    /\ \A e \in DOMAIN H : H[e].key \in D

Good(c, P, D) == CacheOK(c, P) /\ PcOK(P) /\ UsesKey(c.H, P) /\ OnDisk(c.H, P, D)

FilesOK(L, D, n) == L \subseteq D /\ D \subseteq File /\ n \in 0..MaxErrors

TCInv ==
    /\ Good(Cache, pc, disk)
    /\ Limits(handles, pc, mmapAllowed, fdAllowed)
    /\ FilesOK(live, disk, errors)

\* The fields of Cache are the variables.
LEMMA CacheFields ==
    /\ Cache.H = handles /\ Cache.lru = lru_ /\ Cache.used = in_use_
    /\ Cache.list = list_ /\ Cache.elems = elems_ /\ Cache.usage = usage_
    /\ Shaped(Cache)
  BY DEF Cache, Shaped, Fields

\* The cache only looks at the handles that threads have.
LEMMA CacheSame ==
    ASSUME NEW c, NEW P, NEW Q, CacheOK(c, P), \A t \in Thread : Q[t].handle = P[t].handle
    PROVE  CacheOK(c, Q)
<1>1. \A e : UsersIn(Q, e) = UsersIn(P, e)
    BY DEF UsersIn
<1>2. Counted(c.H, Q)
    BY <1>1 DEF CacheOK, Body, Counted
<1>3. Held(c.H, Q)
    BY DEF CacheOK, Body, Held
<1>4. Lists(c.H, Q, c.lru, c.used)
    BY <1>1 DEF CacheOK, Body, Lists
<1> QED BY <1>2, <1>3, <1>4 DEF CacheOK, Body

\* A cache without entries.
LEMMA EmptyOK ==
    ASSUME NEW c, NEW P, Shaped(c), DOMAIN c.H = {}, c.H = [e \in DOMAIN c.H |-> c.H[e]],
           c.lru = <<>>, c.used = {}, c.list = Empty(kMinLength), c.elems = 0, c.usage = 0,
           \A t \in Thread : P[t].handle = None
    PROVE  CacheOK(c, P)
<1>1. Cached(c.H) = {}
    BY DEF Cached
<1>2. Handles(c.H) /\ Counted(c.H, P) /\ Held(c.H, P)
    BY FS_EmptySet DEF Handles, Counted, Held
<1>3. Lists(c.H, P, c.lru, c.used)
    BY <1>1 DEF Lists, ToSet, IsInjective
<1>4. SumCharge(c.H, Cached(c.H)) = 0 /\ Cardinality(Cached(c.H)) = 0
  <2>1. UNION {{e} \X (1..Charge[c.H[e].key]) : e \in {}} = {}
    OBVIOUS
  <2> QED BY <1>1, <2>1, FS_EmptySet DEF SumCharge
<1>5. Table(c.H, c.list)
  <2> DEFINE l == Empty(kMinLength)
  <2>1. kMinLength \in Nat \ {0}
    BY CacheAssumption
  <2>2. DOMAIN l = 0..(kMinLength - 1) /\ l = [b \in DOMAIN l |-> l[b]]
    BY DEF Empty
  <2>3. \A b \in DOMAIN l : l[b] = <<>>
    BY DEF Empty
  <2>4. Length(l) = kMinLength
    <3>1. Cardinality(0..(kMinLength - 1)) = kMinLength
      BY <2>1, FS_Interval
    <3> QED BY <2>2, <3>1 DEF Length
  <2> HIDE DEF l
  <2>5. \A b \in DOMAIN l :
           /\ l[b] \in Seq(DOMAIN c.H) /\ IsInjective(l[b])
           /\ ToSet(l[b]) = {e \in Cached(c.H) : Bucket(l, c.H[e].key) = b}
    <3>1. <<>> \in Seq(DOMAIN c.H) /\ IsInjective(<<>>) /\ ToSet(<<>>) = {}
      BY DEF ToSet, IsInjective
    <3>2. \A b : {e \in Cached(c.H) : Bucket(l, c.H[e].key) = b} = {}
      BY <1>1
    <3> QED BY <2>3, <3>1, <3>2
  <2>6. Table(c.H, l)
    BY <1>1, <2>1, <2>2, <2>4, <2>5 DEF Table
  <2> QED BY <2>6 DEF l
<1>6. Body(c.H, c.lru, c.used, c.usage, P)
    BY <1>2, <1>3, <1>4 DEF Body
<1> QED BY <1>4, <1>5, <1>6 DEF CacheOK, Shaped

\* Thread t goes on to r, the others do not move.
Moved(P, Q, t, r) ==
    /\ t \in Thread /\ DOMAIN Q = DOMAIN P /\ Q = [u \in DOMAIN Q |-> Q[u]]
    /\ Q[t] = r /\ \A u \in Thread \ {t} : Q[u] = P[u]

\* The threads are in order after the step of one.
LEMMA PcStep ==
    ASSUME NEW P, NEW Q, NEW t, NEW r, PcOK(P), Moved(P, Q, t, r), ThreadOK(r)
    PROVE  PcOK(Q) /\ Steps(P, Q, t) /\ Moves(P, Q, t) /\ Q[t] = r
<1>1. \A u \in Thread : ThreadOK(Q[u])
    BY DEF PcOK, Moved
<1> QED BY <1>1 DEF PcOK, Moved, Steps, Moves

\* A step of a thread outside of the cache.
LEMMA GoodThread ==
    ASSUME NEW c, NEW P, NEW Q, NEW t, NEW r, NEW D, Good(c, P, D), Moved(P, Q, t, r),
           ThreadOK(r), r.handle = None, P[t].handle = None, r.key \in D \union {None}
    PROVE  Good(c, Q, D) /\ Steps(P, Q, t) /\ Q[t] = r
<1>1. PcOK(Q) /\ Steps(P, Q, t) /\ Q[t] = r
    BY PcStep DEF Good
<1>2. \A u \in Thread : Q[u].handle = P[u].handle
    BY <1>1 DEF Steps
<1>3. CacheOK(c, Q)
    BY <1>2, CacheSame DEF Good
<1>4. UsesKey(c.H, Q)
    BY <1>1 DEF Good, UsesKey, Steps
<1>5. OnDisk(c.H, Q, D)
    BY <1>1 DEF Good, OnDisk, Steps
<1> QED BY <1>1, <1>3, <1>4, <1>5 DEF Good

\* A step of a thread in the cache.
LEMMA GoodStep ==
    ASSUME NEW c, NEW d, NEW P, NEW Q, NEW t, NEW r, NEW D, Good(c, P, D), Moved(P, Q, t, r),
           ThreadOK(r), CacheOK(d, Q), SameFiles(c.H, d.H), r.key \in D \union {None},
           r.handle # None => d.H[r.handle].key = r.key,
           \A e \in DOMAIN d.H \ DOMAIN c.H : d.H[e].key \in D
    PROVE  Good(d, Q, D)
<1>1. PcOK(Q) /\ Steps(P, Q, t) /\ Q[t] = r
    BY PcStep DEF Good
<1>2. Held(c.H, P) /\ Held(d.H, Q)
    BY DEF Good, CacheOK, Body
<1>3. UsesKey(d.H, Q)
  <2> SUFFICES ASSUME NEW u \in Thread, Q[u].handle # None
               PROVE  d.H[Q[u].handle].key = Q[u].key
    BY DEF UsesKey
  <2>1. CASE u = t
    BY <1>1, <2>1
  <2>2. CASE u # t
    <3>1. Q[u] = P[u]
      BY <1>1, <2>2 DEF Steps
    <3>2. P[u].handle \in DOMAIN c.H /\ P[u].handle \in DOMAIN d.H
      BY <3>1, <1>2 DEF Held
    <3>3. c.H[P[u].handle].key = P[u].key
      BY <3>1 DEF Good, UsesKey
    <3> QED BY <3>1, <3>2, <3>3 DEF SameFiles
  <2> QED BY <2>1, <2>2
<1>4. \A e \in DOMAIN d.H : d.H[e].key \in D
    BY DEF Good, OnDisk, SameFiles
<1>5. \A u \in Thread : Q[u].key # None => Q[u].key \in D
    BY <1>1 DEF Good, OnDisk, Steps
<1> QED BY <1>1, <1>3, <1>4, <1>5 DEF Good, OnDisk

\* A step of the cache alone.
LEMMA GoodAlone ==
    ASSUME NEW c, NEW d, NEW P, NEW D, NEW E, Good(c, P, D), CacheOK(d, P),
           SameFiles(c.H, d.H), DOMAIN d.H \subseteq DOMAIN c.H, E \subseteq D,
           \A t \in Thread : P[t].key \in D \ E => P[t].key = None,
           \A e \in DOMAIN d.H : d.H[e].key \in E
    PROVE  Good(d, P, E)
<1>1. Held(d.H, P)
    BY DEF CacheOK, Body
<1>2. UsesKey(d.H, P)
    BY <1>1 DEF Good, UsesKey, Held, SameFiles
<1>3. OnDisk(d.H, P, E)
    BY DEF Good, OnDisk
<1> QED BY <1>2, <1>3 DEF Good

-----------------------------------------------------------------------------
(***************************************************************************)
(* What an operation of the cache does to the limiters.                    *)
(***************************************************************************)

Closed(H, G, kind) == Cardinality(Gone(H, G, kind))
Gives(n, n2, x) == n2 = n + x

\* Becomes gives back what the deleted entries held.
LEMMA BecomesAre ==
    ASSUME NEW d, Shaped(d), Becomes(d)
    PROVE  /\ Cache' = d /\ handles' = d.H
           /\ Gives(mmapAllowed, mmapAllowed', Closed(handles, d.H, "mmap"))
           /\ Gives(fdAllowed, fdAllowed', Closed(handles, d.H, "fd"))
<1>1. /\ handles' = d.H /\ lru_' = d.lru /\ in_use_' = d.used
      /\ list_' = d.list /\ elems_' = d.elems /\ usage_' = d.usage
    BY DEF Becomes
<1>2. Cache' = d
    BY <1>1 DEF Cache, Shaped, Fields
<1>3. /\ Gives(mmapAllowed, mmapAllowed', Closed(handles, d.H, "mmap"))
      /\ Gives(fdAllowed, fdAllowed', Closed(handles, d.H, "fd"))
    BY DEF Becomes, Closed, Gone, Gives
<1> QED BY <1>1, <1>2, <1>3

\* The limiters are integers; they may be below 0 while Acquire fails.
LEMMA LimitsType ==
    ASSUME NEW H, NEW P, NEW m, NEW f, Handles(H), Limits(H, P, m, f)
    PROVE  m \in Int /\ f \in Int
<1>1. \A v : Cardinality(At(P, v)) \in Nat /\ Cardinality(WithKind(P, v)) \in Nat
  <2> SUFFICES ASSUME NEW v PROVE Cardinality(At(P, v)) \in Nat /\ Cardinality(WithKind(P, v)) \in Nat
    OBVIOUS
  <2>1. At(P, v) \in SUBSET Thread /\ WithKind(P, v) \in SUBSET Thread /\ IsFiniteSet(Thread)
    BY CacheAssumption DEF At, WithKind
  <2> QED BY <2>1, FS_Subset, FS_CardinalityType
<1>2. \A v : Cardinality(HeldBy(H, v)) \in Nat
    BY HeldFinite
<1>3. MaxMmaps \in Nat /\ MaxFds \in Nat
    BY CacheAssumption
<1> QED BY <1>1, <1>2, <1>3 DEF Limits

\* The cache gets rid of entries; the threads hold what they held.
LEMMA LimitsAlone ==
    ASSUME NEW H, NEW G, NEW P, NEW m, NEW f, NEW m2, NEW f2, Limits(H, P, m, f),
           Handles(H), Handles(G), SameFiles(H, G), DOMAIN G \subseteq DOMAIN H,
           Gives(m, m2, Closed(H, G, "mmap")), Gives(f, f2, Closed(H, G, "fd"))
    PROVE  Limits(G, P, m2, f2)
<1> DEFINE hm == Cardinality(HeldBy(H, "mmap"))
           hf == Cardinality(HeldBy(H, "fd"))
           gm == Cardinality(HeldBy(G, "mmap"))
           gf == Cardinality(HeldBy(G, "fd"))
           cm == Closed(H, G, "mmap")
           cf == Closed(H, G, "fd")
           km == Cardinality(WithKind(P, "mmap"))
           kf == Cardinality(WithKind(P, "fd"))
           am == Cardinality(At(P, "map"))
           an == Cardinality(At(P, "noMap"))
           ad == Cardinality(At(P, "noDescriptor"))
<1>1. /\ hm \in Nat /\ hf \in Nat /\ gm \in Nat /\ gf \in Nat
    BY HeldFinite
<1>2. /\ gm = hm - cm /\ gf = hf - cf /\ cm \in Nat /\ cf \in Nat
    BY HeldAfter DEF Closed
<1>3. \A v : At(P, v) \in SUBSET Thread /\ WithKind(P, v) \in SUBSET Thread /\ IsFiniteSet(Thread)
    BY CacheAssumption DEF At, WithKind
<1>4. km \in Nat /\ kf \in Nat /\ am \in Nat /\ an \in Nat /\ ad \in Nat
    BY <1>3, FS_Subset, FS_CardinalityType
<1>5. /\ (hm + km) + am <= MaxMmaps /\ hf + kf <= MaxFds
      /\ m = MaxMmaps - (hm + km) - am - an /\ f = MaxFds - (hf + kf) - ad
    BY DEF Limits
<1>6. MaxMmaps \in Nat /\ MaxFds \in Nat
    BY CacheAssumption
<1>7. m2 = m + cm /\ f2 = f + cf
    BY DEF Gives
<1> HIDE DEF hm, hf, gm, gf, cm, cf, km, kf, am, an, ad
<1>8. (gm + km) + am <= MaxMmaps /\ m2 = MaxMmaps - (gm + km) - am - an
    BY <1>1, <1>2, <1>4, <1>5, <1>6, <1>7
<1>9. gf + kf <= MaxFds /\ f2 = MaxFds - (gf + kf) - ad
    BY <1>1, <1>2, <1>4, <1>5, <1>6, <1>7
<1> QED BY <1>8, <1>9 DEF Limits, gm, gf, km, kf, am, an, ad

\* Thread t gets or gives back a handle, and the cache gets rid of entries.
LEMMA LimitsHandle ==
    ASSUME NEW H, NEW G, NEW P, NEW Q, NEW t, NEW m, NEW f, NEW m2, NEW f2,
           Limits(H, P, m, f), Steps(P, Q, t), P[t].at \in {"idle", "use"},
           Q[t].at \in {"idle", "use"}, P[t].kind = None, Q[t].kind = None,
           Handles(H), Handles(G), SameFiles(H, G), DOMAIN G \subseteq DOMAIN H,
           Gives(m, m2, Closed(H, G, "mmap")), Gives(f, f2, Closed(H, G, "fd"))
    PROVE  Limits(G, Q, m2, f2)
<1>1. \A v \in {"map", "noMap", "noDescriptor"} : At(Q, v) = At(P, v)
    BY DEF At, Steps
<1>2. \A v \in {"mmap", "fd"} : WithKind(Q, v) = WithKind(P, v)
    BY DEF WithKind, Steps
<1>3. Limits(G, P, m2, f2)
    BY LimitsAlone
<1> QED BY <1>1, <1>2, <1>3 DEF Limits

\* Thread t gives the file object of the kind it holds to a new entry e.
LEMMA LimitsInsert ==
    ASSUME NEW H, NEW G, NEW P, NEW Q, NEW t, NEW m, NEW f, NEW m2, NEW f2,
           Limits(H, P, m, f), Steps(P, Q, t), P[t].at = "opened", Q[t].at = "use",
           Q[t].kind = None, P[t].kind \in Kind,
           Handles(H), Handles(G), SameFiles(H, G),
           NEW e, DOMAIN G \subseteq DOMAIN H \union {e}, e \in DOMAIN G, e \notin DOMAIN H,
           G[e].kind = P[t].kind,
           Gives(m, m2, Closed(H, G, "mmap")), Gives(f, f2, Closed(H, G, "fd"))
    PROVE  Limits(G, Q, m2, f2)
<1> DEFINE cm == Closed(H, G, "mmap")
           cf == Closed(H, G, "fd")
           x == MoreMaps(H, G, P, Q, t)
           y == MoreFds(H, G, P, Q, t)
<1>1. /\ More(P, Q, t, "map") = 0 /\ More(P, Q, t, "noMap") = 0
      /\ More(P, Q, t, "noDescriptor") = 0
    BY DEF More, AtOne
<1>2. \A v \in {"mmap", "fd"} : MoreKind(P, Q, t, v) = 0 - KindOne(P, t, v) /\ KindOne(P, t, v) \in Int
    BY CacheAssumption DEF MoreKind, KindOne, Kind
<1>3. \A v : OneIf(G[e].kind = v) = KindOne(P, t, v)
    BY DEF OneIf, KindOne
<1>4. \A v \in {"mmap", "fd"} : /\ MoreHeld(H, G, v) = 0 - Closed(H, G, v) + KindOne(P, t, v)
                                /\ Closed(H, G, v) \in Nat
  <2> SUFFICES ASSUME NEW v \in {"mmap", "fd"}
               PROVE  /\ MoreHeld(H, G, v) = 0 - Closed(H, G, v) + KindOne(P, t, v)
                      /\ Closed(H, G, v) \in Nat
    OBVIOUS
  <2> DEFINE b == KindOne(P, t, v)
  <2>1. b = OneIf(G[e].kind = v) /\ b \in Int
    BY <1>2, <1>3
  <2> HIDE DEF b
  <2>2. /\ Cardinality(HeldBy(G, v)) = Cardinality(HeldBy(H, v)) - Closed(H, G, v) + b
        /\ Closed(H, G, v) \in Nat
    BY <2>1, HeldAfterInsert DEF Closed
  <2>3. Cardinality(HeldBy(G, v)) \in Nat /\ Cardinality(HeldBy(H, v)) \in Nat
    BY HeldFinite
  <2>4. MoreHeld(H, G, v) = 0 - Closed(H, G, v) + b
    BY <2>1, <2>2, <2>3 DEF MoreHeld
  <2> QED BY <2>2, <2>4 DEF b
<1>5. x = 0 - cm /\ y = 0 - cf /\ cm \in Nat /\ cf \in Nat
    BY <1>1, <1>2, <1>4 DEF MoreMaps, MoreFds
<1>6. m \in Int /\ f \in Int
    BY LimitsType
<1>7. Takes(m, m2, x, More(P, Q, t, "noMap")) /\ Takes(f, f2, y, More(P, Q, t, "noDescriptor"))
  <2>1. m2 = m + cm /\ f2 = f + cf
    BY DEF Gives
  <2> HIDE DEF x, y, cm, cf
  <2> QED BY <1>1, <1>5, <1>6, <2>1 DEF Takes
<1> QED BY <1>7, LimitsStep

\* Thread t opens its file; the cache does nothing.
LEMMA LimitsThread ==
    ASSUME NEW H, NEW P, NEW Q, NEW t, NEW m, NEW f, NEW m2, NEW f2,
           Limits(H, P, m, f), Steps(P, Q, t), Handles(H),
           NEW x, x = MoreKind(P, Q, t, "mmap") + More(P, Q, t, "map"),
           NEW y, y = MoreKind(P, Q, t, "fd"),
           Takes(m, m2, x, More(P, Q, t, "noMap")), Takes(f, f2, y, More(P, Q, t, "noDescriptor"))
    PROVE  Limits(H, Q, m2, f2)
<1>1. \A v : MoreHeld(H, H, v) = 0
    BY HeldFinite DEF MoreHeld
<1>2. \A v : MoreKind(P, Q, t, v) \in Int /\ More(P, Q, t, v) \in Int
    BY DEF MoreKind, More, KindOne, AtOne
<1>3. MoreMaps(H, H, P, Q, t) = x /\ MoreFds(H, H, P, Q, t) = y
    BY <1>1, <1>2 DEF MoreMaps, MoreFds
<1> QED BY <1>3, LimitsStep

-----------------------------------------------------------------------------
(***************************************************************************)
(* Opening a file: the steps of a thread outside of the cache.             *)
(***************************************************************************)

Rec(a, k, h, d) == [at |-> a, key |-> k, handle |-> h, kind |-> d]
Is(a, v) == IF a = v THEN 1 ELSE 0

\* The fields of the state of a thread.
LEMMA RecFields ==
    ASSUME NEW a, NEW k, NEW h, NEW d
    PROVE  /\ Rec(a, k, h, d).at = a /\ Rec(a, k, h, d).key = k
           /\ Rec(a, k, h, d).handle = h /\ Rec(a, k, h, d).kind = d
  BY DEF Rec

\* What makes the state of a thread correct.
LEMMA RecOK ==
    ASSUME NEW a \in Places, NEW k \in File \union {None}, NEW h \in Nat \union {None},
           NEW d \in Kind \union {None},
           k = None <=> a = "idle", h # None <=> a = "use", d # None <=> a = "opened"
    PROVE  ThreadOK(Rec(a, k, h, d))
<1>1. Rec(a, k, h, d) \in [at : Places, key : File \union {None}, handle : Nat \union {None},
                           kind : Kind \union {None}]
    BY DEF Rec
<1> QED BY <1>1, RecFields DEF ThreadOK

\* What is known of a thread before its step.
LEMMA ThreadFacts ==
    ASSUME TCInv, NEW t \in Thread
    PROVE  /\ pc[t] = Rec(pc[t].at, pc[t].key, pc[t].handle, pc[t].kind)
           /\ pc[t].at \in Places /\ pc[t].key \in File \union {None}
           /\ pc[t].handle \in Nat \union {None} /\ pc[t].kind \in Kind \union {None}
           /\ pc[t].key = None <=> pc[t].at = "idle"
           /\ pc[t].handle # None <=> pc[t].at = "use"
           /\ pc[t].kind # None <=> pc[t].at = "opened"
           /\ pc[t].key # None => pc[t].key \in disk
           /\ mmapAllowed \in Int /\ fdAllowed \in Int /\ errors \in 0..MaxErrors
           /\ None \notin File /\ None \notin Kind /\ None \notin Nat /\ MaxErrors \in Nat
           /\ disk \subseteq File /\ live \subseteq disk
<1>1. ThreadOK(pc[t])
    BY DEF TCInv, Good, PcOK
<1>2. /\ pc[t] \in [at : Places, key : File \union {None}, handle : Nat \union {None},
                    kind : Kind \union {None}]
      /\ pc[t].key = None <=> pc[t].at = "idle"
      /\ pc[t].handle # None <=> pc[t].at = "use"
      /\ pc[t].kind # None <=> pc[t].at = "opened"
    BY <1>1 DEF ThreadOK
<1>3. pc[t] = Rec(pc[t].at, pc[t].key, pc[t].handle, pc[t].kind)
    BY <1>2 DEF Rec
<1>4. /\ pc[t].at \in Places /\ pc[t].key \in File \union {None}
      /\ pc[t].handle \in Nat \union {None} /\ pc[t].kind \in Kind \union {None}
    BY <1>2
<1>5. pc[t].key # None => pc[t].key \in disk
    BY DEF TCInv, Good, OnDisk
<1>6. Handles(handles)
    BY CacheFields DEF TCInv, Good, CacheOK, Body
<1>7. mmapAllowed \in Int /\ fdAllowed \in Int
    BY <1>6, LimitsType DEF TCInv
<1>8. disk \subseteq File /\ live \subseteq disk /\ errors \in 0..MaxErrors
    BY DEF TCInv, FilesOK
<1>9. None \notin File /\ None \notin Kind /\ None \notin Nat /\ MaxErrors \in Nat
    BY CacheAssumption
<1> QED BY <1>2, <1>3, <1>4, <1>5, <1>7, <1>8, <1>9

\* An assignment to the state of one thread.
LEMMA MovedTo ==
    ASSUME TCInv, NEW t \in Thread, NEW r, pc' = [pc EXCEPT ![t] = r]
    PROVE  Moved(pc, pc', t, r)
<1>1. DOMAIN pc = Thread
    BY DEF TCInv, Good, PcOK
<1> QED BY <1>1 DEF Moved

\* Goto changes the place only.
LEMMA MovedAt ==
    ASSUME TCInv, NEW t \in Thread, NEW a, Goto(t, a)
    PROVE  Moved(pc, pc', t, Rec(a, pc[t].key, pc[t].handle, pc[t].kind))
<1>1. DOMAIN pc = Thread
    BY DEF TCInv, Good, PcOK
<1>2. pc[t] = Rec(pc[t].at, pc[t].key, pc[t].handle, pc[t].kind)
    BY ThreadFacts
<1>3. [pc[t] EXCEPT !.at = a] = Rec(a, pc[t].key, pc[t].handle, pc[t].kind)
    BY <1>2 DEF Rec
<1>4. pc' = [pc EXCEPT ![t] = [pc[t] EXCEPT !.at = a]]
    BY <1>1 DEF Goto
<1> QED BY <1>3, <1>4, MovedTo

\* A step that changes the place and the file object.
LEMMA MovedKind ==
    ASSUME TCInv, NEW t \in Thread, NEW a, NEW d, pc' = [pc EXCEPT ![t].at = a, ![t].kind = d]
    PROVE  Moved(pc, pc', t, Rec(a, pc[t].key, pc[t].handle, d))
<1>1. DOMAIN pc = Thread
    BY DEF TCInv, Good, PcOK
<1>2. pc[t] = Rec(pc[t].at, pc[t].key, pc[t].handle, pc[t].kind)
    BY ThreadFacts
<1>3. [[pc[t] EXCEPT !.at = a] EXCEPT !.kind = d] = Rec(a, pc[t].key, pc[t].handle, d)
  <2>1. [pc[t] EXCEPT !.at = a] = Rec(a, pc[t].key, pc[t].handle, pc[t].kind)
    BY <1>2 DEF Rec
  <2>2. [Rec(a, pc[t].key, pc[t].handle, pc[t].kind) EXCEPT !.kind = d]
          = Rec(a, pc[t].key, pc[t].handle, d)
    BY DEF Rec
  <2> QED BY <2>1, <2>2
<1>4. pc' = [pc EXCEPT ![t] = [[pc[t] EXCEPT !.at = a] EXCEPT !.kind = d]]
    BY <1>1
<1> QED BY <1>3, <1>4, MovedTo

\* Idle, by its fields.
LEMMA IdleIs == Idle = Rec("idle", None, None, None)
  BY DEF Idle, Rec

\* A step of a thread outside of the cache preserves the invariant if the
\* limiters take what it adds.
LEMMA ThreadStep ==
    ASSUME TCInv, NEW t \in Thread, NEW a \in Places, NEW k \in disk \union {None},
           NEW d \in Kind \union {None},
           k = None <=> a = "idle", a # "use", d # None <=> a = "opened", pc[t].at # "use",
           Moved(pc, pc', t, Rec(a, k, None, d)), UNCHANGED cache, UNCHANGED <<live, disk>>,
           errors' \in 0..MaxErrors,
           Takes(mmapAllowed, mmapAllowed',
                 (Is(d, "mmap") - Is(pc[t].kind, "mmap")) + (Is(a, "map") - Is(pc[t].at, "map")),
                 Is(a, "noMap") - Is(pc[t].at, "noMap")),
           Takes(fdAllowed, fdAllowed', Is(d, "fd") - Is(pc[t].kind, "fd"),
                 Is(a, "noDescriptor") - Is(pc[t].at, "noDescriptor"))
    PROVE  TCInv'
<1> DEFINE r == Rec(a, k, None, d)
<1>1. /\ pc[t].handle = None /\ disk \subseteq File /\ live \subseteq disk
    BY ThreadFacts
<1>2. ThreadOK(r)
    BY <1>1, RecOK
<1>3. r.handle = None /\ r.key \in disk \union {None} /\ r.at = a /\ r.kind = d
    BY RecFields
<1>4. Cache' = Cache /\ handles' = handles
    BY DEF cache, Cache
<1> HIDE DEF r
<1>5. Good(Cache, pc', disk) /\ Steps(pc, pc', t) /\ pc'[t] = r
    <2>1. Good(Cache, pc, disk) /\ Moved(pc, pc', t, r)
      BY DEF TCInv, r
    <2> QED BY <2>1, <1>1, <1>2, <1>3, GoodThread
<1>6. Limits(handles, pc', mmapAllowed', fdAllowed')
  <2>1. Handles(handles) /\ Limits(handles, pc, mmapAllowed, fdAllowed)
    BY CacheFields DEF TCInv, Good, CacheOK, Body
  <2>2. pc'[t].at = a /\ pc'[t].kind = d
    BY <1>3, <1>5
  <2>3. \A v : /\ AtOne(pc, t, v) = Is(pc[t].at, v) /\ AtOne(pc', t, v) = Is(a, v)
               /\ KindOne(pc, t, v) = Is(pc[t].kind, v) /\ KindOne(pc', t, v) = Is(d, v)
    BY <2>2 DEF AtOne, KindOne, Is
  <2>4. \A v : /\ More(pc, pc', t, v) = Is(a, v) - Is(pc[t].at, v)
               /\ MoreKind(pc, pc', t, v) = Is(d, v) - Is(pc[t].kind, v)
    BY <2>3 DEF More, MoreKind
  <2>5. /\ Takes(mmapAllowed, mmapAllowed', MoreKind(pc, pc', t, "mmap") + More(pc, pc', t, "map"),
                 More(pc, pc', t, "noMap"))
        /\ Takes(fdAllowed, fdAllowed', MoreKind(pc, pc', t, "fd"),
                 More(pc, pc', t, "noDescriptor"))
    BY <2>4
  <2> QED BY <2>1, <2>5, <1>5, LimitsThread
<1>7. FilesOK(live', disk', errors')
    BY DEF FilesOK, TCInv
<1> QED BY <1>4, <1>5, <1>6, <1>7 DEF TCInv

\* Places and None are not kinds of file objects.
LEMMA StringsApart ==
    /\ \A a \in Places : a \notin {"mmap", "fd"}
    /\ None \notin {"mmap", "fd", "reopen"}
  BY CacheAssumption DEF Places, Kind

\* A failed Acquire has taken one from the limiter, too.
LEMMA OpenOK == ASSUME TCInv, NEW t \in Thread, Open(t) PROVE TCInv'
<1>1. /\ pc[t].at = "open" /\ pc[t].kind = None /\ pc[t].handle = None /\ pc[t].key \in disk
      /\ pc[t].key # None /\ mmapAllowed \in Int /\ fdAllowed \in Int
    BY ThreadFacts DEF Open
<1>2. /\ UNCHANGED cache /\ UNCHANGED <<live, disk>> /\ errors' \in 0..MaxErrors
      /\ mmapAllowed' = mmapAllowed - 1 /\ fdAllowed' = fdAllowed
    BY ThreadFacts DEF Open
<1>3. CASE mmapAllowed > 0
  <2>1. Moved(pc, pc', t, Rec("map", pc[t].key, None, None))
    <3>1. Goto(t, "map")
      BY <1>3 DEF Open
    <3> QED BY <1>1, <3>1, MovedAt
  <2>2. Takes(mmapAllowed, mmapAllowed',
              (Is(None, "mmap") - Is(pc[t].kind, "mmap")) + (Is("map", "map") - Is(pc[t].at, "map")),
              Is("map", "noMap") - Is(pc[t].at, "noMap"))
    BY <1>1, <1>2, <1>3, StringsApart DEF Takes, Is
  <2>3. Takes(fdAllowed, fdAllowed', Is(None, "fd") - Is(pc[t].kind, "fd"),
              Is("map", "noDescriptor") - Is(pc[t].at, "noDescriptor"))
    BY <1>1, <1>2, <1>3, StringsApart DEF Takes, Is
  <2>4. "map" \in Places
    BY DEF Places
  <2> QED BY <1>1, <1>2, <2>1, <2>2, <2>3, <2>4, ThreadStep
<1>4. CASE ~(mmapAllowed > 0)
  <2>1. Moved(pc, pc', t, Rec("noMap", pc[t].key, None, None))
    <3>1. Goto(t, "noMap")
      BY <1>4 DEF Open
    <3> QED BY <1>1, <3>1, MovedAt
  <2>2. Takes(mmapAllowed, mmapAllowed',
              (Is(None, "mmap") - Is(pc[t].kind, "mmap")) + (Is("noMap", "map") - Is(pc[t].at, "map")),
              Is("noMap", "noMap") - Is(pc[t].at, "noMap"))
    BY <1>1, <1>2, StringsApart DEF Takes, Is
  <2>3. Takes(fdAllowed, fdAllowed', Is(None, "fd") - Is(pc[t].kind, "fd"),
              Is("noMap", "noDescriptor") - Is(pc[t].at, "noDescriptor"))
    BY <1>1, <1>2, StringsApart DEF Takes, Is
  <2>4. "noMap" \in Places
    BY DEF Places
  <2> QED BY <1>1, <1>2, <2>1, <2>2, <2>3, <2>4, ThreadStep
<1> QED BY <1>3, <1>4

\* A file that cannot be opened holds nothing.
LEMMA OpenFailsOK == ASSUME TCInv, NEW t \in Thread, OpenFails(t) PROVE TCInv'
<1>1. /\ pc[t].at = "open" /\ pc[t].kind = None /\ pc[t].handle = None /\ pc[t].key \in disk
      /\ pc[t].key # None /\ mmapAllowed \in Int /\ fdAllowed \in Int
    BY ThreadFacts DEF OpenFails
<1>2. /\ UNCHANGED cache /\ UNCHANGED <<live, disk>> /\ errors' \in 0..MaxErrors
      /\ mmapAllowed' = mmapAllowed /\ fdAllowed' = fdAllowed
    BY ThreadFacts DEF OpenFails, limiters
<1>a. Moved(pc, pc', t, Rec("idle", None, None, None))
    BY IdleIs, MovedTo DEF OpenFails
<1>b. Takes(mmapAllowed, mmapAllowed',
           (Is(None, "mmap") - Is(pc[t].kind, "mmap")) + (Is("idle", "map") - Is(pc[t].at, "map")),
           Is("idle", "noMap") - Is(pc[t].at, "noMap"))
    BY <1>1, <1>2, StringsApart DEF Takes, Is
<1>c. Takes(fdAllowed, fdAllowed', Is(None, "fd") - Is(pc[t].kind, "fd"),
           Is("idle", "noDescriptor") - Is(pc[t].at, "noDescriptor"))
    BY <1>1, <1>2, StringsApart DEF Takes, Is
<1>d. "idle" \in Places
    BY DEF Places, Kind
<1> QED BY <1>1, <1>2, <1>a, <1>b, <1>c, <1>d, ThreadStep

\* A failed Acquire puts back what it took.
LEMMA NoMapOK == ASSUME TCInv, NEW t \in Thread, NoMap(t) PROVE TCInv'
<1>1. /\ pc[t].at = "noMap" /\ pc[t].kind = None /\ pc[t].handle = None /\ pc[t].key \in disk
      /\ pc[t].key # None /\ mmapAllowed \in Int /\ fdAllowed \in Int
    BY ThreadFacts DEF NoMap
<1>2. /\ UNCHANGED cache /\ UNCHANGED <<live, disk>> /\ errors' \in 0..MaxErrors
      /\ mmapAllowed' = mmapAllowed + 1 /\ fdAllowed' = fdAllowed
    BY ThreadFacts DEF NoMap
<1>a. Moved(pc, pc', t, Rec("descriptor", pc[t].key, None, None))
    BY <1>1, MovedAt DEF NoMap
<1>b. Takes(mmapAllowed, mmapAllowed',
           (Is(None, "mmap") - Is(pc[t].kind, "mmap")) + (Is("descriptor", "map") - Is(pc[t].at, "map")),
           Is("descriptor", "noMap") - Is(pc[t].at, "noMap"))
    BY <1>1, <1>2, StringsApart DEF Takes, Is
<1>c. Takes(fdAllowed, fdAllowed', Is(None, "fd") - Is(pc[t].kind, "fd"),
           Is("descriptor", "noDescriptor") - Is(pc[t].at, "noDescriptor"))
    BY <1>1, <1>2, StringsApart DEF Takes, Is
<1>d. "descriptor" \in Places
    BY DEF Places, Kind
<1> QED BY <1>1, <1>2, <1>a, <1>b, <1>c, <1>d, ThreadStep

\* A map that was being made is held.
LEMMA MmapOK == ASSUME TCInv, NEW t \in Thread, Mmap(t) PROVE TCInv'
<1>1. /\ pc[t].at = "map" /\ pc[t].kind = None /\ pc[t].handle = None /\ pc[t].key \in disk
      /\ pc[t].key # None /\ mmapAllowed \in Int /\ fdAllowed \in Int
    BY ThreadFacts DEF Mmap
<1>2. /\ UNCHANGED cache /\ UNCHANGED <<live, disk>> /\ errors' \in 0..MaxErrors
      /\ mmapAllowed' = mmapAllowed /\ fdAllowed' = fdAllowed
    BY ThreadFacts DEF Mmap, limiters
<1>a. Moved(pc, pc', t, Rec("opened", pc[t].key, None, "mmap"))
    BY <1>1, MovedKind DEF Mmap
<1>b. Takes(mmapAllowed, mmapAllowed',
           (Is("mmap", "mmap") - Is(pc[t].kind, "mmap")) + (Is("opened", "map") - Is(pc[t].at, "map")),
           Is("opened", "noMap") - Is(pc[t].at, "noMap"))
    BY <1>1, <1>2, StringsApart DEF Takes, Is
<1>c. Takes(fdAllowed, fdAllowed', Is("mmap", "fd") - Is(pc[t].kind, "fd"),
           Is("opened", "noDescriptor") - Is(pc[t].at, "noDescriptor"))
    BY <1>1, <1>2, StringsApart DEF Takes, Is
<1>d. "opened" \in Places /\ "mmap" \in Kind /\ "mmap" # None
    BY StringsApart DEF Places, Kind
<1> QED BY <1>1, <1>2, <1>a, <1>b, <1>c, <1>d, ThreadStep

\* A map that could not be made is given back.
LEMMA MmapFailsOK == ASSUME TCInv, NEW t \in Thread, MmapFails(t) PROVE TCInv'
<1>1. /\ pc[t].at = "map" /\ pc[t].kind = None /\ pc[t].handle = None /\ pc[t].key \in disk
      /\ pc[t].key # None /\ mmapAllowed \in Int /\ fdAllowed \in Int
    BY ThreadFacts DEF MmapFails
<1>2. /\ UNCHANGED cache /\ UNCHANGED <<live, disk>> /\ errors' \in 0..MaxErrors
      /\ mmapAllowed' = mmapAllowed + 1 /\ fdAllowed' = fdAllowed
    BY ThreadFacts DEF MmapFails
<1>a. Moved(pc, pc', t, Rec("idle", None, None, None))
    BY IdleIs, MovedTo DEF MmapFails
<1>b. Takes(mmapAllowed, mmapAllowed',
           (Is(None, "mmap") - Is(pc[t].kind, "mmap")) + (Is("idle", "map") - Is(pc[t].at, "map")),
           Is("idle", "noMap") - Is(pc[t].at, "noMap"))
    BY <1>1, <1>2, StringsApart DEF Takes, Is
<1>c. Takes(fdAllowed, fdAllowed', Is(None, "fd") - Is(pc[t].kind, "fd"),
           Is("idle", "noDescriptor") - Is(pc[t].at, "noDescriptor"))
    BY <1>1, <1>2, StringsApart DEF Takes, Is
<1>d. "idle" \in Places
    BY DEF Places, Kind
<1> QED BY <1>1, <1>2, <1>a, <1>b, <1>c, <1>d, ThreadStep

\* A descriptor is kept, or taken to be put back.
LEMMA DescriptorOK == ASSUME TCInv, NEW t \in Thread, Descriptor(t) PROVE TCInv'
<1>1. /\ pc[t].at = "descriptor" /\ pc[t].kind = None /\ pc[t].handle = None /\ pc[t].key \in disk
      /\ pc[t].key # None /\ mmapAllowed \in Int /\ fdAllowed \in Int
    BY ThreadFacts DEF Descriptor
<1>2. /\ UNCHANGED cache /\ UNCHANGED <<live, disk>> /\ errors' \in 0..MaxErrors
      /\ fdAllowed' = fdAllowed - 1 /\ mmapAllowed' = mmapAllowed
    BY ThreadFacts DEF Descriptor
<1>3. CASE fdAllowed > 0
  <2>a. Moved(pc, pc', t, Rec("opened", pc[t].key, None, "fd"))
      <3>1. pc' = [pc EXCEPT ![t].at = "opened", ![t].kind = "fd"]
        BY <1>3 DEF Descriptor
      <3> QED BY <1>1, <3>1, MovedKind
  <2>b. Takes(mmapAllowed, mmapAllowed',
             (Is("fd", "mmap") - Is(pc[t].kind, "mmap")) + (Is("opened", "map") - Is(pc[t].at, "map")),
             Is("opened", "noMap") - Is(pc[t].at, "noMap"))
      BY <1>1, <1>2, <1>3, StringsApart DEF Takes, Is
  <2>c. Takes(fdAllowed, fdAllowed', Is("fd", "fd") - Is(pc[t].kind, "fd"),
             Is("opened", "noDescriptor") - Is(pc[t].at, "noDescriptor"))
      BY <1>1, <1>2, <1>3, StringsApart DEF Takes, Is
  <2>d. "opened" \in Places /\ "fd" \in Kind /\ "fd" # None
      BY StringsApart DEF Places, Kind
  <2> QED BY <1>1, <1>2, <1>3, <2>a, <2>b, <2>c, <2>d, ThreadStep
<1>4. CASE ~(fdAllowed > 0)
  <2>a. Moved(pc, pc', t, Rec("noDescriptor", pc[t].key, None, None))
      <3>1. pc' = [pc EXCEPT ![t].at = "noDescriptor", ![t].kind = None]
        BY <1>4 DEF Descriptor
      <3> QED BY <1>1, <3>1, MovedKind
  <2>b. Takes(mmapAllowed, mmapAllowed',
             (Is(None, "mmap") - Is(pc[t].kind, "mmap")) + (Is("noDescriptor", "map") - Is(pc[t].at, "map")),
             Is("noDescriptor", "noMap") - Is(pc[t].at, "noMap"))
      BY <1>1, <1>2, StringsApart DEF Takes, Is
  <2>c. Takes(fdAllowed, fdAllowed', Is(None, "fd") - Is(pc[t].kind, "fd"),
             Is("noDescriptor", "noDescriptor") - Is(pc[t].at, "noDescriptor"))
      BY <1>1, <1>2, StringsApart DEF Takes, Is
  <2>d. "noDescriptor" \in Places
      BY DEF Places, Kind
  <2> QED BY <1>1, <1>2, <2>a, <2>b, <2>c, <2>d, ThreadStep
<1> QED BY <1>3, <1>4

\* Without a descriptor the file is opened for every read.
LEMMA NoDescriptorOK == ASSUME TCInv, NEW t \in Thread, NoDescriptor(t) PROVE TCInv'
<1>1. /\ pc[t].at = "noDescriptor" /\ pc[t].kind = None /\ pc[t].handle = None /\ pc[t].key \in disk
      /\ pc[t].key # None /\ mmapAllowed \in Int /\ fdAllowed \in Int
    BY ThreadFacts DEF NoDescriptor
<1>2. /\ UNCHANGED cache /\ UNCHANGED <<live, disk>> /\ errors' \in 0..MaxErrors
      /\ fdAllowed' = fdAllowed + 1 /\ mmapAllowed' = mmapAllowed
    BY ThreadFacts DEF NoDescriptor
<1>a. Moved(pc, pc', t, Rec("opened", pc[t].key, None, "reopen"))
    BY <1>1, MovedKind DEF NoDescriptor
<1>b. Takes(mmapAllowed, mmapAllowed',
           (Is("reopen", "mmap") - Is(pc[t].kind, "mmap")) + (Is("opened", "map") - Is(pc[t].at, "map")),
           Is("opened", "noMap") - Is(pc[t].at, "noMap"))
    BY <1>1, <1>2, StringsApart DEF Takes, Is
<1>c. Takes(fdAllowed, fdAllowed', Is("reopen", "fd") - Is(pc[t].kind, "fd"),
           Is("opened", "noDescriptor") - Is(pc[t].at, "noDescriptor"))
    BY <1>1, <1>2, StringsApart DEF Takes, Is
<1>d. "opened" \in Places /\ "reopen" \in Kind /\ "reopen" # None
    BY StringsApart DEF Places, Kind
<1> QED BY <1>1, <1>2, <1>a, <1>b, <1>c, <1>d, ThreadStep

\* A file object that does not get into the cache gives back what it held.
LEMMA TableOpenFailsOK == ASSUME TCInv, NEW t \in Thread, TableOpenFails(t) PROVE TCInv'
<1>1. /\ pc[t].at = "opened" /\ pc[t].kind \in Kind /\ pc[t].handle = None /\ pc[t].key \in disk
      /\ pc[t].key # None /\ mmapAllowed \in Int /\ fdAllowed \in Int
    BY ThreadFacts DEF TableOpenFails
<1>2. /\ UNCHANGED cache /\ UNCHANGED <<live, disk>> /\ errors' \in 0..MaxErrors
    BY ThreadFacts DEF TableOpenFails
<1>3. /\ mmapAllowed' = mmapAllowed + Is(pc[t].kind, "mmap")
      /\ fdAllowed' = fdAllowed + Is(pc[t].kind, "fd")
    BY <1>1 DEF TableOpenFails, Is
<1>a. Moved(pc, pc', t, Rec("idle", None, None, None))
    BY IdleIs, MovedTo DEF TableOpenFails
<1>b. Takes(mmapAllowed, mmapAllowed',
           (Is(None, "mmap") - Is(pc[t].kind, "mmap")) + (Is("idle", "map") - Is(pc[t].at, "map")),
           Is("idle", "noMap") - Is(pc[t].at, "noMap"))
    BY <1>1, <1>2, <1>3, StringsApart DEF Takes, Is
<1>c. Takes(fdAllowed, fdAllowed', Is(None, "fd") - Is(pc[t].kind, "fd"),
           Is("idle", "noDescriptor") - Is(pc[t].at, "noDescriptor"))
    BY <1>1, <1>2, <1>3, StringsApart DEF Takes, Is
<1>d. "idle" \in Places
    BY DEF Places, Kind
<1> QED BY <1>1, <1>2, <1>3, <1>a, <1>b, <1>c, <1>d, ThreadStep

-----------------------------------------------------------------------------
(***************************************************************************)
(* The critical sections of the cache.                                     *)
(***************************************************************************)

\* A cache that is OK has all its fields, and the parts of the invariant.
LEMMA CacheFacts ==
    ASSUME NEW c, NEW P, CacheOK(c, P)
    PROVE  /\ Shaped(c) /\ Handles(c.H) /\ Counted(c.H, P) /\ Held(c.H, P)
           /\ Lists(c.H, P, c.lru, c.used) /\ Table(c.H, c.list)
           /\ c.usage = SumCharge(c.H, Cached(c.H)) /\ c.elems = Cardinality(Cached(c.H))
  BY DEF CacheOK, Body, Shaped

\* The parts of the invariant, for the variables.
LEMMA InvFacts ==
    ASSUME TCInv
    PROVE  /\ CacheOK(Cache, pc) /\ PcOK(pc) /\ UsesKey(handles, pc) /\ OnDisk(handles, pc, disk)
           /\ Good(Cache, pc, disk) /\ Limits(handles, pc, mmapAllowed, fdAllowed)
           /\ FilesOK(live, disk, errors)
           /\ Handles(handles) /\ Counted(handles, pc) /\ Held(handles, pc)
           /\ Lists(handles, pc, lru_, in_use_) /\ Table(handles, list_)
           /\ usage_ = SumCharge(handles, Cached(handles))
           /\ elems_ = Cardinality(Cached(handles))
<1>1. CacheOK(Cache, pc) /\ Cache.H = handles
    BY CacheFields DEF TCInv, Good
<1>2. PcOK(pc) /\ UsesKey(handles, pc) /\ OnDisk(handles, pc, disk)
    BY <1>1 DEF TCInv, Good
<1>3. /\ Good(Cache, pc, disk) /\ Limits(handles, pc, mmapAllowed, fdAllowed)
      /\ FilesOK(live, disk, errors)
    BY DEF TCInv
<1>4. /\ Handles(Cache.H) /\ Counted(Cache.H, pc) /\ Held(Cache.H, pc)
      /\ Lists(Cache.H, pc, Cache.lru, Cache.used) /\ Table(Cache.H, Cache.list)
      /\ Cache.usage = SumCharge(Cache.H, Cached(Cache.H))
      /\ Cache.elems = Cardinality(Cached(Cache.H))
    BY <1>1, CacheFacts
<1> QED BY <1>1, <1>2, <1>3, <1>4, CacheFields

\* A miss starts to open the file, a hit references the entry.
LEMMA LookupOK ==
    ASSUME TCInv, NEW t \in Thread, NEW k \in File, Lookup(t, k)
    PROVE  TCInv'
<1> DEFINE e == Find(handles, list_, k)
<1>1. /\ pc[t].at = "idle" /\ pc[t].handle = None /\ pc[t].kind = None /\ k \in disk /\ k # None
      /\ UNCHANGED <<live, disk>> /\ errors' \in 0..MaxErrors /\ errors' = errors
      /\ mmapAllowed \in Int /\ fdAllowed \in Int
    BY ThreadFacts DEF Lookup
<1>2. CASE e = None
  <2>1. UNCHANGED cache /\ mmapAllowed' = mmapAllowed /\ fdAllowed' = fdAllowed
    BY <1>2 DEF Lookup, limiters
  <2>2. pc' = [pc EXCEPT ![t] = Rec("open", k, None, None)]
    BY <1>2 DEF Lookup, Rec
  <2>3. Moved(pc, pc', t, Rec("open", k, None, None))
    BY <2>2, MovedTo
  <2>4. Takes(mmapAllowed, mmapAllowed',
              (Is(None, "mmap") - Is(pc[t].kind, "mmap")) + (Is("open", "map") - Is(pc[t].at, "map")),
              Is("open", "noMap") - Is(pc[t].at, "noMap"))
    BY <1>1, <2>1, StringsApart DEF Takes, Is
  <2>5. Takes(fdAllowed, fdAllowed', Is(None, "fd") - Is(pc[t].kind, "fd"),
              Is("open", "noDescriptor") - Is(pc[t].at, "noDescriptor"))
    BY <1>1, <2>1, StringsApart DEF Takes, Is
  <2>6. "open" \in Places
    BY DEF Places
  <2>7. /\ k \in disk \union {None} /\ ~(k = None) /\ pc[t].at # "use"
        /\ None \in Kind \union {None}
    BY <1>1
  <2> HIDE <1>2
  <2> QED BY <1>1, <2>1, <2>3, <2>4, <2>5, <2>6, <2>7, ThreadStep
<1>3. CASE e # None
  <2> DEFINE d == Ref(Cache, e)
             r == Rec("use", k, e, None)
  <2>1. Becomes(d) /\ pc' = [pc EXCEPT ![t] = r]
    BY <1>3 DEF Lookup, Rec
  <2>2. Moved(pc, pc', t, r)
    BY <2>1, MovedTo
  <2>3. e \in Cached(handles) /\ handles[e].key = k
    BY <1>3, InvFacts, FindOK
  <2>4. d = Ref(Cache, e) /\ r = Rec("use", k, e, None)
    OBVIOUS
  <2> HIDE DEF e, d, r
  <2>5. e \in Nat /\ e \in DOMAIN handles
    BY <2>3, InvFacts DEF Cached, Handles
  <2>6. ThreadOK(r) /\ r.handle = e /\ r.key = k /\ r.at = "use" /\ r.kind = None
    <3>1. "use" \in Places
      BY DEF Places
    <3> QED BY <1>1, <1>3, <2>4, <2>5, <3>1, RecOK, RecFields
  <2>7. Steps(pc, pc', t) /\ Moves(pc, pc', t) /\ pc'[t] = r
    BY <2>2, <2>6, InvFacts, PcStep
  <2>8. /\ CacheOK(d, pc') /\ SameFiles(handles, d.H) /\ DOMAIN d.H = DOMAIN handles
    <3>1. pc'[t].handle = e /\ e \in Cached(Cache.H)
      BY <2>3, <2>6, <2>7, CacheFields
    <3> QED BY <1>1, <2>4, <2>7, <3>1, InvFacts, CacheFields, RefOK
  <2>9. d.H[e].key = k
    BY <2>3, <2>5, <2>8 DEF SameFiles
  <2>10. Good(d, pc', disk)
    <3>1. SameFiles(Cache.H, d.H) /\ DOMAIN d.H = DOMAIN Cache.H
      BY <2>8, CacheFields
    <3> QED BY <1>1, <2>2, <2>6, <2>8, <2>9, <3>1, InvFacts, GoodStep
  <2>11. /\ Cache' = d /\ handles' = d.H
         /\ Gives(mmapAllowed, mmapAllowed', Closed(handles, d.H, "mmap"))
         /\ Gives(fdAllowed, fdAllowed', Closed(handles, d.H, "fd"))
    BY <2>1, <2>8, CacheFacts, BecomesAre
  <2>12. Limits(d.H, pc', mmapAllowed', fdAllowed')
    <3>1. Handles(d.H) /\ Handles(handles) /\ Limits(handles, pc, mmapAllowed, fdAllowed)
      BY <2>8, CacheFacts, InvFacts
    <3>2. /\ pc[t].at \in {"idle", "use"} /\ pc'[t].at \in {"idle", "use"}
          /\ pc[t].kind = None /\ pc'[t].kind = None
      BY <1>1, <2>6, <2>7
    <3> QED BY <2>7, <2>8, <2>11, <3>1, <3>2, LimitsHandle
  <2>13. FilesOK(live', disk', errors')
    BY <1>1, InvFacts
  <2> QED BY <1>1, <2>10, <2>11, <2>12, <2>13 DEF TCInv
<1> QED BY <1>2, <1>3

\* An idle thread holds nothing.
LEMMA IdleOK ==
    /\ ThreadOK(Idle) /\ Idle.handle = None /\ Idle.key = None /\ Idle.at = "idle"
    /\ Idle.kind = None
<1>1. "idle" \in Places /\ "idle" # "use" /\ "idle" # "opened"
    BY DEF Places
<1>2. ThreadOK(Rec("idle", None, None, None))
    BY <1>1, RecOK
<1>3. LET r == Rec("idle", None, None, None)
      IN r.handle = None /\ r.key = None /\ r.at = "idle" /\ r.kind = None
    BY RecFields
<1> QED BY <1>2, <1>3, IdleIs

\* Release: the entry may be deleted, and its file object closed.
LEMMA ReleaseOK == ASSUME TCInv, NEW t \in Thread, Release(t) PROVE TCInv'
<1> DEFINE e == pc[t].handle
           d == Unref(Cache, e)
<1>1. /\ pc[t].at = "use" /\ e # None /\ e \in Nat \union {None} /\ pc[t].kind = None
      /\ UNCHANGED <<live, disk>> /\ errors' = errors
    BY ThreadFacts DEF Release
<1>2. Becomes(d) /\ Moved(pc, pc', t, Idle)
    BY MovedTo DEF Release
<1>3. d = Unref(Cache, e) /\ e = pc[t].handle
    OBVIOUS
<1> HIDE DEF e, d
<1>4. ThreadOK(Idle) /\ Idle.handle = None /\ Idle.key = None /\ Idle.at = "idle" /\ Idle.kind = None
    BY IdleOK
<1>5. Steps(pc, pc', t) /\ Moves(pc, pc', t) /\ pc'[t] = Idle
    BY <1>2, <1>4, InvFacts, PcStep
<1>6. e \in DOMAIN handles
    BY <1>1, <1>3, InvFacts DEF Held
<1>7. CacheOK(d, pc') /\ SameFiles(handles, d.H) /\ DOMAIN d.H \subseteq DOMAIN handles
  <2>1. e \in DOMAIN Cache.H /\ pc'[t].handle = None
    BY <1>4, <1>5, <1>6, CacheFields
  <2> QED BY <1>3, <1>5, <2>1, InvFacts, CacheFields, UnrefOK
<1>8. Good(d, pc', disk)
  <2>1. SameFiles(Cache.H, d.H) /\ DOMAIN d.H \subseteq DOMAIN Cache.H
    BY <1>7, CacheFields
  <2> QED BY <1>2, <1>4, <1>7, <2>1, InvFacts, GoodStep
<1>9. /\ Cache' = d /\ handles' = d.H
      /\ Gives(mmapAllowed, mmapAllowed', Closed(handles, d.H, "mmap"))
      /\ Gives(fdAllowed, fdAllowed', Closed(handles, d.H, "fd"))
    BY <1>2, <1>7, CacheFacts, BecomesAre
<1>10. Limits(d.H, pc', mmapAllowed', fdAllowed')
  <2>1. Handles(d.H) /\ Handles(handles) /\ Limits(handles, pc, mmapAllowed, fdAllowed)
    BY <1>7, CacheFacts, InvFacts
  <2>2. /\ pc[t].at \in {"idle", "use"} /\ pc'[t].at \in {"idle", "use"}
        /\ pc[t].kind = None /\ pc'[t].kind = None
    BY <1>1, <1>4, <1>5
  <2> QED BY <1>5, <1>7, <1>9, <2>1, <2>2, LimitsHandle
<1>11. FilesOK(live', disk', errors')
    BY <1>1, InvFacts
<1> QED BY <1>1, <1>8, <1>9, <1>10, <1>11 DEF TCInv

\* There is an address that is not in use.
LEMMA FreeAddress ==
    ASSUME NEW S, IsFiniteSet(S)
    PROVE  \E x \in 1..(Cardinality(S) + 1) : x \notin S
<1> DEFINE n == Cardinality(S)
<1>1. n \in Nat
    BY FS_CardinalityType
<1>2. Cardinality(1..(n + 1)) = n + 1
    BY <1>1, FS_Interval
<1>3. CASE 1..(n + 1) \subseteq S
  <2>1. Cardinality(1..(n + 1)) <= n
    BY <1>3, FS_Subset
  <2> QED BY <1>1, <1>2, <2>1
<1> QED BY <1>3

\* Insert: the file object of the thread is that of the new entry, and what is
\* replaced or evicted without a user is closed.
LEMMA InsertStepOK == ASSUME TCInv, NEW t \in Thread, Insert(t) PROVE TCInv'
<1> DEFINE e == CHOOSE x \in 1..(Cardinality(DOMAIN handles) + 1) : x \notin DOMAIN handles
           k == pc[t].key
           kind == pc[t].kind
           d == CacheInsert(Cache, e, k, kind)
           r == Rec("use", k, e, None)
<1>1. /\ pc[t].at = "opened" /\ pc[t].handle = None /\ kind \in Kind /\ k \in disk /\ k \in File
      /\ k # None /\ UNCHANGED <<live, disk>> /\ errors' = errors
  <2>1. pc[t].at = "opened" /\ UNCHANGED <<live, disk, errors>>
    BY Zenon DEF Insert
  <2> QED BY <2>1, ThreadFacts
<1>2. e \in Nat /\ e \notin DOMAIN handles /\ e # None
  <2>1. IsFiniteSet(DOMAIN handles)
    BY InvFacts DEF Handles
  <2>2. e \in 1..(Cardinality(DOMAIN handles) + 1) /\ e \notin DOMAIN handles
    BY <2>1, FreeAddress
  <2>3. Cardinality(DOMAIN handles) \in Nat
    BY <2>1, FS_CardinalityType
  <2> HIDE DEF e
  <2> QED BY <2>2, <2>3, CacheAssumption
<1>3. /\ Becomes(d)
      /\ pc' = [pc EXCEPT ![t] = r]
    BY Zenon DEF Insert, Rec
<1>4. d = CacheInsert(Cache, e, k, kind) /\ r = Rec("use", k, e, None) /\ k = pc[t].key /\ kind = pc[t].kind
    OBVIOUS
<1> HIDE DEF e, k, kind, d, r
<1>5. Moved(pc, pc', t, r)
    BY <1>3, MovedTo
<1>6. ThreadOK(r) /\ r.handle = e /\ r.key = k /\ r.at = "use" /\ r.kind = None
  <2>1. "use" \in Places
    BY DEF Places
  <2> QED BY <1>1, <1>2, <1>4, <2>1, RecOK, RecFields
<1>7. Steps(pc, pc', t) /\ Moves(pc, pc', t) /\ pc'[t] = r
    BY <1>5, <1>6, InvFacts, PcStep
<1>8. /\ CacheOK(d, pc') /\ SameFiles(handles, d.H)
      /\ DOMAIN d.H \subseteq DOMAIN handles \union {e} /\ e \in DOMAIN d.H
      /\ d.H[e].key = k /\ d.H[e].kind = kind
  <2>1. e \notin DOMAIN Cache.H /\ pc'[t].handle = e
    BY <1>2, <1>6, <1>7, CacheFields
  <2> QED BY <1>1, <1>2, <1>4, <1>7, <2>1, InvFacts, CacheFields, InsertOK
<1>9. Good(d, pc', disk)
  <2>1. SameFiles(Cache.H, d.H) /\ \A x \in DOMAIN d.H \ DOMAIN Cache.H : d.H[x].key \in disk
    BY <1>1, <1>8, CacheFields
  <2> QED BY <1>1, <1>5, <1>6, <1>8, <2>1, InvFacts, GoodStep
<1>10. /\ Cache' = d /\ handles' = d.H
       /\ Gives(mmapAllowed, mmapAllowed', Closed(handles, d.H, "mmap"))
       /\ Gives(fdAllowed, fdAllowed', Closed(handles, d.H, "fd"))
    BY <1>3, <1>8, CacheFacts, BecomesAre
<1>11. Limits(d.H, pc', mmapAllowed', fdAllowed')
  <2>1. Handles(d.H) /\ Handles(handles) /\ Limits(handles, pc, mmapAllowed, fdAllowed)
    BY <1>8, CacheFacts, InvFacts
  <2>2. /\ pc'[t].at = "use" /\ pc'[t].kind = None /\ pc[t].kind \in Kind
        /\ d.H[e].kind = pc[t].kind
    BY <1>1, <1>4, <1>6, <1>7, <1>8
  <2> QED BY <1>1, <1>2, <1>7, <1>8, <1>10, <2>1, <2>2, LimitsInsert
<1>12. FilesOK(live', disk', errors')
    BY <1>1, InvFacts
<1> QED BY <1>1, <1>9, <1>10, <1>11, <1>12 DEF TCInv

\* A file leaves the current version; its table stays open.
LEMMA ObsoleteOK == ASSUME TCInv, NEW k \in File, Obsolete(k) PROVE TCInv'
<1>1. /\ live' = live \ {k} /\ pc' = pc /\ disk' = disk /\ errors' = errors
      /\ UNCHANGED cache /\ mmapAllowed' = mmapAllowed /\ fdAllowed' = fdAllowed
    BY DEF Obsolete, limiters
<1>2. Cache' = Cache /\ handles' = handles
    BY <1>1 DEF cache, Cache
<1>3. FilesOK(live', disk', errors')
    BY <1>1 DEF TCInv, FilesOK
<1> QED BY <1>1, <1>2, <1>3 DEF TCInv

\* A step of the cache alone.
LEMMA AloneOK ==
    ASSUME TCInv, NEW d, Becomes(d), CacheOK(d, pc), SameFiles(handles, d.H),
           DOMAIN d.H \subseteq DOMAIN handles, pc' = pc, live' = live, errors' = errors,
           live \subseteq disk', disk' \subseteq disk,
           \A t \in Thread : pc[t].key \in disk \ disk' => pc[t].key = None,
           \A e \in DOMAIN d.H : d.H[e].key \in disk'
    PROVE  TCInv'
<1>1. Good(d, pc, disk')
  <2>1. SameFiles(Cache.H, d.H) /\ DOMAIN d.H \subseteq DOMAIN Cache.H /\ Good(Cache, pc, disk)
    BY CacheFields, InvFacts
  <2> QED BY <2>1, GoodAlone
<1>2. /\ Cache' = d /\ handles' = d.H
      /\ Gives(mmapAllowed, mmapAllowed', Closed(handles, d.H, "mmap"))
      /\ Gives(fdAllowed, fdAllowed', Closed(handles, d.H, "fd"))
    BY CacheFacts, BecomesAre
<1>3. Limits(d.H, pc, mmapAllowed', fdAllowed')
  <2>1. Handles(d.H) /\ Handles(handles) /\ Limits(handles, pc, mmapAllowed, fdAllowed)
    BY CacheFacts, InvFacts
  <2> QED BY <1>2, <2>1, LimitsAlone
<1>4. FilesOK(live', disk', errors')
    BY DEF TCInv, FilesOK
<1> QED BY <1>1, <1>2, <1>3, <1>4 DEF TCInv

\* An entry that is not cached, or that is left after it was erased, has a
\* user, and the user's key is that of the entry.
LEMMA DeleteFileOK == ASSUME TCInv, NEW k \in File, DeleteFile(k) PROVE TCInv'
<1> DEFINE S == {Find(handles, list_, k)} \ {None}
           d == Erase(Cache, S)
<1>1. /\ k \in disk /\ k \notin live /\ \A t \in Thread : pc[t].key # k
      /\ disk' = disk \ {k} /\ pc' = pc /\ live' = live /\ errors' = errors /\ Becomes(d)
    BY DEF DeleteFile
<1>2. /\ S \subseteq Cached(handles)
      /\ \A e \in Cached(handles) : handles[e].key = k => e \in S
  <2>1. Handles(handles) /\ Table(handles, list_)
    BY InvFacts
  <2>2. S \subseteq Cached(handles)
    BY <2>1, FindOK
  <2>3. \A e \in Cached(handles) : Find(handles, list_, handles[e].key) = e
    BY <2>1, FindsCached
  <2>4. \A e \in Cached(handles) : e # None
    BY <2>1, CacheAssumption DEF Cached, Handles
  <2> QED BY <2>2, <2>3, <2>4
<1>3. d = Erase(Cache, S)
    OBVIOUS
<1> HIDE DEF S, d
<1>4. /\ CacheOK(d, pc) /\ SameFiles(handles, d.H) /\ DOMAIN d.H \subseteq DOMAIN handles
      /\ \A e \in S : e \in DOMAIN d.H <=> UsersIn(pc, e) # {}
  <2>1. S \subseteq Cached(Cache.H) /\ CacheOK(Cache, pc) /\ Cache.H = handles
    BY <1>2, CacheFields, InvFacts
  <2> QED BY <1>3, <2>1, EraseOK, EraseSame
<1>5. \A e \in DOMAIN d.H : d.H[e].key # k
  <2> SUFFICES ASSUME NEW e \in DOMAIN d.H, d.H[e].key = k PROVE FALSE
    OBVIOUS
  <2>1. e \in DOMAIN handles /\ handles[e].key = k /\ e # None
    BY <1>4, InvFacts, CacheAssumption DEF SameFiles, Handles
  <2>2. UsersIn(pc, e) # {}
    <3>1. CASE e \in Cached(handles)
      BY <1>2, <1>4, <2>1, <3>1
    <3>2. CASE e \notin Cached(handles)
      BY <2>1, <3>2, InvFacts DEF Counted, Cached
    <3> QED BY <3>1, <3>2
  <2>3. PICK t \in Thread : pc[t].handle = e
    BY <2>2 DEF UsersIn
  <2>4. pc[t].key = k
    BY <2>1, <2>3, InvFacts DEF UsesKey
  <2> QED BY <1>1, <2>4
<1>6. \A e \in DOMAIN d.H : d.H[e].key \in disk'
  <2>1. \A e \in DOMAIN d.H : d.H[e].key \in disk
    BY <1>4, InvFacts DEF SameFiles, OnDisk
  <2> QED BY <1>1, <1>5, <2>1
<1>7. live \subseteq disk' /\ disk' \subseteq disk
    BY <1>1, InvFacts DEF FilesOK
<1>8. \A t \in Thread : pc[t].key \in disk \ disk' => pc[t].key = None
    BY <1>1
<1> QED BY <1>1, <1>4, <1>6, <1>7, <1>8, AloneOK

\* Cache::Prune erases the idle entries.
LEMMA PruneOK == ASSUME TCInv, Prune PROVE TCInv'
<1> DEFINE S == ToSet(lru_)
           d == Erase(Cache, S)
<1>1. Becomes(d) /\ pc' = pc /\ live' = live /\ disk' = disk /\ errors' = errors
    BY DEF Prune
<1>2. S \subseteq Cached(Cache.H) /\ CacheOK(Cache, pc) /\ Cache.H = handles
  <2>1. S \subseteq Cached(handles)
    BY InvFacts DEF Lists
  <2> QED BY <2>1, CacheFields, InvFacts
<1>3. d = Erase(Cache, S)
    OBVIOUS
<1> HIDE DEF S, d
<1>4. CacheOK(d, pc) /\ SameFiles(handles, d.H) /\ DOMAIN d.H \subseteq DOMAIN handles
    BY <1>2, <1>3, EraseOK, EraseSame
<1>5. \A e \in DOMAIN d.H : d.H[e].key \in disk'
    BY <1>1, <1>4, InvFacts DEF SameFiles, OnDisk
<1>6. live \subseteq disk' /\ disk' \subseteq disk
    BY <1>1, InvFacts DEF FilesOK
<1>7. \A t \in Thread : pc[t].key \in disk \ disk' => pc[t].key = None
    BY <1>1
<1> QED BY <1>1, <1>4, <1>5, <1>6, <1>7, AloneOK

\* Without users every entry is in lru_, and none is left.
LEMMA CloseOK == ASSUME TCInv, Close PROVE TCInv'
<1> DEFINE G == [e \in DOMAIN handles \ ToSet(lru_) |-> handles[e]]
           d == [Cache EXCEPT !.H = G, !.lru = <<>>, !.list = Empty(kMinLength),
                              !.elems = 0, !.usage = 0]
<1>1. /\ Becomes(d) /\ pc' = pc /\ live' = live /\ disk' = disk /\ errors' = errors
      /\ \A t \in Thread : pc[t].at = "idle"
    BY DEF Close
<1>2. \A t \in Thread : pc[t].handle = None
    BY <1>1, ThreadFacts
<1>3. \A e \in DOMAIN handles : UsersIn(pc, e) = {}
    BY <1>2, InvFacts, CacheAssumption DEF UsersIn, Handles
<1>4. DOMAIN handles = Cached(handles) /\ ToSet(lru_) = Cached(handles) /\ in_use_ = {}
    BY <1>3, InvFacts DEF Counted, Cached, Lists
<1>5. DOMAIN G = {} /\ G = [e \in DOMAIN G |-> G[e]]
    BY <1>4
<1> HIDE DEF G
<1>6. /\ Shaped(d) /\ d.H = G /\ d.lru = <<>> /\ d.used = {} /\ d.list = Empty(kMinLength)
      /\ d.elems = 0 /\ d.usage = 0
    BY <1>4 DEF Cache, Shaped, Fields
<1> HIDE DEF d
<1>7. CacheOK(d, pc) /\ SameFiles(handles, d.H) /\ DOMAIN d.H \subseteq DOMAIN handles
  <2>1. DOMAIN d.H = {} /\ d.H = [e \in DOMAIN d.H |-> d.H[e]]
    BY <1>5, <1>6
  <2>2. CacheOK(d, pc)
    BY <1>2, <1>6, <2>1, EmptyOK
  <2> QED BY <2>1, <2>2 DEF SameFiles
<1>8. \A e \in DOMAIN d.H : d.H[e].key \in disk'
    BY <1>5, <1>6
<1>9. live \subseteq disk' /\ disk' \subseteq disk
    BY <1>1, InvFacts DEF FilesOK
<1>10. \A t \in Thread : pc[t].key \in disk \ disk' => pc[t].key = None
    BY <1>1
<1> QED BY <1>1, <1>7, <1>8, <1>9, <1>10, AloneOK

\* The invariant holds of an empty cache.
LEMMA InitOK == Init => TCInv
<1> SUFFICES ASSUME Init PROVE TCInv
    OBVIOUS
<1>1. /\ handles = << >> /\ lru_ = <<>> /\ in_use_ = {} /\ list_ = Empty(kMinLength)
      /\ elems_ = 0 /\ usage_ = 0 /\ mmapAllowed = MaxMmaps /\ fdAllowed = MaxFds
      /\ pc = [t \in Thread |-> Idle] /\ live = File /\ disk = File /\ errors = 0
    BY DEF Init
<1>2. ThreadOK(Idle) /\ Idle.handle = None /\ Idle.key = None /\ Idle.at = "idle" /\ Idle.kind = None
    BY IdleOK
<1>3. \A t \in Thread : pc[t] = Idle
    BY <1>1
<1>4. PcOK(pc)
    BY <1>1, <1>2 DEF PcOK
<1>5. DOMAIN handles = {} /\ handles = [e \in DOMAIN handles |-> handles[e]]
    BY <1>1
<1>6. CacheOK(Cache, pc)
  <2>1. DOMAIN Cache.H = {} /\ Cache.H = [e \in DOMAIN Cache.H |-> Cache.H[e]]
    BY <1>5, CacheFields
  <2>2. \A t \in Thread : pc[t].handle = None
    BY <1>2, <1>3
  <2>3. /\ Cache.lru = <<>> /\ Cache.used = {} /\ Cache.list = Empty(kMinLength)
        /\ Cache.elems = 0 /\ Cache.usage = 0 /\ Shaped(Cache)
    BY <1>1, CacheFields
  <2> QED BY <2>1, <2>2, <2>3, EmptyOK
<1>7. UsesKey(Cache.H, pc) /\ OnDisk(Cache.H, pc, disk)
    BY <1>2, <1>3, <1>5, CacheFields DEF UsesKey, OnDisk
<1>8. Limits(handles, pc, mmapAllowed, fdAllowed)
  <2>1. \A v : HeldBy(handles, v) = {}
    BY <1>5 DEF HeldBy
  <2>2. \A v \in {"mmap", "fd"} : WithKind(pc, v) = {}
    BY <1>2, <1>3, StringsApart DEF WithKind
  <2>3. \A v \in {"map", "noMap", "noDescriptor"} : At(pc, v) = {}
    BY <1>2, <1>3 DEF At
  <2>4. MaxMmaps \in Nat /\ MaxFds \in Nat /\ Cardinality({}) = 0
    BY CacheAssumption, FS_EmptySet
  <2>5. /\ Cardinality(HeldBy(handles, "mmap")) = 0 /\ Cardinality(HeldBy(handles, "fd")) = 0
        /\ Cardinality(WithKind(pc, "mmap")) = 0 /\ Cardinality(WithKind(pc, "fd")) = 0
        /\ Cardinality(At(pc, "map")) = 0 /\ Cardinality(At(pc, "noMap")) = 0
        /\ Cardinality(At(pc, "noDescriptor")) = 0
    BY <2>1, <2>2, <2>3, <2>4
  <2>6. mmapAllowed = MaxMmaps /\ fdAllowed = MaxFds
    BY <1>1
  <2> QED BY <2>4, <2>5, <2>6 DEF Limits
<1>9. FilesOK(live, disk, errors)
    BY <1>1, CacheAssumption DEF FilesOK
<1> QED BY <1>4, <1>6, <1>7, <1>8, <1>9 DEF TCInv, Good

\* Every step preserves the invariant.
LEMMA NextOK == TCInv /\ [Next]_vars => TCInv'
<1> SUFFICES ASSUME TCInv, [Next]_vars PROVE TCInv'
    OBVIOUS
<1>1. CASE UNCHANGED vars
  <2>1. /\ pc' = pc /\ live' = live /\ disk' = disk /\ errors' = errors /\ UNCHANGED cache
        /\ mmapAllowed' = mmapAllowed /\ fdAllowed' = fdAllowed
    BY <1>1 DEF vars, limiters
  <2>2. Cache' = Cache /\ handles' = handles
    BY <2>1 DEF cache, Cache
  <2> QED BY <2>1, <2>2 DEF TCInv
<1>2. ASSUME NEW t \in Thread, NEW k \in File, Lookup(t, k) PROVE TCInv'
    BY <1>2, LookupOK
<1>3. ASSUME NEW t \in Thread, Open(t) PROVE TCInv'
    BY <1>3, OpenOK
<1>4. ASSUME NEW t \in Thread, OpenFails(t) PROVE TCInv'
    BY <1>4, OpenFailsOK
<1>5. ASSUME NEW t \in Thread, NoMap(t) PROVE TCInv'
    BY <1>5, NoMapOK
<1>6. ASSUME NEW t \in Thread, Mmap(t) PROVE TCInv'
    BY <1>6, MmapOK
<1>7. ASSUME NEW t \in Thread, MmapFails(t) PROVE TCInv'
    BY <1>7, MmapFailsOK
<1>8. ASSUME NEW t \in Thread, Descriptor(t) PROVE TCInv'
    BY <1>8, DescriptorOK
<1>9. ASSUME NEW t \in Thread, NoDescriptor(t) PROVE TCInv'
    BY <1>9, NoDescriptorOK
<1>10. ASSUME NEW t \in Thread, TableOpenFails(t) PROVE TCInv'
    BY <1>10, TableOpenFailsOK
<1>11. ASSUME NEW t \in Thread, Insert(t) PROVE TCInv'
    BY <1>11, InsertStepOK
<1>12. ASSUME NEW t \in Thread, Release(t) PROVE TCInv'
    BY <1>12, ReleaseOK
<1>13. ASSUME NEW k \in File, Obsolete(k) PROVE TCInv'
    BY <1>13, ObsoleteOK
<1>14. ASSUME NEW k \in File, DeleteFile(k) PROVE TCInv'
    BY <1>14, DeleteFileOK
<1>15. CASE Prune
    BY <1>15, PruneOK
<1>16. CASE Close
    BY <1>16, CloseOK
<1> QED BY <1>1, <1>2, <1>3, <1>4, <1>5, <1>6, <1>7, <1>8, <1>9, <1>10, <1>11, <1>12, <1>13,
           <1>14, <1>15, <1>16 DEF Next

\* The invariant holds, whatever the threads, files, charges and limits are.
THEOREM Invariant == Spec => []TCInv
  BY InitOK, NextOK, PTL DEF Spec

-----------------------------------------------------------------------------
\* Type correctness of the cache, the limiters and the files: a reference
\* count is at least 1 and at most one more than there are threads.
THEOREM TypeCorrect == Spec => []TypeOK
<1>1. TCInv => TypeOK
  <2> SUFFICES ASSUME TCInv PROVE TypeOK
    OBVIOUS
  <2>1. ASSUME NEW e \in DOMAIN handles
        PROVE  handles[e] \in [key : File, kind : Kind,
                               refs : 1..(Cardinality(Thread) + 1), in_cache : BOOLEAN]
    <3>1. handles[e] \in [key : File, kind : Kind, refs : Nat, in_cache : BOOLEAN]
      BY InvFacts DEF Handles
    <3> DEFINE n == Cardinality(UsersIn(pc, e))
               m == OneIf(handles[e].in_cache)
    <3>2. n \in Nat /\ n <= Cardinality(Thread) /\ (n = 0 <=> UsersIn(pc, e) = {})
      BY UsersFinite
    <3>3. handles[e].refs = n + m
      BY InvFacts DEF Counted
    <3>4. m \in {0, 1} /\ (n = 0 => m = 1)
      BY <3>2, InvFacts DEF OneIf, Counted
    <3>5. Cardinality(Thread) \in Nat
      BY CacheAssumption, FS_CardinalityType
    <3> HIDE DEF n, m
    <3>6. handles[e].refs \in 1..(Cardinality(Thread) + 1)
      BY <3>2, <3>3, <3>4, <3>5
    <3> QED BY <3>1, <3>6
  <2>2. \A i \in DOMAIN lru_ : lru_[i] \in DOMAIN handles
    <3>1. lru_ \in Seq(DOMAIN handles)
      BY InvFacts DEF Lists
    <3> QED BY <3>1
  <2>3. in_use_ \subseteq DOMAIN handles
    BY InvFacts DEF Lists, Cached
  <2>4. elems_ \in Nat /\ usage_ \in Nat
    <3>1. Cached(handles) \subseteq DOMAIN handles
      BY DEF Cached
    <3> QED BY <3>1, InvFacts, CachedFinite
  <2>5. mmapAllowed \in Int /\ fdAllowed \in Int
    BY InvFacts, LimitsType
  <2>6. live \subseteq disk /\ disk \subseteq File /\ errors \in 0..MaxErrors
    BY InvFacts DEF FilesOK
  <2> QED BY <2>1, <2>2, <2>3, <2>4, <2>5, <2>6 DEF TypeOK
<1> QED BY <1>1, Invariant, PTL

\* The bookkeeping of LRUCache and HandleTable is right after every critical
\* section: reference counts, the two lists, usage_, elems_ and the table.
THEOREM BooksKept == Spec => []Accounted
<1>1. TCInv => Accounted
  <2> SUFFICES ASSUME TCInv PROVE Accounted
    OBVIOUS
  <2>1. \A e : Users(e) = UsersIn(pc, e)
    BY DEF Users, UsersIn
  <2>2. \A e \in DOMAIN handles :
           handles[e].refs = Cardinality(Users(e)) + (IF handles[e].in_cache THEN 1 ELSE 0)
    BY <2>1, InvFacts DEF Counted, OneIf
  <2>3. /\ ToSet(lru_) = {e \in Cached(handles) : Users(e) = {}} /\ IsInjective(lru_)
        /\ in_use_ = {e \in Cached(handles) : Users(e) # {}}
    BY <2>1, InvFacts DEF Lists
  <2>4. \A e \in Cached(handles) : Find(handles, list_, handles[e].key) = e
    BY InvFacts, FindsCached
  <2>5. UNION {ToSet(list_[b]) : b \in DOMAIN list_} = Cached(handles)
    <3>1. /\ Handles(handles) /\ Table(handles, list_)
      BY InvFacts
    <3>2. \A b \in DOMAIN list_ :
             ToSet(list_[b]) = {e \in Cached(handles) : Bucket(list_, handles[e].key) = b}
      BY <3>1 DEF Table
    <3>3. \A e \in Cached(handles) : Bucket(list_, handles[e].key) \in DOMAIN list_
      <4> SUFFICES ASSUME NEW e \in Cached(handles)
                   PROVE  Bucket(list_, handles[e].key) \in DOMAIN list_
        OBVIOUS
      <4>1. handles[e].key \in File
        BY <3>1, HandleFields DEF Cached
      <4> QED BY <3>1, <4>1, FindOK
    <3>4. UNION {ToSet(list_[b]) : b \in DOMAIN list_} \subseteq Cached(handles)
      BY <3>2
    <3>5. Cached(handles) \subseteq UNION {ToSet(list_[b]) : b \in DOMAIN list_}
      BY <3>2, <3>3
    <3> QED BY <3>4, <3>5
  <2>6. usage_ = SumCharge(handles, Cached(handles)) /\ elems_ = Cardinality(Cached(handles))
    BY InvFacts
  <2> QED BY <2>2, <2>3, <2>4, <2>5, <2>6 DEF Accounted, Cached
<1> QED BY <1>1, Invariant, PTL

\* A table in use is the one of the file that was asked for, is not deleted
\* whatever was evicted, replaced or erased meanwhile, and its file exists.
THEOREM UsedStaysOpen == Spec => []InUseIsOpen
<1>1. TCInv => InUseIsOpen
  <2> SUFFICES ASSUME TCInv, NEW t \in Thread, pc[t].at = "use"
               PROVE  /\ pc[t].handle \in DOMAIN handles
                      /\ handles[pc[t].handle].key = pc[t].key /\ pc[t].key \in disk
    BY DEF InUseIsOpen
  <2>1. pc[t].handle # None /\ pc[t].key # None
    BY ThreadFacts
  <2> QED BY <2>1, InvFacts, ThreadFacts DEF Held, UsesKey
<1> QED BY <1>1, Invariant, PTL

\* mmap_limiter_ and fd_limiter_ count what is held, at every moment and on
\* every path, and no more is held than they allow.
THEOREM LimitersRight == Spec => []LimitersExact
<1>1. TCInv => LimitersExact
    BY LimitersAre DEF TCInv
<1> QED BY <1>1, Invariant, PTL

\* DeleteObsoleteFiles leaves no table of the deleted file open.
THEOREM DeletedIsClosed == Spec => []DeletedNotOpen
<1>1. TCInv => DeletedNotOpen
  <2> SUFFICES ASSUME TCInv, NEW k \in File \ disk
               PROVE  /\ \A e \in DOMAIN handles : handles[e].key # k
                      /\ \A t \in Thread : pc[t].key # k
    BY DEF DeletedNotOpen
  <2>1. k # None
    BY CacheAssumption
  <2> QED BY <2>1, InvFacts DEF OnDisk
<1> QED BY <1>1, Invariant, PTL

=============================================================================
