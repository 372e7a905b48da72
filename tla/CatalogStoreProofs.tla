------------------------- MODULE CatalogStoreProofs -------------------------
(***************************************************************************)
(* Proofs about CatalogStore: that the groups of equal queries stay in     *)
(* order whatever queries, results and the ends of workers and clients     *)
(* cross, that each query is finished once, and that the cache never goes  *)
(* back.                                                                   *)
(***************************************************************************)
EXTENDS CatalogStore, SequenceTheorems, FiniteSetTheorems, TLAPS

-----------------------------------------------------------------------------
(***************************************************************************)
(* Queues without duplicates: as functions on their positions, then as     *)
(* sequences.                                                              *)
(***************************************************************************)
\* r is q without its k-th element.
LEMMA OneTakenOut ==
  ASSUME NEW len \in Nat, NEW k \in 1..len, NEW q, NEW r, IsInjective(q),
         DOMAIN q = 1..len, DOMAIN r = 1..len - 1,
         \A i \in 1..k - 1 : r[i] = q[i],
         \A i \in k..len - 1 : r[i] = q[i + 1]
  PROVE  IsInjective(r) /\ Range(r) = Range(q) \ {q[k]}
<1> DEFINE At(i) == IF i < k THEN i ELSE i + 1
<1>1. ASSUME NEW i \in 1..len - 1
      PROVE  At(i) \in 1..len /\ At(i) # k /\ r[i] = q[At(i)]
  <2>1. CASE i < k
    BY <2>1
  <2>2. CASE i >= k
    BY <2>2
  <2> QED
    BY <2>1, <2>2
<1>2. IsInjective(r)
  <2>1. ASSUME NEW i \in 1..len - 1, NEW j \in 1..len - 1, At(i) = At(j)
        PROVE  i = j
    BY <2>1
  <2> HIDE DEF At
  <2> QED
    BY <1>1, <2>1 DEF IsInjective
<1>3. ASSUME NEW i \in 1..len - 1
      PROVE  r[i] \in Range(q) \ {q[k]}
  <2> DEFINE j == At(i)
  <2>1. j \in 1..len /\ j # k /\ r[i] = q[j]
    BY <1>1
  <2> HIDE DEF j
  <2>2. q[j] \in Range(q) /\ q[j] # q[k]
    BY <2>1 DEF IsInjective, Range
  <2> QED
    BY <2>1, <2>2
<1>4. ASSUME NEW i \in 1..len, i # k
      PROVE  q[i] \in Range(r)
  <2>1. CASE i < k
    BY <2>1 DEF Range
  <2>2. CASE i > k
    <3>1. i - 1 \in 1..len - 1 /\ r[i - 1] = q[i]
      BY <2>2
    <3> QED
      BY <3>1 DEF Range
  <2> QED
    BY <1>4, <2>1, <2>2
<1> QED
  BY <1>2, <1>3, <1>4 DEF Range

\* r is q and one more.
LEMMA OneAdded ==
  ASSUME NEW len \in Nat, NEW q, NEW r, IsInjective(q),
         DOMAIN q = 1..len, DOMAIN r = 1..len + 1, \A i \in 1..len : r[i] = q[i],
         r[len + 1] \notin Range(q)
  PROVE  IsInjective(r) /\ Range(r) = Range(q) \cup {r[len + 1]}
<1>1. \A i \in 1..len : q[i] # r[len + 1]
  BY DEF Range
<1>2. IsInjective(r)
  BY <1>1 DEF IsInjective
<1>3. \A i \in 1..len + 1 : i \in 1..len \/ i = len + 1
  OBVIOUS
<1>4. 1..len \subseteq 1..len + 1 /\ len + 1 \in 1..len + 1
  OBVIOUS
<1> QED
  BY <1>2, <1>3, <1>4, Zenon DEF Range

\* rest is q without its first n elements.
\* The first n elements.
First(q, n) == {q[i] : i \in 1..n}

\* rest is q without its first n elements.
LEMMA FirstTakenOut ==
  ASSUME NEW len \in Nat, NEW n \in 0..len, NEW q, NEW rest, IsInjective(q),
         DOMAIN q = 1..len, DOMAIN rest = 1..len - n,
         \A i \in 1..len - n : rest[i] = q[n + i]
  PROVE  /\ IsInjective(rest)
         /\ First(q, n) \cap Range(rest) = {}
         /\ First(q, n) \cup Range(rest) = Range(q)
         /\ IsFiniteSet(First(q, n)) /\ Cardinality(First(q, n)) = n
<1>1. IsInjective(rest)
  <2>1. ASSUME NEW i \in 1..len - n, NEW j \in 1..len - n, rest[i] = rest[j]
        PROVE  i = j
    <3>1. n + i \in 1..len /\ n + j \in 1..len /\ q[n + i] = q[n + j]
      BY <2>1
    <3>2. n + i = n + j
      BY <3>1 DEF IsInjective
    <3> QED
      BY <3>2
  <2> QED
    BY <2>1 DEF IsInjective
<1> DEFINE begun == {q[i] : i \in 1..n}
<1>2. begun \cap Range(rest) = {}
  <2>1. ASSUME NEW i \in 1..n, NEW j \in 1..len - n
        PROVE  q[i] # rest[j]
    BY DEF IsInjective
  <2> QED
    BY <2>1 DEF Range
<1>3. begun \cup Range(rest) = Range(q)
  <2>1. \A i \in 1..n : q[i] \in Range(q)
    BY DEF Range
  <2>2. \A i \in 1..len - n : rest[i] \in Range(q)
    BY SMTT(30) DEF Range
  <2>3. ASSUME NEW i \in 1..len
        PROVE  q[i] \in begun \cup Range(rest)
    <3>1. CASE i <= n
      BY <3>1
    <3>2. CASE i > n
      <4>1. i - n \in 1..len - n /\ rest[i - n] = q[i]
        BY <3>2
      <4>2. rest[i - n] \in Range(rest)
        BY <4>1 DEF Range
      <4> QED
        BY <4>1, <4>2
    <3> QED
      BY <3>1, <3>2
  <2> QED
    BY <2>1, <2>2, <2>3, Zenon DEF Range
<1>4. IsFiniteSet(begun) /\ Cardinality(begun) = n
  <2> DEFINE f == [i \in 1..n |-> q[i]]
  <2>1. f \in Bijection(1..n, begun)
    BY DEF Bijection, Injection, Surjection, IsInjective
  <2>2. ExistsBijection(1..n, begun)
    BY <2>1 DEF ExistsBijection
  <2>3. IsFiniteSet(1..n) /\ Cardinality(1..n) = n
    BY FS_Interval
  <2> QED
    BY <2>2, <2>3, FS_Bijection
<1> QED
  BY <1>1, <1>2, <1>3, <1>4 DEF First

\* r is left and right, which are q before and after k.
LEMMA TwoJoined ==
  ASSUME NEW len \in Nat, NEW k \in 1..len, NEW q, NEW left, NEW right, NEW r,
         \A i \in 1..k - 1 : left[i] = q[1 + i - 1],
         \A i \in 1..len - (k + 1) + 1 : right[i] = q[k + 1 + i - 1],
         \A i \in 1..(k - 1) + (len - k) :
            r[i] = IF i <= k - 1 THEN left[i] ELSE right[i - (k - 1)]
  PROVE  /\ \A i \in 1..k - 1 : r[i] = q[i]
         /\ \A i \in k..len - 1 : r[i] = q[i + 1]
<1>1. ASSUME NEW i \in 1..k - 1
      PROVE  r[i] = q[i]
  OBVIOUS
<1>2. ASSUME NEW i \in k..len - 1
      PROVE  r[i] = q[i + 1]
  <2>1. r[i] = right[i - (k - 1)]
    OBVIOUS
  <2>2. i - (k - 1) \in 1..len - (k + 1) + 1 /\ k + 1 + (i - (k - 1)) - 1 = i + 1
    OBVIOUS
  <2>3. right[i - (k - 1)] = q[k + 1 + (i - (k - 1)) - 1]
    BY <2>2, Zenon
  <2> QED
    BY <2>1, <2>2, <2>3
<1> QED
  BY <1>1, <1>2

\* A part of a sequence.
LEMMA Slice ==
  ASSUME NEW S, NEW q \in Seq(S), NEW m \in Int, NEW n \in Int, 1 <= m, n <= Len(q), m <= n + 1
  PROVE  /\ SubSeq(q, m, n) \in Seq(S)
         /\ Len(SubSeq(q, m, n)) = n - m + 1
         /\ \A i \in 1..n - m + 1 : SubSeq(q, m, n)[i] = q[m + i - 1]
<1>1. \A i \in m..n : q[i] \in S
  BY LenProperties
<1>2. /\ SubSeq(q, m, n) \in Seq(S)
      /\ Len(SubSeq(q, m, n)) = IF m <= n THEN n - m + 1 ELSE 0
      /\ \A i \in 1..n - m + 1 : SubSeq(q, m, n)[i] = q[m + i - 1]
  BY <1>1, SubSeqProperties
<1> DEFINE s == SubSeq(q, m, n)
<1> HIDE DEF s
<1>3. Len(s) = n - m + 1
  BY <1>2 DEF s
<1> QED
  BY <1>2, <1>3 DEF s

\* What RemoveFirst leaves of a queue that has the element.
LEMMA Removed ==
  ASSUME NEW S, NEW q \in Seq(S), IsInjective(q), NEW k \in 1..Len(q)
  PROVE  /\ RemoveFirst(q, q[k]) \in Seq(S)
         /\ Len(RemoveFirst(q, q[k])) = Len(q) - 1
         /\ \A i \in 1..k - 1 : RemoveFirst(q, q[k])[i] = q[i]
         /\ \A i \in k..Len(q) - 1 : RemoveFirst(q, q[k])[i] = q[i + 1]
<1> DEFINE e == q[k]
<1>1. Len(q) \in Nat /\ DOMAIN q = 1..Len(q)
  BY LenProperties
<1>2. {i \in 1..Len(q) : q[i] = e} = {k}
  BY <1>1 DEF IsInjective
<1>3. Min({k}) = k
  BY DEF Min
<1> HIDE DEF e
<1>4. SelectInSeq(q, LAMBDA v : v = e) = k
  BY <1>2, <1>3, Zenon DEF SelectInSeq
<1>5. \E i \in 1..Len(q) : q[i] = e
  BY DEF e
<1> DEFINE left == SubSeq(q, 1, k - 1)  right == SubSeq(q, k + 1, Len(q))  r == left \o right
<1>6. RemoveFirst(q, e) = r
  BY <1>4, <1>5, Zenon DEF RemoveFirst, RemoveAt
<1>7. /\ left \in Seq(S) /\ Len(left) = (k - 1) - 1 + 1
      /\ \A i \in 1..(k - 1) - 1 + 1 : left[i] = q[1 + i - 1]
  BY <1>1, Slice
<1>8. /\ right \in Seq(S) /\ Len(right) = Len(q) - (k + 1) + 1
      /\ \A i \in 1..Len(q) - (k + 1) + 1 : right[i] = q[k + 1 + i - 1]
  <2>1. k + 1 \in Int /\ Len(q) \in Int /\ 1 <= k + 1 /\ Len(q) <= Len(q) /\ k + 1 <= Len(q) + 1
    BY <1>1
  <2> QED
    BY <2>1, Slice, Zenon
<1> HIDE DEF left, right
<1>9. Len(left) = k - 1 /\ Len(right) = Len(q) - k
  BY <1>1, <1>7, <1>8
<1>10. /\ r \in Seq(S) /\ Len(r) = (k - 1) + (Len(q) - k)
       /\ \A i \in 1..(k - 1) + (Len(q) - k) :
            r[i] = IF i <= k - 1 THEN left[i] ELSE right[i - (k - 1)]
  <2>1. /\ r \in Seq(S) /\ Len(r) = Len(left) + Len(right)
        /\ \A i \in 1..Len(left) + Len(right) :
             r[i] = IF i <= Len(left) THEN left[i] ELSE right[i - Len(left)]
    BY <1>7, <1>8, ConcatProperties
  <2> HIDE DEF r
  <2> QED
    BY <1>9, <2>1, Zenon
<1> HIDE DEF r
<1>11. \A i \in 1..k - 1 : left[i] = q[1 + i - 1]
  BY <1>7
<1>12. /\ \A i \in 1..k - 1 : r[i] = q[i]
       /\ \A i \in k..Len(q) - 1 : r[i] = q[i + 1]
  <2>1. \A i \in 1..Len(q) - (k + 1) + 1 : right[i] = q[k + 1 + i - 1]
    BY <1>8
  <2>2. \A i \in 1..(k - 1) + (Len(q) - k) :
          r[i] = IF i <= k - 1 THEN left[i] ELSE right[i - (k - 1)]
    BY <1>10
  <2>3. Len(q) \in Nat
    BY <1>1
  <2> QED
    BY <1>11, <2>1, <2>2, <2>3, TwoJoined, SMTT(30)
<1>13. Len(r) = Len(q) - 1
  BY <1>1, <1>10
<1> QED
  BY <1>6, <1>10, <1>12, <1>13, Zenon DEF e

\* Nothing is taken from a queue that does not have the element.
LEMMA NotRemoved ==
  ASSUME NEW S, NEW q \in Seq(S), NEW e, e \notin Range(q)
  PROVE  RemoveFirst(q, e) = q
<1>1. DOMAIN q = 1..Len(q)
  BY LenProperties
<1> QED
  BY <1>1, Zenon DEF RemoveFirst, Range

\* An element that leaves a queue leaves it once and for all.
LEMMA RemoveFirstProperties ==
  ASSUME NEW S, NEW q \in Seq(S), IsInjective(q), NEW e
  PROVE  /\ RemoveFirst(q, e) \in Seq(S)
         /\ IsInjective(RemoveFirst(q, e))
         /\ Range(RemoveFirst(q, e)) = Range(q) \ {e}
<1>1. CASE e \notin Range(q)
  BY <1>1, NotRemoved
<1>2. CASE e \in Range(q)
  <2> DEFINE r == RemoveFirst(q, e)
  <2>1. Len(q) \in Nat /\ DOMAIN q = 1..Len(q)
    BY LenProperties
  <2>2. PICK k \in 1..Len(q) : q[k] = e
    BY <1>2, <2>1 DEF Range
  <2>3. /\ r \in Seq(S) /\ Len(r) = Len(q) - 1
        /\ \A i \in 1..k - 1 : r[i] = q[i]
        /\ \A i \in k..Len(q) - 1 : r[i] = q[i + 1]
    BY <2>2, Removed, Zenon
  <2>4. DOMAIN r = 1..Len(q) - 1
    BY <2>3, LenProperties
  <2> HIDE DEF r
  <2>5. IsInjective(r) /\ Range(r) = Range(q) \ {q[k]}
    <3>1. \A i \in 1..k - 1 : r[i] = q[i]
      BY <2>3
    <3>2. \A i \in k..Len(q) - 1 : r[i] = q[i + 1]
      BY <2>3
    <3> QED
      BY <2>1, <2>4, <3>1, <3>2, OneTakenOut, SMTT(30)
  <2> QED
    BY <2>2, <2>3, <2>5, Zenon DEF r
<1> QED
  BY <1>1, <1>2

\* An element that is new to a queue is there once.
LEMMA AppendInjectiveProperties ==
  ASSUME NEW S, NEW q \in Seq(S), IsInjective(q), NEW e \in S, e \notin Range(q)
  PROVE  /\ Append(q, e) \in Seq(S)
         /\ IsInjective(Append(q, e))
         /\ Range(Append(q, e)) = Range(q) \cup {e}
<1> DEFINE r == Append(q, e)
<1>1. Len(q) \in Nat /\ DOMAIN q = 1..Len(q)
  BY LenProperties
<1>2. /\ r \in Seq(S) /\ Len(r) = Len(q) + 1
      /\ \A i \in 1..Len(q) : r[i] = q[i]
      /\ r[Len(q) + 1] = e
  BY AppendProperties
<1>3. DOMAIN r = 1..Len(q) + 1
  BY <1>2, LenProperties
<1> HIDE DEF r
<1>4. IsInjective(r) /\ Range(r) = Range(q) \cup {r[Len(q) + 1]}
  BY <1>1, <1>2, <1>3, OneAdded, Zenon
<1> QED
  BY <1>2, <1>4, Zenon DEF r

\* What is taken from the front of a queue, and what is left of it.
LEMMA PrefixProperties ==
  ASSUME NEW S, NEW q \in Seq(S), IsInjective(q), NEW n \in 0..Len(q)
  PROVE  /\ SubSeq(q, n + 1, Len(q)) \in Seq(S)
         /\ IsInjective(SubSeq(q, n + 1, Len(q)))
         /\ Len(SubSeq(q, n + 1, Len(q))) = Len(q) - n
         /\ First(q, n) \cap Range(SubSeq(q, n + 1, Len(q))) = {}
         /\ First(q, n) \cup Range(SubSeq(q, n + 1, Len(q))) = Range(q)
         /\ IsFiniteSet(First(q, n)) /\ Cardinality(First(q, n)) = n
<1> DEFINE rest  == SubSeq(q, n + 1, Len(q))
<1>1. Len(q) \in Nat /\ DOMAIN q = 1..Len(q)
  BY LenProperties
<1>2. /\ rest \in Seq(S) /\ Len(rest) = Len(q) - (n + 1) + 1
      /\ \A i \in 1..Len(q) - (n + 1) + 1 : rest[i] = q[n + 1 + i - 1]
  <2>1. n + 1 \in Int /\ Len(q) \in Int /\ 1 <= n + 1 /\ Len(q) <= Len(q) /\ n + 1 <= Len(q) + 1
    BY <1>1
  <2> QED
    BY <2>1, Slice, Zenon
<1> HIDE DEF rest
<1>3. DOMAIN rest = 1..Len(rest)
  BY <1>2, LenProperties
<1>4. Len(rest) = Len(q) - n
  BY <1>1, <1>2
<1>5. ASSUME NEW i \in 1..Len(q) - n
      PROVE  rest[i] = q[n + i]
  <2>1. i \in 1..Len(q) - (n + 1) + 1 /\ n + 1 + i - 1 = n + i
    BY <1>1
  <2> QED
    BY <1>2, <2>1, Zenon
<1>6. /\ IsInjective(rest)
      /\ First(q, n) \cap Range(rest) = {}
      /\ First(q, n) \cup Range(rest) = Range(q)
      /\ IsFiniteSet(First(q, n)) /\ Cardinality(First(q, n)) = n
  <2>1. DOMAIN rest = 1..Len(q) - n
    BY <1>3, <1>4
  <2>2. \A i \in 1..Len(q) - n : rest[i] = q[n + i]
    BY <1>5
  <2> QED
    BY <1>1, <2>1, <2>2, FirstTakenOut
<1> QED
  BY <1>2, <1>4, <1>6, Zenon DEF rest

\* What is taken from the head of a queue.
LEMMA HeadTakenOut ==
  ASSUME NEW S, NEW q \in Seq(S), IsInjective(q), q # << >>
  PROVE  /\ Head(q) \in S /\ Tail(q) \in Seq(S) /\ IsInjective(Tail(q))
         /\ Head(q) \notin Range(Tail(q)) /\ Range(q) = {Head(q)} \cup Range(Tail(q))
<1>1. Len(q) \in Nat /\ Len(q) # 0 /\ DOMAIN q = 1..Len(q)
  BY LenProperties, EmptySeq
<1>2. Tail(q) = SubSeq(q, 1 + 1, Len(q))
  BY TailIsSubSeq
<1>3. Head(q) = q[1] /\ Head(q) \in S
  BY HeadTailProperties
<1>4. First(q, 1) = {Head(q)}
  BY <1>3 DEF First
<1>5. 1 \in 0..Len(q)
  BY <1>1
<1>6. /\ SubSeq(q, 1 + 1, Len(q)) \in Seq(S)
      /\ IsInjective(SubSeq(q, 1 + 1, Len(q)))
      /\ First(q, 1) \cap Range(SubSeq(q, 1 + 1, Len(q))) = {}
      /\ First(q, 1) \cup Range(SubSeq(q, 1 + 1, Len(q))) = Range(q)
  BY <1>5, PrefixProperties, Zenon
<1> QED
  BY <1>2, <1>3, <1>4, <1>6, Zenon

-----------------------------------------------------------------------------
(***************************************************************************)
(* The groups.                                                             *)
(***************************************************************************)
\* A group is of equal queries, each in it once.
Group == Seq(Job) \ {<< >>}
Request(g) == RequestOf[Head(g)]
Grouped(g) == IsInjective(g) /\ \A x \in Range(g) : RequestOf[x] = Request(g)

\* The queries of a group are jobs, and an empty group has none.
LEMMA GroupProperties ==
  ASSUME NEW g \in Seq(Job)
  PROVE  /\ Range(g) \subseteq Job
         /\ g # << >> => Head(g) \in Range(g) /\ Head(g) \in Job
         /\ g = << >> <=> Range(g) = {}
<1>1. Len(g) \in Nat /\ DOMAIN g = 1..Len(g) /\ \A i \in 1..Len(g) : g[i] \in Job
  BY LenProperties
<1>2. g # << >> => Len(g) # 0 /\ Head(g) = g[1]
  BY EmptySeq, HeadTailProperties
<1>3. g = << >> => Range(g) = {}
  BY DEF Range
<1>4. \A i \in 1..Len(g) : g[i] \in Range(g)
  BY <1>1 DEF Range
<1>5. g # << >> => g[1] \in Range(g)
  BY <1>1, <1>2, <1>4
<1>6. Range(g) \subseteq Job
  BY <1>1 DEF Range
<1> QED
  BY <1>2, <1>3, <1>5, <1>6

\* A query that is alone is a group.
LEMMA SingleProperties ==
  ASSUME NEW j \in Job
  PROVE  <<j>> \in Group /\ Grouped(<<j>>) /\ Request(<<j>>) = RequestOf[j]
         /\ Range(<<j>>) = {j}
<1> QED
  BY DEF Group, Grouped, Request, Range, IsInjective

\* A query joins a group of equal ones.
LEMMA JoinedProperties ==
  ASSUME NEW g \in Group, Grouped(g), NEW j \in Job, j \notin Range(g),
         RequestOf[j] = Request(g)
  PROVE  /\ Append(g, j) \in Group /\ Grouped(Append(g, j))
         /\ Request(Append(g, j)) = Request(g) /\ Range(Append(g, j)) = Range(g) \cup {j}
<1>1. g \in Seq(Job) /\ g # << >> /\ IsInjective(g)
  BY DEF Group, Grouped
<1>2. /\ Append(g, j) \in Seq(Job) /\ IsInjective(Append(g, j))
      /\ Range(Append(g, j)) = Range(g) \cup {j}
  BY <1>1, AppendInjectiveProperties
<1>3. Append(g, j) # << >> /\ Head(Append(g, j)) = Head(g)
  BY <1>1, AppendProperties, EmptySeq, HeadTailProperties
<1> QED
  BY <1>2, <1>3 DEF Group, Grouped, Request

\* A group goes on without one of its queries, unless it was alone.
LEMMA WithoutProperties ==
  ASSUME NEW g \in Seq(Job), Grouped(g), NEW j
  PROVE  /\ Without(g, j) \in Seq(Job) /\ Range(Without(g, j)) = Range(g) \ {j}
         /\ Without(g, j) # << >> =>
              /\ Without(g, j) \in Group /\ Grouped(Without(g, j))
              /\ g # << >> /\ Request(Without(g, j)) = Request(g)
<1>1. /\ Without(g, j) \in Seq(Job) /\ IsInjective(Without(g, j))
      /\ Range(Without(g, j)) = Range(g) \ {j}
  BY RemoveFirstProperties DEF Without, Grouped
<1>2. ASSUME Without(g, j) # << >>
      PROVE  Head(Without(g, j)) \in Range(g) /\ g # << >>
  BY <1>1, <1>2, GroupProperties
<1> QED
  BY <1>1, <1>2 DEF Group, Grouped, Request

\* Groups that wait in q and groups at work in ws are of different queries.
InGroups(q, ws) ==
  /\ q \in Seq(Group) /\ ws \in [Job -> Seq(Job)]
  /\ IsInjective(q)
  /\ \A g \in Range(q) : Grouped(g)
  /\ \A t \in Busy(ws) : Grouped(ws[t])
  /\ \A g, h \in Range(q) : Request(g) = Request(h) => g = h
  /\ \A t, u \in Busy(ws) : Request(ws[t]) = Request(ws[u]) => t = u
  /\ \A g \in Range(q), t \in Busy(ws) : Request(g) # Request(ws[t])
Clients(q, ws) ==
  {x \in Job : (\E g \in Range(q) : x \in Range(g)) \/ (\E t \in Job : x \in Range(ws[t]))}
Unstarted(q, ws) == \A g \in Range(q) : \A x \in Range(g) : ws[x] = << >>

\* What start_queued does with groups and the places that are taken: some of the groups that
\* wait begin, each under the query that leads it, and none waits while a place is free.
LEMMA StartQueuedProperties ==
  ASSUME NEW q, NEW ws, NEW wk, InGroups(q, ws), Unstarted(q, ws),
         maxWorkers \in Nat, Cardinality(Busy(ws)) <= maxWorkers, StartQueued(q, ws, wk)
  PROVE  /\ InGroups(queue', workers') /\ Unstarted(queue', workers')
         /\ Clients(queue', workers') = Clients(q, ws)
         /\ Cardinality(Busy(workers')) <= maxWorkers
         /\ queue' # << >> => Cardinality(Busy(workers')) = maxWorkers
         /\ work' = [x \in Job |-> work'[x]]
         /\ \A x \in Job :
              \/ workers'[x] = ws[x] /\ work'[x] = wk[x]
              \/ workers'[x] \in Range(q) /\ x = Head(workers'[x]) /\ work'[x] = Begun
<1> DEFINE free == maxWorkers - Cardinality(Busy(ws))
           n == IF free <= 0 THEN 0 ELSE IF free < Len(q) THEN free ELSE Len(q)
           GroupOf(j) == {q[i] : i \in {i \in 1..n : Head(q[i]) = j}}
           heads == [i \in 1..Len(q) |-> Head(q[i])]
<1>1. /\ q \in Seq(Group) /\ IsInjective(q) /\ Len(q) \in Nat /\ DOMAIN q = 1..Len(q)
      /\ \A i \in 1..Len(q) : q[i] \in Group /\ q[i] \in Range(q)
  BY LenProperties DEF InGroups, Range
<1>2. Range(q) \subseteq Group
  BY <1>1 DEF Range
<1>3. IsFiniteSet(Busy(ws)) /\ Cardinality(Busy(ws)) \in Nat
  BY QueryAssumption, FS_Subset, FS_CardinalityType DEF Busy
<1>4. /\ n \in 0..Len(q) /\ Cardinality(Busy(ws)) + n <= maxWorkers
      /\ Len(q) - n # 0 => Cardinality(Busy(ws)) + n = maxWorkers
  <2> HIDE DEF n
  <2> QED
    BY <1>1, <1>3 DEF n
<1>5. /\ queue' = SubSeq(q, n + 1, Len(q))
      /\ workers' = [j \in Job |-> IF GroupOf(j) = {} THEN ws[j]
                                   ELSE CHOOSE g \in GroupOf(j) : TRUE]
      /\ work' = [j \in Job |-> IF GroupOf(j) = {} THEN wk[j] ELSE Begun]
  BY Zenon DEF StartQueued
<1> HIDE DEF n
<1>6. /\ SubSeq(q, n + 1, Len(q)) \in Seq(Group)
      /\ IsInjective(SubSeq(q, n + 1, Len(q)))
      /\ Len(SubSeq(q, n + 1, Len(q))) = Len(q) - n
      /\ First(q, n) \cap Range(SubSeq(q, n + 1, Len(q))) = {}
      /\ First(q, n) \cup Range(SubSeq(q, n + 1, Len(q))) = Range(q)
      /\ IsFiniteSet(First(q, n)) /\ Cardinality(First(q, n)) = n
  BY <1>1, <1>4, PrefixProperties, Zenon
\* Different groups have different heads.
<1>7. \A g, h \in Range(q) : Head(g) = Head(h) => g = h
  BY DEF InGroups, Request
<1>8. \A g \in Range(q) : g \in Seq(Job) /\ g # << >> /\ Head(g) \in Job /\ Head(g) \in Range(g)
  BY <1>2, GroupProperties DEF Group
<1>9. \A i \in 1..n : i \in 1..Len(q) /\ q[i] \in First(q, n)
  <2>1. \A len \in Nat : \A k \in 0..len : 1..k \subseteq 1..len
    OBVIOUS
  <2>2. 1..n \subseteq 1..Len(q)
    BY <1>1, <1>4, <2>1, Zenon
  <2> QED
    BY <2>2 DEF First
<1>10. \A x \in Job :
         \/ GroupOf(x) = {} /\ \A g \in First(q, n) : Head(g) # x
         \/ \E g \in First(q, n) : Head(g) = x /\ GroupOf(x) = {g}
  <2> SUFFICES ASSUME NEW x \in Job, NEW k \in 1..n, Head(q[k]) = x
               PROVE  GroupOf(x) = {q[k]}
    BY <1>9 DEF First
  <2>1. \A i \in 1..n : Head(q[i]) = x => q[i] = q[k]
    BY <1>1, <1>7, <1>9
  <2> QED
    BY <2>1
<1> HIDE DEF GroupOf
<1>11. ASSUME NEW x \in Job
       PROVE  \/ /\ \A g \in First(q, n) : Head(g) # x
                 /\ workers'[x] = ws[x] /\ work'[x] = wk[x]
              \/ /\ workers'[x] \in First(q, n) /\ Head(workers'[x]) = x
                 /\ work'[x] = Begun
  <2>1. CASE GroupOf(x) = {} /\ \A g \in First(q, n) : Head(g) # x
    BY <1>5, <2>1
  <2>2. ASSUME NEW g \in First(q, n), Head(g) = x, GroupOf(x) = {g}
        PROVE  workers'[x] = g /\ work'[x] = Begun
    BY <1>5, <2>2
  <2> QED
    BY <1>10, <2>1, <2>2
<1>12. /\ First(q, n) \subseteq Range(q) /\ Range(queue') \subseteq Range(q)
       /\ Range(queue') = Range(q) \ First(q, n)
  BY <1>5, <1>6
<1>13. \A g \in First(q, n) : workers'[Head(g)] = g /\ ws[Head(g)] = << >>
  BY <1>7, <1>8, <1>11, <1>12 DEF Unstarted
<1>14. workers' \in [Job -> Seq(Job)]
  <2>1. \A x \in Job : workers'[x] \in Seq(Job)
    BY <1>8, <1>11, <1>12 DEF InGroups
  <2> QED
    BY <1>5, <2>1
<1>15. ASSUME NEW x \in Busy(workers')
       PROVE  /\ x \in Job
              /\ \/ x \in Busy(ws) /\ workers'[x] = ws[x] /\ \A g \in First(q, n) : Head(g) # x
                 \/ workers'[x] \in First(q, n) /\ Head(workers'[x]) = x
  BY <1>11 DEF Busy
<1>16. InGroups(queue', workers')
  <2>1. \A g \in Range(queue') : Grouped(g)
    BY <1>12 DEF InGroups
  <2>2. \A t \in Busy(workers') : Grouped(workers'[t])
    BY <1>12, <1>15 DEF InGroups
  <2>3. \A g, h \in Range(queue') : Request(g) = Request(h) => g = h
    BY <1>12 DEF InGroups
  <2>4. ASSUME NEW t \in Busy(workers'), NEW u \in Busy(workers'),
               Request(workers'[t]) = Request(workers'[u])
        PROVE  t = u
    BY <1>12, <1>15, <2>4 DEF InGroups
  <2>5. ASSUME NEW g \in Range(queue'), NEW t \in Busy(workers')
        PROVE  Request(g) # Request(workers'[t])
    BY <1>12, <1>15 DEF InGroups
  <2> QED
    BY <1>5, <1>6, <1>14, <2>1, <2>2, <2>3, <2>4, <2>5 DEF InGroups
<1>17. Clients(queue', workers') = Clients(q, ws)
  <2>1. ASSUME NEW x \in Job, NEW g \in Range(q), x \in Range(g)
        PROVE  x \in Clients(queue', workers')
    BY <1>8, <1>12, <1>13, <2>1 DEF Clients
  <2>2. ASSUME NEW x \in Job, NEW t \in Job, x \in Range(ws[t])
        PROVE  x \in Clients(queue', workers')
    <3>1. ws[t] # << >>
      BY <2>2 DEF Range
    <3> QED
      BY <1>11, <1>12, <1>13, <2>2, <3>1 DEF Clients
  <2>3. ASSUME NEW x \in Job, NEW t \in Job, x \in Range(workers'[t])
        PROVE  x \in Clients(q, ws)
    BY <1>11, <1>12, <2>3 DEF Clients
  <2> QED
    BY <1>12, <2>1, <2>2, <2>3 DEF Clients
<1>18. Unstarted(queue', workers')
  <2>1. ASSUME NEW g \in Range(queue'), NEW x \in Range(g), workers'[x] # << >>
        PROVE  FALSE
    <3>1. g \in Range(q) /\ x \in Job /\ ws[x] = << >>
      BY <1>8, <1>12, GroupProperties DEF Unstarted
    <3>2. workers'[x] \in First(q, n) /\ Head(workers'[x]) = x
      BY <1>11, <2>1, <3>1
    <3>3. Request(workers'[x]) = Request(g)
      BY <3>1, <3>2 DEF InGroups, Grouped, Request
    <3> QED
      BY <1>12, <3>1, <3>2, <3>3 DEF InGroups
  <2> QED
    BY <2>1 DEF Unstarted
<1>19. Cardinality(Busy(workers')) = Cardinality(Busy(ws)) + n
  <2> DEFINE begun == {Head(g) : g \in First(q, n)}
  <2>1. heads \in Seq(Job) /\ Len(heads) = Len(q) /\ IsInjective(heads)
    <3>1. \A i \in 1..Len(q) : Head(q[i]) \in Job
      BY <1>1, <1>8
    <3>2. heads \in Seq(Job) /\ Len(heads) = Len(q)
      BY <1>1, <3>1
    <3>3. \A i, k \in 1..Len(q) : Head(q[i]) = Head(q[k]) => i = k
      BY <1>1, <1>7 DEF IsInjective
    <3> QED
      BY <3>2, <3>3 DEF IsInjective
  <2>2. First(heads, n) = begun
    BY <1>4, <1>9 DEF First
  <2>3. IsFiniteSet(First(heads, n)) /\ Cardinality(First(heads, n)) = n
    <3> HIDE DEF heads
    <3> QED
      BY <1>4, <2>1, PrefixProperties
  <2>4. Busy(workers') = Busy(ws) \cup begun
    <3>1. ASSUME NEW x \in Job
          PROVE  workers'[x] # << >> <=> (ws[x] # << >> \/ x \in begun)
      BY <1>8, <1>11, <1>12, <1>13
    <3>2. begun \subseteq Job
      BY <1>8, <1>12
    <3> QED
      BY <3>1, <3>2 DEF Busy
  <2>5. Busy(ws) \cap begun = {}
    BY <1>13 DEF Busy
  <2> HIDE DEF begun, heads
  <2>6. Cardinality(Busy(ws) \cup begun)
          = Cardinality(Busy(ws)) + Cardinality(begun) - Cardinality(Busy(ws) \cap begun)
    BY <1>3, <2>2, <2>3, FS_Union
  <2>7. Cardinality(Busy(ws) \cap begun) = 0
    BY <2>5, FS_EmptySet
  <2> QED
    BY <1>3, <1>4, <2>2, <2>3, <2>4, <2>6, <2>7
<1>20. queue' # << >> => Len(q) - n # 0
  BY <1>5, <1>6, EmptySeq
<1>21. /\ Cardinality(Busy(workers')) <= maxWorkers
       /\ queue' # << >> => Cardinality(Busy(workers')) = maxWorkers
  BY <1>4, <1>19, <1>20
<1>22. work' = [x \in Job |-> work'[x]]
  BY <1>5
<1>23. \A x \in Job :
         \/ workers'[x] = ws[x] /\ work'[x] = wk[x]
         \/ workers'[x] \in Range(q) /\ x = Head(workers'[x]) /\ work'[x] = Begun
  BY <1>11, <1>12
<1> QED
  BY <1>16, <1>17, <1>18, <1>21, <1>22, <1>23

\* The invariant: a query that has a client is in one group, waiting or at work; the queries
\* of groups that wait, and those not yet submitted, lead no worker; each query in hand has
\* one lease and no reply.
Accounts ==
  /\ monitored \subseteq submitted
  /\ \A j \in monitored : replies[j] = 0
  /\ \A j \in Job : j \notin submitted => replies[j] = 0 /\ workers[j] = << >>
  /\ lease = Cardinality(monitored)
Groups ==
  /\ InGroups(queue, workers) /\ Unstarted(queue, workers)
  /\ Clients(queue, workers) = monitored
Room == WorkerLimit /\ WorkConserving
Inv == TypeOK /\ Groups /\ Room /\ Accounts

\* The invariant holds at the start.
LEMMA InitInv == Init => Inv
<1> SUFFICES ASSUME Init PROVE Inv
  OBVIOUS
<1>1. Range(queue) = {} /\ IsInjective(queue) /\ queue \in Seq(Group) /\ DOMAIN queue = {}
  BY DEF Init, Range, IsInjective
<1>2. /\ workers \in [Job -> Seq(Job)] /\ Busy(workers) = {}
      /\ \A t \in Job : Range(workers[t]) = {}
  <2>1. << >> \in Seq(Job)
    OBVIOUS
  <2>2. Range(<< >>) = {}
    BY DEF Range
  <2> QED
    BY <2>1, <2>2 DEF Init, Busy
<1>3. Cardinality({}) = 0
  BY FS_EmptySet
<1>4. maxWorkers \in Nat \ {0}
  BY CatalogAssumption DEF Init
<1>5. TypeOK
  <2>1. 0 \in Version /\ {} \in Entries
    BY CatalogAssumption DEF Version, Entries
  <2>2. \A j \in Job : workers[j] \in Seq(Job)
    BY <1>2
  <2> QED
    BY <1>1, <2>1, <2>2 DEF Init, TypeOK, NoWork
<1>6. Groups
  BY <1>1, <1>2 DEF Init, Groups, InGroups, Unstarted, Clients
<1>7. Room
  <2>1. Cardinality(Busy(workers)) = 0 /\ queue = << >>
    BY <1>2, <1>3 DEF Init
  <2> QED
    BY <1>4, <2>1 DEF Room, WorkerLimit, WorkConserving
<1>8. Accounts
  BY <1>3 DEF Init, Accounts
<1> QED
  BY <1>5, <1>6, <1>7, <1>8 DEF Inv

\* What the steps need of the invariant.
LEMMA InvFacts ==
  ASSUME Inv
  PROVE  /\ InGroups(queue, workers) /\ Unstarted(queue, workers)
         /\ queue \in Seq(Group) /\ workers \in [Job -> Seq(Job)]
         /\ \A g \in Range(queue) : g \in Group /\ g \in Seq(Job) /\ g # << >>
                                    /\ Head(g) \in Job /\ Head(g) \in Range(g)
         /\ maxWorkers \in Nat \ {0}
         /\ IsFiniteSet(Busy(workers)) /\ Cardinality(Busy(workers)) \in Nat
         /\ IsFiniteSet(monitored) /\ Cardinality(monitored) \in Nat
<1>1. queue \in Seq(Group) /\ workers \in [Job -> Seq(Job)]
  BY DEF Inv, Groups, InGroups
<1>2. \A g \in Range(queue) : g \in Group
  BY <1>1, LenProperties DEF Range
<1>3. \A g \in Range(queue) : g \in Seq(Job) /\ g # << >> /\ Head(g) \in Job
      /\ Head(g) \in Range(g)
  BY <1>2, GroupProperties DEF Group
<1>4. maxWorkers \in Nat \ {0}
  BY CatalogAssumption DEF Inv, TypeOK
<1>5. IsFiniteSet(Busy(workers)) /\ IsFiniteSet(monitored)
  BY QueryAssumption, FS_Subset DEF Busy, Inv, TypeOK
<1>6. Cardinality(Busy(workers)) \in Nat /\ Cardinality(monitored) \in Nat
  BY <1>5, FS_CardinalityType
<1> QED
  BY <1>1, <1>2, <1>3, <1>4, <1>5, <1>6 DEF Inv, Groups

\* A group that begins is in its first state.
LEMMA BegunType ==
  ASSUME Inv, cache' \in Entries
  PROVE  Begun \in [at : {"none", "begun", "signed", "ended", "died"}, base : Entries,
                    signature : Version, found : Entries, began : Version]
<1>1. 0 \in Version /\ {} \in Entries /\ file \in Version
  BY CatalogAssumption DEF Inv, TypeOK, Version, Entries
<1> QED
  BY <1>1 DEF Begun, NoWork

\* A query joins the worker of an equal one, or the group that waits, or is a new group.
LEMMA SubmitInv ==
  ASSUME Inv, NEW j \in Job, Submit(j)
  PROVE  Inv'
<1> DEFINE running == {t \in Busy(workers) : Same(j, workers[t])}
           waiting == {i \in DOMAIN queue : Same(j, queue[i])}
<1>1. /\ j \notin submitted /\ j \notin monitored /\ workers[j] = << >>
      /\ \A g \in Range(queue) : j \notin Range(g)
      /\ \A t \in Job : j \notin Range(workers[t])
  BY DEF Inv, Groups, Accounts, Submit, Clients
<1>2. /\ submitted' = submitted \cup {j} /\ monitored' = monitored \cup {j}
         /\ lease' = lease + 1
      /\ mail' = mail /\ cache' = cache /\ maxWorkers' = maxWorkers /\ file' = file
      /\ gone' = gone /\ replies' = replies
      /\ since' = [since EXCEPT ![j] =
                     IF running = {} THEN file ELSE work[CHOOSE t \in running : TRUE].began]
  BY DEF Submit
<1>3. Cardinality(monitored \cup {j}) = Cardinality(monitored) + 1
  BY <1>1, InvFacts, FS_AddElement
<1>4. since' \in [Job -> Version]
  <2>1. running # {} => (CHOOSE t \in running : TRUE) \in Job
    BY DEF Busy
  <2>2. \A t \in Job : work[t].began \in Version
    BY DEF Inv, TypeOK
  <2> QED
    BY <1>2, <2>1, <2>2 DEF Inv, TypeOK
<1>5. ASSUME queue' \in Seq(Group), workers' \in [Job -> Seq(Job)],
             work' = work \/ work' = [work EXCEPT ![j] = Begun]
      PROVE  TypeOK'
  <2>1. work' \in [Job -> [at : {"none", "begun", "signed", "ended", "died"},
                           base : Entries, signature : Version, found : Entries,
                           began : Version]]
    BY <1>2, <1>5, BegunType DEF Inv, TypeOK
  <2>2. \A i \in DOMAIN queue' : queue'[i] \in Seq(Job) \ {<< >>}
    BY <1>5, LenProperties DEF Group
  <2>3. lease' \in Nat
    BY <1>2 DEF Inv, TypeOK
  <2> QED
    BY <1>2, <1>4, <1>5, <2>1, <2>2, <2>3 DEF Inv, TypeOK
<1>6. ASSUME \A t \in Job : t \notin submitted' => workers'[t] = workers[t]
      PROVE  Accounts'
  BY <1>1, <1>2, <1>3, <1>6 DEF Inv, Accounts
\* The query joins a worker, and only one.
<1>7. CASE running # {}
  <2>1. /\ workers' = [t \in Job |-> IF t \in running THEN Append(workers[t], j)
                                     ELSE workers[t]]
        /\ queue' = queue /\ work' = work
    BY <1>7 DEF Submit
  <2>2. PICK u \in running : TRUE
    BY <1>7
  <2>3. u \in Busy(workers) /\ u \in Job /\ Request(workers[u]) = RequestOf[j]
    BY DEF Same, Request, Busy
  <2>4. running = {u}
    BY <2>3, InvFacts DEF InGroups, Same, Request
  <2> HIDE DEF running, waiting
  <2>5. workers[u] \in Group /\ Grouped(workers[u]) /\ j \notin Range(workers[u])
    BY <1>1, <2>3, InvFacts DEF Group, Busy, InGroups
  <2>6. /\ workers'[u] \in Group /\ Grouped(workers'[u])
        /\ Request(workers'[u]) = Request(workers[u])
        /\ Range(workers'[u]) = Range(workers[u]) \cup {j}
    <3>1. workers'[u] = Append(workers[u], j)
      BY <2>1, <2>3, <2>4
    <3> QED
      BY <2>3, <2>5, <3>1, JoinedProperties
  <2>7. \A t \in Job : t # u => workers'[t] = workers[t]
    BY <2>1, <2>4
  <2>8. workers' \in [Job -> Seq(Job)] /\ Busy(workers') = Busy(workers)
    <3>1. workers'[u] \in Seq(Job) /\ workers'[u] # << >>
      BY <2>6 DEF Group
    <3>2. \A t \in Job : workers'[t] \in Seq(Job)
          /\ (workers'[t] # << >> <=> workers[t] # << >>)
      BY <2>3, <2>7, <3>1, InvFacts DEF Busy
    <3> QED
      BY <2>1, <3>2 DEF Busy
  <2>9. InGroups(queue', workers')
    <3>1. \A t \in Busy(workers) :
            Grouped(workers'[t]) /\ Request(workers'[t]) = Request(workers[t])
      BY <2>3, <2>6, <2>7, InvFacts DEF InGroups, Busy
    <3>2. \A t, v \in Busy(workers) : Request(workers'[t]) = Request(workers'[v]) => t = v
      BY <3>1, InvFacts DEF InGroups
    <3>3. \A g \in Range(queue), t \in Busy(workers) : Request(g) # Request(workers'[t])
      BY <3>1, InvFacts DEF InGroups
    <3>4. IsInjective(queue) /\ (\A g \in Range(queue) : Grouped(g))
          /\ (\A g, h \in Range(queue) : Request(g) = Request(h) => g = h)
      BY InvFacts DEF InGroups
    <3> QED
      BY <2>1, <2>8, <3>1, <3>2, <3>3, <3>4, InvFacts , ZenonT(40) DEF InGroups
  <2>10. Unstarted(queue', workers')
    <3>1. \A g \in Range(queue) : u \notin Range(g)
      BY <2>3, InvFacts DEF Unstarted, Busy
    <3>2. \A g \in Range(queue) : Range(g) \subseteq Job
      BY InvFacts, GroupProperties
    <3> QED
      BY <2>1, <2>7, <3>1, <3>2, InvFacts DEF Unstarted
  <2>11. Clients(queue', workers') = Clients(queue, workers) \cup {j}
    <3>1. \A x \in Job : (\E t \in Job : x \in Range(workers'[t]))
                           <=> x = j \/ \E t \in Job : x \in Range(workers[t])
      BY <2>3, <2>6, <2>7
    <3> QED
      BY <2>1, <3>1 DEF Clients
  <2>12. Room' /\ Groups'
    BY <1>2, <2>1, <2>8, <2>9, <2>10, <2>11
       DEF Inv, Room, WorkerLimit, WorkConserving, Groups
  <2>13. TypeOK'
    BY <1>5, <2>1, <2>8, InvFacts
  <2>14. Accounts'
    <3>1. u \in submitted
      BY <2>3 DEF Inv, Accounts, Busy
    <3> QED
      BY <1>2, <1>6, <2>7, <3>1
  <2> QED
    BY <2>12, <2>13, <2>14 DEF Inv
\* No worker is on such a query.
<1>8. CASE running = {}
  <2>1. \A t \in Busy(workers) : Request(workers[t]) # RequestOf[j]
    BY <1>8 DEF Same, Request
  <2>2. CASE waiting # {}
    <3>1. /\ queue' = [i \in DOMAIN queue |-> IF i \in waiting THEN Append(queue[i], j)
                                              ELSE queue[i]]
          /\ workers' = workers /\ work' = work
      BY <1>8, <2>2 DEF Submit
    <3>2. /\ Len(queue) \in Nat /\ DOMAIN queue = 1..Len(queue)
          /\ \A i \in DOMAIN queue : queue[i] \in Group /\ queue[i] \in Range(queue)
      BY InvFacts, LenProperties DEF Range
    <3>3. \A i \in waiting : Request(queue[i]) = RequestOf[j]
      BY DEF Same, Request
    <3>4. DOMAIN queue' = DOMAIN queue
      BY <3>1
    <3>5. ASSUME NEW i \in DOMAIN queue
          PROVE  /\ queue'[i] \in Group /\ Grouped(queue'[i])
                 /\ Request(queue'[i]) = Request(queue[i])
                 /\ Range(queue'[i]) = IF i \in waiting THEN Range(queue[i]) \cup {j}
                                       ELSE Range(queue[i])
      <4>1. queue[i] \in Group /\ Grouped(queue[i]) /\ j \notin Range(queue[i])
        BY <1>1, <3>2, InvFacts DEF InGroups
      <4>2. CASE i \in waiting
        BY <3>1, <3>3, <4>1, <4>2, JoinedProperties
      <4>3. CASE i \notin waiting
        BY <3>1, <4>1, <4>3
      <4> QED
        BY <4>2, <4>3
    <3>6. queue' \in Seq(Group) /\ (queue' = << >> <=> queue = << >>)
      <4>1. queue' \in [1..Len(queue) -> Group]
        BY <3>1, <3>2, <3>5
      <4>2. queue' \in Seq(Group) /\ Len(queue') = Len(queue)
        BY <3>2, <4>1, SeqDef, LenProperties
      <4> QED
        BY <4>2, InvFacts, EmptySeq
    <3> HIDE DEF running, waiting
    <3>7. \A i, k \in DOMAIN queue : Request(queue[i]) = Request(queue[k]) => i = k
      BY <3>2, InvFacts DEF InGroups, IsInjective
    <3>8. IsInjective(queue')
      BY <3>4, <3>5, <3>7 DEF IsInjective
    <3>9. \A g \in Range(queue') : \E i \in DOMAIN queue : g = queue'[i]
      BY <3>4 DEF Range
    <3>10. InGroups(queue', workers')
      <4>1. \A g \in Range(queue') : Grouped(g)
        BY <3>5, <3>9
      <4>2. \A g, h \in Range(queue') : Request(g) = Request(h) => g = h
        <5> SUFFICES ASSUME NEW g \in Range(queue'), NEW h \in Range(queue'),
                            Request(g) = Request(h)
                     PROVE  g = h
          OBVIOUS
        <5>1. PICK i \in DOMAIN queue : g = queue'[i]
          BY <3>9
        <5>2. PICK k \in DOMAIN queue : h = queue'[k]
          BY <3>9
        <5>3. Request(queue[i]) = Request(queue[k])
          BY <3>5, <5>1, <5>2
        <5> QED
          BY <3>7, <5>1, <5>2, <5>3
      <4>3. ASSUME NEW g \in Range(queue'), NEW t \in Busy(workers)
            PROVE  Request(g) # Request(workers[t])
        <5>1. PICK i \in DOMAIN queue : g = queue'[i]
          BY <3>9
        <5>2. Request(queue[i]) # Request(workers[t])
          BY <3>2, InvFacts DEF InGroups
        <5> QED
          BY <3>5, <5>1, <5>2
      <4> QED
        BY <3>1, <3>6, <3>8, <4>1, <4>2, <4>3, InvFacts DEF InGroups
    <3>11. Unstarted(queue', workers')
      <4> SUFFICES ASSUME NEW g \in Range(queue'), NEW x \in Range(g)
                   PROVE  workers[x] = << >>
        BY <3>1 DEF Unstarted
      <4>1. PICK i \in DOMAIN queue : g = queue'[i]
        BY <3>9
      <4>2. x \in Range(queue[i]) \/ x = j
        BY <3>5, <4>1
      <4>3. x \in Range(queue[i]) => workers[x] = << >>
        BY <3>2, InvFacts DEF Unstarted
      <4> QED
        BY <1>1, <4>2, <4>3
    <3>12. Clients(queue', workers') = Clients(queue, workers) \cup {j}
      <4>1. PICK k \in DOMAIN queue : k \in waiting
        BY <2>2 DEF waiting
      <4>2. \A i \in DOMAIN queue : queue'[i] \in Range(queue')
        BY <3>4 DEF Range
      <4>3. \A g \in Range(queue) : \E i \in DOMAIN queue : g = queue[i]
        BY DEF Range
      <4>4. ASSUME NEW x \in Job
            PROVE  (\E g \in Range(queue') : x \in Range(g))
                     <=> x = j \/ \E g \in Range(queue) : x \in Range(g)
        <5>1. ASSUME NEW g \in Range(queue'), x \in Range(g), x # j
              PROVE  \E h \in Range(queue) : x \in Range(h)
          BY <3>2, <3>5, <3>9, <5>1
        <5>2. ASSUME NEW g \in Range(queue), x \in Range(g)
              PROVE  \E h \in Range(queue') : x \in Range(h)
          BY <3>5, <4>2, <4>3, <5>2
        <5>3. x = j => x \in Range(queue'[k])
          BY <3>5, <4>1
        <5> QED
          BY <4>1, <4>2, <5>1, <5>2, <5>3
      <4> QED
        BY <3>1, <4>4 DEF Clients
    <3>13. Room' /\ Groups'
      BY <1>2, <3>1, <3>6, <3>10, <3>11, <3>12
         DEF Inv, Room, WorkerLimit, WorkConserving, Groups
    <3>14. TypeOK'
      BY <1>5, <3>1, <3>6, InvFacts
    <3>15. Accounts'
      BY <1>6, <3>1
    <3> QED
      BY <3>13, <3>14, <3>15 DEF Inv
  <2>3. CASE waiting = {}
    <3>1. /\ Len(queue) \in Nat /\ DOMAIN queue = 1..Len(queue)
          /\ \A g \in Range(queue) : \E i \in DOMAIN queue : g = queue[i]
      BY InvFacts, LenProperties DEF Range
    <3>2. \A g \in Range(queue) : Request(g) # RequestOf[j]
      BY <2>3, <3>1 DEF Same, Request
    <3>3. CASE Cardinality(Busy(workers)) < maxWorkers
      <4>1. /\ workers' = [workers EXCEPT ![j] = <<j>>] /\ queue' = queue
            /\ work' = [work EXCEPT ![j] = Begun]
        BY <1>8, <2>3, <3>3 DEF Submit
      <4>2. queue = << >>
        BY <3>3, InvFacts DEF Inv, Room, WorkConserving
      <4>3. Range(queue) = {}
        BY <4>2 DEF Range
      <4> HIDE DEF running, waiting
      <4>4. /\ workers'[j] = <<j>> /\ workers'[j] \in Seq(Job) /\ workers'[j] # << >>
            /\ Grouped(workers'[j]) /\ Request(workers'[j]) = RequestOf[j]
            /\ Range(workers'[j]) = {j}
        BY <4>1, InvFacts, SingleProperties DEF Group
      <4>5. \A t \in Job : t # j => workers'[t] = workers[t]
        BY <4>1, InvFacts
      <4>6. workers' \in [Job -> Seq(Job)]
        BY <4>1, <4>4, InvFacts
      <4>7. Busy(workers') = Busy(workers) \cup {j} /\ j \notin Busy(workers)
        BY <1>1, <4>4, <4>5 DEF Busy
      <4>8. InGroups(queue', workers')
        <5>1. \A t \in Busy(workers) : t # j /\ t \in Job /\ workers'[t] = workers[t]
          BY <4>5, <4>7 DEF Busy
        <5> QED
          BY <2>1, <4>1, <4>3, <4>4, <4>6, <4>7, <5>1, InvFacts , ZenonT(40) DEF InGroups
      <4>9. Unstarted(queue', workers')
        BY <4>1, <4>3 DEF Unstarted
      <4>10. Clients(queue', workers') = Clients(queue, workers) \cup {j}
        <5>1. Range(workers[j]) = {}
          BY <1>1 DEF Range
        <5>2. \A x \in Job : (\E t \in Job : x \in Range(workers'[t]))
                               <=> x = j \/ \E t \in Job : x \in Range(workers[t])
          BY <4>4, <4>5, <5>1
        <5> QED
          BY <4>1, <5>2 DEF Clients
      <4>11. Cardinality(Busy(workers')) = Cardinality(Busy(workers)) + 1
        BY <4>7, InvFacts, FS_AddElement
      <4>12. Room'
        BY <1>2, <3>3, <4>1, <4>2, <4>11, InvFacts DEF Room, WorkerLimit, WorkConserving
      <4>13. Groups'
        BY <1>2, <4>8, <4>9, <4>10 DEF Inv, Groups
      <4>14. TypeOK'
        BY <1>5, <4>1, <4>6, InvFacts
      <4>15. Accounts'
        BY <1>2, <1>6, <4>5
      <4> QED
        BY <4>12, <4>13, <4>14, <4>15 DEF Inv
    <3>4. CASE ~(Cardinality(Busy(workers)) < maxWorkers)
      <4>1. queue' = Append(queue, <<j>>) /\ workers' = workers /\ work' = work
        BY <1>8, <2>3, <3>4 DEF Submit
      <4> HIDE DEF running, waiting
      <4>2. /\ <<j>> \in Group /\ Grouped(<<j>>) /\ Request(<<j>>) = RequestOf[j]
            /\ Range(<<j>>) = {j}
        BY SingleProperties
      <4>3. queue \in Seq(Group) /\ IsInjective(queue) /\ <<j>> \notin Range(queue)
        BY <3>2, <4>2, InvFacts DEF InGroups
      <4>4. /\ queue' \in Seq(Group) /\ IsInjective(queue')
            /\ Range(queue') = Range(queue) \cup {<<j>>}
        BY <4>1, <4>2, <4>3, AppendInjectiveProperties
      <4>5. InGroups(queue', workers')
        BY <2>1, <3>2, <4>1, <4>2, <4>4, InvFacts , ZenonT(40) DEF InGroups
      <4>6. Unstarted(queue', workers')
        BY <1>1, <4>1, <4>2, <4>4, InvFacts DEF Unstarted
      <4>7. Clients(queue', workers') = Clients(queue, workers) \cup {j}
        BY <4>1, <4>2, <4>4 DEF Clients
      <4>8. Cardinality(Busy(workers)) = maxWorkers
        BY <3>4, InvFacts DEF Inv, Room, WorkerLimit
      <4>9. Room' /\ Groups'
        BY <1>2, <4>1, <4>5, <4>6, <4>7, <4>8, InvFacts
           DEF Inv, Room, WorkerLimit, WorkConserving, Groups
      <4>10. TypeOK'
        BY <1>5, <4>1, <4>4, InvFacts
      <4>11. Accounts'
        BY <1>6, <4>1
      <4> QED
        BY <4>9, <4>10, <4>11 DEF Inv
    <3> QED
      BY <3>3, <3>4
  <2> QED
    BY <2>2, <2>3
<1> QED
  BY <1>7, <1>8

\* What a step that ends a worker or a client does to each place: its worker goes on, perhaps
\* for fewer queries, or is gone, or has begun.
Passed(x) ==
  \/ work'[x] = work[x] /\ Range(workers'[x]) \subseteq Range(workers[x])
  \/ work'[x] = NoWork /\ Range(workers'[x]) = {}
  \/ work'[x] = Begun

\* What is left when the worker t ends, with what has become of the entry and its message.
LEMMA CompleteGroupInv ==
  ASSUME Inv, NEW t \in Job, workers[t] # << >>, cache' \in Entries, mail' \in SUBSET Job,
         CompleteGroup(t)
  PROVE  Inv' /\ \A x \in Job : Passed(x)
<1> DEFINE served == Range(workers[t]) \cap monitored
           ws == [workers EXCEPT ![t] = << >>]
           wk == [work EXCEPT ![t] = NoWork]
<1>1. served = Range(workers[t]) /\ served # {} /\ served \subseteq monitored
  <2>1. workers[t] \in Seq(Job) /\ Range(workers[t]) \subseteq Job /\ Range(workers[t]) # {}
    BY InvFacts, GroupProperties
  <2> QED
    BY <2>1 DEF Inv, Groups, Clients
<1>2. /\ replies' = [j \in Job |-> IF j \in served THEN replies[j] + 1 ELSE replies[j]]
      /\ monitored' = monitored \ served /\ gone' = gone \ served
      /\ since' = [j \in Job |-> IF j \in served THEN 0 ELSE since[j]]
      /\ lease' = lease - Cardinality(served)
      /\ maxWorkers' = maxWorkers /\ file' = file /\ submitted' = submitted
      /\ StartQueued(queue, ws, wk)
  BY DEF CompleteGroup
<1> HIDE DEF served, ws, wk
<1>3. /\ Cardinality(monitored \ served) \in Nat
      /\ Cardinality(monitored \ served) = Cardinality(monitored) - Cardinality(served)
  <2>1. IsFiniteSet(served) /\ monitored \cap served = served /\ IsFiniteSet(monitored \ served)
    BY <1>1, InvFacts, FS_Subset
  <2>2. Cardinality(monitored \ served)
          = Cardinality(monitored) - Cardinality(monitored \cap served)
    BY InvFacts, FS_Difference
  <2> QED
    BY <2>1, <2>2, FS_CardinalityType
<1>4. ws \in [Job -> Seq(Job)] /\ ws[t] = << >> /\ \A x \in Job : x # t => ws[x] = workers[x]
  <2>1. << >> \in Seq(Job)
    OBVIOUS
  <2> QED
    BY <2>1, InvFacts DEF ws
<1>5. Busy(ws) = Busy(workers) \ {t}
  BY <1>4 DEF Busy
<1>6. InGroups(queue, ws) /\ Unstarted(queue, ws)
  <2>1. \A x \in Busy(ws) : x \in Busy(workers) /\ ws[x] = workers[x]
    BY <1>4 DEF Busy
  <2>2. InGroups(queue, ws)
    BY <1>4, <2>1, InvFacts DEF InGroups
  <2>3. \A g \in Range(queue) : Range(g) \subseteq Job
    BY InvFacts, GroupProperties
  <2> QED
    BY <1>4, <2>2, <2>3, InvFacts DEF Unstarted
<1>7. Clients(queue, ws) = monitored \ served
  <2>1. \A x \in served : x \notin Clients(queue, ws)
    <3> SUFFICES ASSUME NEW x \in served, x \in Clients(queue, ws) PROVE FALSE
      OBVIOUS
    <3>1. x \in Range(workers[t]) /\ RequestOf[x] = Request(workers[t]) /\ t \in Busy(workers)
      BY <1>1, InvFacts DEF InGroups, Grouped, Busy
    <3>2. ASSUME NEW g \in Range(queue), x \in Range(g) PROVE FALSE
      BY <3>1, <3>2, InvFacts DEF InGroups, Grouped
    <3>3. ASSUME NEW u \in Job, x \in Range(ws[u]) PROVE FALSE
      <4>1. u # t /\ u \in Busy(workers) /\ x \in Range(workers[u])
        BY <1>4, <3>3 DEF Range, Busy
      <4> QED
        BY <3>1, <4>1, InvFacts DEF InGroups, Grouped
    <3> QED
      BY <3>2, <3>3 DEF Clients
  <2>2. \A x \in Job : x \in Clients(queue, workers) /\ x \notin served
        => x \in Clients(queue, ws)
    BY <1>1, <1>4 DEF Clients
  <2>3. \A x \in Clients(queue, ws) : x \in Clients(queue, workers)
    <3>1. \A x : x \notin Range(ws[t])
      BY <1>4 DEF Range
    <3> QED
      BY <1>4, <3>1 DEF Clients
  <2> QED
    BY <2>1, <2>2, <2>3 DEF Inv, Groups, Clients
<1>8. Cardinality(Busy(ws)) <= maxWorkers
  <2>1. Cardinality(Busy(ws)) <= Cardinality(Busy(workers)) /\ Cardinality(Busy(ws)) \in Nat
    BY <1>5, InvFacts, FS_Subset, FS_CardinalityType
  <2> QED
    BY <2>1, InvFacts DEF Inv, Room, WorkerLimit
<1>9. /\ InGroups(queue', workers') /\ Unstarted(queue', workers')
      /\ Clients(queue', workers') = Clients(queue, ws)
      /\ Cardinality(Busy(workers')) <= maxWorkers
      /\ queue' # << >> => Cardinality(Busy(workers')) = maxWorkers
      /\ work' = [x \in Job |-> work'[x]]
      /\ \A x \in Job :
           \/ workers'[x] = ws[x] /\ work'[x] = wk[x]
           \/ workers'[x] \in Range(queue) /\ x = Head(workers'[x]) /\ work'[x] = Begun
  BY <1>2, <1>6, <1>8, InvFacts, StartQueuedProperties
<1>10. Groups' /\ Room'
  BY <1>2, <1>7, <1>9 DEF Groups, Room, WorkerLimit, WorkConserving
<1>11. Accounts'
  <2>1. ASSUME NEW x \in Job, x \notin submitted
        PROVE  replies'[x] = 0 /\ workers'[x] = << >>
    <3>1. x \notin monitored /\ replies[x] = 0 /\ workers[x] = << >>
      BY <2>1 DEF Inv, Accounts
    <3>2. workers'[x] = ws[x]
      <4>1. workers'[x] \notin Range(queue) \/ x # Head(workers'[x])
        BY <3>1, InvFacts DEF Inv, Groups, Clients
      <4> QED
        BY <1>9, <4>1
    <3> QED
      BY <1>1, <1>2, <1>4, <3>1, <3>2
  <2>2. \A x \in monitored \ served : replies'[x] = 0
    BY <1>2 DEF Inv, TypeOK, Accounts
  <2> QED
    BY <1>2, <1>3, <2>1, <2>2 DEF Inv, Accounts
<1>12. TypeOK'
  <2>1. \A i \in DOMAIN queue' : queue'[i] \in Seq(Job) \ {<< >>}
    BY <1>9, LenProperties DEF InGroups, Group
  <2>2. \A x \in Job : workers'[x] \in Seq(Job)
    BY <1>9 DEF InGroups
  <2>3. wk \in [Job -> [at : {"none", "begun", "signed", "ended", "died"},
                        base : Entries, signature : Version, found : Entries,
                        began : Version]]
    <3>1. 0 \in Version /\ {} \in Entries
      BY CatalogAssumption DEF Version, Entries
    <3> QED
      BY <3>1 DEF wk, NoWork, Inv, TypeOK
  <2>4. work' \in [Job -> [at : {"none", "begun", "signed", "ended", "died"},
                           base : Entries, signature : Version, found : Entries,
                           began : Version]]
    <3>1. \A x \in Job : work'[x] = wk[x] \/ work'[x] = Begun
      BY <1>9
    <3> QED
      BY <1>9, <2>3, <3>1, BegunType
  <2>5. since' \in [Job -> Version] /\ replies' \in [Job -> Nat]
    <3>1. 0 \in Version
      BY CatalogAssumption DEF Version
    <3> QED
      BY <1>2, <3>1 DEF Inv, TypeOK
  <2>6. lease' \in Nat
    BY <1>2, <1>3 DEF Inv, Accounts
  <2> QED
    BY <1>2, <2>1, <2>2, <2>4, <2>5, <2>6 DEF Inv, TypeOK
<1>13. \A x \in Job : Passed(x)
  <2>1. Range(<< >>) = {}
    BY DEF Range
  <2>2. wk[t] = NoWork /\ \A x \in Job : x # t => wk[x] = work[x]
    BY DEF wk, Inv, TypeOK
  <2> QED
    BY <1>4, <1>9, <2>1, <2>2 DEF Passed
<1> QED
  BY <1>10, <1>11, <1>12, <1>13 DEF Inv

\* The queue without a client: at most one group was its alone.
LEMMA WithoutQueuedProperties ==
  ASSUME Inv, NEW j \in Job
  PROVE  /\ WithoutQueued(j) \in Seq(Group) /\ IsInjective(WithoutQueued(j))
         /\ \A h \in Range(WithoutQueued(j)) :
              \E g \in Range(queue) : h = Without(g, j) /\ h # << >>
         /\ \A g \in Range(queue) : Without(g, j) # << >> =>
              Without(g, j) \in Range(WithoutQueued(j))
<1> DEFINE left == [i \in DOMAIN queue |-> Without(queue[i], j)]
<1>1. /\ Len(queue) \in Nat /\ DOMAIN queue = 1..Len(queue)
      /\ \A i \in DOMAIN queue : queue[i] \in Range(queue)
      /\ \A g \in Range(queue) : \E i \in DOMAIN queue : g = queue[i]
  BY InvFacts, LenProperties DEF Range
<1>2. ASSUME NEW g \in Range(queue)
      PROVE  /\ Without(g, j) \in Seq(Job) /\ Range(Without(g, j)) = Range(g) \ {j}
             /\ Without(g, j) # << >> => Request(Without(g, j)) = Request(g)
             /\ Without(g, j) = << >> => j \in Range(g)
  <2>1. g \in Seq(Job) /\ Grouped(g) /\ Head(g) \in Range(g)
    BY InvFacts DEF InGroups
  <2>2. /\ Without(g, j) \in Seq(Job) /\ Range(Without(g, j)) = Range(g) \ {j}
        /\ Without(g, j) # << >> => Request(Without(g, j)) = Request(g)
    BY <2>1, WithoutProperties
  <2>3. Without(g, j) = << >> => Range(Without(g, j)) = {}
    BY DEF Range
  <2> QED
    BY <2>1, <2>2, <2>3
<1>3. left \in Seq(Seq(Job)) /\ Len(left) = Len(queue)
  <2>1. left \in [1..Len(queue) -> Seq(Job)]
    BY <1>1, <1>2
  <2> QED
    BY <1>1, <2>1, SeqDef, LenProperties
<1>4. IsInjective(left)
  <2> SUFFICES ASSUME NEW i \in DOMAIN queue, NEW k \in DOMAIN queue,
                      Without(queue[i], j) = Without(queue[k], j)
               PROVE  i = k
    BY DEF IsInjective
  <2>1. Request(queue[i]) = Request(queue[k])
    <3>1. CASE Without(queue[i], j) # << >>
      BY <1>1, <1>2, <3>1
    <3>2. CASE Without(queue[i], j) = << >>
      <4>1. j \in Range(queue[i]) /\ j \in Range(queue[k])
        BY <1>1, <1>2, <3>2
      <4>2. Grouped(queue[i]) /\ Grouped(queue[k])
        BY <1>1, InvFacts DEF InGroups
      <4> QED
        BY <4>1, <4>2 DEF Grouped
    <3> QED
      BY <3>1, <3>2
  <2>2. queue[i] = queue[k]
    BY <1>1, <2>1, InvFacts DEF InGroups
  <2> QED
    BY <2>2, InvFacts DEF InGroups, IsInjective
<1>5. Range(left) = {Without(g, j) : g \in Range(queue)}
  <2>1. \A i \in DOMAIN queue : left[i] = Without(queue[i], j)
    OBVIOUS
  <2>2. DOMAIN left = DOMAIN queue
    OBVIOUS
  <2> HIDE DEF left
  <2>3. \A h \in Range(left) : \E i \in DOMAIN queue : h = left[i]
    BY <2>2 DEF Range
  <2>4. \A h \in Range(left) : \E g \in Range(queue) : h = Without(g, j)
    BY <1>1, <2>1, <2>3
  <2>5. ASSUME NEW g \in Range(queue) PROVE Without(g, j) \in Range(left)
    BY <1>1, <2>1, <2>2 DEF Range
  <2> QED
    BY <2>4, <2>5
<1>6. WithoutQueued(j) = RemoveFirst(left, << >>)
  BY DEF WithoutQueued
<1> HIDE DEF left
<1>7. /\ WithoutQueued(j) \in Seq(Seq(Job)) /\ IsInjective(WithoutQueued(j))
      /\ Range(WithoutQueued(j)) = Range(left) \ {<< >>}
  BY <1>3, <1>4, <1>6, RemoveFirstProperties
<1>8. WithoutQueued(j) \in Seq(Group)
  <2> DEFINE q == WithoutQueued(j)
  <2>1. Len(q) \in Nat /\ DOMAIN q = 1..Len(q) /\ \A i \in 1..Len(q) : q[i] \in Seq(Job)
    BY <1>7, LenProperties
  <2>2. \A i \in 1..Len(q) : q[i] \in Range(q)
    BY <2>1 DEF Range
  <2>3. \A i \in 1..Len(q) : q[i] \in Group
    BY <1>7, <2>1, <2>2 DEF Group
  <2>4. q \in [1..Len(q) -> Group]
    BY <1>7, <2>1, <2>3
  <2> QED
    BY <2>1, <2>4, SeqDef
<1> QED
  BY <1>5, <1>7, <1>8

\* What is left of the groups when the client of j is gone.
LEMMA HandleClientDownInv ==
  ASSUME Inv, NEW j \in Job, HandleClientDown(j)
  PROVE  Inv' /\ \A x \in Job : Passed(x)
<1> DEFINE rest == [t \in Job |-> Without(workers[t], j)]
           wk == [t \in Job |-> IF rest[t] = << >> THEN NoWork ELSE work[t]]
           left == WithoutQueued(j)
<1>1. j \in monitored
  BY DEF HandleClientDown
<1>2. /\ monitored' = monitored \ {j} /\ gone' = gone \ {j}
      /\ since' = [since EXCEPT ![j] = 0] /\ lease' = lease - 1
      /\ mail' = mail /\ cache' = cache /\ maxWorkers' = maxWorkers /\ file' = file
      /\ submitted' = submitted /\ replies' = replies
      /\ StartQueued(left, rest, wk)
  BY DEF HandleClientDown
<1>3. /\ left \in Seq(Group) /\ IsInjective(left)
      /\ \A h \in Range(left) : \E g \in Range(queue) : h = Without(g, j) /\ h # << >>
      /\ \A g \in Range(queue) : Without(g, j) # << >> => Without(g, j) \in Range(left)
  BY WithoutQueuedProperties
<1>4. ASSUME NEW g \in Range(queue)
      PROVE  /\ Range(Without(g, j)) = Range(g) \ {j}
             /\ Without(g, j) = << >> <=> Range(Without(g, j)) = {}
             /\ Without(g, j) # << >> =>
                  Grouped(Without(g, j)) /\ Request(Without(g, j)) = Request(g)
  BY InvFacts, WithoutProperties, GroupProperties DEF InGroups
<1>5. ASSUME NEW t \in Job
      PROVE  /\ rest[t] \in Seq(Job) /\ Range(rest[t]) = Range(workers[t]) \ {j}
             /\ rest[t] # << >> =>
                  /\ workers[t] # << >> /\ Grouped(rest[t])
                  /\ Request(rest[t]) = Request(workers[t])
  <2>1. workers[t] \in Seq(Job) /\ Grouped(workers[t])
    <3>1. workers[t] = << >> => Grouped(workers[t])
      BY DEF Grouped, IsInjective, Range
    <3> QED
      BY <3>1, InvFacts DEF InGroups, Busy
  <2> QED
    BY <2>1, WithoutProperties
<1>6. /\ wk = [t \in Job |-> wk[t]]
      /\ \A t \in Job : wk[t] = work[t] \/ (rest[t] = << >> /\ wk[t] = NoWork)
  <2> HIDE DEF rest
  <2> QED
    OBVIOUS
<1>7. rest \in [Job -> Seq(Job)]
  BY <1>5
<1> HIDE DEF rest, wk, left
<1>8. ASSUME NEW h \in Range(left)
      PROVE  \E g \in Range(queue) :
               /\ h = Without(g, j) /\ h # << >> /\ Range(h) = Range(g) \ {j}
               /\ Grouped(h) /\ Request(h) = Request(g)
  BY <1>3, <1>4
<1>9. Busy(rest) \subseteq Busy(workers)
  BY <1>5 DEF Busy
<1>10. InGroups(left, rest)
  <2>1. \A h \in Range(left) : Grouped(h)
    BY <1>8
  <2>2. \A t \in Busy(rest) : Grouped(rest[t])
    BY <1>5 DEF Busy
  <2>3. ASSUME NEW g \in Range(left), NEW h \in Range(left), Request(g) = Request(h)
        PROVE  g = h
    <3>1. PICK u \in Range(queue) : g = Without(u, j) /\ Request(g) = Request(u)
      BY <1>8
    <3>2. PICK v \in Range(queue) : h = Without(v, j) /\ Request(h) = Request(v)
      BY <1>8
    <3> QED
      BY <2>3, <3>1, <3>2, InvFacts DEF InGroups
  <2>4. \A t, u \in Busy(rest) : Request(rest[t]) = Request(rest[u]) => t = u
    BY <1>5, <1>9, InvFacts DEF InGroups, Busy
  <2>5. ASSUME NEW g \in Range(left), NEW t \in Busy(rest)
        PROVE  Request(g) # Request(rest[t])
    <3>1. PICK u \in Range(queue) : Request(g) = Request(u)
      BY <1>8
    <3>2. t \in Busy(workers) /\ Request(rest[t]) = Request(workers[t])
      BY <1>5, <1>9 DEF Busy
    <3> QED
      BY <3>1, <3>2, InvFacts DEF InGroups
  <2> QED
    BY <1>3, <1>7, <2>1, <2>2, <2>3, <2>4, <2>5 DEF InGroups
<1>11. Unstarted(left, rest)
  <2> SUFFICES ASSUME NEW h \in Range(left), NEW x \in Range(h)
               PROVE  rest[x] = << >>
    BY DEF Unstarted
  <2>1. PICK g \in Range(queue) : Range(h) = Range(g) \ {j}
    BY <1>8
  <2>2. x \in Job /\ workers[x] = << >>
    BY <2>1, InvFacts, GroupProperties DEF Unstarted
  <2> QED
    BY <1>5, <2>2
<1>12. Clients(left, rest) = monitored \ {j}
  <2>1. \A x \in Job : (\E t \in Job : x \in Range(rest[t]))
                         <=> x # j /\ \E t \in Job : x \in Range(workers[t])
    BY <1>5
  <2>2. ASSUME NEW x \in Job, NEW h \in Range(left), x \in Range(h)
        PROVE  x # j /\ \E g \in Range(queue) : x \in Range(g)
    BY <1>8, <2>2
  <2>3. ASSUME NEW x \in Job, NEW g \in Range(queue), x \in Range(g), x # j
        PROVE  \E h \in Range(left) : x \in Range(h)
    BY <1>3, <1>4, <2>3
  <2>4. Clients(left, rest) = Clients(queue, workers) \ {j}
    BY <2>1, <2>2, <2>3 DEF Clients
  <2> QED
    BY <2>4 DEF Inv, Groups
<1>13. Cardinality(Busy(rest)) <= maxWorkers
  <2>1. IsFiniteSet(Busy(rest)) /\ Cardinality(Busy(rest)) <= Cardinality(Busy(workers))
    BY <1>9, InvFacts, FS_Subset
  <2>2. Cardinality(Busy(rest)) \in Nat
    BY <2>1, FS_CardinalityType
  <2> QED
    BY <2>1, <2>2, InvFacts DEF Inv, Room, WorkerLimit
<1>14. /\ InGroups(queue', workers') /\ Unstarted(queue', workers')
       /\ Clients(queue', workers') = Clients(left, rest)
       /\ Cardinality(Busy(workers')) <= maxWorkers
       /\ queue' # << >> => Cardinality(Busy(workers')) = maxWorkers
       /\ work' = [x \in Job |-> work'[x]]
       /\ \A x \in Job :
            \/ workers'[x] = rest[x] /\ work'[x] = wk[x]
            \/ workers'[x] \in Range(left) /\ x = Head(workers'[x]) /\ work'[x] = Begun
  BY <1>2, <1>10, <1>11, <1>13, InvFacts, StartQueuedProperties
<1>15. Groups' /\ Room'
  BY <1>2, <1>12, <1>14 DEF Groups, Room, WorkerLimit, WorkConserving
<1>16. Accounts'
  <2>1. ASSUME NEW x \in Job, x \notin submitted
        PROVE  replies'[x] = 0 /\ workers'[x] = << >>
    <3>1. x \notin monitored /\ replies[x] = 0 /\ workers[x] = << >>
      BY <2>1 DEF Inv, Accounts
    <3>2. workers'[x] \notin Range(left) \/ x # Head(workers'[x])
      <4> SUFFICES ASSUME workers'[x] \in Range(left), x = Head(workers'[x]) PROVE FALSE
        OBVIOUS
      <4>1. workers'[x] \in Group
        BY <1>3, LenProperties DEF Range
      <4>2. x \in Range(workers'[x])
        BY <4>1, GroupProperties DEF Group
      <4>3. x \in Clients(left, rest)
        BY <4>2 DEF Clients
      <4> QED
        BY <1>12, <3>1, <4>3
    <3> QED
      BY <1>2, <1>5, <1>14, <3>1, <3>2
  <2>2. Cardinality(monitored \ {j}) = Cardinality(monitored) - 1
    BY <1>1, InvFacts, FS_RemoveElement
  <2> QED
    BY <1>2, <2>1, <2>2 DEF Inv, Accounts
<1>17. TypeOK'
  <2>1. \A i \in DOMAIN queue' : queue'[i] \in Seq(Job) \ {<< >>}
    BY <1>14, LenProperties DEF InGroups, Group
  <2>2. \A x \in Job : workers'[x] \in Seq(Job)
    BY <1>14 DEF InGroups
  <2>3. 0 \in Version /\ {} \in Entries
    BY CatalogAssumption DEF Version, Entries
  <2>4. work' \in [Job -> [at : {"none", "begun", "signed", "ended", "died"},
                           base : Entries, signature : Version, found : Entries,
                           began : Version]]
    <3>1. \A x \in Job : work'[x] = NoWork \/ work'[x] = work[x] \/ work'[x] = Begun
      BY <1>6, <1>14
    <3>2. cache' \in Entries
      BY <1>2 DEF Inv, TypeOK
    <3>3. NoWork \in [at : {"none", "begun", "signed", "ended", "died"},
                      base : Entries, signature : Version, found : Entries,
                      began : Version]
      BY <2>3 DEF NoWork
    <3> QED
      BY <1>14, <3>1, <3>2, <3>3, BegunType DEF Inv, TypeOK
  <2>5. since' \in [Job -> Version]
    BY <1>2, <2>3 DEF Inv, TypeOK
  <2>6. lease' \in Nat
    <3>1. IsFiniteSet(monitored \ {j})
      BY InvFacts, FS_Subset
    <3>2. Cardinality(monitored \ {j}) = Cardinality(monitored) - 1
      BY <1>1, InvFacts, FS_RemoveElement
    <3>3. Cardinality(monitored \ {j}) \in Nat
      BY <3>1, FS_CardinalityType
    <3> QED
      BY <1>2, <3>2, <3>3 DEF Inv, Accounts
  <2> QED
    BY <1>2, <2>1, <2>2, <2>4, <2>5, <2>6 DEF Inv, TypeOK
<1>18. \A x \in Job : Passed(x)
  <2>1. Range(<< >>) = {}
    BY DEF Range
  <2> QED
    BY <1>5, <1>6, <1>14, <2>1 DEF Passed
<1> QED
  BY <1>15, <1>16, <1>17, <1>18 DEF Inv

\* What the store takes from a worker is an entry.
LEMMA MergedType ==
  ASSUME Inv, NEW t \in Job
  PROVE  Merged(t) \in Entries
<1> QED
  BY DEF Merged, Inv, TypeOK

\* What a worker finds is an entry, and its steps leave the groups alone.
LEMMA WorkerStepInv ==
  ASSUME Inv, NEW t \in Job, WorkerStep(t) \/ WorkerDies(t)
  PROVE  Inv'
<1>1. /\ UNCHANGED <<queue, workers, cache, maxWorkers, clientVars, file>>
      /\ mail' \in SUBSET Job
  BY DEF WorkerStep, ReadSignature, Load, Fails, WorkerDies, Ends, worldVars, Inv, TypeOK
<1>2. work' \in [Job -> [at : {"none", "begun", "signed", "ended", "died"},
                         base : Entries, signature : Version, found : Entries,
                         began : Version]]
  <2>1. ASSUME NEW found \in Entries, Ends(t, found)
        PROVE  work' \in [Job -> [at : {"none", "begun", "signed", "ended", "died"},
                                  base : Entries, signature : Version, found : Entries,
                                  began : Version]]
    BY <2>1 , ZenonT(40) DEF Ends, Inv, TypeOK
  <2>2. CASE ReadSignature(t)
    <3>1. CASE \E e \in work[t].base : e.signature = file
      BY <2>1, <2>2, <3>1 DEF ReadSignature, Inv, TypeOK
    <3>2. CASE ~\E e \in work[t].base : e.signature = file
      BY <2>2, <3>2, SMTT(30) DEF ReadSignature, Inv, TypeOK
    <3> QED
      BY <3>1, <3>2
  <2>3. CASE Load(t)
    <3>1. {[signature |-> work[t].signature, data |-> file]} \in Entries
      BY DEF Inv, TypeOK, Entries
    <3> QED
      BY <2>1, <2>3, <3>1 DEF Load
  <2>4. CASE Fails(t)
    <3>1. {} \in Entries
      BY DEF Entries
    <3> QED
      BY <2>1, <2>4, <3>1 DEF Fails
  <2>5. CASE WorkerDies(t)
    BY <2>5, SMTT(30) DEF WorkerDies, Inv, TypeOK
  <2> QED
    BY <2>2, <2>3, <2>4, <2>5 DEF WorkerStep
<1>3. TypeOK'
  BY <1>1, <1>2 DEF clientVars, Inv, TypeOK
<1>4. Groups' /\ Room' /\ Accounts'
  BY <1>1 DEF clientVars, Inv, Groups, Room, WorkerLimit, WorkConserving, Accounts
<1> QED
  BY <1>3, <1>4 DEF Inv

\* The invariant is inductive.
LEMMA NextInv == Inv /\ [Next]_vars => Inv'
<1> SUFFICES ASSUME Inv, [Next]_vars PROVE Inv'
  OBVIOUS
<1>1. ASSUME UNCHANGED <<queue, workers, maxWorkers, monitored, submitted, replies, lease>>,
             TypeOK'
      PROVE  Inv'
  BY <1>1 DEF Inv, Groups, Room, WorkerLimit, WorkConserving, Accounts
<1>2. CASE UNCHANGED vars
  BY <1>1, <1>2 DEF vars, clientVars, Inv, TypeOK
<1>3. ASSUME NEW j \in Job, Submit(j) PROVE Inv'
  BY <1>3, SubmitInv
<1>4. ASSUME NEW t \in Job, HandleResult(t) PROVE Inv'
  <2>1. CASE workers[t] # << >>
    <3>1. cache' \in Entries /\ mail' \in SUBSET Job /\ CompleteGroup(t)
      BY <1>4, <2>1, MergedType DEF HandleResult, Inv, TypeOK
    <3> QED
      BY <2>1, <3>1, CompleteGroupInv
  <2>2. CASE workers[t] = << >>
    <3>1. UNCHANGED <<queue, workers, work, cache, maxWorkers, file, clientVars>>
          /\ mail' \in SUBSET Job
      BY <1>4, <2>2 DEF HandleResult, Inv, TypeOK
    <3> QED
      BY <1>1, <3>1 DEF clientVars, Inv, TypeOK
  <2> QED
    BY <2>1, <2>2
<1>5. ASSUME NEW t \in Job, HandleWorkerDown(t) PROVE Inv'
  <2>1. workers[t] # << >> /\ cache' \in Entries /\ mail' \in SUBSET Job /\ CompleteGroup(t)
    BY <1>5 DEF HandleWorkerDown, Inv, TypeOK
  <2> QED
    BY <2>1, CompleteGroupInv
<1>6. ASSUME NEW j \in Job, HandleClientDown(j) PROVE Inv'
  BY <1>6, HandleClientDownInv
<1>7. ASSUME NEW t \in Job, WorkerStep(t) \/ WorkerDies(t) PROVE Inv'
  BY <1>7, WorkerStepInv
<1>8. ASSUME NEW j \in Job, ClientDies(j) PROVE Inv'
  BY <1>1, <1>8 DEF ClientDies, Inv, TypeOK
<1>9. CASE FileChanges
  <2>1. file' \in Version
    BY <1>9, CatalogAssumption DEF FileChanges, Inv, TypeOK, Version
  <2> QED
    BY <1>1, <1>9, <2>1 DEF FileChanges, worldVars, clientVars, Inv, TypeOK
<1> QED
  BY <1>2, <1>3, <1>4, <1>5, <1>6, <1>7, <1>8, <1>9 DEF Next

\* The invariant says what the run checks of the groups.
LEMMA InvShows == Inv => TypeOK /\ Placement /\ WorkConserving /\ WorkerLimit
<1> SUFFICES ASSUME Inv PROVE Placement
  BY DEF Inv, Room
<1> DEFINE groups == {queue[i] : i \in DOMAIN queue} \cup {workers[t] : t \in Busy(workers)}
<1>1. {queue[i] : i \in DOMAIN queue} = Range(queue)
  BY DEF Range
<1>2. \A g \in groups : g \in Group /\ Grouped(g)
  BY <1>1, InvFacts DEF InGroups, Busy, Group
<1>3. \A g, h \in groups : g # h => Request(g) # Request(h)
  BY <1>1, InvFacts DEF InGroups
<1>4. ASSUME NEW g \in groups, NEW i \in DOMAIN g PROVE Same(g[i], g)
  <2>1. g[i] \in Range(g)
    BY DEF Range
  <2> QED
    BY <1>2, <2>1 DEF Grouped, Same, Request
<1>5. UNION {Range(g) : g \in groups} = monitored
  <2>1. \A g \in groups : Range(g) \subseteq Clients(queue, workers)
    <3>1. \A g \in groups : Range(g) \subseteq Job
      BY <1>2, GroupProperties DEF Group
    <3> QED
      BY <1>1, <3>1 DEF Clients, Busy
  <2>2. \A t \in Job : workers[t] = << >> => Range(workers[t]) = {}
    BY DEF Range
  <2>3. \A x \in Clients(queue, workers) : \E g \in groups : x \in Range(g)
    BY <1>1, <2>2 DEF Clients, Busy
  <2>4. Clients(queue, workers) = monitored
    BY DEF Inv, Groups
  <2> HIDE DEF groups
  <2> QED
    BY <2>1, <2>3, <2>4
<1>6. (\A g \in groups : IsInjective(g))
      /\ (\A g, h \in groups : g # h => RequestOf[Head(g)] # RequestOf[Head(h)])
  BY <1>2, <1>3 DEF Grouped, Request
<1> HIDE DEF groups
<1> QED
  BY <1>4, <1>5, <1>6 DEF Placement, groups

\* So the invariant holds in every reachable state.
LEMMA SpecInv == Spec => []Inv
<1> QED
  BY InitInv, NextInv, PTL DEF Spec

(***************************************************************************)
(* The entry.                                                              *)
(***************************************************************************)
\* What a worker started from was read before it began, what it found was there when it
\* began or later, and its queries came before.
EntryTrue(e, last) == e.signature <= e.data /\ e.data <= last
WorkTrue(t) ==
  /\ work[t].began <= file
  /\ \A e \in work[t].base : EntryTrue(e, work[t].began)
  /\ work[t].at = "signed" => work[t].began <= work[t].signature /\ work[t].signature <= file
  /\ \A e \in work[t].found :
       /\ EntryTrue(e, file) /\ work[t].began <= e.data
       /\ work[t].found = work[t].base \/ work[t].began <= e.signature
  /\ \A j \in Range(workers[t]) : since[j] <= work[t].began
Versions ==
  /\ \A e \in cache : EntryTrue(e, file)
  /\ \A j \in Job : since[j] <= file
  /\ \A t \in Job : WorkTrue(t)

\* No entry is older than its file at the start.
LEMMA InitVersions == Init => Versions
<1> SUFFICES ASSUME Init PROVE Versions
  OBVIOUS
<1>1. Range(<< >>) = {}
  BY DEF Range
<1> QED
  BY <1>1 DEF Init, Versions, WorkTrue, NoWork

\* Where a worker has neither begun nor gone on, its part still holds.
LEMMA WorkKept ==
  ASSUME Inv, Versions, NEW t \in Job, file' = file, work'[t] = work[t],
         Range(workers'[t]) \subseteq Range(workers[t]),
         \A j \in Range(workers[t]) : since'[j] <= since[j] /\ since'[j] \in Nat
  PROVE  WorkTrue(t)'
<1>1. \A j \in Range(workers[t]) : since[j] \in Nat /\ work[t].began \in Nat
  BY InvFacts, GroupProperties, CatalogAssumption DEF Inv, TypeOK, Version
<1>2. \A j \in Range(workers'[t]) : since'[j] <= work'[t].began
  BY <1>1 DEF Versions, WorkTrue
<1> QED
  BY <1>2 DEF Versions, WorkTrue, EntryTrue

\* A worker that begins has the entry of that moment.
LEMMA WorkBegun ==
  ASSUME Inv, Versions, NEW t \in Job, file' = file, work'[t] = Begun,
         \A e \in cache' : EntryTrue(e, file), Range(workers'[t]) \subseteq Job,
         \A j \in Job : since'[j] <= file
  PROVE  WorkTrue(t)'
<1>1. file \in Nat
  BY CatalogAssumption DEF Inv, TypeOK, Version
<1>2. /\ work'[t].at = "begun" /\ work'[t].base = cache' /\ work'[t].found = {}
      /\ work'[t].began = file
  BY DEF Begun, NoWork
<1> QED
  BY <1>1, <1>2 DEF WorkTrue, EntryTrue

\* A place that is given up.
LEMMA WorkGone ==
  ASSUME Inv, NEW t \in Job, file' = file, work'[t] = NoWork, Range(workers'[t]) = {}
  PROVE  WorkTrue(t)'
<1>1. file \in Nat
  BY CatalogAssumption DEF Inv, TypeOK, Version
<1> QED
  BY <1>1 DEF WorkTrue, NoWork

\* Versions can be compared.
LEMMA Numbers ==
  ASSUME Inv
  PROVE  /\ file \in Nat
         /\ \A j \in Job : since[j] \in Nat /\ work[j].began \in Nat
            /\ work[j].signature \in Nat
         /\ \A e \in cache : e.signature \in Nat /\ e.data \in Nat
         /\ \A j \in Job : \A e \in work[j].base \cup work[j].found :
              e.signature \in Nat /\ e.data \in Nat
<1>1. Version \subseteq Nat
  BY CatalogAssumption DEF Version
<1>2. ASSUME NEW es \in Entries, NEW e \in es PROVE e.signature \in Nat /\ e.data \in Nat
  BY <1>1 DEF Entries
<1>3. \A j \in Job : /\ since[j] \in Version /\ work[j].began \in Version
                    /\ work[j].signature \in Version
                    /\ work[j].base \in Entries /\ work[j].found \in Entries
  BY DEF Inv, TypeOK
<1>4. file \in Version /\ cache \in Entries
  BY DEF Inv, TypeOK
<1> QED
  BY <1>1, <1>2, <1>3, <1>4

\* A step that ends a worker or a client keeps what is known of the entry.
LEMMA PassedKeeps ==
  ASSUME Inv, Inv', Versions, file' = file, \A x \in Job : Passed(x),
         \A e \in cache' : EntryTrue(e, file),
         \A j \in Job : since'[j] = since[j] \/ since'[j] = 0
  PROVE  Versions'
<1>1. \A j \in Job : since[j] \in Nat /\ since'[j] \in Nat /\ since'[j] <= since[j]
  BY Numbers
<1>2. file \in Nat
  BY Numbers
<1>3. \A j \in Job : since'[j] <= file
  BY <1>1, <1>2 DEF Versions
<1>4. \A x \in Job : Range(workers[x]) \subseteq Job /\ Range(workers'[x]) \subseteq Job
  BY GroupProperties DEF Inv, TypeOK
<1>5. ASSUME NEW x \in Job PROVE WorkTrue(x)'
  <2>1. CASE work'[x] = work[x] /\ Range(workers'[x]) \subseteq Range(workers[x])
    BY <1>1, <1>4, <2>1, WorkKept
  <2>2. CASE work'[x] = NoWork /\ Range(workers'[x]) = {}
    BY <2>2, WorkGone
  <2>3. CASE work'[x] = Begun
    BY <1>3, <1>4, <2>3, WorkBegun
  <2> QED
    BY <2>1, <2>2, <2>3 DEF Passed
<1> QED
  BY <1>3, <1>5 DEF Versions

\* What the store takes from a worker was read from the file.
LEMMA MergedTrue ==
  ASSUME Versions, NEW t \in Job
  PROVE  \A e \in Merged(t) : EntryTrue(e, file)
<1> QED
  BY DEF Versions, WorkTrue, Merged

\* A query that joins a worker counts from when that began.
LEMMA SubmitVersions ==
  ASSUME Inv, Inv', Versions, NEW j \in Job, Submit(j)
  PROVE  Versions'
<1> DEFINE running == {t \in Busy(workers) : Same(j, workers[t])}
           waiting == {i \in DOMAIN queue : Same(j, queue[i])}
           leader == CHOOSE t \in running : TRUE
<1>1. /\ cache' = cache /\ file' = file
      /\ since' = [since EXCEPT ![j] = IF running = {} THEN file ELSE work[leader].began]
  BY DEF Submit
<1>2. file \in Nat /\ (\A x \in Job : since[x] \in Nat /\ work[x].began \in Nat)
  BY Numbers
<1>3. \A x \in Job : x # j => since'[x] = since[x]
  BY <1>1 DEF Inv, TypeOK
<1>4. \A t \in Job : j \notin Range(workers[t]) /\ Range(workers[t]) \subseteq Job
  BY GroupProperties DEF Submit, Inv, TypeOK, Groups, Accounts, Clients
<1>5. ASSUME NEW t \in Job, workers'[t] = workers[t], work'[t] = work[t]
      PROVE  WorkTrue(t)'
  BY <1>1, <1>2, <1>3, <1>4, <1>5, WorkKept
<1>6. CASE running # {}
  <2>1. /\ workers' = [t \in Job |-> IF t \in running THEN Append(workers[t], j)
                                     ELSE workers[t]]
        /\ work' = work
    BY <1>6 DEF Submit
  <2>2. PICK u \in Job : u = leader /\ u \in running /\ u \in Busy(workers)
    BY <1>6 DEF Busy
  <2>3. running = {u}
    BY <2>2, InvFacts DEF InGroups, Same, Request
  <2>4. since'[j] = work[u].began /\ since'[j] \in Nat
    BY <1>1, <1>2, <1>6, <2>2 DEF Inv, TypeOK
  <2> HIDE DEF running, leader
  <2>5. Range(workers'[u]) = Range(workers[u]) \cup {j}
    <3>1. workers'[u] = Append(workers[u], j) /\ workers[u] \in Seq(Job)
          /\ IsInjective(workers[u])
      BY <2>1, <2>2, <2>3, InvFacts DEF InGroups, Grouped
    <3> QED
      BY <1>4, <2>2, <3>1, AppendInjectiveProperties
  <2>6. WorkTrue(u)'
    <3>1. \A x \in Range(workers'[u]) : since'[x] <= work[u].began
      BY <1>2, <1>3, <1>4, <2>2, <2>4, <2>5 DEF Versions, WorkTrue
    <3>2. WorkTrue(u) /\ work'[u] = work[u]
      BY <2>1, <2>2 DEF Versions
    <3> QED
      BY <1>1, <3>1, <3>2 DEF WorkTrue, EntryTrue
  <2>7. \A t \in Job : t # u => WorkTrue(t)'
    BY <1>5, <2>1, <2>3
  <2>8. work[u].began <= file
    BY <2>2 DEF Versions, WorkTrue
  <2>9. \A x \in Job : since'[x] <= file
    BY <1>3, <2>4, <2>8 DEF Versions
  <2>10. \A t \in Job : WorkTrue(t)'
    BY <2>6, <2>7
  <2> QED
    BY <1>1, <2>9, <2>10 DEF Versions, EntryTrue
<1>7. CASE running = {}
  <2>1. since'[j] = file
    BY <1>1, <1>7 DEF Inv, TypeOK
  <2>2. \A x \in Job : since'[x] <= file
    BY <1>2, <1>3, <2>1 DEF Versions
  <2>3. \/ workers' = workers /\ work' = work
        \/ workers' = [workers EXCEPT ![j] = <<j>>] /\ work' = [work EXCEPT ![j] = Begun]
    BY <1>7 DEF Submit
  <2>4. CASE workers' = workers /\ work' = work
    BY <1>1, <1>5, <2>2, <2>4 DEF Versions
  <2>5. CASE workers' = [workers EXCEPT ![j] = <<j>>] /\ work' = [work EXCEPT ![j] = Begun]
    <3>1. \A t \in Job : t # j => workers'[t] = workers[t] /\ work'[t] = work[t]
      BY <2>5, InvFacts DEF Inv, TypeOK
    <3>2. work'[j] = Begun /\ Range(workers'[j]) \subseteq Job
      BY <2>5, InvFacts, SingleProperties DEF Inv, TypeOK
    <3>3. WorkTrue(j)'
      BY <1>1, <2>2, <3>2, WorkBegun DEF Versions
    <3> QED
      BY <1>1, <1>5, <2>2, <3>1, <3>3 DEF Versions
  <2> QED
    BY <2>3, <2>4, <2>5
<1> QED
  BY <1>6, <1>7

\* A worker reads the signature before the content.
LEMMA WorkerStepVersions ==
  ASSUME Inv, Versions, NEW t \in Job, WorkerStep(t) \/ WorkerDies(t)
  PROVE  Versions'
<1>1. workers' = workers /\ cache' = cache /\ file' = file /\ since' = since
  BY DEF WorkerStep, ReadSignature, Load, Fails, WorkerDies, worldVars, clientVars
<1>2. \A x \in Job : x # t => work'[x] = work[x]
  BY DEF WorkerStep, ReadSignature, Load, Fails, WorkerDies, Ends, Inv, TypeOK
<1>3. /\ file \in Nat /\ work[t].began \in Nat /\ work[t].signature \in Nat
      /\ \A e \in work[t].base : e.signature \in Nat /\ e.data \in Nat
  BY Numbers
<1>4. \A x \in Job : x # t => WorkTrue(x)'
  BY <1>1, <1>2 DEF Versions, WorkTrue, EntryTrue
<1>5. WorkTrue(t) /\ work[t].began <= file
  BY DEF Versions, WorkTrue
<1>6. WorkTrue(t)'
  <2>1. ASSUME NEW found, Ends(t, found),
               \A e \in found : /\ EntryTrue(e, file) /\ work[t].began <= e.data
                                /\ found = work[t].base \/ work[t].began <= e.signature
        PROVE  WorkTrue(t)'
    <3>1. /\ work'[t].at = "ended" /\ work'[t].found = found /\ work'[t].base = work[t].base
          /\ work'[t].began = work[t].began
      BY <2>1 DEF Ends, Inv, TypeOK
    <3> QED
      BY <1>1, <1>5, <2>1, <3>1 DEF WorkTrue, EntryTrue
  <2>2. CASE ReadSignature(t)
    <3>1. CASE \E e \in work[t].base : e.signature = file
      <4>1. \A d, e \in work[t].base : d = e
        BY DEF Inv, TypeOK, Entries
      <4>2. \A e \in work[t].base : EntryTrue(e, file) /\ work[t].began <= e.data
        BY <1>3, <1>5, <3>1, <4>1 DEF WorkTrue, EntryTrue
      <4>3. Ends(t, work[t].base)
        BY <2>2, <3>1 DEF ReadSignature
      <4> QED
        BY <2>1, <4>2, <4>3
    <3>2. CASE ~\E e \in work[t].base : e.signature = file
      <4>1. work' = [work EXCEPT ![t].at = "signed", ![t].signature = file]
        BY <2>2, <3>2 DEF ReadSignature
      <4>2. /\ work'[t].at = "signed" /\ work'[t].signature = file
            /\ work'[t].base = work[t].base /\ work'[t].found = work[t].found
            /\ work'[t].began = work[t].began
        BY <4>1 DEF Inv, TypeOK
      <4> QED
        BY <1>1, <1>3, <1>5, <4>2 DEF WorkTrue, EntryTrue
    <3> QED
      BY <3>1, <3>2
  <2>3. CASE Load(t)
    <3> DEFINE e == [signature |-> work[t].signature, data |-> file]
    <3>1. Ends(t, {e}) /\ work[t].at = "signed"
      BY <2>3 DEF Load
    <3>2. EntryTrue(e, file) /\ work[t].began <= e.data /\ work[t].began <= e.signature
      BY <1>3, <1>5, <3>1 DEF WorkTrue, EntryTrue
    <3> QED
      BY <2>1, <3>1, <3>2
  <2>4. CASE Fails(t)
    <3>1. Ends(t, {})
      BY <2>4 DEF Fails
    <3> QED
      BY <2>1, <3>1
  <2>5. CASE WorkerDies(t)
    <3>1. /\ work'[t].at = "died" /\ work'[t].base = work[t].base
          /\ work'[t].found = work[t].found /\ work'[t].began = work[t].began
      BY <2>5 DEF WorkerDies, Inv, TypeOK
    <3> QED
      BY <1>1, <1>5, <3>1 DEF WorkTrue, EntryTrue
  <2> QED
    BY <2>2, <2>3, <2>4, <2>5 DEF WorkerStep
<1> QED
  BY <1>1, <1>4, <1>6 DEF Versions

\* Only time passes for the workers when the file changes.
LEMMA FileChangesVersions ==
  ASSUME Inv, Versions, FileChanges
  PROVE  Versions'
<1>1. workers' = workers /\ cache' = cache /\ since' = since /\ work' = work /\ file' = file + 1
  BY DEF FileChanges, worldVars, clientVars
<1>2. /\ file \in Nat
      /\ \A j \in Job : since[j] \in Nat /\ work[j].began \in Nat /\ work[j].signature \in Nat
      /\ \A e \in cache : e.data \in Nat
      /\ \A j \in Job : \A e \in work[j].found : e.data \in Nat
  BY Numbers
<1>3. ASSUME NEW t \in Job PROVE WorkTrue(t)'
  BY <1>1, <1>2 DEF Versions, WorkTrue, EntryTrue
<1> QED
  BY <1>1, <1>2, <1>3 DEF Versions, EntryTrue

\* What is known of the entry is kept by every step.
LEMMA NextVersions == Inv /\ Inv' /\ Versions /\ [Next]_vars => Versions'
<1> SUFFICES ASSUME Inv, Inv', Versions, [Next]_vars PROVE Versions'
  OBVIOUS
<1>1. ASSUME UNCHANGED <<workers, work, cache, file, since>> PROVE Versions'
  BY <1>1 DEF Versions, WorkTrue, EntryTrue
<1>2. CASE UNCHANGED vars
  BY <1>1, <1>2 DEF vars, clientVars
<1>3. ASSUME NEW j \in Job, Submit(j) PROVE Versions'
  BY <1>3, SubmitVersions
<1>4. ASSUME NEW t \in Job, workers[t] # << >>, cache' \in Entries, mail' \in SUBSET Job,
             \A e \in cache' : EntryTrue(e, file), CompleteGroup(t)
      PROVE  Versions'
  <2>1. \A x \in Job : Passed(x)
    BY <1>4, CompleteGroupInv
  <2>2. file' = file /\ \A j \in Job : since'[j] = since[j] \/ since'[j] = 0
    BY <1>4 DEF CompleteGroup
  <2> QED
    BY <1>4, <2>1, <2>2, PassedKeeps
<1>5. ASSUME NEW t \in Job, HandleResult(t) PROVE Versions'
  <2>1. CASE workers[t] # << >>
    <3>1. cache' = Merged(t) /\ mail' \in SUBSET Job /\ CompleteGroup(t)
      BY <1>5, <2>1 DEF HandleResult, Inv, TypeOK
    <3> QED
      BY <1>4, <2>1, <3>1, MergedType, MergedTrue
  <2>2. CASE workers[t] = << >>
    BY <1>1, <1>5, <2>2 DEF HandleResult, clientVars
  <2> QED
    BY <2>1, <2>2
<1>6. ASSUME NEW t \in Job, HandleWorkerDown(t) PROVE Versions'
  <2>1. /\ workers[t] # << >> /\ cache' = cache /\ cache \in Entries /\ mail' \in SUBSET Job
        /\ CompleteGroup(t)
    BY <1>6 DEF HandleWorkerDown, Inv, TypeOK
  <2> QED
    BY <1>4, <2>1 DEF Versions
<1>7. ASSUME NEW j \in Job, HandleClientDown(j) PROVE Versions'
  <2>1. \A x \in Job : Passed(x)
    BY <1>7, HandleClientDownInv
  <2>2. file' = file /\ cache' = cache /\ \A x \in Job : since'[x] = since[x] \/ since'[x] = 0
    BY <1>7 DEF HandleClientDown, Inv, TypeOK
  <2> QED
    BY <2>1, <2>2, PassedKeeps DEF Versions
<1>8. ASSUME NEW t \in Job, WorkerStep(t) \/ WorkerDies(t) PROVE Versions'
  BY <1>8, WorkerStepVersions
<1>9. ASSUME NEW j \in Job, ClientDies(j) PROVE Versions'
  BY <1>1, <1>9 DEF ClientDies
<1>10. CASE FileChanges
  BY <1>10, FileChangesVersions
<1> QED
  BY <1>2, <1>3, <1>5, <1>6, <1>7, <1>8, <1>9, <1>10 DEF Next

\* A change of the entry is by a worker that began after the entry was read.
LEMMA Renews ==
  Inv /\ Versions /\ [Next]_vars
    => [\A e \in cache : cache' # cache => \E n \in cache' : n.signature >= e.data]_vars
<1> SUFFICES ASSUME Inv, Versions, [Next]_vars, NEW e \in cache, cache' # cache
             PROVE  \E n \in cache' : n.signature >= e.data
  OBVIOUS
<1>1. PICK t \in Job : cache' = Merged(t)
  BY DEF Next, vars, clientVars, worldVars, Submit, HandleResult, HandleWorkerDown,
         HandleClientDown, WorkerStep, ReadSignature, Load, Fails, WorkerDies, ClientDies,
         FileChanges
<1>2. work[t].found # {} /\ work[t].base = cache /\ cache' = work[t].found
  BY <1>1 DEF Merged
<1>3. PICK n \in work[t].found : work[t].began <= n.signature
  BY <1>2 DEF Versions, WorkTrue
<1>4. e.data <= work[t].began
  BY <1>2 DEF Versions, WorkTrue, EntryTrue
<1>5. e.data \in Nat /\ work[t].began \in Nat /\ n.signature \in Nat
  BY Numbers
<1> QED
  BY <1>2, <1>3, <1>4, <1>5

\* So no query is about to be answered with content of the past.
LEMMA Fresh == Inv /\ Versions => AnswersFresh
<1> SUFFICES ASSUME Inv, Versions, NEW t \in mail, NEW e \in work[t].found,
                    NEW j \in Range(workers[t])
             PROVE  e.data >= since[j]
  BY DEF AnswersFresh
<1>1. t \in Job /\ j \in Job
  BY InvFacts, GroupProperties DEF Inv, TypeOK
<1>2. work[t].began <= e.data /\ since[j] <= work[t].began
  BY <1>1 DEF Versions, WorkTrue
<1>3. e.data \in Nat /\ work[t].began \in Nat /\ since[j] \in Nat
  BY <1>1, Numbers
<1> QED
  BY <1>2, <1>3

\* The cache is true in every behaviour (cached/3, apply_cache_changes/2).
LEMMA SpecFresh == Spec => []AnswersFresh /\ CacheOnlyRenews
<1>1. Spec => []Versions
  BY InitVersions, NextVersions, SpecInv, PTL DEF Spec
<1> QED
  BY <1>1, SpecInv, Renews, Fresh, PTL DEF Spec, CacheOnlyRenews

\* Each step is one of JobQueue's, or none: the queries of a group are answered together.
LEMMA Refines == Spec => Promise!JobSpec
<1> USE DEF Fate
<1>1. Init => Promise!JobInit
  BY DEF Init, Promise!JobInit
<1>2. Inv /\ [Next]_vars => [Promise!JobNext]_Promise!jobVars
  <2> SUFFICES ASSUME Inv, [Next]_vars
               PROVE  [Promise!JobNext]_Promise!jobVars
    OBVIOUS
  <2>1. ASSUME NEW j \in Job, Submit(j) PROVE Promise!Accept(j)
    <3>1. Fate(j) = "new" /\ monitored' = monitored \cup {j} /\ lease' = lease + 1
          /\ replies' = replies /\ submitted' = submitted \cup {j}
      BY <2>1 DEF Submit, Inv, Accounts
    <3> QED
      BY <2>1, <3>1 DEF Promise!Accept
  <2>2. ASSUME NEW t \in Job, CompleteGroup(t)
        PROVE  Promise!JobNext
    <3>1. PICK S \in SUBSET Job : S = Range(workers[t]) \cap monitored
      BY DEF Inv, TypeOK
    <3>2. /\ replies' = [j \in Job |-> IF j \in S THEN replies[j] + 1 ELSE replies[j]]
          /\ monitored' = monitored \ S /\ lease' = lease - Cardinality(S)
          /\ submitted' = submitted
      BY <2>2, <3>1 DEF CompleteGroup
    <3>3. S \subseteq monitored /\ \A j \in S : replies[j] = 0
      BY <3>1 DEF Inv, Accounts
    <3>4. Promise!Cardinality(S) = Cardinality(S)
      BY DEF Promise!Cardinality, Cardinality
    <3>5. ASSUME NEW k \in Job
          PROVE  Fate(k)' = IF k \in S THEN "answered" ELSE Fate(k)
      BY <3>2, <3>3 DEF Inv, TypeOK
    <3>6. Promise!Answer(S)
      BY <3>2, <3>3, <3>4, <3>5 DEF Promise!Answer
    <3>7. \E T \in SUBSET Job : Promise!Answer(T)
      BY <3>6
    <3> QED
      BY <3>7 DEF Promise!JobNext
  <2>3. ASSUME NEW j \in Job, HandleClientDown(j) PROVE Promise!Drop(j)
    <3>1. /\ j \in monitored /\ monitored' = monitored \ {j} /\ lease' = lease - 1
          /\ replies' = replies /\ replies[j] = 0 /\ submitted' = submitted /\ j \in submitted
      BY <2>3 DEF HandleClientDown, Inv, Accounts
    <3>2. \A k \in Job : Fate(k)' = IF k = j THEN "dropped" ELSE Fate(k)
      BY <3>1
    <3> QED
      BY <3>1, <3>2 DEF Promise!Drop
  <2>4. CASE UNCHANGED <<monitored, replies, submitted, lease>>
    BY <2>4 DEF Promise!jobVars
  <2>5. CASE UNCHANGED vars
    BY <2>4, <2>5 DEF vars, clientVars
  <2>6. CASE Next
    <3>1. ASSUME NEW j \in Job, HandleResult(j) PROVE [Promise!JobNext]_Promise!jobVars
      <4>1. CASE workers[j] # << >>
        BY <2>2, <3>1, <4>1 DEF HandleResult
      <4>2. CASE workers[j] = << >>
        BY <2>4, <3>1, <4>2 DEF HandleResult, clientVars
      <4> QED
        BY <4>1, <4>2
    <3>2. ASSUME NEW j \in Job, HandleWorkerDown(j) PROVE [Promise!JobNext]_Promise!jobVars
      BY <2>2, <3>2 DEF HandleWorkerDown
    <3>3. ASSUME NEW j \in Job, WorkerStep(j) \/ WorkerDies(j) \/ ClientDies(j)
          PROVE  [Promise!JobNext]_Promise!jobVars
      BY <2>4, <3>3 DEF WorkerStep, ReadSignature, Load, Fails, WorkerDies, ClientDies,
                        worldVars, clientVars
    <3>4. CASE FileChanges
      BY <2>4, <3>4 DEF FileChanges, worldVars, clientVars
    <3> QED
      BY <2>1, <2>3, <2>6, <3>1, <3>2, <3>3, <3>4 DEF Next, Promise!JobNext
  <2> QED
    BY <2>5, <2>6
<1> QED
  BY <1>1, <1>2, SpecInv, PTL DEF Spec, Promise!JobSpec

=============================================================================
