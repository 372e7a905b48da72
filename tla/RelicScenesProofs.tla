------------------------- MODULE RelicScenesProofs -------------------------
(***************************************************************************)
(* Proofs about RelicScenes.                                               *)
(***************************************************************************)
EXTENDS RelicScenes, SequenceTheorems, FiniteSetTheorems, TLAPS

(***************************************************************************)
(* The inductive invariant.                                                *)
(***************************************************************************)
OfWorker == {"WorkFinished", "SuggestionReady"}

\* What a message may say.
Plain(m) ==
  /\ m.type \in {"Rewards", "Suggestions"} => m.session # 0
  /\ m.type = "IntakeGap" => m = IntakeGap
  /\ m.era => m.type \in OfWorker
  /\ m.type = "SuggestionReady" => m.era

\* A gap, and each of the two messages of a worker, is queued once; the completion of a
\* worker is its last message.
Distinct(q) ==
  \A i, j \in DOMAIN q :
    IsControl(q[i]) /\ q[i].type = q[j].type /\ q[i].gen = q[j].gen => i = j
CompletionLast(q) ==
  \A i, j \in DOMAIN q :
    q[i].type = "WorkFinished" /\ q[j].type = "SuggestionReady" /\ q[i].gen = q[j].gen => j < i

Fit(q) ==
  /\ q \in Seq(Message)
  /\ \A i \in DOMAIN q : Plain(q[i])
  /\ Distinct(q) /\ CompletionLast(q)

\* The limits of the two classes of triggers.
Bounded(q) == Used(q, FALSE) <= DataItems /\ Used(q, TRUE) <= ControlItems

\* The triggers in a queue that open a context.
Opening(q) == Cardinality({i \in DOMAIN q : q[i].type \in SceneStarts})

\* A message of a worker is of one whose slot is taken, which has got as far as the message
\* says, and an era is that of a suggestion.
Explained(m, w, c) ==
  m.type \in OfWorker =>
    /\ m.gen \in DOMAIN w
    /\ m.type = "WorkFinished" => w[m.gen] = "ended"
    /\ m.type = "SuggestionReady" => w[m.gen] \in {"update", "ended"}
    /\ m.era => c[m.gen].kind = "Suggestions"

Contexts == [Gen -> Context]

\* The contexts c and the coordinator's own state o agree: no context is open but the one
\* the coordinator holds, and a suggestion has a session.
Orderly(o, c) ==
  /\ o \in Owner /\ c \in Contexts
  /\ \A g \in Gen : ~c[g].cancelled => o.current = g
  /\ \A g \in Gen : c[g].kind = "Suggestions" => c[g].session # 0
  /\ o.pending <= o.generation /\ o.lastEra <= o.generation

\* A queue of events within its limit, in which a scene has a context.
Events(u) ==
  /\ u \in Seq(UiEvent) /\ Len(u) <= UiItems
  /\ \A i \in DOMAIN u : u[i].type \in {"RelicStart", "RelicScene"} => u[i].gen # 0

SessionInv ==
  /\ observed \in [number : 1..MaxSession, live : BOOLEAN, reported : BOOLEAN]
  /\ observed.reported => ~observed.live

InboxInv ==
  /\ Fit(triggers) /\ Bounded(triggers)
  /\ owner.generation + Opening(triggers) <= MaxGen

OwnerInv == Orderly(owner, contexts)

\* A worker is of a context that was opened, and not of the one that waits for a worker.
WorkersInv ==
  /\ workers \in [DOMAIN workers -> Stages] /\ DOMAIN workers \subseteq Gen
  /\ Cardinality(DOMAIN workers) <= SceneWorkers
  /\ \A g \in DOMAIN workers : g <= owner.generation
  /\ owner.pending # 0 => owner.pending \notin DOMAIN workers

\* After the end of the coordinator nobody reads what is left in the inbox.
MailInv ==
  /\ ~ending \/ DOMAIN workers # {} =>
       \A i \in DOMAIN triggers : Explained(triggers[i], workers, contexts)
  /\ CompletionsArrive

OverlayInv ==
  /\ Events(ui)
  /\ screen \in Screen /\ reloadGate \in [requested : BOOLEAN, approved : BOOLEAN, interactive : BOOLEAN]
  /\ screen.scene # "none" => screen.context # 0
  /\ reloadGate.interactive = screen.interactive
  /\ InputReturned

FlagsInv == recording \in BOOLEAN /\ ending \in BOOLEAN

RelicInv ==
  /\ SessionInv /\ InboxInv /\ OwnerInv /\ WorkersInv /\ MailInv /\ OverlayInv /\ FlagsInv
  /\ EraOfThisGame

(***************************************************************************)
(* Parts of queues.                                                        *)
(***************************************************************************)
\* f tells where in q the items of r were, which kept their order.
Thins(f, r, q) ==
  /\ f \in [1..Len(r) -> 1..Len(q)]
  /\ \A i \in 1..Len(r) : r[i] = q[f[i]]
  /\ \A i, j \in 1..Len(r) : i < j => f[i] < f[j]

\* The queue r is q without the item at k.
Without(r, q, k) ==
  \E f : /\ Thins(f, r, q)
         /\ \A i \in 1..Len(r) : f[i] # k
         /\ \A j \in 1..Len(q) : j # k => \E i \in 1..Len(r) : f[i] = j

\* What one item less means, by the items before k and after it.
LEMMA OneLess ==
  ASSUME NEW q, NEW r, NEW k, Len(q) \in Nat, k \in 1..Len(q), Len(r) = Len(q) - 1,
         \A i \in 1..k - 1 : r[i] = q[i],
         \A i \in k..Len(r) : r[i] = q[i + 1]
  PROVE  Without(r, q, k)
<1> DEFINE m == Len(q)
<1>0. m \in Nat /\ k \in 1..m /\ Len(q) = m /\ Len(r) = m - 1
  OBVIOUS
<1> HIDE DEF m
<1> DEFINE f == [i \in 1..m - 1 |-> IF i < k THEN i ELSE i + 1]
<1>1. f \in [1..m - 1 -> 1..m]
  BY <1>0
<1>2. \A i \in 1..m - 1 : r[i] = q[f[i]]
  BY <1>0
<1>3. \A i, j \in 1..m - 1 : i < j => f[i] < f[j]
  BY <1>0
<1>4. \A i \in 1..m - 1 : f[i] # k
  BY <1>0
<1>5. ASSUME NEW j \in 1..m, j # k
      PROVE  \E i \in 1..m - 1 : f[i] = j
  <2>1. CASE j < k
    <3>1. j \in 1..m - 1 /\ f[j] = j
      BY <1>0, <2>1
    <3> QED
      BY <3>1
  <2>2. CASE j > k
    <3>1. j - 1 \in 1..m - 1 /\ f[j - 1] = j
      BY <1>0, <2>2
    <3> QED
      BY <3>1
  <2> QED
    BY <1>0, <1>5, <2>1, <2>2
<1> HIDE DEF f
<1>6. Thins(f, r, q)
  BY <1>0, <1>1, <1>2, <1>3 DEF Thins
<1>7. \A i \in 1..Len(r) : f[i] # k
  BY <1>0, <1>4
<1>8. \A j \in 1..Len(q) : j # k => \E i \in 1..Len(r) : f[i] = j
  BY <1>0, <1>5
<1> QED
  BY <1>6, <1>7, <1>8, Zenon DEF Without

\* The tail of a queue is the queue without its first item.
LEMMA TailThins ==
  ASSUME NEW S, NEW q \in Seq(S), q # << >>
  PROVE  /\ Tail(q) \in Seq(S) /\ Len(q) \in Nat /\ 1 \in 1..Len(q)
         /\ Len(Tail(q)) = Len(q) - 1 /\ Head(q) = q[1] /\ Head(q) \in S
         /\ Without(Tail(q), q, 1)
<1> DEFINE r == Tail(q)
<1>1. Len(q) \in Nat \ {0} /\ Head(q) \in S /\ Head(q) = q[1]
  BY EmptySeq, HeadTailProperties
<1>2. r \in Seq(S) /\ Len(r) = Len(q) - 1 /\ \A i \in 1..Len(r) : r[i] = q[i + 1]
  BY HeadTailProperties
<1>3. Len(q) \in Nat /\ 1 \in 1..Len(q) /\ Len(r) = Len(q) - 1
  BY <1>1, <1>2
<1> HIDE DEF r
<1>4. Without(r, q, 1)
  <2>1. \A i \in 1..1 - 1 : r[i] = q[i]
    OBVIOUS
  <2> QED
    BY <1>2, <1>3, <2>1, OneLess, SMT
<1> QED
  BY <1>1, <1>2, <1>3, <1>4 DEF r

\* r is left and right, which are q before and after k.
LEMMA TwoJoined ==
  ASSUME NEW len \in Nat, NEW k \in 1..len, NEW q, NEW left, NEW right, NEW r,
         \A i \in 1..k - 1 : left[i] = q[1 + i - 1],
         \A i \in 1..len - k : right[i] = q[k + 1 + i - 1],
         \A i \in 1..(k - 1) + (len - k) :
            r[i] = IF i <= k - 1 THEN left[i] ELSE right[i - (k - 1)]
  PROVE  /\ \A i \in 1..k - 1 : r[i] = q[i]
         /\ \A i \in k..len - 1 : r[i] = q[i + 1]
<1>1. ASSUME NEW i \in 1..k - 1
      PROVE  r[i] = q[i]
  OBVIOUS
<1>2. ASSUME NEW i \in k..len - 1
      PROVE  r[i] = q[i + 1]
  <2>1. r[i] = right[i - (k - 1)]
    OBVIOUS
  <2>2. i - (k - 1) \in 1..len - k /\ k + 1 + (i - (k - 1)) - 1 = i + 1
    OBVIOUS
  <2>3. right[i - (k - 1)] = q[k + 1 + (i - (k - 1)) - 1]
    BY <2>2, Zenon
  <2> QED
    BY <2>1, <2>2, <2>3
<1> QED
  BY <1>1, <1>2

\* A part of a sequence.
LEMMA Slice ==
  ASSUME NEW S, NEW q \in Seq(S), NEW m \in Int, NEW n \in Int, 1 <= m, n <= Len(q), m <= n + 1
  PROVE  /\ SubSeq(q, m, n) \in Seq(S)
         /\ Len(SubSeq(q, m, n)) = n - m + 1
         /\ \A i \in 1..n - m + 1 : SubSeq(q, m, n)[i] = q[m + i - 1]
<1>1. \A i \in m..n : q[i] \in S
  BY LenProperties
<1>2. /\ SubSeq(q, m, n) \in Seq(S)
      /\ Len(SubSeq(q, m, n)) = IF m <= n THEN n - m + 1 ELSE 0
      /\ \A i \in 1..n - m + 1 : SubSeq(q, m, n)[i] = q[m + i - 1]
  BY <1>1, SubSeqProperties
<1> DEFINE s == SubSeq(q, m, n)
<1> HIDE DEF s
<1>3. Len(s) = n - m + 1
  BY <1>2 DEF s
<1> QED
  BY <1>2, <1>3 DEF s

\* RemoveFirst takes the item out of a queue that has it once.
LEMMA RemoveThins ==
  ASSUME NEW S, NEW q \in Seq(S), NEW k \in 1..Len(q), NEW e, q[k] = e,
         \A i \in 1..Len(q) : q[i] = e => i = k
  PROVE  /\ RemoveFirst(q, e) \in Seq(S)
         /\ Len(RemoveFirst(q, e)) = Len(q) - 1
         /\ Without(RemoveFirst(q, e), q, k)
<1> DEFINE len == Len(q)
<1>1. len \in Nat /\ k \in 1..len
  BY LenProperties
<1>2. {i \in 1..Len(q) : q[i] = e} = {k}
  BY <1>1
<1>3. Min({k}) = k
  BY DEF Min
<1>4. SelectInSeq(q, LAMBDA v : v = e) = k
  BY <1>2, <1>3, Zenon DEF SelectInSeq
<1> DEFINE left == SubSeq(q, 1, k - 1)  right == SubSeq(q, k + 1, len)  r == left \o right
<1>5. RemoveFirst(q, e) = r
  BY <1>4, Zenon DEF RemoveFirst, RemoveAt
<1>6. /\ left \in Seq(S) /\ Len(left) = (k - 1) - 1 + 1
      /\ \A i \in 1..(k - 1) - 1 + 1 : left[i] = q[1 + i - 1]
  BY <1>1, Slice
<1>7. /\ right \in Seq(S) /\ Len(right) = len - (k + 1) + 1
      /\ \A i \in 1..len - (k + 1) + 1 : right[i] = q[k + 1 + i - 1]
  <2>1. k + 1 \in Int /\ len \in Int /\ 1 <= k + 1 /\ len <= Len(q) /\ k + 1 <= len + 1
    BY <1>1
  <2> QED
    BY <2>1, Slice, Zenon
<1>8. /\ r \in Seq(S) /\ Len(r) = Len(left) + Len(right)
      /\ \A i \in 1..Len(left) + Len(right) :
           r[i] = IF i <= Len(left) THEN left[i] ELSE right[i - Len(left)]
  BY <1>6, <1>7, ConcatProperties
<1>9. Len(q) = len
  OBVIOUS
<1> HIDE DEF left, right, r, len
<1>10. /\ Len(left) = k - 1 /\ Len(right) = len - k
       /\ (k - 1) - 1 + 1 = k - 1 /\ len - (k + 1) + 1 = len - k
       /\ (k - 1) + (len - k) = len - 1
  BY <1>1, <1>6, <1>7
<1>11. /\ \A i \in 1..k - 1 : r[i] = q[i]
       /\ \A i \in k..len - 1 : r[i] = q[i + 1]
  <2>1. \A i \in 1..k - 1 : left[i] = q[1 + i - 1]
    BY <1>6, <1>10, Zenon
  <2>2. \A i \in 1..len - k : right[i] = q[k + 1 + i - 1]
    BY <1>7, <1>10, Zenon
  <2>3. \A i \in 1..(k - 1) + (len - k) :
          r[i] = IF i <= k - 1 THEN left[i] ELSE right[i - (k - 1)]
    BY <1>8, <1>10, Zenon
  <2> QED
    BY <1>1, <2>1, <2>2, <2>3, TwoJoined
<1>12. Len(r) = len - 1
  BY <1>8, <1>10, Zenon
<1>13. Len(q) \in Nat /\ k \in 1..Len(q) /\ Len(r) = Len(q) - 1
  BY <1>1, <1>9, <1>12
<1>14. \A i \in k..Len(r) : r[i] = q[i + 1]
  BY <1>11, <1>12, Zenon
<1>15. Without(r, q, k)
  BY <1>11, <1>13, <1>14, OneLess, Zenon
<1> QED
  BY <1>5, <1>8, <1>13, <1>15, Zenon

\* There are no more items of a kind in a part of a queue, and fewer if one is left out.
LEMMA FewerItems ==
  ASSUME NEW f, NEW r, NEW q, Thins(f, r, q), Len(r) \in Nat, Len(q) \in Nat,
         NEW A \in SUBSET (1..Len(r)), NEW B \in SUBSET (1..Len(q)),
         \A i \in A : f[i] \in B
  PROVE  /\ Cardinality(A) \in Nat /\ Cardinality(B) \in Nat
         /\ Cardinality(A) <= Cardinality(B)
         /\ \A k \in B : (\A i \in A : f[i] # k) => Cardinality(A) + 1 <= Cardinality(B)
<1>1. IsFiniteSet(1..Len(r)) /\ IsFiniteSet(1..Len(q))
  BY FS_Interval
<1>2. IsFiniteSet(A) /\ IsFiniteSet(B)
  BY <1>1, FS_Subset
<1>3. Cardinality(A) \in Nat /\ Cardinality(B) \in Nat
  BY <1>2, FS_CardinalityType
<1>4. ASSUME NEW C, IsFiniteSet(C), \A i \in A : f[i] \in C
      PROVE  Cardinality(A) <= Cardinality(C)
  <2> DEFINE g == [i \in A |-> f[i]]
  <2>1. \A i, j \in A : f[i] = f[j] => i = j
    <3>1. \A i \in 1..Len(r) : f[i] \in 1..Len(q)
      BY DEF Thins
    <3> QED
      BY <3>1 DEF Thins
  <2>2. g \in Injection(A, C)
    BY <1>4, <2>1 DEF Injection, IsInjective
  <2> QED
    BY <1>4, <2>2, FS_Injection
<1>5. ASSUME NEW k \in B, \A i \in A : f[i] # k
      PROVE  Cardinality(A) + 1 <= Cardinality(B)
  <2>1. IsFiniteSet(B \ {k}) /\ Cardinality(B \ {k}) = Cardinality(B) - 1
    BY <1>2, FS_RemoveElement
  <2>2. Cardinality(A) <= Cardinality(B \ {k})
    BY <1>4, <1>5, <2>1
  <2> QED
    BY <1>3, <2>1, <2>2
<1> QED
  BY <1>2, <1>3, <1>4, <1>5

\* A queue that loses an item stays in order and gets shorter.
LEMMA WithoutFit ==
  ASSUME NEW q, Fit(q), NEW r \in Seq(Message), NEW k \in 1..Len(q), Without(r, q, k)
  PROVE  /\ Fit(r)
         /\ \A i \in DOMAIN r : \E j \in DOMAIN q : j # k /\ r[i] = q[j]
         /\ \A j \in DOMAIN q : j # k => \E i \in DOMAIN r : r[i] = q[j]
<1> DEFINE m == Len(q)  n == Len(r)
<1>1. /\ q \in Seq(Message) /\ m \in Nat /\ n \in Nat
      /\ DOMAIN q = 1..m /\ DOMAIN r = 1..n /\ k \in 1..m
  BY LenProperties DEF Fit
<1>2. PICK f : /\ Thins(f, r, q)
               /\ \A i \in 1..n : f[i] # k
               /\ \A j \in 1..m : j # k => \E i \in 1..n : f[i] = j
  BY Zenon DEF Without
<1>3. /\ \A i \in 1..n : f[i] \in 1..m /\ r[i] = q[f[i]]
      /\ \A i, j \in 1..n : i < j => f[i] < f[j]
  BY <1>2 DEF Thins
<1>4. \A i, j \in 1..n : f[i] = f[j] => i = j
  <2> HIDE DEF m, n
  <2> QED
    BY <1>1, <1>3
<1>5. \A i, j \in 1..n : f[i] < f[j] => i < j
  <2> HIDE DEF m, n
  <2> QED
    BY <1>1, <1>3
<1> HIDE DEF m, n
<1>6. \A i \in DOMAIN r : Plain(r[i])
  BY <1>1, <1>3, Zenon DEF Fit
<1>7. Distinct(r)
  <2> SUFFICES ASSUME NEW i \in 1..n, NEW j \in 1..n,
                      IsControl(r[i]), r[i].type = r[j].type, r[i].gen = r[j].gen
               PROVE  i = j
    BY <1>1, Zenon DEF Distinct
  <2>1. f[i] \in DOMAIN q /\ f[j] \in DOMAIN q /\ q[f[i]] = r[i] /\ q[f[j]] = r[j]
    BY <1>1, <1>3, Zenon
  <2>2. IsControl(q[f[i]]) /\ q[f[i]].type = q[f[j]].type /\ q[f[i]].gen = q[f[j]].gen
    BY <2>1, Zenon
  <2>3. f[i] = f[j]
    BY <2>1, <2>2, Zenon DEF Fit, Distinct
  <2> QED
    BY <1>4, <2>3, Zenon
<1>8. CompletionLast(r)
  <2> SUFFICES ASSUME NEW i \in 1..n, NEW j \in 1..n,
                      r[i].type = "WorkFinished", r[j].type = "SuggestionReady",
                      r[i].gen = r[j].gen
               PROVE  j < i
    BY <1>1, Zenon DEF CompletionLast
  <2>1. f[i] \in DOMAIN q /\ f[j] \in DOMAIN q /\ q[f[i]] = r[i] /\ q[f[j]] = r[j]
    BY <1>1, <1>3, Zenon
  <2>2. /\ q[f[i]].type = "WorkFinished" /\ q[f[j]].type = "SuggestionReady"
        /\ q[f[i]].gen = q[f[j]].gen
    BY <2>1, Zenon
  <2>3. f[j] < f[i]
    BY <2>1, <2>2, Zenon DEF Fit, CompletionLast
  <2> QED
    BY <1>5, <2>3, Zenon
<1>9. Fit(r)
  BY <1>6, <1>7, <1>8 DEF Fit
<1>10. \A i \in DOMAIN r : \E j \in DOMAIN q : j # k /\ r[i] = q[j]
  BY <1>1, <1>2, <1>3, Zenon
<1>11. \A j \in DOMAIN q : j # k => \E i \in DOMAIN r : r[i] = q[j]
  BY <1>1, <1>2, <1>3, ZenonT(40)
<1> QED
  BY <1>9, <1>10, <1>11

\* Its counters go down, that of the lost item by one.
LEMMA WithoutCounts ==
  ASSUME NEW q \in Seq(Message), NEW r \in Seq(Message), NEW k \in 1..Len(q), Without(r, q, k)
  PROVE  /\ \A c \in BOOLEAN : /\ Used(r, c) \in Nat /\ Used(q, c) \in Nat
                               /\ Used(r, c) <= Used(q, c)
                               /\ IsControl(q[k]) = c => Used(r, c) + 1 <= Used(q, c)
         /\ Opening(r) \in Nat /\ Opening(q) \in Nat /\ Opening(r) <= Opening(q)
         /\ q[k].type \in SceneStarts => Opening(r) + 1 <= Opening(q)
<1> DEFINE m == Len(q)  n == Len(r)
<1>1. /\ m \in Nat /\ n \in Nat
      /\ DOMAIN q = 1..m /\ DOMAIN r = 1..n /\ k \in 1..m
  BY LenProperties
<1>2. PICK f : /\ Thins(f, r, q)
               /\ \A i \in 1..n : f[i] # k
  BY Zenon DEF Without
<1>3. \A i \in 1..n : f[i] \in 1..m /\ r[i] = q[f[i]]
  BY <1>2 DEF Thins
<1>4. ASSUME NEW c \in BOOLEAN
      PROVE  /\ Used(r, c) \in Nat /\ Used(q, c) \in Nat
             /\ Used(r, c) <= Used(q, c)
             /\ IsControl(q[k]) = c => Used(r, c) + 1 <= Used(q, c)
  <2> DEFINE A == {i \in DOMAIN r : IsControl(r[i]) = c}
             B == {i \in DOMAIN q : IsControl(q[i]) = c}
  <2>1. /\ A \in SUBSET (1..Len(r)) /\ B \in SUBSET (1..Len(q))
        /\ \A i \in A : f[i] \in B /\ f[i] # k
        /\ IsControl(q[k]) = c => k \in B
    BY <1>1, <1>2, <1>3, Zenon
  <2>2. Used(r, c) = Cardinality(A) /\ Used(q, c) = Cardinality(B)
    BY DEF Used
  <2> HIDE DEF A, B
  <2>3. /\ Cardinality(A) \in Nat /\ Cardinality(B) \in Nat
        /\ Cardinality(A) <= Cardinality(B)
        /\ \A l \in B : (\A i \in A : f[i] # l) => Cardinality(A) + 1 <= Cardinality(B)
    BY <1>1, <1>2, <2>1, FewerItems, Zenon
  <2> QED
    BY <2>1, <2>2, <2>3, Zenon
<1>5. /\ Opening(r) \in Nat /\ Opening(q) \in Nat /\ Opening(r) <= Opening(q)
      /\ q[k].type \in SceneStarts => Opening(r) + 1 <= Opening(q)
  <2> DEFINE A == {i \in DOMAIN r : r[i].type \in SceneStarts}
             B == {i \in DOMAIN q : q[i].type \in SceneStarts}
  <2>1. /\ A \in SUBSET (1..Len(r)) /\ B \in SUBSET (1..Len(q))
        /\ \A i \in A : f[i] \in B /\ f[i] # k
        /\ q[k].type \in SceneStarts => k \in B
    BY <1>1, <1>2, <1>3, Zenon
  <2>2. Opening(r) = Cardinality(A) /\ Opening(q) = Cardinality(B)
    BY DEF Opening
  <2> HIDE DEF A, B
  <2>3. /\ Cardinality(A) \in Nat /\ Cardinality(B) \in Nat
        /\ Cardinality(A) <= Cardinality(B)
        /\ \A l \in B : (\A i \in A : f[i] # l) => Cardinality(A) + 1 <= Cardinality(B)
    BY <1>1, <1>2, <2>1, FewerItems, Zenon
  <2> QED
    BY <2>1, <2>2, <2>3, Zenon
<1> QED
  BY <1>4, <1>5

\* One more place.
LEMMA OneMore ==
  ASSUME NEW n \in Nat, NEW A \in SUBSET (1..n)
  PROVE  Cardinality(A) \in Nat /\ Cardinality(A \cup {n + 1}) = Cardinality(A) + 1
<1>1. IsFiniteSet(A)
  <2>1. 1 \in Int /\ n \in Int
    OBVIOUS
  <2> QED
    BY <2>1, FS_Interval, FS_Subset, Zenon
<1>2. n + 1 \notin A
  OBVIOUS
<1> QED
  BY <1>1, <1>2, FS_AddElement, FS_CardinalityType

\* What an appended item adds.
LEMMA AppendCounts ==
  ASSUME NEW q \in Seq(Message), NEW m \in Message
  PROVE  /\ Used(Append(q, m), IsControl(m)) = Used(q, IsControl(m)) + 1
         /\ \A c \in BOOLEAN : Used(q, c) \in Nat
         /\ \A c \in BOOLEAN : c # IsControl(m) => Used(Append(q, m), c) = Used(q, c)
         /\ Opening(q) \in Nat
         /\ m.type \in SceneStarts => Opening(Append(q, m)) = Opening(q) + 1
         /\ m.type \notin SceneStarts => Opening(Append(q, m)) = Opening(q)
<1> DEFINE r == Append(q, m)  n == Len(q)
<1>1. n \in Nat /\ DOMAIN q = 1..n
  BY LenProperties
<1>2. /\ DOMAIN r = 1..n + 1
      /\ \A i \in 1..n : r[i] = q[i]
      /\ r[n + 1] = m
  BY AppendProperties, LenProperties
<1> HIDE DEF r, n
<1>3. 1..n + 1 = 1..n \cup {n + 1}
  BY <1>1
<1>4. DOMAIN r = DOMAIN q \cup {n + 1}
  BY <1>1, <1>2, <1>3, Zenon
<1>5. ASSUME NEW c \in BOOLEAN
      PROVE  /\ IsControl(m) = c => Used(r, c) = Used(q, c) + 1
             /\ IsControl(m) # c => Used(r, c) = Used(q, c)
             /\ Used(q, c) \in Nat
  <2> DEFINE A == {i \in DOMAIN r : IsControl(r[i]) = c}
             B == {i \in DOMAIN q : IsControl(q[i]) = c}
  <2>1. /\ B \in SUBSET (1..n)
        /\ IsControl(m) = c => A = B \cup {n + 1}
        /\ IsControl(m) # c => A = B
    <3>1. \A i \in DOMAIN q : (IsControl(r[i]) = c) <=> (IsControl(q[i]) = c)
      BY <1>1, <1>2, Zenon
    <3>2. A = B \cup {i \in {n + 1} : IsControl(r[i]) = c}
      BY <1>4, <3>1, Zenon
    <3>3. B \in SUBSET (1..n)
      BY <1>1, Zenon
    <3>4. ASSUME IsControl(m) = c
          PROVE  {i \in {n + 1} : IsControl(r[i]) = c} = {n + 1}
      BY <1>2, <3>4, Zenon
    <3>5. ASSUME IsControl(m) # c
          PROVE  {i \in {n + 1} : IsControl(r[i]) = c} = {}
      BY <1>2, <3>5, Zenon
    <3> HIDE DEF A, B
    <3> QED
      BY <3>2, <3>3, <3>4, <3>5, Zenon
  <2>2. Used(r, c) = Cardinality(A) /\ Used(q, c) = Cardinality(B)
    BY DEF Used
  <2> HIDE DEF A, B
  <2> QED
    BY <1>1, <2>1, <2>2, OneMore, Zenon
<1>6. /\ m.type \in SceneStarts => Opening(r) = Opening(q) + 1
      /\ m.type \notin SceneStarts => Opening(r) = Opening(q)
      /\ Opening(q) \in Nat
  <2> DEFINE A == {i \in DOMAIN r : r[i].type \in SceneStarts}
             B == {i \in DOMAIN q : q[i].type \in SceneStarts}
  <2>1. /\ B \in SUBSET (1..n)
        /\ m.type \in SceneStarts => A = B \cup {n + 1}
        /\ m.type \notin SceneStarts => A = B
    <3>1. \A i \in DOMAIN q : r[i].type \in SceneStarts <=> q[i].type \in SceneStarts
      BY <1>1, <1>2, Zenon
    <3>2. A = B \cup {i \in {n + 1} : r[i].type \in SceneStarts}
      BY <1>4, <3>1, Zenon
    <3>3. B \in SUBSET (1..n)
      BY <1>1, Zenon
    <3>4. ASSUME m.type \in SceneStarts
          PROVE  {i \in {n + 1} : r[i].type \in SceneStarts} = {n + 1}
      BY <1>2, <3>4, Zenon
    <3>5. ASSUME m.type \notin SceneStarts
          PROVE  {i \in {n + 1} : r[i].type \in SceneStarts} = {}
      BY <1>2, <3>5, Zenon
    <3> HIDE DEF A, B
    <3> QED
      BY <3>2, <3>3, <3>4, <3>5, Zenon
  <2>2. Opening(r) = Cardinality(A) /\ Opening(q) = Cardinality(B)
    BY DEF Opening
  <2> HIDE DEF A, B
  <2> QED
    BY <1>1, <2>1, <2>2, OneMore, Zenon
<1>7. IsControl(m) \in BOOLEAN
  BY DEF IsControl
<1> QED
  BY <1>5, <1>6, <1>7, Zenon DEF r

\* An appended item leaves a queue in order if it is new to it.
LEMMA AppendFit ==
  ASSUME NEW q, Fit(q), NEW m \in Message, Plain(m),
         \A i \in DOMAIN q : ~(IsControl(m) /\ q[i].type = m.type /\ q[i].gen = m.gen),
         m.type = "SuggestionReady" =>
           \A i \in DOMAIN q : ~(q[i].type = "WorkFinished" /\ q[i].gen = m.gen)
  PROVE  /\ Fit(Append(q, m))
         /\ DOMAIN q \subseteq DOMAIN Append(q, m)
         /\ \A i \in DOMAIN q : Append(q, m)[i] = q[i]
         /\ \A i \in DOMAIN Append(q, m) : i \in DOMAIN q \/ Append(q, m)[i] = m
         /\ \E i \in DOMAIN Append(q, m) : Append(q, m)[i] = m
<1> DEFINE r == Append(q, m)  n == Len(q)
<1>1. q \in Seq(Message) /\ n \in Nat /\ DOMAIN q = 1..n
  BY LenProperties DEF Fit
<1>2. /\ r \in Seq(Message) /\ DOMAIN r = 1..n + 1
      /\ \A i \in 1..n : r[i] = q[i]
      /\ r[n + 1] = m
  BY <1>1, AppendProperties, LenProperties
<1> HIDE DEF r, n
<1>3. /\ DOMAIN r = DOMAIN q \cup {n + 1} /\ n + 1 \notin DOMAIN q
      /\ \A i \in DOMAIN q : i < n + 1 /\ ~(n + 1 < i)
  BY <1>1, <1>2
<1>4. \A i \in DOMAIN q : r[i] = q[i]
  BY <1>1, <1>2, Zenon
<1>5. \A i \in DOMAIN r : Plain(r[i])
  BY <1>2, <1>3, <1>4, Zenon DEF Fit
<1>6. Distinct(r)
  <2> SUFFICES ASSUME NEW i \in DOMAIN r, NEW j \in DOMAIN r,
                      IsControl(r[i]), r[i].type = r[j].type, r[i].gen = r[j].gen
               PROVE  i = j
    BY Zenon DEF Distinct
  <2>1. CASE i \in DOMAIN q /\ j \in DOMAIN q
    BY <1>4, <2>1, Zenon DEF Fit, Distinct
  <2>2. CASE i = n + 1 /\ j = n + 1
    BY <2>2
  <2>3. CASE i = n + 1 /\ j \in DOMAIN q
    BY <1>2, <1>4, <2>3
  <2>4. CASE i \in DOMAIN q /\ j = n + 1
    BY <1>2, <1>4, <2>4 DEF IsControl
  <2> QED
    BY <1>3, <2>1, <2>2, <2>3, <2>4, Zenon
<1>7. CompletionLast(r)
  <2> SUFFICES ASSUME NEW i \in DOMAIN r, NEW j \in DOMAIN r,
                      r[i].type = "WorkFinished", r[j].type = "SuggestionReady",
                      r[i].gen = r[j].gen
               PROVE  j < i
    BY Zenon DEF CompletionLast
  <2>1. CASE i \in DOMAIN q /\ j \in DOMAIN q
    BY <1>4, <2>1, Zenon DEF Fit, CompletionLast
  <2>2. CASE j \in DOMAIN q /\ i = n + 1
    BY <1>3, <2>2, Zenon
  <2>3. CASE j = n + 1
    <3>1. m.type = "SuggestionReady" /\ i # n + 1
      BY <1>2, <2>3
    <3>2. i \in DOMAIN q
      BY <1>3, <3>1, Zenon
    <3> QED
      BY <1>2, <1>4, <2>3, <3>1, <3>2
  <2> QED
    BY <1>3, <2>1, <2>2, <2>3, Zenon
<1>8. Fit(r)
  BY <1>2, <1>5, <1>6, <1>7, Zenon DEF Fit
<1> QED
  BY <1>2, <1>3, <1>4, <1>8, Zenon DEF r

\* A worker's message that is not in the queue yet, nor is a later one of that worker.
NewTo(q, t) ==
  t.type \in OfWorker =>
    \A i \in DOMAIN q : q[i].gen = t.gen => q[i].type \notin {t.type, "WorkFinished"}

\* A gap is a control message like others.
LEMMA GapIsMessage ==
  IntakeGap \in Message /\ Plain(IntakeGap) /\ IsControl(IntakeGap) /\ IntakeGap.type = "IntakeGap"
BY RelicAssumption DEF IntakeGap, Trigger, Message, TriggerTypes, Control, Plain, OfWorker, IsControl

\* A gap takes out the gap that is queued.
LEMMA UnreplacedFit ==
  ASSUME NEW q, Fit(q), NEW t \in Message
  PROVE  /\ Fit(Unreplaced(q, t))
         /\ \A c \in BOOLEAN : /\ Used(Unreplaced(q, t), c) \in Nat
                               /\ Used(q, c) \in Nat
                               /\ Used(Unreplaced(q, t), c) <= Used(q, c)
         /\ Opening(Unreplaced(q, t)) \in Nat /\ Opening(q) \in Nat
         /\ Opening(Unreplaced(q, t)) <= Opening(q)
         /\ \A i \in DOMAIN Unreplaced(q, t) : \E j \in DOMAIN q : Unreplaced(q, t)[i] = q[j]
         /\ \A j \in DOMAIN q :
              q[j] = t \/ \E i \in DOMAIN Unreplaced(q, t) : Unreplaced(q, t)[i] = q[j]
         /\ t = IntakeGap => \A i \in DOMAIN Unreplaced(q, t) : Unreplaced(q, t)[i] # IntakeGap
<1>1. q \in Seq(Message) /\ DOMAIN q = 1..Len(q)
  BY LenProperties DEF Fit
<1>2. /\ \A c \in BOOLEAN : Used(q, c) \in Nat /\ Used(q, c) <= Used(q, c)
      /\ Opening(q) \in Nat /\ Opening(q) <= Opening(q)
  BY <1>1, AppendCounts
<1>3. CASE t # IntakeGap \/ \A i \in DOMAIN q : q[i] # IntakeGap
  <2>1. Unreplaced(q, t) = q
    BY <1>1, <1>3, Zenon DEF Unreplaced, RemoveFirst
  <2> QED
    BY <1>2, <1>3, <2>1, Zenon
<1>4. CASE t = IntakeGap /\ \E i \in DOMAIN q : q[i] = IntakeGap
  <2> DEFINE r == RemoveFirst(q, IntakeGap)
  <2>1. PICK k \in 1..Len(q) : q[k] = IntakeGap
    BY <1>1, <1>4, Zenon
  <2>2. \A i \in 1..Len(q) : q[i] = IntakeGap => i = k
    BY <1>1, <2>1, GapIsMessage, Zenon DEF Fit, Distinct
  <2>3. Unreplaced(q, t) = r
    BY <1>4, Zenon DEF Unreplaced
  <2>4. r \in Seq(Message) /\ Without(r, q, k)
    BY <1>1, <2>1, <2>2, RemoveThins, Zenon
  <2> HIDE DEF r
  <2>5. /\ Fit(r)
        /\ \A i \in DOMAIN r : \E j \in DOMAIN q : j # k /\ r[i] = q[j]
        /\ \A j \in DOMAIN q : j # k => \E i \in DOMAIN r : r[i] = q[j]
    BY <2>4, WithoutFit, Zenon
  <2>6. /\ \A c \in BOOLEAN : Used(r, c) \in Nat /\ Used(q, c) \in Nat /\ Used(r, c) <= Used(q, c)
        /\ Opening(r) \in Nat /\ Opening(q) \in Nat /\ Opening(r) <= Opening(q)
    BY <1>1, <2>4, WithoutCounts, Zenon
  <2>7. \A i \in DOMAIN r : r[i] # IntakeGap
    BY <1>1, <2>2, <2>5, Zenon
  <2>8. \A j \in DOMAIN q : q[j] = t \/ \E i \in DOMAIN r : r[i] = q[j]
    BY <1>4, <2>1, <2>5, Zenon
  <2> QED
    BY <2>3, <2>5, <2>6, <2>7, <2>8, Zenon
<1> QED
  BY <1>3, <1>4, Zenon

\* What the inbox has when it has taken t: all it had, and t.
LEMMA AcceptedFit ==
  ASSUME NEW q, Fit(q), NEW t \in Message, Plain(t), NewTo(q, t)
  PROVE  /\ Fit(Accepted(q, t))
         /\ Used(Accepted(q, t), IsControl(t)) = Used(Unreplaced(q, t), IsControl(t)) + 1
         /\ \A c \in BOOLEAN : c # IsControl(t) => Used(Accepted(q, t), c) <= Used(q, c)
         /\ Opening(Accepted(q, t)) \in Nat /\ Opening(q) \in Nat
         /\ t.type \in SceneStarts => Opening(Accepted(q, t)) <= Opening(q) + 1
         /\ t.type \notin SceneStarts => Opening(Accepted(q, t)) <= Opening(q)
         /\ \A i \in DOMAIN Accepted(q, t) :
              Accepted(q, t)[i] = t \/ \E j \in DOMAIN q : Accepted(q, t)[i] = q[j]
         /\ \A j \in DOMAIN q : \E i \in DOMAIN Accepted(q, t) : Accepted(q, t)[i] = q[j]
         /\ \E i \in DOMAIN Accepted(q, t) : Accepted(q, t)[i] = t
<1> DEFINE u == Unreplaced(q, t)  r == Append(u, t)
<1>1. /\ Fit(u)
      /\ \A c \in BOOLEAN : Used(u, c) \in Nat /\ Used(q, c) \in Nat /\ Used(u, c) <= Used(q, c)
      /\ Opening(u) \in Nat /\ Opening(q) \in Nat /\ Opening(u) <= Opening(q)
      /\ \A i \in DOMAIN u : \E j \in DOMAIN q : u[i] = q[j]
      /\ \A j \in DOMAIN q : q[j] = t \/ \E i \in DOMAIN u : u[i] = q[j]
      /\ t = IntakeGap => \A i \in DOMAIN u : u[i] # IntakeGap
  BY UnreplacedFit, ZenonT(40)
<1>2. Accepted(q, t) = r
  BY DEF Accepted
<1> HIDE DEF u
<1>3. \A i \in DOMAIN u : ~(IsControl(t) /\ u[i].type = t.type /\ u[i].gen = t.gen)
  <2> SUFFICES ASSUME NEW i \in DOMAIN u, IsControl(t), u[i].type = t.type, u[i].gen = t.gen
               PROVE  FALSE
    OBVIOUS
  <2>1. CASE t.type \in OfWorker
    BY <1>1, <2>1, Zenon DEF NewTo
  <2>2. CASE t.type = "IntakeGap"
    BY <1>1, <2>2, Zenon DEF Plain, Fit
  <2> QED
    BY <2>1, <2>2 DEF IsControl, Control, OfWorker
<1>4. t.type = "SuggestionReady" =>
        \A i \in DOMAIN u : ~(u[i].type = "WorkFinished" /\ u[i].gen = t.gen)
  BY <1>1 DEF NewTo, OfWorker
<1>5. /\ Fit(r)
      /\ DOMAIN u \subseteq DOMAIN r
      /\ \A i \in DOMAIN u : r[i] = u[i]
      /\ \A i \in DOMAIN r : i \in DOMAIN u \/ r[i] = t
      /\ \E i \in DOMAIN r : r[i] = t
  BY <1>1, <1>3, <1>4, AppendFit, Zenon
<1>6. u \in Seq(Message)
  BY <1>1 DEF Fit
<1>7. /\ Used(r, IsControl(t)) = Used(u, IsControl(t)) + 1
      /\ \A c \in BOOLEAN : c # IsControl(t) => Used(r, c) = Used(u, c)
      /\ t.type \in SceneStarts => Opening(r) = Opening(u) + 1
      /\ t.type \notin SceneStarts => Opening(r) = Opening(u)
  BY <1>6, AppendCounts, Zenon
<1> HIDE DEF r
<1>8. \A c \in BOOLEAN : c # IsControl(t) => Used(r, c) <= Used(q, c)
  BY <1>1, <1>7, Zenon
<1>9. /\ Opening(r) \in Nat
      /\ t.type \in SceneStarts => Opening(r) <= Opening(q) + 1
      /\ t.type \notin SceneStarts => Opening(r) <= Opening(q)
  BY <1>1, <1>7
<1>10. /\ \A i \in DOMAIN r : r[i] = t \/ \E j \in DOMAIN q : r[i] = q[j]
       /\ \A j \in DOMAIN q : \E i \in DOMAIN r : r[i] = q[j]
  <2>1. ASSUME NEW i \in DOMAIN r
        PROVE  r[i] = t \/ \E j \in DOMAIN q : r[i] = q[j]
    <3>1. ASSUME i \in DOMAIN u
          PROVE  \E j \in DOMAIN q : r[i] = q[j]
      BY <1>1, <1>5, <3>1
    <3> QED
      BY <1>5, <3>1, Zenon
  <2>2. ASSUME NEW j \in DOMAIN q
        PROVE  \E i \in DOMAIN r : r[i] = q[j]
    <3>1. CASE q[j] = t
      BY <1>5, <3>1, Zenon
    <3>2. ASSUME NEW i \in DOMAIN u, u[i] = q[j]
          PROVE  \E k \in DOMAIN r : r[k] = q[j]
      BY <1>5, <3>2
    <3> QED
      BY <1>1, <3>1, <3>2, Zenon
  <2> QED
    BY <2>1, <2>2, Zenon
<1> QED
  BY <1>1, <1>2, <1>5, <1>7, <1>8, <1>9, <1>10, Zenon DEF u

\* Items of a kind of which each worker has at most one.
LEMMA OneEach ==
  ASSUME NEW q, NEW A, NEW W, IsFiniteSet(W), \A i \in A : q[i].gen \in W,
         \A i, j \in A : q[i].gen = q[j].gen => i = j
  PROVE  IsFiniteSet(A) /\ Cardinality(A) \in Nat /\ Cardinality(A) <= Cardinality(W)
<1> DEFINE g == [i \in A |-> q[i].gen]
<1>1. g \in Injection(A, W)
  BY DEF Injection, IsInjective
<1> QED
  BY <1>1, FS_Injection, FS_CardinalityType

\* A union has at most the members of both.
LEMMA EitherBound ==
  ASSUME NEW A, NEW B, IsFiniteSet(A), IsFiniteSet(B)
  PROVE  /\ IsFiniteSet(A \cup B) /\ Cardinality(A \cup B) \in Nat
         /\ Cardinality(A \cup B) <= Cardinality(A) + Cardinality(B)
<1>1. /\ Cardinality(A \cup B) = Cardinality(A) + Cardinality(B) - Cardinality(A \cap B)
      /\ IsFiniteSet(A \cup B)
  BY FS_Union
<1>2. IsFiniteSet(A \cap B)
  BY FS_Subset
<1>3. /\ Cardinality(A) \in Nat /\ Cardinality(B) \in Nat
      /\ Cardinality(A \cap B) \in Nat /\ Cardinality(A \cup B) \in Nat
  BY <1>1, <1>2, FS_CardinalityType
<1> QED
  BY <1>1, <1>3

\* At most two of each of w, and one more.
LEMMA WithinLimit ==
  ASSUME NEW w \in Nat, NEW max \in Nat, NEW limit \in Nat, NEW a \in Nat, NEW b \in Nat,
         NEW c \in Nat, NEW d \in Nat, NEW e \in Nat, NEW n \in Nat,
         w <= max, a <= w, b <= w, c <= 1, d <= a + b, e <= d + c, e = n + 1,
         limit > 2 * max
  PROVE  n < limit
OBVIOUS

\* Arithmetic of limits, for queues whose counters are named.
LEMMA OneWithin ==
  /\ \A n, limit \in Nat : n < limit => n + 1 <= limit
  /\ \A m, n, limit \in Nat : m <= n /\ n <= limit => m <= limit
OBVIOUS

\* There is room for a gap, and for a message of a worker, whatever is queued: two messages
\* of each worker and a gap are within the limit.
LEMMA RoomForControl ==
  ASSUME NEW q, Fit(q), NEW t \in Message, Plain(t), NewTo(q, t), IsControl(t),
         NEW W, IsFiniteSet(W), Cardinality(W) <= SceneWorkers,
         \A i \in DOMAIN q : q[i].type \in OfWorker => q[i].gen \in W,
         t.type \in OfWorker => t.gen \in W
  PROVE  HasRoom(q, t)
<1> DEFINE r == Accepted(q, t)
           F == {i \in DOMAIN r : r[i].type = "WorkFinished"}
           S == {i \in DOMAIN r : r[i].type = "SuggestionReady"}
           G == {i \in DOMAIN r : r[i].type = "IntakeGap"}
<1>1. /\ Fit(r)
      /\ Used(r, IsControl(t)) = Used(Unreplaced(q, t), IsControl(t)) + 1
      /\ \A i \in DOMAIN r : r[i] = t \/ \E j \in DOMAIN q : r[i] = q[j]
  BY AcceptedFit, Zenon
<1>2. IsControl(t) = TRUE
  BY DEF IsControl
<1>3. Used(Unreplaced(q, t), TRUE) \in Nat
  BY UnreplacedFit, Zenon
<1> HIDE DEF r
<1>4. \A i \in DOMAIN r : r[i].type \in OfWorker => r[i].gen \in W
  BY <1>1, Zenon
<1>5. \A i, j \in DOMAIN r : IsControl(r[i]) /\ r[i].type = r[j].type /\ r[i].gen = r[j].gen => i = j
  BY <1>1, Zenon DEF Fit, Distinct
<1>6. IsFiniteSet(F) /\ Cardinality(F) \in Nat /\ Cardinality(F) <= Cardinality(W)
  <2>1. \A i \in F : r[i].gen \in W
    BY <1>4 DEF OfWorker
  <2>2. \A i, j \in F : r[i].gen = r[j].gen => i = j
    BY <1>5 DEF IsControl, Control
  <2> HIDE DEF F
  <2> QED
    BY <2>1, <2>2, OneEach, Zenon
<1>7. IsFiniteSet(S) /\ Cardinality(S) \in Nat /\ Cardinality(S) <= Cardinality(W)
  <2>1. \A i \in S : r[i].gen \in W
    BY <1>4 DEF OfWorker
  <2>2. \A i, j \in S : r[i].gen = r[j].gen => i = j
    BY <1>5 DEF IsControl, Control
  <2> HIDE DEF S
  <2> QED
    BY <2>1, <2>2, OneEach, Zenon
<1>8. IsFiniteSet(G) /\ Cardinality(G) \in Nat /\ Cardinality(G) <= 1
  <2>1. \A i \in G : r[i].gen \in {IntakeGap.gen}
    BY <1>1, Zenon DEF Fit, Plain
  <2>2. \A i, j \in G : r[i].gen = r[j].gen => i = j
    BY <1>5 DEF IsControl, Control
  <2>3. IsFiniteSet({IntakeGap.gen}) /\ Cardinality({IntakeGap.gen}) = 1
    BY FS_Singleton
  <2> HIDE DEF G
  <2> QED
    BY <2>1, <2>2, <2>3, OneEach
<1>9. {i \in DOMAIN r : IsControl(r[i]) = TRUE} = (F \cup S) \cup G
  BY DEF IsControl, Control
<1>10. Cardinality(W) \in Nat /\ SceneWorkers \in Nat /\ ControlItems \in Nat
  BY RelicAssumption, FS_CardinalityType
<1> HIDE DEF F, S, G
<1>11. /\ IsFiniteSet(F \cup S) /\ Cardinality(F \cup S) \in Nat
       /\ Cardinality(F \cup S) <= Cardinality(F) + Cardinality(S)
  BY <1>6, <1>7, EitherBound, Zenon
<1>12. /\ Cardinality((F \cup S) \cup G) \in Nat
       /\ Cardinality((F \cup S) \cup G) <= Cardinality(F \cup S) + Cardinality(G)
  BY <1>8, <1>11, EitherBound, Zenon
<1>13. Used(r, TRUE) = Cardinality((F \cup S) \cup G)
  BY <1>9, Zenon DEF Used
<1>14. Used(r, TRUE) = Used(Unreplaced(q, t), TRUE) + 1
  BY <1>1, <1>2
<1>15. Used(Unreplaced(q, t), TRUE) < ControlItems
  <2>1. ControlItems > 2 * SceneWorkers
    BY RelicAssumption
  <2> QED
    BY <1>3, <1>6, <1>7, <1>8, <1>10, <1>11, <1>12, <1>13, <1>14, <2>1, WithinLimit, Zenon
<1> QED
  BY <1>2, <1>15, Zenon DEF HasRoom

\* What has become of the inbox q when t was sent: r is in order and within its limits, has
\* all that q had, and t or a gap or nothing besides.
Delivered(q, r, t) ==
  /\ Fit(r) /\ Bounded(r)
  /\ \A i \in DOMAIN r : r[i] \in {t, IntakeGap} \/ \E j \in DOMAIN q : r[i] = q[j]
  /\ \A j \in DOMAIN q : \E i \in DOMAIN r : r[i] = q[j]
  /\ Opening(r) \in Nat /\ Opening(q) \in Nat
  /\ Opening(r) <= Opening(q) + 1
  /\ t.type \notin SceneStarts => Opening(r) <= Opening(q)
  /\ HasRoom(q, t) => \E i \in DOMAIN r : r[i] = t
  /\ HasRoom(q, IntakeGap) => \E i \in DOMAIN r : r[i] \in {t, IntakeGap}

\* Whatever there is room for, sending keeps the inbox in order.
LEMMA SentFit ==
  ASSUME NEW q, Fit(q), Bounded(q), NEW t \in Message, Plain(t), NewTo(q, t)
  PROVE  Delivered(q, Sent(q, t), t)
<1>1. /\ \A c \in BOOLEAN : Used(q, c) \in Nat
      /\ \A u \in Message : \A c \in BOOLEAN : Used(Unreplaced(q, u), c) \in Nat
      /\ Opening(q) \in Nat /\ Opening(q) <= Opening(q) /\ Opening(q) <= Opening(q) + 1
  BY UnreplacedFit
<1>2. DataItems \in Nat /\ ControlItems \in Nat
  BY RelicAssumption
<1> TRUE \in BOOLEAN /\ FALSE \in BOOLEAN
  OBVIOUS
<1>3. ASSUME NEW u \in Message, Plain(u), NewTo(q, u), HasRoom(q, u)
      PROVE  /\ Fit(Accepted(q, u)) /\ Bounded(Accepted(q, u))
             /\ Opening(Accepted(q, u)) \in Nat
             /\ u.type \in SceneStarts => Opening(Accepted(q, u)) <= Opening(q) + 1
             /\ u.type \notin SceneStarts => Opening(Accepted(q, u)) <= Opening(q)
             /\ \A i \in DOMAIN Accepted(q, u) :
                  Accepted(q, u)[i] = u \/ \E j \in DOMAIN q : Accepted(q, u)[i] = q[j]
             /\ \A j \in DOMAIN q : \E i \in DOMAIN Accepted(q, u) : Accepted(q, u)[i] = q[j]
             /\ \E i \in DOMAIN Accepted(q, u) : Accepted(q, u)[i] = u
  <2> DEFINE r == Accepted(q, u)
  <2>1. /\ Fit(r)
        /\ Used(r, IsControl(u)) = Used(Unreplaced(q, u), IsControl(u)) + 1
        /\ \A c \in BOOLEAN : c # IsControl(u) => Used(r, c) <= Used(q, c)
        /\ Opening(r) \in Nat
        /\ u.type \in SceneStarts => Opening(r) <= Opening(q) + 1
        /\ u.type \notin SceneStarts => Opening(r) <= Opening(q)
        /\ \A i \in DOMAIN r : r[i] = u \/ \E j \in DOMAIN q : r[i] = q[j]
        /\ \A j \in DOMAIN q : \E i \in DOMAIN r : r[i] = q[j]
        /\ \E i \in DOMAIN r : r[i] = u
    BY <1>3, AcceptedFit, Zenon
  <2>2. /\ r \in Seq(Message)
        /\ \A c \in BOOLEAN : Used(r, c) \in Nat
    BY <2>1, AppendCounts, GapIsMessage, Zenon DEF Fit
  <2> HIDE DEF r
  <2>3. CASE IsControl(u) = TRUE
    <3>1. Used(Unreplaced(q, u), TRUE) < ControlItems
      BY <1>3, <2>3, Zenon DEF HasRoom
    <3>2. Used(r, TRUE) = Used(Unreplaced(q, u), TRUE) + 1 /\ Used(r, FALSE) <= Used(q, FALSE)
      BY <2>1, <2>3, Zenon
    <3>3. Used(Unreplaced(q, u), TRUE) \in Nat /\ Used(r, FALSE) \in Nat /\ Used(q, FALSE) \in Nat
      BY <1>1, <1>3, <2>2, Zenon
    <3>4. Used(q, FALSE) <= DataItems
      BY Zenon DEF Bounded
    <3>5. Used(r, TRUE) <= ControlItems /\ Used(r, FALSE) <= DataItems
      BY <1>2, <3>1, <3>2, <3>3, <3>4, OneWithin, Zenon
    <3> QED
      BY <2>1, <3>5, Zenon DEF Bounded, r
  <2>4. CASE IsControl(u) = FALSE
    <3>1. Used(Unreplaced(q, u), FALSE) < DataItems
      BY <1>3, <2>4, Zenon DEF HasRoom
    <3>2. Used(r, FALSE) = Used(Unreplaced(q, u), FALSE) + 1 /\ Used(r, TRUE) <= Used(q, TRUE)
      BY <2>1, <2>4, Zenon
    <3>3. Used(Unreplaced(q, u), FALSE) \in Nat /\ Used(r, TRUE) \in Nat /\ Used(q, TRUE) \in Nat
      BY <1>1, <1>3, <2>2, Zenon
    <3>4. Used(q, TRUE) <= ControlItems
      BY Zenon DEF Bounded
    <3>5. Used(r, FALSE) <= DataItems /\ Used(r, TRUE) <= ControlItems
      BY <1>2, <3>1, <3>2, <3>3, <3>4, OneWithin, Zenon
    <3> QED
      BY <2>1, <3>5, Zenon DEF Bounded, r
  <2>5. IsControl(u) \in BOOLEAN
    BY DEF IsControl
  <2> QED
    BY <2>3, <2>4, <2>5
<1>4. CASE HasRoom(q, t)
  <2>1. Sent(q, t) = Accepted(q, t)
    BY <1>4, Zenon DEF Sent
  <2> DEFINE r == Accepted(q, t)
  <2>2. /\ Fit(r) /\ Bounded(r) /\ Opening(r) \in Nat
        /\ t.type \in SceneStarts => Opening(r) <= Opening(q) + 1
        /\ t.type \notin SceneStarts => Opening(r) <= Opening(q)
        /\ \A i \in DOMAIN r : r[i] = t \/ \E j \in DOMAIN q : r[i] = q[j]
        /\ \A j \in DOMAIN q : \E i \in DOMAIN r : r[i] = q[j]
        /\ \E i \in DOMAIN r : r[i] = t
    BY <1>3, <1>4, Zenon
  <2> HIDE DEF r
  <2>3. Opening(r) <= Opening(q) + 1
    BY <1>1, <2>2
  <2> QED
    BY <1>1, <1>4, <2>1, <2>2, <2>3, Zenon DEF Delivered, r
<1>5. CASE ~HasRoom(q, t) /\ HasRoom(q, IntakeGap)
  <2>1. Sent(q, t) = Accepted(q, IntakeGap)
    BY <1>5, Zenon DEF Sent
  <2> DEFINE r == Accepted(q, IntakeGap)
  <2>2. /\ IntakeGap \in Message /\ Plain(IntakeGap) /\ NewTo(q, IntakeGap)
        /\ IntakeGap.type \notin SceneStarts
    BY GapIsMessage DEF NewTo, OfWorker, SceneStarts
  <2>3. /\ Fit(r) /\ Bounded(r) /\ Opening(r) \in Nat /\ Opening(r) <= Opening(q)
        /\ \A i \in DOMAIN r : r[i] = IntakeGap \/ \E j \in DOMAIN q : r[i] = q[j]
        /\ \A j \in DOMAIN q : \E i \in DOMAIN r : r[i] = q[j]
        /\ \E i \in DOMAIN r : r[i] = IntakeGap
    BY <1>3, <1>5, <2>2, Zenon
  <2> HIDE DEF r
  <2>4. Opening(r) <= Opening(q) + 1
    BY <1>1, <2>3
  <2> QED
    BY <1>1, <1>5, <2>1, <2>3, <2>4, Zenon DEF Delivered, r
<1>6. CASE ~HasRoom(q, t) /\ ~HasRoom(q, IntakeGap)
  <2>1. Sent(q, t) = q
    BY <1>6, Zenon DEF Sent
  <2> QED
    BY <1>1, <1>6, <2>1, Zenon DEF Delivered
<1> QED
  BY <1>4, <1>5, <1>6

(***************************************************************************)
(* The coordinator.                                                        *)
(***************************************************************************)
Iteration == [o : Owner, c : Contexts, u : Seq(UiEvent), continue : BOOLEAN]

\* The era that r knows is the one s knew or none, or that of t, whose context is current.
EraFrom(s, r, t) ==
  r.o.lastEra \notin {0, s.o.lastEra} =>
    /\ t.type \in OfWorker /\ t.era
    /\ r.o.lastEra = t.gen /\ CurrentIn(s.c, t.gen)

\* What r leaves alone of s.
SameContexts(s, r) ==
  \A g \in Gen : g <= s.o.generation =>
    r.c[g].kind = s.c[g].kind /\ r.c[g].session = s.c[g].session

\* The state s of an iteration becomes r by t.
Follows(s, r, t) ==
  /\ Orderly(r.o, r.c) /\ Events(r.u) /\ r.continue \in BOOLEAN
  /\ \/ r.o.generation = s.o.generation
     \/ r.o.generation = s.o.generation + 1 /\ t.type \in SceneStarts
  /\ SameContexts(s, r)
  /\ r.o.pending \in {0, s.o.pending} \/ r.o.pending > s.o.generation
  /\ EraFrom(s, r, t)
  /\ t.type \in {"GameStopped", "IntakeGap"} => r.o.lastEra = 0

\* The constants, and the generations that name a context.
LEMMA Constants ==
  /\ MaxGen \in Nat \ {0} /\ MaxSession \in Nat \ {0} /\ UiItems \in Nat \ {0}
  /\ SceneWorkers \in Nat \ {0}
  /\ \A g \in Gen : g \in 0..MaxGen /\ g # 0
  /\ \A g \in 0..MaxGen : g # 0 => g \in Gen
BY RelicAssumption DEF Gen

\* The channel to the overlay stays within its limit: what does not fit is dropped.
LEMMA ToldEvents ==
  ASSUME NEW u, Events(u), NEW e \in UiEvent,
         e.type \in {"RelicStart", "RelicScene"} => e.gen # 0
  PROVE  Events(TellOverlay(u, e))
<1>1. u \in Seq(UiEvent) /\ Len(u) \in Nat /\ DOMAIN u = 1..Len(u)
  BY LenProperties DEF Events
<1>2. CASE Len(u) < UiItems
  <2> DEFINE r == Append(u, e)  n == Len(u)
  <2>1. /\ r \in Seq(UiEvent) /\ Len(r) = n + 1 /\ DOMAIN r = 1..n + 1
        /\ \A i \in 1..n : r[i] = u[i]
        /\ r[n + 1] = e
    BY <1>1, AppendProperties, LenProperties
  <2>2. TellOverlay(u, e) = r
    BY <1>2, Zenon DEF TellOverlay
  <2> HIDE DEF r
  <2>3. Len(r) <= UiItems
    BY <1>1, <1>2, <2>1, Constants
  <2>4. \A i \in 1..n + 1 : i \in 1..n \/ i = n + 1
    BY <1>1
  <2> HIDE DEF n
  <2>5. ASSUME NEW i \in DOMAIN r, r[i].type \in {"RelicStart", "RelicScene"}
        PROVE  r[i].gen # 0
    <3>1. CASE i \in 1..n
      BY <1>1, <2>1, <2>5, <3>1, Zenon DEF Events, n
    <3>2. CASE i = n + 1
      BY <2>1, <2>5, <3>2, Zenon
    <3> QED
      BY <2>1, <2>4, <3>1, <3>2, Zenon
  <2> QED
    BY <2>1, <2>2, <2>3, <2>5, Zenon DEF Events
<1>3. CASE ~(Len(u) < UiItems)
  BY <1>3, Zenon DEF TellOverlay
<1> QED
  BY <1>2, <1>3, Zenon

\* The events that are sent to the overlay.
LEMMA EventTyped ==
  /\ Dismiss \in UiEvent /\ Dismiss.type = "RelicDismiss"
  /\ \A g \in Gen : LET e == Event("RelicStart", g, "none") IN e \in UiEvent /\ e.gen = g
  /\ \A g \in Gen, scene \in Scenes :
       LET e == Event("RelicScene", g, scene) IN e \in UiEvent /\ e.gen = g
  /\ LET e == Event("InteractionToggle", 0, "none")
     IN  e \in UiEvent /\ e.type = "InteractionToggle"
BY Constants DEF Dismiss, Event, UiEvent, Scenes

\* A coordinator that has forgotten its scenes.
LEMMA FreshTyped ==
  ASSUME NEW g \in 0..MaxGen
  PROVE  /\ Fresh(g) \in Owner /\ Fresh(g).generation = g /\ Fresh(g).current = 0
         /\ Fresh(g).pending = 0 /\ Fresh(g).lastEra = 0 /\ Fresh(g).armed = FALSE
BY Constants DEF Fresh, Owner

\* Cancelling a context leaves its kind and its session.
LEMMA CancelledContexts ==
  ASSUME NEW c \in Contexts, NEW g \in 0..MaxGen
  PROVE  /\ Cancelled(c, g) \in Contexts
         /\ \A h \in Gen : /\ Cancelled(c, g)[h].kind = c[h].kind
                           /\ Cancelled(c, g)[h].session = c[h].session
                           /\ Cancelled(c, g)[h].expired = c[h].expired
                           /\ (Cancelled(c, g)[h].cancelled <=> c[h].cancelled \/ h = g)
<1>1. CASE g = 0
  BY <1>1, Constants DEF Cancelled, Contexts, Context
<1>2. CASE g # 0
  <2>1. g \in Gen
    BY <1>2, Constants
  <2>2. Cancelled(c, g) = [c EXCEPT ![g] = [c[g] EXCEPT !.cancelled = TRUE]]
    BY <1>2 DEF Cancelled
  <2>3. c[g] \in Context
    BY <2>1 DEF Contexts
  <2>4. /\ [c[g] EXCEPT !.cancelled = TRUE] \in Context
        /\ [c[g] EXCEPT !.cancelled = TRUE].kind = c[g].kind
        /\ [c[g] EXCEPT !.cancelled = TRUE].session = c[g].session
        /\ [c[g] EXCEPT !.cancelled = TRUE].expired = c[g].expired
        /\ [c[g] EXCEPT !.cancelled = TRUE].cancelled = TRUE
    BY <2>3 DEF Context
  <2> DEFINE k == [c[g] EXCEPT !.cancelled = TRUE]
  <2> HIDE DEF k
  <2>5. Cancelled(c, g) \in Contexts
    BY <2>1, <2>2, <2>4 DEF Contexts, k
  <2>6. ASSUME NEW h \in Gen
        PROVE  /\ Cancelled(c, g)[h].kind = c[h].kind
               /\ Cancelled(c, g)[h].session = c[h].session
               /\ Cancelled(c, g)[h].expired = c[h].expired
               /\ (Cancelled(c, g)[h].cancelled <=> c[h].cancelled \/ h = g)
    <3>1. CASE h = g
      BY <2>1, <2>2, <2>4, <3>1 DEF Contexts
    <3>2. CASE h # g
      <4>1. Cancelled(c, g)[h] = c[h]
        BY <2>1, <2>2, <3>2 DEF Contexts
      <4>2. c[h].cancelled \in BOOLEAN
        BY DEF Contexts, Context
      <4> QED
        BY <3>2, <4>1, <4>2, Zenon
    <3> QED
      BY <3>1, <3>2
  <2> QED
    BY <2>5, <2>6
<1> QED
  BY <1>1, <1>2

\* Lifecycle::cancel leaves no context open.
LEMMA CancelOrderly ==
  ASSUME NEW s \in Iteration, Orderly(s.o, s.c)
  PROVE  /\ CancelCurrent(s) \in Iteration
         /\ CancelCurrent(s).o = [s.o EXCEPT !.current = 0]
         /\ CancelCurrent(s).o \in Owner
         /\ CancelCurrent(s).c \in Contexts
         /\ CancelCurrent(s).u = s.u /\ CancelCurrent(s).continue = s.continue
         /\ SameContexts(s, CancelCurrent(s))
         /\ \A g \in Gen : /\ CancelCurrent(s).c[g].cancelled
                           /\ CancelCurrent(s).c[g].kind = s.c[g].kind
                           /\ CancelCurrent(s).c[g].session = s.c[g].session
<1> DEFINE c == Cancelled(s.c, s.o.current)  o == [s.o EXCEPT !.current = 0]
<1>1. s.o \in Owner /\ s.c \in Contexts /\ s.o.current \in 0..MaxGen
  BY DEF Orderly, Owner
<1>2. /\ c \in Contexts
      /\ \A h \in Gen : /\ c[h].kind = s.c[h].kind /\ c[h].session = s.c[h].session
                        /\ (c[h].cancelled <=> s.c[h].cancelled \/ h = s.o.current)
  BY <1>1, CancelledContexts, Zenon
<1>3. o \in Owner
  BY <1>1, Constants DEF Owner
<1> HIDE DEF c, o
<1>4. CancelCurrent(s) = [s EXCEPT !.c = c, !.o = o]
  BY DEF CancelCurrent, Iteration, c, o
<1>5. /\ CancelCurrent(s) \in Iteration
      /\ CancelCurrent(s).o = o /\ CancelCurrent(s).c = c
      /\ CancelCurrent(s).u = s.u /\ CancelCurrent(s).continue = s.continue
  BY <1>2, <1>3, <1>4 DEF Iteration
<1>6. \A g \in Gen : c[g].cancelled
  BY <1>2 DEF Orderly
<1> QED
  BY <1>2, <1>3, <1>5, <1>6, Zenon DEF SameContexts, o

\* A state an iteration may be in.
Ready(s) == s \in Iteration /\ Orderly(s.o, s.c) /\ Events(s.u)

Forgets(t) == t.type \in {"GameStopped", "IntakeGap"}

\* A state like s, but for what the coordinator remembers of its scenes.
LEMMA KeepsFollows ==
  ASSUME NEW s, Ready(s), NEW r \in Iteration, NEW t, ~Forgets(t),
         r.c = s.c, r.u = s.u,
         r.o.generation = s.o.generation, r.o.current = s.o.current,
         r.o.pending = s.o.pending, r.o.lastEra = s.o.lastEra
  PROVE  Follows(s, r, t)
<1>1. r.o \in Owner /\ r.continue \in BOOLEAN
  BY DEF Iteration
<1>2. Orderly(r.o, r.c) /\ Events(r.u)
  BY <1>1 DEF Ready, Orderly
<1> QED
  BY <1>1, <1>2 DEF Follows, SameContexts, EraFrom, Forgets

\* A state in which every context of s is cancelled.
LEMMA EndsFollows ==
  ASSUME NEW s, Ready(s), NEW r, NEW t, r.continue \in BOOLEAN,
         r.o \in Owner, r.o.generation = s.o.generation,
         r.o.pending \in {0, s.o.pending}, r.o.lastEra \in {0, s.o.lastEra},
         Forgets(t) => r.o.lastEra = 0,
         r.c = CancelCurrent(s).c, Events(r.u)
  PROVE  Follows(s, r, t)
<1>1. /\ r.c \in Contexts
      /\ \A g \in Gen : r.c[g].cancelled /\ r.c[g].kind = s.c[g].kind
                        /\ r.c[g].session = s.c[g].session
  BY CancelOrderly, ZenonT(40) DEF Ready
<1>2. SameContexts(s, r)
  BY <1>1, Zenon DEF SameContexts
<1>3. s.o \in Owner /\ s.o.generation \in Nat
  BY DEF Ready, Orderly, Owner
<1>4. r.o.pending <= r.o.generation /\ r.o.lastEra <= r.o.generation
  BY <1>3 DEF Ready, Orderly
<1>5. Orderly(r.o, r.c)
  BY <1>1, <1>4 DEF Orderly, Ready
<1> QED
  BY <1>2, <1>5 DEF Follows, EraFrom, Forgets

\* A trigger that is ignored.
LEMMA SkipFollows ==
  ASSUME NEW s, Ready(s), NEW t, ~Forgets(t)
  PROVE  Follows(s, Skip(s), t)
<1>1. /\ Skip(s) \in Iteration /\ Skip(s).o = s.o /\ Skip(s).c = s.c /\ Skip(s).u = s.u
  BY DEF Skip, Ready, Iteration
<1> QED
  BY <1>1, KeepsFollows

\* A reset forgets all but the number of contexts.
LEMMA ResetFollows ==
  ASSUME NEW s, Ready(s), NEW t
  PROVE  Follows(s, Reset(s), t)
<1> DEFINE k == CancelCurrent(s)  r == Reset(s)
<1>1. k \in Iteration /\ k.u = s.u
  BY CancelOrderly DEF Ready
<1>2. s.o.generation \in 0..MaxGen
  BY DEF Ready, Iteration, Owner
<1>3. Events(TellOverlay(s.u, Dismiss))
  BY ToldEvents, EventTyped DEF Ready
<1>4. r = [k EXCEPT !.o = Fresh(s.o.generation), !.u = TellOverlay(k.u, Dismiss)]
  BY <1>1 DEF Reset, Iteration
<1> HIDE DEF k, r
<1>5. /\ r.o = Fresh(s.o.generation) /\ r.c = k.c /\ r.u = TellOverlay(s.u, Dismiss)
      /\ r.continue \in BOOLEAN
  BY <1>1, <1>4 DEF Iteration
<1>6. r.o \in Owner /\ r.o.generation = s.o.generation /\ r.o.pending = 0 /\ r.o.lastEra = 0
  BY <1>2, <1>5, FreshTyped
<1> QED
  BY <1>3, <1>5, <1>6, EndsFollows DEF k, r

\* Lifecycle::close.
LEMMA ClosedFollows ==
  ASSUME NEW s, Ready(s), NEW t, ~Forgets(t), NEW guarded
  PROVE  Follows(s, ClosedScene(s, guarded), t)
<1> DEFINE k == CancelCurrent(s)  r == ClosedScene(s, guarded)
<1>1. CASE ~s.o.suggesting \/ (s.o.opened /\ guarded)
  <2>1. r = s
    BY <1>1 DEF ClosedScene
  <2> QED
    BY <2>1, KeepsFollows DEF Ready
<1>2. CASE ~(~s.o.suggesting \/ (s.o.opened /\ guarded))
  <2>1. k \in Iteration /\ k.u = s.u /\ k.o = [s.o EXCEPT !.current = 0] /\ k.o \in Owner
    BY CancelOrderly DEF Ready
  <2> DEFINE o == [k.o EXCEPT !.opened = FALSE, !.dismissed = FALSE, !.lastSuggestion = FALSE,
                              !.suggesting = FALSE, !.pending = 0]
  <2>2. s.o \in Owner
    BY DEF Ready, Iteration
  <2>3. /\ o \in Owner /\ o.generation = s.o.generation /\ o.pending = 0
        /\ o.lastEra = s.o.lastEra
    BY <2>1, <2>2, Constants DEF Owner
  <2>4. r = [k EXCEPT !.o = o, !.u = TellOverlay(k.u, Dismiss)]
    BY <1>2, <2>1 DEF ClosedScene, Iteration
  <2>5. Events(TellOverlay(s.u, Dismiss))
    BY ToldEvents, EventTyped DEF Ready
  <2> HIDE DEF k, r, o
  <2>6. r.o = o /\ r.c = k.c /\ r.u = TellOverlay(s.u, Dismiss) /\ r.continue \in BOOLEAN
    BY <2>1, <2>4 DEF Iteration
  <2> QED
    BY <2>3, <2>5, <2>6, EndsFollows DEF k, r
<1> QED
  BY <1>1, <1>2

\* The dismissal of the suggestions on the screen.
LEMMA DismissedFollows ==
  ASSUME NEW s, Ready(s), NEW t, ~Forgets(t), NEW g
  PROVE  Follows(s, Dismissed(s, g), t)
<1> DEFINE k == CancelCurrent(s)  r == Dismissed(s, g)
<1>1. CASE ~s.o.suggesting \/ s.o.current # g
  BY <1>1, SkipFollows DEF Dismissed
<1>2. CASE ~(~s.o.suggesting \/ s.o.current # g)
  <2>1. k \in Iteration /\ k.u = s.u /\ k.o = [s.o EXCEPT !.current = 0] /\ k.o \in Owner
    BY CancelOrderly DEF Ready
  <2> DEFINE o == [k.o EXCEPT !.dismissed = TRUE, !.opened = FALSE, !.pending = 0]
  <2>2. s.o \in Owner
    BY DEF Ready, Iteration
  <2>3. /\ o \in Owner /\ o.generation = s.o.generation /\ o.pending = 0
        /\ o.lastEra = s.o.lastEra
    BY <2>1, <2>2, Constants DEF Owner
  <2>4. r = [k EXCEPT !.o = o, !.u = TellOverlay(k.u, Dismiss)]
    BY <1>2, <2>1 DEF Dismissed, Iteration
  <2>5. Events(TellOverlay(s.u, Dismiss))
    BY ToldEvents, EventTyped DEF Ready
  <2> HIDE DEF k, r, o
  <2>6. r.o = o /\ r.c = k.c /\ r.u = TellOverlay(s.u, Dismiss) /\ r.continue \in BOOLEAN
    BY <2>1, <2>4 DEF Iteration
  <2> QED
    BY <2>3, <2>5, <2>6, EndsFollows DEF k, r
<1> QED
  BY <1>1, <1>2

\* A worker's message changes what is known of the era only if its context is current.
LEMMA CompletedFollows ==
  ASSUME NEW s, Ready(s), NEW t \in Message, t.type \in OfWorker, t.gen \in Gen,
         t.gen <= s.o.generation
  PROVE  Follows(s, Completed(s, t), t)
<1> DEFINE r == Completed(s, t)
<1>1. ~Forgets(t)
  BY DEF Forgets, OfWorker
<1>2. CASE s.o.current # t.gen \/ ~CurrentIn(s.c, t.gen)
  <2>1. r = s
    BY <1>2 DEF Completed
  <2> QED
    BY <1>1, <2>1, KeepsFollows DEF Ready
<1>3. CASE ~(s.o.current # t.gen \/ ~CurrentIn(s.c, t.gen))
  <2> DEFINE era == IF t.era THEN t.gen ELSE s.o.lastEra
             reward == s.o.lastReward /\ ~t.failed
             o == [s.o EXCEPT !.lastEra = era, !.lastReward = reward]
  <2>1. s \in Iteration /\ s.o \in Owner /\ Orderly(s.o, s.c)
    BY DEF Ready, Iteration
  <2>2. era \in 0..MaxGen /\ era <= s.o.generation /\ t.era \in BOOLEAN
    BY <2>1, Constants DEF Owner, Message, Orderly
  <2>3. reward \in BOOLEAN
    OBVIOUS
  <2>4. r = [s EXCEPT !.o = o]
    BY <1>3, <2>1 DEF Completed, Iteration
  <2>5. era \notin {0, s.o.lastEra} => t.era /\ era = t.gen
    OBVIOUS
  <2> HIDE DEF era, reward, r
  <2>6. /\ o \in Owner /\ o.generation = s.o.generation /\ o.pending = s.o.pending
        /\ o.current = s.o.current /\ o.lastEra = era
    BY <2>1, <2>2, <2>3 DEF Owner
  <2> HIDE DEF o
  <2>7. r.o = o /\ r.c = s.c /\ r.u = s.u /\ r.continue \in BOOLEAN
    BY <2>1, <2>4 DEF Iteration
  <2>8. Orderly(r.o, r.c)
    BY <2>1, <2>2, <2>6, <2>7 DEF Orderly
  <2>9. EraFrom(s, r, t)
    BY <1>3, <2>5, <2>6, <2>7, Zenon DEF EraFrom
  <2>10. Follows(s, r, t)
    BY <1>1, <2>6, <2>7, <2>8, <2>9 DEF Follows, Ready, SameContexts, Forgets
  <2> QED
    BY <2>10 DEF r
<1> QED
  BY <1>2, <1>3

\* A new context takes the place of the one before it.
LEMMA StartedFollows ==
  ASSUME NEW s, Ready(s), NEW t \in Message, t.type \in SceneStarts, NEW era \in 0..MaxGen,
         s.o.generation < MaxGen, t.type = "Suggestions" => t.session # 0
  PROVE  Follows(s, Started(s, t, era), t)
<1> DEFINE g == s.o.generation + 1
           k == CancelCurrent(s).c
           new == [NoContext EXCEPT !.kind = t.type, !.session = t.session, !.era = era,
                                    !.cancelled = FALSE]
           c == [k EXCEPT ![g] = new]
           o == [s.o EXCEPT !.generation = g, !.current = g, !.pending = g]
           u == TellOverlay(s.u, Event("RelicStart", g, "none"))
           r == Started(s, t, era)
<1>1. s \in Iteration /\ s.o \in Owner /\ s.o.generation \in Nat /\ Orderly(s.o, s.c)
  BY DEF Ready, Iteration, Owner
<1>2. g \in Gen /\ g \in 0..MaxGen /\ g = s.o.generation + 1
  BY <1>1, Constants DEF Gen
<1>3. /\ k \in Contexts
      /\ \A h \in Gen : k[h].cancelled /\ k[h].kind = s.c[h].kind /\ k[h].session = s.c[h].session
  BY CancelOrderly, Zenon DEF Ready
<1>4. new \in Context /\ new.kind = t.type /\ new.session = t.session /\ new.cancelled = FALSE
  BY DEF NoContext, Context, Message, SceneStarts
<1>5. r = [s EXCEPT !.c = c, !.o = o, !.u = u]
  BY <1>1 DEF Started, Iteration
<1>6. Events(u)
  BY <1>2, ToldEvents, EventTyped, Constants DEF Ready
<1> HIDE DEF g, k, new, r, u
<1>7. /\ c \in Contexts /\ c[g] = new /\ \A h \in Gen : h # g => c[h] = k[h]
  BY <1>2, <1>3, <1>4 DEF Contexts
<1>8. o \in Owner /\ o.generation = g /\ o.current = g /\ o.pending = g /\ o.lastEra = s.o.lastEra
  BY <1>1, <1>2 DEF Owner
<1> HIDE DEF c, o
<1>9. r.c = c /\ r.o = o /\ r.u = u /\ r.continue \in BOOLEAN
  BY <1>1, <1>5 DEF Iteration
<1>10. \A h \in Gen : ~c[h].cancelled => o.current = h
  BY <1>3, <1>7, <1>8
<1>11. \A h \in Gen : c[h].kind = "Suggestions" => c[h].session # 0
  BY <1>1, <1>3, <1>4, <1>7 DEF Orderly
<1>12. o.pending <= o.generation /\ o.lastEra <= o.generation
  BY <1>1, <1>2, <1>8 DEF Orderly, Owner
<1>13. Orderly(r.o, r.c)
  BY <1>7, <1>8, <1>9, <1>10, <1>11, <1>12, Zenon DEF Orderly
<1>14. SameContexts(s, r)
  <2> SUFFICES ASSUME NEW h \in Gen, h <= s.o.generation
               PROVE  c[h].kind = s.c[h].kind /\ c[h].session = s.c[h].session
    BY <1>9, Zenon DEF SameContexts
  <2>1. h # g
    BY <1>1, <1>2, Constants DEF Gen
  <2> QED
    BY <1>3, <1>7, <2>1, Zenon
<1>15. r.o.pending > s.o.generation
  BY <1>1, <1>2, <1>8, <1>9
<1>16. EraFrom(s, r, t)
  BY <1>8, <1>9, Zenon DEF EraFrom
<1>17. r.o.generation = s.o.generation + 1
  BY <1>2, <1>8, <1>9
<1>18. ~Forgets(t)
  BY DEF Forgets, SceneStarts
<1>19. Follows(s, r, t)
  BY <1>6, <1>9, <1>13, <1>14, <1>15, <1>16, <1>17, <1>18, Zenon DEF Follows, Forgets
<1> QED
  BY <1>19 DEF r

\* What the flags of the coordinator are makes no difference.
LEMMA FlagsFollow ==
  ASSUME NEW s, Ready(s), NEW b, b \in Iteration, b.c = s.c, b.u = s.u,
         b.o.generation = s.o.generation, b.o.current = s.o.current,
         b.o.pending = s.o.pending, b.o.lastEra = s.o.lastEra
  PROVE  Ready(b) /\ \A r, t : Follows(b, r, t) => Follows(s, r, t)
<1>1. Ready(b)
  BY DEF Ready, Orderly, Iteration
<1>2. ASSUME NEW r, NEW t, Follows(b, r, t)
      PROVE  Follows(s, r, t)
  BY <1>2 DEF Follows, SameContexts, EraFrom
<1> QED
  BY <1>1, <1>2

\* A suggestion is ignored or opens a context.
LEMMA SuggestedFollows ==
  ASSUME NEW s, Ready(s), NEW t \in Message, t.type = "Suggestions", t.session # 0,
         s.o.generation < MaxGen, NEW recent, NEW afterReward
  PROVE  Follows(s, Suggested(s, t, recent, afterReward), t)
<1>1. CASE s.o.dismissed \/ (s.o.lastSuggestion /\ recent)
  BY <1>1, SkipFollows DEF Suggested, Forgets
<1>2. CASE ~(s.o.dismissed \/ (s.o.lastSuggestion /\ recent))
  <2> DEFINE o == [s.o EXCEPT !.lastSuggestion = TRUE, !.opened = TRUE, !.suggesting = TRUE]
             b == [s EXCEPT !.o = o]
             era == IF s.o.lastReward /\ afterReward THEN s.o.lastEra ELSE 0
  <2>1. s \in Iteration /\ s.o \in Owner
    BY DEF Ready, Iteration
  <2>2. /\ o \in Owner /\ o.generation = s.o.generation /\ o.current = s.o.current
        /\ o.pending = s.o.pending /\ o.lastEra = s.o.lastEra
    BY <2>1 DEF Owner
  <2>3. era \in 0..MaxGen
    BY <2>1, Constants DEF Owner
  <2>4. Suggested(s, t, recent, afterReward) = Started(b, t, era)
    BY <1>2, <2>1 DEF Suggested, Iteration
  <2> HIDE DEF o, era
  <2>5. b \in Iteration /\ b.o = o /\ b.c = s.c /\ b.u = s.u
    BY <2>1, <2>2 DEF Iteration
  <2> HIDE DEF b
  <2>6. Ready(b) /\ \A r : Follows(b, r, t) => Follows(s, r, t)
    BY <2>2, <2>5, FlagsFollow
  <2>7. Follows(b, Started(b, t, era), t)
    BY <2>2, <2>3, <2>5, <2>6, StartedFollows DEF SceneStarts
  <2> QED
    BY <2>4, <2>6, <2>7
<1> QED
  BY <1>1, <1>2

\* Rewards are ignored or open a context.
LEMMA RewardedFollows ==
  ASSUME NEW s, Ready(s), NEW t \in Message, t.type = "Rewards",
         s.o.generation < MaxGen, NEW recent
  PROVE  Follows(s, Rewarded(s, t, recent), t)
<1>1. CASE s.o.lastReward /\ recent
  BY <1>1, SkipFollows DEF Rewarded, Forgets
<1>2. CASE ~(s.o.lastReward /\ recent)
  <2> DEFINE o == [s.o EXCEPT !.lastReward = TRUE, !.dismissed = FALSE, !.opened = FALSE,
                              !.suggesting = FALSE, !.armed = FALSE]
             b == [s EXCEPT !.o = o]
  <2>1. s \in Iteration /\ s.o \in Owner
    BY DEF Ready, Iteration
  <2>2. /\ o \in Owner /\ o.generation = s.o.generation /\ o.current = s.o.current
        /\ o.pending = s.o.pending /\ o.lastEra = s.o.lastEra
    BY <2>1 DEF Owner
  <2>3. Rewarded(s, t, recent) = Started(b, t, 0)
    BY <1>2, <2>1 DEF Rewarded, Iteration
  <2> HIDE DEF o
  <2>4. b \in Iteration /\ b.o = o /\ b.c = s.c /\ b.u = s.u
    BY <2>1, <2>2 DEF Iteration
  <2> HIDE DEF b
  <2>5. Ready(b) /\ \A r : Follows(b, r, t) => Follows(s, r, t)
    BY <2>2, <2>4, FlagsFollow
  <2>6. Follows(b, Started(b, t, 0), t)
    BY <2>2, <2>4, <2>5, Constants, StartedFollows DEF SceneStarts
  <2> QED
    BY <2>3, <2>5, <2>6
<1> QED
  BY <1>1, <1>2

\* A saved image opens a context.
LEMMA PhotographedFollows ==
  ASSUME NEW s, Ready(s), NEW t \in Message, t.type = "Screenshot", s.o.generation < MaxGen
  PROVE  Follows(s, Started([s EXCEPT !.o.suggesting = FALSE], t, 0), t)
<1> DEFINE o == [s.o EXCEPT !.suggesting = FALSE]  b == [s EXCEPT !.o.suggesting = FALSE]
<1>1. s \in Iteration /\ s.o \in Owner
  BY DEF Ready, Iteration
<1>2. /\ o \in Owner /\ o.generation = s.o.generation /\ o.current = s.o.current
      /\ o.pending = s.o.pending /\ o.lastEra = s.o.lastEra
  BY <1>1 DEF Owner
<1>3. b = [s EXCEPT !.o = o]
  BY <1>1 DEF Iteration
<1> HIDE DEF o, b
<1>4. b \in Iteration /\ b.o = o /\ b.c = s.c /\ b.u = s.u
  BY <1>1, <1>2, <1>3 DEF Iteration
<1>5. Ready(b) /\ \A r : Follows(b, r, t) => Follows(s, r, t)
  BY <1>2, <1>4, FlagsFollow
<1>6. Follows(b, Started(b, t, 0), t)
  BY <1>2, <1>4, <1>5, Constants, StartedFollows DEF SceneStarts
<1> QED
  BY <1>5, <1>6 DEF b

\* A capture is armed or given up.
LEMMA ArmedFollows ==
  ASSUME NEW s, Ready(s), NEW t, ~Forgets(t), NEW b \in BOOLEAN
  PROVE  Follows(s, [s EXCEPT !.o.armed = b], t)
<1> DEFINE o == [s.o EXCEPT !.armed = b]  r == [s EXCEPT !.o.armed = b]
<1>1. s \in Iteration /\ s.o \in Owner
  BY DEF Ready, Iteration
<1>2. /\ o \in Owner /\ o.generation = s.o.generation /\ o.current = s.o.current
      /\ o.pending = s.o.pending /\ o.lastEra = s.o.lastEra
  BY <1>1 DEF Owner
<1>3. r = [s EXCEPT !.o = o]
  BY <1>1 DEF Iteration
<1> HIDE DEF o, r
<1>4. r \in Iteration /\ r.o = o /\ r.c = s.c /\ r.u = s.u
  BY <1>1, <1>2, <1>3 DEF Iteration
<1>5. Follows(s, r, t)
  BY <1>2, <1>4, KeepsFollows
<1> QED
  BY <1>5 DEF r

\* Whatever the trigger, the coordinator stays in order.
LEMMA HandledFollows ==
  ASSUME NEW s, Ready(s), NEW t \in Message, Plain(t),
         t.type \in SceneStarts => s.o.generation < MaxGen,
         t.type \in OfWorker => t.gen \in Gen /\ t.gen <= s.o.generation,
         NEW recent, NEW afterReward
  PROVE  Follows(s, Handled(s, t, recent, afterReward), t)
<1> DEFINE r == Handled(s, t, recent, afterReward)
<1>1. CASE t.type = "ArmCapture"
  <2>1. r = [s EXCEPT !.o.armed = TRUE]
    BY <1>1 DEF Handled
  <2>2. ~Forgets(t) /\ TRUE \in BOOLEAN
    BY <1>1 DEF Forgets
  <2>3. Follows(s, [s EXCEPT !.o.armed = TRUE], t)
    BY <2>2, ArmedFollows, Zenon
  <2> QED
    BY <2>1, <2>3, Zenon
<1>2. CASE t.type = "CancelCapture"
  <2>1. r = [s EXCEPT !.o.armed = FALSE]
    BY <1>2 DEF Handled
  <2>2. ~Forgets(t) /\ FALSE \in BOOLEAN
    BY <1>2 DEF Forgets
  <2>3. Follows(s, [s EXCEPT !.o.armed = FALSE], t)
    BY <2>2, ArmedFollows, Zenon
  <2> QED
    BY <2>1, <2>3, Zenon
<1>3. CASE t.type \in {"GameStopped", "IntakeGap"}
  <2>1. r = Reset(s)
    BY <1>3 DEF Handled
  <2> QED
    BY <2>1, ResetFollows
<1>4. CASE t.type = "CloseSuggestions"
  <2>1. r = ClosedScene(s, recent)
    BY <1>4 DEF Handled
  <2> QED
    BY <1>4, <2>1, ClosedFollows DEF Forgets
<1>5. CASE t.type = "DismissSuggestions"
  <2>1. r = Dismissed(s, t.gen)
    BY <1>5 DEF Handled
  <2> QED
    BY <1>5, <2>1, DismissedFollows DEF Forgets
<1>6. CASE t.type \in OfWorker
  <2>1. r = Completed(s, t)
    BY <1>6 DEF Handled, OfWorker
  <2> QED
    BY <1>6, <2>1, CompletedFollows
<1>7. CASE t.type \in {"Rewards", "Suggestions"} /\ ~SessionCurrent(t.session)
  <2>1. r = Skip(s)
    BY <1>7 DEF Handled
  <2> QED
    BY <1>7, <2>1, SkipFollows DEF Forgets
<1>8. CASE t.type = "Suggestions" /\ SessionCurrent(t.session)
  <2>1. r = Suggested(s, t, recent, afterReward)
    BY <1>8 DEF Handled
  <2> QED
    BY <1>8, <2>1, SuggestedFollows DEF Plain, SceneStarts
<1>9. CASE t.type = "Rewards" /\ SessionCurrent(t.session)
  <2>1. r = Rewarded(s, t, recent)
    BY <1>9 DEF Handled
  <2> QED
    BY <1>9, <2>1, RewardedFollows DEF SceneStarts
<1>10. CASE t.type = "Screenshot"
  <2>1. r = Started([s EXCEPT !.o.suggesting = FALSE], t, 0)
    BY <1>10 DEF Handled
  <2> QED
    BY <1>10, <2>1, PhotographedFollows DEF SceneStarts
<1>11. t.type \in TriggerTypes
  BY DEF Message
<1> HIDE DEF r
<1> QED
  BY <1>1, <1>2, <1>3, <1>4, <1>5, <1>6, <1>7, <1>8, <1>9, <1>10, <1>11
     DEF TriggerTypes, SceneStarts, Control, OfWorker, r

(***************************************************************************)
(* What the steps keep.                                                    *)
(***************************************************************************)
\* The invariant has the types, and two of the properties are among its parts.
LEMMA RelicTypes == RelicInv => RelicTypeOK /\ CompletionsArrive /\ ContextsInOrder
<1> SUFFICES ASSUME RelicInv PROVE RelicTypeOK /\ CompletionsArrive /\ ContextsInOrder
  OBVIOUS
<1>1. RelicTypeOK
  BY DEF RelicInv, SessionInv, InboxInv, OwnerInv, WorkersInv, OverlayInv, FlagsInv, Fit,
         Bounded, Orderly, Contexts, Events, RelicTypeOK
<1>2. CompletionsArrive
  BY DEF RelicInv, MailInv
<1>3. OneCurrentContext
  BY DEF RelicInv, OwnerInv, Orderly, OneCurrentContext, ContextCurrent, CurrentIn
<1> QED
  BY <1>1, <1>2, <1>3 DEF RelicInv, OverlayInv, ContextsInOrder

\* Parts of the invariant that a step does not touch.
LEMMA SessionStays ==
  ASSUME SessionInv, UNCHANGED observed
  PROVE  SessionInv'
BY DEF SessionInv

\* ... the inbox, ...
LEMMA InboxStays ==
  ASSUME InboxInv, UNCHANGED triggers, owner'.generation = owner.generation
  PROVE  InboxInv'
BY DEF InboxInv

\* ... the coordinator and the contexts, ...
LEMMA OwnerStays ==
  ASSUME OwnerInv, UNCHANGED <<owner, contexts>>
  PROVE  OwnerInv'
BY DEF OwnerInv

\* ... the workers, ...
LEMMA WorkersStay ==
  ASSUME WorkersInv, UNCHANGED workers, owner'.generation = owner.generation,
         owner'.pending \in {0, owner.pending}
  PROVE  WorkersInv'
BY DEF WorkersInv

SameKinds == \A g \in Gen : contexts'[g].kind = contexts[g].kind

\* ... the messages of the workers, while contexts keep their kinds, ...
LEMMA MailStays ==
  ASSUME MailInv, WorkersInv, UNCHANGED <<triggers, workers>>, SameKinds, ending => ending'
  PROVE  MailInv'
<1>1. CompletionsArrive'
  BY DEF MailInv, CompletionsArrive
<1>2. ASSUME ~ending' \/ DOMAIN workers' # {}, NEW i \in DOMAIN triggers
      PROVE  Explained(triggers[i], workers, contexts')
  BY <1>2 DEF MailInv, WorkersInv, Explained, SameKinds
<1> QED
  BY <1>1, <1>2 DEF MailInv

\* ... the overlay, ...
LEMMA OverlayStays ==
  ASSUME OverlayInv, UNCHANGED <<ui, screen, reloadGate>>
  PROVE  OverlayInv'
BY DEF OverlayInv, InputReturned, Allowed

\* ... and the flags.
LEMMA FlagsStay ==
  ASSUME FlagsInv, UNCHANGED <<recording, ending>>
  PROVE  FlagsInv'
BY DEF FlagsInv

\* The era is still that of the game, or it is still to be forgotten.
LEMMA EraStays ==
  ASSUME EraOfThisGame, OwnerInv, owner'.lastEra \in {0, owner.lastEra},
         \A g \in Gen : contexts'[g].session = contexts[g].session,
         \/ observed'.number = observed.number /\ observed'.reported = observed.reported
         \/ \E i \in DOMAIN triggers' : Forgets(triggers'[i]),
         \A j \in DOMAIN triggers : \E i \in DOMAIN triggers' : triggers'[i] = triggers[j]
  PROVE  EraOfThisGame'
<1> SUFFICES ASSUME owner'.lastEra # 0
             PROVE  \/ /\ contexts'[owner'.lastEra].session = observed'.number
                       /\ ~observed'.reported
                    \/ \E i \in DOMAIN triggers' : Forgets(triggers'[i])
  BY DEF EraOfThisGame, Forgets
<1>1. owner'.lastEra = owner.lastEra /\ owner.lastEra \in Gen
  BY Constants DEF OwnerInv, Orderly, Owner
<1>2. CASE \E j \in DOMAIN triggers : Forgets(triggers[j])
  BY <1>2, Zenon
<1>3. CASE contexts[owner.lastEra].session = observed.number /\ ~observed.reported
  BY <1>1, <1>3
<1> QED
  BY <1>1, <1>2, <1>3 DEF EraOfThisGame, Forgets

\* A trigger from outside arrives, or is lost, or leaves a gap.
LEMMA PostKeeps ==
  ASSUME InboxInv, MailInv, WorkersInv, NEW t \in Message, Plain(t), t.type \notin OfWorker,
         t.type \in SceneStarts => owner.generation + Opening(triggers) < MaxGen,
         triggers' = Sent(triggers, t), UNCHANGED <<workers, ending>>,
         owner'.generation = owner.generation, owner.generation \in Nat, SameKinds
  PROVE  /\ InboxInv' /\ MailInv'
         /\ \A j \in DOMAIN triggers : \E i \in DOMAIN triggers' : triggers'[i] = triggers[j]
         /\ HasRoom(triggers, IntakeGap) => \E i \in DOMAIN triggers' : triggers'[i] \in {t, IntakeGap}
<1>1. Delivered(triggers, triggers', t)
  BY SentFit DEF InboxInv, NewTo
<1>2. InboxInv'
  <2>1. /\ Opening(triggers') \in Nat /\ Opening(triggers) \in Nat
        /\ Opening(triggers') <= Opening(triggers) + 1
        /\ t.type \notin SceneStarts => Opening(triggers') <= Opening(triggers)
    BY <1>1 DEF Delivered
  <2>2. owner.generation + Opening(triggers') <= MaxGen
    BY <2>1, Constants DEF InboxInv
  <2> QED
    BY <1>1, <2>2 DEF InboxInv, Delivered
<1>3. ASSUME ~ending' \/ DOMAIN workers' # {}, NEW i \in DOMAIN triggers'
      PROVE  Explained(triggers'[i], workers, contexts')
  <2>1. CASE triggers'[i] \in {t, IntakeGap}
    BY <2>1, GapIsMessage DEF Explained, OfWorker
  <2>2. ASSUME NEW j \in DOMAIN triggers, triggers'[i] = triggers[j]
        PROVE  Explained(triggers'[i], workers, contexts')
    <3>1. Explained(triggers[j], workers, contexts)
      BY <1>3 DEF MailInv
    <3> QED
      BY <2>2, <3>1 DEF WorkersInv, Explained, SameKinds
  <2> QED
    BY <1>1, <2>1, <2>2, Zenon DEF Delivered
<1>4. CompletionsArrive'
  <2> SUFFICES ASSUME NEW g \in DOMAIN workers, workers[g] = "ended"
               PROVE  \E i \in DOMAIN triggers' :
                        triggers'[i].type = "WorkFinished" /\ triggers'[i].gen = g
    BY DEF CompletionsArrive
  <2>1. PICK j \in DOMAIN triggers : triggers[j].type = "WorkFinished" /\ triggers[j].gen = g
    BY DEF MailInv, CompletionsArrive
  <2>2. PICK i \in DOMAIN triggers' : triggers'[i] = triggers[j]
    BY <1>1, Zenon DEF Delivered
  <2> QED
    BY <2>1, <2>2
<1> QED
  BY <1>1, <1>2, <1>3, <1>4 DEF MailInv, Delivered

\* The coordinator's own inbox always has room for a gap.
LEMMA RoomForGap ==
  ASSUME InboxInv, MailInv, WorkersInv, ~ending
  PROVE  HasRoom(triggers, IntakeGap)
<1>1. /\ IntakeGap \in Message /\ Plain(IntakeGap) /\ IsControl(IntakeGap)
      /\ NewTo(triggers, IntakeGap) /\ IntakeGap.type \notin OfWorker
  BY GapIsMessage DEF NewTo, OfWorker
<1>2. IsFiniteSet(DOMAIN workers) /\ Cardinality(DOMAIN workers) <= SceneWorkers
  <2>1. 1 \in Int /\ MaxGen \in Int
    BY Constants
  <2>2. IsFiniteSet(Gen)
    BY <2>1, FS_Interval, Zenon DEF Gen
  <2> QED
    BY <2>2, FS_Subset DEF WorkersInv
<1>3. \A i \in DOMAIN triggers : triggers[i].type \in OfWorker => triggers[i].gen \in DOMAIN workers
  BY DEF MailInv, Explained
<1> QED
  BY <1>1, <1>2, <1>3, RoomForControl DEF InboxInv

\* A session the observer knows has a number.
LEMMA SessionNumber ==
  ASSUME NEW s \in [number : 1..MaxSession, live : BOOLEAN, reported : BOOLEAN]
  PROVE  s.number \in 0..MaxSession /\ s.number # 0
BY Constants

\* The triggers from outside are messages that say nothing they may not.
LEMMA PostedTyped ==
  /\ \A type \in TriggerTypes \ (OfWorker \cup {"Rewards", "Suggestions"}) :
       Trigger(type) \in Message /\ Plain(Trigger(type)) /\ Trigger(type).type = type
  /\ \A type \in TriggerTypes \ (OfWorker \cup {"IntakeGap"}), n \in 0..MaxSession \ {0} :
       LET t == [Trigger(type) EXCEPT !.session = n]
       IN  t \in Message /\ Plain(t) /\ t.type = type
<1>1. ASSUME NEW type \in TriggerTypes
      PROVE  /\ Trigger(type) \in Message /\ Trigger(type).type = type
             /\ Trigger(type).era = FALSE
  BY Constants DEF Trigger, Message
<1>2. ASSUME NEW type \in TriggerTypes \ (OfWorker \cup {"Rewards", "Suggestions"})
      PROVE  Trigger(type) \in Message /\ Plain(Trigger(type)) /\ Trigger(type).type = type
  <2>1. type = "IntakeGap" => Trigger(type) = IntakeGap
    BY DEF IntakeGap
  <2> QED
    BY <1>1, <2>1 DEF Plain, OfWorker
<1>3. ASSUME NEW type \in TriggerTypes \ (OfWorker \cup {"IntakeGap"}), NEW n \in 0..MaxSession \ {0}
      PROVE  /\ [Trigger(type) EXCEPT !.session = n] \in Message
             /\ Plain([Trigger(type) EXCEPT !.session = n])
             /\ [Trigger(type) EXCEPT !.session = n].type = type
  <2> DEFINE m == Trigger(type)  t == [m EXCEPT !.session = n]
  <2>1. m \in Message /\ m.type = type /\ m.era = FALSE
    BY <1>1
  <2> HIDE DEF m
  <2>2. t \in Message /\ t.type = type /\ t.era = FALSE /\ t.session = n
    BY <2>1 DEF Message
  <2> HIDE DEF t
  <2>3. Plain(t)
    BY <2>2 DEF Plain, OfWorker
  <2> QED
    BY <2>2, <2>3 DEF t, m
<1> QED
  BY <1>2, <1>3

\* The generation of the coordinator.
LEMMA GenerationTyped ==
  ASSUME OwnerInv
  PROVE  owner.generation \in Nat /\ owner.generation \in 0..MaxGen /\ owner \in Owner
BY DEF OwnerInv, Orderly, Owner

\* The observer reports what the game shows.
LEMMA ObserveKeeps ==
  ASSUME RelicInv, NEW type \in {"Rewards", "Suggestions", "CloseSuggestions"}, Observe(type)
  PROVE  RelicInv'
<1> DEFINE t == [Trigger(type) EXCEPT !.session = observed.number]
<1>1. t \in Message /\ Plain(t) /\ t.type = type /\ t.type \notin OfWorker
  <2>1. type \in TriggerTypes \ (OfWorker \cup {"IntakeGap"})
    BY DEF TriggerTypes, OfWorker, SceneStarts, Control
  <2>2. observed.number \in 0..MaxSession \ {0}
    BY SessionNumber DEF RelicInv, SessionInv
  <2> QED
    BY <2>1, <2>2, PostedTyped
<1> HIDE DEF t
<1>2. /\ triggers' = Sent(triggers, t)
      /\ UNCHANGED <<owner, contexts, workers, recording, ui, screen, reloadGate, observed,
                     ending>>
  BY DEF Observe, Post, t
<1>3. t.type \in SceneStarts => owner.generation + Opening(triggers) < MaxGen
  BY <1>1 DEF Observe, MayStart, Opening
<1>4. /\ InboxInv' /\ MailInv'
      /\ \A j \in DOMAIN triggers : \E i \in DOMAIN triggers' : triggers'[i] = triggers[j]
  BY <1>1, <1>2, <1>3, PostKeeps, GenerationTyped DEF RelicInv, SameKinds
<1>5. EraOfThisGame'
  BY <1>2, <1>4, EraStays DEF RelicInv
<1> QED
  BY <1>2, <1>4, <1>5, SessionStays, OwnerStays, WorkersStay, OverlayStays, FlagsStay
     DEF RelicInv

\* The user asks for a capture, or the observer has lost debug output.
LEMMA AskKeeps ==
  ASSUME RelicInv, NEW type \in {"ArmCapture", "CancelCapture", "IntakeGap"}, CaptureCommand(type)
  PROVE  RelicInv'
<1> DEFINE t == Trigger(type)
<1>1. t \in Message /\ Plain(t) /\ t.type \notin OfWorker /\ t.type \notin SceneStarts
  <2>1. type \in TriggerTypes \ (OfWorker \cup {"Rewards", "Suggestions"})
    BY DEF TriggerTypes, OfWorker, SceneStarts, Control
  <2> QED
    BY <2>1, PostedTyped DEF SceneStarts
<1> HIDE DEF t
<1>2. /\ triggers' = Sent(triggers, t)
      /\ UNCHANGED <<owner, contexts, workers, recording, ui, screen, reloadGate, observed,
                     ending>>
  BY DEF CaptureCommand, Post, t
<1>3. /\ InboxInv' /\ MailInv'
      /\ \A j \in DOMAIN triggers : \E i \in DOMAIN triggers' : triggers'[i] = triggers[j]
  BY <1>1, <1>2, PostKeeps, GenerationTyped DEF RelicInv, SameKinds
<1>4. EraOfThisGame'
  BY <1>2, <1>3, EraStays DEF RelicInv
<1> QED
  BY <1>2, <1>3, <1>4, SessionStays, OwnerStays, WorkersStay, OverlayStays, FlagsStay
     DEF RelicInv

\* The end of a game reaches the coordinator, if only as a gap.
LEMMA ReportStopKeeps ==
  ASSUME RelicInv, ReportStop
  PROVE  RelicInv'
<1> DEFINE t == Trigger("GameStopped")
<1>1. /\ t \in Message /\ Plain(t) /\ t.type \notin OfWorker /\ t.type \notin SceneStarts
      /\ Forgets(t) /\ Forgets(IntakeGap)
  <2>1. "GameStopped" \in TriggerTypes \ (OfWorker \cup {"Rewards", "Suggestions"})
    BY DEF TriggerTypes, OfWorker, SceneStarts, Control
  <2> QED
    BY <2>1, PostedTyped, GapIsMessage DEF SceneStarts, Forgets
<1> HIDE DEF t
<1>2. /\ triggers' = Sent(triggers, t) /\ observed' = [observed EXCEPT !.reported = TRUE]
      /\ ~observed.live /\ ~ending
      /\ UNCHANGED <<owner, contexts, workers, recording, ui, screen, reloadGate, ending>>
  BY DEF ReportStop, Post, t
<1>3. SessionInv'
  BY <1>2 DEF RelicInv, SessionInv
<1>4. /\ InboxInv' /\ MailInv'
      /\ \A j \in DOMAIN triggers : \E i \in DOMAIN triggers' : triggers'[i] = triggers[j]
      /\ HasRoom(triggers, IntakeGap) => \E i \in DOMAIN triggers' : triggers'[i] \in {t, IntakeGap}
  BY <1>1, <1>2, PostKeeps, GenerationTyped DEF RelicInv, SameKinds
<1>5. \E i \in DOMAIN triggers' : Forgets(triggers'[i])
  BY <1>1, <1>2, <1>4, RoomForGap DEF RelicInv
<1>6. EraOfThisGame'
  BY <1>2, <1>4, <1>5, EraStays DEF RelicInv
<1> QED
  BY <1>2, <1>3, <1>4, <1>6, OwnerStays, WorkersStay, OverlayStays, FlagsStay
     DEF RelicInv

\* The game ends.
LEMMA RetireKeeps ==
  ASSUME RelicInv, Retire
  PROVE  RelicInv'
<1>1. /\ observed' = [observed EXCEPT !.live = FALSE]
      /\ UNCHANGED <<triggers, owner, contexts, workers, recording, ui, screen, reloadGate,
                     ending>>
  BY DEF Retire
<1>2. SessionInv' /\ observed'.number = observed.number /\ observed'.reported = observed.reported
  BY <1>1 DEF RelicInv, SessionInv
<1>3. EraOfThisGame'
  BY <1>1, <1>2, EraStays DEF RelicInv
<1> QED
  BY <1>1, <1>2, <1>3, InboxStays, OwnerStays, WorkersStay, MailStays, OverlayStays, FlagsStay
     DEF RelicInv, SameKinds

\* The next game begins when the end of the last one was reported.
LEMMA NextGameKeeps ==
  ASSUME RelicInv, NextGame
  PROVE  RelicInv'
<1>1. /\ observed' = [number |-> observed.number + 1, live |-> TRUE, reported |-> FALSE]
      /\ observed.reported /\ observed.number < MaxSession
      /\ UNCHANGED <<triggers, owner, contexts, workers, recording, ui, screen, reloadGate,
                     ending>>
  BY DEF NextGame
<1>2. SessionInv'
  BY <1>1, Constants DEF RelicInv, SessionInv
<1>3. EraOfThisGame'
  BY <1>1 DEF RelicInv, EraOfThisGame
<1> QED
  BY <1>1, <1>2, <1>3, InboxStays, OwnerStays, WorkersStay, MailStays, OverlayStays, FlagsStay
     DEF RelicInv, SameKinds

\* The time of a context is over.
LEMMA ExpireKeeps ==
  ASSUME RelicInv, NEW g \in Gen, SceneExpires(g)
  PROVE  RelicInv'
<1>1. /\ contexts' = [contexts EXCEPT ![g].expired = TRUE]
      /\ UNCHANGED <<observed, triggers, owner, workers, recording, ui, screen, reloadGate,
                     ending>>
  BY DEF SceneExpires
<1>2. contexts \in Contexts
  BY DEF RelicInv, OwnerInv, Orderly
<1>3. /\ contexts' \in Contexts
      /\ \A h \in Gen : /\ contexts'[h].kind = contexts[h].kind
                        /\ contexts'[h].session = contexts[h].session
                        /\ contexts'[h].cancelled = contexts[h].cancelled
  BY <1>1, <1>2 DEF Contexts, Context
<1>4. OwnerInv'
  BY <1>1, <1>3 DEF RelicInv, OwnerInv, Orderly
<1>5. EraOfThisGame'
  BY <1>1, <1>3, EraStays DEF RelicInv
<1> QED
  BY <1>1, <1>3, <1>4, <1>5, SessionStays, InboxStays, WorkersStay, MailStays, OverlayStays,
     FlagsStay DEF RelicInv, SameKinds

\* A reload is asked for.
LEMMA RequestReloadKeeps ==
  ASSUME RelicInv, RequestReload
  PROVE  RelicInv'
<1>1. /\ reloadGate' = [reloadGate EXCEPT !.requested = TRUE]
      /\ UNCHANGED <<observed, triggers, owner, contexts, workers, recording, ui, screen,
                     ending>>
  BY DEF RequestReload
<1>2. OverlayInv'
  BY <1>1 DEF RelicInv, OverlayInv, InputReturned, Allowed
<1>3. EraOfThisGame'
  BY <1>1, EraStays DEF RelicInv
<1> QED
  BY <1>1, <1>2, <1>3, SessionStays, InboxStays, OwnerStays, WorkersStay, MailStays, FlagsStay
     DEF RelicInv, SameKinds

\* The companion is told to stop.
LEMMA StopKeeps ==
  ASSUME RelicInv, Stop
  PROVE  RelicInv'
<1>1. /\ ending' = TRUE
      /\ UNCHANGED <<observed, triggers, owner, contexts, workers, recording, ui, screen,
                     reloadGate>>
  BY DEF Stop
<1>2. FlagsInv'
  BY <1>1 DEF RelicInv, FlagsInv
<1>3. EraOfThisGame'
  BY <1>1, EraStays DEF RelicInv
<1> QED
  BY <1>1, <1>2, <1>3, SessionStays, InboxStays, OwnerStays, WorkersStay, MailStays, OverlayStays
     DEF RelicInv, SameKinds

\* An evidence job ends.
LEMMA RecordedKeeps ==
  ASSUME RelicInv, Recorded
  PROVE  RelicInv'
<1>1. /\ recording' = FALSE
      /\ UNCHANGED <<observed, triggers, owner, contexts, workers, ui, screen, reloadGate,
                     ending>>
  BY DEF Recorded
<1>2. FlagsInv'
  BY <1>1 DEF RelicInv, FlagsInv
<1>3. EraOfThisGame'
  BY <1>1, EraStays DEF RelicInv
<1> QED
  BY <1>1, <1>2, <1>3, SessionStays, InboxStays, OwnerStays, WorkersStay, MailStays, OverlayStays
     DEF RelicInv, SameKinds

\* The coordinator leaves nothing open and no worker behind.
LEMMA EndsKeeps ==
  ASSUME RelicInv, CoordinatorEnds
  PROVE  RelicInv'
<1>1. /\ contexts' = Cancelled(contexts, owner.current)
      /\ owner' = Fresh(owner.generation)
      /\ workers' = << >> /\ recording' = FALSE /\ ending
      /\ UNCHANGED <<observed, triggers, ui, screen, reloadGate, ending>>
  BY DEF CoordinatorEnds
<1>2. contexts \in Contexts /\ owner.current \in 0..MaxGen
  BY DEF RelicInv, OwnerInv, Orderly, Owner
<1>3. /\ contexts' \in Contexts
      /\ \A h \in Gen : /\ contexts'[h].kind = contexts[h].kind
                        /\ contexts'[h].session = contexts[h].session
                        /\ (contexts'[h].cancelled <=> contexts[h].cancelled \/ h = owner.current)
  BY <1>1, <1>2, CancelledContexts
<1>4. /\ owner' \in Owner /\ owner'.generation = owner.generation /\ owner'.current = 0
      /\ owner'.pending = 0 /\ owner'.lastEra = 0 /\ owner.generation \in Nat
  BY <1>1, FreshTyped, GenerationTyped DEF RelicInv
<1>5. OwnerInv'
  BY <1>3, <1>4 DEF RelicInv, OwnerInv, Orderly
<1>6. DOMAIN workers' = {}
  BY <1>1
<1>7. WorkersInv'
  <2>1. workers' \in [DOMAIN workers' -> Stages]
    BY <1>1
  <2>2. Cardinality(DOMAIN workers') <= SceneWorkers
    BY <1>6, FS_EmptySet, Constants
  <2> QED
    BY <1>4, <1>6, <2>1, <2>2 DEF WorkersInv
<1>8. MailInv'
  BY <1>1, <1>6 DEF MailInv, CompletionsArrive
<1>9. EraOfThisGame'
  BY <1>4 DEF EraOfThisGame
<1>10. FlagsInv'
  BY <1>1 DEF RelicInv, FlagsInv
<1> QED
  BY <1>1, <1>4, <1>5, <1>7, <1>8, <1>9, <1>10, SessionStays, InboxStays, OverlayStays
     DEF RelicInv

(***************************************************************************)
(* The overlay's steps.                                                    *)
(***************************************************************************)
LEMMA EventsTail ==
  ASSUME NEW u, Events(u), u # << >>
  PROVE  /\ Events(Tail(u)) /\ Head(u) \in UiEvent
         /\ Head(u).type \in {"RelicStart", "RelicScene"} => Head(u).gen # 0
<1> DEFINE r == Tail(u)  n == Len(u)
<1>1. u \in Seq(UiEvent)
  BY DEF Events
<1>2. n \in Nat /\ 1 \in 1..n /\ DOMAIN u = 1..n /\ Head(u) = u[1] /\ Head(u) \in UiEvent
  BY <1>1, TailThins, LenProperties
<1>3. /\ r \in Seq(UiEvent) /\ Len(r) = n - 1 /\ DOMAIN r = 1..n - 1
      /\ \A i \in 1..n - 1 : r[i] = u[i + 1]
  BY <1>1, HeadTailProperties, LenProperties
<1> HIDE DEF r, n
<1>4. Len(r) <= UiItems
  BY <1>2, <1>3, Constants DEF Events, n
<1>5. ASSUME NEW i \in 1..n - 1, r[i].type \in {"RelicStart", "RelicScene"}
      PROVE  r[i].gen # 0
  <2>1. i + 1 \in DOMAIN u /\ r[i] = u[i + 1]
    BY <1>2, <1>3
  <2> QED
    BY <1>5, <2>1, Zenon DEF Events
<1>6. Events(r)
  BY <1>3, <1>4, <1>5, Zenon DEF Events
<1> QED
  BY <1>2, <1>6, Zenon DEF Events, r

\* A step of the overlay that moves nothing but the screen, the gate's flag and the events.
LEMMA OverlayKeeps ==
  ASSUME RelicInv, OverlayInv',
         UNCHANGED <<observed, triggers, owner, contexts, workers, recording, ending>>
  PROVE  RelicInv'
<1>1. EraOfThisGame'
  BY EraStays DEF RelicInv
<1> QED
  BY <1>1, SessionStays, InboxStays, OwnerStays, WorkersStay, MailStays, FlagsStay
     DEF RelicInv, SameKinds

\* The gate is told of what set_interaction has left.
LEMMA InteractionTyped ==
  ASSUME NEW s \in Screen, NEW b \in BOOLEAN
  PROVE  /\ WithInteraction(s, b) \in Screen
         /\ WithInteraction(s, b).interactive => Allowed(WithInteraction(s, b))
         /\ WithInteraction(s, b).scene = s.scene /\ WithInteraction(s, b).context = s.context
         /\ WithInteraction(s, b).alive = s.alive /\ WithInteraction(s, b).focus = s.focus
         /\ WithInteraction(s, b).ticking = s.ticking
         /\ WithInteraction(s, b).dismissed = s.dismissed
         /\ b = FALSE => WithInteraction(s, b).interactive = FALSE
<1> DEFINE i == b /\ Allowed(s)
<1>1. i \in BOOLEAN /\ (i => Allowed(s)) /\ (b = FALSE => i = FALSE)
  OBVIOUS
<1>2. WithInteraction(s, b) = [s EXCEPT !.interactive = i]
  BY DEF WithInteraction
<1> HIDE DEF i
<1>3. /\ [s EXCEPT !.interactive = i] \in Screen
      /\ [s EXCEPT !.interactive = i].interactive = i
      /\ [s EXCEPT !.interactive = i].scene = s.scene
      /\ [s EXCEPT !.interactive = i].context = s.context
      /\ [s EXCEPT !.interactive = i].alive = s.alive
      /\ [s EXCEPT !.interactive = i].focus = s.focus
      /\ [s EXCEPT !.interactive = i].ticking = s.ticking
      /\ [s EXCEPT !.interactive = i].dismissed = s.dismissed
  BY <1>1 DEF Screen
<1> QED
  BY <1>1, <1>2, <1>3 DEF Allowed

\* The reload gate knows what the overlay holds.
LEMMA GateTold ==
  ASSUME OverlayInv, screen' \in Screen, TellGate
  PROVE  /\ reloadGate' \in [requested : BOOLEAN, approved : BOOLEAN, interactive : BOOLEAN]
         /\ reloadGate'.interactive = screen'.interactive
         /\ reloadGate'.approved = reloadGate.approved /\ reloadGate'.requested = reloadGate.requested
BY DEF OverlayInv, TellGate, Screen

\* What an event makes of the screen.
LEMMA AppliedTyped ==
  ASSUME OverlayInv, NEW e \in UiEvent, e.type \in {"RelicStart", "RelicScene"} => e.gen # 0,
         NEW late \in BOOLEAN
  PROVE  /\ Applied(e, late) \in Screen
         /\ Applied(e, late).scene # "none" => Applied(e, late).context # 0
<1>1. screen \in Screen /\ (screen.scene # "none" => screen.context # 0)
  BY DEF OverlayInv
<1>2. e.gen \in 0..MaxGen /\ e.scene \in Scenes
  BY DEF UiEvent
<1>3. CASE e.type = "RelicScene" /\ Accepts(e, late)
  <2>1. Applied(e, late) = [screen EXCEPT !.scene = e.scene, !.dismissed = FALSE]
    BY <1>3 DEF Applied
  <2> QED
    BY <1>1, <1>2, <1>3, <2>1 DEF Screen, Accepts
<1>4. CASE e.type = "RelicStart" /\ ContextCurrent(e.gen)
  <2>1. Applied(e, late) = [screen EXCEPT !.context = e.gen, !.scene = "none", !.dismissed = FALSE]
    BY <1>4 DEF Applied
  <2> QED
    BY <1>1, <1>2, <2>1 DEF Screen, Scenes
<1>5. CASE e.type = "RelicDismiss" /\ (screen.context = 0 \/ ~ContextCurrent(screen.context))
  <2>1. Applied(e, late) = [screen EXCEPT !.scene = "none", !.context = 0]
    BY <1>5 DEF Applied
  <2>2. 0 \in 0..MaxGen /\ "none" \in Scenes
    BY Constants DEF Scenes
  <2>3. [screen EXCEPT !.scene = "none", !.context = 0] \in Screen
    BY <1>1, <2>2 DEF Screen
  <2>4. [screen EXCEPT !.scene = "none", !.context = 0].scene = "none"
    BY <1>1 DEF Screen
  <2> QED
    BY <2>1, <2>3, <2>4
<1>6. CASE e.type = "InteractionToggle"
  <2>1. Applied(e, late) = WithInteraction(screen, ~screen.interactive)
    BY <1>6 DEF Applied
  <2>2. screen.interactive \in BOOLEAN
    BY <1>1 DEF Screen
  <2>3. (~screen.interactive) \in BOOLEAN
    OBVIOUS
  <2>4. /\ WithInteraction(screen, ~screen.interactive) \in Screen
        /\ WithInteraction(screen, ~screen.interactive).scene = screen.scene
        /\ WithInteraction(screen, ~screen.interactive).context = screen.context
    BY <1>1, <2>3, InteractionTyped, Zenon
  <2> QED
    BY <1>1, <2>1, <2>4, Zenon
<1>7. CASE /\ ~(e.type = "RelicScene" /\ Accepts(e, late))
           /\ ~(e.type = "RelicStart" /\ ContextCurrent(e.gen))
           /\ ~(e.type = "RelicDismiss" /\ (screen.context = 0 \/ ~ContextCurrent(screen.context)))
           /\ e.type # "InteractionToggle"
  <2>1. Applied(e, late) = screen
    BY <1>7 DEF Applied
  <2> QED
    BY <1>1, <2>1
<1> QED
  BY <1>3, <1>4, <1>5, <1>6, <1>7

\* The overlay takes an event.
LEMMA ApplyKeeps ==
  ASSUME RelicInv, Apply
  PROVE  RelicInv'
<1>1. PICK late \in {FALSE, Head(ui).scene = "Error"} :
        screen' = [Applied(Head(ui), late) EXCEPT !.ticking = TRUE]
  BY DEF Apply
<1>2. /\ ui # << >> /\ ui' = Tail(ui) /\ TellGate
      /\ UNCHANGED <<observed, triggers, owner, contexts, workers, recording, ending>>
  BY DEF Apply
<1>3. Events(ui') /\ Head(ui) \in UiEvent
      /\ (Head(ui).type \in {"RelicStart", "RelicScene"} => Head(ui).gen # 0)
  BY <1>2, EventsTail DEF RelicInv, OverlayInv
<1> DEFINE a == Applied(Head(ui), late)
<1> late \in BOOLEAN
  OBVIOUS
<1>4. a \in Screen /\ (a.scene # "none" => a.context # 0)
  BY <1>3, AppliedTyped DEF RelicInv
<1> HIDE DEF a
<1>5. /\ screen' \in Screen /\ screen'.ticking = TRUE
      /\ screen'.scene # "none" => screen'.context # 0
  BY <1>1, <1>4 DEF Screen, a
<1>6. OverlayInv'
  BY <1>2, <1>3, <1>5, GateTold DEF RelicInv, OverlayInv, InputReturned
<1> QED
  BY <1>2, <1>6, OverlayKeeps

\* A tick of the overlay lets go of the pointer if the scene has gone.
LEMMA TickKeeps ==
  ASSUME RelicInv, OverlayTick
  PROVE  RelicInv'
<1>1. PICK focus \in BOOLEAN, over \in {FALSE, screen.scene = "Error"} :
        screen' = [Scoped([(IF over THEN [screen EXCEPT !.scene = "none"]
                                    ELSE Expired(screen)) EXCEPT !.focus = focus])
                     EXCEPT !.ticking = FALSE]
  BY Zenon DEF OverlayTick
<1>2. /\ TellGate
      /\ UNCHANGED <<observed, triggers, owner, contexts, workers, recording, ui, ending>>
  BY DEF OverlayTick
<1> DEFINE s == IF over THEN [screen EXCEPT !.scene = "none"] ELSE Expired(screen)
           f == [s EXCEPT !.focus = focus]
           i == WithInteraction(f, f.interactive)
           allowed == Allowed(f)
<1>3. screen \in Screen /\ (screen.scene # "none" => screen.context # 0)
  BY DEF RelicInv, OverlayInv
<1>4. s \in Screen /\ (s.scene # "none" => s.context # 0)
  <2>1. s = screen \/ s = [screen EXCEPT !.scene = "none"]
    BY DEF Expired
  <2> QED
    BY <1>3, <2>1 DEF Screen, Scenes
<1> HIDE DEF s
<1>5. f \in Screen /\ (f.scene # "none" => f.context # 0) /\ f.interactive \in BOOLEAN
  BY <1>4 DEF Screen
<1>6. Scoped(f) = [i EXCEPT !.scope = allowed] /\ allowed \in BOOLEAN
  BY DEF Scoped, Allowed
<1> HIDE DEF f
<1>7. /\ i \in Screen /\ (i.interactive => Allowed(i))
      /\ i.scene = f.scene /\ i.context = f.context
  BY <1>5, InteractionTyped
<1> HIDE DEF i, allowed
<1>8. screen' = [[i EXCEPT !.scope = allowed] EXCEPT !.ticking = FALSE]
  BY <1>1, <1>6 DEF f, s
<1>9. /\ screen' \in Screen /\ screen'.interactive = i.interactive
      /\ screen'.scene = i.scene /\ screen'.context = i.context
      /\ screen'.alive = i.alive /\ screen'.focus = i.focus
  BY <1>6, <1>7, <1>8 DEF Screen
<1>10. screen'.interactive => Allowed(screen')
  BY <1>7, <1>9 DEF Allowed
<1>11. OverlayInv'
  BY <1>2, <1>5, <1>7, <1>9, <1>10, GateTold DEF RelicInv, OverlayInv, InputReturned, Allowed
<1> QED
  BY <1>2, <1>11, OverlayKeeps

\* The shortcut is pressed.
LEMMA PressShortcutKeeps ==
  ASSUME RelicInv, PressShortcut
  PROVE  RelicInv'
<1>1. /\ ui' = TellOverlay(ui, Event("InteractionToggle", 0, "none"))
      /\ UNCHANGED <<observed, triggers, owner, contexts, workers, recording, screen,
                     reloadGate, ending>>
  BY DEF PressShortcut
<1>2. Events(ui')
  BY <1>1, ToldEvents, EventTyped DEF RelicInv, OverlayInv
<1>3. OverlayInv'
  BY <1>1, <1>2 DEF RelicInv, OverlayInv, InputReturned, Allowed
<1> QED
  BY <1>1, <1>3, OverlayKeeps

\* The pointer leaves the scene.
LEMMA LeaveSceneKeeps ==
  ASSUME RelicInv, LeaveScene
  PROVE  RelicInv'
<1>1. /\ screen' = WithInteraction(screen, FALSE) /\ TellGate
      /\ UNCHANGED <<observed, triggers, owner, contexts, workers, recording, ui, ending>>
  BY DEF LeaveScene
<1>2. screen \in Screen /\ FALSE \in BOOLEAN /\ (screen.scene # "none" => screen.context # 0)
  BY DEF RelicInv, OverlayInv
<1>3. /\ screen' \in Screen /\ screen'.interactive = FALSE
      /\ screen'.scene = screen.scene /\ screen'.context = screen.context
  BY <1>1, <1>2, InteractionTyped, Zenon
<1>4. OverlayInv'
  BY <1>1, <1>2, <1>3, GateTold DEF RelicInv, OverlayInv, InputReturned
<1> QED
  BY <1>1, <1>4, OverlayKeeps

\* The overlay ends.
LEMMA OverlayEndsKeeps ==
  ASSUME RelicInv, OverlayEnds
  PROVE  RelicInv'
<1>1. /\ screen' = [screen EXCEPT !.alive = FALSE, !.scope = FALSE]
      /\ UNCHANGED <<observed, triggers, owner, contexts, workers, recording, ui, reloadGate,
                     ending>>
  BY DEF OverlayEnds
<1>2. screen \in Screen
  BY DEF RelicInv, OverlayInv
<1>3. /\ screen' \in Screen /\ screen'.alive = FALSE /\ screen'.interactive = screen.interactive
      /\ screen'.scene = screen.scene /\ screen'.context = screen.context
  BY <1>1, <1>2 DEF Screen
<1>4. OverlayInv'
  BY <1>1, <1>3 DEF RelicInv, OverlayInv, InputReturned
<1> QED
  BY <1>1, <1>4, OverlayKeeps

\* Nobody shows the events that arrive after the overlay has ended.
LEMMA DropEventsKeeps ==
  ASSUME RelicInv, DropEvents
  PROVE  RelicInv'
<1>1. /\ ui' = << >>
      /\ UNCHANGED <<observed, triggers, owner, contexts, workers, recording, screen,
                     reloadGate, ending>>
  BY DEF DropEvents
<1>2. Events(ui')
  <2>1. << >> \in Seq(UiEvent) /\ Len(<< >>) = 0
    BY EmptySeq
  <2>2. DOMAIN << >> = {} /\ 0 <= UiItems
    BY Constants
  <2> QED
    BY <1>1, <2>1, <2>2 DEF Events
<1>3. OverlayInv'
  BY <1>1, <1>2 DEF RelicInv, OverlayInv, InputReturned, Allowed
<1> QED
  BY <1>1, <1>3, OverlayKeeps

\* A press on the close button cancels the context and tells the coordinator.
LEMMA CloseSceneKeeps ==
  ASSUME RelicInv, CloseScene
  PROVE  RelicInv'
<1> DEFINE t == [Trigger("DismissSuggestions") EXCEPT !.gen = screen.context]
           s == [screen EXCEPT !.dismissed = TRUE, !.scene = "none"]
<1>1. /\ contexts' = Cancelled(contexts, screen.context)
      /\ triggers' = Sent(triggers, t)
      /\ screen' = WithInteraction(s, FALSE) /\ TellGate
      /\ UNCHANGED <<observed, owner, workers, recording, ui, ending>>
  BY DEF CloseScene
<1>2. screen \in Screen /\ screen.context \in 0..MaxGen /\ FALSE \in BOOLEAN
  BY DEF RelicInv, OverlayInv, Screen
<1>3. contexts \in Contexts
  BY DEF RelicInv, OwnerInv, Orderly
<1>4. /\ t \in Message /\ Plain(t) /\ t.type \notin OfWorker /\ t.type \notin SceneStarts
  <2> DEFINE m == Trigger("DismissSuggestions")
  <2>1. m \in Message /\ m.type = "DismissSuggestions" /\ m.era = FALSE
    BY Constants DEF Trigger, Message, TriggerTypes
  <2> HIDE DEF m
  <2>2. t = [m EXCEPT !.gen = screen.context]
    BY DEF m
  <2> HIDE DEF t
  <2>3. t \in Message
    BY <1>2, <2>1, <2>2 DEF Message
  <2>4. t.type = "DismissSuggestions" /\ t.era = FALSE
    BY <2>1, <2>2 DEF Message
  <2> QED
    BY <2>3, <2>4 DEF Plain, OfWorker, SceneStarts
<1>5. s \in Screen
  BY <1>2 DEF Screen, Scenes
<1> HIDE DEF t
<1>6. s.scene = "none"
  BY <1>2 DEF Screen
<1> HIDE DEF s
<1>7. screen' \in Screen /\ screen'.interactive = FALSE /\ screen'.scene = "none"
  BY <1>1, <1>2, <1>5, <1>6, InteractionTyped, Zenon
<1>8. OverlayInv'
  BY <1>1, <1>7, GateTold DEF RelicInv, OverlayInv, InputReturned
<1>9. /\ contexts' \in Contexts
      /\ \A h \in Gen : /\ contexts'[h].kind = contexts[h].kind
                        /\ contexts'[h].session = contexts[h].session
                        /\ (contexts'[h].cancelled <=> contexts[h].cancelled \/ h = screen.context)
  BY <1>1, <1>2, <1>3, CancelledContexts
<1>10. OwnerInv'
  BY <1>1, <1>9 DEF RelicInv, OwnerInv, Orderly
<1>11. /\ InboxInv' /\ MailInv'
       /\ \A j \in DOMAIN triggers : \E i \in DOMAIN triggers' : triggers'[i] = triggers[j]
  BY <1>1, <1>4, <1>9, PostKeeps, GenerationTyped DEF RelicInv, SameKinds
<1>12. EraOfThisGame'
  BY <1>1, <1>9, <1>11, EraStays DEF RelicInv
<1> QED
  BY <1>1, <1>8, <1>10, <1>11, <1>12, SessionStays, WorkersStay, FlagsStay DEF RelicInv

(***************************************************************************)
(* The workers.                                                            *)
(***************************************************************************)
LEMMA WorkersFinite ==
  ASSUME WorkersInv
  PROVE  IsFiniteSet(DOMAIN workers) /\ Cardinality(DOMAIN workers) \in Nat
<1>1. 1 \in Int /\ MaxGen \in Int
  BY Constants
<1>2. IsFiniteSet(Gen)
  BY <1>1, FS_Interval, Zenon DEF Gen
<1> QED
  BY <1>2, FS_Subset, FS_CardinalityType DEF WorkersInv

\* A worker that gets on: what is queued is still so, and the last message is there if it
\* has ended.
LEMMA MailAdvances ==
  ASSUME RelicInv, NEW g \in DOMAIN workers, workers[g] # "ended", NEW stage \in Stages,
         workers[g] = "update" /\ contexts[g].kind = "Suggestions" => stage = "ended",
         workers' = [workers EXCEPT ![g] = stage], UNCHANGED <<contexts, ending>>,
         \A i \in DOMAIN triggers' : \/ Explained(triggers'[i], workers', contexts)
                                  \/ \E j \in DOMAIN triggers : triggers'[i] = triggers[j],
         \A j \in DOMAIN triggers : \E i \in DOMAIN triggers' : triggers'[i] = triggers[j],
         stage = "ended" =>
           \E i \in DOMAIN triggers' : triggers'[i].type = "WorkFinished" /\ triggers'[i].gen = g
  PROVE  MailInv'
<1>1. /\ DOMAIN workers' = DOMAIN workers /\ workers'[g] = stage
      /\ \A h \in DOMAIN workers : h # g => workers'[h] = workers[h]
  OBVIOUS
<1>2. ASSUME NEW j \in DOMAIN triggers
      PROVE  Explained(triggers[j], workers', contexts)
  <2>1. Explained(triggers[j], workers, contexts) /\ Plain(triggers[j])
    BY DEF RelicInv, MailInv, InboxInv, Fit
  <2> DEFINE m == triggers[j]
  <2> HIDE DEF m
  <2>2. Explained(m, workers, contexts) /\ Plain(m)
    BY <2>1 DEF m
  <2>3. ASSUME m.type \in OfWorker, m.gen = g
        PROVE  m.type = "SuggestionReady" /\ stage = "ended"
    BY <2>2, <2>3 DEF Explained, Plain, OfWorker
  <2>4. Explained(m, workers', contexts)
    BY <1>1, <2>2, <2>3 DEF Explained
  <2> QED
    BY <2>4 DEF m
<1>3. ASSUME NEW i \in DOMAIN triggers'
      PROVE  Explained(triggers'[i], workers', contexts')
  BY <1>2
<1>4. CompletionsArrive'
  <2> SUFFICES ASSUME NEW h \in DOMAIN workers, workers'[h] = "ended"
               PROVE  \E i \in DOMAIN triggers' :
                        triggers'[i].type = "WorkFinished" /\ triggers'[i].gen = h
    BY <1>1 DEF CompletionsArrive
  <2>1. CASE h = g
    BY <1>1, <2>1
  <2>2. CASE h # g
    <3>1. PICK j \in DOMAIN triggers : triggers[j].type = "WorkFinished" /\ triggers[j].gen = h
      BY <1>1, <2>2 DEF RelicInv, MailInv, CompletionsArrive
    <3>2. PICK i \in DOMAIN triggers' : triggers'[i] = triggers[j]
      OBVIOUS
    <3> QED
      BY <3>1, <3>2
  <2> QED
    BY <2>1, <2>2
<1> QED
  BY <1>3, <1>4 DEF MailInv

\* A worker that gets on, given what that does to the inbox.
LEMMA AdvanceKeeps ==
  ASSUME RelicInv, NEW g \in DOMAIN workers, NEW stage \in Stages, NEW told, Events(told),
         Advance(g, stage, told), InboxInv', MailInv',
         \A j \in DOMAIN triggers : \E i \in DOMAIN triggers' : triggers'[i] = triggers[j]
  PROVE  RelicInv'
<1>1. /\ workers' = [workers EXCEPT ![g] = stage] /\ ui' = told
      /\ UNCHANGED <<observed, owner, contexts, recording, screen, reloadGate, ending>>
  BY DEF Advance
<1>2. WorkersInv'
  <2>1. workers \in [DOMAIN workers -> Stages]
    BY DEF RelicInv, WorkersInv
  <2>2. workers' \in [DOMAIN workers -> Stages] /\ DOMAIN workers' = DOMAIN workers
    BY <1>1, <2>1
  <2> QED
    BY <1>1, <2>2 DEF RelicInv, WorkersInv
<1>3. OverlayInv'
  BY <1>1 DEF RelicInv, OverlayInv, InputReturned, Allowed
<1>4. EraOfThisGame'
  BY <1>1, EraStays DEF RelicInv
<1> QED
  BY <1>1, <1>2, <1>3, <1>4, SessionStays, OwnerStays, FlagsStay DEF RelicInv

\* A worker that sends nothing.
LEMMA SilentKeeps ==
  ASSUME RelicInv, NEW g \in DOMAIN workers, workers[g] # "ended",
         NEW stage \in Stages \ {"ended"},
         workers[g] = "update" => contexts[g].kind # "Suggestions",
         NEW told, Events(told), Advance(g, stage, told), UNCHANGED triggers
  PROVE  RelicInv'
<1>1. InboxInv'
  BY InboxStays DEF Advance, RelicInv
<1>2. MailInv'
  BY MailAdvances DEF Advance
<1> QED
  BY <1>1, <1>2, AdvanceKeeps

\* A worker that sends t as it gets on.  There is room for what it sends.
LEMMA SendingKeeps ==
  ASSUME RelicInv, NEW g \in DOMAIN workers, NEW stage \in Stages, NEW told, Events(told),
         NEW t \in Message, Plain(t), t.type \in OfWorker, t.gen = g,
         t.era => contexts[g].kind = "Suggestions",
         \/ t.type = "WorkFinished" /\ workers[g] # "ended" /\ stage = "ended"
         \/ t.type = "SuggestionReady" /\ workers[g] = "resolve" /\ stage = "update",
         triggers' = Sent(triggers, t), Advance(g, stage, told)
  PROVE  RelicInv'
<1>1. /\ workers' = [workers EXCEPT ![g] = stage]
      /\ UNCHANGED <<observed, owner, contexts, recording, screen, reloadGate, ending>>
  BY DEF Advance
<1>2. ASSUME NEW i \in DOMAIN triggers
      PROVE  Explained(triggers[i], workers, contexts)
  BY DEF RelicInv, MailInv
<1>3. NewTo(triggers, t)
  BY <1>2 DEF NewTo, Explained, OfWorker
<1>4. Delivered(triggers, triggers', t)
  BY <1>3, SentFit DEF RelicInv, InboxInv
<1>5. HasRoom(triggers, t)
  <2>1. \A i \in DOMAIN triggers : triggers[i].type \in OfWorker => triggers[i].gen \in DOMAIN workers
    BY <1>2 DEF Explained
  <2>2. IsControl(t)
    BY DEF IsControl, Control, OfWorker
  <2>3. IsFiniteSet(DOMAIN workers) /\ Cardinality(DOMAIN workers) <= SceneWorkers
    BY WorkersFinite DEF RelicInv, WorkersInv
  <2> QED
    BY <1>3, <2>1, <2>2, <2>3, RoomForControl DEF RelicInv, InboxInv
<1>6. InboxInv'
  <2>1. Opening(triggers') \in Nat /\ Opening(triggers) \in Nat /\ Opening(triggers') <= Opening(triggers)
    BY <1>4 DEF Delivered, OfWorker, SceneStarts
  <2>2. owner.generation \in Nat /\ owner.generation + Opening(triggers) <= MaxGen
    BY GenerationTyped DEF RelicInv, InboxInv
  <2>3. owner.generation + Opening(triggers') <= MaxGen
    BY <2>1, <2>2, Constants
  <2> QED
    BY <1>1, <1>4, <2>3 DEF InboxInv, Delivered
<1>7. Explained(t, workers', contexts) /\ Explained(IntakeGap, workers', contexts)
  BY <1>1, GapIsMessage DEF Explained, OfWorker
<1>8. MailInv'
  <2>1. \A i \in DOMAIN triggers' : \/ Explained(triggers'[i], workers', contexts)
                                 \/ \E j \in DOMAIN triggers : triggers'[i] = triggers[j]
    BY <1>4, <1>7 DEF Delivered
  <2>2. \A j \in DOMAIN triggers : \E i \in DOMAIN triggers' : triggers'[i] = triggers[j]
    BY <1>4 DEF Delivered
  <2>3. stage = "ended" =>
          \E i \in DOMAIN triggers' : triggers'[i].type = "WorkFinished" /\ triggers'[i].gen = g
    BY <1>4, <1>5 DEF Delivered
  <2> QED
    BY <1>1, <2>1, <2>2, <2>3, MailAdvances
<1> QED
  BY <1>4, <1>6, <1>8, AdvanceKeeps DEF Delivered

\* A worker's thread ends after its last message.
LEMMA FinishKeeps ==
  ASSUME RelicInv, NEW g \in DOMAIN workers, workers[g] # "ended",
         NEW era \in BOOLEAN, NEW failed \in BOOLEAN, era => contexts[g].kind = "Suggestions",
         NEW told, Events(told), FinishWork(g, triggers, told, era, failed)
  PROVE  RelicInv'
<1> DEFINE t == [Trigger("WorkFinished") EXCEPT !.gen = g, !.era = era, !.failed = failed]
<1>1. g \in 0..MaxGen
  BY Constants DEF RelicInv, WorkersInv
<1>2. t \in Message /\ t.type = "WorkFinished" /\ t.gen = g /\ t.era = era
  <2> DEFINE m == Trigger("WorkFinished")
  <2>1. m \in Message /\ m.type = "WorkFinished"
    BY Constants DEF Trigger, Message, TriggerTypes, Control
  <2> HIDE DEF m
  <2>2. t = [m EXCEPT !.gen = g, !.era = era, !.failed = failed]
    BY DEF m
  <2> HIDE DEF t
  <2> QED
    BY <1>1, <2>1, <2>2 DEF Message
<1>3. triggers' = Sent(triggers, t) /\ Advance(g, "ended", told)
  BY DEF FinishWork
<1> HIDE DEF t
<1>4. Plain(t) /\ t.type \in OfWorker /\ "ended" \in Stages
  BY <1>2 DEF Plain, OfWorker, Stages
<1> QED
  BY <1>2, <1>3, <1>4, SendingKeeps

\* What a worker shows fits the channel.
LEMMA ShownEvents ==
  ASSUME RelicInv, NEW g \in DOMAIN workers
  PROVE  /\ Events(ui)
         /\ \A scene \in Scenes : Events(SendScene(g, scene))
<1>1. Events(ui) /\ g \in Gen
  BY DEF RelicInv, OverlayInv, WorkersInv
<1>2. ASSUME NEW scene \in Scenes
      PROVE  Events(SendScene(g, scene))
  <2> DEFINE e == Event("RelicScene", g, scene)
  <2>1. e \in UiEvent /\ e.gen # 0
    BY <1>1, EventTyped, Constants
  <2>2. SendScene(g, scene) \in {ui, TellOverlay(ui, e)}
    BY DEF SendScene
  <2> HIDE DEF e
  <2> QED
    BY <1>1, <2>1, <2>2, ToldEvents
<1> QED
  BY <1>1, <1>2

\* Whatever a worker does.
LEMMA WorkKeeps ==
  ASSUME RelicInv, NEW g \in DOMAIN workers, Work(g)
  PROVE  RelicInv'
<1>1. /\ Events(ui)
      /\ Events(SendScene(g, "Reading")) /\ Events(SendScene(g, "Rewards"))
      /\ Events(SendScene(g, "Suggestions")) /\ Events(SendScene(g, "Error"))
  BY ShownEvents DEF Scenes
<1>2. /\ TRUE \in BOOLEAN /\ FALSE \in BOOLEAN
      /\ {"scan", "resolve", "update", "assets"} \subseteq Stages \ {"ended"}
  BY DEF Stages
<1>3. \A told : \A era, failed \in BOOLEAN :
        /\ workers[g] # "ended" /\ (era => contexts[g].kind = "Suggestions")
        /\ Events(told) /\ FinishWork(g, triggers, told, era, failed)
        => RelicInv'
  BY FinishKeeps
<1>4. \A told : \A stage \in Stages \ {"ended"} :
        /\ workers[g] # "ended" /\ (workers[g] = "update" => contexts[g].kind # "Suggestions")
        /\ Events(told) /\ Advance(g, stage, told) /\ UNCHANGED triggers
        => RelicInv'
  BY SilentKeeps
<1>5. CASE Probe(g)
  <2>1. workers[g] = "probe"
    BY <1>5 DEF Probe
  <2>2. CASE Late(g)
    <3>1. (contexts[g].kind # "Suggestions") \in BOOLEAN
      OBVIOUS
    <3>2. FinishWork(g, triggers, ui, FALSE, contexts[g].kind # "Suggestions")
      BY <2>2 DEF Late
    <3> DEFINE failed == contexts[g].kind # "Suggestions"
    <3> HIDE DEF failed
    <3>3. failed \in BOOLEAN /\ FinishWork(g, triggers, ui, FALSE, failed)
      BY <3>1, <3>2 DEF failed
    <3> QED
      BY <1>1, <1>2, <1>3, <2>1, <3>3
  <2>3. CASE Remember(g)
    <3>1. Advance(g, "resolve", ui) /\ UNCHANGED triggers
      BY <2>3 DEF Remember
    <3> QED
      BY <1>1, <1>2, <1>4, <2>1, <3>1
  <2>4. CASE NoEra(g)
    <3>1. FinishWork(g, triggers, ui, FALSE, FALSE)
      BY <2>4 DEF NoEra
    <3> QED
      BY <1>1, <1>2, <1>3, <2>1, <3>1
  <2>5. CASE Photograph(g)
    <3>1. CASE FinishWork(g, triggers, SendScene(g, "Error"), FALSE, TRUE)
      BY <1>1, <1>2, <1>3, <2>1, <3>1
    <3>2. CASE /\ Advance(g, "scan", IF contexts[g].kind = "Rewards" THEN SendScene(g, "Reading")
                                                                     ELSE ui)
               /\ UNCHANGED triggers
      <4> DEFINE told == IF contexts[g].kind = "Rewards" THEN SendScene(g, "Reading") ELSE ui
      <4>1. Events(told)
        BY <1>1
      <4> HIDE DEF told
      <4>2. Advance(g, "scan", told) /\ UNCHANGED triggers
        BY <3>2 DEF told
      <4> QED
        BY <1>2, <1>4, <2>1, <4>1, <4>2
    <3> QED
      BY <2>5, <3>1, <3>2 DEF Photograph
  <2> QED
    BY <1>5, <2>2, <2>3, <2>4, <2>5 DEF Probe
<1>6. CASE ScanRewards(g)
  <2>1. workers[g] = "scan"
    BY <1>6 DEF ScanRewards
  <2>2. CASE Recognize(g)
    <3>1. Advance(g, "resolve", ui) /\ UNCHANGED triggers
      BY <2>2 DEF Recognize
    <3> QED
      BY <1>1, <1>2, <1>4, <2>1, <3>1
  <2>3. CASE FinishWork(g, triggers, SendScene(g, "Error"), FALSE, TRUE)
    BY <1>1, <1>2, <1>3, <2>1, <2>3
  <2> QED
    BY <1>6, <2>2, <2>3 DEF ScanRewards
<1>7. CASE Recommend(g)
  <2>1. workers[g] = "resolve" /\ contexts[g].kind = "Suggestions"
    BY <1>7 DEF Recommend
  <2>2. CASE FinishWork(g, triggers, ui, FALSE, FALSE)
    BY <1>1, <1>2, <1>3, <2>1, <2>2
  <2>3. CASE /\ triggers' = Sent(triggers, [Trigger("SuggestionReady") EXCEPT !.gen = g, !.era = TRUE])
             /\ Advance(g, "update", SendScene(g, "Suggestions"))
    <3> DEFINE m == Trigger("SuggestionReady")
               t == [m EXCEPT !.gen = g, !.era = TRUE]
    <3>1. m \in Message /\ m.type = "SuggestionReady"
      BY Constants DEF Trigger, Message, TriggerTypes, Control
    <3>2. g \in 0..MaxGen
      BY Constants DEF RelicInv, WorkersInv
    <3>3. triggers' = Sent(triggers, t)
      BY <2>3
    <3> HIDE DEF m
    <3>4. t \in Message /\ t.type = "SuggestionReady" /\ t.gen = g /\ t.era
      BY <3>1, <3>2 DEF Message
    <3> HIDE DEF t
    <3>5. Plain(t) /\ t.type \in OfWorker /\ "update" \in Stages
      BY <3>4 DEF Plain, OfWorker, Stages
    <3> DEFINE told == SendScene(g, "Suggestions")
    <3>6. Events(told) /\ Advance(g, "update", told)
      BY <1>1, <2>3
    <3> HIDE DEF told
    <3> QED
      BY <2>1, <3>3, <3>4, <3>5, <3>6, SendingKeeps
  <2> QED
    BY <1>7, <2>2, <2>3 DEF Recommend
<1>8. CASE Identify(g)
  <2>1. workers[g] = "resolve"
    BY <1>8 DEF Identify
  <2>2. CASE FinishWork(g, triggers, SendScene(g, "Error"), FALSE, TRUE)
    BY <1>1, <1>2, <1>3, <2>1, <2>2
  <2>3. CASE Advance(g, "update", SendScene(g, "Rewards")) /\ UNCHANGED triggers
    BY <1>1, <1>2, <1>4, <2>1, <2>3
  <2> QED
    BY <1>8, <2>2, <2>3 DEF Identify
<1>9. CASE Price(g)
  <2>1. workers[g] = "update" /\ contexts[g].kind = "Suggestions"
    BY <1>9 DEF Price
  <2>2. PICK answered \in BOOLEAN :
          FinishWork(g, triggers, IF answered THEN SendScene(g, "Suggestions") ELSE ui, TRUE, FALSE)
    BY <1>9 DEF Price
  <2> DEFINE told == IF answered THEN SendScene(g, "Suggestions") ELSE ui
  <2>3. Events(told) /\ FinishWork(g, triggers, told, TRUE, FALSE)
    BY <1>1, <2>2
  <2> HIDE DEF told
  <2> QED
    BY <1>2, <1>3, <2>1, <2>3
<1>10. CASE Enrich(g)
  <2>1. workers[g] = "update" /\ contexts[g].kind # "Suggestions"
    BY <1>10 DEF Enrich
  <2>2. CASE FinishWork(g, triggers, ui, FALSE, FALSE)
    BY <1>1, <1>2, <1>3, <2>1, <2>2
  <2>3. CASE Advance(g, "assets", SendScene(g, "Rewards")) /\ UNCHANGED triggers
    BY <1>1, <1>2, <1>4, <2>1, <2>3
  <2> QED
    BY <1>10, <2>2, <2>3 DEF Enrich
<1>11. CASE Illustrate(g)
  <2>1. workers[g] = "assets"
    BY <1>11 DEF Illustrate
  <2>2. PICK complete \in BOOLEAN :
          FinishWork(g, triggers, IF complete THEN SendScene(g, "Rewards") ELSE ui, FALSE, FALSE)
    BY <1>11 DEF Illustrate
  <2> DEFINE told == IF complete THEN SendScene(g, "Rewards") ELSE ui
  <2>3. Events(told) /\ FinishWork(g, triggers, told, FALSE, FALSE)
    BY <1>1, <2>2
  <2> HIDE DEF told
  <2> QED
    BY <1>2, <1>3, <2>1, <2>3
<1> QED
  BY <1>5, <1>6, <1>7, <1>8, <1>9, <1>10, <1>11 DEF Work

(***************************************************************************)
(* An iteration of the coordinator.                                        *)
(***************************************************************************)
\* The iteration finds b and the trigger t, leaves q in the inbox, and gets to s.
Takes(b, t, q, s) ==
  /\ b.c = contexts /\ b.o.generation = owner.generation
  /\ b.o.pending = owner.pending /\ b.o.lastEra = owner.lastEra
  /\ Follows(b, s, t)
  /\ \/ triggers = << >> /\ q = triggers /\ t = Trigger("Timeout")
     \/ triggers # << >> /\ q = Tail(triggers) /\ t = Head(triggers)

Slots(t) == IF t.type = "WorkFinished" THEN DOMAIN workers \ {t.gen} ELSE DOMAIN workers
Launches(s, t) == ~s.continue /\ s.o.pending # 0 /\ Cardinality(Slots(t)) < SceneWorkers
Begins(s, t) == Launches(s, t) /\ CurrentIn(s.c, s.o.pending)
Settled(s, t) == [s.o EXCEPT !.pending = IF Launches(s, t) THEN 0 ELSE @]
Begun(s, t) ==
  IF Begins(s, t)
    THEN [g \in Slots(t) \cup {s.o.pending} |-> IF g = s.o.pending THEN "probe" ELSE workers[g]]
    ELSE [g \in Slots(t) |-> workers[g]]
Grants(s, t, q) ==
  /\ ~s.continue /\ (Launches(s, t) => Begins(s, t))
  /\ Granted(CoordinatorIdle(Settled(s, t), s.c, Begun(s, t), q))

\* What it makes of the variables.
Leaves(t, q, s) ==
  /\ ~ending
  /\ triggers' = q /\ owner' = Settled(s, t) /\ contexts' = s.c /\ ui' = s.u
  /\ workers' = Begun(s, t)
  /\ reloadGate' = [reloadGate EXCEPT !.approved = @ \/ Grants(s, t, q)]
  /\ ending' = (ending \/ Grants(s, t, q))
  /\ recording' \in BOOLEAN
  /\ UNCHANGED <<observed, screen>>

\* The oldest trigger of the inbox is one the coordinator can handle.
LEMMA HeadHandled ==
  ASSUME RelicInv, ~ending, triggers # << >>
  PROVE  /\ Head(triggers) \in Message /\ Plain(Head(triggers))
         /\ Head(triggers).type \in SceneStarts => owner.generation < MaxGen
         /\ Head(triggers).type \in OfWorker =>
              Head(triggers).gen \in Gen /\ Head(triggers).gen <= owner.generation
<1> DEFINE q == Tail(triggers)  t == Head(triggers)
<1>1. Fit(triggers) /\ triggers \in Seq(Message)
  BY DEF RelicInv, InboxInv, Fit
<1>2. /\ q \in Seq(Message) /\ 1 \in 1..Len(triggers) /\ t = triggers[1] /\ t \in Message
      /\ Without(q, triggers, 1)
  BY <1>1, TailThins
<1> HIDE DEF q, t
<1>3. 1 \in DOMAIN triggers
  BY <1>1, <1>2, LenProperties
<1>4. Plain(t)
  BY <1>1, <1>2, <1>3 DEF Fit
<1>5. ASSUME t.type \in SceneStarts
      PROVE  owner.generation < MaxGen
  <2>1. Opening(q) \in Nat /\ Opening(triggers) \in Nat /\ Opening(q) + 1 <= Opening(triggers)
    BY <1>1, <1>2, <1>5, WithoutCounts
  <2>2. owner.generation \in Nat /\ owner.generation + Opening(triggers) <= MaxGen
    BY GenerationTyped DEF RelicInv, InboxInv
  <2> QED
    BY <2>1, <2>2, Constants
<1>6. ASSUME t.type \in OfWorker
      PROVE  t.gen \in Gen /\ t.gen <= owner.generation
  <2>1. Explained(triggers[1], workers, contexts)
    BY <1>3 DEF RelicInv, MailInv
  <2> QED
    BY <1>2, <1>6, <2>1 DEF Explained, RelicInv, WorkersInv
<1> QED
  BY <1>2, <1>4, <1>5, <1>6 DEF t

\* An iteration in two halves: what it takes, and what it leaves.
LEMMA IterateTakes ==
  ASSUME RelicInv, Iterate
  PROVE  \E b, t, q, s : Takes(b, t, q, s) /\ Leaves(t, q, s)
<1>1. PICK recent \in Timings({"Rewards", "Suggestions", "CloseSuggestions"}),
            afterReward \in Timings({"Suggestions"}),
            expired \in IF owner.armed THEN BOOLEAN ELSE {FALSE} :
        LET before == [o |-> [owner EXCEPT !.armed = @ /\ ~expired], c |-> contexts, u |-> ui,
                       continue |-> FALSE]
            t == IF triggers = <<>> THEN Trigger("Timeout") ELSE Head(triggers)
            q == IF triggers = <<>> THEN triggers ELSE Tail(triggers)
            s == IF triggers = <<>> THEN before ELSE Handled(before, t, recent, afterReward)
            left == IF t.type = "WorkFinished" THEN DOMAIN workers \ {t.gen} ELSE DOMAIN workers
            running == [g \in left |-> workers[g]]
            launch == ~s.continue /\ s.o.pending # 0 /\ Cardinality(left) < SceneWorkers
            live == launch /\ CurrentIn(s.c, s.o.pending)
            o == [s.o EXCEPT !.pending = IF launch THEN 0 ELSE @]
            begun == IF live
                       THEN [g \in left \cup {s.o.pending} |->
                               IF g = s.o.pending THEN "probe" ELSE workers[g]]
                       ELSE running
            grant == ~s.continue /\ (launch => live) /\ Granted(CoordinatorIdle(o, s.c, begun, q))
        IN  /\ triggers = <<>> => launch \/ grant \/ expired
            /\ triggers' = q
            /\ owner' = o
            /\ contexts' = s.c
            /\ ui' = s.u
            /\ workers' = begun
            /\ recording' = (recording \/ (t.type = "Rewards" /\ before.o.armed /\ ~s.o.armed))
            /\ reloadGate' = [reloadGate EXCEPT !.approved = @ \/ grant]
            /\ ending' = (ending \/ grant)
            /\ UNCHANGED <<observed, screen, events>>
  BY DEF Iterate
<1> DEFINE armed == [owner EXCEPT !.armed = @ /\ ~expired]
           before == [o |-> armed, c |-> contexts, u |-> ui, continue |-> FALSE]
           t == IF triggers = <<>> THEN Trigger("Timeout") ELSE Head(triggers)
           q == IF triggers = <<>> THEN triggers ELSE Tail(triggers)
           s == IF triggers = <<>> THEN before ELSE Handled(before, t, recent, afterReward)
<1>2. Leaves(t, q, s)
  <2>0. ~ending
    BY DEF Iterate
  <2>1. ~ending /\ triggers' = q /\ contexts' = s.c /\ ui' = s.u /\ UNCHANGED <<observed,
                                                                                screen>>
    BY <1>1, <2>0, Zenon
  <2>2. owner' = Settled(s, t)
    BY <1>1, Zenon DEF Settled, Launches, Slots
  <2>3. workers' = Begun(s, t)
    BY <1>1, Zenon DEF Begun, Begins, Launches, Slots
  <2>4. reloadGate' = [reloadGate EXCEPT !.approved = @ \/ Grants(s, t, q)]
    BY <1>1, Zenon DEF Grants, Settled, Begun, Begins, Launches, Slots
  <2>5. ending' = (ending \/ Grants(s, t, q))
    BY <1>1, Zenon DEF Grants, Settled, Begun, Begins, Launches, Slots
  <2>6. recording' = (recording \/ (t.type = "Rewards" /\ before.o.armed /\ ~s.o.armed))
    BY <1>1, Zenon
  <2>7. recording' \in BOOLEAN
    BY <2>6, Zenon
  <2> QED
    BY <2>1, <2>2, <2>3, <2>4, <2>5, <2>7, Zenon DEF Leaves
<1>3. owner \in Owner /\ contexts \in Contexts /\ Orderly(owner, contexts) /\ Events(ui)
  BY DEF RelicInv, OwnerInv, Orderly, OverlayInv
<1>4. /\ armed \in Owner /\ armed.generation = owner.generation /\ armed.current = owner.current
      /\ armed.pending = owner.pending /\ armed.lastEra = owner.lastEra
  BY <1>3 DEF Owner
<1> HIDE DEF armed
<1>5. Orderly(armed, contexts)
  BY <1>3, <1>4 DEF Orderly
<1>6. /\ before \in Iteration /\ before.o = armed /\ before.c = contexts /\ before.u = ui
      /\ Ready(before)
  BY <1>3, <1>4, <1>5 DEF Iteration, Ready, Events
<1> HIDE DEF before
<1>7. Follows(before, s, t)
  <2>1. CASE triggers = << >>
    <3>1. s = before /\ t = Trigger("Timeout")
      BY <2>1
    <3>2. ~Forgets(Trigger("Timeout"))
      BY DEF Forgets, Trigger
    <3>3. Follows(before, before, Trigger("Timeout"))
      BY <1>6, <3>2, KeepsFollows
    <3> QED
      BY <3>1, <3>3, Zenon
  <2>2. CASE triggers # << >>
    <3>1. s = Handled(before, Head(triggers), recent, afterReward) /\ t = Head(triggers)
      BY <2>2
    <3>2. /\ Head(triggers) \in Message /\ Plain(Head(triggers))
          /\ Head(triggers).type \in SceneStarts => owner.generation < MaxGen
          /\ Head(triggers).type \in OfWorker =>
               Head(triggers).gen \in Gen /\ Head(triggers).gen <= owner.generation
      <4>1. ~ending
        BY <1>2 DEF Leaves
      <4> QED
        BY <2>2, <4>1, HeadHandled, Zenon
    <3>3. Follows(before, Handled(before, Head(triggers), recent, afterReward), Head(triggers))
      <4>1. before.o.generation = owner.generation
        BY <1>4, <1>6
      <4> QED
        BY <1>6, <3>2, <4>1, HandledFollows, Zenon
    <3> QED
      BY <3>1, <3>3, Zenon
  <2> QED
    BY <2>1, <2>2
<1>8. Takes(before, t, q, s)
  <2> HIDE DEF s
  <2> QED
    BY <1>4, <1>6, <1>7 DEF Takes
<1> QED
  BY <1>2, <1>8, Zenon

\* What the coordinator's state becomes.
LEMMA CoordinatorTaken ==
  ASSUME RelicInv, NEW b, NEW t, NEW q, NEW s, Takes(b, t, q, s), Leaves(t, q, s)
  PROVE  /\ OwnerInv' /\ Events(ui') /\ ending' \in BOOLEAN /\ recording' \in BOOLEAN
         /\ owner'.generation \in Nat /\ owner.generation \in Nat
         /\ owner'.generation = s.o.generation /\ owner'.lastEra = s.o.lastEra
         /\ owner'.pending = (IF Launches(s, t) THEN 0 ELSE s.o.pending)
         /\ s.o.pending \in 0..MaxGen /\ s.o.pending <= s.o.generation
         /\ \/ s.o.generation = owner.generation
            \/ s.o.generation = owner.generation + 1 /\ t.type \in SceneStarts
         /\ \A g \in Gen : g <= owner.generation =>
              contexts'[g].kind = contexts[g].kind /\ contexts'[g].session = contexts[g].session
         /\ s.o.pending \in {0, owner.pending} \/ s.o.pending > owner.generation
<1>1. /\ Orderly(s.o, s.c) /\ Events(s.u)
      /\ \/ s.o.generation = owner.generation
         \/ s.o.generation = owner.generation + 1 /\ t.type \in SceneStarts
      /\ \A g \in Gen : g <= owner.generation =>
           s.c[g].kind = contexts[g].kind /\ s.c[g].session = contexts[g].session
      /\ s.o.pending \in {0, owner.pending} \/ s.o.pending > owner.generation
  BY Zenon DEF Takes, Follows, SameContexts
<1>2. s.o \in Owner /\ s.o.generation \in Nat /\ s.o.pending \in 0..MaxGen
      /\ s.o.pending <= s.o.generation
  BY <1>1 DEF Orderly, Owner
<1>3. /\ owner' = [s.o EXCEPT !.pending = IF Launches(s, t) THEN 0 ELSE @]
      /\ contexts' = s.c /\ ui' = s.u /\ ~ending /\ recording' \in BOOLEAN
      /\ ending' = (ending \/ Grants(s, t, q))
  BY Zenon DEF Leaves, Settled
<1> DEFINE p == IF Launches(s, t) THEN 0 ELSE s.o.pending
<1>4. p \in 0..MaxGen /\ p <= s.o.generation /\ owner' = [s.o EXCEPT !.pending = p]
  <2>1. 0 \in 0..MaxGen /\ 0 <= s.o.generation
    BY <1>2, Constants
  <2>2. CASE Launches(s, t)
    BY <1>3, <2>1, <2>2, Zenon
  <2>3. CASE ~Launches(s, t)
    BY <1>2, <1>3, <2>3, Zenon
  <2> QED
    BY <2>2, <2>3
<1>5. p = (IF Launches(s, t) THEN 0 ELSE s.o.pending)
  OBVIOUS
<1> HIDE DEF p
<1>6. /\ owner' \in Owner /\ owner'.generation = s.o.generation /\ owner'.lastEra = s.o.lastEra
      /\ owner'.current = s.o.current /\ owner'.pending = p
  BY <1>2, <1>4 DEF Owner
<1>7. Orderly(owner', contexts')
  BY <1>1, <1>3, <1>4, <1>6 DEF Orderly
<1>8. OwnerInv'
  BY <1>7 DEF OwnerInv
<1>9. ending' \in BOOLEAN
  BY <1>3, Zenon
<1>10. owner.generation \in Nat
  BY GenerationTyped DEF RelicInv
<1> QED
  BY <1>1, <1>2, <1>3, <1>5, <1>6, <1>8, <1>9, <1>10, Zenon

\* The trigger t left the inbox, which is now q.
Moves(t, q) ==
  /\ \A i \in DOMAIN q : \E j \in DOMAIN triggers : q[i] = triggers[j] /\ (triggers # << >> => j # 1)
  /\ \A j \in DOMAIN triggers : j # 1 => \E i \in DOMAIN q : q[i] = triggers[j]
  /\ t.type \in TriggerTypes => 1 \in DOMAIN triggers /\ t = triggers[1]
  /\ triggers # << >> => 1 \in DOMAIN triggers /\ t = triggers[1]

\* What the inbox becomes.
LEMMA InboxTaken ==
  ASSUME RelicInv, NEW b, NEW t, NEW q, NEW s, Takes(b, t, q, s), Leaves(t, q, s)
  PROVE  InboxInv' /\ Moves(t, q)
<1>1. /\ Fit(triggers) /\ Bounded(triggers) /\ triggers \in Seq(Message)
      /\ owner.generation + Opening(triggers) <= MaxGen
  BY DEF RelicInv, InboxInv, Fit
<1>2. /\ owner'.generation \in Nat /\ owner.generation \in Nat /\ triggers' = q
      /\ \/ owner'.generation = owner.generation
         \/ owner'.generation = owner.generation + 1 /\ t.type \in SceneStarts
  BY CoordinatorTaken, Zenon DEF Leaves
<1>3. CASE triggers = << >>
  <2>1. q = triggers /\ t = Trigger("Timeout")
    BY <1>3, Zenon DEF Takes
  <2>2. t.type \notin TriggerTypes /\ t.type \notin SceneStarts
    BY <2>1 DEF Trigger, TriggerTypes, SceneStarts, Control
  <2>3. InboxInv'
    BY <1>1, <1>2, <2>1, <2>2 DEF InboxInv
  <2>4. DOMAIN triggers = {} /\ DOMAIN q = {}
    BY <1>3, <2>1
  <2> QED
    BY <1>3, <2>2, <2>3, <2>4 DEF Moves
<1>4. CASE triggers # << >>
  <2>1. q = Tail(triggers) /\ t = Head(triggers)
    BY <1>4, Zenon DEF Takes
  <2>2. /\ q \in Seq(Message) /\ 1 \in 1..Len(triggers) /\ t = triggers[1] /\ t \in Message
        /\ Without(q, triggers, 1)
    BY <1>1, <1>4, <2>1, TailThins
  <2>3. 1 \in DOMAIN triggers
    BY <1>1, <2>2, LenProperties
  <2>4. /\ Fit(q)
        /\ \A i \in DOMAIN q : \E j \in DOMAIN triggers : j # 1 /\ q[i] = triggers[j]
        /\ \A j \in DOMAIN triggers : j # 1 => \E i \in DOMAIN q : q[i] = triggers[j]
    BY <1>1, <2>2, WithoutFit, Zenon
  <2>5. /\ \A c \in BOOLEAN : /\ Used(q, c) \in Nat /\ Used(triggers, c) \in Nat
                              /\ Used(q, c) <= Used(triggers, c)
        /\ Opening(q) \in Nat /\ Opening(triggers) \in Nat /\ Opening(q) <= Opening(triggers)
        /\ t.type \in SceneStarts => Opening(q) + 1 <= Opening(triggers)
    BY <1>1, <2>2, WithoutCounts, Zenon
  <2>6. Bounded(q)
    <3>1. DataItems \in Nat /\ ControlItems \in Nat /\ TRUE \in BOOLEAN /\ FALSE \in BOOLEAN
      BY RelicAssumption
    <3> QED
      BY <1>1, <2>5, <3>1, OneWithin, Zenon DEF Bounded
  <2>7. owner'.generation + Opening(q) <= MaxGen
    BY <1>1, <1>2, <2>5, Constants
  <2>8. InboxInv'
    BY <1>2, <2>4, <2>6, <2>7 DEF InboxInv
  <2> QED
    BY <2>2, <2>3, <2>4, <2>8, Zenon DEF Moves
<1> QED
  BY <1>3, <1>4

\* A worker that has begun has the slot of a context that waited; the others have kept theirs,
\* but for the one whose last message came.
LEMMA WorkersTaken ==
  ASSUME RelicInv, NEW b, NEW t, NEW q, NEW s, Takes(b, t, q, s), Leaves(t, q, s)
  PROVE  /\ WorkersInv'
         /\ Slots(t) \subseteq DOMAIN workers /\ Slots(t) \subseteq DOMAIN workers'
         /\ \A g \in Slots(t) : workers'[g] = workers[g] /\ g <= owner.generation
         /\ \A g \in DOMAIN workers' : g \in Slots(t) \/ workers'[g] = "probe"
<1>1. /\ workers \in [DOMAIN workers -> Stages] /\ DOMAIN workers \subseteq Gen
      /\ Cardinality(DOMAIN workers) <= SceneWorkers /\ Cardinality(DOMAIN workers) \in Nat
      /\ IsFiniteSet(DOMAIN workers)
      /\ \A g \in DOMAIN workers : g <= owner.generation
      /\ owner.pending # 0 => owner.pending \notin DOMAIN workers
  BY WorkersFinite DEF RelicInv, WorkersInv
<1>2. /\ owner'.generation \in Nat /\ owner.generation \in Nat
      /\ owner'.generation = s.o.generation
      /\ owner'.pending = (IF Launches(s, t) THEN 0 ELSE s.o.pending)
      /\ s.o.pending \in 0..MaxGen /\ s.o.pending <= s.o.generation
      /\ s.o.generation = owner.generation \/ s.o.generation = owner.generation + 1
      /\ s.o.pending \in {0, owner.pending} \/ s.o.pending > owner.generation
  BY CoordinatorTaken, Zenon
<1>3. workers' = Begun(s, t)
  BY Zenon DEF Leaves
<1> DEFINE L == Slots(t)  p == s.o.pending
<1>4. L \subseteq DOMAIN workers
  BY DEF Slots
<1>5. IsFiniteSet(L) /\ Cardinality(L) \in Nat /\ Cardinality(L) <= SceneWorkers
  <2>1. IsFiniteSet(L) /\ Cardinality(L) <= Cardinality(DOMAIN workers)
    BY <1>1, <1>4, FS_Subset
  <2>2. Cardinality(L) \in Nat
    BY <2>1, FS_CardinalityType
  <2> QED
    BY <1>1, <2>1, <2>2, Constants
<1>6. p # 0 => p \notin L /\ p \in Gen
  BY <1>1, <1>2, <1>4, Constants DEF Gen
<1>7. \A g \in L : g \in Gen /\ g <= owner.generation /\ g <= owner'.generation
                   /\ workers[g] \in Stages
  BY <1>1, <1>2, <1>4 DEF Gen
<1> HIDE DEF L
<1>8. CASE Begins(s, t)
  <2>1. Launches(s, t) /\ p # 0 /\ Cardinality(L) < SceneWorkers
    BY <1>8 DEF Begins, Launches, L
  <2> HIDE DEF p
  <2>2. workers' = [g \in L \cup {p} |-> IF g = p THEN "probe" ELSE workers[g]]
    BY <1>3, <1>8, Zenon DEF Begun, L, p
  <2>3. DOMAIN workers' = L \cup {p} /\ workers' \in [L \cup {p} -> Stages]
    BY <1>7, <2>2 DEF Stages
  <2>4. Cardinality(L \cup {p}) <= SceneWorkers
    <3>1. Cardinality(L \cup {p}) = Cardinality(L) + 1
      BY <1>5, <1>6, <2>1, FS_AddElement
    <3> QED
      BY <1>5, <2>1, <3>1, Constants
  <2>5. owner'.pending = 0
    BY <1>2, <2>1
  <2>6. p <= owner'.generation
    BY <1>2 DEF p
  <2>7. WorkersInv'
    BY <1>6, <1>7, <2>1, <2>3, <2>4, <2>5, <2>6 DEF WorkersInv
  <2>8. \A g \in L : workers'[g] = workers[g]
    BY <1>6, <2>1, <2>2
  <2>9. workers'[p] = "probe"
    BY <2>2
  <2> QED
    BY <1>4, <1>7, <2>3, <2>7, <2>8, <2>9 DEF L
<1>9. CASE ~Begins(s, t)
  <2>1. workers' = [g \in L |-> workers[g]]
    BY <1>3, <1>9, Zenon DEF Begun, L
  <2>2. DOMAIN workers' = L /\ workers' \in [L -> Stages] /\ \A g \in L : workers'[g] = workers[g]
    BY <1>7, <2>1
  <2>3. owner'.pending # 0 => owner'.pending \notin L
    BY <1>2, <1>6
  <2>4. WorkersInv'
    BY <1>5, <1>7, <2>2, <2>3 DEF WorkersInv
  <2> QED
    BY <1>4, <1>7, <2>2, <2>4 DEF L
<1> QED
  BY <1>8, <1>9

\* The messages of the worker whose completion was taken are all taken, and no completion
\* is taken without its worker.
LEMMA MailTaken ==
  ASSUME RelicInv, NEW b, NEW t, NEW q, NEW s, Takes(b, t, q, s), Leaves(t, q, s)
  PROVE  MailInv'
<1>0. triggers' = q /\ ~ending
  BY Zenon DEF Leaves
<1>1. /\ triggers' = q /\ ~ending
      /\ \A i \in DOMAIN q : \E j \in DOMAIN triggers : q[i] = triggers[j] /\ (triggers # << >> => j # 1)
      /\ \A j \in DOMAIN triggers : j # 1 => \E i \in DOMAIN q : q[i] = triggers[j]
      /\ t.type \in TriggerTypes => 1 \in DOMAIN triggers /\ t = triggers[1]
      /\ triggers # << >> => 1 \in DOMAIN triggers /\ t = triggers[1]
  <2>1. Moves(t, q)
    BY InboxTaken, Zenon
  <2> QED
    BY <1>0, <2>1, Zenon DEF Moves
<1>2. /\ Slots(t) \subseteq DOMAIN workers /\ Slots(t) \subseteq DOMAIN workers'
      /\ \A g \in Slots(t) : workers'[g] = workers[g] /\ g <= owner.generation
      /\ \A g \in DOMAIN workers' : g \in Slots(t) \/ workers'[g] = "probe"
  BY WorkersTaken, Zenon
<1>3. /\ Fit(triggers) /\ DOMAIN workers \subseteq Gen /\ CompletionsArrive
      /\ \A i \in DOMAIN triggers : Explained(triggers[i], workers, contexts)
  BY <1>1 DEF RelicInv, InboxInv, WorkersInv, MailInv
<1>4. \A g \in Gen : g <= owner.generation => contexts'[g].kind = contexts[g].kind
  BY CoordinatorTaken, Zenon
<1>5. \A i \in DOMAIN triggers : triggers[i] \in Message
  <2>1. triggers \in Seq(Message)
    BY <1>3 DEF Fit
  <2> QED
    BY <2>1, LenProperties, ElementOfSeq
<1>6. ASSUME NEW i \in DOMAIN q
      PROVE  Explained(q[i], workers', contexts')
  <2>1. PICK j \in DOMAIN triggers : q[i] = triggers[j] /\ (triggers # << >> => j # 1)
    BY <1>1, Zenon
  <2>2. triggers # << >>
    OBVIOUS
  <2>3. j # 1 /\ 1 \in DOMAIN triggers /\ t = triggers[1]
    BY <1>1, <2>1, <2>2, Zenon
  <2> DEFINE m == triggers[j]
  <2>4. Explained(m, workers, contexts)
    BY <1>3
  <2>5. ASSUME t.type = "WorkFinished", m.type \in OfWorker, m.gen = t.gen
        PROVE  FALSE
    <3>1. CASE m.type = "WorkFinished"
      <4>1. IsControl(m) /\ m.type = t.type
        BY <2>5, <3>1 DEF IsControl, Control
      <4>2. j = 1
        BY <1>3, <2>3, <2>5, <4>1, Zenon DEF Fit, Distinct
      <4> QED
        BY <2>3, <4>2
    <3>2. CASE m.type = "SuggestionReady"
      <4>1. j < 1
        BY <1>3, <2>3, <2>5, <3>2, Zenon DEF Fit, CompletionLast
      <4>2. j \in 1..Len(triggers) /\ Len(triggers) \in Nat
        <5>1. triggers \in Seq(Message)
          BY <1>3 DEF Fit
        <5> QED
          BY <5>1, LenProperties
      <4> QED
        BY <4>1, <4>2
    <3> QED
      BY <2>5, <3>1, <3>2 DEF OfWorker
  <2> HIDE DEF m
  <2>6. ASSUME m.type \in OfWorker
        PROVE  m.gen \in Slots(t)
    BY <2>4, <2>5, <2>6 DEF Slots, Explained
  <2>7. ASSUME m.type \in OfWorker
        PROVE  /\ workers'[m.gen] = workers[m.gen] /\ m.gen \in DOMAIN workers'
               /\ contexts'[m.gen].kind = contexts[m.gen].kind
    BY <1>2, <1>3, <1>4, <2>6, <2>7
  <2>8. Explained(m, workers', contexts')
    BY <2>4, <2>7 DEF Explained
  <2> QED
    BY <2>1, <2>8, Zenon DEF m
<1>7. CompletionsArrive'
  <2> SUFFICES ASSUME NEW g \in DOMAIN workers', workers'[g] = "ended"
               PROVE  \E i \in DOMAIN q : q[i].type = "WorkFinished" /\ q[i].gen = g
    BY <1>1 DEF CompletionsArrive
  <2>1. g \in Slots(t) /\ g \in DOMAIN workers /\ workers[g] = "ended"
    BY <1>2
  <2>2. PICK j \in DOMAIN triggers : triggers[j].type = "WorkFinished" /\ triggers[j].gen = g
    BY <1>3, <2>1 DEF CompletionsArrive
  <2>3. j # 1
    <3>1. ASSUME j = 1
          PROVE  FALSE
      <4>1. triggers # << >>
        OBVIOUS
      <4>2. t = triggers[1]
        BY <1>1, <4>1, Zenon
      <4>3. t.type = "WorkFinished" /\ t.gen = g
        BY <2>2, <3>1, <4>2, Zenon
      <4> QED
        BY <2>1, <4>3 DEF Slots
    <3> QED
      BY <3>1
  <2>4. PICK i \in DOMAIN q : q[i] = triggers[j]
    BY <1>1, <2>3, Zenon
  <2> QED
    BY <2>2, <2>4, Zenon
<1> QED
  BY <1>1, <1>6, <1>7 DEF MailInv

\* The era the coordinator knows afterwards.
LEMMA EraTaken ==
  ASSUME RelicInv, NEW b, NEW t, NEW q, NEW s, Takes(b, t, q, s), Leaves(t, q, s)
  PROVE  EraOfThisGame'
<1>0. triggers' = q /\ ~ending /\ UNCHANGED observed
  BY DEF Leaves
<1>1. /\ triggers' = q /\ ~ending /\ UNCHANGED observed
      /\ \A j \in DOMAIN triggers : j # 1 => \E i \in DOMAIN q : q[i] = triggers[j]
      /\ t.type \in TriggerTypes => 1 \in DOMAIN triggers /\ t = triggers[1]
      /\ triggers # << >> => 1 \in DOMAIN triggers /\ t = triggers[1]
  <2>1. Moves(t, q)
    BY InboxTaken, Zenon
  <2> QED
    BY <1>0, <2>1, Zenon DEF Moves
<1>2. /\ owner'.lastEra = s.o.lastEra
      /\ \A g \in Gen : g <= owner.generation =>
           contexts'[g].kind = contexts[g].kind /\ contexts'[g].session = contexts[g].session
  BY CoordinatorTaken, Zenon
<1>3. /\ b.c = contexts /\ b.o.lastEra = owner.lastEra /\ EraFrom(b, s, t)
      /\ Forgets(t) => s.o.lastEra = 0
  BY DEF Takes, Follows, Forgets
<1>4. owner \in Owner /\ owner.lastEra <= owner.generation /\ Orderly(owner, contexts)
  BY DEF RelicInv, OwnerInv, Orderly
<1> SUFFICES ASSUME s.o.lastEra # 0
             PROVE  \/ contexts'[s.o.lastEra].session = observed.number /\ ~observed.reported
                    \/ \E i \in DOMAIN q : Forgets(q[i])
  BY <1>1, <1>2 DEF EraOfThisGame, Forgets
<1>5. CASE s.o.lastEra = owner.lastEra
  <2>1. owner.lastEra \in Gen
    BY <1>4, <1>5, Constants DEF Owner
  <2>2. CASE contexts[owner.lastEra].session = observed.number /\ ~observed.reported
    BY <1>2, <1>4, <1>5, <2>1, <2>2
  <2>3. CASE \E j \in DOMAIN triggers : Forgets(triggers[j])
    <3>1. PICK j \in DOMAIN triggers : Forgets(triggers[j])
      BY <2>3
    <3>2. triggers # << >>
      OBVIOUS
    <3>3. ~Forgets(t) /\ t = triggers[1]
      BY <1>1, <1>3, <3>2, Zenon
    <3>4. j # 1
      BY <3>1, <3>3, Zenon
    <3>5. PICK i \in DOMAIN q : q[i] = triggers[j]
      BY <1>1, <3>4, Zenon
    <3> QED
      BY <3>1, <3>5, Zenon
  <2> QED
    BY <1>5, <2>2, <2>3 DEF RelicInv, EraOfThisGame, Forgets
<1>6. CASE s.o.lastEra # owner.lastEra
  <2>1. t.type \in OfWorker /\ t.era /\ s.o.lastEra = t.gen /\ CurrentIn(contexts, t.gen)
    BY <1>3, <1>6 DEF EraFrom
  <2>2. 1 \in DOMAIN triggers /\ t = triggers[1]
    BY <1>1, <2>1 DEF OfWorker, TriggerTypes, Control
  <2>3. Explained(t, workers, contexts)
    <3>1. Explained(triggers[1], workers, contexts)
      BY <1>1, <2>2 DEF RelicInv, MailInv
    <3> QED
      BY <2>2, <3>1, Zenon
  <2>4. /\ t.gen \in Gen /\ t.gen <= owner.generation
        /\ contexts[t.gen].kind = "Suggestions"
    BY <2>1, <2>3 DEF Explained, RelicInv, WorkersInv
  <2>5. contexts[t.gen].session # 0
    BY <1>4, <2>4 DEF Orderly
  <2>6. contexts[t.gen].session = observed.number /\ observed.live
    BY <2>1, <2>5 DEF CurrentIn, SessionCurrent
  <2>7. ~observed.reported
    BY <2>6 DEF RelicInv, SessionInv
  <2> QED
    BY <1>2, <2>1, <2>4, <2>6, <2>7
<1> QED
  BY <1>5, <1>6

\* One iteration of the coordinator keeps the invariant.
LEMMA IterateKeeps ==
  ASSUME RelicInv, Iterate
  PROVE  RelicInv'
<1>1. PICK b, t, q, s : Takes(b, t, q, s) /\ Leaves(t, q, s)
  BY IterateTakes
<1>2. OwnerInv' /\ Events(ui') /\ ending' \in BOOLEAN /\ recording' \in BOOLEAN
  BY <1>1, CoordinatorTaken, Zenon
<1>3. InboxInv' /\ WorkersInv' /\ MailInv' /\ EraOfThisGame'
  BY <1>1, InboxTaken, WorkersTaken, MailTaken, EraTaken, Zenon
<1>4. /\ reloadGate' = [reloadGate EXCEPT !.approved = @ \/ Grants(s, t, q)]
      /\ UNCHANGED <<observed, screen>>
  BY <1>1, Zenon DEF Leaves
<1>5. SessionInv'
  BY <1>4, SessionStays DEF RelicInv
<1>6. /\ reloadGate' \in [requested : BOOLEAN, approved : BOOLEAN, interactive : BOOLEAN]
      /\ reloadGate'.interactive = reloadGate.interactive
  <2>1. reloadGate \in [requested : BOOLEAN, approved : BOOLEAN, interactive : BOOLEAN]
    BY DEF RelicInv, OverlayInv
  <2> DEFINE grant == reloadGate.approved \/ Grants(s, t, q)
  <2>2. grant \in BOOLEAN
    BY Zenon
  <2>3. reloadGate' = [reloadGate EXCEPT !.approved = grant]
    BY <1>4
  <2> HIDE DEF grant
  <2> QED
    BY <2>1, <2>2, <2>3
<1>7. OverlayInv'
  BY <1>2, <1>4, <1>6 DEF RelicInv, OverlayInv, InputReturned, Allowed
<1> QED
  BY <1>2, <1>3, <1>5, <1>7 DEF RelicInv, FlagsInv

(***************************************************************************)
(* The specification.                                                      *)
(***************************************************************************)
LEMMA StepKeeps ==
  ASSUME RelicInv, RelicNext
  PROVE  RelicInv'
<1>1. CASE Iterate
  BY <1>1, IterateKeeps
<1>2. CASE CoordinatorEnds
  BY <1>2, EndsKeeps
<1>3. CASE \E g \in DOMAIN workers : Work(g)
  BY <1>3, WorkKeeps
<1>4. CASE Recorded
  BY <1>4, RecordedKeeps
<1>5. CASE OverlayActs
  BY <1>5, ApplyKeeps, TickKeeps, PressShortcutKeeps, CloseSceneKeeps, LeaveSceneKeeps,
     OverlayEndsKeeps, DropEventsKeeps DEF OverlayActs, OverlayCloses, OverlayStops
<1>6. CASE ToCoordinator
  BY <1>6, ObserveKeeps, AskKeeps, RetireKeeps, ReportStopKeeps, NextGameKeeps
     DEF ToCoordinator
<1>7. CASE \E g \in Gen : SceneExpires(g)
  BY <1>7, ExpireKeeps
<1>8. CASE RequestReload
  BY <1>8, RequestReloadKeeps
<1>9. CASE Stop
  BY <1>9, StopKeeps
<1> QED
  BY <1>1, <1>2, <1>3, <1>4, <1>5, <1>6, <1>7, <1>8, <1>9 DEF RelicNext

\* A step of something else keeps it.
LEMMA StutterKeeps ==
  ASSUME RelicInv, UNCHANGED relicVars
  PROVE  RelicInv'
<1>1. UNCHANGED <<observed, triggers, owner, contexts, workers, recording, ui, screen,
                  reloadGate, ending>>
  BY DEF relicVars
<1>2. EraOfThisGame'
  BY <1>1, EraStays DEF RelicInv
<1> QED
  BY <1>1, <1>2, SessionStays, InboxStays, OwnerStays, WorkersStay, MailStays, OverlayStays,
     FlagsStay DEF RelicInv, SameKinds

\* A queue with at most one trigger, an image.
LEMMA FirstInbox ==
  ASSUME NEW q, q \in {<< >>, <<Trigger("Screenshot")>>}
  PROVE  /\ Fit(q) /\ Bounded(q) /\ Opening(q) <= MaxGen
         /\ \A i \in DOMAIN q : q[i].type \notin OfWorker
<1> DEFINE e == << >>  t == Trigger("Screenshot")
<1>1. e \in Seq(Message) /\ DOMAIN e = {}
  BY EmptySeq
<1>2. Fit(e)
  BY <1>1 DEF Fit, Distinct, CompletionLast
<1>3. /\ \A c \in BOOLEAN : Used(e, c) = 0
      /\ Opening(e) = 0
  <2>1. Cardinality({}) = 0
    BY FS_EmptySet
  <2> QED
    BY <1>1, <2>1 DEF Used, Opening
<1>4. /\ DataItems \in Nat \ {0} /\ ControlItems \in Nat \ {0} /\ MaxGen \in Nat \ {0}
      /\ TRUE \in BOOLEAN /\ FALSE \in BOOLEAN
      /\ \A n \in Nat \ {0} : 0 <= n /\ 0 + 1 <= n
  BY RelicAssumption
<1>5. /\ t \in Message /\ Plain(t) /\ t.type = "Screenshot" /\ t.type \notin OfWorker
      /\ t.type \in SceneStarts /\ (IsControl(t) <=> FALSE)
  <2>1. "Screenshot" \in TriggerTypes \ (OfWorker \cup {"Rewards", "Suggestions"})
    BY DEF TriggerTypes, OfWorker, SceneStarts, Control
  <2> QED
    BY <2>1, PostedTyped DEF OfWorker, SceneStarts, IsControl, Control
<1> HIDE DEF e, t
<1>6. CASE q = e
  <2>1. Bounded(e) /\ Opening(e) <= MaxGen
    BY <1>3, <1>4, Zenon DEF Bounded
  <2> QED
    BY <1>1, <1>2, <1>6, <2>1, Zenon
<1>7. CASE q = <<t>>
  <2>1. q = Append(e, t)
    BY <1>7 DEF e
  <2>2. /\ Fit(q) /\ \A i \in DOMAIN q : i \in DOMAIN e \/ q[i] = t
    <3>1. \A i \in DOMAIN e : ~(IsControl(t) /\ e[i].type = t.type /\ e[i].gen = t.gen)
      BY <1>1
    <3>2. t.type # "SuggestionReady"
      BY <1>5
    <3> QED
      BY <1>2, <1>5, <2>1, <3>1, <3>2, AppendFit, Zenon
  <2>3. IsControl(t) = FALSE
    BY <1>5 DEF IsControl
  <2>4. Used(q, FALSE) = 0 + 1 /\ Used(q, TRUE) = 0 /\ Opening(q) = 0 + 1
    <3>1. /\ Used(Append(e, t), IsControl(t)) = Used(e, IsControl(t)) + 1
          /\ \A c \in BOOLEAN : c # IsControl(t) => Used(Append(e, t), c) = Used(e, c)
          /\ Opening(Append(e, t)) = Opening(e) + 1
      BY <1>1, <1>5, AppendCounts, Zenon
    <3>2. TRUE # FALSE
      OBVIOUS
    <3> QED
      BY <1>3, <1>4, <2>1, <2>3, <3>1, <3>2, Zenon
  <2>5. Bounded(q) /\ Opening(q) <= MaxGen
    BY <1>4, <2>4, Zenon DEF Bounded
  <2> QED
    BY <1>1, <1>5, <2>2, <2>5
<1> QED
  BY <1>6, <1>7 DEF e, t

\* It holds at the start, with or without an image to read.
LEMMA InitKeeps == RelicInit => RelicInv
<1> SUFFICES ASSUME RelicInit PROVE RelicInv
  OBVIOUS
<1>1. /\ observed = [number |-> 1, live |-> TRUE, reported |-> FALSE]
      /\ triggers \in {<< >>, <<Trigger("Screenshot")>>}
      /\ owner = Fresh(0) /\ contexts = [g \in Gen |-> NoContext] /\ workers = << >>
      /\ recording = FALSE /\ ui = << >> /\ ending = FALSE
  BY DEF RelicInit
<1>2. SessionInv
  BY <1>1, RelicAssumption DEF SessionInv
<1>3. /\ owner \in Owner /\ owner.generation = 0 /\ owner.pending = 0 /\ owner.lastEra = 0
      /\ owner.current = 0
  <2>1. 0 \in 0..MaxGen
    BY Constants
  <2> QED
    BY <1>1, <2>1, FreshTyped
<1>4. InboxInv
  <2>1. Fit(triggers) /\ Bounded(triggers) /\ Opening(triggers) <= MaxGen
    BY <1>1, FirstInbox
  <2>2. Opening(triggers) \in Nat
    <3>1. triggers \in Seq(Message)
      BY <2>1 DEF Fit
    <3> QED
      BY <3>1, GapIsMessage, AppendCounts
  <2>3. owner.generation + Opening(triggers) <= MaxGen
    BY <1>3, <2>1, <2>2
  <2> QED
    BY <2>1, <2>3 DEF InboxInv
<1>5. OwnerInv
  <2>1. NoContext \in Context /\ NoContext.cancelled /\ NoContext.kind = "none"
    BY Constants DEF NoContext, Context
  <2>2. contexts \in Contexts /\ \A g \in Gen : contexts[g] = NoContext
    BY <1>1, <2>1 DEF Contexts
  <2> QED
    BY <1>3, <2>1, <2>2 DEF OwnerInv, Orderly
<1>6. DOMAIN workers = {}
  BY <1>1
<1>7. WorkersInv
  <2>1. Cardinality({}) = 0
    BY FS_EmptySet
  <2>2. workers \in [DOMAIN workers -> Stages]
    BY <1>1
  <2> QED
    BY <1>3, <1>6, <2>1, <2>2, Constants DEF WorkersInv
<1>8. MailInv
  <2>1. \A i \in DOMAIN triggers : triggers[i].type \notin OfWorker
    BY <1>1, FirstInbox
  <2> QED
    BY <1>6, <2>1 DEF MailInv, CompletionsArrive, Explained
<1>9. OverlayInv
  <2>1. Events(ui)
    <3>1. ui \in Seq(UiEvent) /\ Len(ui) = 0 /\ DOMAIN ui = {}
      BY <1>1, EmptySeq
    <3> QED
      BY <3>1, Constants DEF Events
  <2>2. /\ screen = [alive |-> TRUE, focus |-> TRUE, context |-> 0, scene |-> "none",
                     dismissed |-> FALSE, interactive |-> FALSE, scope |-> FALSE,
                     ticking |-> FALSE]
        /\ reloadGate = [requested |-> FALSE, approved |-> FALSE, interactive |-> FALSE]
    BY DEF RelicInit
  <2>3. screen \in Screen
    BY <2>2, Constants DEF Screen, Scenes
  <2> QED
    BY <2>1, <2>2, <2>3 DEF OverlayInv, InputReturned
<1>10. FlagsInv
  BY <1>1 DEF FlagsInv
<1>11. EraOfThisGame
  BY <1>3 DEF EraOfThisGame
<1> QED
  BY <1>2, <1>4, <1>5, <1>7, <1>8, <1>9, <1>10, <1>11 DEF RelicInv

\* The inductive invariant holds: Init, every step, nothing else.
THEOREM RelicInvariant == RelicSpec => []RelicInv
<1>1. RelicInit => RelicInv
  BY InitKeeps
<1>2. RelicInv /\ [RelicNext]_relicVars => RelicInv'
  BY StepKeeps, StutterKeeps
<1> QED
  BY <1>1, <1>2, PTL DEF RelicSpec

\* Every variable of the coordinator, its workers and the overlay keeps its type, and the
\* channels keep their limits (relic/inbox.rs, relic/lifecycle.rs).
THEOREM RelicTypesKept == RelicSpec => []RelicTypeOK
BY RelicInvariant, RelicTypes, PTL

\* The completion of a worker whose thread has ended is in the inbox, however full that is
\* (relic/inbox.rs, relic/lifecycle.rs).
THEOREM NoCompletionLost == RelicSpec => []CompletionsArrive
BY RelicInvariant, RelicTypes, PTL

\* At most the coordinator's context is current, the era it lends is of the game that runs,
\* and the pointer is held over a usable scene only (relic/lifecycle.rs, overlay/runtime.rs).
THEOREM ContextsStayInOrder == RelicSpec => []ContextsInOrder
BY RelicInvariant, RelicTypes, PTL

(***************************************************************************)
(* The steps that bring a scene to the screen, or grant a reload.          *)
(***************************************************************************)
\* A context that is current is the coordinator's own.
LEMMA CurrentIsOwn ==
  ASSUME RelicInv, NEW g \in 0..MaxGen, g # 0, ContextCurrent(g)
  PROVE  owner.current = g
BY Constants DEF RelicInv, OwnerInv, Orderly, ContextCurrent, CurrentIn

\* The steps that change the screen.
LEMMA ScreenSteps ==
  ASSUME RelicInv, RelicNext
  PROVE  UNCHANGED screen \/ Apply \/ OverlayTick \/ CloseScene \/ LeaveScene \/ OverlayEnds
<1>1. ASSUME NEW g \in DOMAIN workers, Work(g)
      PROVE  UNCHANGED screen
  BY <1>1 DEF Work, Probe, Late, Remember, NoEra, Photograph, ScanRewards, Recognize, Recommend, Identify,
              Price, Enrich, Illustrate, FinishWork, Advance
<1>2. ASSUME Iterate
      PROVE  UNCHANGED screen
  <2>1. PICK b, t, q, s : Takes(b, t, q, s) /\ Leaves(t, q, s)
    BY <1>2, IterateTakes
  <2> QED
    BY <2>1, Zenon DEF Leaves
<1> QED
  BY <1>1, <1>2
     DEF RelicNext, CoordinatorEnds, Recorded, OverlayActs, PressShortcut, OverlayCloses, OverlayStops,
         DropEvents, ToCoordinator, Observe, CaptureCommand, Post, Retire, ReportStop, NextGame, SceneExpires,
         RequestReload, Stop

\* Only an accepted event brings a scene, in the coordinator's own context.
LEMMA ScenesAreCurrent ==
  ASSUME RelicInv, RelicNext
  PROVE  OnlyCurrentScenes
<1>1. screen \in Screen
  BY DEF RelicInv, OverlayInv
<1>2. CASE UNCHANGED screen
  BY <1>2 DEF OnlyCurrentScenes
<1>3. CASE Apply
  <2>1. PICK late \in {FALSE, Head(ui).scene = "Error"} :
          screen' = [Applied(Head(ui), late) EXCEPT !.ticking = TRUE]
    BY <1>3 DEF Apply
  <2> DEFINE e == Head(ui)  s == Applied(e, late)
  <2>2. e \in UiEvent /\ (e.type \in {"RelicStart", "RelicScene"} => e.gen # 0)
    BY <1>3, EventsTail DEF RelicInv, OverlayInv, Apply
  <2> HIDE DEF e
  <2>3. s \in Screen
    BY <2>2, AppliedTyped DEF RelicInv
  <2>4. CASE e.type = "RelicScene" /\ Accepts(e, late)
    <3>1. s = [screen EXCEPT !.scene = e.scene, !.dismissed = FALSE]
      BY <2>4 DEF Applied
    <3>2. s.context = screen.context
      BY <1>1, <3>1 DEF Screen
    <3>3. screen.context = e.gen /\ ContextCurrent(e.gen) /\ e.gen \in 0..MaxGen /\ e.gen # 0
      BY <2>2, <2>4 DEF Accepts, UiEvent
    <3>4. owner.current = e.gen
      BY <3>3, CurrentIsOwn
    <3>5. screen'.context = s.context
      <4> HIDE DEF s
      <4> QED
        BY <2>1, <2>3 DEF Screen, e, s
    <3> QED
      BY <3>2, <3>3, <3>4, <3>5 DEF OnlyCurrentScenes
  <2>5. CASE ~(e.type = "RelicScene" /\ Accepts(e, late))
    <3>1. s.scene \in {"none", screen.scene}
      <4>1. CASE e.type = "RelicStart" /\ ContextCurrent(e.gen)
        <5>1. s = [screen EXCEPT !.context = e.gen, !.scene = "none", !.dismissed = FALSE]
          BY <4>1 DEF Applied
        <5> QED
          BY <1>1, <5>1 DEF Screen
      <4>2. CASE e.type = "RelicDismiss" /\ (screen.context = 0 \/ ~ContextCurrent(screen.context))
        <5>1. s = [screen EXCEPT !.scene = "none", !.context = 0]
          BY <4>2 DEF Applied
        <5> QED
          BY <1>1, <5>1 DEF Screen
      <4>3. CASE e.type = "InteractionToggle"
        <5>1. s = WithInteraction(screen, ~screen.interactive)
          BY <4>3 DEF Applied
        <5> QED
          BY <1>1, <5>1 DEF Screen, WithInteraction
      <4>4. CASE /\ ~(e.type = "RelicStart" /\ ContextCurrent(e.gen))
                 /\ ~(e.type = "RelicDismiss" /\ (screen.context = 0 \/ ~ContextCurrent(screen.context)))
                 /\ e.type # "InteractionToggle"
        <5>1. s = screen
          BY <2>5, <4>4 DEF Applied
        <5> QED
          BY <5>1
      <4> QED
        BY <4>1, <4>2, <4>3, <4>4
    <3>2. screen'.scene = s.scene
      <4> HIDE DEF s
      <4> QED
        BY <2>1, <2>3 DEF Screen, e, s
    <3> QED
      BY <3>1, <3>2 DEF OnlyCurrentScenes
  <2> QED
    BY <2>4, <2>5
<1>4. CASE OverlayTick
  <2>1. screen'.scene \in {"none", screen.scene}
    <3>1. PICK focus \in BOOLEAN, over \in {FALSE, screen.scene = "Error"} :
            LET s == IF over THEN [screen EXCEPT !.scene = "none"] ELSE Expired(screen)
            IN  screen' = [Scoped([s EXCEPT !.focus = focus]) EXCEPT !.ticking = FALSE]
      BY <1>4 DEF OverlayTick
    <3> DEFINE s == IF over THEN [screen EXCEPT !.scene = "none"] ELSE Expired(screen)
    <3>2. s \in Screen /\ s.scene \in {"none", screen.scene}
      BY <1>1 DEF Screen, Scenes, Expired
    <3>3. screen' = [Scoped([s EXCEPT !.focus = focus]) EXCEPT !.ticking = FALSE]
      BY <3>1
    <3> HIDE DEF s
    <3>4. screen'.scene = s.scene
      BY <3>2, <3>3 DEF Screen, Scoped, WithInteraction
    <3> QED
      BY <3>2, <3>4
  <2> QED
    BY <2>1 DEF OnlyCurrentScenes
<1>5. CASE CloseScene
  <2>1. screen'.scene = "none"
    BY <1>1, <1>5 DEF CloseScene, WithInteraction, Screen
  <2> QED
    BY <2>1 DEF OnlyCurrentScenes
<1>6. CASE LeaveScene
  <2>1. screen'.scene = screen.scene
    BY <1>1, <1>6 DEF LeaveScene, WithInteraction, Screen
  <2> QED
    BY <2>1 DEF OnlyCurrentScenes
<1>7. CASE OverlayEnds
  <2>1. screen'.scene = screen.scene
    BY <1>1, <1>7 DEF OverlayEnds, Screen
  <2> QED
    BY <2>1 DEF OnlyCurrentScenes
<1> QED
  BY <1>2, <1>3, <1>4, <1>5, <1>6, <1>7, ScreenSteps

\* Only the coordinator grants a reload.
LEMMA GrantSteps ==
  ASSUME RelicInv, RelicNext, ~Iterate
  PROVE  reloadGate'.approved = reloadGate.approved
<1>1. reloadGate \in [requested : BOOLEAN, approved : BOOLEAN, interactive : BOOLEAN]
  BY DEF RelicInv, OverlayInv
<1>2. ASSUME NEW g \in DOMAIN workers, Work(g)
      PROVE  UNCHANGED reloadGate
  BY <1>2 DEF Work, Probe, Late, Remember, NoEra, Photograph, ScanRewards, Recognize, Recommend, Identify,
              Price, Enrich, Illustrate, FinishWork, Advance
<1>3. CASE UNCHANGED reloadGate
  BY <1>3
<1>4. CASE TellGate
  BY <1>1, <1>4 DEF TellGate
<1>5. CASE RequestReload
  BY <1>1, <1>5 DEF RequestReload
<1>6. UNCHANGED reloadGate \/ TellGate \/ RequestReload
  BY <1>2
     DEF RelicNext, CoordinatorEnds, Recorded, OverlayActs, Apply, OverlayTick, PressShortcut, CloseScene, LeaveScene,
         OverlayCloses, OverlayStops, OverlayEnds, DropEvents, ToCoordinator, Observe, CaptureCommand, Post,
         Retire, ReportStop, NextGame, SceneExpires, Stop
<1> QED
  BY <1>3, <1>4, <1>5, <1>6

\* It does so when it has nothing to do, and then no context is current.
LEMMA GrantsWhenIdle ==
  ASSUME RelicInv, RelicInv', RelicNext
  PROVE  ReloadWhenIdle
<1> SUFFICES ASSUME reloadGate'.approved /\ ~reloadGate.approved
             PROVE  /\ screen.scene # "none" => ~CurrentIn(contexts', screen.context)
                    /\ \A i \in DOMAIN ui' :
                         ui'[i].type = "RelicScene" => ~CurrentIn(contexts', ui'[i].gen)
                    /\ DOMAIN workers' = {} /\ triggers' = << >> /\ ~screen.interactive
  BY DEF ReloadWhenIdle
<1>1. Iterate
  BY GrantSteps
<1>2. PICK b, t, q, s : Takes(b, t, q, s) /\ Leaves(t, q, s)
  BY <1>1, IterateTakes
<1>3. Grants(s, t, q)
  <2>1. reloadGate \in [requested : BOOLEAN, approved : BOOLEAN, interactive : BOOLEAN]
    BY DEF RelicInv, OverlayInv
  <2> DEFINE grant == reloadGate.approved \/ Grants(s, t, q)
  <2>2. reloadGate' = [reloadGate EXCEPT !.approved = grant]
    BY <1>2, Zenon DEF Leaves
  <2> HIDE DEF grant
  <2>3. reloadGate'.approved = grant
    BY <2>1, <2>2
  <2>4. grant
    BY <2>3
  <2> QED
    BY <2>4, Zenon DEF grant
<1>4. /\ owner' = Settled(s, t) /\ contexts' = s.c /\ workers' = Begun(s, t) /\ triggers' = q
      /\ UNCHANGED screen
  BY <1>2, Zenon DEF Leaves
<1>5. Granted(CoordinatorIdle(owner', contexts', workers', triggers'))
  BY <1>3, <1>4, Zenon DEF Grants
<1>6. ~reloadGate.interactive /\ CoordinatorIdle(owner', contexts', workers', triggers')
  BY <1>5, Zenon DEF Granted
<1>7. /\ DOMAIN workers' = {} /\ triggers' = << >>
      /\ owner'.current # 0 => ~CurrentIn(contexts', owner'.current)
  BY <1>6, Zenon DEF CoordinatorIdle
<1>8. ~screen.interactive
  BY <1>6 DEF RelicInv, OverlayInv
<1>9. ASSUME NEW g \in 0..MaxGen, g # 0
      PROVE  ~CurrentIn(contexts', g)
  <2>1. g \in Gen
    BY <1>9, Constants
  <2>2. ~contexts'[g].cancelled => owner'.current = g
    BY <2>1 DEF RelicInv, OwnerInv, Orderly
  <2> QED
    BY <1>7, <1>9, <2>2 DEF CurrentIn
<1>10. screen.scene # "none" => screen.context \in 0..MaxGen /\ screen.context # 0
  BY DEF RelicInv, OverlayInv, Screen
<1>11. ASSUME NEW i \in DOMAIN ui', ui'[i].type = "RelicScene"
       PROVE  ui'[i].gen \in 0..MaxGen /\ ui'[i].gen # 0
  <2>1. ui' \in Seq(UiEvent) /\ ui'[i].gen # 0
    BY <1>11 DEF RelicInv, OverlayInv, Events
  <2>2. ui'[i] \in UiEvent
    BY <2>1, LenProperties, ElementOfSeq
  <2> QED
    BY <2>1, <2>2 DEF UiEvent
<1> QED
  BY <1>7, <1>8, <1>9, <1>10, <1>11

\* No scene comes to the screen in a context that was replaced, closed or dismissed, and no
\* build replaces the companion while a scene is current or on its way (relic.rs,
\* overlay/runtime.rs, runtime/reload.rs).
THEOREM ScenesStayInOrder == RelicSpec => ScenesInOrder
<1>1. RelicInv /\ RelicInv' /\ [RelicNext]_relicVars
        => [OnlyCurrentScenes /\ ReloadWhenIdle]_relicVars
  <2>1. CASE RelicNext
    BY <2>1, ScenesAreCurrent, GrantsWhenIdle
  <2> QED
    BY <2>1
<1> QED
  BY <1>1, RelicInvariant, PTL DEF RelicSpec, ScenesInOrder
=============================================================================
