--------------------------- MODULE EvidenceProofs ---------------------------
(***************************************************************************)
(* Proofs about what wfcompanion reads and keeps: the inventory and the    *)
(* account in the memory of the game, the records of its log, snapshots of *)
(* the game's scripts, and what the inspector's watches save and print.    *)
(* Each has an inductive invariant of its own, since they share no state.  *)
(***************************************************************************)
EXTENDS MemoryReads, IncidentLog, ScriptSnapshots, InspectorWatches, SequenceTheorems,
        FiniteSetTheorems, TLAPS

-----------------------------------------------------------------------------
(***************************************************************************)
(* The log.  Its inductive invariant: at any time each record taken is in  *)
(* one place, a thread, the queue or the writer, or has met its fate.      *)
(***************************************************************************)
Sending == [at : {"reserve", "offer", "undo", "count"}, record : Record]
Fates == [taken : Nat, written : Nat, repeated : Nat, failed : Nat, told : Nat]

InLines(s, level) == {i \in DOMAIN s : s[i].level = level}
IsUnderway(x, level) == x.at # "outside" /\ x.record.level = level
IsReserved(x) == x.at \in {"offer", "undo"} /\ x.record.level = "info"
Underway(level) == {t \in Threads : IsUnderway(thread[t], level)}
One(condition) == IF condition THEN 1 ELSE 0

Pending(level) ==
  Cardinality(InLines(lines, level)) + Cardinality(Underway(level))
    + One(writer = "handle" /\ held.level = level)

\* The records taken that have not met their fate.
Owed(f) == f.taken - (f.written + f.repeated + f.failed + f.told)

LogTypes ==
  /\ thread \in [Threads -> Sending \cup {Outside}]
  /\ \A t \in Threads : thread[t].at \in {"reserve", "undo"} => thread[t].record.level = "info"
  /\ lines \in Seq(Record) /\ pendingInfo \in Int
  /\ dropped \in [Levels -> Nat] /\ fate \in [Levels -> Fates]
  /\ IF writer = "handle" THEN held \in Record ELSE held = NoRecord

LogInv ==
  /\ LogTypes
  /\ writer = "done" => Disconnected /\ \A l \in Levels : dropped[l] = 0
  /\ recent \subseteq kept
  /\ pendingInfo = Infos + Cardinality(Reserved) + One(held.level = "info")
  /\ \A l \in Levels : Owed(fate[l]) = dropped[l] + Pending(l)

\* How a set of threads changes when one of them moves.
LEMMA OneMoves ==
  ASSUME NEW T, IsFiniteSet(T), NEW A \in SUBSET T, NEW B \in SUBSET T, NEW t \in T,
         A \ {t} = B \ {t}
  PROVE  /\ Cardinality(A) \in Nat /\ Cardinality(B) \in Nat
         /\ Cardinality(B) - One(t \in B) = Cardinality(A) - One(t \in A)
<1>1. IsFiniteSet(A) /\ IsFiniteSet(B)
  BY FS_Subset
<1>2. /\ Cardinality(A) \in Nat /\ Cardinality(B) \in Nat
      /\ Cardinality(A \ {t}) = IF t \in A THEN Cardinality(A) - 1 ELSE Cardinality(A)
      /\ Cardinality(B \ {t}) = IF t \in B THEN Cardinality(B) - 1 ELSE Cardinality(B)
  BY <1>1, FS_CardinalityType, FS_RemoveElement
<1> QED
  BY <1>2 DEF One

LEMMA ThreadMoves ==
  ASSUME NEW t \in Threads, thread \in [Threads -> Sending \cup {Outside}],
         NEW x, thread' = [thread EXCEPT ![t] = x], NEW l \in Levels
  PROVE  /\ Cardinality(Underway(l)) \in Nat /\ Cardinality(Underway(l))' \in Nat
         /\ Cardinality(Underway(l))' - One(IsUnderway(x, l))
              = Cardinality(Underway(l)) - One(IsUnderway(thread[t], l))
         /\ Cardinality(Reserved) \in Nat /\ Cardinality(Reserved)' \in Nat
         /\ Cardinality(Reserved)' - One(IsReserved(x))
              = Cardinality(Reserved) - One(IsReserved(thread[t]))
<1>1. thread'[t] = x /\ \A u \in Threads : u # t => thread'[u] = thread[u]
  OBVIOUS
<1>2. /\ Underway(l) \in SUBSET Threads /\ Underway(l)' \in SUBSET Threads
      /\ Underway(l) \ {t} = Underway(l)' \ {t}
      /\ t \in Underway(l) <=> IsUnderway(thread[t], l)
      /\ t \in Underway(l)' <=> IsUnderway(x, l)
  BY <1>1 DEF Underway
<1>3. /\ Reserved \in SUBSET Threads /\ Reserved' \in SUBSET Threads
      /\ Reserved \ {t} = Reserved' \ {t}
      /\ t \in Reserved <=> IsReserved(thread[t])
      /\ t \in Reserved' <=> IsReserved(x)
  BY <1>1 DEF Reserved, IsReserved
<1>4. IsFiniteSet(Threads)
  BY LogAssumption
<1> HIDE DEF One
<1>5. /\ Cardinality(Underway(l)) \in Nat /\ Cardinality(Underway(l)') \in Nat
      /\ Cardinality(Underway(l)') - One(t \in Underway(l)')
           = Cardinality(Underway(l)) - One(t \in Underway(l))
  BY <1>2, <1>4, OneMoves
<1>6. /\ Cardinality(Reserved) \in Nat /\ Cardinality(Reserved') \in Nat
      /\ Cardinality(Reserved') - One(t \in Reserved')
           = Cardinality(Reserved) - One(t \in Reserved)
  BY <1>3, <1>4, OneMoves
<1> QED
  BY <1>2, <1>3, <1>5, <1>6 DEF One

\* The records of a level in the queue.
LEMMA LinesAre ==
  ASSUME NEW s \in Seq(Record), NEW l
  PROVE  /\ IsFiniteSet(InLines(s, l)) /\ Cardinality(InLines(s, l)) \in Nat
         /\ InLines(s, l) \in SUBSET (1..Len(s)) /\ Len(s) \in Nat
<1>1. Len(s) \in Nat /\ DOMAIN s = 1..Len(s) /\ IsFiniteSet(1..Len(s))
  BY LenProperties, FS_Interval
<1>2. InLines(s, l) \in SUBSET (1..Len(s))
  BY <1>1 DEF InLines
<1>3. IsFiniteSet(InLines(s, l))
  BY <1>1, <1>2, FS_Subset
<1> QED
  BY <1>1, <1>2, <1>3, FS_CardinalityType

LEMMA LinesAppend ==
  ASSUME NEW s \in Seq(Record), NEW r \in Record, NEW l
  PROVE  Cardinality(InLines(Append(s, r), l)) = Cardinality(InLines(s, l)) + One(r.level = l)
<1> DEFINE q == Append(s, r)  n == Len(s)
<1>1. n \in Nat /\ DOMAIN s = 1..n
  BY LenProperties
<1>2. q \in Seq(Record) /\ Len(q) = n + 1 /\ (\A i \in 1..n : q[i] = s[i]) /\ q[n + 1] = r
  BY AppendProperties
<1>3. DOMAIN q = 1..(n + 1)
  BY <1>2, LenProperties
<1>4. IsFiniteSet(InLines(s, l)) /\ InLines(s, l) \in SUBSET (1..n)
  BY LinesAre
<1> HIDE DEF n, q
<1>5. InLines(q, l) = IF r.level = l THEN InLines(s, l) \cup {n + 1} ELSE InLines(s, l)
  BY <1>1, <1>2, <1>3 DEF InLines
<1>6. n + 1 \notin InLines(s, l)
  BY <1>1, <1>4
<1>7. /\ Cardinality(InLines(s, l)) \in Nat
      /\ Cardinality(InLines(s, l) \cup {n + 1}) = Cardinality(InLines(s, l)) + 1
  BY <1>4, <1>6, FS_AddElement, FS_CardinalityType
<1> QED
  BY <1>5, <1>7 DEF q, One

LEMMA LinesTail ==
  ASSUME NEW s \in Seq(Record), s # << >>, NEW l
  PROVE  Cardinality(InLines(Tail(s), l)) = Cardinality(InLines(s, l)) - One(Head(s).level = l)
<1> DEFINE r == Tail(s)  n == Len(s)
           A == InLines(s, l)  B == InLines(r, l)
           f == [i \in B |-> i + 1]
<1>1. n \in Nat \ {0} /\ DOMAIN s = 1..n /\ Head(s) = s[1]
  BY LenProperties, EmptySeq
<1>2. r \in Seq(Record) /\ Len(r) = n - 1 /\ \A i \in 1..Len(r) : r[i] = s[i + 1]
  BY HeadTailProperties
<1>3. DOMAIN r = 1..(n - 1)
  BY <1>2, LenProperties
<1>4. IsFiniteSet(A) /\ IsFiniteSet(B) /\ Cardinality(A) \in Nat
  BY <1>2, LinesAre
<1>5. \A i \in A : i \in 1..n /\ s[i].level = l
  BY <1>1 DEF InLines
<1>6. \A i \in B : i \in 1..(n - 1) /\ r[i].level = l
  BY <1>3 DEF InLines
<1>7. \A i \in 1..(n - 1) : r[i].level = l => i \in B
  BY <1>3 DEF InLines
<1>8. \A i \in 1..n : s[i].level = l => i \in A
  BY <1>1 DEF InLines
<1> HIDE DEF n, r, A, B
<1>9. f \in Bijection(B, A \ {1})
  <2>1. \A i \in B : i \in 1..(n - 1) /\ s[i + 1].level = l
    BY <1>1, <1>2, <1>6
  <2>2. \A i \in B : i + 1 \in A \ {1}
    BY <1>1, <1>8, <2>1
  <2>3. \A i, j \in B : i + 1 = j + 1 => i = j
    BY <2>1
  <2>4. ASSUME NEW k \in A \ {1} PROVE \E i \in B : i + 1 = k
    <3>1. k - 1 \in 1..(n - 1) /\ (k - 1) + 1 = k /\ s[k].level = l
      BY <1>1, <1>5
    <3>2. r[k - 1] = s[k]
      BY <1>1, <1>2, <3>1
    <3>3. k - 1 \in B
      BY <1>7, <3>1, <3>2
    <3> QED
      BY <3>1, <3>3
  <2>5. f \in [B -> A \ {1}] /\ (\A i, j \in B : f[i] = f[j] => i = j)
        /\ \A k \in A \ {1} : \E i \in B : f[i] = k
    BY <2>2, <2>3, <2>4
  <2> HIDE DEF f
  <2> QED
    BY <2>5 DEF Bijection, Injection, Surjection, IsInjective
<1> HIDE DEF f
<1>10. Cardinality(A \ {1}) = Cardinality(B)
  <2>1. ExistsBijection(B, A \ {1})
    BY <1>9 DEF ExistsBijection
  <2> QED
    BY <1>4, <2>1, FS_Bijection
<1>11. Cardinality(A \ {1}) = IF 1 \in A THEN Cardinality(A) - 1 ELSE Cardinality(A)
  BY <1>4, FS_RemoveElement
<1>12. 1 \in A <=> Head(s).level = l
  BY <1>1, <1>5, <1>8
<1>13. Cardinality(B) = Cardinality(A) - One(Head(s).level = l)
  BY <1>4, <1>10, <1>11, <1>12 DEF One
<1> QED
  BY <1>13 DEF A, B, r

\* One record more that has met a fate, or is taken.
LEMMA CountIs ==
  ASSUME fate \in [Levels -> Fates], NEW level \in Levels,
         NEW what \in {"taken", "written", "repeated", "failed"}, Count(level, what)
  PROVE  /\ fate' \in [Levels -> Fates]
         /\ \A l \in Levels \ {level} : fate'[l] = fate[l]
         /\ Owed(fate'[level]) = Owed(fate[level]) + (IF what = "taken" THEN 1 ELSE -1)
<1> DEFINE f == fate[level]
<1>1. f \in Fates /\ fate' = [fate EXCEPT ![level] = [f EXCEPT ![what] = @ + 1]]
  BY DEF Count
<1> HIDE DEF f
<1>2. CASE what = "taken"
  BY <1>1, <1>2 DEF Fates, Owed, f
<1>3. CASE what = "written"
  BY <1>1, <1>3 DEF Fates, Owed, f
<1>4. CASE what = "repeated"
  BY <1>1, <1>4 DEF Fates, Owed, f
<1>5. CASE what = "failed"
  BY <1>1, <1>5 DEF Fates, Owed, f
<1> QED
  BY <1>2, <1>3, <1>4, <1>5

LEMMA OwedIs == \A f \in Fates : Owed(f) \in Int
BY DEF Fates, Owed

LEMMA DropIs ==
  ASSUME dropped \in [Levels -> Nat], NEW level \in Levels, Drop(level)
  PROVE  /\ dropped' \in [Levels -> Nat]
         /\ \A l \in Levels : dropped'[l] = dropped[l] + One(level = l)
BY DEF Drop, One

\* A thread takes a step while the writer has not ended.
LEMMA WriterRuns ==
  ASSUME LogInv, NEW t \in Threads, Sends(t)
  PROVE  writer # "done"
<1>1. active \/ thread[t] # Outside
  BY DEF Sends, Begins, Reserves, Offers, Undoes, Counts, Outside
<1> QED
  BY <1>1 DEF LogInv, Disconnected

\* Sums.
LEMMA Balanced ==
  ASSUME NEW a \in Int, NEW b \in Int, NEW c \in Int, NEW d \in Int, NEW m \in Int, NEW n \in Int,
         a - b - m = c - d - n, c = d + n
  PROVE  a = b + m
OBVIOUS

LEMMA OwedMoves ==
  ASSUME NEW f \in Int, NEW g \in Int, NEW c \in Int, NEW d \in Int, NEW q \in Int, NEW r \in Int,
         NEW u \in Int, NEW v \in Int, NEW y \in Int, NEW z \in Int, NEW h \in Int,
         g - d - r - z = f - c - q - y, v - z = u - y
  PROVE  g - d - (r + v + h) = f - c - (q + u + h)
OBVIOUS

\* The same for the counter of pending lines: what has left it and what it still stands for.
Even(m, r, z, n, q, y) == m - r - z = n - q - y
Shift(v, z, u, y) == v - z = u - y
Settled(m, r, v, h, n, q, u) == m - (r + v + h) = n - (q + u + h)

LEMMA RoomMoves ==
  ASSUME NEW n \in Int, NEW m \in Int, NEW q \in Nat, NEW r \in Nat,
         NEW u \in Nat, NEW v \in Nat, NEW y \in Nat, NEW z \in Nat, NEW h \in Nat,
         Even(m, r, z, n, q, y), Shift(v, z, u, y)
  PROVE  Settled(m, r, v, h, n, q, u)
BY DEF Even, Shift, Settled

LEMMA NothingOwed ==
  ASSUME NEW f \in Fates, Owed(f) = 0
  PROVE  f.taken = f.written + f.repeated + f.failed + f.told
BY DEF Fates, Owed

\* A step balances if what it takes from one place it adds to another.
Balance(l) == Owed(fate[l]) - dropped[l] - Pending(l)

RoomTaken == Infos + Cardinality(Reserved) + One(held.level = "info")

LEMMA LogKeeps ==
  ASSUME LogInv, LogTypes',
         writer' = "done" => Disconnected' /\ \A l \in Levels : dropped'[l] = 0,
         recent' \subseteq kept',
         RoomTaken \in Int, RoomTaken' \in Int, pendingInfo' - RoomTaken' = pendingInfo - RoomTaken,
         \A l \in Levels : Pending(l) \in Int /\ Pending(l)' \in Int /\ Balance(l)' = Balance(l)
  PROVE  LogInv'
<1>1. pendingInfo' = RoomTaken'
  BY DEF LogInv, LogTypes, RoomTaken
<1>2. ASSUME NEW l \in Levels PROVE Owed(fate'[l]) = dropped'[l] + Pending(l)'
  <2>1. /\ Owed(fate[l]) \in Int /\ Owed(fate'[l]) \in Int
        /\ dropped[l] \in Nat /\ dropped'[l] \in Nat
    BY <1>2, OwedIs DEF LogInv, LogTypes
  <2>2. Owed(fate[l]) = dropped[l] + Pending(l)
    BY <1>2 DEF LogInv
  <2>3. Owed(fate'[l]) - dropped'[l] - Pending(l)' = Owed(fate[l]) - dropped[l] - Pending(l)
    BY <1>2 DEF Balance
  <2>4. PICK a \in Int, b \in Int, c \in Int, d \in Int, m \in Int, n \in Int :
          /\ a = Owed(fate'[l]) /\ b = dropped'[l] /\ m = Pending(l)'
          /\ c = Owed(fate[l]) /\ d = dropped[l] /\ n = Pending(l)
    <3>1. Pending(l) \in Int /\ Pending(l)' \in Int
      BY <1>2
    <3>2. dropped[l] \in Int /\ dropped'[l] \in Int
      BY <2>1
    <3> QED
      BY <2>1, <3>1, <3>2, Zenon
  <2>5. a - b - m = c - d - n
    BY <2>3, <2>4, Zenon
  <2>6. c = d + n
    BY <2>2, <2>4, Zenon
  <2>7. a = b + m
    BY <2>5, <2>6, Balanced
  <2> QED
    BY <2>4, <2>7
<1> QED
  BY <1>1, <1>2 DEF LogInv, RoomTaken

\* A thread takes a step, and the writer does not.
LEMMA SendKeeps ==
  ASSUME LogInv, NEW t \in Threads, writer # "done", UNCHANGED <<writer, held, recent, kept>>,
         NEW x \in Sending \cup {Outside}, thread' = [thread EXCEPT ![t] = x],
         x.at \in {"reserve", "undo"} => x.record.level = "info",
         lines' \in Seq(Record), pendingInfo' \in Int,
         dropped' \in [Levels -> Nat], fate' \in [Levels -> Fates],
         pendingInfo' - Cardinality(InLines(lines', "info")) - One(IsReserved(x))
           = pendingInfo - Cardinality(InLines(lines, "info")) - One(IsReserved(thread[t])),
         \A l \in Levels :
           Owed(fate'[l]) - dropped'[l] - Cardinality(InLines(lines', l)) - One(IsUnderway(x, l))
             = Owed(fate[l]) - dropped[l] - Cardinality(InLines(lines, l))
                 - One(IsUnderway(thread[t], l))
  PROVE  LogInv'
<1>1. LogTypes /\ LogTypes'
  BY DEF LogInv, LogTypes
<1>2. ASSUME NEW l \in Levels
      PROVE  /\ Cardinality(Underway(l)) \in Nat /\ Cardinality(Underway(l))' \in Nat
             /\ Cardinality(Underway(l))' - One(IsUnderway(x, l))
                  = Cardinality(Underway(l)) - One(IsUnderway(thread[t], l))
             /\ Cardinality(Reserved) \in Nat /\ Cardinality(Reserved)' \in Nat
             /\ Cardinality(Reserved)' - One(IsReserved(x))
                  = Cardinality(Reserved) - One(IsReserved(thread[t]))
  BY <1>1, <1>2, ThreadMoves DEF LogTypes
<1>3. \A l \in Levels : Cardinality(InLines(lines, l)) \in Nat /\ Cardinality(InLines(lines', l)) \in Nat
  BY <1>1, LinesAre DEF LogTypes
<1>4. ASSUME NEW l \in Levels
      PROVE  Pending(l) \in Int /\ Pending(l)' \in Int /\ Balance(l)' = Balance(l)
  <2>1. PICK q \in Nat, r \in Nat, u \in Nat, v \in Nat, h \in Nat, y \in Nat, z \in Nat :
          /\ q = Cardinality(InLines(lines, l)) /\ r = Cardinality(InLines(lines', l))
          /\ u = Cardinality(Underway(l)) /\ v = Cardinality(Underway(l))'
          /\ h = One(writer = "handle" /\ held.level = l)
          /\ y = One(IsUnderway(thread[t], l)) /\ z = One(IsUnderway(x, l))
    <3>1. /\ One(writer = "handle" /\ held.level = l) \in Nat
          /\ One(IsUnderway(thread[t], l)) \in Nat /\ One(IsUnderway(x, l)) \in Nat
      BY DEF One
    <3> QED
      BY <1>2, <1>3, <1>4, <3>1
  <2>2. One(writer = "handle" /\ held.level = l)' = h
    BY <2>1
  <2>3. Pending(l) = q + u + h /\ Pending(l)' = r + v + h /\ v - z = u - y
    BY <1>2, <1>4, <2>1, <2>2 DEF Pending
  <2>4. PICK c \in Nat, d \in Nat, f \in Int, g \in Int :
          c = dropped[l] /\ d = dropped'[l] /\ f = Owed(fate[l]) /\ g = Owed(fate'[l])
    BY <1>1, <1>4, OwedIs DEF LogTypes
  <2>5. g - d - r - z = f - c - q - y
    BY <1>4, <2>1, <2>4
  <2>6. g - d - (r + v + h) = f - c - (q + u + h)
    BY <2>3, <2>5, OwedMoves
  <2>7. Balance(l) = f - c - (q + u + h)
    BY <2>3, <2>4 DEF Balance
  <2>8. Balance(l)' = g - d - (r + v + h)
    BY <2>3, <2>4 DEF Balance
  <2> QED
    BY <2>3, <2>6, <2>7, <2>8
<1>5. RoomTaken \in Int /\ RoomTaken' \in Int /\ pendingInfo' - RoomTaken' = pendingInfo - RoomTaken
  <2>1. Infos = Cardinality(InLines(lines, "info")) /\ Infos' = Cardinality(InLines(lines', "info"))
    BY DEF Infos, InLines
  <2>2. "info" \in Levels
    BY DEF Levels
  <2>3. PICK q \in Nat, r \in Nat, u \in Nat, v \in Nat, h \in Nat, y \in Nat, z \in Nat,
             n \in Int, m \in Int :
          /\ q = Infos /\ r = Infos' /\ u = Cardinality(Reserved) /\ v = Cardinality(Reserved)'
          /\ h = One(held.level = "info") /\ y = One(IsReserved(thread[t])) /\ z = One(IsReserved(x))
          /\ n = pendingInfo /\ m = pendingInfo'
    <3>1. /\ One(held.level = "info") \in Nat
          /\ One(IsReserved(x)) \in Nat /\ One(IsReserved(thread[t])) \in Nat
      BY DEF One
    <3>2. pendingInfo \in Int
      BY <1>1 DEF LogTypes
    <3> QED
      BY <1>2, <1>3, <2>1, <2>2, <3>1, <3>2
  <2>4. One(held.level = "info")' = h
    BY <2>3
  <2>5. m - r - z = n - q - y /\ v - z = u - y
    BY <1>2, <2>1, <2>2, <2>3
  <2>6. RoomTaken = q + u + h /\ RoomTaken' = r + v + h
    BY <2>3, <2>4 DEF RoomTaken
  <2>7. m - (r + v + h) = n - (q + u + h)
    <3>1. Even(m, r, z, n, q, y)
      BY <2>5 DEF Even
    <3>2. Shift(v, z, u, y)
      BY <2>5 DEF Shift
    <3>3. Settled(m, r, v, h, n, q, u)
      BY <3>1, <3>2, RoomMoves
    <3> QED
      BY <3>3 DEF Settled
  <2>8. RoomTaken \in Int /\ RoomTaken' \in Int
    BY <2>6
  <2> QED
    BY <2>3, <2>6, <2>7, <2>8, Zenon
<1>6. recent' \subseteq kept' /\ writer' # "done"
  BY DEF LogInv
<1> QED
  BY <1>1, <1>4, <1>5, <1>6, LogKeeps

LEMMA BeginsKeeps ==
  ASSUME LogInv, NEW t \in Threads, Begins(t), writer # "done"
  PROVE  LogInv'
<1>1. PICK r \in Record :
        /\ thread' = [thread EXCEPT ![t] = [at |-> IF r.level = "info" THEN "reserve" ELSE "offer",
                                            record |-> r]]
        /\ Count(r.level, "taken")
  BY DEF Begins
<1> DEFINE x == [at |-> IF r.level = "info" THEN "reserve" ELSE "offer", record |-> r]
<1>2. /\ thread[t].at = "outside"
      /\ UNCHANGED <<lines, pendingInfo, dropped, writer, held, recent, kept>>
  BY DEF Begins
<1>3. LogTypes /\ r.level \in Levels
  BY DEF LogInv, Record
<1>4. /\ x \in Sending /\ (x.at \in {"reserve", "undo"} => x.record.level = "info")
      /\ One(IsReserved(x)) = 0 /\ One(IsReserved(thread[t])) = 0
      /\ \A l : One(IsUnderway(x, l)) = One(r.level = l) /\ One(IsUnderway(thread[t], l)) = 0
  BY <1>2 DEF Sending, Record, Levels, IsReserved, IsUnderway, One
<1>5. thread' = [thread EXCEPT ![t] = x]
  BY <1>1
<1> HIDE DEF x
<1>6. /\ fate' \in [Levels -> Fates]
      /\ \A l \in Levels \ {r.level} : fate'[l] = fate[l]
      /\ Owed(fate'[r.level]) = Owed(fate[r.level]) + 1
  BY <1>1, <1>3, CountIs DEF LogTypes
<1>7. ASSUME NEW l \in Levels
      PROVE  Owed(fate'[l]) - dropped'[l] - Cardinality(InLines(lines', l)) - One(IsUnderway(x, l))
             = Owed(fate[l]) - dropped[l] - Cardinality(InLines(lines, l))
                 - One(IsUnderway(thread[t], l))
  <2>1. One(r.level = l) = IF r.level = l THEN 1 ELSE 0
    BY DEF One
  <2>2. PICK q \in Nat, c \in Nat, f \in Int :
          q = Cardinality(InLines(lines, l)) /\ c = dropped[l] /\ f = Owed(fate[l])
    BY <1>3, <1>7, OwedIs, LinesAre DEF LogTypes
  <2> QED
    BY <1>2, <1>4, <1>6, <1>7, <2>1, <2>2
<1>8. /\ lines' \in Seq(Record) /\ pendingInfo' \in Int /\ dropped' \in [Levels -> Nat]
      /\ pendingInfo' - Cardinality(InLines(lines', "info")) - One(IsReserved(x))
           = pendingInfo - Cardinality(InLines(lines, "info")) - One(IsReserved(thread[t]))
  BY <1>2, <1>3, <1>4 DEF LogTypes
<1>9. x \in Sending \cup {Outside}
  BY <1>4
<1> QED
  BY <1>2, <1>4, <1>5, <1>6, <1>7, <1>8, <1>9, SendKeeps, ZenonT(60)

\* What a thread that is not outside holds.
LEMMA SenderIs ==
  ASSUME LogInv, NEW t \in Threads, thread[t].at # "outside"
  PROVE  /\ thread[t] \in Sending /\ thread[t].record \in Record
         /\ thread[t].record.level \in Levels
         /\ thread[t].at \in {"reserve", "undo"} => thread[t].record.level = "info"
         /\ \A l : One(IsUnderway(thread[t], l)) = One(thread[t].record.level = l)
<1>1. thread[t] \in Sending
  BY DEF LogInv, LogTypes, Outside
<1> QED
  BY <1>1 DEF LogInv, LogTypes, Sending, Record, IsUnderway, One

LEMMA OutsideIs ==
  /\ Outside \in Sending \cup {Outside} /\ Outside.at = "outside"
  /\ One(IsReserved(Outside)) = 0 /\ \A l : One(IsUnderway(Outside, l)) = 0
BY DEF Outside, IsReserved, IsUnderway, One

\* A thread goes on to another step with the record that it has.
LEMMA StepIs ==
  ASSUME LogInv, NEW t \in Threads, thread[t].at # "outside",
         NEW next \in {"reserve", "offer", "undo", "count"}, At(t, next)
  PROVE  /\ [thread[t] EXCEPT !.at = next] \in Sending
         /\ thread' = [thread EXCEPT ![t] = [thread[t] EXCEPT !.at = next]]
         /\ [thread[t] EXCEPT !.at = next].record = thread[t].record
         /\ [thread[t] EXCEPT !.at = next].at = next
         /\ \A l : One(IsUnderway([thread[t] EXCEPT !.at = next], l)) = One(thread[t].record.level = l)
         /\ One(IsReserved([thread[t] EXCEPT !.at = next]))
              = One(next \in {"offer", "undo"} /\ thread[t].record.level = "info")
<1>1. thread[t] \in Sending
  BY SenderIs
<1> QED
  BY <1>1 DEF At, Sending, IsUnderway, IsReserved, One

LEMMA ReservesKeeps ==
  ASSUME LogInv, NEW t \in Threads, Reserves(t), writer # "done"
  PROVE  LogInv'
<1>1. /\ thread[t].at = "reserve"
      /\ UNCHANGED <<lines, fate, writer, held, recent, kept>>
  BY DEF Reserves
<1>2. /\ thread[t] \in Sending /\ thread[t].record.level = "info"
      /\ \A l : One(IsUnderway(thread[t], l)) = One("info" = l)
      /\ One(IsReserved(thread[t])) = 0
  <2>1. thread[t] \in Sending /\ thread[t].record.level = "info"
    BY <1>1, SenderIs
  <2> QED
    BY <1>1, <2>1 DEF IsUnderway, IsReserved, One
<1>3. LogTypes /\ "info" \in Levels
  BY DEF LogInv, Levels
<1>4. CASE pendingInfo < LogInfoItems
  <2> DEFINE x == [thread[t] EXCEPT !.at = "offer"]
  <2>1. pendingInfo' = pendingInfo + 1 /\ At(t, "offer") /\ UNCHANGED dropped
    BY <1>4 DEF Reserves
  <2>2. /\ x \in Sending /\ thread' = [thread EXCEPT ![t] = x] /\ x.at = "offer"
        /\ \A l : One(IsUnderway(x, l)) = One(thread[t].record.level = l)
        /\ One(IsReserved(x)) = One("offer" \in {"offer", "undo"} /\ thread[t].record.level = "info")
    BY <1>1, <2>1, StepIs
  <2> HIDE DEF x
  <2>3. /\ One(IsReserved(x)) = 1 /\ (x.at \in {"reserve", "undo"} => x.record.level = "info")
        /\ \A l : One(IsUnderway(x, l)) = One(IsUnderway(thread[t], l))
    BY <1>2, <2>2 DEF One
  <2>4. x \in Sending \cup {Outside}
    BY <2>2
  <2>5. \A l \in Levels :
          Owed(fate'[l]) - dropped'[l] - Cardinality(InLines(lines', l)) - One(IsUnderway(x, l))
             = Owed(fate[l]) - dropped[l] - Cardinality(InLines(lines, l))
                 - One(IsUnderway(thread[t], l))
    BY <1>1, <2>1, <2>3
  <2>6. /\ lines' \in Seq(Record) /\ pendingInfo' \in Int
        /\ dropped' \in [Levels -> Nat] /\ fate' \in [Levels -> Fates]
    BY <1>1, <1>3, <2>1 DEF LogTypes
  <2>7. pendingInfo' - Cardinality(InLines(lines', "info")) - One(IsReserved(x))
           = pendingInfo - Cardinality(InLines(lines, "info")) - One(IsReserved(thread[t]))
    <3>1. Cardinality(InLines(lines, "info")) \in Nat /\ pendingInfo \in Int
      BY <1>3, LinesAre DEF LogTypes
    <3> QED
      BY <1>1, <1>2, <2>1, <2>3, <3>1
  <2> QED
    BY <1>1, <2>2, <2>3, <2>4, <2>5, <2>6, <2>7, SendKeeps, ZenonT(60)
<1>5. CASE ~(pendingInfo < LogInfoItems)
  <2>1. Drop("info") /\ thread' = [thread EXCEPT ![t] = Outside] /\ UNCHANGED pendingInfo
    BY <1>5 DEF Reserves, Leaves
  <2>2. /\ lines' \in Seq(Record) /\ pendingInfo' \in Int
        /\ fate' \in [Levels -> Fates] /\ dropped \in [Levels -> Nat]
    BY <1>1, <1>3, <2>1 DEF LogTypes
  <2>3. /\ dropped' \in [Levels -> Nat]
        /\ \A l \in Levels : dropped'[l] = dropped[l] + One("info" = l)
    BY <1>3, <2>1, <2>2, DropIs
  <2>4. ASSUME NEW l \in Levels
        PROVE  Owed(fate'[l]) - dropped'[l] - Cardinality(InLines(lines', l)) - One(IsUnderway(Outside, l))
               = Owed(fate[l]) - dropped[l] - Cardinality(InLines(lines, l))
                   - One(IsUnderway(thread[t], l))
    <3>1. /\ One(IsUnderway(Outside, l)) = 0 /\ One(IsUnderway(thread[t], l)) = One("info" = l)
          /\ One("info" = l) \in Nat /\ fate' = fate /\ lines' = lines
      BY <1>1, <1>2, OutsideIs DEF One
    <3>2. PICK q \in Nat, c \in Nat, f \in Int :
            q = Cardinality(InLines(lines, l)) /\ c = dropped[l] /\ f = Owed(fate[l])
      BY <1>3, <2>4, OwedIs, LinesAre DEF LogTypes
    <3> QED
      BY <2>3, <2>4, <3>1, <3>2
  <2>5. pendingInfo' - Cardinality(InLines(lines', "info")) - One(IsReserved(Outside))
           = pendingInfo - Cardinality(InLines(lines, "info")) - One(IsReserved(thread[t]))
    BY <1>1, <1>2, <2>1, OutsideIs
  <2>6. Outside \in Sending \cup {Outside} /\ Outside.at \notin {"reserve", "undo"}
    BY OutsideIs
  <2> QED
    BY <1>1, <2>1, <2>2, <2>3, <2>4, <2>5, <2>6, SendKeeps, ZenonT(60)
<1> QED
  BY <1>4, <1>5

LEMMA UndoesKeeps ==
  ASSUME LogInv, NEW t \in Threads, Undoes(t), writer # "done"
  PROVE  LogInv'
<1> DEFINE x == [thread[t] EXCEPT !.at = "count"]
<1>1. /\ thread[t].at = "undo" /\ At(t, "count") /\ pendingInfo' = pendingInfo - 1
      /\ UNCHANGED <<lines, dropped, fate, writer, held, recent, kept>>
  BY DEF Undoes, ReservationUndone
<1>2. /\ thread[t] \in Sending /\ thread[t].record.level = "info"
      /\ \A l : One(IsUnderway(thread[t], l)) = One(thread[t].record.level = l)
  BY <1>1, SenderIs
<1>3. One(IsReserved(thread[t])) = 1
  BY <1>1, <1>2 DEF IsReserved, One
<1>4. /\ x \in Sending /\ thread' = [thread EXCEPT ![t] = x] /\ x.at = "count"
      /\ \A l : One(IsUnderway(x, l)) = One(thread[t].record.level = l)
      /\ One(IsReserved(x)) = One("count" \in {"offer", "undo"} /\ thread[t].record.level = "info")
  BY <1>1, StepIs
<1> HIDE DEF x
<1>5. One(IsReserved(x)) = 0 /\ x \in Sending \cup {Outside}
      /\ (x.at \in {"reserve", "undo"} => x.record.level = "info")
  BY <1>4 DEF One
<1>6. \A l \in Levels :
        Owed(fate'[l]) - dropped'[l] - Cardinality(InLines(lines', l)) - One(IsUnderway(x, l))
          = Owed(fate[l]) - dropped[l] - Cardinality(InLines(lines, l))
              - One(IsUnderway(thread[t], l))
  BY <1>1, <1>2, <1>4
<1>7. LogTypes
  BY DEF LogInv
<1>8. /\ lines' \in Seq(Record) /\ pendingInfo' \in Int
      /\ dropped' \in [Levels -> Nat] /\ fate' \in [Levels -> Fates]
  BY <1>1, <1>7 DEF LogTypes
<1>9. pendingInfo' - Cardinality(InLines(lines', "info")) - One(IsReserved(x))
         = pendingInfo - Cardinality(InLines(lines, "info")) - One(IsReserved(thread[t]))
  <2>1. Cardinality(InLines(lines, "info")) \in Nat /\ pendingInfo \in Int
    BY <1>7, LinesAre DEF LogTypes
  <2> QED
    BY <1>1, <1>3, <1>5, <2>1
<1> QED
  BY <1>1, <1>4, <1>5, <1>6, <1>8, <1>9, SendKeeps, ZenonT(60)

LEMMA CountsKeeps ==
  ASSUME LogInv, NEW t \in Threads, Counts(t), writer # "done"
  PROVE  LogInv'
<1> DEFINE level == thread[t].record.level
<1>1. /\ thread[t].at = "count" /\ thread' = [thread EXCEPT ![t] = Outside] /\ Drop(level)
      /\ UNCHANGED <<lines, pendingInfo, fate, writer, held, recent, kept>>
  BY DEF Counts, Leaves
<1>2. /\ thread[t] \in Sending /\ level \in Levels
      /\ \A l : One(IsUnderway(thread[t], l)) = One(level = l)
  BY <1>1, SenderIs
<1> HIDE DEF level
<1>3. One(IsReserved(thread[t])) = 0 /\ LogTypes
  BY <1>1 DEF IsReserved, One, LogInv
<1>4. /\ lines' \in Seq(Record) /\ pendingInfo' \in Int
      /\ fate' \in [Levels -> Fates] /\ dropped \in [Levels -> Nat]
  BY <1>1, <1>3 DEF LogTypes
<1>5. /\ dropped' \in [Levels -> Nat]
      /\ \A l \in Levels : dropped'[l] = dropped[l] + One(level = l)
  BY <1>1, <1>2, <1>4, DropIs
<1>6. ASSUME NEW l \in Levels
      PROVE  Owed(fate'[l]) - dropped'[l] - Cardinality(InLines(lines', l)) - One(IsUnderway(Outside, l))
             = Owed(fate[l]) - dropped[l] - Cardinality(InLines(lines, l))
                 - One(IsUnderway(thread[t], l))
  <2>1. /\ One(IsUnderway(Outside, l)) = 0 /\ One(IsUnderway(thread[t], l)) = One(level = l)
        /\ One(level = l) \in Nat /\ fate' = fate /\ lines' = lines
    BY <1>1, <1>2, OutsideIs DEF One
  <2>2. PICK q \in Nat, c \in Nat, f \in Int :
          q = Cardinality(InLines(lines, l)) /\ c = dropped[l] /\ f = Owed(fate[l])
    BY <1>3, <1>6, OwedIs, LinesAre DEF LogTypes
  <2> QED
    BY <1>5, <1>6, <2>1, <2>2
<1>7. pendingInfo' - Cardinality(InLines(lines', "info")) - One(IsReserved(Outside))
         = pendingInfo - Cardinality(InLines(lines, "info")) - One(IsReserved(thread[t]))
  BY <1>1, <1>3, OutsideIs
<1>8. Outside \in Sending \cup {Outside} /\ Outside.at \notin {"reserve", "undo"}
  BY OutsideIs
<1> QED
  BY <1>1, <1>4, <1>5, <1>6, <1>7, <1>8, SendKeeps, ZenonT(60)

LEMMA OffersKeeps ==
  ASSUME LogInv, NEW t \in Threads, Offers(t), writer # "done"
  PROVE  LogInv'
<1> DEFINE record == thread[t].record
<1>1. /\ thread[t].at = "offer"
      /\ UNCHANGED <<pendingInfo, dropped, fate, writer, held, recent, kept>>
  BY DEF Offers
<1>2. /\ thread[t] \in Sending /\ record \in Record /\ record.level \in Levels
      /\ \A l : One(IsUnderway(thread[t], l)) = One(record.level = l)
  BY <1>1, SenderIs
<1>3. One(IsReserved(thread[t])) = One(record.level = "info") /\ LogTypes
  BY <1>1 DEF IsReserved, One, LogInv
<1>4. /\ lines \in Seq(Record) /\ pendingInfo' \in Int /\ "info" \in Levels
      /\ dropped' \in [Levels -> Nat] /\ fate' \in [Levels -> Fates]
  BY <1>1, <1>3 DEF LogTypes, Levels
<1>5. CASE Len(lines) < LogItems
  <2>1. lines' = Append(lines, record) /\ thread' = [thread EXCEPT ![t] = Outside]
    BY <1>5 DEF Offers, Leaves
  <2> HIDE DEF record
  <2>2. lines' \in Seq(Record)
    BY <1>2, <1>4, <2>1, AppendProperties
  <2>3. \A l \in Levels : /\ Cardinality(InLines(lines, l)) \in Nat
                         /\ Cardinality(InLines(lines', l))
                              = Cardinality(InLines(lines, l)) + One(record.level = l)
    BY <1>2, <1>4, <2>1, LinesAre, LinesAppend
  <2>4. ASSUME NEW l \in Levels
        PROVE  Owed(fate'[l]) - dropped'[l] - Cardinality(InLines(lines', l)) - One(IsUnderway(Outside, l))
               = Owed(fate[l]) - dropped[l] - Cardinality(InLines(lines, l))
                   - One(IsUnderway(thread[t], l))
    <3>1. /\ One(IsUnderway(Outside, l)) = 0 /\ One(IsUnderway(thread[t], l)) = One(record.level = l)
          /\ fate' = fate /\ dropped' = dropped
      BY <1>1, <1>2, OutsideIs
    <3>2. PICK q \in Nat, c \in Nat, f \in Int, y \in Nat :
            /\ q = Cardinality(InLines(lines, l)) /\ c = dropped[l] /\ f = Owed(fate[l])
            /\ y = One(record.level = l)
      <4>1. One(record.level = l) \in Nat
        BY DEF One
      <4>2. dropped[l] \in Nat /\ Owed(fate[l]) \in Int
        BY <1>3, <2>4, OwedIs DEF LogTypes
      <4> QED
        BY <2>3, <2>4, <4>1, <4>2
    <3> QED
      BY <2>3, <2>4, <3>1, <3>2
  <2>5. pendingInfo' - Cardinality(InLines(lines', "info")) - One(IsReserved(Outside))
           = pendingInfo - Cardinality(InLines(lines, "info")) - One(IsReserved(thread[t]))
    <3>1. One(IsReserved(Outside)) = 0 /\ pendingInfo' = pendingInfo /\ pendingInfo \in Int
      BY <1>1, <1>3, OutsideIs DEF LogTypes
    <3>2. One(record.level = "info") \in Nat
      BY DEF One
    <3> QED
      BY <1>3, <1>4, <2>3, <3>1, <3>2
  <2>6. Outside \in Sending \cup {Outside} /\ Outside.at \notin {"reserve", "undo"}
    BY OutsideIs
  <2> QED
    BY <1>1, <1>4, <2>1, <2>2, <2>4, <2>5, <2>6, SendKeeps, ZenonT(60)
<1>6. CASE ~(Len(lines) < LogItems)
  <2> DEFINE next == IF record.level = "info" THEN "undo" ELSE "count"
             x == [thread[t] EXCEPT !.at = next]
  <2>1. next \in {"reserve", "offer", "undo", "count"} /\ At(t, next) /\ lines' = lines
    BY <1>6 DEF Offers
  <2> HIDE DEF next
  <2>2. /\ x \in Sending /\ thread' = [thread EXCEPT ![t] = x] /\ x.record = record /\ x.at = next
        /\ \A l : One(IsUnderway(x, l)) = One(record.level = l)
        /\ One(IsReserved(x)) = One(next \in {"offer", "undo"} /\ record.level = "info")
    BY <1>1, <2>1, StepIs
  <2> HIDE DEF x, record
  <2>3. /\ One(IsReserved(x)) = One(IsReserved(thread[t])) /\ x \in Sending \cup {Outside}
        /\ (x.at \in {"reserve", "undo"} => x.record.level = "info")
    BY <1>3, <2>2 DEF One, next
  <2>4. \A l \in Levels :
          Owed(fate'[l]) - dropped'[l] - Cardinality(InLines(lines', l)) - One(IsUnderway(x, l))
            = Owed(fate[l]) - dropped[l] - Cardinality(InLines(lines, l))
                - One(IsUnderway(thread[t], l))
    BY <1>1, <1>2, <2>1, <2>2
  <2>5. pendingInfo' - Cardinality(InLines(lines', "info")) - One(IsReserved(x))
           = pendingInfo - Cardinality(InLines(lines, "info")) - One(IsReserved(thread[t]))
    BY <1>1, <2>1, <2>3
  <2>6. lines' \in Seq(Record)
    BY <1>4, <2>1
  <2> QED
    BY <1>1, <1>4, <2>2, <2>3, <2>4, <2>5, <2>6, SendKeeps, ZenonT(60)
<1> QED
  BY <1>5, <1>6

\* What is pending, piece by piece.
LEMMA PendingIs ==
  ASSUME LogInv, NEW l \in Levels
  PROVE  /\ Cardinality(InLines(lines, l)) \in Nat /\ Cardinality(Underway(l)) \in Nat
         /\ Cardinality(Reserved) \in Nat
         /\ One(writer = "handle" /\ held.level = l) \in Nat /\ Pending(l) \in Nat
<1>1. Cardinality(InLines(lines, l)) \in Nat
  BY LinesAre DEF LogInv, LogTypes
<1>2. IsFiniteSet(Underway(l)) /\ IsFiniteSet(Reserved)
  BY LogAssumption, FS_Subset DEF Underway, Reserved
<1>3. Cardinality(Underway(l)) \in Nat /\ Cardinality(Reserved) \in Nat
  BY <1>2, FS_CardinalityType
<1>4. One(writer = "handle" /\ held.level = l) \in Nat
  BY DEF One
<1> QED
  BY <1>1, <1>3, <1>4 DEF Pending

LEMMA RoomIs ==
  ASSUME LogInv
  PROVE  /\ RoomTaken = Cardinality(InLines(lines, "info")) + Cardinality(Reserved)
                          + One(held.level = "info")
         /\ Cardinality(InLines(lines, "info")) \in Nat /\ Cardinality(Reserved) \in Nat
         /\ One(held.level = "info") \in Nat /\ RoomTaken \in Int
<1>1. "info" \in Levels
  BY DEF Levels
<1>2. Infos = Cardinality(InLines(lines, "info"))
  BY DEF Infos, InLines
<1>3. One(held.level = "info") \in Nat
  BY DEF One
<1> QED
  BY <1>1, <1>2, <1>3, PendingIs DEF RoomTaken

LEMMA ReceivesKeeps ==
  ASSUME LogInv, Receives
  PROVE  LogInv'
<1>1. /\ writer = "receive"
      /\ UNCHANGED <<active, thread, records, pendingInfo, dropped, recent, kept, fate>>
  BY DEF Receives
<1>2. LogTypes /\ held = NoRecord
  BY <1>1 DEF LogInv, LogTypes
<1>3. CASE lines = << >>
  <2>1. writer' = "report" /\ UNCHANGED <<lines, held>>
    BY <1>3 DEF Receives
  <2>2. LogTypes'
    BY <1>1, <1>2, <2>1 DEF LogTypes
  <2>3. \A l : One(writer = "handle" /\ held.level = l)' = One(writer = "handle" /\ held.level = l)
    BY <1>1, <2>1 DEF One
  <2>4. \A l \in Levels : Pending(l)' = Pending(l)
    BY <1>1, <2>1, <2>3 DEF Pending, Underway
  <2>5. RoomTaken' = RoomTaken
    BY <1>1, <2>1 DEF RoomTaken, Infos, Reserved
  <2>6. \A l \in Levels : Pending(l) \in Int /\ Pending(l)' \in Int /\ Balance(l)' = Balance(l)
    BY <1>1, <2>4, PendingIs DEF Balance
  <2>7. recent' \subseteq kept' /\ writer' # "done"
    BY <1>1, <2>1 DEF LogInv
  <2>8. RoomTaken \in Int /\ RoomTaken' \in Int /\ pendingInfo' - RoomTaken' = pendingInfo - RoomTaken
    BY <1>1, <2>5, RoomIs
  <2> QED
    BY <2>2, <2>6, <2>7, <2>8, LogKeeps
<1>4. CASE lines # << >>
  <2>1. writer' = "handle" /\ held' = Head(lines) /\ lines' = Tail(lines)
    BY <1>4 DEF Receives
  <2>2. lines \in Seq(Record) /\ held' \in Record /\ lines' \in Seq(Record)
    BY <1>2, <1>4, <2>1, HeadTailProperties DEF LogTypes
  <2>3. LogTypes'
    BY <1>1, <1>2, <2>1, <2>2 DEF LogTypes
  <2>4. \A l : Cardinality(InLines(lines', l)) = Cardinality(InLines(lines, l)) - One(held'.level = l)
    BY <1>4, <2>1, <2>2, LinesTail
  <2>5. ASSUME NEW l \in Levels PROVE Pending(l)' = Pending(l)
    <3>1. /\ One(writer = "handle" /\ held.level = l) = 0
          /\ One(writer = "handle" /\ held.level = l)' = One(held'.level = l)
          /\ One(held'.level = l) \in Nat
      BY <1>1, <2>1 DEF One
    <3>2. Cardinality(Underway(l))' = Cardinality(Underway(l))
      BY <1>1 DEF Underway
    <3>3. PICK q \in Nat, u \in Nat, y \in Nat :
            /\ q = Cardinality(InLines(lines, l)) /\ u = Cardinality(Underway(l))
            /\ y = One(held'.level = l)
      BY <2>5, <3>1, PendingIs
    <3>4. Pending(l) = q + u + 0
      BY <3>1, <3>3 DEF Pending
    <3>5. Pending(l)' = (q - y) + u + y
      BY <2>4, <3>1, <3>2, <3>3 DEF Pending
    <3> QED
      BY <3>4, <3>5
  <2>6. RoomTaken' = RoomTaken
    <3>1. One(held.level = "info") = 0 /\ One(held.level = "info")' = One(held'.level = "info")
          /\ One(held'.level = "info") \in Nat
      BY <1>2 DEF One, NoRecord
    <3>2. Cardinality(Reserved)' = Cardinality(Reserved)
          /\ Infos' = Cardinality(InLines(lines', "info"))
      BY <1>1 DEF Reserved, Infos, InLines
    <3>3. PICK q \in Nat, u \in Nat, y \in Nat :
            /\ q = Cardinality(InLines(lines, "info")) /\ u = Cardinality(Reserved)
            /\ y = One(held'.level = "info")
      BY <3>1, RoomIs
    <3>4. RoomTaken = q + u + 0
      BY <3>1, <3>3, RoomIs
    <3>5. RoomTaken' = (q - y) + u + y
      BY <2>4, <3>1, <3>2, <3>3 DEF RoomTaken
    <3> QED
      BY <3>4, <3>5
  <2>7. \A l \in Levels : Pending(l) \in Int /\ Pending(l)' \in Int /\ Balance(l)' = Balance(l)
    BY <1>1, <2>5, PendingIs DEF Balance
  <2>8. recent' \subseteq kept' /\ writer' # "done"
    BY <1>1, <2>1 DEF LogInv
  <2>9. RoomTaken \in Int /\ RoomTaken' \in Int /\ pendingInfo' - RoomTaken' = pendingInfo - RoomTaken
    BY <1>1, <2>6, RoomIs
  <2> QED
    BY <2>3, <2>7, <2>8, <2>9, LogKeeps
<1> QED
  BY <1>3, <1>4

LEMMA HandlesKeeps ==
  ASSUME LogInv, Handles
  PROVE  LogInv'
<1>1. /\ writer = "handle" /\ writer' = "report" /\ held' = NoRecord
      /\ pendingInfo' = pendingInfo - One(held.level = "info")
      /\ UNCHANGED <<active, thread, records, lines, dropped>>
  BY DEF Handles, One
<1>2. PICK remembered \in SUBSET recent : Written(held, remembered)
  BY DEF Handles
<1>3. LogTypes /\ held \in Record /\ held.level \in Levels
  BY <1>1 DEF LogInv, LogTypes, Record
<1>4. PICK what \in {"written", "repeated", "failed"} : Count(held.level, what)
  BY <1>2 DEF Written
<1>5. recent' \subseteq kept'
  <2>1. remembered \subseteq kept
    BY <1>2 DEF LogInv
  <2> QED
    BY <1>2, <2>1 DEF Written
<1>6. /\ fate' \in [Levels -> Fates]
      /\ \A l \in Levels \ {held.level} : fate'[l] = fate[l]
      /\ Owed(fate'[held.level]) = Owed(fate[held.level]) - 1
  <2>1. fate \in [Levels -> Fates] /\ what \in {"taken", "written", "repeated", "failed"} /\ what # "taken"
    BY <1>3 DEF LogTypes
  <2>2. /\ fate' \in [Levels -> Fates]
        /\ \A l \in Levels \ {held.level} : fate'[l] = fate[l]
        /\ Owed(fate'[held.level]) = Owed(fate[held.level]) + (IF what = "taken" THEN 1 ELSE -1)
    BY <1>3, <1>4, <2>1, CountIs
  <2>3. Owed(fate[held.level]) \in Int
    BY <1>3, <2>1, OwedIs
  <2> QED
    BY <2>1, <2>2, <2>3
<1>7. LogTypes'
  <2>1. pendingInfo' \in Int
    BY <1>1, <1>3 DEF LogTypes, One
  <2> QED
    BY <1>1, <1>3, <1>6, <2>1 DEF LogTypes
<1>8. ASSUME NEW l \in Levels
      PROVE  Pending(l) \in Int /\ Pending(l)' \in Int /\ Balance(l)' = Balance(l)
  <2>1. /\ One(writer = "handle" /\ held.level = l) = One(held.level = l)
        /\ One(writer = "handle" /\ held.level = l)' = 0
        /\ One(held.level = l) = IF held.level = l THEN 1 ELSE 0
    BY <1>1 DEF One
  <2>2. /\ Cardinality(Underway(l))' = Cardinality(Underway(l))
        /\ Cardinality(InLines(lines, l))' = Cardinality(InLines(lines, l))
    BY <1>1 DEF Underway
  <2>3. PICK q \in Nat, u \in Nat, y \in Nat, c \in Nat, f \in Int, g \in Int :
          /\ q = Cardinality(InLines(lines, l)) /\ u = Cardinality(Underway(l))
          /\ y = One(held.level = l) /\ c = dropped[l]
          /\ f = Owed(fate[l]) /\ g = Owed(fate'[l])
    <3>1. dropped[l] \in Nat /\ Owed(fate[l]) \in Int /\ Owed(fate'[l]) \in Int
      BY <1>3, <1>6, <1>8, OwedIs DEF LogTypes
    <3> QED
      BY <1>8, <2>1, <3>1, PendingIs
  <2>4. g = f - y
    BY <1>6, <1>8, <2>1, <2>3
  <2>5. Pending(l) = q + u + y /\ Pending(l)' = q + u + 0
    BY <2>1, <2>2, <2>3 DEF Pending
  <2>6. Balance(l) = f - c - Pending(l) /\ Balance(l)' = g - c - Pending(l)'
    BY <1>1, <2>3 DEF Balance
  <2> QED
    BY <2>4, <2>5, <2>6
<1>9. RoomTaken \in Int /\ RoomTaken' \in Int /\ pendingInfo' - RoomTaken' = pendingInfo - RoomTaken
  <2>1. One(held.level = "info")' = 0
    BY <1>1 DEF One, NoRecord
  <2>2. Cardinality(Reserved)' = Cardinality(Reserved) /\ Infos' = Infos
    BY <1>1 DEF Reserved, Infos
  <2>3. PICK q \in Nat, u \in Nat, y \in Nat, n \in Int :
          /\ q = Cardinality(InLines(lines, "info")) /\ u = Cardinality(Reserved)
          /\ y = One(held.level = "info") /\ n = pendingInfo
    BY <1>3, RoomIs DEF LogTypes
  <2>4. Infos = q
    BY <2>3 DEF Infos, InLines
  <2>5. RoomTaken = q + u + y /\ RoomTaken' = q + u + 0
    BY <2>1, <2>2, <2>3, <2>4 DEF RoomTaken
  <2>6. pendingInfo' = n - y /\ pendingInfo = n
    BY <1>1, <2>3
  <2> QED
    BY <2>5, <2>6
<1> QED
  BY <1>1, <1>5, <1>7, <1>8, <1>9, LogKeeps

LEMMA ReportsKeeps ==
  ASSUME LogInv, Reports
  PROVE  LogInv'
<1>1. PICK done \in {FALSE, Disconnected} :
        /\ writer' = IF done THEN "done" ELSE "receive"
        /\ \E due \in (IF done THEN {TRUE} ELSE BOOLEAN) :
             IF due
             THEN /\ dropped' = [l \in Levels |-> 0]
                  /\ fate' = [l \in Levels |-> [fate[l] EXCEPT !.told = @ + dropped[l]]]
             ELSE UNCHANGED <<dropped, fate>>
  BY DEF Reports
<1>2. /\ writer = "report" /\ writer' \in {"done", "receive"}
      /\ UNCHANGED <<active, thread, records, lines, pendingInfo, held, recent, kept>>
  BY <1>1 DEF Reports
<1>3. LogTypes
  BY DEF LogInv
<1>4. /\ dropped' \in [Levels -> Nat] /\ fate' \in [Levels -> Fates]
      /\ \A l \in Levels : Owed(fate'[l]) - dropped'[l] = Owed(fate[l]) - dropped[l]
  <2>1. CASE UNCHANGED <<dropped, fate>>
    BY <1>3, <2>1 DEF LogTypes
  <2>2. CASE /\ dropped' = [l \in Levels |-> 0]
             /\ fate' = [l \in Levels |-> [fate[l] EXCEPT !.told = @ + dropped[l]]]
    <3>1. ASSUME NEW l \in Levels
          PROVE  /\ dropped'[l] = 0 /\ fate'[l] \in Fates
                 /\ Owed(fate'[l]) = Owed(fate[l]) - dropped[l]
      <4>1. PICK f \in Fates, c \in Nat : f = fate[l] /\ c = dropped[l]
        BY <1>3, <3>1 DEF LogTypes
      <4>2. fate'[l] = [f EXCEPT !.told = @ + c]
        BY <2>2, <3>1, <4>1
      <4>3. [f EXCEPT !.told = @ + c] \in Fates /\ Owed([f EXCEPT !.told = @ + c]) = Owed(f) - c
        BY DEF Fates, Owed
      <4> QED
        BY <2>2, <3>1, <4>1, <4>2, <4>3
    <3>2. fate' \in [Levels -> Fates] /\ dropped' \in [Levels -> Nat]
      BY <2>2, <3>1
    <3>3. \A l \in Levels : Owed(fate[l]) \in Int /\ dropped[l] \in Nat
      BY <1>3, OwedIs DEF LogTypes
    <3> QED
      BY <3>1, <3>2, <3>3
  <2> QED
    BY <1>1, <2>1, <2>2
<1>5. LogTypes'
  BY <1>2, <1>3, <1>4 DEF LogTypes
<1>6. writer' = "done" => Disconnected' /\ \A l \in Levels : dropped'[l] = 0
  <2> SUFFICES ASSUME writer' = "done" PROVE Disconnected' /\ \A l \in Levels : dropped'[l] = 0
    OBVIOUS
  <2>1. done
    BY <1>1
  <2>2. Disconnected /\ dropped' = [l \in Levels |-> 0]
    BY <1>1, <2>1
  <2> QED
    BY <1>2, <2>2 DEF Disconnected
<1>7. ASSUME NEW l \in Levels
      PROVE  Pending(l) \in Int /\ Pending(l)' \in Int /\ Balance(l)' = Balance(l)
  <2>1. One(writer = "handle" /\ held.level = l)' = One(writer = "handle" /\ held.level = l)
    BY <1>2 DEF One
  <2>2. Pending(l)' = Pending(l)
    BY <1>2, <2>1 DEF Pending, Underway
  <2> QED
    BY <1>4, <1>7, <2>2, PendingIs DEF Balance
<1>8. RoomTaken' = RoomTaken
  BY <1>2 DEF RoomTaken, Infos, Reserved
<1>9. RoomTaken \in Int /\ RoomTaken' \in Int /\ pendingInfo' - RoomTaken' = pendingInfo - RoomTaken
  BY <1>2, <1>8, RoomIs
<1>10. recent' \subseteq kept'
  BY <1>2 DEF LogInv
<1> QED
  BY <1>5, <1>6, <1>7, <1>9, <1>10, LogKeeps

LEMMA LogStays ==
  ASSUME LogInv, active' => active,
         UNCHANGED <<thread, records, lines, pendingInfo, dropped, writer, held, recent, kept, fate>>
  PROVE  LogInv'
BY DEF LogInv, LogTypes, Disconnected, Infos, Reserved, Pending, Underway

LEMMA LogStart == LogInit => LogInv
<1> SUFFICES ASSUME LogInit PROVE LogInv
  OBVIOUS
<1>1. LogTypes
  <2>1. << >> \in Seq(Record)
    BY EmptySeq
  <2>2. Outside.at = "outside"
    BY DEF Outside
  <2> QED
    BY <2>1, <2>2 DEF LogInit, LogTypes, Fates
<1>2. Reserved = {} /\ (\A l : Underway(l) = {}) /\ \A l : InLines(lines, l) = {}
  BY DEF LogInit, Reserved, Underway, IsUnderway, InLines, Outside
<1>3. Cardinality({}) = 0
  BY FS_EmptySet
<1>4. Infos = 0
  BY <1>2, <1>3 DEF Infos, InLines
<1>5. One(held.level = "info") = 0 /\ \A l : One(writer = "handle" /\ held.level = l) = 0
  BY DEF LogInit, NoRecord, One
<1>6. \A l \in Levels : Owed(fate[l]) = 0 /\ dropped[l] = 0
  BY DEF LogInit, Owed
<1>7. \A l \in Levels : Owed(fate[l]) = dropped[l] + Pending(l)
  BY <1>2, <1>3, <1>5, <1>6 DEF Pending
<1> QED
  BY <1>1, <1>2, <1>3, <1>4, <1>5, <1>7 DEF LogInv, LogInit

LEMMA LogStep == LogInv /\ [LogNext]_logVars => LogInv'
<1> SUFFICES ASSUME LogInv, [LogNext]_logVars PROVE LogInv'
  OBVIOUS
<1>1. CASE UNCHANGED logVars \/ Stops
  BY <1>1, LogStays DEF logVars, Stops
<1>2. ASSUME NEW t \in Threads, Sends(t) PROVE LogInv'
  BY <1>2, WriterRuns, BeginsKeeps, ReservesKeeps, OffersKeeps, UndoesKeeps, CountsKeeps DEF Sends
<1> QED
  BY <1>1, <1>2, ReceivesKeeps, HandlesKeeps, ReportsKeeps DEF LogNext

\* For any number of threads and records, and whatever limits the queue has, no record
\* vanishes: when the writer has ended, each record taken was written, was the repetition
\* of one that was, failed to be written or is in the number that is told; and the places
\* that information may take are those that it has taken (incident.rs).
THEOREM LogAlwaysAccounts == LogSpec => []LogAccounts
<1>1. LogInv => LogAccounts
  <2> SUFFICES ASSUME LogInv PROVE LogAccounts
    OBVIOUS
  <2>1. pendingInfo = Infos + Cardinality(Reserved) + (IF held.level = "info" THEN 1 ELSE 0)
    BY DEF LogInv, One
  <2>2. ASSUME writer = "done", NEW l \in Levels
        PROVE  fate[l].taken = fate[l].written + fate[l].repeated + fate[l].failed + fate[l].told
    <3>1. lines = << >> /\ dropped[l] = 0 /\ \A t \in Threads : thread[t] = Outside
      BY <2>2 DEF LogInv, Disconnected
    <3>2. InLines(lines, l) = {} /\ Underway(l) = {}
      BY <3>1 DEF InLines, Underway, IsUnderway, Outside
    <3>3. One(writer = "handle" /\ held.level = l) = 0 /\ Cardinality({}) = 0
      BY <2>2, FS_EmptySet DEF One
    <3>4. Pending(l) = 0
      BY <3>2, <3>3 DEF Pending
    <3>5. Owed(fate[l]) = 0 /\ fate[l] \in Fates
      BY <2>2, <3>1, <3>4 DEF LogInv, LogTypes
    <3>6. PICK f \in Fates : f = fate[l]
      BY <3>5
    <3>7. Owed(f) = 0
      BY <3>5, <3>6
    <3>8. f.taken = f.written + f.repeated + f.failed + f.told
      BY <3>7, NothingOwed
    <3> QED
      BY <3>6, <3>8
  <2> QED
    BY <2>1, <2>2 DEF LogAccounts, LogInv
<1> QED
  BY LogStart, LogStep, <1>1, PTL DEF LogSpec

-----------------------------------------------------------------------------
(***************************************************************************)
(* Snapshots.  The inductive invariant is of each capture: all it names is *)
(* stored, all it has read came after it looked at the files, and the      *)
(* first package, which has both scripts, is ahead or dealt with.          *)
(***************************************************************************)
Fields == {"at", "name", "executable", "left", "before", "entries", "scripts", "read", "errors"}

Covered(c) == {"x", "y"} \subseteq DOMAIN c.scripts \cup c.errors
CoveredBy(c, entries) ==
  {"x", "y"} \subseteq DOMAIN c.scripts \cup c.errors \cup {entries[k] : k \in DOMAIN entries}
IsOfOneVersion(c) == \A r, s \in c.read : r.from = s.from

Stands(c, stored, now) ==
  /\ DOMAIN c = Fields /\ c.left \subseteq Nat \ {0}
  /\ \A p \in DOMAIN c.scripts : c.scripts[p] \in stored
  /\ c.at \in {"idle", "list", "stamp"} => c.read = {}
  /\ c.at \in {"visit", "read"} => c.before \in 0..now /\ \A r \in c.read : r.from \in c.before..now
  /\ c.at \in {"stamp", "visit"} => "package" \in c.errors \/ 1 \in c.left \/ Covered(c)
  /\ c.at = "read" =>
       /\ c.entries \in {<<"x", "y">>, <<"y">>, <<"x">>}
       /\ "package" \in c.errors \/ Covered(c) \/ (1 \in c.left /\ CoveredBy(c, c.entries))
  /\ c.at = "publish" =>
       /\ "source" \in c.errors \/ IsOfOneVersion(c)
       /\ "package" \in c.errors \/ Covered(c)

CorpusInv ==
  /\ version \in [{"cache", "executable"} -> Nat \ {0}]
  /\ capture = [i \in Inspectors |-> capture[i]]
  /\ \A i \in Inspectors : Stands(capture[i], DOMAIN blobs, version.cache)
  /\ SnapshotsStand

\* What is stored stays, and versions only grow.
LEMMA StandsOn ==
  ASSUME NEW c, NEW stored, NEW more, NEW now \in Nat, NEW later \in Nat,
         Stands(c, stored, now), stored \subseteq more, now <= later
  PROVE  Stands(c, more, later)
BY DEF Stands

LEMMA SnapshotsStay ==
  ASSUME SnapshotsStand, UNCHANGED manifests, DOMAIN blobs \subseteq DOMAIN blobs'
  PROVE  SnapshotsStand'
BY DEF SnapshotsStand

\* One capture takes a step.
LEMMA OneCaptures ==
  ASSUME CorpusInv, NEW i \in Inspectors, NEW c, capture' = [capture EXCEPT ![i] = c],
         UNCHANGED <<version, manifests>>, DOMAIN blobs \subseteq DOMAIN blobs',
         Stands(c, DOMAIN blobs', version.cache)
  PROVE  CorpusInv'
<1>1. capture'[i] = c /\ \A j \in Inspectors : j # i => capture'[j] = capture[j]
  BY DEF CorpusInv
<1>2. version.cache \in Nat
  BY DEF CorpusInv
<1>3. \A j \in Inspectors : Stands(capture'[j], DOMAIN blobs', version'.cache)
  BY <1>1, <1>2, StandsOn DEF CorpusInv
<1>4. capture' = [j \in Inspectors |-> capture'[j]]
  BY DEF CorpusInv
<1> QED
  BY <1>3, <1>4, SnapshotsStay DEF CorpusInv

LEMMA AsleepStands == \A stored, now : Stands(Asleep, stored, now)
BY DEF Stands, Asleep, Fields

LEMMA StartsKeeps ==
  ASSUME CorpusInv, NEW i \in Inspectors, Starts(i)
  PROVE  CorpusInv'
<1>1. PICK n \in SnapshotNames :
        Goes(i, [Asleep EXCEPT !.at = "list", !.name = n, !.executable = version.executable])
  BY DEF Starts
<1> DEFINE c == [Asleep EXCEPT !.at = "list", !.name = n, !.executable = version.executable]
<1>2. UNCHANGED <<version, blobs, manifests>> /\ capture' = [capture EXCEPT ![i] = c]
  BY <1>1 DEF Starts, Goes
<1>3. Stands(c, DOMAIN blobs', version.cache)
  BY DEF Stands, Asleep, Fields
<1> QED
  BY <1>2, <1>3, OneCaptures

LEMMA ListsKeeps ==
  ASSUME CorpusInv, NEW i \in Inspectors, Lists(i)
  PROVE  CorpusInv'
<1> DEFINE c == [capture[i] EXCEPT !.at = "stamp", !.left = Packages(version.cache)]
<1>1. UNCHANGED <<version, blobs, manifests>> /\ capture' = [capture EXCEPT ![i] = c]
      /\ capture[i].at = "list"
  BY DEF Lists, Goes
<1>2. Stands(capture[i], DOMAIN blobs, version.cache) /\ version.cache \in Nat \ {0}
  BY DEF CorpusInv
<1>3. Stands(c, DOMAIN blobs', version.cache)
  BY <1>1, <1>2 DEF Stands, Fields, Packages
<1> QED
  BY <1>1, <1>3, OneCaptures

LEMMA StampsKeeps ==
  ASSUME CorpusInv, NEW i \in Inspectors, Stamps(i)
  PROVE  CorpusInv'
<1> DEFINE c == [capture[i] EXCEPT !.at = "visit", !.before = version.cache]
<1>1. UNCHANGED <<version, blobs, manifests>> /\ capture' = [capture EXCEPT ![i] = c]
      /\ capture[i].at = "stamp"
  BY DEF Stamps, Goes
<1>2. Stands(capture[i], DOMAIN blobs, version.cache) /\ version.cache \in Nat \ {0}
  BY DEF CorpusInv
<1>3. Stands(c, DOMAIN blobs', version.cache)
  BY <1>1, <1>2 DEF Stands, Fields, Covered
<1> QED
  BY <1>1, <1>3, OneCaptures

\* The first package is visited first.
LEMMA FirstPackage ==
  ASSUME NEW S, S \subseteq Nat \ {0}, 1 \in S
  PROVE  Min(S) = 1
<1>1. \A y \in S : 1 =< y
  OBVIOUS
<1>2. \A x \in S : (\A y \in S : x =< y) => x = 1
  OBVIOUS
<1>3. \E x \in S : \A y \in S : x =< y
  BY <1>1
<1>4. (CHOOSE x \in S : \A y \in S : x =< y) = 1
  BY <1>2, <1>3
<1> QED
  BY <1>4, Zenon DEF Min

\* A package that is given up is in the errors.
LEMMA GivenUpStands ==
  ASSUME CorpusInv, NEW i \in Inspectors, capture[i].at \in {"visit", "read"}
  PROVE  Stands([NextPackage(i) EXCEPT !.errors = @ \cup {"package"}], DOMAIN blobs, version.cache)
<1>1. Stands(capture[i], DOMAIN blobs, version.cache)
  BY DEF CorpusInv
<1> QED
  BY <1>1 DEF Stands, Fields, NextPackage

LEMMA OpensKeeps ==
  ASSUME CorpusInv, NEW i \in Inspectors, Opens(i)
  PROVE  CorpusInv'
<1>1. UNCHANGED <<version, blobs, manifests>> /\ capture[i].at = "visit"
  BY DEF Opens
<1>2. Stands(capture[i], DOMAIN blobs, version.cache)
  BY DEF CorpusInv
<1>3. CASE capture' = [capture EXCEPT ![i] =
                        [capture[i] EXCEPT !.at = "read", !.entries = Entries(Package(i))]]
  <2> DEFINE c == [capture[i] EXCEPT !.at = "read", !.entries = Entries(Package(i))]
  <2>1. Entries(Package(i)) \in {<<"x", "y">>, <<"x">>}
    BY DEF Entries
  <2>2. 1 \in capture[i].left => Entries(Package(i)) = <<"x", "y">>
    BY <1>2, FirstPackage DEF Stands, Entries, Package
  <2>3. \A d : CoveredBy(d, <<"x", "y">>)
    <3>1. {<<"x", "y">>[k] : k \in DOMAIN <<"x", "y">>} = {"x", "y"}
      OBVIOUS
    <3> QED
      BY <3>1 DEF CoveredBy
  <2> DEFINE e == Entries(Package(i))
  <2> HIDE DEF e
  <2>4. Stands([capture[i] EXCEPT !.at = "read", !.entries = e], DOMAIN blobs, version.cache)
    BY <1>1, <1>2, <2>1, <2>2, <2>3 DEF Stands, Fields, Covered, e
  <2>5. Stands(c, DOMAIN blobs', version.cache)
    BY <1>1, <2>4 DEF e
  <2> QED
    BY <1>1, <1>3, <2>5, OneCaptures
<1>4. CASE capture' = [capture EXCEPT ![i] = [NextPackage(i) EXCEPT !.errors = @ \cup {"package"}]]
  BY <1>1, <1>4, GivenUpStands, OneCaptures
<1> QED
  BY <1>3, <1>4 DEF Opens, Goes

\* An entry of a package is dealt with: it is copied, or named by an error.
LEMMA AdvancedStands ==
  ASSUME CorpusInv, NEW i \in Inspectors, capture[i].at = "read", NEW stored,
         NEW c, DOMAIN c = Fields, c.at = Advanced(i).at, c.left = Advanced(i).left,
         c.before = Advanced(i).before, c.entries = Advanced(i).entries,
         DOMAIN capture[i].scripts \cup capture[i].errors \cup {Head(capture[i].entries)}
           \subseteq DOMAIN c.scripts \cup c.errors,
         "package" \in capture[i].errors => "package" \in c.errors,
         \A p \in DOMAIN c.scripts : c.scripts[p] \in stored,
         \A r \in c.read : r \in capture[i].read \/ r.from = version.cache
  PROVE  Stands(c, stored, version.cache)
<1>1. Stands(capture[i], DOMAIN blobs, version.cache) /\ version.cache \in Nat
  BY DEF CorpusInv
<1>2. /\ capture[i].before \in 0..version.cache /\ capture[i].left \subseteq Nat \ {0}
      /\ \A r \in capture[i].read : r.from \in capture[i].before..version.cache
      /\ capture[i].entries \in {<<"x", "y">>, <<"y">>, <<"x">>}
      /\ \/ "package" \in capture[i].errors \/ Covered(capture[i])
         \/ 1 \in capture[i].left /\ CoveredBy(capture[i], capture[i].entries)
      /\ DOMAIN capture[i] = Fields
  BY <1>1 DEF Stands
<1>3. Covered(capture[i]) => Covered(c)
  BY DEF Covered
<1>4. \A r \in c.read : r.from \in capture[i].before..version.cache
  BY <1>1, <1>2
<1>5. CASE Len(capture[i].entries) = 1
  <2>1. /\ c.at = "visit" /\ c.before = capture[i].before /\ c.left \subseteq Nat \ {0}
    BY <1>2, <1>5 DEF Advanced, NextPackage, Fields
  <2>2. CoveredBy(capture[i], capture[i].entries) => Covered(c)
    BY <1>2, <1>5 DEF CoveredBy, Covered
  <2> QED
    BY <1>2, <1>3, <1>4, <2>1, <2>2 DEF Stands
<1>6. CASE capture[i].entries = <<"x", "y">>
  <2>1. /\ c.at = "read" /\ c.before = capture[i].before /\ c.left = capture[i].left
        /\ c.entries = <<"y">>
    BY <1>2, <1>6 DEF Advanced, Fields
  <2>2. CoveredBy(c, <<"y">>)
    <3>1. {<<"y">>[k] : k \in DOMAIN <<"y">>} = {"y"}
      OBVIOUS
    <3> QED
      BY <1>6, <3>1 DEF CoveredBy
  <2> QED
    BY <1>2, <1>3, <1>4, <2>1, <2>2 DEF Stands
<1> QED
  BY <1>2, <1>5, <1>6

LEMMA StoresKeeps ==
  ASSUME CorpusInv, NEW i \in Inspectors, Stores(i)
  PROVE  CorpusInv'
<1> DEFINE path == Head(capture[i].entries)
           content == Content(version.cache, Package(i), path)
           c == [Advanced(i) EXCEPT
                   !.scripts = [p \in DOMAIN @ \cup {path} |-> IF p = path THEN content ELSE @[p]],
                   !.read = @ \cup {[content |-> content, from |-> version.cache]}]
<1>1. /\ UNCHANGED <<version, manifests>> /\ capture[i].at = "read"
      /\ capture' = [capture EXCEPT ![i] = c]
      /\ DOMAIN blobs \subseteq DOMAIN blobs' /\ content \in DOMAIN blobs'
  BY DEF Stores, Copied, Goes, Known, Free
<1>2. Stands(capture[i], DOMAIN blobs, version.cache)
  BY DEF CorpusInv
<1>3. /\ DOMAIN Advanced(i) = Fields /\ Advanced(i).scripts = capture[i].scripts
      /\ Advanced(i).read = capture[i].read /\ Advanced(i).errors = capture[i].errors
  BY <1>2 DEF Stands, Fields, Advanced, NextPackage
<1> HIDE DEF path, content
<1>4. /\ DOMAIN c = Fields /\ c.at = Advanced(i).at /\ c.left = Advanced(i).left
      /\ c.before = Advanced(i).before /\ c.entries = Advanced(i).entries
      /\ c.errors = capture[i].errors
      /\ c.scripts = [p \in DOMAIN capture[i].scripts \cup {path} |->
                        IF p = path THEN content ELSE capture[i].scripts[p]]
      /\ c.read = capture[i].read \cup {[content |-> content, from |-> version.cache]}
  BY <1>3 DEF Fields
<1> HIDE DEF c
<1>5. \A p \in DOMAIN c.scripts : c.scripts[p] \in DOMAIN blobs'
  BY <1>1, <1>2, <1>4 DEF Stands
<1>6. DOMAIN capture[i].scripts \cup capture[i].errors \cup {Head(capture[i].entries)}
        \subseteq DOMAIN c.scripts \cup c.errors
  BY <1>4 DEF path
<1>7. \A r \in c.read : r \in capture[i].read \/ r.from = version.cache
  BY <1>4
<1>8. "package" \in capture[i].errors => "package" \in c.errors
  BY <1>4
<1>9. Stands(c, DOMAIN blobs', version.cache)
  BY <1>1, <1>4, <1>5, <1>6, <1>7, <1>8, AdvancedStands
<1> QED
  BY <1>1, <1>9, OneCaptures

LEMMA StoreFailsKeeps ==
  ASSUME CorpusInv, NEW i \in Inspectors, StoreFails(i)
  PROVE  CorpusInv'
<1>1. /\ UNCHANGED <<version, blobs, manifests>> /\ capture[i].at = "read"
      /\ capture' = [capture EXCEPT ![i] = [NextPackage(i) EXCEPT !.errors = @ \cup {"package"}]]
  BY DEF StoreFails, Goes
<1> QED
  BY <1>1, GivenUpStands, OneCaptures

LEMMA SkipsKeeps ==
  ASSUME CorpusInv, NEW i \in Inspectors, Skips(i)
  PROVE  CorpusInv'
<1> DEFINE path == Head(capture[i].entries)
           c == [Advanced(i) EXCEPT !.errors = @ \cup {path}]
<1>1. /\ UNCHANGED <<version, blobs, manifests>> /\ capture[i].at = "read"
      /\ capture' = [capture EXCEPT ![i] = c]
  BY DEF Skips, Goes
<1>2. Stands(capture[i], DOMAIN blobs, version.cache)
  BY DEF CorpusInv
<1>3. /\ DOMAIN Advanced(i) = Fields /\ Advanced(i).scripts = capture[i].scripts
      /\ Advanced(i).read = capture[i].read /\ Advanced(i).errors = capture[i].errors
  BY <1>2 DEF Stands, Fields, Advanced, NextPackage
<1> HIDE DEF path
<1>4. /\ DOMAIN c = Fields /\ c.at = Advanced(i).at /\ c.left = Advanced(i).left
      /\ c.before = Advanced(i).before /\ c.entries = Advanced(i).entries
      /\ c.errors = capture[i].errors \cup {path}
      /\ c.scripts = capture[i].scripts /\ c.read = capture[i].read
  BY <1>3 DEF Fields
<1> HIDE DEF c
<1>5. \A p \in DOMAIN c.scripts : c.scripts[p] \in DOMAIN blobs'
  BY <1>1, <1>2, <1>4 DEF Stands
<1>6. DOMAIN capture[i].scripts \cup capture[i].errors \cup {Head(capture[i].entries)}
        \subseteq DOMAIN c.scripts \cup c.errors
  BY <1>4 DEF path
<1>7. \A r \in c.read : r \in capture[i].read \/ r.from = version.cache
  BY <1>4
<1>8. "package" \in capture[i].errors => "package" \in c.errors
  BY <1>4
<1>9. Stands(c, DOMAIN blobs', version.cache)
  BY <1>1, <1>4, <1>5, <1>6, <1>7, <1>8, AdvancedStands
<1> QED
  BY <1>1, <1>9, OneCaptures

\* If the files are as they were when the capture first looked, they were so all the time
\* that it read.
LEMMA ChecksKeeps ==
  ASSUME CorpusInv, NEW i \in Inspectors, Checks(i)
  PROVE  CorpusInv'
<1> DEFINE more == IF Changed(i) THEN {"source"} ELSE {}
           c == [capture[i] EXCEPT !.at = "publish", !.errors = @ \cup more]
<1>1. /\ UNCHANGED <<version, blobs, manifests>> /\ capture[i].at = "visit"
      /\ capture[i].left = {} /\ capture' = [capture EXCEPT ![i] = c]
  BY DEF Checks, Goes
<1>2. Stands(capture[i], DOMAIN blobs, version.cache)
  BY DEF CorpusInv
<1>3. "source" \in more \/ IsOfOneVersion(capture[i])
  <2>1. CASE Changed(i)
    BY <2>1
  <2>2. CASE ~Changed(i)
    <3>1. version.cache = capture[i].before /\ version.cache \in Nat
      BY <2>2 DEF Changed, CorpusInv
    <3>2. \A r \in capture[i].read : r.from \in version.cache..version.cache
      BY <1>1, <1>2, <3>1 DEF Stands
    <3> QED
      BY <3>1, <3>2 DEF IsOfOneVersion
  <2> QED
    BY <2>1, <2>2
<1> HIDE DEF more
<1>4. /\ DOMAIN c = Fields /\ c.at = "publish" /\ c.left = {} /\ c.scripts = capture[i].scripts
      /\ c.read = capture[i].read /\ c.errors = capture[i].errors \cup more
  BY <1>1, <1>2 DEF Stands, Fields
<1> HIDE DEF c
<1>5. "package" \in capture[i].errors \/ Covered(capture[i])
  BY <1>1, <1>2 DEF Stands
<1>6. Stands(c, DOMAIN blobs', version.cache)
  BY <1>1, <1>2, <1>3, <1>4, <1>5 DEF Stands, Covered, IsOfOneVersion
<1> QED
  BY <1>1, <1>6, OneCaptures

\* One capture has ended: the snapshots stand as before, or the one it publishes does too.
LEMMA EndedKeeps ==
  ASSUME CorpusInv, NEW i \in Inspectors, Ends(i), UNCHANGED <<version, blobs>>, SnapshotsStand'
  PROVE  CorpusInv'
<1>1. capture' = [capture EXCEPT ![i] = Asleep]
  BY DEF Ends, Goes
<1>2. \A j \in Inspectors : Stands(capture'[j], DOMAIN blobs', version'.cache)
  BY <1>1, AsleepStands DEF CorpusInv
<1>3. capture' = [j \in Inspectors |-> capture'[j]]
  BY <1>1 DEF CorpusInv
<1> QED
  BY <1>2, <1>3 DEF CorpusInv

LEMMA PublishesKeeps ==
  ASSUME CorpusInv, NEW i \in Inspectors, Publishes(i)
  PROVE  CorpusInv'
<1> DEFINE c == capture[i]
           m == [scripts |-> c.scripts, read |-> c.read, errors |-> c.errors,
                 executable |-> c.executable]
<1>1. /\ UNCHANGED <<version, blobs>> /\ c.at = "publish" /\ Ends(i)
      /\ manifests' = [n \in DOMAIN manifests \cup {c.name} |->
                         IF n = c.name THEN m ELSE manifests[n]]
  BY DEF Publishes
<1>2. Stands(c, DOMAIN blobs, version.cache)
  BY DEF CorpusInv
<1>3. /\ \A p \in DOMAIN m.scripts : m.scripts[p] \in DOMAIN blobs
      /\ "source" \notin m.errors => \A r, s \in m.read : r.from = s.from
      /\ "package" \notin m.errors => {"x", "y"} \subseteq DOMAIN m.scripts \cup m.errors
  BY <1>1, <1>2 DEF Stands, IsOfOneVersion, Covered
<1> HIDE DEF m, c
<1>4. SnapshotsStand'
  BY <1>1, <1>3 DEF SnapshotsStand, CorpusInv
<1> QED
  BY <1>1, <1>4, EndedKeeps

LEMMA DiesKeeps ==
  ASSUME CorpusInv, NEW i \in Inspectors, Dies(i)
  PROVE  CorpusInv'
<1>1. UNCHANGED <<version, blobs, manifests>> /\ Ends(i)
  BY DEF Dies
<1>2. SnapshotsStand'
  BY <1>1, SnapshotsStay DEF CorpusInv
<1> QED
  BY <1>1, <1>2, EndedKeeps

LEMMA UpdatesKeeps ==
  ASSUME CorpusInv, Updates
  PROVE  CorpusInv'
<1>1. UNCHANGED <<blobs, manifests, capture>>
      /\ \E f \in {"cache", "executable"} : version' = [version EXCEPT ![f] = @ + 1]
  BY DEF Updates
<1>2. /\ version' \in [{"cache", "executable"} -> Nat \ {0}]
      /\ version.cache <= version'.cache /\ version.cache \in Nat /\ version'.cache \in Nat
  BY <1>1 DEF CorpusInv
<1>3. \A j \in Inspectors : Stands(capture[j], DOMAIN blobs, version'.cache)
  BY <1>2, StandsOn DEF CorpusInv
<1> QED
  BY <1>1, <1>2, <1>3, SnapshotsStay DEF CorpusInv

LEMMA DamagesKeeps ==
  ASSUME CorpusInv, Damages
  PROVE  CorpusInv'
<1>1. UNCHANGED <<version, manifests, capture>> /\ DOMAIN blobs' = DOMAIN blobs
  BY DEF Damages
<1> QED
  BY <1>1, SnapshotsStay DEF CorpusInv

LEMMA CorpusStart == CorpusInit => CorpusInv
<1> SUFFICES ASSUME CorpusInit PROVE CorpusInv
  OBVIOUS
<1>1. \A j \in Inspectors : Stands(capture[j], DOMAIN blobs, version.cache)
  BY AsleepStands DEF CorpusInit
<1>2. SnapshotsStand
  BY DEF CorpusInit, SnapshotsStand
<1> QED
  BY <1>1, <1>2 DEF CorpusInit, CorpusInv

LEMMA CorpusStep == CorpusInv /\ [CorpusNext]_corpusVars => CorpusInv'
<1> SUFFICES ASSUME CorpusInv, [CorpusNext]_corpusVars PROVE CorpusInv'
  OBVIOUS
<1>1. CASE \E i \in Inspectors : Captures(i)
  BY <1>1, StartsKeeps, ListsKeeps, StampsKeeps, OpensKeeps, StoresKeeps, StoreFailsKeeps,
     SkipsKeeps, ChecksKeeps, PublishesKeeps, DiesKeeps DEF Captures
<1>2. CASE UNCHANGED corpusVars
  BY <1>2, SnapshotsStay DEF CorpusInv, corpusVars
<1> QED
  BY <1>1, <1>2, UpdatesKeeps, DamagesKeeps DEF CorpusNext

\* However captures are killed and the game is updated while they copy: a snapshot that does
\* not say that the files changed is of one version of the cache, all it names is stored,
\* and each script is there or named by an error (capture in inspect/luau/corpus.rs).
THEOREM SnapshotsAlwaysStand == CorpusSpec => []SnapshotsStand
<1>1. CorpusInv => SnapshotsStand
  BY DEF CorpusInv
<1> QED
  BY <1>1, CorpusStart, CorpusStep, PTL DEF CorpusSpec

\* No step of a capture names a blob that it has not found or made intact (store_script in
\* inspect/luau/corpus.rs).
THEOREM CapturesBuildOnIntact == CorpusSpec => BuildsOnIntact
<1>1. ASSUME CorpusInv, [CorpusNext]_corpusVars
      PROVE  [AddsIntact]_corpusVars
  <2>1. ASSUME NEW i \in Inspectors, Captures(i) PROVE AddsIntact
    <3>1. \A j \in Inspectors : DOMAIN capture[j] = Fields
      BY <1>1 DEF CorpusInv, Stands
    <3>2. ASSUME NEW c, capture' = [capture EXCEPT ![i] = c],
                 \A p \in DOMAIN c.scripts \ DOMAIN capture[i].scripts : blobs'[c.scripts[p]]
          PROVE  AddsIntact
      BY <1>1, <3>2 DEF AddsIntact, CorpusInv
    <3>3. ASSUME NEW c, capture' = [capture EXCEPT ![i] = c],
                 c.scripts = capture[i].scripts \/ c.scripts = <<>>
          PROVE  AddsIntact
      <4>1. DOMAIN <<>> = {}
        OBVIOUS
      <4>2. DOMAIN c.scripts \ DOMAIN capture[i].scripts = {}
        BY <3>3, <4>1
      <4> QED
        BY <3>2, <3>3, <4>2
    <3>4. CASE Starts(i)
      BY <3>3, <3>4 DEF Starts, Goes, Asleep
    <3>5. CASE Lists(i) \/ Stamps(i) \/ Checks(i)
      BY <3>1, <3>3, <3>5 DEF Lists, Stamps, Checks, Goes, Fields
    <3>6. CASE Opens(i) \/ StoreFails(i)
      BY <3>1, <3>3, <3>6 DEF Opens, StoreFails, Goes, Fields, NextPackage
    <3>7. CASE Skips(i)
      BY <3>1, <3>3, <3>7 DEF Skips, Goes, Fields, NextPackage, Advanced
    <3>8. CASE Publishes(i) \/ Dies(i)
      BY <3>3, <3>8 DEF Publishes, Dies, Ends, Goes, Asleep
    <3>9. CASE Stores(i)
      <4> DEFINE path == Head(capture[i].entries)
                 content == Content(version.cache, Package(i), path)
                 c == [Advanced(i) EXCEPT
                         !.scripts = [p \in DOMAIN @ \cup {path} |->
                                        IF p = path THEN content ELSE @[p]],
                         !.read = @ \cup {[content |-> content, from |-> version.cache]}]
      <4>1. capture' = [capture EXCEPT ![i] = c]
        BY <3>9 DEF Stores, Copied, Goes
      <4>2. blobs'[content]
        <5> HIDE DEF content
        <5>1. CASE Known(content) /\ UNCHANGED blobs
          BY <5>1 DEF Known
        <5>2. CASE blobs' = [b \in DOMAIN blobs \cup {content} |->
                               IF b = content THEN TRUE ELSE blobs[b]]
          BY <5>2
        <5> QED
          BY <3>9, <5>1, <5>2 DEF Stores, content
      <4>3. DOMAIN Advanced(i) = Fields /\ Advanced(i).scripts = capture[i].scripts
        BY <3>1 DEF Fields, Advanced, NextPackage
      <4> HIDE DEF path, content
      <4>4. c.scripts = [p \in DOMAIN capture[i].scripts \cup {path} |->
                           IF p = path THEN content ELSE capture[i].scripts[p]]
        BY <4>3 DEF Fields
      <4> HIDE DEF c
      <4>5. \A p \in DOMAIN c.scripts \ DOMAIN capture[i].scripts : c.scripts[p] = content
        BY <4>4
      <4> QED
        BY <3>2, <4>1, <4>2, <4>5
    <3> QED
      BY <2>1, <3>4, <3>5, <3>6, <3>7, <3>8, <3>9 DEF Captures
  <2>2. CASE Updates \/ Damages
    BY <2>2 DEF Updates, Damages, AddsIntact
  <2>3. CASE UNCHANGED corpusVars
    BY <2>3
  <2> QED
    BY <1>1, <2>1, <2>2, <2>3 DEF CorpusNext
<1> QED
  BY <1>1, CorpusStart, CorpusStep, PTL DEF CorpusSpec, BuildsOnIntact

-----------------------------------------------------------------------------
(***************************************************************************)
(* Payloads.  The inductive invariant says whose a half-written file is: a *)
(* watch that writes or removes one has made it, and no other one has.     *)
(***************************************************************************)
WatchFields == {"at", "payload", "events"}
Busy == {"create", "write", "remove", "compare", "tell"}
Writes(w) == watch[w].at \in {"write", "remove"}

PayloadInv ==
  /\ saved = [p \in Payloads |-> saved[p]]
  /\ watch = [w \in Watches |-> watch[w]]
  /\ \A w \in Watches : DOMAIN watch[w] = WatchFields
  /\ \A w \in Watches : watch[w].at \in Busy => watch[w].payload \in Payloads
  /\ \A w \in Watches : Writes(w) => saved[watch[w].payload] = "part"
  /\ \A w \in Watches : watch[w].at = "tell" => saved[watch[w].payload] = "whole"
  /\ \A v, w \in Watches : v # w /\ Writes(v) /\ Writes(w) => watch[v].payload # watch[w].payload
  /\ reported \subseteq Payloads /\ ReportedIsKept

\* One watch goes on, and no file changes.
LEMMA OneWatches ==
  ASSUME PayloadInv, NEW w \in Watches, NEW r, watch' = [watch EXCEPT ![w] = r],
         UNCHANGED <<saved, reported>>, DOMAIN r = WatchFields,
         r.at \in Busy => r.payload \in Payloads,
         r.at = "tell" => saved[r.payload] = "whole",
         r.at \in {"write", "remove"} =>
           Writes(w) /\ r.payload = watch[w].payload
  PROVE  PayloadInv'
<1>1. watch'[w] = r /\ \A v \in Watches : v # w => watch'[v] = watch[v]
  BY DEF PayloadInv
<1>2. watch' = [v \in Watches |-> watch'[v]]
  BY DEF PayloadInv
<1> QED
  BY <1>1, <1>2 DEF PayloadInv, Writes, ReportedIsKept, Busy

\* One watch goes on, and it changes the file of its payload.
LEMMA OneSaves ==
  ASSUME PayloadInv, NEW w \in Watches, NEW next, NEW state, watch[w].at \in Busy,
         watch' = [watch EXCEPT ![w].at = next],
         saved' = [saved EXCEPT ![watch[w].payload] = state], UNCHANGED reported,
         saved[watch[w].payload] # "whole",
         \A v \in Watches \ {w} : Writes(v) => watch[v].payload # watch[w].payload,
         \/ next = "write" /\ state = "part"
         \/ next = "tell" /\ state = "whole"
         \/ next = "failed"
  PROVE  PayloadInv'
<1> DEFINE p == watch[w].payload
<1>1. /\ watch'[w].at = next /\ watch'[w].payload = p /\ DOMAIN watch'[w] = WatchFields
      /\ \A v \in Watches : v # w => watch'[v] = watch[v]
      /\ watch' = [v \in Watches |-> watch'[v]]
  BY DEF PayloadInv, WatchFields
<1>2. p \in Payloads
  BY DEF PayloadInv
<1>3. /\ saved'[p] = state /\ \A q \in Payloads : q # p => saved'[q] = saved[q]
      /\ saved' = [q \in Payloads |-> saved'[q]]
  BY <1>2 DEF PayloadInv
<1>4. /\ \A v \in Watches : watch'[v].at \in Busy => watch'[v].payload \in Payloads
      /\ \A v \in Watches : DOMAIN watch'[v] = WatchFields
  BY <1>1, <1>2 DEF PayloadInv
<1>5. \A v \in Watches : Writes(v)' => saved'[watch'[v].payload] = "part"
  BY <1>1, <1>2, <1>3 DEF PayloadInv, Writes, Busy
<1>6. \A v \in Watches : watch'[v].at = "tell" => saved'[watch'[v].payload] = "whole"
  BY <1>1, <1>2, <1>3 DEF PayloadInv, Busy
<1>7. \A v, u \in Watches : v # u /\ Writes(v)' /\ Writes(u)' =>
        watch'[v].payload # watch'[u].payload
  BY <1>1 DEF PayloadInv, Writes
<1>8. ReportedIsKept'
  BY <1>2, <1>3 DEF PayloadInv, ReportedIsKept
<1> QED
  BY <1>1, <1>3, <1>4, <1>5, <1>6, <1>7, <1>8 DEF PayloadInv

LEMMA CreateKeeps ==
  ASSUME PayloadInv, NEW w \in Watches, Create(w)
  PROVE  PayloadInv'
<1>1. watch[w].at = "create" /\ UNCHANGED reported
  BY DEF Create
<1>2. CASE saved[watch[w].payload] = "absent"
  <2>1. \A v \in Watches \ {w} : Writes(v) => watch[v].payload # watch[w].payload
    BY <1>2 DEF PayloadInv
  <2>2. /\ watch' = [watch EXCEPT ![w].at = "write"]
        /\ saved' = [saved EXCEPT ![watch[w].payload] = "part"]
    BY <1>2 DEF Create, CreateNew, Save, StepsTo
  <2>3. watch[w].at \in Busy /\ saved[watch[w].payload] # "whole"
    BY <1>1, <1>2 DEF Busy
  <2> QED
    BY <1>1, <2>1, <2>2, <2>3, OneSaves
<1>3. CASE saved[watch[w].payload] # "absent"
  <2> DEFINE r == [watch[w] EXCEPT !.at = "compare"]
  <2>1. UNCHANGED saved /\ watch' = [watch EXCEPT ![w] = r]
    BY <1>3 DEF Create, CreateNew, StepsTo
  <2>2. r.at = "compare" /\ r.payload = watch[w].payload /\ DOMAIN r = WatchFields
    BY DEF PayloadInv, WatchFields
  <2>3. watch[w].payload \in Payloads
    BY <1>1 DEF PayloadInv, Busy
  <2> HIDE DEF r
  <2> QED
    BY <1>1, <2>1, <2>2, <2>3, OneWatches
<1> QED
  BY <1>2, <1>3

LEMMA WriteKeeps ==
  ASSUME PayloadInv, NEW w \in Watches, Write(w)
  PROVE  PayloadInv'
<1>1. watch[w].at = "write" /\ UNCHANGED reported /\ Writes(w)
  BY DEF Write, Writes
<1>2. CASE Save(watch[w].payload, "whole") /\ StepsTo(w, "tell")
  <2>1. \A v \in Watches \ {w} : Writes(v) => watch[v].payload # watch[w].payload
    BY <1>1 DEF PayloadInv
  <2>2. watch[w].at \in Busy /\ saved[watch[w].payload] # "whole"
    BY <1>1 DEF PayloadInv, Busy
  <2>3. /\ watch' = [watch EXCEPT ![w].at = "tell"]
        /\ saved' = [saved EXCEPT ![watch[w].payload] = "whole"]
    BY <1>2 DEF Save, StepsTo
  <2> QED
    BY <1>1, <2>1, <2>2, <2>3, OneSaves
<1>3. CASE StepsTo(w, "remove") /\ UNCHANGED saved
  <2> DEFINE r == [watch[w] EXCEPT !.at = "remove"]
  <2>1. watch' = [watch EXCEPT ![w] = r]
    BY <1>3 DEF StepsTo
  <2>2. r.at = "remove" /\ r.payload = watch[w].payload /\ DOMAIN r = WatchFields
    BY DEF PayloadInv, WatchFields
  <2>3. watch[w].payload \in Payloads
    BY <1>1 DEF PayloadInv, Busy
  <2> HIDE DEF r
  <2> QED
    BY <1>1, <1>3, <2>1, <2>2, <2>3, OneWatches
<1> QED
  BY <1>2, <1>3 DEF Write

LEMMA RemoveKeeps ==
  ASSUME PayloadInv, NEW w \in Watches, RemovePart(w)
  PROVE  PayloadInv'
<1>1. watch[w].at = "remove" /\ UNCHANGED reported /\ Writes(w)
  BY DEF RemovePart, Writes
<1>2. \A v \in Watches \ {w} : Writes(v) => watch[v].payload # watch[w].payload
  BY <1>1 DEF PayloadInv
<1>3. watch[w].at \in Busy /\ saved[watch[w].payload] # "whole"
  BY <1>1 DEF PayloadInv, Busy
<1>4. /\ watch' = [watch EXCEPT ![w].at = "failed"]
      /\ saved' = [saved EXCEPT ![watch[w].payload] = "absent"]
  BY DEF RemovePart, Save, StepsTo
<1> QED
  BY <1>1, <1>2, <1>3, <1>4, OneSaves

LEMMA CompareKeeps ==
  ASSUME PayloadInv, NEW w \in Watches, CompareFile(w)
  PROVE  PayloadInv'
<1> DEFINE next == IF saved[watch[w].payload] = "whole" THEN "tell" ELSE "failed"
           r == [watch[w] EXCEPT !.at = next]
<1>1. UNCHANGED <<saved, reported>> /\ watch' = [watch EXCEPT ![w] = r] /\ watch[w].at = "compare"
  BY DEF CompareFile, StepsTo
<1>2. watch[w].payload \in Payloads
  BY <1>1 DEF PayloadInv, Busy
<1>3. r.at = next /\ r.payload = watch[w].payload /\ DOMAIN r = WatchFields
  BY DEF PayloadInv, WatchFields
<1> HIDE DEF r
<1> QED
  BY <1>1, <1>2, <1>3, OneWatches

LEMMA TellKeeps ==
  ASSUME PayloadInv, NEW w \in Watches, Tell(w)
  PROVE  PayloadInv'
<1> DEFINE p == watch[w].payload
<1>1. /\ UNCHANGED saved /\ watch[w].at = "tell" /\ reported' = reported \cup {p}
      /\ watch' = [watch EXCEPT ![w].at = "queue", ![w].events = @ + 1]
  BY DEF Tell
<1>2. p \in Payloads /\ saved[p] = "whole"
  BY <1>1 DEF PayloadInv, Busy
<1>3. /\ watch'[w].at = "queue" /\ DOMAIN watch'[w] = WatchFields
      /\ \A v \in Watches : v # w => watch'[v] = watch[v]
      /\ watch' = [v \in Watches |-> watch'[v]]
  BY <1>1 DEF PayloadInv, WatchFields
<1>4. /\ \A v \in Watches : watch'[v].at \in Busy => v # w
      /\ \A v \in Watches : Writes(v)' => v # w
  BY <1>3 DEF Busy, Writes
<1>5. ReportedIsKept' /\ reported' \subseteq Payloads
  BY <1>1, <1>2 DEF PayloadInv, ReportedIsKept
<1>6. \A v \in Watches : watch'[v].at = "tell" => v # w
  BY <1>3
<1> QED
  BY <1>1, <1>3, <1>4, <1>5, <1>6 DEF PayloadInv, Writes

LEMMA RestsKeeps ==
  ASSUME PayloadInv, NEW w \in Watches, TakeSample(w) \/ WatchEnds(w) \/ Killed(w) \/ Restart(w)
  PROVE  PayloadInv'
<1>1. UNCHANGED <<saved, reported>>
  BY DEF TakeSample, WatchEnds, Killed, Restart
<1>2. CASE TakeSample(w)
  <2>1. PICK p \in Payloads : watch' = [watch EXCEPT ![w].at = "create", ![w].payload = p]
    BY <1>2 DEF TakeSample
  <2> DEFINE r == [watch[w] EXCEPT !.at = "create", !.payload = p]
  <2>2. r.at = "create" /\ r.payload = p /\ DOMAIN r = WatchFields
        /\ watch' = [watch EXCEPT ![w] = r]
    BY <2>1 DEF PayloadInv, WatchFields
  <2> QED
    BY <1>1, <2>2, OneWatches
<1>3. ASSUME NEW next \in {"done", "failed"}, StepsTo(w, next)
      PROVE  PayloadInv'
  <2> DEFINE r == [watch[w] EXCEPT !.at = next]
  <2>1. watch' = [watch EXCEPT ![w] = r]
    BY <1>3 DEF StepsTo
  <2>2. r.at = next /\ DOMAIN r = WatchFields
    BY DEF PayloadInv, WatchFields
  <2> QED
    BY <1>1, <2>1, <2>2, OneWatches DEF Busy
<1>4. CASE Restart(w)
  <2> DEFINE r == [at |-> "queue", payload |-> CHOOSE p \in Payloads : TRUE, events |-> 0]
  <2>1. watch' = [watch EXCEPT ![w] = r]
    BY <1>4 DEF Restart
  <2>2. r.at = "queue" /\ DOMAIN r = WatchFields
    BY DEF WatchFields
  <2> HIDE DEF r
  <2> QED
    BY <1>1, <2>1, <2>2, OneWatches DEF Busy
<1> QED
  BY <1>2, <1>3, <1>4 DEF WatchEnds, Killed

LEMMA PayloadStart == PayloadInit => PayloadInv
BY DEF PayloadInit, PayloadInv, WatchFields, Busy, Writes, ReportedIsKept

LEMMA PayloadStep == PayloadInv /\ [PayloadNext]_payVars => PayloadInv'
<1> SUFFICES ASSUME PayloadInv, [PayloadNext]_payVars PROVE PayloadInv'
  OBVIOUS
<1>1. CASE UNCHANGED payVars
  BY <1>1 DEF PayloadInv, payVars, Writes, ReportedIsKept
<1> QED
  BY <1>1, CreateKeeps, WriteKeeps, RemoveKeeps, CompareKeeps, TellKeeps, RestsKeeps
  DEF PayloadNext

\* So the files stay.
LEMMA ReportedStaysKept == PayloadSpec => []ReportedIsKept
<1>1. PayloadInv => ReportedIsKept
  BY DEF PayloadInv
<1> QED
  BY <1>1, PayloadStart, PayloadStep, PTL DEF PayloadSpec

-----------------------------------------------------------------------------
(***************************************************************************)
(* A subscription.  The frames on their way go on where what is printed    *)
(* ends: the answer to the subscription is the first of them, and each     *)
(* event is numbered by its place.                                         *)
(***************************************************************************)
Frames == [kind : {"hello", "subscribe", "refused", "event"}, event : Nat, whole : BOOLEAN]

\* What the k-th frame after the hello is.
Expected(frame, k) ==
  /\ frame.event = k - 1
  /\ k = 1 => frame.kind \in {"subscribe", "refused"}
  /\ k # 1 => frame.kind = "event"

GoesOnFrom(frames, printed, last) ==
  /\ Len(frames) + printed = last + 1
  /\ \A k \in 1..Len(frames) : Expected(frames[k], printed + k)

StreamInv ==
  /\ wire \in Seq(Frames) /\ emitted \in Seq(Frames) /\ sent \in Nat
  /\ asked \in {"nothing", "hello", "subscribe", "events"}
  /\ client \in {"hello", "subscribe", "initial"} => emitted = <<>>
  /\ client \in {"hello", "subscribe"} => sent = 0
  /\ client = "hello" => asked = "nothing" /\ wire = <<>>
  /\ client = "subscribe" => \/ asked = "hello" /\ wire = <<>>
                             \/ asked = "nothing" /\ Len(wire) = 1
  /\ client = "initial" => \/ asked = "subscribe" /\ wire = <<>> /\ sent = 0
                           \/ asked = "events" /\ GoesOnFrom(wire, 0, sent)
  /\ client = "stream" => /\ asked = "events" /\ Len(emitted) >= 1
                          /\ GoesOnFrom(wire, Len(emitted), sent)
  /\ PrintsAPrefix

LEMMA AppendIs ==
  ASSUME NEW S, NEW s \in Seq(S), NEW x \in S
  PROVE  /\ Append(s, x) \in Seq(S) /\ Len(Append(s, x)) = Len(s) + 1
         /\ \A k \in 1..Len(s) : Append(s, x)[k] = s[k]
         /\ Append(s, x)[Len(s) + 1] = x
OBVIOUS

LEMMA TailIs ==
  ASSUME NEW S, NEW s \in Seq(S), s # <<>>
  PROVE  /\ Tail(s) \in Seq(S) /\ Len(Tail(s)) = Len(s) - 1 /\ Len(s) >= 1
         /\ \A k \in 1..Len(s) - 1 : Tail(s)[k] = s[k + 1]
         /\ Head(s) = s[1] /\ Head(s) \in S
OBVIOUS

\* A frame is added, or completed, or the first one is taken.
LEMMA MoreCome ==
  ASSUME NEW s \in Seq(Frames), NEW f \in Frames, NEW printed \in Nat, NEW last \in Nat,
         f.kind = "event", f.event = last + 1, GoesOnFrom(s, printed, last)
  PROVE  GoesOnFrom(Append(s, f), printed, last + 1)
<1>1. /\ Len(Append(s, f)) = Len(s) + 1 /\ Append(s, f)[Len(s) + 1] = f
      /\ \A k \in 1..Len(s) : Append(s, f)[k] = s[k]
  BY AppendIs
<1> QED
  BY <1>1 DEF GoesOnFrom, Expected

LEMMA FirstTaken ==
  ASSUME NEW s \in Seq(Frames), s # <<>>, NEW printed \in Nat, NEW last \in Nat,
         GoesOnFrom(s, printed, last)
  PROVE  GoesOnFrom(Tail(s), printed + 1, last) /\ Expected(Head(s), printed + 1)
<1>1. /\ Len(Tail(s)) = Len(s) - 1 /\ Len(s) >= 1 /\ Head(s) = s[1]
      /\ \A k \in 1..Len(s) - 1 : Tail(s)[k] = s[k + 1]
  BY TailIs
<1>2. Expected(s[1], printed + 1)
  BY <1>1 DEF GoesOnFrom
<1>3. \A k \in 1..Len(s) - 1 : Expected(s[k + 1], printed + 1 + k)
  BY DEF GoesOnFrom
<1>4. \A k \in 1..Len(Tail(s)) : Expected(Tail(s)[k], printed + 1 + k)
  BY <1>1, <1>3
<1> QED
  BY <1>1, <1>2, <1>4 DEF GoesOnFrom

\* The next frame is printed.
LEMMA Prints ==
  ASSUME StreamInv, NEW f \in Frames, f.whole, Expected(f, Len(emitted) + 1),
         emitted = <<>> => f.kind = "subscribe", Len(emitted) <= EventLimit,
         emitted' = Append(emitted, f), client' # "done"
  PROVE  PrintsAPrefix' /\ emitted' \in Seq(Frames) /\ Len(emitted') = Len(emitted) + 1
<1>1. /\ emitted' \in Seq(Frames) /\ Len(emitted') = Len(emitted) + 1 /\ Len(emitted) \in Nat
      /\ \A k \in 1..Len(emitted) : emitted'[k] = emitted[k]
      /\ emitted'[Len(emitted) + 1] = f
  BY AppendIs DEF StreamInv
<1>2. DOMAIN emitted = 1..Len(emitted) /\ DOMAIN emitted' = 1..Len(emitted) + 1
  BY <1>1 DEF StreamInv
<1>3. Len(emitted) = 0 => emitted = <<>>
  BY DEF StreamInv
<1>4. \A k \in 1..Len(emitted) :
        /\ emitted'[k].whole
        /\ emitted'[k].kind = (IF k = 1 THEN "subscribe" ELSE "event")
        /\ emitted'[k].event = k - 1
  BY <1>1, <1>2 DEF StreamInv, PrintsAPrefix
<1>5. /\ f.kind = (IF Len(emitted) + 1 = 1 THEN "subscribe" ELSE "event")
      /\ f.event = Len(emitted) + 1 - 1
  BY <1>1, <1>3 DEF Expected
<1>6. Len(emitted') <= EventLimit + 1
  BY <1>1, StreamAssumption
<1> QED
  BY <1>1, <1>2, <1>4, <1>5, <1>6 DEF PrintsAPrefix

LEMMA AnswersKeeps == StreamInv /\ Answers => StreamInv'
<1> SUFFICES ASSUME StreamInv, Answers PROVE StreamInv'
  OBVIOUS
<1>1. PICK kind \in {"hello", "subscribe", "refused"} :
        /\ wire' = Append(wire, Frame(kind, 0))
        /\ kind \in {asked, "refused"}
  BY DEF Answers, StreamInv
<1>2. /\ asked \in {"hello", "subscribe"} /\ asked' = (IF asked = "subscribe" THEN "events" ELSE "nothing")
      /\ UNCHANGED <<client, sent, emitted, late, closed>>
  BY DEF Answers, StreamInv
<1>3. Frame(kind, 0) \in Frames /\ Frame(kind, 0).kind = kind /\ Frame(kind, 0).event = 0
  BY DEF Frame, Frames
<1>4. wire \in Seq(Frames)
  BY DEF StreamInv
<1>5. /\ wire' \in Seq(Frames) /\ Len(wire') = Len(wire) + 1
      /\ wire'[Len(wire) + 1] = Frame(kind, 0)
  BY <1>1, <1>3, <1>4, AppendIs
<1>6. client = "initial" => GoesOnFrom(wire', 0, sent)
  <2> SUFFICES ASSUME client = "initial" PROVE GoesOnFrom(wire', 0, sent)
    OBVIOUS
  <2>1. asked = "subscribe" /\ Len(wire) = 0 /\ sent = 0
    BY <1>2 DEF StreamInv
  <2>2. kind \in {"subscribe", "refused"}
    BY <1>1, <2>1
  <2>3. Expected(wire'[1], 1)
    BY <1>3, <1>5, <2>1, <2>2 DEF Expected
  <2> QED
    BY <1>5, <2>1, <2>3 DEF GoesOnFrom
<1>7. PrintsAPrefix'
  BY <1>2 DEF StreamInv, PrintsAPrefix
<1>8. client # "stream" /\ client # "hello"
  BY <1>2 DEF StreamInv
<1>9. client = "initial" => asked' = "events" /\ GoesOnFrom(wire, 0, sent)'
  BY <1>2, <1>6 DEF StreamInv, GoesOnFrom
<1>10. client = "subscribe" => asked' = "nothing" /\ Len(wire') = 1
  BY <1>2, <1>5 DEF StreamInv
<1> QED
  BY <1>2, <1>5, <1>7, <1>8, <1>9, <1>10 DEF StreamInv

LEMMA SendsKeeps == StreamInv /\ SendsEvent => StreamInv'
<1> SUFFICES ASSUME StreamInv, SendsEvent PROVE StreamInv'
  OBVIOUS
<1> DEFINE f == Frame("event", sent + 1)
<1>1. /\ asked = "events" /\ sent' = sent + 1 /\ wire' = Append(wire, f)
      /\ UNCHANGED <<client, asked, emitted, late, closed>>
  BY DEF SendsEvent
<1>2. /\ f \in Frames /\ f.kind = "event" /\ f.event = sent + 1
      /\ wire \in Seq(Frames) /\ sent \in Nat /\ Len(emitted) \in Nat
  BY DEF Frame, Frames, StreamInv
<1> HIDE DEF f
<1>3. wire' \in Seq(Frames)
  BY <1>1, <1>2, AppendIs
<1>4. client \notin {"hello", "subscribe"}
  BY <1>1 DEF StreamInv
<1>5. client = "initial" => GoesOnFrom(wire, 0, sent)'
  <2> SUFFICES ASSUME client = "initial" PROVE GoesOnFrom(wire, 0, sent)'
    OBVIOUS
  <2>1. GoesOnFrom(wire, 0, sent)
    BY <1>1 DEF StreamInv
  <2>2. GoesOnFrom(Append(wire, f), 0, sent + 1)
    BY <1>2, <2>1, MoreCome
  <2> QED
    BY <1>1, <2>2 DEF GoesOnFrom
<1>6. client = "stream" => GoesOnFrom(wire, Len(emitted), sent)'
  <2> SUFFICES ASSUME client = "stream" PROVE GoesOnFrom(wire, Len(emitted), sent)'
    OBVIOUS
  <2>1. GoesOnFrom(wire, Len(emitted), sent)
    BY DEF StreamInv
  <2>2. PICK n \in Nat : n = Len(emitted)
    BY <1>2
  <2>3. GoesOnFrom(Append(wire, f), n, sent + 1)
    BY <1>1, <1>2, <2>1, <2>2, MoreCome
  <2> QED
    BY <1>1, <2>2, <2>3 DEF GoesOnFrom
<1>7. PrintsAPrefix'
  BY <1>1 DEF StreamInv, PrintsAPrefix
<1> QED
  BY <1>1, <1>2, <1>3, <1>4, <1>5, <1>6, <1>7 DEF StreamInv

LEMMA ArrivesKeeps == StreamInv /\ Arrives => StreamInv'
<1> SUFFICES ASSUME StreamInv, Arrives PROVE StreamInv'
  OBVIOUS
<1>1. PICK i \in DOMAIN wire : wire' = [wire EXCEPT ![i].whole = TRUE]
  BY DEF Arrives
<1>2. wire \in Seq(Frames) /\ UNCHANGED <<client, asked, sent, emitted, late, closed>>
  BY DEF Arrives, StreamInv
<1>3. \A k \in DOMAIN wire : wire[k] \in Frames
  BY <1>2
<1>4. [wire[i] EXCEPT !.whole = TRUE] \in Frames
  BY <1>3 DEF Frames
<1>5. /\ wire' \in Seq(Frames) /\ Len(wire') = Len(wire)
      /\ \A k \in 1..Len(wire) : wire'[k] = IF k = i THEN [wire[i] EXCEPT !.whole = TRUE] ELSE wire[k]
  BY <1>1, <1>2, <1>4
<1>6. \A k \in 1..Len(wire) : wire'[k].kind = wire[k].kind /\ wire'[k].event = wire[k].event
  BY <1>2, <1>3, <1>5 DEF Frames
<1>7. \A n : GoesOnFrom(wire, n, sent) => GoesOnFrom(wire', n, sent)
  BY <1>5, <1>6 DEF GoesOnFrom, Expected
<1>8. wire = <<>> => wire' = <<>>
  BY <1>1
<1>9. PrintsAPrefix'
  BY <1>2 DEF StreamInv, PrintsAPrefix
<1>10. client = "initial" /\ asked = "events" => GoesOnFrom(wire, 0, sent)'
  BY <1>2, <1>7 DEF StreamInv, GoesOnFrom
<1>11. client = "stream" => GoesOnFrom(wire, Len(emitted), sent)'
  BY <1>2, <1>7 DEF StreamInv, GoesOnFrom
<1> QED
  BY <1>2, <1>5, <1>8, <1>9, <1>10, <1>11 DEF StreamInv

LEMMA HelloKeeps == StreamInv /\ Hello => StreamInv'
BY DEF StreamInv, Hello, PrintsAPrefix

LEMMA GreetedKeeps == StreamInv /\ Greeted => StreamInv'
<1> SUFFICES ASSUME StreamInv, Greeted PROVE StreamInv'
  OBVIOUS
<1>1. /\ client = "subscribe" /\ wire # <<>> /\ wire' = Tail(wire)
      /\ UNCHANGED <<sent, emitted, late, closed>>
      /\ \/ client' = "initial" /\ asked' = "subscribe"
         \/ client' = "failed" /\ UNCHANGED asked
  BY DEF Greeted, Ready
<1>2. wire \in Seq(Frames) /\ Len(wire) = 1 /\ sent = 0 /\ emitted = <<>>
  BY <1>1 DEF StreamInv
<1>3. wire' \in Seq(Frames) /\ wire' = <<>>
  BY <1>1, <1>2
<1>4. PrintsAPrefix'
  BY <1>1 DEF StreamInv, PrintsAPrefix
<1> QED
  BY <1>1, <1>2, <1>3, <1>4 DEF StreamInv

LEMMA InitialKeeps == StreamInv /\ Initial => StreamInv'
<1> SUFFICES ASSUME StreamInv, Initial PROVE StreamInv'
  OBVIOUS
<1>1. /\ client = "initial" /\ wire # <<>> /\ wire' = Tail(wire) /\ Head(wire).whole
      /\ UNCHANGED <<asked, sent, late, closed>>
      /\ \/ Head(wire).kind = "subscribe" /\ client' = "stream" /\ emitted' = Append(emitted, Head(wire))
         \/ client' = "failed" /\ UNCHANGED emitted
  BY DEF Initial, Ready
<1>2. wire \in Seq(Frames) /\ emitted = <<>> /\ asked = "events" /\ GoesOnFrom(wire, 0, sent) /\ sent \in Nat
  BY <1>1 DEF StreamInv
<1>3. wire' \in Seq(Frames) /\ Head(wire) \in Frames
  BY <1>1, <1>2, TailIs
<1>4. GoesOnFrom(Tail(wire), 0 + 1, sent) /\ Expected(Head(wire), 0 + 1)
  BY <1>1, <1>2, FirstTaken
<1>5. CASE client' = "failed"
  BY <1>1, <1>2, <1>3, <1>5 DEF StreamInv, PrintsAPrefix
<1>6. CASE Head(wire).kind = "subscribe" /\ client' = "stream" /\ emitted' = Append(emitted, Head(wire))
  <2>1. Len(emitted) = 0 /\ Len(emitted) <= EventLimit
    BY <1>2, StreamAssumption
  <2>2. Expected(Head(wire), Len(emitted) + 1) /\ client' # "done"
    BY <1>4, <1>6, <2>1
  <2>3. PrintsAPrefix' /\ emitted' \in Seq(Frames) /\ Len(emitted') = 1
    BY <1>1, <1>3, <1>6, <2>1, <2>2, Prints
  <2>4. GoesOnFrom(wire, Len(emitted), sent)'
    <3>1. GoesOnFrom(wire', 1, sent')
      BY <1>1, <1>4
    <3> QED
      BY <2>3, <3>1 DEF GoesOnFrom
  <2> QED
    BY <1>1, <1>2, <1>3, <1>6, <2>3, <2>4 DEF StreamInv
<1> QED
  BY <1>1, <1>5, <1>6

LEMMA ReceiveKeeps == StreamInv /\ Receive => StreamInv'
<1> SUFFICES ASSUME StreamInv, Receive PROVE StreamInv'
  OBVIOUS
<1>1. /\ client = "stream" /\ wire # <<>> /\ wire' = Tail(wire) /\ Head(wire).whole
      /\ emitted' = Append(emitted, Head(wire)) /\ Len(emitted) - 1 < EventLimit
      /\ UNCHANGED <<client, asked, sent, late, closed>>
  BY DEF Receive, Ready, GoesOn
<1>2. /\ wire \in Seq(Frames) /\ asked = "events" /\ sent \in Nat /\ Len(emitted) \in Nat
      /\ Len(emitted) >= 1 /\ emitted # <<>> /\ GoesOnFrom(wire, Len(emitted), sent)
  BY <1>1 DEF StreamInv
<1>3. wire' \in Seq(Frames) /\ Head(wire) \in Frames
  BY <1>1, <1>2, TailIs
<1>4. PICK n \in Nat : n = Len(emitted)
  BY <1>2
<1>5. GoesOnFrom(Tail(wire), n + 1, sent) /\ Expected(Head(wire), n + 1)
  BY <1>1, <1>2, <1>4, FirstTaken
<1>6. Expected(Head(wire), Len(emitted) + 1)
  BY <1>4, <1>5
<1>7. Len(emitted) <= EventLimit /\ client' # "done"
  BY <1>1, <1>2, StreamAssumption
<1>8. PrintsAPrefix' /\ emitted' \in Seq(Frames) /\ Len(emitted') = Len(emitted) + 1
  BY <1>1, <1>2, <1>3, <1>6, <1>7, Prints
<1>9. GoesOnFrom(wire, Len(emitted), sent)'
  BY <1>1, <1>4, <1>5, <1>8 DEF GoesOnFrom
<1>10. Len(emitted') >= 1
  BY <1>2, <1>8
<1> QED
  BY <1>1, <1>2, <1>3, <1>8, <1>9, <1>10 DEF StreamInv

LEMMA StopKeeps == StreamInv /\ Stop => StreamInv'
<1> SUFFICES ASSUME StreamInv, Stop PROVE StreamInv'
  OBVIOUS
<1>1. /\ client = "stream" /\ client' = "done" /\ ~GoesOn
      /\ UNCHANGED <<asked, wire, sent, emitted, late, closed>>
  BY DEF Stop
<1>2. Len(emitted) \in Nat /\ Len(emitted) <= EventLimit + 1
  BY DEF StreamInv, PrintsAPrefix
<1>3. late \/ Len(emitted) = EventLimit + 1
  BY <1>1, <1>2, StreamAssumption DEF GoesOn
<1>4. PrintsAPrefix'
  BY <1>1, <1>3 DEF StreamInv, PrintsAPrefix
<1> QED
  BY <1>1, <1>4 DEF StreamInv

LEMMA OthersKeep == StreamInv /\ (Closes \/ TimeIsUp \/ Gone) => StreamInv'
<1> SUFFICES ASSUME StreamInv, Closes \/ TimeIsUp \/ Gone PROVE StreamInv'
  OBVIOUS
<1>1. /\ UNCHANGED <<asked, wire, sent, emitted>>
      /\ client' = client \/ client' = "failed"
      /\ client' = "done" => (late => late')
  BY DEF Closes, TimeIsUp, Gone
<1>2. PrintsAPrefix'
  BY <1>1 DEF StreamInv, PrintsAPrefix
<1> QED
  BY <1>1, <1>2 DEF StreamInv, GoesOnFrom

LEMMA StreamStart == StreamInit => StreamInv
BY StreamAssumption DEF StreamInit, StreamInv, PrintsAPrefix

LEMMA StreamStep == StreamInv /\ [StreamNext]_streamVars => StreamInv'
<1> SUFFICES ASSUME StreamInv, [StreamNext]_streamVars PROVE StreamInv'
  OBVIOUS
<1>1. CASE UNCHANGED streamVars
  BY <1>1 DEF StreamInv, streamVars, PrintsAPrefix, GoesOnFrom
<1> QED
  BY <1>1, AnswersKeeps, SendsKeeps, ArrivesKeeps, HelloKeeps, GreetedKeeps, InitialKeeps,
     ReceiveKeeps, StopKeeps, OthersKeep DEF StreamNext

\* So what is printed has no hole.
LEMMA StreamStaysAPrefix == StreamSpec => []PrintsAPrefix
<1>1. StreamInv => PrintsAPrefix
  BY DEF StreamInv
<1> QED
  BY <1>1, StreamStart, StreamStep, PTL DEF StreamSpec

-----------------------------------------------------------------------------
\* Whatever watches are killed half-way and however frames arrive in pieces: what was
\* reported with a file is in it, whole, and what is printed is the answer and then the
\* events from the first on, without a hole (inspect/gep.rs, inspect/daemon.rs).
THEOREM OutputsAlwaysStand == PayloadSpec /\ StreamSpec => []OutputsStand
<1> QED
  BY ReportedStaysKept, StreamStaysAPrefix, PTL DEF OutputsStand

-----------------------------------------------------------------------------
(***************************************************************************)
(* Reading without a lock.  The inductive invariant says of each cell that  *)
(* was looked at again that it holds what it held in the middle, or that    *)
(* its way leads through a cell that has moved and is still looked at.      *)
(***************************************************************************)
Before(r, n) == {Plan(r)[k] : k \in 1..(n - 1)}
Ahead(r, n) == {Plan(r)[k] : k \in n..Len(Plan(r))}

LEMMA ParentIs ==
  /\ Value("profile") \in Roots /\ Value("manager") \in Roots
  /\ Parent(Value("sync")) = Value("profile")
  /\ \A name \in {"misc", "recipes", "pending"} :
       Parent(Data(name)) = Header(name) /\ Parent(Header(name)) = Value("profile")
  /\ Parent(Data("profiles")) = Header("profiles") /\ Parent(Header("profiles")) = Value("manager")
  /\ Parent(Value("primary")) = Data("profiles") /\ Parent(Value("identity")) = Value("primary")
  /\ Parent(Data("id")) = Header("id") /\ Parent(Header("id")) = Value("primary")
  /\ Parent(Data("target")) = Data("pending") /\ Parent(Data("fingerprint")) = Data("pending")
  /\ Parent(Header("platform")) = Value("primary")
<1>1. /\ \A name : Data(name).part = "data" /\ Data(name).name = name /\ Data(name) \notin Roots
      /\ \A name : Header(name).part = "header" /\ Header(name).name = name /\ Header(name) \notin Roots
      /\ \A name : Value(name).part = "value" /\ Value(name).name = name
      /\ \A name, other : Header(name) # Value(other) /\ Header(name) # Data(other)
      /\ \A name, other : Header(name) = Header(other) => name = other
  BY DEF Roots, Value, Header, Data
<1>2. /\ \A name : name \notin {"target", "fingerprint"} => Parent(Data(name)) = Header(name)
      /\ \A name \in {"target", "fingerprint"} : Parent(Data(name)) = Data("pending")
  BY <1>1 DEF Parent, Roots, Value, Header, Data
<1>3. \A name \in {"misc", "recipes", "pending"} : Parent(Header(name)) = Value("profile")
  BY <1>1 DEF Parent
<1>4. Parent(Value("sync")) = Value("profile")
  BY <1>1 DEF Parent, Roots, Value, Header, Data
<1>5. /\ Parent(Header("profiles")) = Value("manager")
      /\ \A name \in {"id", "platform"} : Parent(Header(name)) = Value("primary")
  BY <1>1 DEF Parent, Roots, Value, Header, Data
<1>6. Parent(Value("primary")) = Data("profiles") /\ Parent(Value("identity")) = Value("primary")
  BY <1>1 DEF Parent, Roots, Value, Header, Data
<1>7. Value("profile") \in Roots /\ Value("manager") \in Roots
  BY DEF Roots
<1>8. /\ \A name \in {"misc", "recipes", "pending", "profiles", "id"} : Parent(Data(name)) = Header(name)
      /\ Parent(Data("target")) = Data("pending") /\ Parent(Data("fingerprint")) = Data("pending")
      /\ Parent(Header("id")) = Value("primary") /\ Parent(Header("platform")) = Value("primary")
  BY <1>2, <1>5
<1> QED
  BY <1>7, <1>8, <1>3, <1>4, <1>5, <1>6, SMT

LEMMA RootsStay == \A c \in Roots : Parent(c) = c
BY DEF Parent, Roots, Value, Header, Data

LEMMA WaysEnd == \A c : Parent(Parent(Parent(Parent(Parent(c))))) \in Roots
<1>1. \A c : \/ Parent(c) \in Roots
            \/ Parent(c) \in {Header(c.name), Data("profiles"), Value("primary"), Data("pending")}
  BY DEF Parent, Roots
<1>2. \A name : Parent(Header(name)) \in Roots \cup {Data("profiles"), Value("primary")}
  BY DEF Parent, Roots, Header, Data, Value
<1>3. Parent(Value("primary")) = Data("profiles") /\ Parent(Data("profiles")) = Header("profiles")
      /\ Parent(Header("profiles")) \in Roots
      /\ Parent(Data("pending")) = Header("pending") /\ Parent(Header("pending")) \in Roots
  BY ParentIs
<1> QED
  BY <1>1, <1>2, <1>3, RootsStay

LEMMA WayGoesOn ==
  \A c : /\ c \in Path(c) /\ Parent(c) \in Path(c)
         /\ \A p \in Path(c) : Parent(p) \in Path(c)
         /\ Path(Parent(c)) \subseteq Path(c)
BY WaysEnd, RootsStay DEF Path

\* What a plan is read for: a cell that is new to the reader, and is not of those that are read
\* once, comes when each other one of its kind is still to be looked at again; and a cell
\* comes after the one that points at it, which is looked at again later, unless it is the
\* profile.
InOrderAt(r, n) ==
  LET c == Plan(r)[n] IN
  /\ c \notin Before(r, n) \cup Unchecked => Before(r, n) \subseteq Ahead(r, n + 1) \cup Unchecked
  /\ c \notin Roots => /\ Parent(c) \in Before(r, n)
                       /\ Parent(c) \in Ahead(r, n + 1) \cup Profile

LEMMA AheadShrinks ==
  ASSUME NEW r \in Readers, NEW m \in Nat, NEW n \in Nat, m <= n, Len(Plan(r)) \in Nat
  PROVE  Ahead(r, n) \subseteq Ahead(r, m)
BY DEF Ahead

\* The cells of the first look, all but the last of which are looked at again from m on, or
\* are read once.
LEMMA FirstLook ==
  ASSUME NEW r \in Readers, NEW m \in Nat, Len(Plan(r)) \in Nat,
         \A k \in 1..(m - 2) : Plan(r)[k] \in Ahead(r, m) \cup Unchecked
  PROVE  \A n \in 1..(m - 1) : Before(r, n) \subseteq Ahead(r, n + 1) \cup Unchecked
<1> TAKE n \in 1..(m - 1)
<1>1. Ahead(r, m) \subseteq Ahead(r, n + 1)
  BY AheadShrinks
<1>2. \A k \in 1..(n - 1) : Plan(r)[k] \in Ahead(r, m) \cup Unchecked
  OBVIOUS
<1> QED
  BY <1>1, <1>2 DEF Before

LEMMA InventoryIs ==
  /\ Plan("inventory") = ReadInventory /\ Len(ReadInventory) = 18
  /\ ReadInventory[1] = Value("profile") /\ ReadInventory[2] = Value("sync")
  /\ ReadInventory[3] = Header("misc") /\ ReadInventory[4] = Data("misc")
  /\ ReadInventory[5] = Header("recipes") /\ ReadInventory[6] = Data("recipes")
  /\ ReadInventory[7] = Header("pending") /\ ReadInventory[8] = Data("pending")
  /\ ReadInventory[9] = Data("target") /\ ReadInventory[10] = Data("fingerprint")
  /\ ReadInventory[11] = Data("misc") /\ ReadInventory[12] = Header("misc")
  /\ ReadInventory[13] = Data("recipes") /\ ReadInventory[14] = Header("recipes")
  /\ ReadInventory[15] = Data("pending") /\ ReadInventory[16] = Header("pending")
  /\ ReadInventory[17] = Value("profile") /\ ReadInventory[18] = Value("sync")
BY DEF ReadInventory, Plan

LEMMA InventoryInOrder == \A n \in 1..18 : InOrderAt("inventory", n)
<1>1. \A n \in 9..18 : ReadInventory[n] \in Before("inventory", n) \cup Unchecked
  BY InventoryIs DEF Before, Unchecked
<1>2. \A k \in 1..8 : ReadInventory[k] \in Ahead("inventory", 9) \cup Unchecked
  <2>1. \A j \in 9..18 : ReadInventory[j] \in Ahead("inventory", 9)
    BY InventoryIs DEF Ahead
  <2> QED
    BY <2>1, InventoryIs DEF Unchecked
<1>3. \A n \in 1..8 : Before("inventory", n) \subseteq Ahead("inventory", n + 1) \cup Unchecked
  <2>1. "inventory" \in Readers
    BY DEF Readers
  <2>2. \A k \in 1..(9 - 2) : Plan("inventory")[k] \in Ahead("inventory", 9) \cup Unchecked
    BY <1>2, InventoryIs
  <2>3. Len(Plan("inventory")) \in Nat
    BY InventoryIs
  <2>4. \A n \in 1..(9 - 1) : Before("inventory", n) \subseteq Ahead("inventory", n + 1) \cup Unchecked
    BY <2>1, <2>2, <2>3, FirstLook
  <2> QED
    BY <2>4
<1>4. \A n \in 1..18 : \/ ReadInventory[n] \in Roots
                       \/ Parent(ReadInventory[n]) \in Before("inventory", n)
  BY InventoryIs, ParentIs DEF Before
<1>5. \A n \in 1..18 : \/ ReadInventory[n] \in Roots
                       \/ Parent(ReadInventory[n]) \in Ahead("inventory", n + 1) \cup Profile
  <2>1. /\ Header("misc") \in Ahead("inventory", 12) /\ Header("recipes") \in Ahead("inventory", 14)
        /\ Header("pending") \in Ahead("inventory", 16) /\ Data("pending") \in Ahead("inventory", 15)
    BY InventoryIs DEF Ahead
  <2>2. "inventory" \in Readers
    BY DEF Readers
  <2>3. ASSUME NEW n \in 1..18
        PROVE  /\ n < 12 => Header("misc") \in Ahead("inventory", n + 1)
               /\ n < 14 => Header("recipes") \in Ahead("inventory", n + 1)
               /\ n < 16 => Header("pending") \in Ahead("inventory", n + 1)
               /\ n < 15 => Data("pending") \in Ahead("inventory", n + 1)
    BY <2>1, <2>2, AheadShrinks, InventoryIs
  <2> QED
    BY <2>1, <2>3, InventoryIs, ParentIs DEF Profile
<1> QED
  BY <1>1, <1>3, <1>4, <1>5, InventoryIs DEF InOrderAt

LEMMA AccountIs ==
  /\ Plan("account") = ReadAccount /\ Len(ReadAccount) = 13
  /\ ReadAccount[1] = Value("manager") /\ ReadAccount[2] = Header("profiles")
  /\ ReadAccount[3] = Data("profiles") /\ ReadAccount[4] = Value("primary")
  /\ ReadAccount[5] = Value("identity") /\ ReadAccount[6] = Header("id")
  /\ ReadAccount[7] = Data("id") /\ ReadAccount[8] = Header("id")
  /\ ReadAccount[9] = Value("primary") /\ ReadAccount[10] = Value("identity")
  /\ ReadAccount[11] = Data("profiles") /\ ReadAccount[12] = Header("profiles")
  /\ ReadAccount[13] = Value("manager")
BY DEF ReadAccount, Plan

LEMMA AccountInOrder == \A n \in 1..13 : InOrderAt("account", n)
<1>1. \A n \in 8..13 : ReadAccount[n] \in Before("account", n) \cup Unchecked
  BY AccountIs DEF Before, Unchecked
<1>2. \A k \in 1..6 : ReadAccount[k] \in Ahead("account", 8) \cup Unchecked
  <2>1. \A j \in 8..13 : ReadAccount[j] \in Ahead("account", 8)
    BY AccountIs DEF Ahead
  <2> QED
    BY <2>1, AccountIs DEF Unchecked
<1>3. \A n \in 1..7 : Before("account", n) \subseteq Ahead("account", n + 1) \cup Unchecked
  <2>1. "account" \in Readers
    BY DEF Readers
  <2>2. \A k \in 1..(8 - 2) : Plan("account")[k] \in Ahead("account", 8) \cup Unchecked
    BY <1>2, AccountIs
  <2>3. Len(Plan("account")) \in Nat
    BY AccountIs
  <2>4. \A n \in 1..(8 - 1) : Before("account", n) \subseteq Ahead("account", n + 1) \cup Unchecked
    BY <2>1, <2>2, <2>3, FirstLook
  <2> QED
    BY <2>4
<1>4. \A n \in 1..13 : \/ ReadAccount[n] \in Roots
                       \/ Parent(ReadAccount[n]) \in Before("account", n)
  BY AccountIs, ParentIs DEF Before
<1>5. \A n \in 1..13 : \/ ReadAccount[n] \in Roots
                       \/ Parent(ReadAccount[n]) \in Ahead("account", n + 1) \cup Profile
  <2>1. /\ Value("manager") \in Ahead("account", 13)
        /\ Header("profiles") \in Ahead("account", 12)
        /\ Data("profiles") \in Ahead("account", 11)
        /\ Header("id") \in Ahead("account", 8)
    BY AccountIs DEF Ahead
  <2>2. "account" \in Readers
    BY DEF Readers
  <2>3. ASSUME NEW n \in 1..13
        PROVE  /\ n < 13 => Value("manager") \in Ahead("account", n + 1)
               /\ n < 12 => Header("profiles") \in Ahead("account", n + 1)
               /\ n < 11 => Data("profiles") \in Ahead("account", n + 1)
               /\ n < 8 => Header("id") \in Ahead("account", n + 1)
    BY <2>1, <2>2, AheadShrinks, AccountIs
  <2> QED
    BY <2>1, <2>3, AccountIs, ParentIs DEF Profile
<1> QED
  BY <1>1, <1>3, <1>4, <1>5, AccountIs DEF InOrderAt

LEMMA ShortAccountIs ==
  /\ Plan("shortAccount") = ReadShortAccount /\ Len(ReadShortAccount) = 11
  /\ ReadShortAccount[1] = Value("manager") /\ ReadShortAccount[2] = Header("profiles")
  /\ ReadShortAccount[3] = Data("profiles") /\ ReadShortAccount[4] = Value("primary")
  /\ ReadShortAccount[5] = Value("identity") /\ ReadShortAccount[6] = Header("id")
  /\ ReadShortAccount[7] = Value("primary") /\ ReadShortAccount[8] = Value("identity")
  /\ ReadShortAccount[9] = Data("profiles") /\ ReadShortAccount[10] = Header("profiles")
  /\ ReadShortAccount[11] = Value("manager")
BY DEF ReadShortAccount, Plan

LEMMA ShortAccountInOrder == \A n \in 1..11 : InOrderAt("shortAccount", n)
<1>1. \A n \in 7..11 : ReadShortAccount[n] \in Before("shortAccount", n) \cup Unchecked
  BY ShortAccountIs DEF Before, Unchecked
<1>2. \A k \in 1..5 : ReadShortAccount[k] \in Ahead("shortAccount", 7) \cup Unchecked
  BY ShortAccountIs DEF Ahead, Unchecked
<1>3. \A n \in 1..6 : Before("shortAccount", n) \subseteq Ahead("shortAccount", n + 1) \cup Unchecked
  <2>1. "shortAccount" \in Readers
    BY DEF Readers
  <2>2. \A k \in 1..(7 - 2) : Plan("shortAccount")[k] \in Ahead("shortAccount", 7) \cup Unchecked
    BY <1>2, ShortAccountIs
  <2>3. Len(Plan("shortAccount")) \in Nat
    BY ShortAccountIs
  <2>4. \A n \in 1..(7 - 1) : Before("shortAccount", n) \subseteq Ahead("shortAccount", n + 1) \cup Unchecked
    BY <2>1, <2>2, <2>3, FirstLook
  <2> QED
    BY <2>4
<1>4. \A n \in 1..11 : \/ ReadShortAccount[n] \in Roots
                       \/ Parent(ReadShortAccount[n]) \in Before("shortAccount", n)
  BY ShortAccountIs, ParentIs DEF Before
<1>5. \A n \in 1..11 : \/ ReadShortAccount[n] \in Roots
                       \/ Parent(ReadShortAccount[n]) \in Ahead("shortAccount", n + 1) \cup Profile
  <2>1. /\ Value("manager") \in Ahead("shortAccount", 11)
        /\ Header("profiles") \in Ahead("shortAccount", 10)
        /\ Data("profiles") \in Ahead("shortAccount", 9)
    BY ShortAccountIs DEF Ahead
  <2>2. "shortAccount" \in Readers
    BY DEF Readers
  <2>3. ASSUME NEW n \in 1..11
        PROVE  /\ n < 11 => Value("manager") \in Ahead("shortAccount", n + 1)
               /\ n < 10 => Header("profiles") \in Ahead("shortAccount", n + 1)
               /\ n < 9 => Data("profiles") \in Ahead("shortAccount", n + 1)
    BY <2>1, <2>2, AheadShrinks, ShortAccountIs
  <2> QED
    BY <2>1, <2>3, ShortAccountIs, ParentIs DEF Profile
<1> QED
  BY <1>1, <1>3, <1>4, <1>5, ShortAccountIs DEF InOrderAt

LEMMA PrimaryAccountIs ==
  /\ Plan("primaryAccount") = ReadPrimaryAccount /\ Len(ReadPrimaryAccount) = 14
  /\ ReadPrimaryAccount[1] = Value("manager") /\ ReadPrimaryAccount[2] = Header("profiles")
  /\ ReadPrimaryAccount[3] = Data("profiles") /\ ReadPrimaryAccount[4] = Value("primary")
  /\ ReadPrimaryAccount[5] = Value("identity") /\ ReadPrimaryAccount[6] = Header("platform")
  /\ ReadPrimaryAccount[7] = Header("id") /\ ReadPrimaryAccount[8] = Data("id")
  /\ ReadPrimaryAccount[9] = Header("id") /\ ReadPrimaryAccount[10] = Value("primary")
  /\ ReadPrimaryAccount[11] = Value("identity") /\ ReadPrimaryAccount[12] = Data("profiles")
  /\ ReadPrimaryAccount[13] = Header("profiles") /\ ReadPrimaryAccount[14] = Value("manager")
BY DEF ReadPrimaryAccount, Plan

LEMMA PrimaryAccountInOrder == \A n \in 1..14 : InOrderAt("primaryAccount", n)
<1>1. \A n \in 9..14 : ReadPrimaryAccount[n] \in Before("primaryAccount", n) \cup Unchecked
  BY PrimaryAccountIs DEF Before, Unchecked
<1>2. \A k \in 1..7 : ReadPrimaryAccount[k] \in Ahead("primaryAccount", 9) \cup Unchecked
  <2>1. \A j \in 9..14 : ReadPrimaryAccount[j] \in Ahead("primaryAccount", 9)
    BY PrimaryAccountIs DEF Ahead
  <2> QED
    BY <2>1, PrimaryAccountIs DEF Unchecked
<1>3. \A n \in 1..8 : Before("primaryAccount", n) \subseteq Ahead("primaryAccount", n + 1) \cup Unchecked
  <2>1. "primaryAccount" \in Readers
    BY DEF Readers
  <2>2. \A k \in 1..(9 - 2) : Plan("primaryAccount")[k] \in Ahead("primaryAccount", 9) \cup Unchecked
    BY <1>2, PrimaryAccountIs
  <2>3. Len(Plan("primaryAccount")) \in Nat
    BY PrimaryAccountIs
  <2>4. \A n \in 1..(9 - 1) : Before("primaryAccount", n) \subseteq Ahead("primaryAccount", n + 1) \cup Unchecked
    BY <2>1, <2>2, <2>3, FirstLook
  <2> QED
    BY <2>4
<1>4. \A n \in 1..14 : \/ ReadPrimaryAccount[n] \in Roots
                       \/ Parent(ReadPrimaryAccount[n]) \in Before("primaryAccount", n)
  BY PrimaryAccountIs, ParentIs DEF Before
<1>5. \A n \in 1..14 : \/ ReadPrimaryAccount[n] \in Roots
                       \/ Parent(ReadPrimaryAccount[n]) \in Ahead("primaryAccount", n + 1) \cup Profile
  <2>1. /\ Value("manager") \in Ahead("primaryAccount", 14)
        /\ Header("profiles") \in Ahead("primaryAccount", 13)
        /\ Data("profiles") \in Ahead("primaryAccount", 12)
        /\ Header("id") \in Ahead("primaryAccount", 9)
    BY PrimaryAccountIs DEF Ahead
  <2>2. "primaryAccount" \in Readers
    BY DEF Readers
  <2>3. ASSUME NEW n \in 1..14
        PROVE  /\ n < 14 => Value("manager") \in Ahead("primaryAccount", n + 1)
               /\ n < 13 => Header("profiles") \in Ahead("primaryAccount", n + 1)
               /\ n < 12 => Data("profiles") \in Ahead("primaryAccount", n + 1)
               /\ n < 9 => Header("id") \in Ahead("primaryAccount", n + 1)
    BY <2>1, <2>2, AheadShrinks, PrimaryAccountIs
  <2> QED
    BY <2>1, <2>3, PrimaryAccountIs, ParentIs DEF Profile
<1> QED
  BY <1>1, <1>3, <1>4, <1>5, PrimaryAccountIs DEF InOrderAt

LEMMA ShortPrimaryAccountIs ==
  /\ Plan("shortPrimaryAccount") = ReadShortPrimaryAccount /\ Len(ReadShortPrimaryAccount) = 12
  /\ ReadShortPrimaryAccount[1] = Value("manager") /\ ReadShortPrimaryAccount[2] = Header("profiles")
  /\ ReadShortPrimaryAccount[3] = Data("profiles") /\ ReadShortPrimaryAccount[4] = Value("primary")
  /\ ReadShortPrimaryAccount[5] = Value("identity") /\ ReadShortPrimaryAccount[6] = Header("platform")
  /\ ReadShortPrimaryAccount[7] = Header("id") /\ ReadShortPrimaryAccount[8] = Value("primary")
  /\ ReadShortPrimaryAccount[9] = Value("identity") /\ ReadShortPrimaryAccount[10] = Data("profiles")
  /\ ReadShortPrimaryAccount[11] = Header("profiles") /\ ReadShortPrimaryAccount[12] = Value("manager")
BY DEF ReadShortPrimaryAccount, Plan

LEMMA ShortPrimaryAccountInOrder == \A n \in 1..12 : InOrderAt("shortPrimaryAccount", n)
<1>1. \A n \in 8..12 : ReadShortPrimaryAccount[n] \in Before("shortPrimaryAccount", n) \cup Unchecked
  BY ShortPrimaryAccountIs DEF Before, Unchecked
<1>2. \A k \in 1..6 : ReadShortPrimaryAccount[k] \in Ahead("shortPrimaryAccount", 8) \cup Unchecked
  BY ShortPrimaryAccountIs DEF Ahead, Unchecked
<1>3. \A n \in 1..7 : Before("shortPrimaryAccount", n) \subseteq Ahead("shortPrimaryAccount", n + 1) \cup Unchecked
  <2>1. "shortPrimaryAccount" \in Readers
    BY DEF Readers
  <2>2. \A k \in 1..(8 - 2) : Plan("shortPrimaryAccount")[k] \in Ahead("shortPrimaryAccount", 8) \cup Unchecked
    BY <1>2, ShortPrimaryAccountIs
  <2>3. Len(Plan("shortPrimaryAccount")) \in Nat
    BY ShortPrimaryAccountIs
  <2>4. \A n \in 1..(8 - 1) : Before("shortPrimaryAccount", n) \subseteq Ahead("shortPrimaryAccount", n + 1) \cup Unchecked
    BY <2>1, <2>2, <2>3, FirstLook
  <2> QED
    BY <2>4
<1>4. \A n \in 1..12 : \/ ReadShortPrimaryAccount[n] \in Roots
                       \/ Parent(ReadShortPrimaryAccount[n]) \in Before("shortPrimaryAccount", n)
  BY ShortPrimaryAccountIs, ParentIs DEF Before
<1>5. \A n \in 1..12 : \/ ReadShortPrimaryAccount[n] \in Roots
                       \/ Parent(ReadShortPrimaryAccount[n]) \in Ahead("shortPrimaryAccount", n + 1) \cup Profile
  <2>1. /\ Value("manager") \in Ahead("shortPrimaryAccount", 12)
        /\ Header("profiles") \in Ahead("shortPrimaryAccount", 11)
        /\ Data("profiles") \in Ahead("shortPrimaryAccount", 10)
    BY ShortPrimaryAccountIs DEF Ahead
  <2>2. "shortPrimaryAccount" \in Readers
    BY DEF Readers
  <2>3. ASSUME NEW n \in 1..12
        PROVE  /\ n < 12 => Value("manager") \in Ahead("shortPrimaryAccount", n + 1)
               /\ n < 11 => Header("profiles") \in Ahead("shortPrimaryAccount", n + 1)
               /\ n < 10 => Data("profiles") \in Ahead("shortPrimaryAccount", n + 1)
    BY <2>1, <2>2, AheadShrinks, ShortPrimaryAccountIs
  <2> QED
    BY <2>1, <2>3, ShortPrimaryAccountIs, ParentIs DEF Profile
<1> QED
  BY <1>1, <1>3, <1>4, <1>5, ShortPrimaryAccountIs DEF InOrderAt

LEMMA PlansInOrder ==
  ASSUME NEW r \in Readers
  PROVE  Len(Plan(r)) \in Nat /\ \A n \in 1..Len(Plan(r)) : InOrderAt(r, n)
<1>1. CASE r = "inventory"
  <2>1. Len(Plan("inventory")) = 18
    BY InventoryIs
  <2>2. \A n \in 1..Len(Plan("inventory")) : InOrderAt("inventory", n)
    BY <2>1, InventoryInOrder
  <2>3. Len(Plan("inventory")) \in Nat
    BY InventoryIs
  <2> QED
    BY <1>1, <2>2, <2>3, Zenon
<1>2. CASE r = "account"
  <2>1. Len(Plan("account")) = 13
    BY AccountIs
  <2>2. \A n \in 1..Len(Plan("account")) : InOrderAt("account", n)
    BY <2>1, AccountInOrder
  <2>3. Len(Plan("account")) \in Nat
    BY AccountIs
  <2> QED
    BY <1>2, <2>2, <2>3, Zenon
<1>3. CASE r = "shortAccount"
  <2>1. Len(Plan("shortAccount")) = 11
    BY ShortAccountIs
  <2>2. \A n \in 1..Len(Plan("shortAccount")) : InOrderAt("shortAccount", n)
    BY <2>1, ShortAccountInOrder
  <2>3. Len(Plan("shortAccount")) \in Nat
    BY ShortAccountIs
  <2> QED
    BY <1>3, <2>2, <2>3, Zenon
<1>4. CASE r = "primaryAccount"
  <2>1. Len(Plan("primaryAccount")) = 14
    BY PrimaryAccountIs
  <2>2. \A n \in 1..Len(Plan("primaryAccount")) : InOrderAt("primaryAccount", n)
    BY <2>1, PrimaryAccountInOrder
  <2>3. Len(Plan("primaryAccount")) \in Nat
    BY PrimaryAccountIs
  <2> QED
    BY <1>4, <2>2, <2>3, Zenon
<1>5. CASE r = "shortPrimaryAccount"
  <2>1. Len(Plan("shortPrimaryAccount")) = 12
    BY ShortPrimaryAccountIs
  <2>2. \A n \in 1..Len(Plan("shortPrimaryAccount")) : InOrderAt("shortPrimaryAccount", n)
    BY <2>1, ShortPrimaryAccountInOrder
  <2>3. Len(Plan("shortPrimaryAccount")) \in Nat
    BY ShortPrimaryAccountIs
  <2> QED
    BY <1>5, <2>2, <2>3, Zenon
<1> QED
  BY <1>1, <1>2, <1>3, <1>4, <1>5 DEF Readers

\* What a reader has of a cell that was moved or rewritten since is lost: it never comes back.
Moved(c) == seen[c] # memory[c]

\* What there is to know of a cell when it is not looked at any more: it holds what it held in
\* the middle; if it is read once, it is not what a stale pointer led to.
Right(c) == IF c \in Unchecked THEN seen[c] # Garbage ELSE middle[c] = seen[c]

\* That is so, or its way leads through a cell that has moved since and is looked at later, or
\* through the profile.
Excused(c, n) ==
  \E p \in Path(c) \cap (Ahead(reader, n) \cup Profile) : p \in DOMAIN seen /\ Moved(p)
LookedAtAgain(n) ==
  \A c \in DOMAIN seen \ Ahead(reader, n) : Right(c) \/ Excused(c, n)

ReadsInv ==
  /\ reader \in Readers /\ step \in 0..(Len(Plan(reader)) + 1)
  /\ clock \in Nat /\ clock <= MaxChanges
  /\ memory \in [Cells(reader) -> 0..clock]
  /\ DOMAIN seen \subseteq Cells(reader)
  /\ \A c \in DOMAIN seen : seen[c] \in 0..clock \cup {Garbage}
  /\ \A c \in DOMAIN seen \ Roots : Parent(c) \in DOMAIN seen /\ (Moved(Parent(c)) => Moved(c))
  /\ \A c \in DOMAIN seen : ~Moved(c) => Right(c)
  /\ step # 0 => DOMAIN seen = Before(reader, step) /\ LookedAtAgain(step)
  /\ OneMoment

LEMMA ReadsBegin == ReadsInit => ReadsInv
<1> SUFFICES ASSUME ReadsInit PROVE ReadsInv
  OBVIOUS
<1>1. Len(Plan(reader)) \in Nat
  BY PlansInOrder DEF ReadsInit
<1>2. MaxChanges \in Nat
  BY ReadsAssumption
<1>3. DOMAIN seen = {}
  BY DEF ReadsInit
<1> QED
  BY <1>1, <1>2, <1>3 DEF ReadsInit, ReadsInv, OneMoment

LEMMA ChangesKeep == ReadsInv /\ Changes => ReadsInv'
<1> SUFFICES ASSUME ReadsInv, Changes PROVE ReadsInv'
  OBVIOUS
<1>1. PICK x \in Cells(reader) :
        memory' = [d \in Cells(reader) |-> IF x \in Path(d) THEN clock' ELSE memory[d]]
  BY DEF Changes
<1>2. /\ clock' = clock + 1 /\ clock' <= MaxChanges /\ clock' \in Nat
      /\ UNCHANGED <<reader, step, seen, middle, result, reads>>
  BY ReadsAssumption DEF Changes, ReadsInv
<1>3. MaxChanges \in Nat
  BY ReadsAssumption
<1>3a. clock \in Nat /\ 0..clock \subseteq 0..clock' /\ clock' \notin 0..clock
  BY <1>2 DEF ReadsInv
<1>4. memory' \in [Cells(reader) -> 0..clock']
  BY <1>1, <1>2 DEF ReadsInv
<1>5. ASSUME NEW c \in DOMAIN seen
      PROVE  /\ c \in Cells(reader) /\ seen[c] \in 0..clock' \cup {Garbage}
             /\ Moved(c)' <=> Moved(c) \/ x \in Path(c)
  <2>1. c \in Cells(reader) /\ memory[c] \in 0..clock /\ seen[c] \in 0..clock \cup {Garbage}
    BY <1>5 DEF ReadsInv
  <2>2. seen[c] # clock'
    <3>1. CASE seen[c] \in 0..clock
      BY <1>2, <1>3a, <3>1
    <3>2. CASE seen[c] = Garbage
      BY <1>2, <1>3, <3>2 DEF Garbage
    <3> QED
      BY <2>1, <3>1, <3>2
  <2>3. memory'[c] = IF x \in Path(c) THEN clock' ELSE memory[c]
    BY <1>1, <2>1
  <2>4. Moved(c)' <=> seen[c] # memory'[c]
    BY <1>2 DEF Moved
  <2>5. seen[c] \in 0..clock' \cup {Garbage}
    BY <2>1, <1>3a
  <2> QED
    BY <2>1, <2>2, <2>3, <2>4, <2>5 DEF Moved
<1>6. \A c \in DOMAIN seen \ Roots : Parent(c) \in DOMAIN seen /\ (Moved(Parent(c))' => Moved(c)')
  BY <1>5, WayGoesOn DEF ReadsInv
<1>7. \A c \in DOMAIN seen : (Right(c)' <=> Right(c)) /\ (~Moved(c)' => Right(c)')
  BY <1>2, <1>5 DEF ReadsInv, Right
<1>8. step # 0 => LookedAtAgain(step)'
  BY <1>2, <1>5, <1>7 DEF ReadsInv, LookedAtAgain, Excused, Ahead
<1>9. Before(reader, step)' = Before(reader, step) /\ OneMoment'
  BY <1>2 DEF ReadsInv, Before, OneMoment
<1>10. Cells(reader)' = Cells(reader) /\ Len(Plan(reader))' = Len(Plan(reader))
  BY <1>2
<1> QED
  BY <1>2, <1>4, <1>5, <1>6, <1>7, <1>8, <1>9, <1>10 DEF ReadsInv, Moved

LEMMA StartsReadingKeeps == ReadsInv /\ StartsReading => ReadsInv'
<1> SUFFICES ASSUME ReadsInv, StartsReading PROVE ReadsInv'
  OBVIOUS
<1>1. Len(Plan(reader)) \in Nat
  BY PlansInOrder DEF ReadsInv
<1>2. /\ step' = 1 /\ seen' = <<>> /\ result' = NoResult /\ UNCHANGED <<reader, memory, clock>>
  BY DEF StartsReading
<1>3. DOMAIN seen' = {} /\ Before(reader', step') = {}
  BY <1>2 DEF Before
<1>4. LookedAtAgain(step)' /\ OneMoment'
  BY <1>2, <1>3 DEF LookedAtAgain, OneMoment
<1>5. step' \in 0..(Len(Plan(reader')) + 1)
  BY <1>1, <1>2
<1>6. Cells(reader)' = Cells(reader)
  BY <1>2
<1> QED
  BY <1>2, <1>3, <1>4, <1>5, <1>6 DEF ReadsInv

LEMMA ReturnsKeeps == ReadsInv /\ Returns => ReadsInv'
<1> SUFFICES ASSUME ReadsInv, Returns PROVE ReadsInv'
  OBVIOUS
<1>1. Len(Plan(reader)) \in Nat
  BY PlansInOrder DEF ReadsInv
<1>2. /\ step = Len(Plan(reader)) + 1 /\ step' = 0
      /\ result' = [cells |-> seen, middle |-> middle,
                    replaced |-> \E c \in Profile \cap Cells(reader) : memory[c] # seen[c]]
      /\ UNCHANGED <<reader, memory, clock, seen, middle>>
  BY DEF Returns
<1>3. Ahead(reader, step) = {}
  BY <1>1, <1>2 DEF Ahead
<1>4. LookedAtAgain(step)
  BY <1>1, <1>2 DEF ReadsInv
<1>5. ASSUME ~result'.replaced, NEW c \in DOMAIN seen PROVE Right(c)
  <2>1. ~Excused(c, step)
    BY <1>2, <1>3, <1>5 DEF Excused, Moved, ReadsInv
  <2> QED
    BY <1>3, <1>4, <2>1 DEF LookedAtAgain
<1>6. OneMoment'
  BY <1>2, <1>5 DEF OneMoment, Right
<1>7. Cells(reader)' = Cells(reader) /\ step' \in 0..(Len(Plan(reader')) + 1)
  BY <1>1, <1>2
<1> QED
  BY <1>2, <1>6, <1>7 DEF ReadsInv, Moved, Right

LEMMA ReadFailsKeeps == ReadsInv /\ ReadFails => ReadsInv'
<1> SUFFICES ASSUME ReadsInv, ReadFails PROVE ReadsInv'
  OBVIOUS
<1>1. step' = 0 /\ UNCHANGED <<reader, memory, clock, seen, middle, result>>
  BY DEF ReadFails
<1>2. Len(Plan(reader')) \in Nat /\ OneMoment'
  BY <1>1, PlansInOrder DEF ReadsInv, OneMoment
<1> QED
  BY <1>1, <1>2 DEF ReadsInv, Moved, Right

LEMMA AheadIs ==
  ASSUME NEW r \in Readers, NEW n \in 1..Len(Plan(r)), Len(Plan(r)) \in Nat
  PROVE  /\ Ahead(r, n) = Ahead(r, n + 1) \cup {Plan(r)[n]}
         /\ Before(r, n + 1) = Before(r, n) \cup {Plan(r)[n]}
         /\ Plan(r)[n] \in Cells(r)
BY DEF Ahead, Before, Cells

\* A cell that is new: of those seen before all are looked at again.
LEMMA FirstLookKeeps ==
  ASSUME ReadsInv, Reads, NEW c, c = Plan(reader)[step], c \notin DOMAIN seen
  PROVE  ReadsInv'
<1>1. Len(Plan(reader)) \in Nat /\ step \in 1..Len(Plan(reader)) /\ InOrderAt(reader, step)
  BY PlansInOrder DEF ReadsInv, Reads
<1>2. /\ seen' = [d \in DOMAIN seen \cup {c} |-> IF d = c THEN Found(c) ELSE seen[d]]
      /\ middle' = (IF c \in Unchecked THEN middle ELSE memory) /\ step' = step + 1
      /\ UNCHANGED <<reader, memory, clock, result, reads>>
  BY DEF Reads
<1>3. DOMAIN seen = Before(reader, step) /\ c \notin DOMAIN seen
  BY <1>1 DEF ReadsInv
<1>4. /\ Ahead(reader, step) = Ahead(reader, step + 1) \cup {c}
      /\ Before(reader, step + 1) = Before(reader, step) \cup {c}
      /\ c \in Cells(reader)
  BY <1>1, AheadIs DEF ReadsInv
<1>5. /\ c \notin Unchecked => Before(reader, step) \subseteq Ahead(reader, step + 1) \cup Unchecked
      /\ c \notin Roots => /\ Parent(c) \in DOMAIN seen
                           /\ Parent(c) \in Ahead(reader, step + 1) \cup Profile
  BY <1>1, <1>3 DEF InOrderAt
<1>6. \/ Found(c) = memory[c]
      \/ c \notin Roots /\ Moved(Parent(c)) /\ Found(c) = Garbage
  BY <1>3 DEF Found, Moved
<1>7. memory[c] \in 0..clock /\ memory[c] # Garbage
  BY <1>4, ReadsAssumption DEF ReadsInv, Garbage
<1>8. /\ DOMAIN seen' = DOMAIN seen \cup {c} /\ seen'[c] = Found(c)
      /\ \A d \in DOMAIN seen : seen'[d] = seen[d] /\ (Moved(d)' <=> Moved(d))
  BY <1>2, <1>3 DEF Moved
<1>9. Moved(c)' <=> Found(c) # memory[c]
  BY <1>2, <1>8 DEF Moved
<1>10. \A d \in DOMAIN seen' : seen'[d] \in 0..clock' \cup {Garbage}
  BY <1>2, <1>6, <1>7, <1>8 DEF ReadsInv
<1>11. \A d \in DOMAIN seen' \ Roots :
         Parent(d) \in DOMAIN seen' /\ (Moved(Parent(d))' => Moved(d)')
  <2>1. ASSUME c \notin Roots PROVE Moved(Parent(c))' => Moved(c)'
    BY <1>5, <1>6, <1>7, <1>8, <1>9, <2>1 DEF Found, Moved
  <2> QED
    BY <1>5, <1>8, <2>1 DEF ReadsInv
<1>12. \A d \in DOMAIN seen' : ~Moved(d)' => Right(d)'
  <2>1. ~Moved(c)' => Right(c)'
    BY <1>2, <1>7, <1>8, <1>9 DEF Right
  <2>2. ASSUME NEW d \in DOMAIN seen, ~Moved(d)' PROVE Right(d)'
    BY <1>2, <1>8, <2>2 DEF ReadsInv, Right, Moved
  <2> QED
    BY <1>8, <2>1, <2>2
<1>13. LookedAtAgain(step)'
  <2>1. ASSUME c \notin Ahead(reader, step + 1), Found(c) # memory[c]
        PROVE  Excused(c, step)'
    <3>1. c \notin Roots /\ Moved(Parent(c)) /\ Parent(c) \in DOMAIN seen
      BY <1>5, <1>6, <2>1
    <3>2. Moved(Parent(c))' /\ Parent(c) \in DOMAIN seen'
      BY <1>8, <3>1
    <3> QED
      BY <1>2, <1>5, <3>1, <3>2, WayGoesOn DEF Excused
  <2>2. ASSUME NEW d \in DOMAIN seen, d \notin Ahead(reader, step + 1)
        PROVE  Right(d)' \/ Excused(d, step)'
    <3>1. d # c /\ d \notin Ahead(reader, step)
      BY <1>3, <1>4, <2>2
    <3>2. Right(d) \/ Excused(d, step)
      BY <1>1, <3>1 DEF ReadsInv, LookedAtAgain
    <3>3. Excused(d, step) => Excused(d, step)'
      BY <1>2, <1>3, <1>4, <1>8 DEF Excused
    <3>4. c \notin Unchecked => d \in Unchecked
      BY <1>3, <1>5, <2>2
    <3>5. Right(d) => Right(d)'
      BY <1>2, <1>8, <3>4 DEF Right
    <3> QED
      BY <3>2, <3>3, <3>5
  <2>3. Found(c) = memory[c] => Right(c)'
    BY <1>2, <1>7, <1>8 DEF Right
  <2> QED
    BY <1>2, <1>8, <2>1, <2>2, <2>3 DEF LookedAtAgain
<1>14. DOMAIN seen' = Before(reader', step') /\ DOMAIN seen' \subseteq Cells(reader')
  BY <1>2, <1>3, <1>4, <1>8 DEF ReadsInv
<1>15. OneMoment' /\ Cells(reader)' = Cells(reader) /\ step' \in 0..(Len(Plan(reader')) + 1)
  BY <1>1, <1>2 DEF ReadsInv, OneMoment
<1> QED
  BY <1>2, <1>10, <1>11, <1>12, <1>13, <1>14, <1>15 DEF ReadsInv

\* A cell that is looked at again.
LEMMA SecondLookKeeps ==
  ASSUME ReadsInv, Reads, NEW c, c = Plan(reader)[step], c \in DOMAIN seen
  PROVE  ReadsInv'
<1>1. Len(Plan(reader)) \in Nat /\ step \in 1..Len(Plan(reader)) /\ InOrderAt(reader, step)
  BY PlansInOrder DEF ReadsInv, Reads
<1>2. /\ step' = (IF seen[c] = Found(c) THEN step + 1 ELSE 0)
      /\ UNCHANGED <<reader, memory, clock, seen, middle, result, reads>>
  BY DEF Reads
<1>3. DOMAIN seen = Before(reader, step) /\ c \in DOMAIN seen /\ LookedAtAgain(step)
  BY <1>1 DEF ReadsInv
<1>4. /\ Ahead(reader, step) = Ahead(reader, step + 1) \cup {c}
      /\ Before(reader, step + 1) = Before(reader, step) \cup {c}
  BY <1>1, AheadIs DEF ReadsInv
<1>5. c \notin Roots => Parent(c) \in DOMAIN seen /\ Parent(c) \in Ahead(reader, step + 1) \cup Profile
  BY <1>1, <1>3 DEF InOrderAt
<1>6. seen[c] = Found(c) /\ Moved(c) => c \notin Roots /\ Moved(Parent(c))
  BY DEF Found, Moved
<1>7. ASSUME seen[c] = Found(c) PROVE LookedAtAgain(step + 1)
  <2>1. ASSUME NEW d, c \in Path(d), Moved(c) PROVE Excused(d, step + 1)
    <3>1. Parent(c) \in Path(d) /\ Moved(Parent(c))
      BY <1>6, <1>7, <2>1, WayGoesOn
    <3> QED
      BY <1>5, <1>6, <1>7, <2>1, <3>1 DEF Excused
  <2>2. ASSUME NEW d, Excused(d, step) PROVE Excused(d, step + 1)
    BY <1>4, <2>1, <2>2 DEF Excused
  <2>3. Right(c) \/ Excused(c, step + 1)
    BY <1>3, <2>1, WayGoesOn DEF ReadsInv
  <2> QED
    BY <1>3, <1>4, <2>2, <2>3 DEF LookedAtAgain
<1>8. step' # 0 => DOMAIN seen' = Before(reader', step') /\ LookedAtAgain(step)'
  <2>1. CASE seen[c] = Found(c)
    <3>1. step' = step + 1
      BY <1>2, <2>1
    <3>2. LookedAtAgain(step)'
      BY <1>2, <1>7, <2>1, <3>1 DEF LookedAtAgain, Excused, Moved, Right
    <3> QED
      BY <1>2, <1>3, <1>4, <3>1, <3>2
  <2> QED
    BY <1>2, <2>1
<1>9. OneMoment' /\ Cells(reader)' = Cells(reader) /\ step' \in 0..(Len(Plan(reader')) + 1)
  BY <1>1, <1>2 DEF ReadsInv, OneMoment
<1> QED
  BY <1>2, <1>8, <1>9 DEF ReadsInv, Moved, Right

LEMMA ReadsStepKeeps == ReadsInv /\ [ReadsNext]_readerVars => ReadsInv'
<1> SUFFICES ASSUME ReadsInv, [ReadsNext]_readerVars PROVE ReadsInv'
  OBVIOUS
<1>1. CASE Reads
  BY <1>1, FirstLookKeeps, SecondLookKeeps
<1>2. CASE UNCHANGED readerVars
  BY <1>2 DEF ReadsInv, readerVars, OneMoment, LookedAtAgain, Excused, Moved, Right, Ahead, Before,
     Cells
<1> QED
  BY <1>1, <1>2, ChangesKeep, StartsReadingKeeps, ReturnsKeeps, ReadFailsKeeps DEF ReadsNext

\* What a reader returns was all in memory at one moment, whatever of the game changes
\* while it reads and however often, unless the profile was replaced meanwhile
\* (game_observer/inventory.rs, game_observer/account.rs).
THEOREM ReadsAlwaysOfOneMoment == ReadsSpec => []OneMoment
<1>1. ReadsInv => OneMoment
  BY DEF ReadsInv
<1> QED
  BY <1>1, ReadsBegin, ReadsStepKeeps, PTL DEF ReadsSpec

=============================================================================
