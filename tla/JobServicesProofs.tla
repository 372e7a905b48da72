------------------------- MODULE JobServicesProofs -------------------------
(***************************************************************************)
(* Proofs about the job services, for any number of jobs, clients and      *)
(* workers: the queue and the places of each are in order, each query and  *)
(* each plan is finished once, and what the exports store answers is true. *)
(* A service has an inductive invariant of its own, since they share no    *)
(* state; that of the exports store is in CatalogStoreProofs.              *)
(***************************************************************************)
EXTENDS MCJobServices, SequencesExt, SequenceTheorems, FiniteSetTheorems, TLAPS

CatalogProofs == INSTANCE CatalogStoreProofs WITH
  queue <- groups, workers <- groupWorkers, mail <- reports, monitored <- searchers,
  gone <- searchersGone, submitted <- searches, replies <- found, lease <- searchLease

\* What the exports store assumes of the constants.
LEMMA CatalogAssumptions ==
  /\ CatalogProofs!QueryAssumption /\ CatalogProofs!CatalogAssumption
  /\ CatalogProofs!PlanAssumption /\ CatalogProofs!SourceAssumption
<1>1. CatalogProofs!SourceJob = SourceJob
  BY DEF CatalogProofs!SourceJob, SourceJob
<1>2. \A S : IsFiniteSet(S) <=> CatalogProofs!IsFiniteSet(S)
  BY DEF IsFiniteSet, CatalogProofs!IsFiniteSet
<1> QED
  BY <1>1, <1>2, QueryAssumption, CatalogAssumption, PlanAssumption, SourceAssumption
     DEF CatalogProofs!QueryAssumption, CatalogProofs!CatalogAssumption,
         CatalogProofs!PlanAssumption, CatalogProofs!SourceAssumption

\* The library of CatalogStoreProofs is this one.
LEMMA CatalogLibrary ==
  /\ \A f : CatalogProofs!Range(f) = Range(f)
     /\ (CatalogProofs!IsInjective(f) <=> IsInjective(f))
  /\ \A q, e : CatalogProofs!RemoveFirst(q, e) = RemoveFirst(q, e)
  /\ \A T : /\ CatalogProofs!Cardinality(T) = Cardinality(T)
            /\ CatalogProofs!IsFiniteSet(T) <=> IsFiniteSet(T)
<1>1. \A f : CatalogProofs!Range(f) = Range(f)
             /\ (CatalogProofs!IsInjective(f) <=> IsInjective(f))
  BY DEF CatalogProofs!Range, Range, CatalogProofs!IsInjective, IsInjective
<1>2. \A T : CatalogProofs!Min(T) = Min(T)
  BY DEF CatalogProofs!Min, Min
<1>3. \A q, e : CatalogProofs!RemoveFirst(q, e) = RemoveFirst(q, e)
  BY <1>2 DEF CatalogProofs!RemoveFirst, RemoveFirst, CatalogProofs!RemoveAt, RemoveAt,
              CatalogProofs!SelectInSeq, SelectInSeq
<1>4. \A T : /\ CatalogProofs!Cardinality(T) = Cardinality(T)
             /\ CatalogProofs!IsFiniteSet(T) <=> IsFiniteSet(T)
  BY DEF CatalogProofs!Cardinality, Cardinality, CatalogProofs!IsFiniteSet, IsFiniteSet
<1> QED
  BY <1>1, <1>3, <1>4

-----------------------------------------------------------------------------
(***************************************************************************)
(* Queues without duplicates, as in CatalogStoreProofs.                    *)
(***************************************************************************)
\* The first n elements.
First(q, n) == {q[i] : i \in 1..n}

\* An element that leaves a queue leaves it once and for all.
LEMMA RemoveFirstProperties ==
  ASSUME NEW S, NEW q \in Seq(S), IsInjective(q), NEW e
  PROVE  /\ RemoveFirst(q, e) \in Seq(S)
         /\ IsInjective(RemoveFirst(q, e))
         /\ Range(RemoveFirst(q, e)) = Range(q) \ {e}
<1> QED
  BY CatalogProofs!RemoveFirstProperties, CatalogAssumptions, CatalogLibrary

\* An element that is new to a queue is there once.
LEMMA AppendInjectiveProperties ==
  ASSUME NEW S, NEW q \in Seq(S), IsInjective(q), NEW e \in S, e \notin Range(q)
  PROVE  /\ Append(q, e) \in Seq(S)
         /\ IsInjective(Append(q, e))
         /\ Range(Append(q, e)) = Range(q) \cup {e}
<1> QED
  BY CatalogProofs!AppendInjectiveProperties, CatalogAssumptions, CatalogLibrary

\* What is taken from the front of a queue, and what is left of it.
LEMMA PrefixProperties ==
  ASSUME NEW S, NEW q \in Seq(S), IsInjective(q), NEW n \in 0..Len(q)
  PROVE  /\ SubSeq(q, n + 1, Len(q)) \in Seq(S)
         /\ IsInjective(SubSeq(q, n + 1, Len(q)))
         /\ Len(SubSeq(q, n + 1, Len(q))) = Len(q) - n
         /\ First(q, n) \cap Range(SubSeq(q, n + 1, Len(q))) = {}
         /\ First(q, n) \cup Range(SubSeq(q, n + 1, Len(q))) = Range(q)
         /\ IsFiniteSet(First(q, n)) /\ Cardinality(First(q, n)) = n
<1>1. First(q, n) = CatalogProofs!First(q, n)
  BY DEF First, CatalogProofs!First
<1> QED
  BY <1>1, CatalogProofs!PrefixProperties, CatalogAssumptions, CatalogLibrary

\* What is taken from the head of a queue.
LEMMA HeadTakenOut ==
  ASSUME NEW S, NEW q \in Seq(S), IsInjective(q), q # << >>
  PROVE  /\ Head(q) \in S /\ Tail(q) \in Seq(S) /\ IsInjective(Tail(q))
         /\ Head(q) \notin Range(Tail(q)) /\ Range(q) = {Head(q)} \cup Range(Tail(q))
<1> QED
  BY CatalogProofs!HeadTakenOut, CatalogAssumptions, CatalogLibrary

-----------------------------------------------------------------------------
(***************************************************************************)
(* wfcli_query_service.                                                    *)
(***************************************************************************)
\* The library of Query is this one.
LEMMA QueryLibrary ==
  /\ \A f : Query!Range(f) = Range(f) /\ (Query!IsInjective(f) <=> IsInjective(f))
  /\ \A q, e : Query!RemoveFirst(q, e) = RemoveFirst(q, e)
  /\ \A T : Query!Cardinality(T) = Cardinality(T) /\ (Query!IsFiniteSet(T) <=> IsFiniteSet(T))
<1>1. \A f : Query!Range(f) = Range(f) /\ (Query!IsInjective(f) <=> IsInjective(f))
  BY DEF Query!Range, Range, Query!IsInjective, IsInjective
<1>2. \A T : Query!Min(T) = Min(T)
  BY DEF Query!Min, Min
<1>3. \A q, e : Query!RemoveFirst(q, e) = RemoveFirst(q, e)
  BY <1>2 DEF Query!RemoveFirst, RemoveFirst, Query!RemoveAt, RemoveAt,
              Query!SelectInSeq, SelectInSeq
<1>4. \A T : Query!Cardinality(T) = Cardinality(T) /\ (Query!IsFiniteSet(T) <=> IsFiniteSet(T))
  BY DEF Query!Cardinality, Cardinality, Query!IsFiniteSet, IsFiniteSet
<1> QED
  BY <1>1, <1>3, <1>4

\* What start_queued does with a queue and the places that are taken: some of the jobs that
\* wait begin, none of them twice, and none waits while a place is free.
LEMMA QueryStartQueuedProperties ==
  ASSUME NEW q \in Seq(Job), IsInjective(q), NEW busy \in SUBSET Job, NEW procs,
         Range(q) \cap busy = {}, Cardinality(busy) <= MaxWorkers,
         Query!StartQueued(q, busy, procs)
  PROVE  \E begun \in SUBSET Range(q) :
           /\ queue' \in Seq(Job) /\ IsInjective(queue') /\ Range(queue') = Range(q) \ begun
           /\ workers' = busy \cup begun
           /\ process' = [j \in Job |-> IF j \in begun THEN "running" ELSE procs[j]]
           /\ Cardinality(workers') <= MaxWorkers
           /\ queue' # << >> => Cardinality(workers') = MaxWorkers
<1> DEFINE free == MaxWorkers - Cardinality(busy)
           n == IF free <= 0 THEN 0 ELSE IF free < Len(q) THEN free ELSE Len(q)
<1>1. IsFiniteSet(busy) /\ Cardinality(busy) \in Nat
  BY QueryAssumption, FS_Subset, FS_CardinalityType
<1>2. Len(q) \in Nat
  OBVIOUS
<1>3. /\ n \in 0..Len(q) /\ Cardinality(busy) + n <= MaxWorkers
      /\ Len(q) - n # 0 => Cardinality(busy) + n = MaxWorkers
  <2> HIDE DEF n
  <2>1. MaxWorkers \in Nat
    BY QueryAssumption
  <2> QED
    BY <1>1, <1>2, <2>1 DEF n
<1>4. /\ queue' = SubSeq(q, n + 1, Len(q)) /\ workers' = busy \cup First(q, n)
      /\ process' = [j \in Job |-> IF j \in First(q, n) THEN "running" ELSE procs[j]]
  BY Zenon, QueryLibrary DEF Query!StartQueued, First
<1> HIDE DEF n
<1>5. /\ SubSeq(q, n + 1, Len(q)) \in Seq(Job)
      /\ IsInjective(SubSeq(q, n + 1, Len(q)))
      /\ Len(SubSeq(q, n + 1, Len(q))) = Len(q) - n
      /\ First(q, n) \cap Range(SubSeq(q, n + 1, Len(q))) = {}
      /\ First(q, n) \cup Range(SubSeq(q, n + 1, Len(q))) = Range(q)
      /\ IsFiniteSet(First(q, n)) /\ Cardinality(First(q, n)) = n
  BY <1>3, PrefixProperties, Zenon
<1>6. Cardinality(busy \cup First(q, n)) = Cardinality(busy) + n
  <2>1. busy \cap First(q, n) = {}
    BY <1>5
  <2>2. Cardinality(busy \cup First(q, n))
          = Cardinality(busy) + Cardinality(First(q, n)) - Cardinality(busy \cap First(q, n))
    BY <1>1, <1>5, FS_Union
  <2>3. Cardinality({}) = 0
    BY FS_EmptySet
  <2>4. Cardinality(busy \cap First(q, n)) = 0
    BY <2>1, <2>3
  <2>5. Cardinality(First(q, n)) = n /\ n \in Nat
    BY <1>3, <1>5
  <2> QED
    BY <1>1, <2>2, <2>4, <2>5
<1>7. queue' # << >> => Len(queue') # 0
  BY <1>4, <1>5, EmptySeq
<1>8. Range(queue') = Range(q) \ First(q, n) /\ First(q, n) \in SUBSET Range(q)
  BY <1>4, <1>5
<1>9. /\ Cardinality(workers') <= MaxWorkers
      /\ queue' # << >> => Cardinality(workers') = MaxWorkers
  BY <1>3, <1>4, <1>5, <1>6, <1>7
<1> QED
  BY <1>4, <1>5, <1>8, <1>9

\* The invariant: a job is in the queue or has a worker as long as its client waits, its
\* process runs only then, its result is in the mailbox only if the process has ended, and
\* each job in hand has one lease and no reply.
QueryInOrder ==
  /\ IsInjective(queue)
  /\ Range(queue) \cap workers = {} /\ Range(queue) \cup workers = monitored
  /\ Cardinality(workers) <= MaxWorkers
  /\ queue # << >> => Cardinality(workers) = MaxWorkers
QueryProcesses ==
  /\ \A j \in Job : process[j] = "running" => j \in workers
  /\ \A j \in Job : j \notin submitted \/ j \in Range(queue) => process[j] = "none"
  /\ \A j \in mail : process[j] = "ended"
QueryAccounts ==
  /\ monitored \subseteq submitted
  /\ \A j \in monitored : replies[j] = 0
  /\ \A j \in Job : j \notin submitted => replies[j] = 0
  /\ lease = Cardinality(monitored)
QueryInv == Query!TypeOK /\ QueryInOrder /\ QueryProcesses /\ QueryAccounts

\* The invariant holds at the start.
LEMMA QueryInitInv == Query!Init => QueryInv
<1> SUFFICES ASSUME Query!Init PROVE QueryInv
  OBVIOUS
<1>1. Query!TypeOK
  BY DEF Query!Init, Query!TypeOK
<1>2. Range(queue) = {} /\ IsInjective(queue)
  BY DEF Query!Init, Range, IsInjective
<1>3. Cardinality({}) = 0 /\ MaxWorkers \in Nat
  BY FS_EmptySet, QueryAssumption
<1>4. QueryInOrder
  BY <1>2, <1>3 DEF Query!Init, QueryInOrder
<1>5. QueryProcesses /\ QueryAccounts
  BY <1>2, <1>3 DEF Query!Init, QueryProcesses, QueryAccounts
<1> QED
  BY <1>1, <1>4, <1>5 DEF QueryInv

\* A query starts if a place is free, and waits otherwise.
LEMMA QuerySubmitInv ==
  ASSUME QueryInv, NEW j \in Job, Query!Submit(j)
  PROVE  QueryInv'
<1>1. j \notin submitted /\ j \notin monitored /\ j \notin Range(queue) /\ j \notin workers
  BY DEF QueryInv, QueryInOrder, QueryAccounts, Query!Submit
<1>2. IsFiniteSet(workers) /\ IsFiniteSet(monitored) /\ MaxWorkers \in Nat
  BY QueryAssumption, FS_Subset DEF QueryInv, Query!TypeOK
<1>3. /\ Cardinality(workers) \in Nat /\ Cardinality(monitored) \in Nat
      /\ Cardinality(workers \cup {j}) = Cardinality(workers) + 1
      /\ Cardinality(monitored \cup {j}) = Cardinality(monitored) + 1
  BY <1>1, <1>2, FS_CardinalityType, FS_AddElement
<1>4. QueryAccounts'
  BY <1>1, <1>3 DEF QueryInv, Query!TypeOK, QueryAccounts, Query!Submit
<1>5. CASE Cardinality(workers) < MaxWorkers
  <2>1. /\ workers' = workers \cup {j} /\ process' = [process EXCEPT ![j] = "running"]
        /\ queue' = queue
    BY <1>5, QueryLibrary DEF Query!Submit, Query!EnqueueJob
  <2>2. queue = << >>
    BY <1>2, <1>3, <1>5 DEF QueryInv, QueryInOrder
  <2>3. Query!TypeOK'
    BY <2>1 DEF QueryInv, Query!TypeOK, Query!Submit
  <2>4. QueryInOrder'
    BY <1>1, <1>2, <1>3, <1>5, <2>1, <2>2 DEF QueryInv, QueryInOrder, Query!Submit
  <2>5. QueryProcesses'
    BY <1>1, <2>1 DEF QueryInv, Query!TypeOK, QueryProcesses, Query!Submit
  <2> QED
    BY <1>4, <2>3, <2>4, <2>5 DEF QueryInv
<1>6. CASE ~(Cardinality(workers) < MaxWorkers)
  <2>1. queue' = Append(queue, j) /\ workers' = workers /\ process' = process
    BY <1>6, QueryLibrary DEF Query!Submit, Query!EnqueueJob
  <2>2. queue \in Seq(Job) /\ IsInjective(queue)
    BY DEF QueryInv, Query!TypeOK, QueryInOrder
  <2>3. /\ queue' \in Seq(Job) /\ IsInjective(queue')
        /\ Range(queue') = Range(queue) \cup {j}
    BY <1>1, <2>1, <2>2, AppendInjectiveProperties
  <2>4. Cardinality(workers) = MaxWorkers
    BY <1>2, <1>3, <1>6 DEF QueryInv, QueryInOrder
  <2>5. Query!TypeOK'
    BY <2>1, <2>3 DEF QueryInv, Query!TypeOK, Query!Submit
  <2>6. QueryInOrder'
    BY <1>1, <1>2, <2>1, <2>3, <2>4 DEF QueryInv, QueryInOrder, Query!Submit
  <2>7. QueryProcesses'
    BY <1>1, <2>1, <2>3 DEF QueryInv, Query!TypeOK, QueryProcesses, Query!Submit
  <2> QED
    BY <1>4, <2>5, <2>6, <2>7 DEF QueryInv
<1> QED
  BY <1>5, <1>6

\* The end of a worker, with what has become of its message.
LEMMA QueryCompleteJobInv ==
  ASSUME QueryInv, NEW j \in workers, process[j] # "running", mail' \in SUBSET mail,
         Query!CompleteJob(j)
  PROVE  QueryInv'
<1>1. j \in monitored /\ j \notin Range(queue) /\ j \in Job
  BY DEF QueryInv, Query!TypeOK, QueryInOrder
<1>2. IsFiniteSet(workers) /\ IsFiniteSet(monitored) /\ MaxWorkers \in Nat
  BY QueryAssumption, FS_Subset DEF QueryInv, Query!TypeOK
<1>3. /\ Cardinality(workers) \in Nat /\ Cardinality(monitored) \in Nat
      /\ Cardinality(workers \ {j}) = Cardinality(workers) - 1
      /\ Cardinality(monitored \ {j}) = Cardinality(monitored) - 1
      /\ Cardinality(monitored \ {j}) \in Nat
  BY <1>1, <1>2, FS_CardinalityType, FS_RemoveElement
<1>4. QueryAccounts' /\ replies' \in [Job -> Nat] /\ lease' \in Nat
  BY <1>1, <1>3 DEF QueryInv, Query!TypeOK, QueryAccounts, Query!CompleteJob
<1>5. queue \in Seq(Job) /\ IsInjective(queue) /\ workers \ {j} \in SUBSET Job
      /\ Range(queue) \cap (workers \ {j}) = {} /\ Cardinality(workers \ {j}) <= MaxWorkers
  BY <1>2, <1>3 DEF QueryInv, Query!TypeOK, QueryInOrder
<1>6. Query!StartQueued(queue, workers \ {j}, process)
  BY DEF Query!CompleteJob
<1>7. PICK begun \in SUBSET Range(queue) :
        /\ queue' \in Seq(Job) /\ IsInjective(queue') /\ Range(queue') = Range(queue) \ begun
        /\ workers' = (workers \ {j}) \cup begun
        /\ process' = [k \in Job |-> IF k \in begun THEN "running" ELSE process[k]]
        /\ Cardinality(workers') <= MaxWorkers
        /\ queue' # << >> => Cardinality(workers') = MaxWorkers
  BY <1>5, <1>6, QueryStartQueuedProperties
<1>8. begun \subseteq Job /\ monitored' = monitored \ {j}
  BY DEF QueryInv, Query!TypeOK, QueryInOrder, Query!CompleteJob
<1>9. Query!TypeOK'
  BY <1>1, <1>4, <1>7, <1>8 DEF QueryInv, Query!TypeOK, Query!CompleteJob
<1>10. QueryInOrder'
  BY <1>1, <1>7, <1>8 DEF QueryInv, QueryInOrder
<1>11. QueryProcesses'
  BY <1>1, <1>7, <1>8
     DEF QueryInv, Query!TypeOK, QueryInOrder, QueryProcesses, QueryAccounts, Query!CompleteJob
<1> QED
  BY <1>4, <1>9, <1>10, <1>11 DEF QueryInv

\* What is left of the queue and the workers when the client of j is gone.
LEMMA QueryHandleClientDownInv ==
  ASSUME QueryInv, NEW j \in Job, Query!HandleClientDown(j)
  PROVE  QueryInv'
<1> DEFINE procs == [k \in Job |-> IF k = j /\ j \in workers /\ process[k] = "running"
                                   THEN "killed" ELSE process[k]]
           left  == RemoveFirst(queue, j)
<1>1. j \in monitored
  BY DEF Query!HandleClientDown
<1>2. IsFiniteSet(workers) /\ IsFiniteSet(monitored) /\ MaxWorkers \in Nat
  BY QueryAssumption, FS_Subset DEF QueryInv, Query!TypeOK
<1>3. /\ Cardinality(workers) \in Nat /\ Cardinality(monitored) \in Nat
      /\ Cardinality(workers \ {j}) <= Cardinality(workers)
      /\ Cardinality(workers \ {j}) \in Nat
      /\ Cardinality(monitored \ {j}) = Cardinality(monitored) - 1
      /\ Cardinality(monitored \ {j}) \in Nat
  <2>1. IsFiniteSet(workers \ {j}) /\ IsFiniteSet(monitored \ {j})
    BY <1>2, FS_Subset
  <2>2. Cardinality(workers \ {j}) <= Cardinality(workers)
    BY <1>2, FS_Subset
  <2>3. Cardinality(monitored \ {j}) = Cardinality(monitored) - 1
    BY <1>1, <1>2, FS_RemoveElement
  <2> QED
    BY <1>2, <2>1, <2>2, <2>3, FS_CardinalityType
<1>4. QueryAccounts' /\ replies' \in [Job -> Nat] /\ lease' \in Nat
  BY <1>1, <1>3 DEF QueryInv, Query!TypeOK, QueryAccounts, Query!HandleClientDown
<1>5. queue \in Seq(Job) /\ IsInjective(queue)
  BY DEF QueryInv, Query!TypeOK, QueryInOrder
<1>6. left \in Seq(Job) /\ IsInjective(left) /\ Range(left) = Range(queue) \ {j}
  BY <1>5, RemoveFirstProperties
<1>7. Query!StartQueued(left, workers \ {j}, procs)
  BY QueryLibrary DEF Query!HandleClientDown, Query!Without
<1> HIDE DEF left, procs
<1>8. /\ workers \ {j} \in SUBSET Job /\ Cardinality(workers \ {j}) <= MaxWorkers
      /\ Range(left) \cap (workers \ {j}) = {}
  <2>1. Cardinality(workers \ {j}) <= MaxWorkers
    BY <1>2, <1>3 DEF QueryInv, QueryInOrder
  <2> QED
    BY <1>6, <2>1 DEF QueryInv, Query!TypeOK, QueryInOrder
<1>9. PICK begun \in SUBSET Range(left) :
        /\ queue' \in Seq(Job) /\ IsInjective(queue') /\ Range(queue') = Range(left) \ begun
        /\ workers' = (workers \ {j}) \cup begun
        /\ process' = [k \in Job |-> IF k \in begun THEN "running" ELSE procs[k]]
        /\ Cardinality(workers') <= MaxWorkers
        /\ queue' # << >> => Cardinality(workers') = MaxWorkers
  BY <1>6, <1>7, <1>8, QueryStartQueuedProperties
<1>10. begun \subseteq Job /\ monitored' = monitored \ {j} /\ mail' = mail
       /\ submitted' = submitted /\ gone' = gone
  BY <1>6 DEF QueryInv, Query!TypeOK, QueryInOrder, Query!HandleClientDown
<1>11. procs \in [Job -> {"none", "running", "ended", "died", "killed"}]
  BY DEF procs, QueryInv, Query!TypeOK
<1>12. Query!TypeOK'
  BY <1>4, <1>9, <1>10, <1>11 DEF QueryInv, Query!TypeOK
<1>13. QueryInOrder'
  BY <1>6, <1>9, <1>10 DEF QueryInv, QueryInOrder
<1>14. QueryProcesses'
  <2>1. ASSUME NEW k \in Job
        PROVE  /\ process'[k] = "running" => k \in workers'
               /\ k \notin submitted' \/ k \in Range(queue') => process'[k] = "none"
               /\ k \in mail' => process'[k] = "ended"
    BY <1>6, <1>9, <1>10, <1>11
       DEF procs, QueryInv, Query!TypeOK, QueryInOrder, QueryProcesses, QueryAccounts
  <2> QED
    BY <1>12, <2>1 DEF QueryProcesses, Query!TypeOK
<1> QED
  BY <1>4, <1>12, <1>13, <1>14 DEF QueryInv

\* The invariant is inductive.
LEMMA QueryNextInv == QueryInv /\ [Query!Next]_Query!vars => QueryInv'
<1> SUFFICES ASSUME QueryInv, [Query!Next]_Query!vars PROVE QueryInv'
  OBVIOUS
<1>1. CASE UNCHANGED Query!vars
  BY <1>1 DEF Query!vars, QueryInv, Query!TypeOK, QueryInOrder, QueryProcesses, QueryAccounts
<1>2. ASSUME NEW j \in Job, Query!Submit(j) PROVE QueryInv'
  BY <1>2, QuerySubmitInv
<1>3. ASSUME NEW j \in Job, Query!HandleResult(j) PROVE QueryInv'
  <2>1. CASE j \in workers
    <3>1. process[j] # "running" /\ mail' \in SUBSET mail /\ Query!CompleteJob(j)
      BY <1>3, <2>1 DEF Query!HandleResult, QueryInv, QueryProcesses
    <3> QED
      BY <2>1, <3>1, QueryCompleteJobInv
  <2>2. CASE j \notin workers
    BY <1>3, <2>2
       DEF Query!HandleResult, QueryInv, Query!TypeOK, QueryInOrder, QueryProcesses,
           QueryAccounts
  <2> QED
    BY <2>1, <2>2
<1>4. ASSUME NEW j \in Job, Query!HandleWorkerDown(j) PROVE QueryInv'
  <2>1. j \in workers /\ process[j] # "running" /\ mail' \in SUBSET mail /\ Query!CompleteJob(j)
    BY <1>4 DEF Query!HandleWorkerDown
  <2> QED
    BY <2>1, QueryCompleteJobInv
<1>5. ASSUME NEW j \in Job, Query!HandleClientDown(j) PROVE QueryInv'
  BY <1>5, QueryHandleClientDownInv
<1>6. ASSUME NEW j \in Job, Query!WorkerEnds(j) PROVE QueryInv'
  BY <1>6
     DEF Query!WorkerEnds, QueryInv, Query!TypeOK, QueryInOrder, QueryProcesses, QueryAccounts
<1>7. ASSUME NEW j \in Job, Query!WorkerDies(j) PROVE QueryInv'
  BY <1>7
     DEF Query!WorkerDies, QueryInv, Query!TypeOK, QueryInOrder, QueryProcesses, QueryAccounts
<1>8. ASSUME NEW j \in Job, Query!ClientDies(j) PROVE QueryInv'
  BY <1>8
     DEF Query!ClientDies, QueryInv, Query!TypeOK, QueryInOrder, QueryProcesses, QueryAccounts
<1> QED
  BY <1>1, <1>2, <1>3, <1>4, <1>5, <1>6, <1>7, <1>8 DEF Query!Next

\* The invariant says what the run checks.
LEMMA QueryInvShows ==
  QueryInv => Query!TypeOK /\ Query!Placement /\ Query!WorkConserving /\ Query!WorkerLimit
<1> SUFFICES ASSUME QueryInv
             PROVE  Query!TypeOK /\ Query!Placement /\ Query!WorkConserving /\ Query!WorkerLimit
  OBVIOUS
<1> DEFINE running == {j \in Job : process[j] = "running"}
<1>1. running \subseteq workers /\ IsFiniteSet(workers) /\ MaxWorkers \in Nat
  BY QueryAssumption, FS_Subset DEF QueryInv, Query!TypeOK, QueryProcesses
<1>2. Cardinality(running) <= Cardinality(workers) /\ Cardinality(running) \in Nat
  BY <1>1, FS_Subset, FS_CardinalityType
<1>3. Cardinality(workers) \in Nat /\ Cardinality(workers) <= MaxWorkers
  BY <1>1, FS_CardinalityType DEF QueryInv, QueryInOrder
<1>4. Cardinality(running) <= MaxWorkers
  BY <1>1, <1>2, <1>3
<1>5. running \subseteq monitored
  BY <1>1 DEF QueryInv, QueryInOrder
<1> QED
  BY <1>4, <1>5, QueryLibrary
     DEF QueryInv, QueryInOrder, Query!Placement, Query!WorkConserving, Query!WorkerLimit

\* So the invariant holds in every reachable state.
LEMMA QuerySpecInv == Query!Spec => []QueryInv
<1> QED
  BY QueryInitInv, QueryNextInv, PTL DEF Query!Spec

\* Each step is one of JobQueue's, or none: an accepted job is answered or dropped once.
LEMMA QueryRefines == Query!Spec => Query!Promise!JobSpec
<1> USE DEF Query!Fate
<1>1. Query!Init => Query!Promise!JobInit
  BY DEF Query!Init, Query!Promise!JobInit
<1>2. QueryInv /\ [Query!Next]_Query!vars => [Query!Promise!JobNext]_Query!Promise!jobVars
  <2> SUFFICES ASSUME QueryInv, [Query!Next]_Query!vars
               PROVE  [Query!Promise!JobNext]_Query!Promise!jobVars
    OBVIOUS
  <2> DEFINE fates == [j \in Job |-> Query!Fate(j)]
  <2>1. ASSUME NEW j \in Job, Query!Submit(j) PROVE Query!Promise!Accept(j)
    <3>1. Query!Fate(j) = "new" /\ monitored' = monitored \cup {j} /\ lease' = lease + 1
          /\ replies' = replies /\ submitted' = submitted \cup {j}
      BY <2>1 DEF Query!Submit, QueryInv, QueryAccounts
    <3> QED
      BY <2>1, <3>1 DEF Query!Promise!Accept
  <2>2. ASSUME NEW j \in workers, Query!CompleteJob(j) PROVE Query!Promise!Answer({j})
    <3>0. j \in Job /\ j \in monitored /\ replies[j] = 0
      BY DEF QueryInv, Query!TypeOK, QueryInOrder, QueryAccounts
    <3>1. /\ monitored' = monitored \ {j} /\ lease' = lease - 1
          /\ replies' = [replies EXCEPT ![j] = 1] /\ submitted' = submitted
      BY <2>2, <3>0 DEF Query!CompleteJob
    <3>2. Query!Promise!Cardinality({j}) = 1
      BY FS_Singleton DEF Query!Promise!Cardinality, Cardinality
    <3> QED
      BY <3>0, <3>1, <3>2 DEF Query!Promise!Answer, QueryInv, Query!TypeOK
  <2>3. ASSUME NEW j \in Job, Query!HandleClientDown(j) PROVE Query!Promise!Drop(j)
    <3>1. /\ j \in monitored /\ monitored' = monitored \ {j} /\ lease' = lease - 1
          /\ replies' = replies /\ replies[j] = 0 /\ submitted' = submitted /\ j \in submitted
      BY <2>3 DEF Query!HandleClientDown, QueryInv, QueryAccounts
    <3>2. \A k \in Job : Query!Fate(k)' = IF k = j THEN "dropped" ELSE Query!Fate(k)
      BY <3>1
    <3> QED
      BY <3>1, <3>2 DEF Query!Promise!Drop
  <2>4. CASE UNCHANGED <<monitored, replies, submitted, lease>>
    BY <2>4 DEF Query!Promise!jobVars
  <2>5. CASE UNCHANGED Query!vars
    BY <2>4, <2>5 DEF Query!vars
  <2>6. CASE Query!Next
    <3>1. ASSUME NEW j \in Job, Query!HandleResult(j)
          PROVE  [Query!Promise!JobNext]_Query!Promise!jobVars
      <4>1. CASE j \in workers
        BY <2>2, <3>1, <4>1
           DEF Query!HandleResult, Query!Promise!JobNext, QueryInv, Query!TypeOK
      <4>2. CASE j \notin workers
        BY <2>4, <3>1, <4>2 DEF Query!HandleResult
      <4> QED
        BY <4>1, <4>2
    <3>2. ASSUME NEW j \in Job, Query!HandleWorkerDown(j)
          PROVE  [Query!Promise!JobNext]_Query!Promise!jobVars
      BY <2>2, <3>2 DEF Query!HandleWorkerDown, Query!Promise!JobNext
    <3>3. ASSUME NEW j \in Job,
                 Query!WorkerEnds(j) \/ Query!WorkerDies(j) \/ Query!ClientDies(j)
          PROVE  [Query!Promise!JobNext]_Query!Promise!jobVars
      BY <2>4, <3>3 DEF Query!WorkerEnds, Query!WorkerDies, Query!ClientDies
    <3> QED
      BY <2>1, <2>3, <2>6, <3>1, <3>2, <3>3 DEF Query!Next, Query!Promise!JobNext
  <2> QED
    BY <2>5, <2>6
<1> QED
  BY <1>1, <1>2, QuerySpecInv, PTL DEF Query!Spec, Query!Promise!JobSpec

-----------------------------------------------------------------------------
(***************************************************************************)
(* wfcli_forma_service.                                                    *)
(***************************************************************************)
\* The library of Forma is this one.
LEMMA FormaLibrary ==
  /\ \A f : Forma!Range(f) = Range(f) /\ (Forma!IsInjective(f) <=> IsInjective(f))
  /\ \A q, e : Forma!RemoveFirst(q, e) = RemoveFirst(q, e)
  /\ \A T : Forma!Cardinality(T) = Cardinality(T) /\ (Forma!IsFiniteSet(T) <=> IsFiniteSet(T))
<1>1. \A f : Forma!Range(f) = Range(f) /\ (Forma!IsInjective(f) <=> IsInjective(f))
  BY DEF Forma!Range, Range, Forma!IsInjective, IsInjective
<1>2. \A T : Forma!Min(T) = Min(T)
  BY DEF Forma!Min, Min
<1>3. \A q, e : Forma!RemoveFirst(q, e) = RemoveFirst(q, e)
  BY <1>2 DEF Forma!RemoveFirst, RemoveFirst, Forma!RemoveAt, RemoveAt,
              Forma!SelectInSeq, SelectInSeq
<1>4. \A T : Forma!Cardinality(T) = Cardinality(T) /\ (Forma!IsFiniteSet(T) <=> IsFiniteSet(T))
  BY DEF Forma!Cardinality, Cardinality, Forma!IsFiniteSet, IsFiniteSet
<1> QED
  BY <1>1, <1>3, <1>4

\* The invariant: a job is in the queue or current as long as its client waits, its planner
\* runs only while it is current, its result is in the mailbox only if the planner has ended,
\* each job in hand has one lease and no reply, and no wakeup is lost.
FormaProcesses ==
  /\ \A j \in Job : planner[j] = "running" => j = planned
  /\ \A j \in Job : j \notin asked \/ j \in Range(plans) => planner[j] = "none"
  /\ \A j \in results : planner[j] = "ended"
FormaAccounts ==
  /\ planClients \subseteq asked
  /\ \A j \in planClients : planReplies[j] = 0
  /\ \A j \in Job : j \notin asked => planReplies[j] = 0
  /\ planLease = Cardinality(planClients)
FormaInv ==
  Forma!TypeOK /\ Forma!OnePlanner /\ FormaProcesses /\ FormaAccounts /\ Forma!NoLostNudge

\* The invariant holds at the start.
LEMMA FormaInitInv == Forma!Init => FormaInv
<1> SUFFICES ASSUME Forma!Init PROVE FormaInv
  OBVIOUS
<1>1. Forma!TypeOK
  BY DEF Forma!Init, Forma!TypeOK
<1>2. Range(plans) = {} /\ IsInjective(plans)
  BY DEF Forma!Init, Range, IsInjective
<1>3. Cardinality({}) = 0
  BY FS_EmptySet
<1>4. Forma!OnePlanner /\ Forma!NoLostNudge
  BY <1>2, FormaLibrary DEF Forma!Init, Forma!OnePlanner, Forma!NoLostNudge
<1>5. FormaProcesses /\ FormaAccounts
  BY <1>2, <1>3 DEF Forma!Init, FormaProcesses, FormaAccounts
<1> QED
  BY <1>1, <1>4, <1>5 DEF FormaInv

\* What the steps need of the invariant.
LEMMA FormaInvFacts ==
  ASSUME FormaInv
  PROVE  /\ plans \in Seq(Job) /\ IsInjective(plans) /\ Range(plans) \subseteq Job
         /\ NoJob \notin Job
         /\ IsFiniteSet(planClients) /\ Cardinality(planClients) \in Nat
<1>1. IsFiniteSet(planClients)
  BY QueryAssumption, FS_Subset DEF FormaInv, Forma!TypeOK
<1> QED
  BY <1>1, FS_CardinalityType, PlanAssumption, FormaLibrary
     DEF FormaInv, Forma!TypeOK, Forma!OnePlanner

\* A plan waits, with a wakeup on its way.
LEMMA FormaSubmitInv ==
  ASSUME FormaInv, NEW j \in Job, Forma!Submit(j)
  PROVE  FormaInv'
<1>1. j \notin planClients /\ j \notin Range(plans) /\ j # planned
  BY FormaInvFacts, FormaLibrary DEF FormaInv, Forma!OnePlanner, FormaAccounts, Forma!Submit
<1>2. Cardinality(planClients \cup {j}) = Cardinality(planClients) + 1
  BY <1>1, FormaInvFacts, FS_AddElement
<1>3. /\ plans' \in Seq(Job) /\ IsInjective(plans')
      /\ Range(plans') = Range(plans) \cup {j}
  BY <1>1, FormaInvFacts, AppendInjectiveProperties DEF Forma!Submit
<1>4. FormaAccounts'
  BY <1>1, <1>2 DEF FormaInv, Forma!TypeOK, FormaAccounts, Forma!Submit
<1>5. Forma!TypeOK'
  BY <1>3 DEF FormaInv, Forma!TypeOK, Forma!Submit
<1>6. Forma!OnePlanner' /\ Forma!NoLostNudge'
  BY <1>1, <1>3, FormaInvFacts, FormaLibrary
     DEF FormaInv, Forma!TypeOK, Forma!OnePlanner, Forma!NoLostNudge, Forma!Submit
<1>7. FormaProcesses'
  BY <1>1, <1>3 DEF FormaInv, Forma!TypeOK, FormaProcesses, Forma!Submit
<1> QED
  BY <1>4, <1>5, <1>6, <1>7 DEF FormaInv

\* The planner takes the first plan that waits.
LEMMA FormaProcessQueueInv ==
  ASSUME FormaInv, Forma!ProcessQueue
  PROVE  FormaInv'
<1>1. CASE planned = NoJob /\ plans # << >>
  <2>1. /\ planned' = Head(plans) /\ plans' = Tail(plans)
        /\ planner' = [planner EXCEPT ![Head(plans)] = "running"]
    BY <1>1 DEF Forma!ProcessQueue
  <2>2. /\ Head(plans) \in Job /\ plans' \in Seq(Job) /\ IsInjective(plans')
        /\ Head(plans) \notin Range(plans') /\ Range(plans) = {Head(plans)} \cup Range(plans')
    BY <1>1, <2>1, FormaInvFacts, HeadTakenOut
  <2>3. Forma!TypeOK'
    BY <2>1, <2>2 DEF FormaInv, Forma!TypeOK, Forma!ProcessQueue
  <2>4. FormaAccounts'
    BY DEF FormaInv, FormaAccounts, Forma!ProcessQueue
  <2>5. planner[Head(plans)] = "none" /\ Head(plans) \in planClients
    BY <2>2, FormaLibrary DEF FormaInv, FormaProcesses, Forma!OnePlanner
  <2>6. Forma!OnePlanner' /\ Forma!NoLostNudge'
    BY <1>1, <2>1, <2>2, FormaInvFacts, FormaLibrary
       DEF FormaInv, Forma!TypeOK, Forma!OnePlanner, Forma!NoLostNudge, FormaProcesses,
           Forma!ProcessQueue
  <2>7. FormaProcesses'
    BY <1>1, <2>1, <2>2, <2>5, FormaInvFacts
       DEF FormaInv, Forma!TypeOK, FormaProcesses, FormaAccounts, Forma!ProcessQueue
  <2> QED
    BY <2>3, <2>4, <2>6, <2>7 DEF FormaInv
<1>2. CASE ~(planned = NoJob /\ plans # << >>)
  BY <1>2, FormaLibrary
     DEF Forma!ProcessQueue, FormaInv, Forma!TypeOK, Forma!OnePlanner, FormaProcesses,
         FormaAccounts, Forma!NoLostNudge
<1> QED
  BY <1>1, <1>2

\* The end of a planner, with what has become of its message.
LEMMA FormaCompleteJobInv ==
  ASSUME FormaInv, planned # NoJob, planner[planned] # "running", results' \in SUBSET results,
         Forma!CompleteJob(planned)
  PROVE  FormaInv'
<1>1. planned \in planClients /\ planned \in Job
  BY FormaLibrary DEF FormaInv, Forma!TypeOK, Forma!OnePlanner
<1>2. /\ Cardinality(planClients \ {planned}) = Cardinality(planClients) - 1
      /\ Cardinality(planClients \ {planned}) \in Nat
  BY <1>1, FormaInvFacts, FS_RemoveElement, FS_CardinalityType
<1>3. Forma!TypeOK'
  BY <1>1, <1>2 DEF FormaInv, Forma!TypeOK, FormaAccounts, Forma!CompleteJob
<1>4. FormaAccounts'
  BY <1>1, <1>2 DEF FormaInv, Forma!TypeOK, FormaAccounts, Forma!CompleteJob
<1>5. Forma!OnePlanner' /\ Forma!NoLostNudge'
  BY <1>1, FormaInvFacts, FormaLibrary
     DEF FormaInv, Forma!TypeOK, Forma!OnePlanner, Forma!NoLostNudge, Forma!CompleteJob
<1>6. FormaProcesses'
  BY <1>1 DEF FormaInv, FormaProcesses, Forma!CompleteJob
<1> QED
  BY <1>3, <1>4, <1>5, <1>6 DEF FormaInv

\* A plan that waits is dropped with its client, and a planner killed.
LEMMA FormaHandleClientDownInv ==
  ASSUME FormaInv, NEW j \in Job, Forma!HandleClientDown(j)
  PROVE  FormaInv'
<1>1. j \in planClients
  BY DEF Forma!HandleClientDown
<1>2. /\ Cardinality(planClients \ {j}) = Cardinality(planClients) - 1
      /\ Cardinality(planClients \ {j}) \in Nat
  BY <1>1, FormaInvFacts, FS_RemoveElement, FS_CardinalityType
<1>3. /\ plans' \in Seq(Job) /\ IsInjective(plans') /\ Range(plans') = Range(plans) \ {j}
  BY FormaInvFacts, RemoveFirstProperties, FormaLibrary
     DEF Forma!HandleClientDown, Forma!Without
<1>4. Forma!TypeOK'
  <2>1. /\ planned' \in Job \cup {NoJob}
        /\ planner' \in [Job -> {"none", "running", "ended", "died", "killed"}]
    BY DEF FormaInv, Forma!TypeOK, Forma!HandleClientDown
  <2> QED
    BY <1>1, <1>2, <1>3, <2>1 DEF FormaInv, Forma!TypeOK, FormaAccounts, Forma!HandleClientDown
<1>5. FormaAccounts'
  BY <1>1, <1>2 DEF FormaInv, Forma!TypeOK, FormaAccounts, Forma!HandleClientDown
<1>6. Forma!OnePlanner' /\ Forma!NoLostNudge'
  <2>1. Forma!NoLostNudge'
    BY DEF FormaInv, Forma!TypeOK, Forma!NoLostNudge, Forma!HandleClientDown
  <2>2. Forma!OnePlanner'
    BY <1>1, <1>3, FormaInvFacts, FormaLibrary
       DEF FormaInv, Forma!TypeOK, Forma!OnePlanner, Forma!HandleClientDown
  <2> QED
    BY <2>1, <2>2
<1>7. FormaProcesses'
  <2>1. CASE j = planned
    <3>1. planned' = NoJob
          /\ planner' = [planner EXCEPT ![j] = IF @ = "running" THEN "killed" ELSE @]
      BY <2>1 DEF Forma!HandleClientDown
    <3>2. ASSUME NEW k \in Job
          PROVE  /\ planner'[k] # "running"
                 /\ k # j => planner'[k] = planner[k]
                 /\ planner[k] \in {"none", "ended"} => planner'[k] = planner[k]
      BY <2>1, <3>1 DEF FormaInv, Forma!TypeOK, FormaProcesses
    <3> QED
      BY <1>3, <3>2 DEF FormaInv, Forma!TypeOK, FormaProcesses, Forma!HandleClientDown
  <2>2. CASE j # planned
    BY <1>3, <2>2 DEF FormaInv, FormaProcesses, Forma!HandleClientDown
  <2> QED
    BY <2>1, <2>2
<1> QED
  BY <1>4, <1>5, <1>6, <1>7 DEF FormaInv

\* The invariant is inductive.
LEMMA FormaNextInv == FormaInv /\ [Forma!Next]_Forma!vars => FormaInv'
<1> SUFFICES ASSUME FormaInv, [Forma!Next]_Forma!vars PROVE FormaInv'
  OBVIOUS
<1> USE DEF Forma!NoLostNudge
<1>1. CASE UNCHANGED Forma!vars
  BY <1>1, FormaLibrary
     DEF Forma!vars, FormaInv, Forma!TypeOK, Forma!OnePlanner, FormaProcesses, FormaAccounts
<1>2. ASSUME NEW j \in Job, Forma!Submit(j) PROVE FormaInv'
  BY <1>2, FormaSubmitInv
<1>3. ASSUME NEW j \in Job, Forma!HandleResult(j) PROVE FormaInv'
  <2>1. CASE j = planned
    <3>1. planned # NoJob /\ planner[planned] # "running" /\ results' \in SUBSET results
          /\ Forma!CompleteJob(planned)
      BY <1>3, <2>1, FormaInvFacts DEF Forma!HandleResult, FormaInv, FormaProcesses
    <3> QED
      BY <3>1, FormaCompleteJobInv
  <2>2. CASE j # planned
    BY <1>3, <2>2, FormaLibrary
       DEF Forma!HandleResult, FormaInv, Forma!TypeOK, Forma!OnePlanner, FormaProcesses,
           FormaAccounts
  <2> QED
    BY <2>1, <2>2
<1>4. CASE Forma!HandlePlannerDown
  <2>1. planned # NoJob /\ planner[planned] # "running" /\ results' \in SUBSET results
        /\ Forma!CompleteJob(planned)
    BY <1>4 DEF Forma!HandlePlannerDown
  <2> QED
    BY <2>1, FormaCompleteJobInv
<1>5. ASSUME NEW j \in Job, Forma!HandleClientDown(j) PROVE FormaInv'
  BY <1>5, FormaHandleClientDownInv
<1>6. ASSUME NEW j \in Job, Forma!PlannerEnds(j) PROVE FormaInv'
  BY <1>6, FormaLibrary
     DEF Forma!PlannerEnds, FormaInv, Forma!TypeOK, Forma!OnePlanner, FormaProcesses,
         FormaAccounts
<1>7. ASSUME NEW j \in Job, Forma!PlannerDies(j) PROVE FormaInv'
  BY <1>7, FormaLibrary
     DEF Forma!PlannerDies, FormaInv, Forma!TypeOK, Forma!OnePlanner, FormaProcesses,
         FormaAccounts
<1>8. ASSUME NEW j \in Job, Forma!ClientDies(j) PROVE FormaInv'
  BY <1>8, FormaLibrary
     DEF Forma!ClientDies, FormaInv, Forma!TypeOK, Forma!OnePlanner, FormaProcesses,
         FormaAccounts
<1>9. CASE Forma!ProcessQueue
  BY <1>9, FormaProcessQueueInv
<1> QED
  BY <1>1, <1>2, <1>3, <1>4, <1>5, <1>6, <1>7, <1>8, <1>9 DEF Forma!Next

\* So the invariant holds in every reachable state.
LEMMA FormaSpecInv == Forma!Spec => []FormaInv
<1> QED
  BY FormaInitInv, FormaNextInv, PTL DEF Forma!Spec

\* Each step is one of JobQueue's, or none: an accepted plan is answered or dropped once.
LEMMA FormaRefines == Forma!Spec => Forma!Promise!JobSpec
<1> USE DEF Forma!Fate
<1>1. Forma!Init => Forma!Promise!JobInit
  BY DEF Forma!Init, Forma!Promise!JobInit
<1>2. FormaInv /\ [Forma!Next]_Forma!vars => [Forma!Promise!JobNext]_Forma!Promise!jobVars
  <2> SUFFICES ASSUME FormaInv, [Forma!Next]_Forma!vars
               PROVE  [Forma!Promise!JobNext]_Forma!Promise!jobVars
    OBVIOUS
  <2>1. ASSUME NEW j \in Job, Forma!Submit(j) PROVE Forma!Promise!Accept(j)
    <3>1. Forma!Fate(j) = "new" /\ planClients' = planClients \cup {j}
          /\ planLease' = planLease + 1
          /\ planReplies' = planReplies /\ asked' = asked \cup {j}
      BY <2>1 DEF Forma!Submit, FormaInv, FormaAccounts
    <3> QED
      BY <2>1, <3>1 DEF Forma!Promise!Accept
  <2>2. ASSUME planned # NoJob, Forma!CompleteJob(planned)
        PROVE  Forma!Promise!JobNext
    <3>0. planned \in Job /\ planned \in planClients /\ planReplies[planned] = 0
      BY <2>2, FormaLibrary DEF FormaInv, Forma!TypeOK, Forma!OnePlanner, FormaAccounts
    <3>1. /\ planClients' = planClients \ {planned} /\ planLease' = planLease - 1
          /\ planReplies' = [planReplies EXCEPT ![planned] = 1] /\ asked' = asked
      BY <2>2, <3>0 DEF Forma!CompleteJob
    <3>2. Forma!Promise!Cardinality({planned}) = 1
      BY FS_Singleton DEF Forma!Promise!Cardinality, Cardinality
    <3>3. PICK S \in SUBSET Job : S = {planned}
      BY <3>0
    <3>4. Forma!Promise!Answer(S)
      BY <3>0, <3>1, <3>2, <3>3 DEF Forma!Promise!Answer, FormaInv, Forma!TypeOK
    <3>5. \E T \in SUBSET Job : Forma!Promise!Answer(T)
      BY <3>4
    <3> QED
      BY <3>5 DEF Forma!Promise!JobNext
  <2>3. ASSUME NEW j \in Job, Forma!HandleClientDown(j) PROVE Forma!Promise!Drop(j)
    <3>1. /\ j \in planClients /\ planClients' = planClients \ {j} /\ planLease' = planLease - 1
          /\ planReplies' = planReplies /\ planReplies[j] = 0 /\ asked' = asked /\ j \in asked
      BY <2>3 DEF Forma!HandleClientDown, FormaInv, FormaAccounts
    <3>2. \A k \in Job : Forma!Fate(k)' = IF k = j THEN "dropped" ELSE Forma!Fate(k)
      BY <3>1
    <3> QED
      BY <3>1, <3>2 DEF Forma!Promise!Drop
  <2>4. CASE UNCHANGED <<planClients, planReplies, asked, planLease>>
    BY <2>4 DEF Forma!Promise!jobVars
  <2>5. CASE UNCHANGED Forma!vars
    BY <2>4, <2>5 DEF Forma!vars
  <2>6. CASE Forma!Next
    <3>1. ASSUME NEW j \in Job, Forma!HandleResult(j)
          PROVE  [Forma!Promise!JobNext]_Forma!Promise!jobVars
      <4>1. CASE j = planned
        BY <2>2, <3>1, <4>1, FormaInvFacts DEF Forma!HandleResult
      <4>2. CASE j # planned
        BY <2>4, <3>1, <4>2 DEF Forma!HandleResult
      <4> QED
        BY <4>1, <4>2
    <3>2. CASE Forma!HandlePlannerDown
      BY <2>2, <3>2 DEF Forma!HandlePlannerDown
    <3>3. ASSUME NEW j \in Job,
                 Forma!PlannerEnds(j) \/ Forma!PlannerDies(j) \/ Forma!ClientDies(j)
          PROVE  [Forma!Promise!JobNext]_Forma!Promise!jobVars
      BY <2>4, <3>3 DEF Forma!PlannerEnds, Forma!PlannerDies, Forma!ClientDies
    <3>4. CASE Forma!ProcessQueue
      BY <2>4, <3>4 DEF Forma!ProcessQueue
    <3> QED
      BY <2>1, <2>3, <2>6, <3>1, <3>2, <3>3, <3>4 DEF Forma!Next, Forma!Promise!JobNext
  <2> QED
    BY <2>5, <2>6
<1> QED
  BY <1>1, <1>2, FormaSpecInv, PTL DEF Forma!Spec, Forma!Promise!JobSpec

-----------------------------------------------------------------------------
(***************************************************************************)
(* wfcli_source_manager.                                                   *)
(***************************************************************************)
\* The library of Source is this one.
LEMMA SourceLibrary ==
  /\ \A f : Source!Range(f) = Range(f) /\ (Source!IsInjective(f) <=> IsInjective(f))
  /\ \A q, e : Source!RemoveFirst(q, e) = RemoveFirst(q, e)
  /\ \A T : Source!Cardinality(T) = Cardinality(T) /\ (Source!IsFiniteSet(T) <=> IsFiniteSet(T))
  /\ Source!SourceJob = SourceJob
<1>1. \A f : Source!Range(f) = Range(f) /\ (Source!IsInjective(f) <=> IsInjective(f))
  BY DEF Source!Range, Range, Source!IsInjective, IsInjective
<1>2. \A T : Source!Min(T) = Min(T)
  BY DEF Source!Min, Min
<1>3. \A q, e : Source!RemoveFirst(q, e) = RemoveFirst(q, e)
  BY <1>2 DEF Source!RemoveFirst, RemoveFirst, Source!RemoveAt, RemoveAt,
              Source!SelectInSeq, SelectInSeq
<1>4. \A T : Source!Cardinality(T) = Cardinality(T)
      /\ (Source!IsFiniteSet(T) <=> IsFiniteSet(T))
  BY DEF Source!Cardinality, Cardinality, Source!IsFiniteSet, IsFiniteSet
<1>5. Source!SourceJob = SourceJob
  BY DEF Source!SourceJob, SourceJob
<1> QED
  BY <1>1, <1>3, <1>4, <1>5

\* The invariant: a job is in the queue or current, once, and was submitted if it is not
\* periodic; a refresh that waits has a client, a client that is monitored has a refresh that
\* waits or is current, one periodic job is in hand, and no wakeup is lost.
SourceInHand == Range(refreshes) \cup {refreshed}
SourceOneInHand == \A p, q \in SourceInHand \cap Periodic : p = q
SourceInv ==
  /\ Source!TypeOK /\ Source!Placement /\ SourceOneInHand /\ Source!NoLostNudge
  /\ SourceInHand \cap (Ensure \cup Refresh) \subseteq called

\* The invariant holds at the start.
LEMMA SourceInitInv == Source!Init => SourceInv
<1> SUFFICES ASSUME Source!Init PROVE SourceInv
  OBVIOUS
<1>1. Range(refreshes) = {} /\ IsInjective(refreshes)
  BY DEF Source!Init, Range, IsInjective
<1>2. Source!TypeOK
  BY SourceLibrary DEF Source!Init, Source!TypeOK
<1>3. NoJob \notin SourceJob
  BY SourceAssumption
<1>4. Source!Placement /\ SourceOneInHand
      /\ SourceInHand \cap (Ensure \cup Refresh) \subseteq called
  BY <1>1, <1>3, SourceLibrary
     DEF Source!Init, Source!Placement, SourceOneInHand, SourceInHand, SourceJob
<1>5. Source!NoLostNudge
  BY DEF Source!Init, Source!NoLostNudge
<1> QED
  BY <1>2, <1>4, <1>5 DEF SourceInv

\* What the steps need of the invariant.
LEMMA SourceInvFacts ==
  ASSUME SourceInv
  PROVE  /\ refreshes \in Seq(SourceJob) /\ IsInjective(refreshes)
            /\ Range(refreshes) \subseteq SourceJob
         /\ NoJob \notin SourceJob
<1> QED
  BY SourceAssumption, SourceLibrary DEF SourceInv, Source!TypeOK, Source!Placement, Range

\* A job that is not in hand waits.
LEMMA SourceEnqueueInv ==
  ASSUME SourceInv, NEW j \in SourceJob, j \notin SourceInHand, Source!Enqueue(j)
  PROVE  /\ refreshes' \in Seq(SourceJob) /\ IsInjective(refreshes')
         /\ Range(refreshes') = Range(refreshes) \cup {j}
         /\ kicks' \in Nat /\ kicks' > 0
<1> QED
  BY SourceInvFacts, AppendInjectiveProperties, SourceLibrary
     DEF Source!Enqueue, SourceInHand, SourceInv, Source!TypeOK

\* A call waits for its turn.
LEMMA SourceEnsureCatalogInv ==
  ASSUME SourceInv, NEW e \in Ensure, Source!EnsureCatalog(e)
  PROVE  SourceInv'
<1>1. e \in SourceJob /\ e \notin SourceInHand /\ e \notin Refresh /\ e \notin Periodic
  BY SourceAssumption DEF SourceInv, Source!EnsureCatalog, SourceJob
<1>2. /\ refreshes' \in Seq(SourceJob) /\ IsInjective(refreshes')
      /\ Range(refreshes') = Range(refreshes) \cup {e}
      /\ kicks' \in Nat /\ kicks' > 0
  BY <1>1, SourceEnqueueInv DEF Source!EnsureCatalog
<1>3. Source!TypeOK'
  BY <1>2, SourceLibrary DEF SourceInv, Source!TypeOK, Source!EnsureCatalog
<1>4. Source!Placement'
  BY <1>1, <1>2, SourceLibrary
     DEF SourceInv, Source!Placement, SourceInHand, Source!EnsureCatalog
<1>5. SourceOneInHand' /\ SourceInHand' \cap (Ensure \cup Refresh) \subseteq called'
  BY <1>1, <1>2 DEF SourceInv, SourceOneInHand, SourceInHand, Source!EnsureCatalog
<1>6. Source!NoLostNudge'
  BY <1>2 DEF Source!NoLostNudge
<1> QED
  BY <1>3, <1>4, <1>5, <1>6 DEF SourceInv

\* A refresh waits for its turn.
LEMMA SourceSubmitInv ==
  ASSUME SourceInv, NEW r \in Refresh, Source!Submit(r)
  PROVE  SourceInv'
<1>1. r \in SourceJob /\ r \notin SourceInHand /\ r \notin Periodic
  BY SourceAssumption DEF SourceInv, Source!Submit, SourceJob
<1>2. /\ refreshes' \in Seq(SourceJob) /\ IsInjective(refreshes')
      /\ Range(refreshes') = Range(refreshes) \cup {r}
      /\ kicks' \in Nat /\ kicks' > 0
  BY <1>1, SourceEnqueueInv DEF Source!Submit
<1>3. Source!TypeOK'
  BY <1>2, SourceLibrary DEF SourceInv, Source!TypeOK, Source!Submit
<1>4. Source!Placement'
  BY <1>1, <1>2, SourceLibrary DEF SourceInv, Source!Placement, SourceInHand, Source!Submit
<1>5. SourceOneInHand' /\ SourceInHand' \cap (Ensure \cup Refresh) \subseteq called'
  BY <1>1, <1>2 DEF SourceInv, SourceOneInHand, SourceInHand, Source!Submit
<1>6. Source!NoLostNudge'
  BY <1>2 DEF Source!NoLostNudge
<1> QED
  BY <1>3, <1>4, <1>5, <1>6 DEF SourceInv

\* The worker takes the first job that waits.
LEMMA SourceProcessQueueInv ==
  ASSUME SourceInv, Source!ProcessQueue
  PROVE  SourceInv'
<1>1. CASE refreshed = NoJob /\ refreshes # << >>
  <2>1. /\ refreshed' = Head(refreshes) /\ refreshes' = Tail(refreshes) /\ worker' = "running"
    BY <1>1 DEF Source!ProcessQueue
  <2>2. /\ Head(refreshes) \in SourceJob /\ refreshes' \in Seq(SourceJob)
           /\ IsInjective(refreshes')
        /\ Head(refreshes) \notin Range(refreshes')
           /\ Range(refreshes) = {Head(refreshes)} \cup Range(refreshes')
    BY <1>1, <2>1, SourceInvFacts, HeadTakenOut
  <2>3. SourceInHand' = Range(refreshes) /\ SourceInHand = Range(refreshes) \cup {NoJob}
    BY <1>1, <2>1, <2>2 DEF SourceInHand
  <2>4. Source!TypeOK'
    BY <2>1, <2>2, SourceInvFacts, SourceLibrary
       DEF SourceInv, Source!TypeOK, Source!ProcessQueue
  <2>5. refreshClients \subseteq Range(refreshes)
    BY <1>1, SourceInvFacts, SourceLibrary
       DEF SourceInv, Source!TypeOK, Source!Placement, SourceJob
  <2>6. Source!Placement'
    BY <2>1, <2>2, <2>5, SourceLibrary DEF SourceInv, Source!Placement, Source!ProcessQueue
  <2>7. SourceOneInHand' /\ SourceInHand' \cap (Ensure \cup Refresh) \subseteq called'
    BY <2>3 DEF SourceInv, SourceOneInHand, Source!ProcessQueue
  <2>8. Source!NoLostNudge'
    BY <2>1, <2>2, SourceInvFacts DEF Source!NoLostNudge
  <2> QED
    BY <2>4, <2>6, <2>7, <2>8 DEF SourceInv
<1>2. CASE ~(refreshed = NoJob /\ refreshes # << >>)
  BY <1>2, SourceLibrary
     DEF Source!ProcessQueue, SourceInv, Source!TypeOK, Source!Placement, SourceOneInHand,
         SourceInHand, Source!NoLostNudge
<1> QED
  BY <1>1, <1>2

\* The end of a worker makes room, and wakes the server up.
LEMMA SourceHandleResultInv ==
  ASSUME SourceInv, Source!HandleResult
  PROVE  SourceInv'
<1>1. refreshed # NoJob /\ Source!CompleteJob(refreshed)
  BY SourceLibrary DEF Source!HandleResult, SourceInv, Source!TypeOK
<1>2. Source!TypeOK'
  <2>1. {refreshed} \cap (Ensure \cup refreshClients) \subseteq called
    BY SourceLibrary DEF SourceInv, Source!TypeOK, SourceInHand
  <2> QED
    BY <1>1, <2>1, SourceLibrary
       DEF Source!CompleteJob, SourceInv, Source!TypeOK, Source!ActivityEnd
<1>3. Source!Placement' /\ SourceOneInHand'
      /\ SourceInHand' \cap (Ensure \cup Refresh) \subseteq called'
  BY <1>1, SourceInvFacts, SourceLibrary
     DEF Source!CompleteJob, SourceInv, Source!Placement, SourceOneInHand, SourceInHand,
         SourceJob
<1>4. Source!NoLostNudge'
  BY <1>1, SourceLibrary DEF Source!CompleteJob, Source!NoLostNudge, SourceInv, Source!TypeOK
<1> QED
  BY <1>2, <1>3, <1>4 DEF SourceInv

\* A refresh that waits is dropped with its client; one at work goes on.
LEMMA SourceHandleClientDownInv ==
  ASSUME SourceInv, NEW r \in Refresh, Source!HandleClientDown(r)
  PROVE  SourceInv'
<1>1. /\ refreshes' \in Seq(SourceJob) /\ IsInjective(refreshes')
         /\ Range(refreshes') = Range(refreshes) \ {r}
  BY SourceInvFacts, RemoveFirstProperties, SourceLibrary DEF Source!HandleClientDown
<1>2. Source!TypeOK'
  BY <1>1, SourceLibrary
     DEF SourceInv, Source!TypeOK, Source!HandleClientDown, Source!ActivityEnd
<1>3. Source!Placement' /\ SourceOneInHand'
      /\ SourceInHand' \cap (Ensure \cup Refresh) \subseteq called'
  BY <1>1, SourceLibrary
     DEF Source!HandleClientDown, SourceInv, Source!Placement, SourceOneInHand, SourceInHand
<1>4. refreshes = << >> => refreshes' = << >>
  <2>1. refreshes' # << >> => Range(refreshes') # {}
    BY <1>1, EmptySeq, LenProperties DEF Range
  <2>2. refreshes = << >> => Range(refreshes) = {}
    BY DEF Range
  <2> QED
    BY <1>1, <2>1, <2>2
<1>5. Source!NoLostNudge'
  BY <1>4, SourceLibrary DEF Source!HandleClientDown, SourceInv, Source!NoLostNudge
<1> QED
  BY <1>2, <1>3, <1>5 DEF SourceInv

\* The timer adds a periodic job only where no refresh is in hand.
LEMMA SourceRefreshStaleSourcesInv ==
  ASSUME SourceInv, Source!RefreshStaleSources
  PROVE  SourceInv'
<1>1. CASE Source!HasRefreshJob \/ ~stale
  BY <1>1, SourceLibrary
     DEF Source!RefreshStaleSources, Source!MaybeEnqueueStaleRefresh, SourceInv, Source!TypeOK,
         Source!Placement, SourceOneInHand, SourceInHand, Source!NoLostNudge
<1>2. CASE ~(Source!HasRefreshJob \/ ~stale)
  <2>1. PICK p \in Periodic \ ({refreshed} \cup Range(refreshes)) : Source!Enqueue(p)
    BY <1>2, SourceLibrary DEF Source!RefreshStaleSources, Source!MaybeEnqueueStaleRefresh
  <2>2. p \in SourceJob /\ p \notin SourceInHand /\ p \notin Ensure /\ p \notin Refresh
    BY SourceAssumption DEF SourceJob, SourceInHand
  <2>3. /\ refreshes' \in Seq(SourceJob) /\ IsInjective(refreshes')
        /\ Range(refreshes') = Range(refreshes) \cup {p}
        /\ kicks' \in Nat /\ kicks' > 0
    BY <2>1, <2>2, SourceEnqueueInv
  <2>4. SourceInHand \cap Periodic = {}
    BY <1>2, SourceLibrary DEF Source!HasRefreshJob, SourceInHand
  <2>5. Source!TypeOK'
    BY <2>3, SourceLibrary DEF SourceInv, Source!TypeOK, Source!RefreshStaleSources
  <2>6. Source!Placement'
    BY <2>2, <2>3, SourceLibrary
       DEF SourceInv, Source!Placement, SourceInHand, Source!RefreshStaleSources
  <2>7. SourceOneInHand' /\ SourceInHand' \cap (Ensure \cup Refresh) \subseteq called'
    BY <2>2, <2>3, <2>4 DEF SourceInv, SourceOneInHand, SourceInHand, Source!RefreshStaleSources
  <2>8. Source!NoLostNudge'
    BY <2>3 DEF Source!NoLostNudge
  <2> QED
    BY <2>5, <2>6, <2>7, <2>8 DEF SourceInv
<1> QED
  BY <1>1, <1>2

\* The invariant is inductive.
LEMMA SourceNextInv == SourceInv /\ [Source!Next]_Source!vars => SourceInv'
<1> SUFFICES ASSUME SourceInv, [Source!Next]_Source!vars PROVE SourceInv'
  OBVIOUS
<1> USE DEF Source!Placement, SourceOneInHand, SourceInHand, Source!NoLostNudge
<1>1. CASE UNCHANGED Source!vars
  BY <1>1, SourceLibrary DEF Source!vars, SourceInv, Source!TypeOK
<1>2. CASE Source!ProcessQueue
  BY <1>2, SourceProcessQueueInv
<1>3. CASE Source!HandleResult
  BY <1>3, SourceHandleResultInv
<1>4. CASE Source!RefreshStaleSources
  BY <1>4, SourceRefreshStaleSourcesInv
<1>5. CASE Source!RefreshTimerFires
  BY <1>5, SourceLibrary DEF Source!RefreshTimerFires, SourceInv, Source!TypeOK
<1>6. CASE Source!WorkerEnds
  BY <1>6, SourceLibrary DEF Source!WorkerEnds, SourceInv, Source!TypeOK
<1>7. CASE Source!WorkerDies
  BY <1>7, SourceLibrary DEF Source!WorkerDies, SourceInv, Source!TypeOK
<1>8. CASE Source!SourcesAge
  BY <1>8, SourceLibrary DEF Source!SourcesAge, SourceInv, Source!TypeOK
<1>9. ASSUME NEW e \in Ensure, Source!EnsureCatalog(e) PROVE SourceInv'
  BY <1>9, SourceEnsureCatalogInv
<1>10. ASSUME NEW r \in Refresh, Source!Submit(r) PROVE SourceInv'
  BY <1>10, SourceSubmitInv
<1>11. ASSUME NEW r \in Refresh, Source!HandleClientDown(r) PROVE SourceInv'
  BY <1>11, SourceHandleClientDownInv
<1>12. ASSUME NEW r \in Refresh, Source!ClientDies(r) PROVE SourceInv'
  BY <1>12, SourceLibrary DEF Source!ClientDies, SourceInv, Source!TypeOK
<1> QED
  BY <1>1, <1>2, <1>3, <1>4, <1>5, <1>6, <1>7, <1>8, <1>9, <1>10, <1>11, <1>12 DEF Source!Next

\* At most one periodic job is in hand.
LEMMA SourceOneIsOne == SourceInv => Source!OnePeriodic
<1> SUFFICES ASSUME SourceInv PROVE Source!OnePeriodic
  OBVIOUS
<1> DEFINE S == ({refreshed} \cup Range(refreshes)) \cap Periodic
<1>1. S = {} \/ \E p \in S : S = {p}
  BY DEF SourceInv, SourceOneInHand, SourceInHand
<1>2. Cardinality({}) = 0
  BY FS_EmptySet
<1>3. \A p : Cardinality({p}) = 1
  BY FS_Singleton
<1>4. Cardinality(S) = 0 \/ Cardinality(S) = 1
  BY <1>1, <1>2, <1>3
<1> QED
  BY <1>4, SourceLibrary DEF Source!OnePeriodic

\* So the invariant holds in every reachable state.
LEMMA SourceSpecInv == Source!Spec => []SourceInv
<1> QED
  BY SourceInitInv, SourceNextInv, PTL DEF Source!Spec

-----------------------------------------------------------------------------
(***************************************************************************)
(* The services side by side.                                              *)
(***************************************************************************)
\* What CatalogStoreProofs calls a step of the exports store is one of this module's.
LEMMA SameStore ==
  /\ Catalog!Init <=> CatalogProofs!Init
  /\ [Catalog!Next]_Catalog!vars <=> [CatalogProofs!Next]_CatalogProofs!vars
<1>1. Catalog!Init <=> CatalogProofs!Init
  BY DEF Catalog!Init, CatalogProofs!Init, Catalog!NoWork, CatalogProofs!NoWork
<1>2. Catalog!vars = CatalogProofs!vars /\ Catalog!vars' = CatalogProofs!vars'
  BY DEF Catalog!vars, CatalogProofs!vars, Catalog!clientVars, CatalogProofs!clientVars
<1>3. ASSUME NEW j PROVE Catalog!Submit(j) <=> CatalogProofs!Submit(j)
  BY DEF Catalog!Submit, CatalogProofs!Submit, Catalog!Busy, CatalogProofs!Busy,
         Catalog!Same, CatalogProofs!Same, Catalog!Begun, CatalogProofs!Begun,
         Catalog!NoWork, CatalogProofs!NoWork, Catalog!Cardinality, CatalogProofs!Cardinality
<1>4. ASSUME NEW q, NEW ws, NEW wk
      PROVE  Catalog!StartQueued(q, ws, wk) <=> CatalogProofs!StartQueued(q, ws, wk)
  BY DEF Catalog!StartQueued, CatalogProofs!StartQueued, Catalog!Busy, CatalogProofs!Busy,
         Catalog!Begun, CatalogProofs!Begun, Catalog!NoWork, CatalogProofs!NoWork,
         Catalog!Cardinality, CatalogProofs!Cardinality
<1>5. ASSUME NEW t PROVE Catalog!CompleteGroup(t) <=> CatalogProofs!CompleteGroup(t)
  BY <1>4 DEF Catalog!CompleteGroup, CatalogProofs!CompleteGroup, Catalog!NoWork,
              CatalogProofs!NoWork, Catalog!Range, CatalogProofs!Range, Catalog!Cardinality,
              CatalogProofs!Cardinality
<1>6. ASSUME NEW t PROVE Catalog!HandleResult(t) <=> CatalogProofs!HandleResult(t)
  BY <1>5 DEF Catalog!HandleResult, CatalogProofs!HandleResult, Catalog!Merged,
              CatalogProofs!Merged, Catalog!clientVars, CatalogProofs!clientVars
<1>7. ASSUME NEW t PROVE Catalog!HandleWorkerDown(t) <=> CatalogProofs!HandleWorkerDown(t)
  BY <1>5 DEF Catalog!HandleWorkerDown, CatalogProofs!HandleWorkerDown
<1>8. ASSUME NEW j PROVE Catalog!HandleClientDown(j) <=> CatalogProofs!HandleClientDown(j)
  <2>1. \A T : Catalog!Min(T) = CatalogProofs!Min(T)
    BY DEF Catalog!Min, CatalogProofs!Min
  <2>2. \A q, e : Catalog!RemoveFirst(q, e) = CatalogProofs!RemoveFirst(q, e)
    BY <2>1 DEF Catalog!RemoveFirst, CatalogProofs!RemoveFirst, Catalog!RemoveAt,
                CatalogProofs!RemoveAt, Catalog!SelectInSeq, CatalogProofs!SelectInSeq
  <2> QED
    BY <1>4, <2>2 DEF Catalog!HandleClientDown, CatalogProofs!HandleClientDown,
       Catalog!WithoutQueued, CatalogProofs!WithoutQueued, Catalog!Without,
       CatalogProofs!Without, Catalog!NoWork, CatalogProofs!NoWork
<1>9. ASSUME NEW j
      PROVE  /\ Catalog!WorkerStep(j) <=> CatalogProofs!WorkerStep(j)
             /\ Catalog!WorkerDies(j) <=> CatalogProofs!WorkerDies(j)
             /\ Catalog!ClientDies(j) <=> CatalogProofs!ClientDies(j)
  BY DEF Catalog!WorkerStep, CatalogProofs!WorkerStep, Catalog!ReadSignature,
         CatalogProofs!ReadSignature, Catalog!Load, CatalogProofs!Load, Catalog!Fails,
         CatalogProofs!Fails, Catalog!Ends, CatalogProofs!Ends, Catalog!WorkerDies,
         CatalogProofs!WorkerDies, Catalog!ClientDies, CatalogProofs!ClientDies,
         Catalog!worldVars, CatalogProofs!worldVars, Catalog!clientVars,
         CatalogProofs!clientVars
<1>10. Catalog!FileChanges <=> CatalogProofs!FileChanges
  BY DEF Catalog!FileChanges, CatalogProofs!FileChanges, Catalog!worldVars,
         CatalogProofs!worldVars, Catalog!clientVars, CatalogProofs!clientVars
<1>11. Catalog!Next <=> CatalogProofs!Next
  BY <1>3, <1>6, <1>7, <1>8, <1>9, <1>10 DEF Catalog!Next, CatalogProofs!Next
<1> QED
  BY <1>1, <1>2, <1>11

\* Each service makes steps of its own, or none.
LEMMA EachRuns == Spec => Query!Spec /\ Forma!Spec /\ Source!Spec /\ CatalogProofs!Spec
<1>1. Init => Query!Init /\ Forma!Init /\ Source!Init /\ CatalogProofs!Init
  BY SameStore DEF Init
<1>2. [Next]_vars => [Query!Next]_Query!vars /\ [Forma!Next]_Forma!vars
                     /\ [Source!Next]_Source!vars /\ [Catalog!Next]_Catalog!vars
  BY DEF Next, vars, QueryStep, FormaStep, CatalogStep, SourceStep, WorldstateStep, SyncStep,
         jobVars, queryVars, formaVars, sourceVars, catalogVars,
         Query!vars, Forma!vars, Source!vars, Catalog!vars,
         Catalog!clientVars
<1>3. [Catalog!Next]_Catalog!vars => [CatalogProofs!Next]_CatalogProofs!vars
  BY SameStore
<1> QED
  BY <1>1, <1>2, <1>3, PTL DEF Spec, Query!Spec, Forma!Spec, Source!Spec, CatalogProofs!Spec

\* The four invariants, together.
Inv == QueryInv /\ FormaInv /\ SourceInv /\ CatalogProofs!Inv

LEMMA SpecInv == Spec => []Inv
<1> QED
  BY EachRuns, QuerySpecInv, FormaSpecInv, SourceSpecInv, CatalogProofs!SpecInv,
     CatalogAssumptions, PTL DEF Inv

\* Every variable of the four services keeps its type, for any number of jobs and
\* workers: in particular no lease is given back twice (activity_end).
THEOREM TypesKept == Spec => []TypeOK
<1>1. Inv => TypeOK
  <2>1. CatalogProofs!Inv => CatalogProofs!TypeOK
    BY CatalogProofs!InvShows, CatalogAssumptions
  <2>2. CatalogProofs!TypeOK => Catalog!TypeOK
    <3>1. CatalogProofs!Version = Catalog!Version
      BY DEF CatalogProofs!Version, Catalog!Version
    <3>2. CatalogProofs!Entries = Catalog!Entries
      BY <3>1 DEF CatalogProofs!Entries, Catalog!Entries
    <3> QED
      BY <3>1, <3>2 DEF CatalogProofs!TypeOK, Catalog!TypeOK
  <2> QED
    BY <2>1, <2>2 DEF Inv, TypeOK, QueryInv, FormaInv, SourceInv
<1> QED
  BY <1>1, SpecInv, PTL

\* However the results of workers, their ends and the ends of clients cross, each job of
\* wfcli_query_service, wfcli_forma_service, wfcli_exports_store and wfcli_source_manager
\* is in one place, within the limits, and none waits beside a free worker: for any number
\* of jobs, any limit and any grouping of equal catalog queries.
THEOREM InOrder == Spec => []QueuesInOrder
<1>1. CatalogProofs!Inv => Catalog!Placement /\ Catalog!WorkConserving /\ Catalog!WorkerLimit
  <2>1. CatalogProofs!Inv => /\ CatalogProofs!Placement /\ CatalogProofs!WorkConserving
                             /\ CatalogProofs!WorkerLimit
    BY CatalogProofs!InvShows, CatalogAssumptions
  <2>2. CatalogProofs!Placement => Catalog!Placement
    BY DEF CatalogProofs!Placement, Catalog!Placement, CatalogProofs!Busy, Catalog!Busy,
           CatalogProofs!IsInjective, Catalog!IsInjective, CatalogProofs!Range,
           Catalog!Range, CatalogProofs!Same, Catalog!Same
  <2>3. /\ CatalogProofs!WorkConserving => Catalog!WorkConserving
        /\ CatalogProofs!WorkerLimit => Catalog!WorkerLimit
    BY DEF CatalogProofs!WorkConserving, Catalog!WorkConserving, CatalogProofs!WorkerLimit,
           Catalog!WorkerLimit, CatalogProofs!Busy, Catalog!Busy, CatalogProofs!Cardinality,
           Catalog!Cardinality
  <2> QED
    BY <2>1, <2>2, <2>3
<1>2. Inv => QueuesInOrder
  BY <1>1, QueryInvShows, SourceOneIsOne
     DEF Inv, QueuesInOrder, Placement, Limits, WorkConserving, FormaInv, SourceInv
<1> QED
  BY <1>2, SpecInv, PTL

\* Each query, each plan and each catalog query is finished once, answered or dropped with
\* its client, and its lease released with it: the three services do what JobQueue says.
THEOREM JobsFinishedOnce == Spec => ImplementsJobQueue
<1>1. CatalogProofs!Promise!JobInit => Catalog!Promise!JobInit
  BY DEF CatalogProofs!Promise!JobInit, Catalog!Promise!JobInit, CatalogProofs!Fate,
         Catalog!Fate
<1>2. [CatalogProofs!Promise!JobNext]_CatalogProofs!Promise!jobVars
      => [Catalog!Promise!JobNext]_Catalog!Promise!jobVars
  BY DEF CatalogProofs!Promise!JobNext, Catalog!Promise!JobNext,
         CatalogProofs!Promise!jobVars, Catalog!Promise!jobVars,
         CatalogProofs!Promise!Accept, Catalog!Promise!Accept,
         CatalogProofs!Promise!Answer, Catalog!Promise!Answer,
         CatalogProofs!Promise!Drop, Catalog!Promise!Drop, CatalogProofs!Fate, Catalog!Fate,
         CatalogProofs!Promise!Cardinality, Catalog!Promise!Cardinality
<1> QED
  BY <1>1, <1>2, EachRuns, QueryRefines, FormaRefines, CatalogProofs!Refines,
     CatalogAssumptions, PTL
     DEF ImplementsJobQueue, Query!ImplementsJobQueue, Forma!ImplementsJobQueue,
         Catalog!ImplementsJobQueue, Catalog!Promise!JobSpec, CatalogProofs!Promise!JobSpec

\* At every time the daemon is held by as many leases of a service as it has accepted jobs
\* and not finished: what clients, results and ends of workers do to the queues never leaves
\* a lease behind, and never lets the daemon stop under a job (activity_start and
\* activity_end in the three services).
THEOREM LeasePerUnfinishedJob ==
  Spec => [](/\ Query!Promise!LeasePerJob /\ Forma!Promise!LeasePerJob
             /\ Catalog!Promise!LeasePerJob)
<1>1. ASSUME QueryInv PROVE Query!Promise!LeasePerJob
  <2>1. monitored \subseteq Job /\ lease = Cardinality(monitored)
    BY <1>1 DEF QueryInv, Query!TypeOK, QueryAccounts
  <2>2. {j \in Job : [k \in Job |-> Query!Fate(k)][j] = "accepted"} = monitored
    BY <2>1 DEF Query!Fate
  <2>3. Query!Promise!Cardinality(monitored) = Cardinality(monitored)
    BY DEF Query!Promise!Cardinality, Cardinality
  <2> QED
    BY <2>1, <2>2, <2>3 DEF Query!Promise!LeasePerJob
<1>2. ASSUME FormaInv PROVE Forma!Promise!LeasePerJob
  <2>1. planClients \subseteq Job /\ planLease = Cardinality(planClients)
    BY <1>2 DEF FormaInv, Forma!TypeOK, FormaAccounts
  <2>2. {j \in Job : [k \in Job |-> Forma!Fate(k)][j] = "accepted"} = planClients
    BY <2>1 DEF Forma!Fate
  <2>3. Forma!Promise!Cardinality(planClients) = Cardinality(planClients)
    BY DEF Forma!Promise!Cardinality, Cardinality
  <2> QED
    BY <2>1, <2>2, <2>3 DEF Forma!Promise!LeasePerJob
<1>3. ASSUME CatalogProofs!Inv PROVE Catalog!Promise!LeasePerJob
  <2>1. searchers \subseteq Job /\ searchLease = Cardinality(searchers)
    BY <1>3, CatalogLibrary DEF CatalogProofs!Inv, CatalogProofs!TypeOK, CatalogProofs!Accounts
  <2>2. {j \in Job : [k \in Job |-> Catalog!Fate(k)][j] = "accepted"} = searchers
    BY <2>1 DEF Catalog!Fate
  <2>3. Catalog!Promise!Cardinality(searchers) = Cardinality(searchers)
    BY DEF Catalog!Promise!Cardinality, Cardinality
  <2> QED
    BY <2>1, <2>2, <2>3 DEF Catalog!Promise!LeasePerJob
<1>4. Inv => /\ Query!Promise!LeasePerJob /\ Forma!Promise!LeasePerJob
             /\ Catalog!Promise!LeasePerJob
  BY <1>1, <1>2, <1>3 DEF Inv
<1> QED
  BY <1>4, SpecInv, PTL

\* No catalog query is answered with content older than the file was when the query came,
\* or when the worker it joined began, and no slow worker brings an old entry back, however
\* often the file changes (apply_cache_changes of wfcli_exports_store).
THEOREM CacheStaysTrue == Spec => CacheTrue
<1>1. CatalogProofs!AnswersFresh => Catalog!AnswersFresh
  BY DEF CatalogProofs!AnswersFresh, Catalog!AnswersFresh, CatalogProofs!Range, Catalog!Range
<1>2. Catalog!vars = CatalogProofs!vars /\ Catalog!vars' = CatalogProofs!vars'
  BY DEF Catalog!vars, CatalogProofs!vars, Catalog!clientVars, CatalogProofs!clientVars
<1>3. [\A e \in cache : cache' # cache
         => \E n \in cache' : n.signature >= e.data]_CatalogProofs!vars
      => [\A e \in cache : cache' # cache
            => \E n \in cache' : n.signature >= e.data]_Catalog!vars
  BY <1>2
<1> QED
  BY <1>1, <1>3, EachRuns, CatalogProofs!SpecFresh, CatalogAssumptions, PTL
     DEF CacheTrue, Catalog!CacheOnlyRenews, CatalogProofs!CacheOnlyRenews

=============================================================================
