---------------------------- MODULE QueryService ----------------------------
(***************************************************************************)
(* wfcli_query_service: unified queries run in up to max_workers worker    *)
(* processes, the others wait in a queue.  A client that dies takes its    *)
(* query along, wherever it is.                                            *)
(***************************************************************************)
EXTENDS JobConstants, Sequences, SequencesExt

VARIABLES
  queue,       \* jobs waiting for a worker
  workers,     \* jobs with an entry in the workers map
  process,     \* the worker process of a job
  mail,        \* jobs with a query_result message in the mailbox
  monitored,   \* client_monitors
  gone,        \* jobs whose client has died
  submitted,   \* queries the server has accepted
  replies,     \* replies sent to the client of a query
  lease        \* activity_start minus activity_end

vars == <<queue, workers, process, mail, monitored, gone, submitted, replies, lease>>

TypeOK ==
  /\ queue \in Seq(Job)
  /\ workers \in SUBSET Job
  /\ process \in [Job -> {"none", "running", "ended", "died", "killed"}]
  /\ mail \in SUBSET Job
  /\ monitored \in SUBSET Job
  /\ gone \in SUBSET Job
  /\ submitted \in SUBSET Job
  /\ replies \in [Job -> Nat]
  /\ lease \in Nat

Init ==
  /\ queue = << >>
  /\ workers = {}
  /\ process = [j \in Job |-> "none"]
  /\ mail = {}
  /\ monitored = {}
  /\ gone = {}
  /\ submitted = {}
  /\ replies = [j \in Job |-> 0]
  /\ lease = 0

\* start_queued: jobs from the head of the queue get the free places.
StartQueued(q, busy, procs) ==
  LET free  == MaxWorkers - Cardinality(busy)
      n     == IF free <= 0 THEN 0 ELSE IF free < Len(q) THEN free ELSE Len(q)
      begun == {q[i] : i \in 1..n}
  IN /\ queue' = SubSeq(q, n + 1, Len(q))
     /\ workers' = busy \cup begun
     /\ process' = [j \in Job |-> IF j \in begun THEN "running" ELSE procs[j]]

\* enqueue_job, for a job that just arrived.
EnqueueJob(j) ==
  IF Cardinality(workers) < MaxWorkers
  THEN /\ workers' = workers \cup {j}
       /\ process' = [process EXCEPT ![j] = "running"]
       /\ queue' = queue
  ELSE /\ queue' = Append(queue, j)
       /\ UNCHANGED <<workers, process>>

Submit(j) ==
  /\ j \notin submitted
  /\ submitted' = submitted \cup {j}
  /\ monitored' = monitored \cup {j}
  /\ lease' = lease + 1
  /\ EnqueueJob(j)
  /\ UNCHANGED <<mail, gone, replies>>

\* Fault: the lease and the monitor of an answered job are kept.
CompleteJobLeaking(j) ==
  /\ replies' = [replies EXCEPT ![j] = IF j \in monitored THEN @ + 1 ELSE @]
  /\ monitored' = monitored \ {j}
  /\ lease' = lease
  /\ UNCHANGED <<gone, submitted>>
  /\ StartQueued(queue, workers \ {j}, process)

\* Fault: the freed worker is not given to the queue.
CompleteJobOnly(j) ==
  /\ replies' = [replies EXCEPT ![j] = IF j \in monitored THEN @ + 1 ELSE @]
  /\ monitored' = monitored \ {j}
  /\ lease' = lease - 1
  /\ workers' = workers \ {j}
  /\ UNCHANGED <<gone, submitted, queue, process>>

\* complete_job and start_queued, for a worker that posted its result or died.
CompleteJob(j) ==
  /\ replies' = [replies EXCEPT ![j] = IF j \in monitored THEN @ + 1 ELSE @]
  /\ monitored' = monitored \ {j}
  /\ lease' = lease - 1
  /\ UNCHANGED <<gone, submitted>>
  /\ StartQueued(queue, workers \ {j}, process)

\* Fault: a result is completed whether its token is known or not.
HandleResultBlindly(j) == j \in mail /\ mail' = mail \ {j} /\ CompleteJob(j)

HandleResult(j) ==
  /\ j \in mail
  /\ mail' = mail \ {j}
  /\ IF j \in workers THEN CompleteJob(j)
     ELSE UNCHANGED <<queue, workers, process, monitored, gone, submitted,
                      replies, lease>>

\* 'DOWN' of a worker that died before it posted a result.
HandleWorkerDown(j) ==
  /\ j \in workers
  /\ process[j] = "died"
  /\ mail' = mail
  /\ CompleteJob(j)

\* queue:filter by the reference of a job, which no two jobs share.
Without(q, j) == RemoveFirst(q, j)

\* cancel_client: the job leaves the queue, a running worker is killed.
HandleClientDown(j) ==
  /\ j \in monitored
  /\ j \in gone
  /\ monitored' = monitored \ {j}
  /\ lease' = lease - 1
  /\ StartQueued(Without(queue, j), workers \ {j},
                 [k \in Job |-> IF k = j /\ j \in workers /\ process[k] = "running"
                                THEN "killed" ELSE process[k]])
  /\ UNCHANGED <<mail, gone, submitted, replies>>

WorkerEnds(j) ==
  /\ process[j] = "running"
  /\ process' = [process EXCEPT ![j] = "ended"]
  /\ mail' = mail \cup {j}
  /\ UNCHANGED <<queue, workers, monitored, gone, submitted, replies, lease>>

WorkerDies(j) ==
  /\ process[j] = "running"
  /\ process' = [process EXCEPT ![j] = "died"]
  /\ UNCHANGED <<queue, workers, mail, monitored, gone, submitted, replies, lease>>

ClientDies(j) ==
  /\ j \notin gone
  /\ gone' = gone \cup {j}
  /\ UNCHANGED <<queue, workers, process, mail, monitored, submitted, replies, lease>>

Next ==
  \E j \in Job :
    \/ Submit(j) \/ HandleResult(j) \/ HandleWorkerDown(j) \/ HandleClientDown(j)
    \/ WorkerEnds(j) \/ WorkerDies(j) \/ ClientDies(j)

\* Messages are handled and a worker ends: each call it makes has a timeout.
Fairness ==
  /\ WF_vars(\E j \in Job : HandleResult(j) \/ HandleWorkerDown(j) \/ HandleClientDown(j))
  /\ WF_vars(\E j \in Job : WorkerEnds(j))

Spec == Init /\ [][Next]_vars
FairSpec == Spec /\ Fairness

(***************************************************************************)
(* What the service promises.                                              *)
(***************************************************************************)
\* An accepted query is in exactly one place, once: it waits in the queue or
\* has a worker; nothing else is there.
Placement ==
  /\ IsInjective(queue)
  /\ Range(queue) \cap workers = {}
  /\ Range(queue) \cup workers = monitored

\* No more than max_workers processes run, and none runs for a query that
\* nobody waits for, however cancellations and results interleave.
WorkerLimit ==
  /\ Cardinality({j \in Job : process[j] = "running"}) <= MaxWorkers
  /\ {j \in Job : process[j] = "running"} \subseteq monitored

\* A query waits only while all workers are busy: every handler that frees a
\* worker starts the next one.
WorkConserving == queue # << >> => Cardinality(workers) = MaxWorkers

\* The fate of a query as its client and the lease accounting see it.
Fate(j) ==
  IF j \in monitored THEN "accepted"
  ELSE IF replies[j] > 0 THEN "answered"
  ELSE IF j \in submitted THEN "dropped" ELSE "new"

Promise == INSTANCE JobQueue WITH job <- [j \in Job |-> Fate(j)]

\* Every query is finished once, and its lease is released with it.
ImplementsJobQueue == Promise!JobSpec

=============================================================================
