---------------------------- MODULE FormaService ----------------------------
(***************************************************************************)
(* wfcli_forma_service: plans are computed one at a time.  The server      *)
(* drives its queue by process_queue messages to itself, which it ignores  *)
(* while a planner runs.                                                   *)
(***************************************************************************)
EXTENDS JobConstants, Sequences, SequencesExt

VARIABLES
  queue,       \* jobs not yet started
  current,     \* the job being planned, or NoJob
  process,     \* the planner process of a job
  nudges,      \* process_queue messages in the mailbox
  mail,        \* jobs with a planner_result message in the mailbox
  monitored,   \* client_monitors
  gone,        \* jobs whose client has died
  submitted,   \* plans the server has accepted
  replies,     \* replies sent to the client of a plan
  lease        \* activity_start minus activity_end

vars == <<queue, current, process, nudges, mail, monitored, gone, submitted,
          replies, lease>>

TypeOK ==
  /\ queue \in Seq(Job)
  /\ current \in Job \cup {NoJob}
  /\ process \in [Job -> {"none", "running", "ended", "died", "killed"}]
  /\ nudges \in Nat
  /\ mail \in SUBSET Job
  /\ monitored \in SUBSET Job
  /\ gone \in SUBSET Job
  /\ submitted \in SUBSET Job
  /\ replies \in [Job -> Nat]
  /\ lease \in Nat

Init ==
  /\ queue = << >>
  /\ current = NoJob
  /\ process = [j \in Job |-> "none"]
  /\ nudges = 0
  /\ mail = {}
  /\ monitored = {}
  /\ gone = {}
  /\ submitted = {}
  /\ replies = [j \in Job |-> 0]
  /\ lease = 0

Submit(j) ==
  /\ j \notin submitted
  /\ submitted' = submitted \cup {j}
  /\ queue' = Append(queue, j)
  /\ monitored' = monitored \cup {j}
  /\ lease' = lease + 1
  /\ nudges' = nudges + 1
  /\ UNCHANGED <<current, process, mail, gone, replies>>

\* Fault: a nudge starts a planner whether one runs or not.
ProcessQueueAlways ==
  /\ nudges > 0
  /\ nudges' = nudges - 1
  /\ IF queue # << >>
     THEN /\ current' = Head(queue)
          /\ queue' = Tail(queue)
          /\ process' = [process EXCEPT ![Head(queue)] = "running"]
     ELSE UNCHANGED <<queue, current, process>>
  /\ UNCHANGED <<mail, monitored, gone, submitted, replies, lease>>

\* process_queue: ignored while a planner runs.
ProcessQueue ==
  /\ nudges > 0
  /\ nudges' = nudges - 1
  /\ IF current = NoJob /\ queue # << >>
     THEN /\ current' = Head(queue)
          /\ queue' = Tail(queue)
          /\ process' = [process EXCEPT ![Head(queue)] = "running"]
     ELSE UNCHANGED <<queue, current, process>>
  /\ UNCHANGED <<mail, monitored, gone, submitted, replies, lease>>

\* Fault: the end of a plan does not look at the queue.
CompleteJobQuietly(j) ==
  /\ current' = NoJob
  /\ nudges' = nudges
  /\ replies' = [replies EXCEPT ![j] = IF j \in monitored THEN @ + 1 ELSE @]
  /\ monitored' = monitored \ {j}
  /\ lease' = lease - 1
  /\ UNCHANGED <<queue, process, gone, submitted>>

\* complete_job and a nudge, for a planner that posted its result or died.
CompleteJob(j) ==
  /\ current' = NoJob
  /\ nudges' = nudges + 1
  /\ replies' = [replies EXCEPT ![j] = IF j \in monitored THEN @ + 1 ELSE @]
  /\ monitored' = monitored \ {j}
  /\ lease' = lease - 1
  /\ UNCHANGED <<queue, process, gone, submitted>>

HandleResult(j) ==
  /\ j \in mail
  /\ mail' = mail \ {j}
  /\ IF j = current THEN CompleteJob(j)
     ELSE UNCHANGED <<queue, current, process, nudges, monitored, gone,
                      submitted, replies, lease>>

\* 'DOWN' of a planner that died before it posted a result.
HandlePlannerDown ==
  /\ current # NoJob
  /\ process[current] = "died"
  /\ mail' = mail
  /\ CompleteJob(current)

\* queue:filter by the reference of a job, which no two jobs share.
Without(q, j) == RemoveFirst(q, j)

\* cancel_client and a nudge: the job leaves the queue, its planner is killed.
HandleClientDown(j) ==
  /\ j \in monitored
  /\ j \in gone
  /\ monitored' = monitored \ {j}
  /\ queue' = Without(queue, j)
  /\ IF j = current
     THEN /\ current' = NoJob
          /\ process' = [process EXCEPT ![j] = IF @ = "running" THEN "killed" ELSE @]
     ELSE UNCHANGED <<current, process>>
  /\ lease' = lease - 1
  /\ nudges' = nudges + 1
  /\ UNCHANGED <<mail, gone, submitted, replies>>

PlannerEnds(j) ==
  /\ process[j] = "running"
  /\ process' = [process EXCEPT ![j] = "ended"]
  /\ mail' = mail \cup {j}
  /\ UNCHANGED <<queue, current, nudges, monitored, gone, submitted, replies, lease>>

PlannerDies(j) ==
  /\ process[j] = "running"
  /\ process' = [process EXCEPT ![j] = "died"]
  /\ UNCHANGED <<queue, current, nudges, mail, monitored, gone, submitted,
                 replies, lease>>

ClientDies(j) ==
  /\ j \notin gone
  /\ gone' = gone \cup {j}
  /\ UNCHANGED <<queue, current, process, nudges, mail, monitored, submitted,
                 replies, lease>>

Next ==
  \/ ProcessQueue \/ HandlePlannerDown
  \/ \E j \in Job :
       \/ Submit(j) \/ HandleResult(j) \/ HandleClientDown(j)
       \/ PlannerEnds(j) \/ PlannerDies(j) \/ ClientDies(j)

\* Messages are handled, and the search of a planner has a budget.
Fairness ==
  /\ WF_vars(\/ ProcessQueue \/ HandlePlannerDown
             \/ \E j \in Job : HandleResult(j) \/ HandleClientDown(j))
  /\ WF_vars(\E j \in Job : PlannerEnds(j))

Spec == Init /\ [][Next]_vars
FairSpec == Spec /\ Fairness

(***************************************************************************)
(* What the service promises.                                              *)
(***************************************************************************)
\* A plan that waits and no planner running: a process_queue message is on its
\* way, since the handler drops the ones that arrive while a planner runs.
NoLostNudge == queue # << >> /\ current = NoJob => nudges > 0

\* At most one planner process runs, the one of the current job, and an
\* accepted plan is in exactly one place: the queue or current.
OnePlanner ==
  /\ \A j \in Job : process[j] = "running" => j = current
  /\ IsInjective(queue)
  /\ current \notin Range(queue)
  /\ Range(queue) \cup ({current} \ {NoJob}) = monitored

\* The fate of a plan as its client and the lease accounting see it.
Fate(j) ==
  IF j \in monitored THEN "accepted"
  ELSE IF replies[j] > 0 THEN "answered"
  ELSE IF j \in submitted THEN "dropped" ELSE "new"

Promise == INSTANCE JobQueue WITH job <- [j \in Job |-> Fate(j)]

\* Every plan is finished once, and its lease is released with it.
ImplementsJobQueue == Promise!JobSpec

=============================================================================
