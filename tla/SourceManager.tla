---------------------------- MODULE SourceManager ----------------------------
(***************************************************************************)
(* wfcli_source_manager: one worker at a time prepares missing sources for *)
(* a caller (ensure), updates them for a client (refresh), or updates what *)
(* has become stale (periodic).  The worker of a canceled refresh is left  *)
(* to finish.                                                              *)
(***************************************************************************)
EXTENDS JobConstants, Sequences, SequencesExt

VARIABLES
  queue,         \* jobs not yet started
  current,       \* the job at work, or NoJob
  worker,        \* its process
  nudges,        \* process_queue messages in the mailbox
  monitored,     \* client_monitors
  gone,          \* refreshes whose client has died
  submitted,     \* calls and refreshes the server has accepted
  answered,      \* those it has replied to
  lease,         \* activity counted for this service
  refreshTimer,  \* the periodic check: its timer or its message
  stale          \* some managed source is older than the limit

vars == <<queue, current, worker, nudges, monitored, gone, submitted, answered,
          lease, refreshTimer, stale>>

TypeOK ==
  /\ queue \in Seq(SourceJob)
  /\ current \in SourceJob \cup {NoJob}
  /\ worker \in {"none", "running", "posted", "died"}
  /\ worker = "none" <=> current = NoJob
  /\ nudges \in Nat
  /\ monitored \in SUBSET Refresh
  /\ gone \in SUBSET Refresh
  /\ submitted \in SUBSET (Ensure \cup Refresh)
  /\ answered \in SUBSET submitted
  /\ lease \in Nat
  /\ refreshTimer \in {"armed", "fired", "off"}
  /\ stale \in BOOLEAN

Init ==
  /\ queue = << >>
  /\ current = NoJob
  /\ worker = "none"
  /\ nudges = 0
  /\ monitored = {}
  /\ gone = {}
  /\ submitted = {}
  /\ answered = {}
  /\ lease = 0
  /\ refreshTimer = "armed"
  /\ stale \in BOOLEAN

Enqueue(j) == queue' = Append(queue, j) /\ nudges' = nudges + 1

EnsureCatalog(e) ==
  /\ e \notin submitted
  /\ submitted' = submitted \cup {e}
  /\ Enqueue(e)
  /\ UNCHANGED <<current, worker, monitored, gone, answered, lease, refreshTimer, stale>>

Submit(r) ==
  /\ r \notin submitted
  /\ submitted' = submitted \cup {r}
  /\ monitored' = monitored \cup {r}
  /\ lease' = lease + 1
  /\ Enqueue(r)
  /\ UNCHANGED <<current, worker, gone, answered, refreshTimer, stale>>

\* process_queue: ignored while a worker is at work.
ProcessQueue ==
  /\ nudges > 0
  /\ nudges' = nudges - 1
  /\ IF current = NoJob /\ queue # << >>
     THEN current' = Head(queue) /\ queue' = Tail(queue) /\ worker' = "running"
     ELSE UNCHANGED <<queue, current, worker>>
  /\ UNCHANGED <<monitored, gone, submitted, answered, lease, refreshTimer, stale>>

\* activity_end, as wfcli_worldstate_service counts it: never below zero.
ActivityEnd(held) == IF held > 0 THEN held - 1 ELSE 0

\* Fault: the end of a job does not look at the queue.
CompleteJobQuietly(j) ==
  /\ current' = NoJob
  /\ worker' = "none"
  /\ nudges' = nudges
  /\ answered' = answered \cup ({j} \cap (Ensure \cup monitored))
  /\ monitored' = monitored \ {j}
  /\ lease' = IF j \in Refresh THEN ActivityEnd(lease) ELSE lease
  /\ UNCHANGED <<queue, gone, submitted, refreshTimer, stale>>

\* complete_job and a nudge: a refresh releases a lease, also when its client
\* is gone and 'DOWN' has released it before.
CompleteJob(j) ==
  /\ current' = NoJob
  /\ worker' = "none"
  /\ nudges' = nudges + 1
  /\ answered' = answered \cup ({j} \cap (Ensure \cup monitored))
  /\ monitored' = monitored \ {j}
  /\ lease' = IF j \in Refresh THEN ActivityEnd(lease) ELSE lease
  /\ UNCHANGED <<queue, gone, submitted, refreshTimer, stale>>

\* source_job_result, or 'DOWN' of a worker that posted none.
HandleResult == worker \in {"posted", "died"} /\ CompleteJob(current)

\* A queued refresh is dropped; one at work goes on.
HandleClientDown(r) ==
  /\ r \in monitored
  /\ r \in gone
  /\ monitored' = monitored \ {r}
  /\ queue' = RemoveFirst(queue, r)
  /\ lease' = ActivityEnd(lease)
  /\ UNCHANGED <<current, worker, nudges, gone, submitted, answered,
                 refreshTimer, stale>>

HasRefreshJob == ({current} \cup Range(queue)) \cap (Refresh \cup Periodic) # {}

\* maybe_enqueue_stale_refresh
MaybeEnqueueStaleRefresh ==
  IF HasRefreshJob \/ ~stale THEN UNCHANGED <<queue, nudges>>
  ELSE \E p \in Periodic \ ({current} \cup Range(queue)) : Enqueue(p)

\* Fault: the timer is armed again only when nothing was stale.
RefreshStaleSourcesOnce ==
  /\ refreshTimer = "fired"
  /\ MaybeEnqueueStaleRefresh
  /\ refreshTimer' = IF stale THEN "off" ELSE "armed"
  /\ UNCHANGED <<current, worker, monitored, gone, submitted, answered, lease, stale>>

\* refresh_stale_sources
RefreshStaleSources ==
  /\ refreshTimer = "fired"
  /\ MaybeEnqueueStaleRefresh
  /\ refreshTimer' = "armed"
  /\ UNCHANGED <<current, worker, monitored, gone, submitted, answered, lease, stale>>

\* The period is an hour; MaxNudges bounds how many messages it may overtake.
RefreshTimerFires ==
  /\ refreshTimer = "armed"
  /\ nudges < MaxNudges
  /\ refreshTimer' = "fired"
  /\ UNCHANGED <<queue, current, worker, nudges, monitored, gone, submitted,
                 answered, lease, stale>>

\* The worker ends; an update may or may not have made everything fresh.
WorkerEnds ==
  /\ worker = "running"
  /\ worker' = "posted"
  /\ stale' \in {stale} \cup (IF current \in Ensure THEN {} ELSE {FALSE})
  /\ UNCHANGED <<queue, current, nudges, monitored, gone, submitted, answered,
                 lease, refreshTimer>>

WorkerDies ==
  /\ worker = "running"
  /\ worker' = "died"
  /\ UNCHANGED <<queue, current, nudges, monitored, gone, submitted, answered,
                 lease, refreshTimer, stale>>

ClientDies(r) ==
  /\ r \notin gone
  /\ gone' = gone \cup {r}
  /\ UNCHANGED <<queue, current, worker, nudges, monitored, submitted, answered,
                 lease, refreshTimer, stale>>

SourcesAge ==
  /\ ~stale
  /\ stale' = TRUE
  /\ UNCHANGED <<queue, current, worker, nudges, monitored, gone, submitted,
                 answered, lease, refreshTimer>>

Next ==
  \/ ProcessQueue \/ HandleResult \/ RefreshStaleSources \/ RefreshTimerFires
  \/ WorkerEnds \/ WorkerDies \/ SourcesAge
  \/ \E e \in Ensure : EnsureCatalog(e)
  \/ \E r \in Refresh : Submit(r) \/ HandleClientDown(r) \/ ClientDies(r)

\* Messages are handled, timers fire, and the downloads of a worker time out.
Fairness ==
  /\ WF_vars(ProcessQueue) /\ WF_vars(HandleResult) /\ WF_vars(RefreshStaleSources)
  /\ WF_vars(RefreshTimerFires) /\ WF_vars(WorkerEnds)
  /\ \A r \in Refresh : WF_vars(HandleClientDown(r))

Spec == Init /\ [][Next]_vars
FairSpec == Spec /\ Fairness

(***************************************************************************)
(* What the service promises.                                              *)
(***************************************************************************)
\* A job that waits and no worker: a process_queue message is on its way.
NoLostNudge == queue # << >> /\ current = NoJob => nudges > 0

\* A job is in one place, once; a refresh that waits has a client, and a client
\* that is monitored has a refresh that waits or is at work.
Placement ==
  /\ IsInjective(queue)
  /\ current \notin Range(queue)
  /\ Range(queue) \cap Refresh \subseteq monitored
  /\ monitored \subseteq Range(queue) \cup {current}

\* Automatic refreshes do not pile up behind a slow one.
OnePeriodic == Cardinality(({current} \cup Range(queue)) \cap Periodic) <= 1

\* Stale sources never stay unnoticed: an update is tried.
StaleNoticed == stale ~> (~stale \/ HasRefreshJob)

\* As documented, queued work prevents idle shutdown: while a client waits for
\* its refresh the service holds a lease.
WaitingRefreshHoldsLease == monitored # {} => lease > 0

=============================================================================
