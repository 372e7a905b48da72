------------------------------ MODULE JobQueue ------------------------------
(***************************************************************************)
(* What a job service of the daemon promises for the requests it accepts,  *)
(* whatever its queue and its workers look like: each accepted job is      *)
(* finished once, by a reply to its client or by being dropped when the    *)
(* client is gone, and holds exactly one activity lease until then.        *)
(* wfcli_query_service, wfcli_forma_service, wfcli_exports_store and       *)
(* wfcli_source_manager are meant to implement it.                         *)
(***************************************************************************)
EXTENDS Integers, FiniteSets

CONSTANT Job

VARIABLES
  job,    \* "new", "accepted", "answered" or "dropped"
  lease   \* activity_start calls not yet matched by an activity_end

jobVars == <<job, lease>>

JobType ==
  /\ job \in [Job -> {"new", "accepted", "answered", "dropped"}]
  /\ lease \in Nat

JobInit == job = [j \in Job |-> "new"] /\ lease = 0

Accept(j) ==
  /\ job[j] = "new"
  /\ job' = [job EXCEPT ![j] = "accepted"]
  /\ lease' = lease + 1

\* Equal requests may be answered together.
Answer(S) ==
  /\ \A j \in S : job[j] = "accepted"
  /\ job' = [j \in Job |-> IF j \in S THEN "answered" ELSE job[j]]
  /\ lease' = lease - Cardinality(S)

Drop(j) ==
  /\ job[j] = "accepted"
  /\ job' = [job EXCEPT ![j] = "dropped"]
  /\ lease' = lease - 1

JobNext ==
  \/ \E j \in Job : Accept(j) \/ Drop(j)
  \/ \E S \in SUBSET Job : Answer(S)

JobSpec == JobInit /\ [][JobNext]_jobVars

\* The daemon is kept up by exactly the jobs that are not finished: what every
\* implementation inherits.
LeasePerJob == lease = Cardinality({j \in Job : job[j] = "accepted"})

=============================================================================
