---------------------------- MODULE MCJobServices ----------------------------
(***************************************************************************)
(* Small instances of the job services for TLC, and with them of what else *)
(* must come about in the daemon: answers and updates of the worldstate    *)
(* service, and the inventory a companion observes.  The services run side *)
(* by side and share no state, so a behaviour moves only one of them,      *)
(* service: interleaving them would only multiply their states.            *)
(***************************************************************************)
EXTENDS JobConstants, Sequences, TLC

CONSTANTS
  j1, j2, j3, e1, e2, r1, r2, p1, p2, none, listMods, showItem, Services,
  a, w1, k1, c1, c2, t1, t2, o1,
  \* WorldstateService
  Key, OneShot, Watch, KeyOf, Content, NoContent, Timer, NoTimer, Policies,
  \* InventorySync
  Outcome, Faults, MaxFaults, MaxWire, MaxStream, MaxSeq, MaxSync, None

VARIABLES
  service,
  \* of wfcli_query_service
  queue, workers, process, mail, monitored, gone, submitted, replies, lease,
  \* of wfcli_forma_service
  plans, planned, planner, nudges, results, planClients, planClientsGone, asked,
  planReplies, planLease,
  \* of wfcli_exports_store
  groups, groupWorkers, work, reports, cache, maxWorkers, file, searchers,
  searchersGone, searches, since, found, searchLease,
  \* of wfcli_source_manager
  refreshes, refreshed, worker, kicks, refreshClients, refreshClientsGone, called,
  answered, sourceLease, refreshTimer, stale,
  \* of wfcli_worldstate_service
  status, previous, due, seen, reply, served, joined, selfMsg, clientUp, snapshot, outdated,
  expired, fetch, pollTimer, pollArmed, pollMail, idleTimer, idleArmed, idleMail, policy,
  external, castQ, held, ownerUp, vm,
  \* of the companion and the player sources
  game, response, stream, seq, captured, sample, baseline, lastNative, read, outbox, latest,
  queued, conn, replay, wire, oldWire, store, disk, outcomes, faults

queryVars == <<queue, workers, process, mail, monitored, gone, submitted, replies, lease>>
formaVars == <<plans, planned, planner, nudges, results, planClients, planClientsGone,
               asked, planReplies, planLease>>
sourceVars == <<refreshes, refreshed, worker, kicks, refreshClients, refreshClientsGone,
                called, answered, sourceLease, refreshTimer, stale>>
catalogVars == <<groups, groupWorkers, work, reports, cache, maxWorkers, file, searchers,
                 searchersGone, searches, since, found, searchLease>>
jobVars == <<queryVars, formaVars, catalogVars, sourceVars>>
worldstateVars == <<status, previous, due, seen, reply, served, joined, selfMsg, clientUp,
                    snapshot, outdated, expired, fetch, pollTimer, pollArmed, pollMail,
                    idleTimer, idleArmed, idleMail, policy, external, castQ, held, ownerUp,
                    vm>>
syncVars == <<game, response, stream, seq, captured, sample, baseline, lastNative, read,
              outbox, latest, queued, conn, replay, wire, oldWire, store, disk, outcomes,
              faults>>
vars == <<service, jobVars, worldstateVars, syncVars>>

Query == INSTANCE QueryService
Forma == INSTANCE FormaService WITH
  queue <- plans, current <- planned, process <- planner, mail <- results,
  monitored <- planClients, gone <- planClientsGone, submitted <- asked,
  replies <- planReplies, lease <- planLease
Catalog == INSTANCE CatalogStore WITH
  queue <- groups, workers <- groupWorkers, mail <- reports, monitored <- searchers,
  gone <- searchersGone, submitted <- searches, replies <- found, lease <- searchLease
Source == INSTANCE SourceManager WITH
  queue <- refreshes, current <- refreshed, nudges <- kicks,
  monitored <- refreshClients, gone <- refreshClientsGone, submitted <- called,
  lease <- sourceLease

\* No request asks for a refresh, and nobody holds a lease.
Worldstate == INSTANCE WorldstateService WITH
  stale <- outdated, Refresh <- {}, Once <- {}, Always <- {}, Owner <- {}, MaxLease <- 0,
  MaxCasts <- 0
Sync == INSTANCE InventorySync

\* All requests and watches are on one dataset.
KeyOfOne == [r \in OneShot \cup Watch |-> k1]

\* Everything may go wrong but a clear, for which the code gives no bound.
LiveFaults == {"disconnect", "companion", "reload", "decoder", "service", "daemon"}
OneOutcome == {o1}

\* Two of the catalog queries are equal.
EqualPair == (j1 :> listMods) @@ (j2 :> listMods) @@ (j3 :> showItem)

Init ==
  /\ service \in Services
  /\ Query!Init /\ Forma!Init /\ Catalog!Init /\ Source!Init
  /\ Worldstate!Init /\ Sync!Init
  /\ service # "catalog" => maxWorkers = 1
  /\ service # "source" => ~stale

QueryStep ==
  /\ service = "query" /\ Query!Next
  /\ UNCHANGED <<service, formaVars, catalogVars, sourceVars, worldstateVars, syncVars>>
FormaStep ==
  /\ service = "forma" /\ Forma!Next
  /\ UNCHANGED <<service, queryVars, catalogVars, sourceVars, worldstateVars, syncVars>>
CatalogStep ==
  /\ service = "catalog" /\ Catalog!Next
  /\ UNCHANGED <<service, queryVars, formaVars, sourceVars, worldstateVars, syncVars>>
SourceStep ==
  /\ service = "source" /\ Source!Next
  /\ UNCHANGED <<service, queryVars, formaVars, catalogVars, worldstateVars, syncVars>>
WorldstateStep ==
  /\ service = "worldstate" /\ (Worldstate!Next \/ Worldstate!Restart)
  /\ UNCHANGED <<service, jobVars, syncVars>>
SyncStep ==
  /\ service = "sync" /\ Sync!Next
  /\ UNCHANGED <<service, jobVars, worldstateVars>>

Next ==
  QueryStep \/ FormaStep \/ CatalogStep \/ SourceStep \/ WorldstateStep \/ SyncStep

Spec == Init /\ [][Next]_vars

\* The fairness of each service, while it moves: messages in a mailbox are handled, workers
\* and fetches end, timers fire (Fairness of its module), and the threads of the companion
\* and the processes of the daemon keep going (InventorySync!Fairness).  Nothing makes a
\* server restart, or stop doing so.
FairSpec ==
  /\ Spec
  /\ WF_queryVars(service = "query" /\ \E j \in Job :
       Query!HandleResult(j) \/ Query!HandleWorkerDown(j) \/ Query!HandleClientDown(j))
  /\ WF_queryVars(service = "query" /\ \E j \in Job : Query!WorkerEnds(j))
  /\ WF_formaVars(service = "forma" /\
       (\/ Forma!ProcessQueue \/ Forma!HandlePlannerDown
        \/ \E j \in Job : Forma!HandleResult(j) \/ Forma!HandleClientDown(j)))
  /\ WF_formaVars(service = "forma" /\ \E j \in Job : Forma!PlannerEnds(j))
  /\ WF_catalogVars(service = "catalog" /\ \E j \in Job :
       Catalog!HandleResult(j) \/ Catalog!HandleWorkerDown(j) \/ Catalog!HandleClientDown(j))
  /\ WF_catalogVars(service = "catalog" /\ \E j \in Job : Catalog!WorkerStep(j))
  /\ WF_sourceVars(service = "source" /\ Source!ProcessQueue)
  /\ WF_sourceVars(service = "source" /\ Source!HandleResult)
  /\ WF_sourceVars(service = "source" /\ Source!RefreshStaleSources)
  /\ WF_sourceVars(service = "source" /\ Source!RefreshTimerFires)
  /\ WF_sourceVars(service = "source" /\ Source!WorkerEnds)
  /\ \A r \in Refresh : WF_sourceVars(service = "source" /\ Source!HandleClientDown(r))
  /\ \A r \in OneShot \cup Watch :
       /\ WF_worldstateVars(service = "worldstate" /\ Worldstate!HandleSelfMessage(r))
       /\ WF_worldstateVars(service = "worldstate" /\ Worldstate!ClientDown(r))
  /\ \A k \in Key :
       /\ WF_worldstateVars(service = "worldstate" /\ Worldstate!HandleFetchResult(k))
       /\ WF_worldstateVars(service = "worldstate" /\ Worldstate!FetchEnds(k))
  /\ \A t \in Timer :
       /\ WF_worldstateVars(service = "worldstate" /\ Worldstate!Poll(t))
       /\ WF_worldstateVars(service = "worldstate" /\ Worldstate!PollTimerFires(t))
  /\ \A r \in Watch : WF_worldstateVars(service = "worldstate" /\ Worldstate!WatchFallsDue(r))
  /\ WF_syncVars(service = "sync" /\ Sync!Capture)
  /\ WF_syncVars(service = "sync" /\ Sync!NativeRead)
  /\ WF_syncVars(service = "sync" /\ Sync!Accept)
  /\ WF_syncVars(service = "sync" /\ Sync!Native)
  /\ WF_syncVars(service = "sync" /\ Sync!RetainOutbound)
  /\ WF_syncVars(service = "sync" /\ Sync!Connect)
  /\ WF_syncVars(service = "sync" /\ Sync!Send)
  /\ WF_syncVars(service = "sync" /\ Sync!Deliver)
  /\ WF_syncVars(service = "sync" /\ Sync!DaemonCloses)

(***************************************************************************)
(* The properties of the services.  Jobs are interchangeable, so that one  *)
(* of them finishes is shown for j1 and r1.                                *)
(***************************************************************************)
\* Every variable of a service keeps its type.
TypeOK == Query!TypeOK /\ Forma!TypeOK /\ Catalog!TypeOK /\ Source!TypeOK

\* A query, a group of catalog queries or a refresh is in one place, and nothing is
\* there for a client that is gone.
Placement == Query!Placement /\ Catalog!Placement /\ Source!Placement

\* At most so many workers run, none of them for nobody, one planner, and one
\* periodic refresh.
Limits ==
  Query!WorkerLimit /\ Forma!OnePlanner /\ Catalog!WorkerLimit /\ Source!OnePeriodic

\* No query waits for a free worker, and no plan for a lost wakeup.
WorkConserving == Query!WorkConserving /\ Catalog!WorkConserving /\ Forma!NoLostNudge

\* However results, the ends of workers and the ends of clients cross: each job is in one
\* place, within the limits, and none waits beside a free worker (handle_info of
\* wfcli_query_service, wfcli_forma_service, wfcli_exports_store and wfcli_source_manager).
QueuesInOrder == Placement /\ Limits /\ WorkConserving

\* Each query and each plan is finished once, and its lease released with it.
ImplementsJobQueue ==
  Query!ImplementsJobQueue /\ Forma!ImplementsJobQueue /\ Catalog!ImplementsJobQueue

\* Each query, plan and refresh is answered or dropped with its client, each ensure_catalog
\* call, which has no timeout, returns, and stale sources are noticed by
\* wfcli_source_manager.  Each job comes once.
Waiting ==
  \/ j1 \in monitored \cup planClients \cup searchers
  \/ r1 \in refreshClients
  \/ e1 \in called \ answered
Unnoticed == service = "source" /\ stale /\ ~Source!HasRefreshJob
JobsFinish == (Waiting ~> ~Waiting) /\ (Unnoticed ~> ~Unnoticed)

\* wfcli_worldstate_service: a one-shot is answered, given up with its client or forgotten by
\* a restart, and a watch is told the content of its dataset.  inventory.rs, daemon.rs,
\* wfcli_player_store: the daemon comes to show what the game holds once the decoder has the
\* current full inventory.
Due ==
  CASE service = "worldstate" -> Worldstate!Unanswered \/ Worldstate!Behind
    [] service = "sync" -> Sync!Diverged
    [] OTHER -> FALSE
DaemonCatchesUp == Due ~> ~Due

\* wfcli_exports_store: no query is answered with content of the past, and no slow
\* worker brings an old entry back.
CacheTrue == []Catalog!AnswersFresh /\ Catalog!CacheOnlyRenews

\* wfcli_source_manager: a refresh that waits keeps the daemon up, which the code does not
\* keep.
WaitingRefreshHoldsLease == Source!WaitingRefreshHoldsLease

=============================================================================
