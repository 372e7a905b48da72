---------------------------- MODULE JobConstants ----------------------------
(***************************************************************************)
(* The parameters of the job services: wfcli_query_service,                *)
(* wfcli_forma_service, wfcli_exports_store and wfcli_source_manager.      *)
(***************************************************************************)
EXTENDS Integers, FiniteSets

CONSTANTS
  Job,         \* submitted queries or plans, each with its client and token
  MaxWorkers,  \* query_workers
  CatalogWorkers, \* values of catalog_workers
  RequestOf,   \* the request of a catalog query; equal ones are grouped
  MaxVersion,  \* bound: changes of the file behind a catalog
  Ensure,      \* ensure_catalog calls of the source manager
  Refresh,     \* submitted refreshes of sources, each with its client
  Periodic,    \* periodic source jobs; one that has ended may come again
  NoJob,       \* undefined
  MaxNudges    \* bound: the periodic timer waits for process_queue messages

SourceJob == Ensure \cup Refresh \cup Periodic

ASSUME QueryAssumption == IsFiniteSet(Job) /\ MaxWorkers \in Nat \ {0}

ASSUME CatalogAssumption ==
  CatalogWorkers \subseteq Nat \ {0} /\ DOMAIN RequestOf = Job /\ MaxVersion \in Nat

ASSUME PlanAssumption == NoJob \notin Job

ASSUME SourceAssumption ==
  /\ IsFiniteSet(SourceJob) /\ NoJob \notin SourceJob /\ MaxNudges \in Nat \ {0}
  /\ Ensure \cap Refresh = {} /\ Ensure \cap Periodic = {} /\ Refresh \cap Periodic = {}

=============================================================================
