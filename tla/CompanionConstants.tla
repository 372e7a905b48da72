------------------------ MODULE CompanionConstants ------------------------
(***************************************************************************)
(* The parameters of the parts of wfcompanion that MCCompanion runs.       *)
(***************************************************************************)
EXTENDS Integers, Sequences, FiniteSets

\* How often x is in the sequence s.
Count(s, x) == Cardinality({i \in DOMAIN s : s[i] = x})

---------------------------------------------------------------------------
(* Observer: the game observer and its collectors                          *)
CONSTANTS
  MaxGame,     \* processes of the game
  DebugItems,  \* records the debug mailbox holds (256)
  MaxFaults    \* what goes wrong, and what the collectors deliver

ASSUME ObserverAssumption == {MaxGame, DebugItems, MaxFaults} \subseteq Nat \ {0}

---------------------------------------------------------------------------
(* OverlaySurface: the surface of the overlay                              *)
CONSTANTS
  Buffers,         \* MAX_SURFACE_BUFFERS
  MaxUiEvents,     \* what the channel to the overlay, the focus and the deadlines bring
  MaxOddities      \* failed frames, and configures nobody asked for

ASSUME OverlayAssumption == {Buffers, MaxUiEvents, MaxOddities} \subseteq Nat \ {0}

---------------------------------------------------------------------------
(* CompanionRuntime: the process                                           *)
CONSTANTS
  MaxBuilds,        \* builds installed
  MaxSignals,       \* SIGTERM and SIGINT sent
  MaxRuntimeFaults, \* starts and validations that fail
  MaxMade           \* what each of the producers publishes

ASSUME RuntimeAssumption ==
  MaxBuilds \in Nat \ {0} /\ {MaxSignals, MaxRuntimeFaults, MaxMade} \subseteq Nat

---------------------------------------------------------------------------
(* DaemonRequests: requests to the daemon                                  *)
CONSTANTS
  Callers,      \* the threads that ask
  MaxMessages,  \* outbox::MAX_MESSAGES
  MaxSessions   \* connections that are tried

\* No thread has the name of a state or an outcome.
ASSUME RequestsAssumption ==
  /\ {MaxMessages, MaxSessions} \subseteq Nat \ {0}
  /\ Callers \cap {"idle", "waits", "stopped", "stopping", "full", "timeout", "closed"} = {}

---------------------------------------------------------------------------
(* CompanionDiagnostics: watches                                           *)
CONSTANTS
  Watchers,     \* requests for a watch
  MaxWatches,   \* watches the companion runs at once (4)
  MaxMishaps    \* what is refused, lost, expires, or closes

ASSUME DiagnosticsAssumption == MaxWatches \in Nat \ {0} /\ MaxMishaps \in Nat

---------------------------------------------------------------------------
(* EvidenceCaptures: recordings of relic screens                           *)
CONSTANTS
  MaxArms,   \* recordings
  MaxGames,  \* runs of the game
  MaxJobs    \* jobs at once, 2 in the code

ASSUME CapturesAssumption == {MaxArms, MaxGames, MaxJobs} \subseteq Nat \ {0}

---------------------------------------------------------------------------
(* ResponseSampler: responses left in memory                               *)
CONSTANTS
  Pieces,        \* pieces of a response
  MaxResponses,  \* the responses of the game are 1, 2, ...
  Inventories,   \* those that are inventories
  Large,         \* those of which the mailbox can hold only one
  MaxSamples,    \* the mailbox holds as many
  MaxAccounts    \* changes of the account

ASSUME SamplerAssumption ==
  /\ {Pieces, MaxResponses} \subseteq Nat \ {0} /\ MaxAccounts \in Nat
  /\ MaxSamples \in Nat /\ MaxSamples >= 4 \* half of it has room for what one poll finds
  /\ Inventories \cup Large \subseteq 1..MaxResponses

=============================================================================
