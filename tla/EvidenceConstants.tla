------------------------ MODULE EvidenceConstants ------------------------
(***************************************************************************)
(* The parameters of the readers and inspectors of wfcompanion that        *)
(* MCEvidence runs.                                                        *)
(***************************************************************************)
EXTENDS Integers, Sequences, FiniteSets

---------------------------------------------------------------------------
(* MemoryReads: the inventory and the account                              *)
CONSTANTS
  MaxChanges,  \* what the game changes
  MaxReads     \* how often the readers read

ASSUME ReadsAssumption == {MaxChanges, MaxReads} \subseteq Nat \ {0}

---------------------------------------------------------------------------
(* MemoryScan: searches of memory                                          *)
CONSTANTS Chunk,       \* the cells asked for by one read
          Cell,        \* the cells of a pointer; reads fall short by pages
          ScanLengths, \* the cells of each range
          MatchLimit,  \* the matches a scan keeps
          ByteBudget   \* the cells a query may examine

ASSUME ScanAssumption ==
    /\ Cell \in Nat \ {0} /\ Chunk \in Nat \ {0} /\ Chunk % Cell = 0
    /\ ScanLengths \in Seq(Nat) /\ MatchLimit \in Nat \ {0} /\ ByteBudget \in Nat

---------------------------------------------------------------------------
(* EvidenceGraph: the blocks around a screen                               *)
CONSTANTS BlockCount,  \* the blocks pointers can name, in address order
          RootCount,   \* the first of them are roots
          MaxDepth, MaxBlocks, MaxBlocksPerRoot, MaxChildBlocks

ASSUME GraphAssumption ==
    /\ BlockCount \in Nat \ {0} /\ RootCount \in 1..BlockCount /\ MaxDepth \in Nat
    /\ MaxBlocks \in Nat \ {0} /\ MaxBlocksPerRoot \in Nat \ {0} /\ MaxChildBlocks \in Nat \ {0}

---------------------------------------------------------------------------
(* RecordedReads: what a reader of a screen was told                       *)
CONSTANTS RecordedCells, \* the addresses are 1..RecordedCells
          Border,        \* the first address of the second mapping
          MaxBytes,      \* the recording's limit in cells
          MaxRanges,     \* and in ranges
          MaxFragments,  \* the blocks of a manifest
          MaxAsked       \* reads of the screen's reader

ASSUME RecordingAssumption ==
    /\ RecordedCells \in Nat \ {0} /\ Border \in 1..(RecordedCells + 1) /\ MaxBytes \in Nat
    /\ MaxRanges \in Nat /\ MaxFragments \in Nat /\ MaxAsked \in Nat

---------------------------------------------------------------------------
(* InspectWalk: walks of an inspection                                     *)
CONSTANTS Places,      \* the selected readable addresses are 1..Places
          BlockSize,
          WalkDepth, MaxWalkBlocks,
          WalkRoots,   \* the roots of the capture, a sequence
          Targets,     \* what is looked for: {} when the walks collect
          MaxKept,     \* the capture's limit
          MaxRewrites  \* the cells the game rewrites meanwhile

ASSUME WalkAssumption ==
    /\ Places \in Nat \ {0} /\ BlockSize \in Nat \ {0} /\ WalkDepth \in Nat
    /\ MaxWalkBlocks \in Nat \ {0} /\ MaxKept \in Nat
    /\ MaxRewrites \in Nat /\ Targets \subseteq SUBSET (1..Places)
    /\ WalkRoots \in Seq(1..Places) /\ Len(WalkRoots) > 0

---------------------------------------------------------------------------
(* GameCatalog: what the game can have                                     *)
CONSTANTS Objects,     \* objects are 1..Objects
          Resources,   \* resources are 1..Resources; 1 is LotusWeapon, 2 PlayerPowerSuit
          MaxItems,    \* items of the store
          MinPool,     \* the items a pool must have: 3
          MaxHops,     \* pointers followed from a field of the rules: 2
          MaxMoves     \* changes of the registry

ASSUME CatalogAssumption ==
    /\ Objects \in Nat \ {0} /\ Resources \in Nat /\ Resources >= 2
    /\ MaxItems \in Nat /\ MinPool \in Nat /\ MaxHops \in Nat /\ MaxMoves \in Nat

---------------------------------------------------------------------------
(* ScreenReading: the text on a screen                                     *)
CONSTANTS MaxMovies,     \* entries of the registry
          MaxContainers, \* containers of a movie
          Shapes,        \* addresses of children
          MaxChildren,   \* MAX_CHILD_OBJECTS
          MaxNames       \* rewards: 4

ASSUME ScreenAssumption ==
    /\ MaxMovies \in Nat /\ MaxContainers \in Nat /\ MaxChildren \in Nat /\ MaxNames \in Nat \ {0}
    /\ IsFiniteSet(Shapes)

---------------------------------------------------------------------------
(* IncidentLog: the log                                                    *)
CONSTANTS Threads,      \* the threads that report
          MaxRecords,   \* records of each
          LogItems,     \* MAX_PENDING
          LogInfoItems, \* MAX_PENDING_INFO
          RecentItems   \* MAX_RECENT

ASSUME LogAssumption ==
    /\ IsFiniteSet(Threads) /\ MaxRecords \in Nat
    /\ LogInfoItems \in Nat \ {0} /\ LogItems \in Nat /\ LogItems >= LogInfoItems
    /\ RecentItems \in Nat \ {0}

---------------------------------------------------------------------------
(* ScriptSnapshots: snapshots of scripts                                   *)
CONSTANTS Inspectors,    \* processes
          SnapshotNames, \* names for snapshots
          MaxVersion,    \* versions of the game
          MaxTroubles    \* kills, damages, and what cannot be read or written

ASSUME CorpusAssumption ==
    IsFiniteSet(Inspectors) /\ MaxVersion \in Nat \ {0} /\ MaxTroubles \in Nat

---------------------------------------------------------------------------
(* ScriptSnapshots: comparisons of snapshots                               *)
CONSTANTS Paths,         \* of scripts
          Lost,          \* a path that no snapshot has
          MaxPrototypes  \* of the two scripts together

ASSUME CompareAssumption == IsFiniteSet(Paths) /\ Lost \notin Paths /\ MaxPrototypes \in Nat

---------------------------------------------------------------------------
(* ScriptOpcodes: the scripts themselves                                   *)
CONSTANTS GroupValues, \* 128
          Groups,      \* 10
          ChunkBytes,  \* bytes of the chunk
          MaxConstants

ASSUME BytecodeAssumption ==
    /\ GroupValues \in Nat /\ GroupValues >= 2 /\ Groups \in Nat \ {0}
    /\ ChunkBytes \in Nat /\ MaxConstants \in Nat

---------------------------------------------------------------------------
(* ScriptOpcodes: what opcodes mean                                        *)
CONSTANTS ScriptBodies, \* bodies of prototypes: [code, vararg, leaf]
          MinWords, \* of a body that is compared: 8
          MaxBodies \* of a script

ASSUME InferenceAssumption ==
  IsFiniteSet(ScriptBodies) /\ MinWords \in Nat \ {0} /\ MaxBodies \in Nat

---------------------------------------------------------------------------
(* ScreenReading: names of rewards in a photograph                         *)
CONSTANTS MaxPlayers \* of a mission, each with a reward: 4

ASSUME RewardAssumption == MaxPlayers \in 1..4

---------------------------------------------------------------------------
(* CacheFiles: the packages of the game                                    *)
CONSTANTS MaxRows,          \* rows of the tables of a package
          MaxSize,          \* bytes of a resource
          MaxResourceBytes, \* SearchOptions
          MaxMatches

ASSUME CacheAssumption ==
    /\ MaxRows \in Nat /\ MaxSize \in Nat \ {0}
    /\ MaxResourceBytes \in Nat \ {0} /\ MaxMatches \in Nat \ {0}

---------------------------------------------------------------------------
(* InspectorWatches: payloads that are saved                               *)
CONSTANTS Watches,     \* processes
          Payloads,
          WatchLimit,  \* events of a watch
          MaxFailures  \* kills and failed writes

ASSUME PayloadAssumption ==
    IsFiniteSet(Watches) /\ IsFiniteSet(Payloads) /\ WatchLimit \in Nat \ {0} /\ MaxFailures \in Nat

---------------------------------------------------------------------------
(* InspectorWatches: subscriptions                                         *)
CONSTANTS EventLimit,  \* events asked for
          MaxSent      \* events the daemon sends

ASSUME StreamAssumption == EventLimit \in Nat \ {0} /\ MaxSent \in Nat

=============================================================================
