----------------------------- MODULE MCEvidence -----------------------------
(***************************************************************************)
(* Small instances of what in wfcompanion reads the game and its files,    *)
(* and keeps what it has read.  The parts work on nothing that another     *)
(* one changes, so a behaviour moves only one of them, part.  The others   *)
(* have no state, 0, or stay in the one they begin in: those whose modules *)
(* are extended, of the inventory, the log, snapshots and watches.         *)
(***************************************************************************)
EXTENDS MemoryReads, IncidentLog, ScriptSnapshots, InspectorWatches, TLC

CONSTANTS i1, i2, t1, t2, Parts

VARIABLES
  part,
  \* MemoryScan
  scanned, begins, job, range, at, tail, matches, limited, examined, over,
  \* EvidenceGraph
  captured, depth, missing, cut, roots, searchQueue, blocksVisited, graphStage,
  \* RecordedReads
  recorded, ranges, short, ask, told, readsAsked, manifest, recordingStage,
  \* InspectWalk
  cells, rewrites, target, walkQueue, walkSeen, walked, leftOut, hops, rootsDone, chunks,
  total, partial, walkStage,
  \* GameCatalog
  registry, moves, parent, variants, based, catalogStage, holders, holder, stood, items,
  place, catalog, owned, aliases, groups,
  \* ScreenReading
  asks, screenStep, movies, movie, containers, counted, children, visited, texts, incomplete,
  answer,
  rewardStage, geometry, cards, acrossRead, tried, named, rewards,
  \* ScriptOpcodes, an inference
  inferStage, baseline, shown, known, evidence, atomPairs, faithful, inferred, suggested,
  \* ScriptOpcodes, a chunk
  format, reading, left, bytes, number, words, pc, rewritten, coverage, constants, atoms,
  \* CacheFiles
  options, stage, split, table, directories, files, queue, selected, declared, output,
  block, found, summary

scanVars == <<scanned, begins, job, range, at, tail, matches, limited, examined, over>>
graphVars == <<captured, depth, missing, cut, roots, searchQueue, blocksVisited,
               graphStage>>
recVars == <<recorded, ranges, short, ask, told, readsAsked, manifest, recordingStage>>
walkVars == <<cells, rewrites, target, walkQueue, walkSeen, walked, leftOut, hops, rootsDone,
              chunks, total, partial, walkStage>>
catVars == <<registry, moves, parent, variants, based, catalogStage, holders, holder,
             stood, items, place, catalog, owned, aliases, groups>>
screenVars == <<asks, screenStep, movies, movie, containers, counted, children, visited, texts,
                incomplete, answer>>
rewardVars == <<rewardStage, geometry, cards, acrossRead, tried, named, rewards>>
inferVars == <<inferStage, baseline, shown, known, evidence, atomPairs, faithful,
               inferred, suggested>>
byteVars == <<format, reading, left, bytes, number, words, pc, rewritten, coverage,
              constants, atoms>>
cacheVars == <<options, stage, split, table, directories, files, queue, selected,
               declared, output, block, found, summary>>
vars == <<part, readerVars, scanVars, graphVars, recVars, walkVars, catVars, screenVars,
          rewardVars, logVars, corpusVars, cmpVars, inferVars, byteVars, cacheVars,
          payVars, streamVars>>

Scan == INSTANCE MemoryScan WITH
  text <- scanned
Graph == INSTANCE EvidenceGraph WITH
  stage <- graphStage, queue <- searchQueue, visited <- blocksVisited
Recording == INSTANCE RecordedReads WITH
  memory <- recorded, stage <- recordingStage, asked <- readsAsked
Walk == INSTANCE InspectWalk WITH
  seen <- walkSeen
GameData == INSTANCE GameCatalog WITH
  stage <- catalogStage
Screen == INSTANCE ScreenReading WITH
  step <- screenStep
Opcodes == INSTANCE ScriptOpcodes WITH
  part <- reading, output <- rewritten
Caches == INSTANCE CacheFiles

\* Two ranges, the roots of a capture, and what its walks look for.
TwoRanges == <<6, 3>>
TwoRoots == <<1, 2>>
CollectOrFindThird == {{}, {3}}

\* Bodies of prototypes: two that look alike, one with data, one with variable parameters,
\* one that is too short to compare, and one with children.
Body(code, vararg, leaf) == [code |-> code, vararg |-> vararg, leaf |-> leaf]
Op(op, arg) == [op |-> op, arg |-> arg]
SixBodies ==
  {Body(<<Op("add", 0), Op("add", 0)>>, -1, TRUE), Body(<<Op("sub", 0), Op("add", 0)>>, -1, TRUE),
   Body(<<Op("get", 0)>>, -1, TRUE), Body(<<Op("prep", 0), Op("sub", 1)>>, 0, TRUE),
   Body(<<Op("sub", 0)>>, -1, TRUE), Body(<<Op("add", 0), Op("add", 0)>>, -1, FALSE)}

\* Parts without state.
NoScan == scanned = 0 /\ begins = 0 /\ job = 0 /\ range = 0 /\ at = 0 /\ tail = 0 /\
          matches = 0 /\ limited = 0 /\ examined = 0 /\ over = 0
NoGraph == captured = 0 /\ depth = 0 /\ missing = 0 /\ cut = 0 /\ roots = 0 /\
           searchQueue = 0 /\ blocksVisited = 0 /\ graphStage = 0
NoRecording == recorded = 0 /\ ranges = 0 /\ short = 0 /\ ask = 0 /\ told = 0 /\
               readsAsked = 0 /\ manifest = 0 /\ recordingStage = 0
NoWalk == cells = 0 /\ rewrites = 0 /\ target = 0 /\ walkQueue = 0 /\ walkSeen = 0 /\
          walked = 0 /\ leftOut = 0 /\ hops = 0 /\ rootsDone = 0 /\ chunks = 0 /\
          total = 0 /\ partial = 0 /\ walkStage = 0
NoGameData == registry = 0 /\ moves = 0 /\ parent = 0 /\ variants = 0 /\ based = 0 /\
              catalogStage = 0 /\ holders = 0 /\ holder = 0 /\ stood = 0 /\ items = 0 /\
              place = 0 /\ catalog = 0 /\ owned = 0 /\ aliases = 0 /\ groups = 0
NoScreen == asks = 0 /\ screenStep = 0 /\ movies = 0 /\ movie = 0 /\ containers = 0 /\
            counted = 0 /\ children = 0 /\ visited = 0 /\ texts = 0 /\ incomplete = 0 /\
            answer = 0
NoRewards == rewardStage = 0 /\ geometry = 0 /\ cards = 0 /\ acrossRead = 0 /\
             tried = 0 /\ named = 0 /\ rewards = 0
NoOpcodes == inferStage = 0 /\ baseline = 0 /\ shown = 0 /\ known = 0 /\ evidence = 0 /\
             atomPairs = 0 /\ faithful = 0 /\ inferred = 0 /\ suggested = 0
NoBytecode == format = 0 /\ reading = 0 /\ left = 0 /\ bytes = 0 /\ number = 0 /\
              words = 0 /\ pc = 0 /\ rewritten = 0 /\ coverage = 0 /\ constants = 0 /\
              atoms = 0
NoCaches == options = 0 /\ stage = 0 /\ split = 0 /\ table = 0 /\ directories = 0 /\
            files = 0 /\ queue = 0 /\ selected = 0 /\ declared = 0 /\ output = 0 /\
            block = 0 /\ found = 0 /\ summary = 0
Init ==
  /\ part \in Parts
  /\ LogInit /\ CorpusInit /\ CompareInit /\ PayloadInit /\ StreamInit
  /\ ReadsInit /\ (part # "reads" => reader = "inventory")
  /\ IF part = "scan" THEN Scan!ScanInit ELSE NoScan
  /\ IF part = "graph" THEN Graph!GraphInit ELSE NoGraph
  /\ IF part = "recording" THEN Recording!RecInit ELSE NoRecording
  /\ IF part = "walk" THEN Walk!WalkInit ELSE NoWalk
  /\ IF part = "catalog" THEN GameData!CatalogInit ELSE NoGameData
  /\ IF part = "screen" THEN Screen!ScreenInit ELSE NoScreen
  /\ IF part = "rewards" THEN Screen!RewardInit ELSE NoRewards
  /\ IF part = "infer" THEN Opcodes!InferInit ELSE NoOpcodes
  /\ IF part = "bytecode" THEN Opcodes!BytecodeInit ELSE NoBytecode
  /\ IF part = "cache" THEN Caches!CacheInit ELSE NoCaches

ReadsStep ==
  /\ part = "reads" /\ ReadsNext
  /\ UNCHANGED <<part, scanVars, graphVars, recVars, walkVars, catVars, screenVars,
                 rewardVars, logVars, corpusVars, cmpVars, inferVars, byteVars,
                 cacheVars, payVars, streamVars>>
ScanStep ==
  /\ part = "scan" /\ Scan!ScanNext
  /\ UNCHANGED <<part, readerVars, graphVars, recVars, walkVars, catVars, screenVars,
                 rewardVars, logVars, corpusVars, cmpVars, inferVars, byteVars,
                 cacheVars, payVars, streamVars>>
GraphStep ==
  /\ part = "graph" /\ Graph!GraphNext
  /\ UNCHANGED <<part, readerVars, scanVars, recVars, walkVars, catVars, screenVars,
                 rewardVars, logVars, corpusVars, cmpVars, inferVars, byteVars,
                 cacheVars, payVars, streamVars>>
RecordingStep ==
  /\ part = "recording" /\ Recording!RecNext
  /\ UNCHANGED <<part, readerVars, scanVars, graphVars, walkVars, catVars, screenVars,
                 rewardVars, logVars, corpusVars, cmpVars, inferVars, byteVars,
                 cacheVars, payVars, streamVars>>
WalkStep ==
  /\ part = "walk" /\ Walk!WalkNext
  /\ UNCHANGED <<part, readerVars, scanVars, graphVars, recVars, catVars, screenVars,
                 rewardVars, logVars, corpusVars, cmpVars, inferVars, byteVars,
                 cacheVars, payVars, streamVars>>
GameDataStep ==
  /\ part = "catalog" /\ GameData!CatalogNext
  /\ UNCHANGED <<part, readerVars, scanVars, graphVars, recVars, walkVars, screenVars,
                 rewardVars, logVars, corpusVars, cmpVars, inferVars, byteVars,
                 cacheVars, payVars, streamVars>>
ScreenStep ==
  /\ part = "screen" /\ Screen!ScreenNext
  /\ UNCHANGED <<part, readerVars, scanVars, graphVars, recVars, walkVars, catVars,
                 rewardVars, logVars, corpusVars, cmpVars, inferVars, byteVars,
                 cacheVars, payVars, streamVars>>
RewardsStep ==
  /\ part = "rewards" /\ Screen!RewardNext
  /\ UNCHANGED <<part, readerVars, scanVars, graphVars, recVars, walkVars, catVars,
                 screenVars, logVars, corpusVars, cmpVars, inferVars, byteVars,
                 cacheVars, payVars, streamVars>>
LogStep ==
  /\ part = "log" /\ LogNext
  /\ UNCHANGED <<part, readerVars, scanVars, graphVars, recVars, walkVars, catVars,
                 screenVars, rewardVars, corpusVars, cmpVars, inferVars, byteVars,
                 cacheVars, payVars, streamVars>>
CorpusStep ==
  /\ part = "corpus" /\ CorpusNext
  /\ UNCHANGED <<part, readerVars, scanVars, graphVars, recVars, walkVars, catVars,
                 screenVars, rewardVars, logVars, cmpVars, inferVars, byteVars,
                 cacheVars, payVars, streamVars>>
ScriptsStep ==
  /\ part = "compare" /\ CompareNext
  /\ UNCHANGED <<part, readerVars, scanVars, graphVars, recVars, walkVars, catVars,
                 screenVars, rewardVars, logVars, corpusVars, inferVars, byteVars,
                 cacheVars, payVars, streamVars>>
OpcodesStep ==
  /\ part = "infer" /\ Opcodes!InferNext
  /\ UNCHANGED <<part, readerVars, scanVars, graphVars, recVars, walkVars, catVars,
                 screenVars, rewardVars, logVars, corpusVars, cmpVars, byteVars,
                 cacheVars, payVars, streamVars>>
BytecodeStep ==
  /\ part = "bytecode" /\ Opcodes!BytecodeNext
  /\ UNCHANGED <<part, readerVars, scanVars, graphVars, recVars, walkVars, catVars,
                 screenVars, rewardVars, logVars, corpusVars, cmpVars, inferVars,
                 cacheVars, payVars, streamVars>>
CachesStep ==
  /\ part = "cache" /\ Caches!CacheNext
  /\ UNCHANGED <<part, readerVars, scanVars, graphVars, recVars, walkVars, catVars,
                 screenVars, rewardVars, logVars, corpusVars, cmpVars, inferVars,
                 byteVars, payVars, streamVars>>
SavingStep ==
  /\ part = "payloads" /\ PayloadNext
  /\ UNCHANGED <<part, readerVars, scanVars, graphVars, recVars, walkVars, catVars,
                 screenVars, rewardVars, logVars, corpusVars, cmpVars, inferVars,
                 byteVars, cacheVars, streamVars>>
StreamStep ==
  /\ part = "stream" /\ StreamNext
  /\ UNCHANGED <<part, readerVars, scanVars, graphVars, recVars, walkVars, catVars,
                 screenVars, rewardVars, logVars, corpusVars, cmpVars, inferVars,
                 byteVars, cacheVars, payVars>>

Next ==
  \/ ReadsStep \/ ScanStep \/ GraphStep \/ RecordingStep \/ WalkStep
  \/ GameDataStep \/ ScreenStep \/ RewardsStep \/ LogStep \/ CorpusStep
  \/ ScriptsStep \/ OpcodesStep \/ BytecodeStep \/ CachesStep \/ SavingStep \/ StreamStep

Spec == Init /\ [][Next]_vars

(***************************************************************************)
(* What the parts promise; for those that are extended see OneMoment,      *)
(* LogAccounts, SnapshotsStand, BuildsOnIntact and OutputsStand in their   *)
(* modules.                                                                *)
(***************************************************************************)
\* Every variable of a part keeps its type, and every bound is kept.
TypeOK ==
  CASE part = "reads" -> ReadsTypeOK
    [] part = "scan" -> Scan!ScanTypeOK
    [] part = "graph" -> Graph!GraphTypeOK
    [] part = "recording" -> Recording!RecTypeOK
    [] part = "walk" -> Walk!WalkTypeOK
    [] part = "catalog" -> GameData!CatalogTypeOK
    [] part = "screen" -> Screen!ScreenTypeOK
    [] part = "rewards" -> Screen!RewardTypeOK
    [] part = "log" -> LogTypeOK
    [] part = "corpus" -> CorpusTypeOK
    [] part = "compare" -> CompareTypeOK
    [] part = "infer" -> Opcodes!InferTypeOK
    [] part = "bytecode" -> Opcodes!BytecodeTypeOK
    [] part = "cache" -> Caches!CacheTypeOK
    [] part = "payloads" -> PayloadTypeOK
    [] part = "stream" -> StreamTypeOK

\* game_observer/ui/text.rs, observation/ui_capture.rs, inspect/cache.rs,
\* inspect/luau/tracking.rs: a search that does not call itself incomplete has found every
\* occurrence, every block its depth reaches, every match of the resources it read,
\* whatever border a window, a limit or a compressed block put there; and comparing two
\* snapshots finds every script that changed, or that depends on one that did.
SearchesMissNothing ==
  CASE part = "scan" -> Scan!NothingMissed
    [] part = "graph" -> Graph!GraphClosed
    [] part = "cache" -> Caches!CacheIsSearched
    [] part = "compare" -> ChangesAreFound
    [] OTHER -> TRUE

\* game_observer/memory/recording.rs, inspect/query.rs, inspect/capture.rs: a recording
\* replays what the reader of a screen was told; the way an inspection names leads through
\* what it read; and a capture holds what was read, within its limit, or says it does not.
CapturesReplay ==
  CASE part = "recording" -> Recording!ReplaysWhatWasRead
    [] part = "walk" -> Walk!WayLeads /\ Walk!CaptureStands
    [] OTHER -> TRUE

\* game_observer/metadata.rs, game_observer/ui, relic.rs, inspect/luau.rs,
\* inspect/luau/infer.rs: a catalog names what the game's objects mean, from a registry that
\* did not change; the text taken for a screen is of that one screen, each object once; of
\* the layouts that are read for rewards the one that names most cards is shown; the opcodes
\* inferred for a new version stand for the operations they are taken for; and a script that
\* is rewritten differs in its opcodes only.
MeaningKept ==
  CASE part = "catalog" -> GameData!CatalogMeansIt
    [] part = "screen" -> Screen!AnswerIsOfOneScreen
    [] part = "rewards" -> Screen!NamesMostCards
    [] part = "infer" -> Opcodes!InferredIsTrue
    [] part = "bytecode" -> Opcodes!RewrittenIsTheSame
    [] OTHER -> TRUE

=============================================================================
