------------------------------ MODULE Observer ------------------------------
(***************************************************************************)
(* The observer thread of wfcompanion (observer.rs): it looks for the      *)
(* game, opens a session per process (runtime/session.rs), keeps three     *)
(* collectors running in it and passes on what they deliver.  Collectors   *)
(* are threads of their own: they deliver and fail at any time, and stop   *)
(* when they are dropped, which waits for them.                            *)
(*                                                                         *)
(* Processes of the game are numbered.  Their pids may be equal, so events *)
(* and collectors, which bear a pid only, are told apart here by the       *)
(* generation of the session they were started in.                         *)
(***************************************************************************)
EXTENDS CompanionConstants, Naturals, Sequences, FiniteSets

VARIABLES
  played,      \* the process that runs, or 0, and how many there were
  session,     \* the session: [gen, game, retired]; gen = 0: there is none
  streams,     \* sessions so far
  bridge,      \* per collector: the session it was started in, or 0
  runs,        \* per collector: is_running
  delayed,     \* per collector: its next attempt is put off
  reads,       \* the reader of the debug collector has not seen the end of its input
  mailbox,     \* debug records, oldest first
  lost,        \* records were dropped since the observer last looked
  decoded,     \* per other collector: the session of the event that waits, or 0
  console,     \* a console of the game opened a moment ago
  checkpoint,  \* the process whose inventory stream is kept for a collector, or 0
  relic,       \* the last trigger for the coordinator
  heard,       \* the session the coordinator has had triggers of since it was told of an end
  missed,      \* records are gone and the coordinator does not know
  report,      \* the collector report published last
  observing,   \* where the loop is
  stop,        \* the flag all threads watch
  faults       \* counts towards MaxFaults

outputVars == <<relic, heard, missed>>
bridgeVars == <<bridge, runs, delayed, reads, mailbox>>
observerVars == <<played, session, streams, bridgeVars, lost, decoded, console, checkpoint,
                  outputVars, report, observing, stop, faults>>

Collectors == {"debug", "inventory", "metadata"}
Decoded == Collectors \ {"debug"}
NoSession == [gen |-> 0, game |-> 0, retired |-> FALSE]

Fault == faults < MaxFaults /\ faults' = faults + 1

Report(open, s) == [active |-> {c \in Collectors : open[c] # 0}, session |-> s.gen]

\* What the observer sends to the coordinator.
Ending == {"GameStopped", "IntakeGap"}
TellCoordinator(type) ==
  /\ relic' = [type |-> type, gen |-> session.gen]
  /\ heard' = IF type \in Ending THEN 0 ELSE session.gen
  /\ missed' = (missed /\ type \notin Ending)
TellNothing == relic' = [type |-> "none", gen |-> 0] /\ UNCHANGED <<heard, missed>>

(***************************************************************************)
(* The debug mailbox.                                                      *)
(***************************************************************************)
Record(type, gen) == [type |-> type, gen |-> gen]

\* Mailbox::send: the oldest record makes room.
Posted(box, r) == Append(IF Len(box) < DebugItems THEN box ELSE Tail(box), r)

\* A debug collector that is dropped kills its helper and waits for its reader, which
\* sees the end of its input and says so.
Farewell(box) == IF reads THEN Posted(box, Record("Stopped", bridge["debug"])) ELSE box

(***************************************************************************)
(* The loop.                                                               *)
(***************************************************************************)
\* Sessions::update and replace, for the process found; 0: none, or one whose identity
\* could not be read.
RenewedByPid(found) ==
  IF found # 0 /\ session.gen # 0
    THEN session
    ELSE IF found = 0 THEN NoSession
    ELSE [gen |-> streams + 1, game |-> found, retired |-> FALSE]

Renewed(found) ==
  IF found # 0 /\ session.gen # 0 /\ session.game = found /\ ~session.retired
    THEN session
    ELSE IF found = 0 THEN NoSession
    ELSE [gen |-> streams + 1, game |-> found, retired |-> FALSE]

\* find_warframe: the game, unless its process cannot be read.
Found == {0, played.now}

DrainedFirst == Farewell(<<>>)

\* The collectors of the last session are joined, then their queues are emptied.
Drained == <<>>

OverAtExit(next) == session.gen # 0 /\ next.gen = 0

\* Whether the coordinator is told that the game has stopped.
Over(next) == session.gen # 0

\* The search for the game, and the change of session.
Scan ==
  /\ observing = "scan" /\ ~stop
  /\ \E found \in Found :
       LET next == Renewed(found)
       IN  /\ IF found = played.now THEN UNCHANGED faults ELSE Fault
           /\ session' = next
           /\ streams' = streams + (IF next.gen > streams THEN 1 ELSE 0)
           /\ IF next # session
                THEN /\ bridge' = [c \in Collectors |-> 0]
                     /\ runs' = [c \in Collectors |-> FALSE]
                     /\ delayed' = [c \in Collectors |-> FALSE]
                     /\ reads' = FALSE
                     /\ mailbox' = Drained
                     /\ decoded' = [c \in Decoded |-> 0]
                     /\ lost' = FALSE /\ console' = FALSE
                     /\ report' = Report(bridge', next)
                     /\ IF Over(next) THEN TellCoordinator("GameStopped") ELSE TellNothing
                ELSE /\ TellNothing
                     /\ UNCHANGED <<bridgeVars, decoded, lost, console, report>>
  /\ observing' = "collect"
  /\ UNCHANGED <<played, checkpoint, stop>>

Kept(c) == bridge[c] # 0 /\ runs[c]

DiscardedFirst(ok) == 0

\* The stream that is kept: an attempt in another process discards it, a start takes it.
Discarded(ok) == IF checkpoint # session.game \/ ok THEN 0 ELSE checkpoint

\* The next attempt of a collector that could not be started, except of the metadata.
Delayed(tried, ok) ==
  [c \in Collectors |-> IF c \in tried THEN c \notin ok /\ c # "metadata" ELSE delayed[c]]

\* The collectors that no longer run are dropped, and the missing ones are started.  That
\* of the inventory checks the session first.
Collect ==
  /\ observing = "collect"
  /\ LET tried == {c \in Collectors : session.gen # 0 /\ ~Kept(c) /\ ~delayed[c]}
         over == session.game # played.now
     IN  \E ok \in SUBSET tried :
           /\ IF ok = tried \ (IF over THEN {"inventory"} ELSE {}) THEN UNCHANGED faults ELSE Fault
           /\ over => "inventory" \notin ok
           /\ session' = [session EXCEPT !.retired = @ \/ (over /\ "inventory" \in tried)]
           /\ bridge' = [c \in Collectors |->
                IF c \in ok THEN session.gen ELSE IF Kept(c) THEN bridge[c] ELSE 0]
           /\ runs' = [c \in Collectors |-> c \in ok \/ Kept(c)]
           /\ delayed' = Delayed(tried, ok)
           /\ reads' = ("debug" \in ok \/ (Kept("debug") /\ reads))
           /\ mailbox' = IF Kept("debug") THEN mailbox ELSE Farewell(mailbox)
           /\ checkpoint' = IF "inventory" \in tried THEN Discarded("inventory" \in ok) ELSE checkpoint
           /\ report' = Report(bridge', session)
  /\ observing' = "drain"
  /\ TellNothing
  /\ UNCHANGED <<played, streams, lost, decoded, console, stop>>

LostSilently == FALSE
LossTold == lost

\* handle_inventory_event, handle_metadata_event: what was delivered is published if the
\* collector is open, and gone in any case.
InventoryTaken(events) == [events EXCEPT !["inventory"] = 0]
MetadataTaken(events) == [events EXCEPT !["metadata"] = 0]

\* What the memory collectors delivered is taken, and the coordinator learns that records
\* were dropped.
DrainQueues ==
  /\ observing = "drain"
  /\ decoded' = MetadataTaken(InventoryTaken(decoded))
  /\ IF LossTold THEN TellCoordinator("IntakeGap") ELSE TellNothing
  /\ lost' = FALSE
  /\ observing' = "receive"
  /\ UNCHANGED <<played, session, streams, bridgeVars, console, checkpoint, report, stop, faults>>

ClosedQuietly(open) == report
Closed(open) == Report(open, session)

\* handle_debug_event: one record, or none before the next look.  A record counts if a
\* collector is open, which may be a later one than the record's.
Receive ==
  /\ observing = "receive"
  /\ observing' \in {"scan", "drain"}
  /\ UNCHANGED <<played, session, streams, lost, decoded, checkpoint, stop, faults>>
  /\ IF mailbox = <<>>
       THEN TellNothing /\ UNCHANGED <<bridgeVars, console, report>>
       ELSE LET r == Head(mailbox)
                heeded == bridge["debug"] # 0
            IN  /\ CASE heeded /\ r.type \in {"Rewards", "Close"} -> TellCoordinator(r.type)
                     [] heeded /\ r.type = "Suggestions" /\ ~console -> TellCoordinator(r.type)
                     [] OTHER -> TellNothing
                /\ console' = (console \/ (heeded /\ r.type = "Console"))
                /\ IF heeded /\ r.type = "Stopped"
                     THEN /\ bridge' = [bridge EXCEPT !["debug"] = 0]
                          /\ runs' = [runs EXCEPT !["debug"] = FALSE]
                          /\ delayed' = [delayed EXCEPT !["debug"] = TRUE]
                          /\ mailbox' = Farewell(Tail(mailbox)) /\ reads' = FALSE
                          /\ report' = Closed(bridge')
                     ELSE /\ mailbox' = Tail(mailbox)
                          /\ UNCHANGED <<bridge, runs, delayed, reads, report>>

\* The end: the collectors are stopped, what they delivered is published, and the stream
\* of the inventory is returned for the next companion.
ObserverEnds ==
  /\ stop /\ observing \in {"scan", "drain"}
  /\ observing' = "ended"
  /\ checkpoint' = IF bridge["inventory"] # 0 /\ ~session.retired /\ session.game = played.now
                     THEN session.game ELSE checkpoint
  /\ bridge' = [c \in Collectors |-> 0]
  /\ runs' = [c \in Collectors |-> FALSE]
  /\ delayed' = [c \in Collectors |-> FALSE]
  /\ reads' = FALSE /\ mailbox' = <<>>
  /\ decoded' = [c \in Decoded |-> 0]
  /\ session' = NoSession
  /\ report' = [Report(bridge', session) EXCEPT !.session = session.gen]
  /\ TellNothing
  /\ UNCHANGED <<played, streams, lost, console, stop, faults>>

(***************************************************************************)
(* The collectors, the game and time.                                      *)
(***************************************************************************)
loopVars == <<relic, heard, report, observing, stop, checkpoint, streams>>

\* A record of the game, from the helper.
Speaks(type) ==
  /\ reads /\ runs["debug"] /\ played.now # 0 /\ Fault
  /\ mailbox' = Posted(mailbox, Record(type, bridge["debug"]))
  /\ lost' = (lost \/ Len(mailbox) = DebugItems)
  /\ missed' = (missed \/ Len(mailbox) = DebugItems)
  /\ UNCHANGED <<played, session, bridge, runs, delayed, reads, decoded, console, loopVars>>

\* An event of another collector replaces the one that waits.
Deliver(c) ==
  /\ runs[c] /\ ~session.retired /\ Fault
  /\ decoded' = [decoded EXCEPT ![c] = bridge[c]]
  /\ UNCHANGED <<played, session, bridgeVars, lost, console, missed, loopVars>>

\* A collector fails, or its helper exits.
CollectorFails(c) ==
  /\ runs[c] /\ Fault
  /\ runs' = [runs EXCEPT ![c] = FALSE]
  /\ UNCHANGED <<played, session, bridge, delayed, reads, mailbox, lost, decoded, console, missed, loopVars>>

\* The reader sees the end of its input.
EndOfInput ==
  /\ reads /\ ~runs["debug"]
  /\ reads' = FALSE
  /\ mailbox' = Posted(mailbox, Record("Stopped", bridge["debug"]))
  /\ lost' = (lost \/ Len(mailbox) = DebugItems)
  /\ missed' = (missed \/ Len(mailbox) = DebugItems)
  /\ UNCHANGED <<played, session, bridge, runs, delayed, decoded, console, faults, loopVars>>

\* Session::check, by a collector or a worker: the process has gone, or cannot be read.
Check ==
  /\ session.gen # 0 /\ ~session.retired
  /\ IF session.game = played.now THEN Fault ELSE UNCHANGED faults
  /\ session' = [session EXCEPT !.retired = TRUE]
  /\ UNCHANGED <<played, bridgeVars, lost, decoded, console, missed, loopVars>>

\* 10 s, in which the loop takes what was in the mailbox.
DelayEnds(c) ==
  /\ delayed[c] /\ \A i \in DOMAIN mailbox : mailbox[i].type # "Stopped"
  /\ delayed' = [delayed EXCEPT ![c] = FALSE]
  /\ UNCHANGED <<played, session, bridge, runs, reads, mailbox, lost, decoded, console, missed, faults, loopVars>>

ConsoleCloses ==
  /\ console /\ console' = FALSE
  /\ UNCHANGED <<played, session, bridgeVars, lost, decoded, missed, faults, loopVars>>

GameChanges ==
  /\ \/ played.now = 0 /\ played.count < MaxGame
        /\ played' = [now |-> played.count + 1, count |-> played.count + 1]
     \/ played.now # 0 /\ played' = [played EXCEPT !.now = 0]
  /\ UNCHANGED <<session, bridgeVars, lost, decoded, console, missed, faults, loopVars>>

StopObserver ==
  /\ ~stop /\ stop' = TRUE
  /\ UNCHANGED <<played, session, streams, bridgeVars, lost, decoded, console, checkpoint,
                 outputVars, report, observing, faults>>

Records == {"Rewards", "Suggestions", "Close", "Console"}

ObserverInit ==
  /\ played \in {[now |-> 0, count |-> 0], [now |-> 1, count |-> 1]}
  /\ session = NoSession /\ streams = 0
  /\ bridge = [c \in Collectors |-> 0]
  /\ runs = [c \in Collectors |-> FALSE]
  /\ delayed = [c \in Collectors |-> FALSE]
  /\ reads = FALSE /\ mailbox = <<>> /\ lost = FALSE
  /\ decoded = [c \in Decoded |-> 0]
  /\ console = FALSE
  /\ checkpoint \in {0, played.now}
  /\ relic = [type |-> "none", gen |-> 0] /\ heard = 0 /\ missed = FALSE
  /\ report = Report(bridge, session)
  /\ observing = "scan" /\ stop = FALSE /\ faults = 0

Loop == Scan \/ Collect \/ DrainQueues \/ Receive \/ ObserverEnds

ObserverNext ==
  \/ Loop
  \/ \E type \in Records : Speaks(type)
  \/ \E c \in Decoded : Deliver(c)
  \/ \E c \in Collectors : CollectorFails(c) \/ DelayEnds(c)
  \/ EndOfInput \/ Check \/ ConsoleCloses \/ GameChanges \/ StopObserver

\* The thread runs and looks for the game every 2 s, readers see the end of their input,
\* and time passes.
ObserverFairness ==
  /\ WF_observerVars(Loop) /\ SF_observerVars(Receive /\ observing' = "scan")
  /\ WF_observerVars(EndOfInput)
  /\ \A c \in Collectors : WF_observerVars(DelayEnds(c))

ObserverSpec == ObserverInit /\ [][ObserverNext]_observerVars /\ ObserverFairness

(***************************************************************************)
(* Properties.                                                             *)
(***************************************************************************)
Gens == 0..streams

\* Every variable keeps its type.
ObserverTypeOK ==
  /\ played \in [now : 0..MaxGame, count : 0..MaxGame]
  /\ session \in [gen : Gens, game : 0..MaxGame, retired : BOOLEAN]
  /\ bridge \in [Collectors -> Gens] /\ runs \in [Collectors -> BOOLEAN]
  /\ delayed \in [Collectors -> BOOLEAN] /\ {reads, lost, console, missed, stop} \subseteq BOOLEAN
  /\ Len(mailbox) <= DebugItems
  /\ \A i \in DOMAIN mailbox : mailbox[i] \in [type : Records \cup {"Stopped"}, gen : Gens]
  /\ decoded \in [Decoded -> Gens] /\ checkpoint \in 0..MaxGame
  /\ relic.gen \in Gens /\ heard \in Gens
  /\ report \in [active : SUBSET Collectors, session : Gens]
  /\ observing \in {"scan", "collect", "drain", "receive", "ended"}

\* What waits for the observer comes from collectors of the session it holds, whatever
\* pids are equal: the collectors of the session before have been joined and their
\* queues emptied.  An event of a game that has ended cannot act on the next one.
FreshEvents ==
  /\ \A i \in DOMAIN mailbox : mailbox[i].gen = session.gen
  /\ \A c \in Decoded : decoded[c] \in {0, session.gen}
  /\ \A c \in Collectors : bridge[c] \in {0, session.gen}

\* The coordinator hears the end of one game before anything of the next.
OneGameAtATime ==
  relic'.type \in Records => heard \in {0, relic'.gen}

\* When the loop waits, the report published last names the collectors that are open.
ReportIsTrue ==
  observing \in {"drain", "receive"} =>
    report = [active |-> {c \in Collectors : bridge[c] # 0}, session |-> session.gen]

\* The stream the last companion left is not given up while its process runs, unless a
\* collector has taken it over.
StreamKept ==
  checkpoint # 0 /\ checkpoint' # checkpoint =>
    bridge'["inventory"] # 0 \/ checkpoint # session.game

\* Both, in every state: what waits is of the present game, and the report is true.
ObserverTrue == FreshEvents /\ ReportIsTrue

\* What a step may never do: tell of the next game before the end of this one, or give up
\* the stream of a process that runs.
StreamsKept == [][OneGameAtATime /\ StreamKept]_observerVars

\* docs/developer/companion.md:87: dropped records invalidate the context of the scenes.
GapToTell == missed /\ ~stop

\* The collectors of a game that goes on running come back, whatever ended them.
CollectorsBack ==
  \/ stop \/ played.now = 0
  \/ session.game = played.now /\ \A c \in Collectors : bridge[c] # 0 /\ runs[c]
=============================================================================
