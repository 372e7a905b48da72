---------------------------- MODULE InventorySync ----------------------------
(***************************************************************************)
(* The player's inventory on its way from the game through wfcompanion to  *)
(* wfdaemon: the decoder of the companion, its outbox and its replay of    *)
(* the latest publications, the daemon's connections, and the daemon's     *)
(* store and cache file.  Connections break, and the companion, the daemon *)
(* or its player service restart, at any point.                            *)
(***************************************************************************)
EXTENDS Integers, Sequences, SequencesExt

-----------------------------------------------------------------------------
(***************************************************************************)
(* wfcli_player_inventory: how the daemon combines the full inventory the  *)
(* game received over HTTP with later reads of the game's memory.          *)
(*                                                                         *)
(* An observation carries the stamp of the companion that made it: the     *)
(* stream (one for each start of the companion in a game, ordered in time),*)
(* its sequence number, the sequence number of the full inventory it       *)
(* builds on, when it was made, and the game's LastInventorySync.  What it *)
(* contains is a version of the player's inventory.                        *)
(***************************************************************************)
CONSTANTS
  MaxStream,   \* bound: streams
  MaxSeq,      \* bound: observations of a stream
  MaxSync,     \* bound: full inventories sent by the game's server
  MaxVersion,  \* bound: changes of the inventory
  None         \* nothing observed

Observation ==
  [kind : {"http", "native"}, stream : 1..MaxStream, seq : 1..MaxSeq,
   base : 1..MaxSeq, at : 0..MaxSync, sync : 0..MaxSync, version : 0..MaxVersion]

\* The daemon's player sources: the last full inventory, the last native read
\* on top of it, and the inventory that clients are shown.
Sources ==
  [http : Observation \cup {None}, native : Observation \cup {None},
   inventory : Observation \cup {None}]

ASSUME InventoryAssumption ==
  /\ MaxStream \in Nat \ {0} /\ MaxSeq \in Nat /\ MaxSync \in Nat /\ MaxVersion \in Nat
  /\ None \notin Observation

NoSources == [http |-> None, native |-> None, inventory |-> None]

Newer(m, previous) ==
  \/ previous = None
  \/ m.stream > previous.stream
  \/ m.stream = previous.stream /\ m.seq > previous.seq

\* baseline_check
BaselineMatches(m, http) ==
  /\ http # None
  /\ m.stream = http.stream
  /\ m.base = http.seq
  /\ m.seq > http.seq
  /\ m.at >= http.at
  /\ m.sync = http.sync

\* Fault: the native read of the inventory before is kept.
ApplyHttpKeepingNative(m, s) ==
  IF Newer(m, s.http) THEN [s EXCEPT !.http = m, !.inventory = m] ELSE s

ApplyHttp(m, s) ==
  IF Newer(m, s.http) THEN [http |-> m, native |-> None, inventory |-> m] ELSE s

\* Fault: a native read is taken whenever it fits the full inventory.
ApplyNativeUnordered(m, s) ==
  IF BaselineMatches(m, s.http)
  THEN [s EXCEPT !.native = m,
                 !.inventory = IF m.version = @.version THEN @ ELSE m]
  ELSE s

\* The rows of a native read replace those of the inventory; one that changes
\* nothing leaves it as it is.
ApplyNative(m, s) ==
  IF BaselineMatches(m, s.http) /\ Newer(m, s.native)
  THEN [s EXCEPT !.native = m,
                 !.inventory = IF m.version = @.version THEN @ ELSE m]
  ELSE s

Apply(m, s) == IF m.kind = "http" THEN ApplyHttp(m, s) ELSE ApplyNative(m, s)

-----------------------------------------------------------------------------
CONSTANTS
  Outcome,    \* outcomes of relic captures, which the companion publishes as well
  Faults,     \* what may go wrong
  MaxFaults,  \* bound: how often
  MaxWire     \* bound: frames in a socket

VARIABLES
  game,       \* version and sync of the inventory in the game's memory
  response,   \* the last HTTP response the game still holds, or None
  stream,     \* stream of the decoder
  seq,        \* its sequence number
  captured,   \* sync of the last response sampled
  sample,     \* the mailbox between sampler and decoder: one, or None
  baseline,   \* the full inventory native reads build on, or None
  lastNative, \* the last native read published on that baseline, or None
  read,       \* the channel between the memory reader and the decoder
  outbox,     \* publications not yet seen by the connection worker
  latest,     \* its last publication of each kind
  queued,     \* other publications waiting for a connection
  conn,       \* its connection: "down", "up", or "closing"
  replay,     \* what the session still has to repeat
  wire,       \* frames the daemon has not read
  oldWire,    \* frames of the connection before it
  store,      \* the player sources in the daemon
  disk,       \* and in its cache file
  outcomes,   \* how far each outcome has come
  faults      \* how often something went wrong

companion == <<stream, seq, captured, sample, baseline, lastNative, read>>
link == <<latest, queued, conn, replay, wire, oldWire>>
daemon == <<store, disk>>
vars == <<game, response, companion, outbox, link, daemon, outcomes, faults>>

Sample == [sync : 1..MaxSync, version : 0..MaxVersion]
Read == [at : 0..MaxSync, sync : 0..MaxSync, version : 0..MaxVersion]
Kind == {"outcome", "http", "native"}
Snapshot == {"http", "native"}
Message == Observation \cup [kind : {"outcome"}, id : Outcome]

ASSUME SyncAssumption ==
  MaxFaults \in Nat /\ MaxWire \in Nat /\ None \notin Message

TypeOK ==
  /\ game \in [version : 0..MaxVersion, sync : 0..MaxSync]
  /\ response \in Sample \cup {None}
  /\ stream \in 1..MaxStream
  /\ seq \in 0..MaxSeq
  /\ captured \in 0..MaxSync
  /\ sample \in Sample \cup {None}
  /\ baseline \in Observation \cup {None}
  /\ lastNative \in Observation \cup {None}
  /\ read \in Read \cup {None}
  /\ outbox \in Seq(Message)
  /\ latest \in [Kind -> Message \cup {None}]
  /\ queued \in Seq(Message)
  /\ conn \in {"down", "up", "closing"}
  /\ replay \in Seq(Message)
  /\ wire \in Seq(Message)
  /\ oldWire \in Seq(Message)
  /\ store \in Sources
  /\ disk \in Sources
  /\ outcomes \in [Outcome -> {"new", "held", "written", "lost"}]
  /\ faults \in 0..MaxFaults

Init ==
  /\ game = [version |-> 0, sync |-> 0]
  /\ response = None
  /\ stream = 1
  /\ seq = 0
  /\ captured = 0
  /\ sample = None
  /\ baseline = None
  /\ lastNative = None
  /\ read = None
  /\ outbox = << >>
  /\ latest = [k \in Kind |-> None]
  /\ queued = << >>
  /\ conn = "down"
  /\ replay = << >>
  /\ wire = << >>
  /\ oldWire = << >>
  /\ store = NoSources
  /\ disk = NoSources
  /\ outcomes = [o \in Outcome |-> "new"]
  /\ faults = 0

\* What goes wrong, at most MaxFaults times.
Fault(f) == f \in Faults /\ faults < MaxFaults /\ faults' = faults + 1

-----------------------------------------------------------------------------
(* The game *)

\* The player gains or spends something.
InventoryChanges ==
  /\ game.version < MaxVersion
  /\ game' = [game EXCEPT !.version = @ + 1]
  /\ UNCHANGED <<response, companion, outbox, link, daemon, outcomes, faults>>

\* The server sends the full inventory.
ServerResponds ==
  /\ game.sync < MaxSync
  /\ game' = [game EXCEPT !.sync = @ + 1]
  /\ response' = [sync |-> game.sync + 1, version |-> game.version]
  /\ UNCHANGED <<companion, outbox, link, daemon, outcomes, faults>>

\* The game frees the buffer of the response.
ResponseFreed ==
  /\ response # None
  /\ response' = None
  /\ UNCHANGED <<game, companion, outbox, link, daemon, outcomes, faults>>

-----------------------------------------------------------------------------
(* The decoder of the companion *)

\* The sampler finds a response it has not seen.
Capture ==
  /\ sample = None
  /\ response # None
  /\ response.sync > captured
  /\ sample' = response
  /\ captured' = response.sync
  /\ UNCHANGED <<game, response, stream, seq, baseline, lastNative, read, outbox,
                 link, daemon, outcomes, faults>>

\* The reader's snapshot of the memory; while the decoder has not taken the last
\* one a new one is dropped.
NativeRead ==
  /\ read = None
  /\ read' = [at |-> captured, sync |-> game.sync, version |-> game.version]
  /\ UNCHANGED <<game, response, stream, seq, captured, sample, baseline, lastNative,
                 outbox, link, daemon, outcomes, faults>>

\* Fault: a publication that replaces a queued one takes its place.
EnqueueInPlace(q, m) ==
  IF \E i \in DOMAIN q : q[i].kind = m.kind
  THEN [i \in DOMAIN q |-> IF q[i].kind = m.kind THEN m ELSE q[i]]
  ELSE Append(q, m)

\* Sender::send of the observer's inbox and of the outbox: an observation
\* replaces a queued one of its kind, and is appended.
Enqueue(q, m) ==
  IF \E i \in DOMAIN q : q[i].kind = m.kind
  THEN Append(RemoveAt(q, CHOOSE i \in DOMAIN q : q[i].kind = m.kind), m)
  ELSE Append(q, m)

\* Fault: a full inventory is stamped as built on the observation before it.
AcceptOffByOne ==
  /\ sample # None
  /\ seq < MaxSeq
  /\ seq' = seq + 1
  /\ baseline' = [kind |-> "http", stream |-> stream, seq |-> seq + 1, base |-> seq,
                  at |-> sample.sync, sync |-> sample.sync, version |-> sample.version]
  /\ lastNative' = None
  /\ sample' = None
  /\ outbox' = Enqueue(outbox, baseline')
  /\ UNCHANGED <<game, response, stream, captured, read, link, daemon, outcomes, faults>>

\* Decoder::accept
Accept ==
  /\ sample # None
  /\ seq < MaxSeq
  /\ seq' = seq + 1
  /\ baseline' = [kind |-> "http", stream |-> stream, seq |-> seq + 1, base |-> seq + 1,
                  at |-> sample.sync, sync |-> sample.sync, version |-> sample.version]
  /\ lastNative' = None
  /\ sample' = None
  /\ outbox' = Enqueue(outbox, baseline')
  /\ UNCHANGED <<game, response, stream, captured, read, link, daemon, outcomes, faults>>

\* The checks of Decoder::native.
Publishable(r) ==
  /\ baseline # None
  /\ r.at >= baseline.at
  /\ r.sync = baseline.sync
  /\ lastNative = None \/ r.version # lastNative.version

\* Decoder::native, once no sample is left.
Native ==
  /\ read # None
  /\ sample = None
  /\ seq < MaxSeq
  /\ read' = None
  /\ IF Publishable(read)
     THEN /\ seq' = seq + 1
          /\ lastNative' = [kind |-> "native", stream |-> stream, seq |-> seq + 1,
                            base |-> baseline.seq, at |-> read.at, sync |-> read.sync,
                            version |-> read.version]
          /\ outbox' = Enqueue(outbox, lastNative')
     ELSE UNCHANGED <<seq, lastNative, outbox>>
  /\ UNCHANGED <<game, response, stream, captured, sample, baseline, link, daemon,
                 outcomes, faults>>

\* The outcome of a capture; outcomes do not replace each other.
PublishOutcome(o) ==
  /\ outcomes[o] = "new"
  /\ outcomes' = [outcomes EXCEPT ![o] = "held"]
  /\ outbox' = Append(outbox, [kind |-> "outcome", id |-> o])
  /\ UNCHANGED <<game, response, companion, link, daemon, faults>>

-----------------------------------------------------------------------------
(* The connection worker of the companion *)

IsLast(q, k, i) == q[i].kind = k /\ \A j \in DOMAIN q : q[j].kind = k => j <= i

\* retain_publication, for each message of a queue in turn.
Retain(l, q) ==
  [k \in Kind |-> IF \E i \in DOMAIN q : IsLast(q, k, i)
                  THEN q[CHOOSE i \in DOMAIN q : IsLast(q, k, i)]
                  ELSE l[k]]

\* drain_outbound and wait_for_reconnect
RetainOutbound ==
  /\ conn = "down"
  /\ outbox # << >>
  /\ IF Head(outbox).kind \in Snapshot
     THEN latest' = Retain(latest, <<Head(outbox)>>) /\ queued' = queued
     ELSE queued' = Append(queued, Head(outbox)) /\ latest' = latest
  /\ outbox' = Tail(outbox)
  /\ UNCHANGED <<game, response, companion, conn, replay, wire, oldWire, daemon,
                 outcomes, faults>>

Repeated(k) == IF latest[k] = None THEN << >> ELSE <<latest[k]>>

\* Fault: native reads are repeated before the full inventory.
ReplayNativeFirst == Repeated("outcome") \o Repeated("native") \o Repeated("http")

\* The latest publications, in the order of their sources.
Replay == Repeated("outcome") \o Repeated("http") \o Repeated("native")

Connect ==
  /\ conn = "down"
  /\ wire = << >>
  /\ conn' = "up"
  /\ replay' = Replay \o queued
  /\ queued' = << >>
  /\ UNCHANGED <<game, response, companion, outbox, latest, wire, oldWire, daemon,
                 outcomes, faults>>

\* Fault: what is written is not remembered for the next connection.
SendForgetting ==
  /\ conn # "down"
  /\ replay \o outbox # << >>
  /\ Len(wire) < MaxWire
  /\ LET m == Head(replay \o outbox)
     IN /\ wire' = Append(wire, m)
        /\ outcomes' = IF m.kind = "outcome" THEN [outcomes EXCEPT ![m.id] = "written"]
                       ELSE outcomes
  /\ replay' = IF replay # << >> THEN Tail(replay) ELSE replay
  /\ outbox' = IF replay # << >> THEN outbox ELSE Tail(outbox)
  /\ UNCHANGED <<game, response, companion, latest, queued, conn, oldWire, daemon, faults>>

\* active_session: what is to be repeated comes first, then the outbox.
Send ==
  /\ conn # "down"
  /\ replay \o outbox # << >>
  /\ Len(wire) < MaxWire
  /\ LET m == Head(replay \o outbox)
     IN /\ wire' = Append(wire, m)
        /\ latest' = IF m.kind \in Snapshot THEN Retain(latest, <<m>>) ELSE latest
        /\ outcomes' = IF m.kind = "outcome" THEN [outcomes EXCEPT ![m.id] = "written"]
                       ELSE outcomes
  /\ replay' = IF replay # << >> THEN Tail(replay) ELSE replay
  /\ outbox' = IF replay # << >> THEN outbox ELSE Tail(outbox)
  /\ UNCHANGED <<game, response, companion, queued, conn, oldWire, daemon, faults>>

\* The end of connection_session: every publication not sent is retained.
EndSession ==
  /\ conn' = "down"
  /\ replay' = << >>
  /\ latest' = Retain(latest, replay)

\* The daemon may still read what was written to a connection that broke.
OldConnection ==
  /\ wire' = << >>
  /\ oldWire' = IF oldWire = << >> THEN wire ELSE oldWire

Disconnect ==
  /\ Fault("disconnect")
  /\ conn # "down"
  /\ EndSession
  /\ OldConnection
  /\ UNCHANGED <<game, response, companion, outbox, queued, daemon, outcomes>>

-----------------------------------------------------------------------------
(* Restarts of the companion and of its decoder *)

NewStream ==
  /\ stream < MaxStream
  /\ stream' = stream + 1
  /\ seq' = 0
  /\ captured' = 0
  /\ sample' = None
  /\ baseline' = None
  /\ lastNative' = None
  /\ read' = None

\* Outcomes die with a companion that still holds them.
LoseOutcomes ==
  outcomes' = [o \in Outcome |-> IF outcomes[o] = "held" THEN "lost" ELSE outcomes[o]]

\* The memory of the companion is lost.
CompanionCrashes ==
  /\ Fault("companion")
  /\ NewStream
  /\ outbox' = << >>
  /\ latest' = [k \in Kind |-> None]
  /\ queued' = << >>
  /\ conn' = "down"
  /\ replay' = << >>
  /\ OldConnection
  /\ LoseOutcomes
  /\ UNCHANGED <<game, response, daemon>>

\* Development reload: samples and queues are drained, and the decoder's
\* checkpoint and the latest publications are handed to the new code, which
\* refuses those that are no observations.
CompanionReloads ==
  /\ Fault("reload")
  /\ sample = None
  /\ Retain(latest, replay)["outcome"] = None
  /\ read' = None
  /\ lastNative' = None
  /\ outbox' = << >>
  /\ latest' = [Retain(latest, replay \o outbox) EXCEPT !["outcome"] = None]
  /\ queued' = << >>
  /\ conn' = "down"
  /\ replay' = << >>
  /\ OldConnection
  /\ LoseOutcomes
  /\ UNCHANGED <<game, response, stream, seq, captured, sample, baseline, daemon>>

\* A new game process, or a decoder that died: the observer starts a new one, the
\* connection stays.
DecoderRestarts ==
  /\ Fault("decoder")
  /\ NewStream
  /\ response' \in {response, None}
  /\ UNCHANGED <<game, outbox, link, daemon, outcomes>>

-----------------------------------------------------------------------------
(* The daemon *)

\* publish of the player service, for a frame of a connection.
Publish(m) == IF m.kind \in Snapshot THEN Apply(m, store) ELSE store

Deliver ==
  /\ wire # << >>
  /\ store' = Publish(Head(wire))
  /\ wire' = Tail(wire)
  /\ UNCHANGED <<game, response, companion, outbox, latest, queued, conn, replay, oldWire,
                 disk, outcomes, faults>>

DeliverOld ==
  /\ oldWire # << >>
  /\ store' = Publish(Head(oldWire))
  /\ oldWire' = Tail(oldWire)
  /\ UNCHANGED <<game, response, companion, outbox, latest, queued, conn, replay, wire,
                 disk, outcomes, faults>>

\* The frames of a connection that is gone are lost.
DropOld ==
  /\ oldWire # << >>
  /\ oldWire' = << >>
  /\ UNCHANGED <<game, response, companion, outbox, latest, queued, conn, replay, wire,
                 daemon, outcomes, faults>>

\* flush_snapshot
Persist ==
  /\ disk # store
  /\ disk' = store
  /\ UNCHANGED <<game, response, companion, outbox, link, store, outcomes, faults>>

\* clear: the empty snapshot is written before it is taken over.
Clear ==
  /\ Fault("clear")
  /\ store # NoSources
  /\ store' = NoSources
  /\ disk' = NoSources
  /\ UNCHANGED <<game, response, companion, outbox, link, outcomes>>

\* The supervisor restarts the player service, which reads its cache file; the
\* connections see that it went down and close.
ServiceRestarts ==
  /\ Fault("service")
  /\ store' = disk
  /\ conn' = IF conn = "up" THEN "closing" ELSE conn
  /\ UNCHANGED <<game, response, companion, outbox, latest, queued, replay, wire, oldWire,
                 disk, outcomes>>

\* The session ends with what it has not read.
DaemonCloses ==
  /\ conn = "closing"
  /\ EndSession
  /\ wire' = << >>
  /\ UNCHANGED <<game, response, companion, outbox, queued, oldWire, daemon, outcomes, faults>>

\* The daemon stops or is killed, and is started again.
DaemonRestarts ==
  /\ Fault("daemon")
  /\ store' = disk
  /\ EndSession
  /\ wire' = << >>
  /\ oldWire' = << >>
  /\ UNCHANGED <<game, response, companion, outbox, queued, disk, outcomes>>

-----------------------------------------------------------------------------
CompanionStep ==
  \/ Capture \/ NativeRead \/ Accept \/ Native \/ \E o \in Outcome : PublishOutcome(o)
  \/ RetainOutbound \/ Connect \/ Send \/ Disconnect

DaemonStep == Deliver \/ DeliverOld \/ DropOld \/ Persist \/ DaemonCloses

Restart ==
  CompanionCrashes \/ CompanionReloads \/ DecoderRestarts \/ ServiceRestarts \/ DaemonRestarts

Next ==
  \/ InventoryChanges \/ ServerResponds \/ ResponseFreed
  \/ CompanionStep \/ DaemonStep \/ Restart \/ Clear

\* The threads of the companion and the processes of the daemon keep going, and
\* the companion reconnects.
Fairness ==
  /\ WF_vars(Capture) /\ WF_vars(NativeRead) /\ WF_vars(Accept) /\ WF_vars(Native)
  /\ WF_vars(RetainOutbound) /\ WF_vars(Connect) /\ WF_vars(Send)
  /\ WF_vars(Deliver) /\ WF_vars(DaemonCloses)

Spec == Init /\ [][Next]_vars
FairSpec == Spec /\ Fairness

-----------------------------------------------------------------------------
(***************************************************************************)
(* What the synchronisation promises.                                      *)
(***************************************************************************)
\* An old or repeated observation never replaces a newer one, whichever
\* connection it arrives on and however late.
NeverOlder(s, t) ==
  /\ s.http # None => t.http # None /\ ~Newer(s.http, t.http)
  /\ s.http = t.http /\ s.native # None => t.native # None /\ ~Newer(s.native, t.native)
NoRegression == [][Deliver \/ DeliverOld => NeverOlder(store, store')]_vars

\* What clients are shown, and what is in the cache file, is the last native
\* read on the full inventory it was read on top of, else that inventory.
Consistent(s) ==
  IF s.http = None THEN s = NoSources
  ELSE /\ s.native # None => BaselineMatches(s.native, s.http)
       /\ s.inventory.version = (IF s.native = None THEN s.http ELSE s.native).version
EffectiveInventory == Consistent(store) /\ Consistent(disk)

\* What the decoder takes for published is still held by the companion: it is
\* in the outbox or will be repeated to the next daemon.
Held == Range(outbox) \cup Range(latest)
PublishedIsHeld ==
  /\ baseline # None => baseline \in Held
  /\ lastNative # None => lastNative \in Held

\* Coalescing keeps the outbox in the order of observation, so that the daemon
\* never meets a native read before the full inventory it was read on top of.
OutboxOrder ==
  \A i, j \in DOMAIN outbox :
    i < j /\ outbox[i].kind \in Snapshot /\ outbox[j].kind \in Snapshot
      => Newer(outbox[j], outbox[i])

\* No observation is lost or overtaken on its way, whatever coalesces, disconnects or
\* restarts (daemon.rs, daemon/outbox.rs, inventory/handoff.rs).
PublicationsKept == PublishedIsHeld /\ OutboxOrder

\* The outcome of a capture that was published is still on its way until it is
\* written to a connection, whatever other outcomes are published.
OutcomesKept ==
  \A o \in Outcome :
    outcomes[o] = "held"
      => [kind |-> "outcome", id |-> o] \in Range(outbox \o queued \o replay) \cup Range(latest)

\* The decoder has the current full inventory, and the daemon does not show what the game
\* holds.
Diverged ==
  /\ baseline # None /\ baseline.sync = game.sync /\ seq < MaxSeq
  /\ store.inventory # None => store.inventory.version # game.version

=============================================================================
