--------------------------- MODULE InspectorWatches ---------------------------
(***************************************************************************)
(* Commands of the inspector that watch for as long as they are let.       *)
(*                                                                         *)
(* Watches of the game's responses keep what they see (wfcompanion         *)
(* inspect/gep.rs): processes take samples from their queue and write each *)
(* payload to a file named by its hash, in a directory that others may be  *)
(* using.  The sampler is a module of its own.  A payload is its hash; a   *)
(* watch may be killed, or fail to write, at any point.                    *)
(*                                                                         *)
(* A subscription to a dataset of the daemon (inspect/daemon.rs): hello,   *)
(* subscribe, the first answer, then events until a limit or a time is     *)
(* reached.  The daemon, external here, sends one frame after the other; a *)
(* frame may arrive in pieces, and the connection may close at any point.  *)
(***************************************************************************)
EXTENDS EvidenceConstants, Naturals, Sequences, FiniteSets

VARIABLES
  \* of a watch that saves payloads
  saved,     \* payload |-> "absent", "part" or "whole"
  watch,     \* per process: [at, payload, events]
  reported,  \* the payloads reported with a file
  failures,
  \* of a subscription
  client,    \* "hello", "subscribe", "initial", "stream", "done" or "failed"
  asked,     \* what the daemon has yet to answer
  wire,      \* frames not yet read: [kind, event, whole]
  sent,      \* events sent
  emitted,   \* what the command has printed
  late,      \* the time is up
  closed

payVars == <<saved, watch, reported, failures>>
streamVars == <<client, asked, wire, sent, emitted, late, closed>>

---------------------------------------------------------------------------
(* Watches that save payloads                                              *)

StepsTo(w, step) == watch' = [watch EXCEPT ![w].at = step]
Fails == failures < MaxFailures /\ failures' = failures + 1
Save(payload, state) == saved' = [saved EXCEPT ![payload] = state]

\* A sample that is no payload is passed over, which changes nothing.
TakeSample(w) ==
    /\ watch[w].at = "queue" /\ watch[w].events < WatchLimit
    /\ \E p \in Payloads : watch' = [watch EXCEPT ![w].at = "create", ![w].payload = p]
    /\ UNCHANGED <<saved, reported, failures>>

\* The deadline, the limit, or a sampler that has ended.
WatchEnds(w) ==
    /\ watch[w].at = "queue" /\ StepsTo(w, "done")
    /\ UNCHANGED <<saved, reported, failures>>

\* create_new: who finds the file compares it.
CreateOrTruncate(w) == Save(watch[w].payload, "part") /\ StepsTo(w, "write")
CreateNew(w) ==
    IF saved[watch[w].payload] = "absent"
    THEN Save(watch[w].payload, "part") /\ StepsTo(w, "write")
    ELSE StepsTo(w, "compare") /\ UNCHANGED saved

Create(w) ==
    /\ watch[w].at = "create" /\ CreateNew(w)
    /\ UNCHANGED <<reported, failures>>

\* write_all, or a part of it and then the file is removed.
Write(w) ==
    /\ watch[w].at = "write"
    /\ \/ Save(watch[w].payload, "whole") /\ StepsTo(w, "tell") /\ UNCHANGED failures
       \/ Fails /\ StepsTo(w, "remove") /\ UNCHANGED saved
    /\ UNCHANGED reported

RemovePart(w) ==
    /\ watch[w].at = "remove" /\ StepsTo(w, "failed")
    /\ Save(watch[w].payload, "absent")
    /\ UNCHANGED <<reported, failures>>

\* Only the same bytes are evidence; the file may be gone meanwhile.
CompareFile(w) ==
    /\ watch[w].at = "compare"
    /\ StepsTo(w, IF saved[watch[w].payload] = "whole" THEN "tell" ELSE "failed")
    /\ UNCHANGED <<saved, reported, failures>>

Tell(w) ==
    /\ watch[w].at = "tell"
    /\ reported' = reported \cup {watch[w].payload}
    /\ watch' = [watch EXCEPT ![w].at = "queue", ![w].events = @ + 1]
    /\ UNCHANGED <<saved, failures>>

Killed(w) ==
    /\ watch[w].at \notin {"done", "failed"} /\ Fails /\ StepsTo(w, "failed")
    /\ UNCHANGED <<saved, reported>>

\* The command is given again.
Restart(w) ==
    /\ watch[w].at \in {"done", "failed"} /\ Fails
    /\ watch' = [watch EXCEPT ![w] = [at |-> "queue", payload |-> CHOOSE p \in Payloads : TRUE, events |-> 0]]
    /\ UNCHANGED <<saved, reported>>

PayloadInit ==
    /\ saved = [p \in Payloads |-> "absent"]
    /\ watch = [w \in Watches |-> [at |-> "queue", payload |-> CHOOSE p \in Payloads : TRUE, events |-> 0]]
    /\ reported = {} /\ failures = 0

PayloadNext == \E w \in Watches :
    \/ TakeSample(w) \/ WatchEnds(w) \/ Create(w) \/ Write(w) \/ RemovePart(w) \/ CompareFile(w) \/ Tell(w)
    \/ Killed(w) \/ Restart(w)

PayloadSpec == PayloadInit /\ [][PayloadNext]_payVars

---------------------------------------------------------------------------
(* A subscription: the daemon                                              *)

Frame(kind, event) == [kind |-> kind, event |-> event, whole |-> FALSE]

Answers ==
    /\ asked # "nothing" /\ ~closed
    /\ \E kind \in {"ok", "refused"} :
         wire' = Append(wire, Frame(IF kind = "ok" THEN asked ELSE kind, 0))
    /\ asked' = IF asked = "subscribe" THEN "events" ELSE "nothing"
    /\ asked # "events"
    /\ UNCHANGED <<client, sent, emitted, late, closed>>

SendsEvent ==
    /\ asked = "events" /\ ~closed /\ sent < MaxSent /\ sent' = sent + 1
    /\ wire' = Append(wire, Frame("event", sent + 1))
    /\ UNCHANGED <<client, asked, emitted, late, closed>>

\* The rest of a frame arrives.
Arrives ==
    /\ wire # <<>> /\ \E i \in DOMAIN wire :
         /\ ~wire[i].whole /\ \A j \in 1..i - 1 : wire[j].whole
         /\ wire' = [wire EXCEPT ![i].whole = TRUE]
    /\ UNCHANGED <<client, asked, sent, emitted, late, closed>>

Closes ==
    /\ ~closed /\ closed' = TRUE
    /\ UNCHANGED <<client, asked, wire, sent, emitted, late>>

TimeIsUp ==
    /\ client = "stream" /\ ~late /\ late' = TRUE
    /\ UNCHANGED <<client, asked, wire, sent, emitted, closed>>

---------------------------------------------------------------------------
(* A subscription: the command                                             *)

Ready == wire # <<>> /\ Head(wire).whole

Hello ==
    /\ client = "hello" /\ client' = "subscribe" /\ asked' = "hello"
    /\ UNCHANGED <<wire, sent, emitted, late, closed>>

\* require_compatible, then the subscription is sent.
Greeted ==
    /\ client = "subscribe" /\ Ready /\ wire' = Tail(wire)
    /\ IF Head(wire).kind = "hello" THEN client' = "initial" /\ asked' = "subscribe"
       ELSE client' = "failed" /\ UNCHANGED asked
    /\ UNCHANGED <<sent, emitted, late, closed>>

Initial ==
    /\ client = "initial" /\ Ready /\ wire' = Tail(wire)
    /\ IF Head(wire).kind = "subscribe" THEN client' = "stream" /\ emitted' = Append(emitted, Head(wire))
       ELSE client' = "failed" /\ UNCHANGED emitted
    /\ UNCHANGED <<asked, sent, late, closed>>

\* Neither the time nor the number is used up.
GoesOnToo == ~late /\ Len(emitted) - 1 <= EventLimit
GoesOn == ~late /\ Len(emitted) - 1 < EventLimit

Receive ==
    /\ client = "stream" /\ GoesOn /\ Ready
    /\ wire' = Tail(wire) /\ emitted' = Append(emitted, Head(wire))
    /\ UNCHANGED <<client, asked, sent, late, closed>>

\* With the last read, the piece of a frame that was there is gone; unsubscribe is tried.
Stop ==
    /\ client = "stream" /\ ~GoesOn /\ client' = "done"
    /\ UNCHANGED <<asked, wire, sent, emitted, late, closed>>

\* The daemon is silent for too long before the stream, or has closed the connection, in
\* the middle of a frame or not.
Gone ==
    /\ client \in {"subscribe", "initial"} \/ (client = "stream" /\ GoesOn /\ closed)
    /\ ~Ready /\ client' = "failed"
    /\ UNCHANGED <<asked, wire, sent, emitted, late, closed>>

StreamInit ==
    /\ client = "hello" /\ asked = "nothing" /\ wire = <<>> /\ sent = 0 /\ emitted = <<>>
    /\ late = FALSE /\ closed = FALSE

StreamNext ==
    \/ Answers \/ SendsEvent \/ Arrives \/ Closes \/ TimeIsUp
    \/ Hello \/ Greeted \/ Initial \/ Receive \/ Stop \/ Gone

StreamSpec == StreamInit /\ [][StreamNext]_streamVars

---------------------------------------------------------------------------
(* Properties                                                              *)

PayloadTypeOK ==
    /\ \A p \in Payloads : saved[p] \in {"absent", "part", "whole"}
    /\ \A w \in Watches : watch[w].events \in 0..WatchLimit
    /\ reported \subseteq Payloads /\ failures \in 0..MaxFailures

\* Whoever wrote it, whatever was killed half-way and whoever clears away what it could not
\* write: a payload that was reported with a file is in that file, whole, and stays there.
ReportedIsKept == \A p \in reported : saved[p] = "whole"

StreamTypeOK ==
    /\ client \in {"hello", "subscribe", "initial", "stream", "done", "failed"}
    /\ sent \in 0..MaxSent /\ Len(wire) <= MaxSent + 2

\* What is printed is the answer to the subscription and then, in their order and without a
\* hole, the events from the first on, no more than were asked for; a stream that ends
\* early, because the connection did, fails.
PrintsAPrefix ==
    /\ \A i \in DOMAIN emitted :
         /\ emitted[i].whole
         /\ emitted[i].kind = (IF i = 1 THEN "subscribe" ELSE "event") /\ emitted[i].event = i - 1
    /\ Len(emitted) <= EventLimit + 1
    /\ client = "done" => late \/ Len(emitted) = EventLimit + 1

\* What an inspector was told has a file, or was printed, is so (inspect/gep.rs and
\* inspect/daemon.rs).
OutputsStand == ReportedIsKept /\ PrintsAPrefix
=============================================================================
