--------------------------- MODULE DaemonRequests ---------------------------
(***************************************************************************)
(* The requests of wfcompanion to the daemon (daemon.rs, daemon/outbox.rs). *)
(* Threads of the companion ask and wait; one connection worker writes      *)
(* their requests, assigns the answers by number, and survives the daemon.  *)
(*                                                                          *)
(* A request is <<caller, attempt>>: a caller asks again, once, when the    *)
(* connection closed.  Publications share the queues; what becomes of them  *)
(* is the matter of InventorySync.                                          *)
(***************************************************************************)
EXTENDS CompanionConstants, Naturals, Sequences, FiniteSets, SequencesExt

VARIABLES
  call,       \* per caller: [attempt, state], state: idle, waits, or what it was told
  answers,    \* per caller: what waits in the channel of its request
  late,       \* the requests whose deadline has passed
  cancelled,  \* outbox: requests are refused
  closed,     \* outbox: everything is
  outbox,
  link,       \* where the worker is: connect, session, pause, ended
  sessions,   \* counts towards MaxSessions
  queued,     \* requests the worker holds
  pending,    \* requests that await an answer: [id, request]
  frame,      \* the one that is being written, or none
  nextId,
  wire,       \* requests the daemon has: [id, request]
  halting,    \* Connection::finish has set the flag
  closing    \* the session has seen it

callVars == <<call, answers, late>>
boxVars == <<cancelled, closed, outbox>>
sessionVars == <<queued, pending, frame, nextId, wire, closing>>
requestVars == <<callVars, boxVars, link, sessions, sessionVars, halting>>

None == [id |-> 0, request |-> <<>>]
FirstId == 10
Requests == Callers \X {1, 2}
Current(c) == <<c, call[c].attempt>>

(***************************************************************************)
(* Answers.                                                                *)
(***************************************************************************)
\* RequestReply::send: an attempt that was given up has no receiver.
Told(told) ==
  answers' = [c \in Callers |-> answers[c] \o
    SetToSeq({t.what : t \in {u \in told : call[c].state = "waits" /\ u.request = Current(c)}})]

Tell(set, what) == {[request |-> r, what |-> what] : r \in set}

\* RequestReply::failure.
HasFailed(r) == cancelled \/ r \in late
Failure(r) == IF cancelled THEN "stopping" ELSE "timeout"
Failures(set) == {[request |-> r, what |-> Failure(r)] : r \in {q \in set : HasFailed(q)}}

\* expire_queued: what has not failed stays, in its order.
Unexpired(s) ==
  LET kept == {i \in DOMAIN s : ~HasFailed(s[i])}
      place == [i \in kept |-> Cardinality({j \in kept : j <= i})]
  IN  [k \in 1..Cardinality(kept) |-> s[CHOOSE i \in kept : place[i] = k]]

(***************************************************************************)
(* The callers.                                                            *)
(***************************************************************************)
\* request_once up to the wait, and outbox::Sender::send.
Send(c, attempt) ==
  LET refused == IF closed THEN "stopped" ELSE IF cancelled THEN "stopping"
                 ELSE IF Len(outbox) >= MaxMessages THEN "full" ELSE "waits"
  IN  /\ call' = [call EXCEPT ![c] = [attempt |-> attempt, state |-> refused]]
      /\ outbox' = IF refused = "waits" THEN Append(outbox, <<c, attempt>>) ELSE outbox
      /\ answers' = [answers EXCEPT ![c] = <<>>]

Ask(c) ==
  /\ call[c].state = "idle"
  /\ Send(c, 1)
  /\ UNCHANGED <<late, cancelled, closed, link, sessions, sessionVars, halting>>

\* recv_timeout returns an answer; request asks again when the connection closed.
Hear(c) ==
  /\ call[c].state = "waits" /\ answers[c] # <<>>
  /\ IF Head(answers[c]) = "closed" /\ call[c].attempt = 1
       THEN Send(c, 2)
       ELSE /\ call' = [call EXCEPT ![c].state = Head(answers[c])]
            /\ UNCHANGED <<answers, outbox>>
  /\ UNCHANGED <<late, cancelled, closed, link, sessions, sessionVars, halting>>

Places == ToSet(outbox) \cup ToSet(queued) \cup {p.request : p \in pending}

\* The caller looks every 50 ms whether to go on waiting; a request that was dropped
\* has closed its channel.
GiveUp(c) ==
  /\ call[c].state = "waits"
  /\ \/ HasFailed(Current(c)) /\ call' = [call EXCEPT ![c].state = Failure(Current(c))]
     \/ /\ Current(c) \notin Places /\ answers[c] = <<>>
        /\ call' = [call EXCEPT ![c].state = "stopped"]
  /\ UNCHANGED <<answers, late, boxVars, link, sessions, sessionVars, halting>>

Deadline(c) ==
  /\ call[c].state = "waits" /\ Current(c) \notin late
  /\ late' = late \cup {Current(c)}
  /\ UNCHANGED <<call, answers, boxVars, link, sessions, sessionVars, halting>>

\* Connection::quiesce, and later Connection::finish.
Quiesce ==
  /\ ~cancelled /\ cancelled' = TRUE
  /\ UNCHANGED <<callVars, closed, outbox, link, sessions, sessionVars, halting>>

Finish ==
  /\ ~halting /\ halting' = TRUE /\ cancelled' = TRUE
  /\ UNCHANGED <<callVars, closed, outbox, link, sessions, sessionVars>>

(***************************************************************************)
(* The worker without a connection.                                        *)
(***************************************************************************)
RetainAnyway(r) ==
  queued' = Append(Unexpired(queued), r) /\ Told(Failures(ToSet(queued)))

\* retain_outbound: what is queued expires, and a request there is no room for is refused.
Retain(r) ==
  LET kept == Unexpired(queued)
      full == Len(kept) >= MaxMessages
  IN  /\ queued' = IF full THEN kept ELSE Append(kept, r)
      /\ Told(Failures(ToSet(queued)) \cup IF full THEN Tell({r}, "full") ELSE {})

\* drain_outbound before an attempt, and one by one in wait_for_reconnect.
Drain ==
  /\ link \in {"connect", "pause"} /\ outbox # <<>>
  /\ link = "connect" => ~halting
  /\ outbox' = Tail(outbox) /\ Retain(Head(outbox))
  /\ UNCHANGED <<call, late, cancelled, closed, link, sessions, pending, frame, nextId, wire,
                 halting, closing>>

\* The socket or the handshake fails; the daemon may be started meanwhile.
ConnectFails ==
  /\ link = "connect" /\ ~halting /\ link' = "pause"
  /\ UNCHANGED <<callVars, boxVars, sessions, sessionVars, halting>>

Connect ==
  /\ link = "connect" /\ ~halting /\ sessions < MaxSessions
  /\ link' = "session" /\ sessions' = sessions + 1
  /\ nextId' = FirstId
  /\ UNCHANGED <<callVars, boxVars, queued, pending, frame, wire, closing, halting>>

\* wait_for_reconnect: its second tick, and its end.
Expire ==
  /\ link = "pause"
  /\ queued' = Unexpired(queued) /\ queued' # queued
  /\ Told(Failures(ToSet(queued)))
  /\ UNCHANGED <<call, late, boxVars, link, sessions, pending, frame, nextId, wire, closing,
                 halting>>

Retry ==
  /\ link = "pause" /\ ~halting /\ link' = "connect"
  /\ UNCHANGED <<callVars, boxVars, sessions, sessionVars, halting>>

\* connection_loop ends: what is left of the requests is dropped.
End ==
  /\ link \in {"connect", "pause"} /\ halting
  /\ link' = "ended" /\ closed' = TRUE /\ outbox' = <<>> /\ queued' = <<>>
  /\ UNCHANGED <<callVars, cancelled, sessions, pending, frame, nextId, wire, closing, halting>>

(***************************************************************************)
(* The session.                                                            *)
(***************************************************************************)
\* fail_pending.
Fail(reason) ==
  /\ pending' = {}
  /\ Told(Tell({p.request : p \in pending}, reason))

\* active_session notices the flag.
Halt ==
  /\ link = "session" /\ halting /\ ~closing
  /\ closing' = TRUE /\ closed' = TRUE /\ Fail("stopping")
  /\ UNCHANGED <<call, late, cancelled, outbox, link, sessions, queued, frame, nextId, wire,
                 halting>>

\* encode_outbound and register_pending, for the next request of the queue or the
\* outbox; in a shutdown it is dropped.
Take ==
  /\ link = "session" /\ frame = None /\ queued \o outbox # <<>>
  /\ LET r == Head(queued \o outbox)
         next == [id |-> nextId, request |-> r]
         refused == IF HasFailed(r) THEN {Failure(r)}
                    ELSE IF Cardinality(pending) >= MaxMessages THEN {"full"} ELSE {}
     IN  /\ queued' = IF queued = <<>> THEN queued ELSE Tail(queued)
         /\ outbox' = IF queued = <<>> THEN Tail(outbox) ELSE outbox
         /\ IF closing
              THEN UNCHANGED <<pending, frame, nextId, answers>>
              ELSE /\ nextId' = nextId + 1
                   /\ pending' = IF refused = {} THEN pending \cup {next} ELSE pending
                   /\ frame' = IF refused = {} THEN next ELSE None
                   /\ Told({[request |-> r, what |-> w] : w \in refused})
  /\ UNCHANGED <<call, late, cancelled, closed, link, sessions, wire, halting, closing>>

\* The last byte of the frame is written.
Written ==
  /\ link = "session" /\ frame # None
  /\ frame' = None /\ wire' = wire \cup {frame}
  /\ UNCHANGED <<callVars, boxVars, link, sessions, queued, pending, nextId, halting, closing>>

\* expire_pending, once a second.
ExpirePending ==
  /\ link = "session"
  /\ \E p \in pending : HasFailed(p.request)
  /\ pending' = {p \in pending : ~HasFailed(p.request)}
  /\ Told(Failures({p.request : p \in pending}))
  /\ UNCHANGED <<call, late, boxVars, link, sessions, queued, frame, nextId, wire, halting,
                 closing>>

OldestFirst(id) == {p \in pending : \A q \in pending : p.id <= q.id}

\* handle_server_message finds the request of an answer.
Matching(id) == {p \in pending : p.id = id}

\* The daemon answers its requests in any order.  What it says names the request, so
\* that a caller who is given another's answer shows.
Answered ==
  /\ link = "session"
  /\ \E w \in wire :
       /\ wire' = wire \ {w}
       /\ pending' = pending \ Matching(w.id)
       /\ Told({[request |-> p.request, what |-> w.request[1]] : p \in Matching(w.id)})
  /\ UNCHANGED <<call, late, boxVars, link, sessions, queued, frame, nextId, halting, closing>>

PendingOnly == {p.request : p \in pending}

\* connection_session fails what was asked and what it had taken on.
Abandoned == {p.request : p \in pending} \cup ToSet(queued)

\* A read or write fails or takes too long, or the daemon closes.
Break ==
  /\ link = "session"
  /\ link' = "pause" /\ frame' = None /\ wire' = {} /\ queued' = <<>> /\ pending' = {}
  /\ Told(Tell(Abandoned, "closed"))
  /\ UNCHANGED <<call, late, boxVars, sessions, nextId, halting, closing>>

\* All is written in a shutdown.
Flushed ==
  /\ link = "session" /\ closing /\ frame = None /\ queued \o outbox = <<>>
  /\ link' = "pause" /\ wire' = {} /\ Fail("closed")
  /\ UNCHANGED <<call, late, boxVars, sessions, queued, frame, nextId, halting, closing>>

(***************************************************************************)
(* The specification.                                                      *)
(***************************************************************************)
RequestsInit ==
  /\ call = [c \in Callers |-> [attempt |-> 1, state |-> "idle"]]
  /\ answers = [c \in Callers |-> <<>>] /\ late = {}
  /\ cancelled = FALSE /\ closed = FALSE /\ outbox = <<>>
  /\ link = "connect" /\ sessions = 0
  /\ queued = <<>> /\ pending = {} /\ frame = None /\ nextId = FirstId /\ wire = {}
  /\ halting = FALSE /\ closing = FALSE

CallerStep == \E c \in Callers : Ask(c) \/ Hear(c) \/ GiveUp(c) \/ Deadline(c)
WorkerStep ==
  \/ Drain \/ ConnectFails \/ Connect \/ Expire \/ Retry \/ End
  \/ Halt \/ Take \/ Written \/ ExpirePending \/ Answered \/ Break \/ Flushed

RequestsNext == CallerStep \/ Quiesce \/ Finish \/ WorkerStep

\* The worker never waits forever: connecting, writing and the shutdown have deadlines, and
\* it looks at the flag every second.  Without the flag it may wait for the daemon.
RequestsFairness ==
  /\ WF_requestVars(halting /\ (ConnectFails \/ End \/ Halt))
  /\ WF_requestVars(closing /\ (Break \/ Flushed))

RequestsSpec == RequestsInit /\ [][RequestsNext]_requestVars /\ RequestsFairness

(***************************************************************************)
(* Properties.                                                             *)
(***************************************************************************)
CallOutcomes == Callers \cup {"stopped", "stopping", "full", "timeout", "closed"}

\* Types; the numbers of the requests that are pending differ.
RequestsTypeOK ==
  /\ call \in [Callers -> [attempt : {1, 2}, state : {"idle", "waits"} \cup CallOutcomes]]
  /\ answers \in [Callers -> Seq(CallOutcomes)]
  /\ late \subseteq Requests
  /\ {cancelled, closed, halting, closing} \subseteq BOOLEAN
  /\ {outbox, queued} \subseteq Seq(Requests)
  /\ link \in {"connect", "session", "pause", "ended"} /\ sessions \in 0..MaxSessions
  /\ \A p \in pending \cup wire : p.id \in FirstId..(nextId - 1) /\ p.request \in Requests
  /\ \A p, q \in pending : p.id = q.id => p = q
  /\ Len(outbox) <= MaxMessages /\ Len(queued) <= MaxMessages
  /\ Cardinality(pending) <= MaxMessages

\* The places of the connection that hold a request.
Held(r) ==
  Count(outbox, r) + Count(queued, r) + Cardinality({p \in pending : p.request = r})

\* A caller that waits for a request the companion has not cancelled has it in one place of
\* the connection, or is already told what became of it.  So it never waits out its
\* deadline for a request nobody holds, and no request is made or answered twice.
NobodyForgotten ==
  \A c \in Callers : call[c].state = "waits" /\ ~cancelled =>
    Held(Current(c)) + Len(answers[c]) = 1

\* What a caller is given as an answer is the answer to its own request, whatever the order
\* of the answers, and whatever has expired or was reconnected meanwhile.
AnswersFit ==
  \A c \in Callers : Callers \cap (ToSet(answers[c]) \cup {call[c].state}) \subseteq {c}

\* A companion that stops does not wait for the daemon.
Lingers == halting /\ link # "ended"

=============================================================================
