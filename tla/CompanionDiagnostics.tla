------------------------ MODULE CompanionDiagnostics ------------------------
(***************************************************************************)
(* Watches of the runtime of wfcompanion, over the same connection as the   *)
(* requests of DaemonRequests, the other way: a client of the daemon asks   *)
(*  (wfcli_companion_diagnostics.erl), the request goes to   *)
(* the one companion connection, and runtime/diagnostics.rs takes samples   *)
(* in the observer loop.  A sample is sent only against a credit, which the *)
(* client gives back when it has consumed the last one.                     *)
(*                                                                          *)
(* Requests are numbered by the client and never used again.  Status        *)
(* requests are answered at once and are left out; so is what a client is  *)
(* told of an end.                                                          *)
(***************************************************************************)
EXTENDS DaemonRequests

VARIABLES
  asked,      \* requests made so far
  entries,    \* the daemon's: per request that goes on, [waiting, started]
  unread,     \* samples the client has yet to consume
  line,       \* commands to the companion, as they are sent
  inbox,      \* commands the companion has yet to look at
  watches,    \* the companion's: per watch, whether it has credit
  channel,    \* replies to the daemon, as they are given
  open,       \* the connection, and with it the channel
  spoilt,     \* requests a command or reply of which was refused, lost or expired
  mishaps     \* counts towards MaxMishaps

companionVars == <<inbox, watches>>
daemonVars == <<asked, entries, unread>>
diagnosticVars == <<daemonVars, line, companionVars, channel, open, spoilt, mishaps>>

Command(id, action) == [id |-> id, action |-> action]
Reply(id, state) == [id |-> id, state |-> state]
Final == {"completed", "cancelled", "failed"}

Mishap(ids) ==
  mishaps < MaxMishaps /\ mishaps' = mishaps + 1 /\ spoilt' = spoilt \cup ids
NoMishap == UNCHANGED <<spoilt, mishaps>>

(***************************************************************************)
(* The companion.                                                          *)
(***************************************************************************)
\* respond: a reply that finds no slot, or is too large, is dropped.
Respond(replies) ==
  \/ channel' = channel \o replies /\ NoMishap
  \/ replies # <<>> /\ channel' = channel /\ Mishap({r.id : r \in ToSet(replies)})

\* route: the inbox takes the command or the request has failed.
Arrives ==
  /\ line # <<>> /\ open
  /\ line' = Tail(line)
  /\ \/ inbox' = Append(inbox, Head(line)) /\ UNCHANGED channel /\ NoMishap
     \/ /\ Mishap({Head(line).id})
        /\ channel' = Append(channel, Reply(Head(line).id, "failed")) /\ UNCHANGED inbox
  /\ UNCHANGED <<daemonVars, watches, open>>

RunningWatches == DOMAIN watches
Without(f, ids) == [i \in DOMAIN f \ ids |-> f[i]]
Credited(id, credit) ==
  [i \in RunningWatches \cup {id} |-> IF i = id THEN credit ELSE watches[i]]

\* Watches::command, for a command that has not expired.  A watch starts with a sample.
Commanded(c) ==
  CASE c.action = "watch" /\ Cardinality(RunningWatches) >= MaxWatches ->
         Respond(<<Reply(c.id, "failed")>>) /\ UNCHANGED watches
    [] c.action = "watch" /\ Cardinality(RunningWatches) < MaxWatches ->
         /\ Respond(<<Reply(c.id, "running")>>)
         /\ watches' = IF channel' # channel THEN Credited(c.id, FALSE) ELSE watches
    [] c.action = "credit" ->
         /\ watches' = IF c.id \in RunningWatches THEN Credited(c.id, TRUE) ELSE watches
         /\ UNCHANGED channel /\ NoMishap
    [] c.action = "cancel" ->
         /\ watches' = Without(watches, {c.id})
         /\ Respond(IF c.id \in RunningWatches THEN <<Reply(c.id, "cancelled")>> ELSE <<>>)

\* A command from a connection that has closed is ignored; one that waited for 5 s has
\* failed, also a credit and a cancellation.
Obeys ==
  /\ inbox # <<>>
  /\ inbox' = Tail(inbox)
  /\ \/ open /\ Commanded(Head(inbox))
     \/ /\ open /\ Mishap({Head(inbox).id}) /\ UNCHANGED watches
        /\ channel' = Append(channel, Reply(Head(inbox).id, "failed"))
     \/ ~open /\ UNCHANGED <<watches, channel>> /\ NoMishap
  /\ UNCHANGED <<daemonVars, line, open>>

CreditKept(id) == watches

\* The credit is spent, whether or not the reply finds room.
Spent(id) == [watches EXCEPT ![id] = FALSE]

\* Watches::tick, for a watch whose second has passed.
Samples ==
  /\ open
  /\ \E id \in RunningWatches :
       /\ watches[id]
       /\ watches' = Spent(id)
       /\ Respond(<<Reply(id, "running")>>)
  /\ UNCHANGED <<daemonVars, line, inbox, open>>

\* finish, for a watch whose duration is over, whose connection has closed, which another
\* request stops, or which the observer leaves behind when it ends.
Finishes ==
  /\ \E id \in RunningWatches, state \in {"completed", "cancelled"} :
       /\ watches' = Without(watches, {id})
       /\ IF open THEN Respond(<<Reply(id, state)>>)
                  ELSE UNCHANGED channel /\ NoMishap
  /\ UNCHANGED <<daemonVars, line, inbox, open>>

(***************************************************************************)
(* The daemon.                                                             *)
(***************************************************************************)
\* submit.
Submits ==
  /\ open
  /\ \E id \in Watchers \ asked :
       /\ asked' = asked \cup {id}
       /\ entries' = [i \in DOMAIN entries \cup {id} |->
            IF i = id THEN [waiting |-> FALSE, started |-> FALSE] ELSE entries[i]]
       /\ line' = Append(line, Command(id, "watch"))
  /\ UNCHANGED <<unread, companionVars, channel, open>> /\ NoMishap

AwaitsOnceStarted(entry) == [waiting |-> entry.started, started |-> TRUE]

\* A sample was delivered; the first has shown that the watch runs.
Awaits(entry) == [waiting |-> TRUE, started |-> TRUE]

\* reply and handle_reply, for the entry of the companion.
Replied ==
  /\ channel # <<>>
  /\ channel' = Tail(channel)
  /\ LET r == Head(channel)
         known == r.id \in DOMAIN entries
         sample == known /\ r.state = "running" /\ ~entries[r.id].waiting
         final == known /\ r.state # "running"
     IN  /\ unread' = IF sample THEN unread \cup {r.id} ELSE unread
         /\ entries' = IF final THEN Without(entries, {r.id})
                       ELSE IF sample
                         THEN [entries EXCEPT ![r.id] = Awaits(@)]
                         ELSE entries
  /\ UNCHANGED <<asked, line, companionVars, open>> /\ NoMishap

\* consume, when the client has taken the sample.
Consumes ==
  /\ \E id \in unread :
       /\ unread' = unread \ {id}
       /\ IF id \in DOMAIN entries /\ entries[id].waiting
            THEN /\ entries' = [entries EXCEPT ![id].waiting = FALSE]
                 /\ line' = IF open THEN Append(line, Command(id, "credit")) ELSE line
            ELSE UNCHANGED <<entries, line>>
  /\ UNCHANGED <<asked, companionVars, channel, open>> /\ NoMishap

ForgetOnly(id) == line

\* cancel_id: the companion is told before the entry goes.
CancelSent(id) == IF open THEN Append(line, Command(id, "cancel")) ELSE line

\* cancel and down, for a client that stops to listen.
ClientLeaves ==
  /\ \E id \in DOMAIN entries :
       /\ entries' = Without(entries, {id}) /\ unread' = unread \ {id}
       /\ line' = CancelSent(id)
  /\ UNCHANGED <<asked, companionVars, channel, open>> /\ NoMishap

\* timeout: no reply came within 5 s, or no end within 5 s of the duration.
TimesOut ==
  /\ \E id \in DOMAIN entries :
       /\ entries' = Without(entries, {id})
       /\ line' = CancelSent(id)
  /\ UNCHANGED <<asked, unread, companionVars, channel, open>> /\ NoMishap

\* The connection ends: down for its entries, and a closed channel.
Disconnects ==
  /\ open /\ open' = FALSE /\ Mishap({})
  /\ line' = <<>> /\ channel' = <<>>
  /\ entries' = <<>>
  /\ UNCHANGED <<asked, unread, companionVars>>

\* The companion comes back with a new channel, once it has dropped the old watches.
Reconnects ==
  /\ ~open /\ open' = TRUE
  /\ inbox = <<>> /\ watches = <<>>
  /\ UNCHANGED <<daemonVars, line, companionVars, channel>> /\ NoMishap

(***************************************************************************)
(* The specification.                                                      *)
(***************************************************************************)
DiagnosticsInit ==
  /\ asked = {} /\ entries = <<>> /\ unread = {}
  /\ line = <<>> /\ inbox = <<>> /\ watches = <<>> /\ channel = <<>>
  /\ open = TRUE /\ spoilt = {} /\ mishaps = 0

DiagnosticsNext ==
  \/ Arrives \/ Obeys \/ Samples \/ Finishes
  \/ Submits \/ Replied \/ Consumes \/ ClientLeaves \/ TimesOut
  \/ Disconnects \/ Reconnects

\* The observer loop ticks, both ends read what they are sent, and clients consume.  No
\* watch has to end.
DiagnosticsFairness ==
  /\ WF_diagnosticVars(Arrives) /\ WF_diagnosticVars(Obeys)
  /\ WF_diagnosticVars(Samples) /\ WF_diagnosticVars(Replied)
  /\ WF_diagnosticVars(Consumes)

DiagnosticsSpec == DiagnosticsInit /\ [][DiagnosticsNext]_diagnosticVars /\ DiagnosticsFairness

(***************************************************************************)
(* Properties.                                                             *)
(***************************************************************************)
\* Types; the companion runs no more than its limit of watches.
DiagnosticsTypeOK ==
  /\ {asked, unread, spoilt, DOMAIN entries, RunningWatches} \subseteq SUBSET Watchers
  /\ \A id \in DOMAIN entries : entries[id] \in [waiting : BOOLEAN, started : BOOLEAN]
  /\ line \in Seq([id : Watchers, action : {"watch", "credit", "cancel"}])
  /\ inbox \in Seq([id : Watchers, action : {"watch", "credit", "cancel"}])
  /\ \A id \in RunningWatches : watches[id] \in BOOLEAN
  /\ Cardinality(RunningWatches) <= MaxWatches
  /\ channel \in Seq([id : Watchers, state : Final \cup {"running"}])
  /\ open \in BOOLEAN /\ mishaps \in 0..MaxMishaps

\* One sample of a watch awaits consumption: the right to send one is in one place only,
\* the client, the way back, the companion or the way out.  A second would be thrown
\* away by the daemon, unseen.
OneSampleAwaits ==
  \A id \in DOMAIN entries :
    Count(channel, Reply(id, "running")) + Count(line, Command(id, "credit"))
    + Count(inbox, Command(id, "credit")) + (IF entries[id].waiting THEN 1 ELSE 0)
    + (IF id \in RunningWatches /\ watches[id] THEN 1 ELSE 0) <= 1

\* A watch nobody listens to holds one of the few places only as long as its cancellation is
\* on its way, or its connection is closing.
NoOrphanWatch ==
  \A id \in RunningWatches \ (DOMAIN entries \cup spoilt) :
    open => Command(id, "cancel") \in ToSet(line) \cup ToSet(inbox)

\* What the one connection promises those on both ends: a request is in one place or answered,
\* once, by its own answer, and the right to send a sample is in one place and never stranded.
CallsAnswered == NobodyForgotten /\ AnswersFit /\ OneSampleAwaits /\ NoOrphanWatch

\* A client that consumes what it gets gets more, or the end: no credit is lost.
Expects(id) ==
  id \in DOMAIN entries \ spoilt /\ entries[id].started /\ ~entries[id].waiting

=============================================================================
