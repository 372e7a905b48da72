------------------------- MODULE WorldstateService -------------------------
(***************************************************************************)
(* wfcli_worldstate_service: the gen_server that caches worldstate         *)
(* datasets, answers one-shot requests, evaluates persistent watches,      *)
(* polls, and decides when an idle daemon stops.                           *)
(*                                                                         *)
(* One action is one handle_call, handle_cast or handle_info clause, or    *)
(* one step of the world around the server: a fetch worker finishing, a    *)
(* timer firing, time passing, a client or a lease owner dying.  Erlang    *)
(* orders signals between a pair of processes only, so a pending message   *)
(* of one sender may be handled before one of another; castQ keeps the     *)
(* order of the casts of one owner.                                        *)
(***************************************************************************)
EXTENDS Integers, Sequences, FiniteSets

CONSTANTS
  Key,        \* dataset keys {Source, CachePath}
  OneShot,    \* references of one-shot requests
  Watch,      \* references of persistent watches
  KeyOf,      \* the dataset of a request
  Refresh,    \* requests with opts.refresh = true
  Once,       \* watches with once = true
  Always,     \* watches with always = true
  Owner,      \* services that hold external activity leases
  Content,    \* decoded snapshots
  NoContent,
  Timer,      \* identities of erlang timers
  NoTimer,
  Policies,   \* the idle policies configured and requested
  MaxLease,   \* bound: leases one owner holds at once
  MaxCasts    \* bound: casts of one owner not yet handled

Request == OneShot \cup Watch

ASSUME RequestAssumption ==
  /\ OneShot \cap Watch = {}
  /\ KeyOf \in [Request -> Key]
  /\ Refresh \subseteq Request
  /\ Once \subseteq Watch
  /\ Always \subseteq Watch

ASSUME ValueAssumption == NoContent \notin Content /\ NoTimer \notin Timer

ASSUME PolicyAssumption == Policies \subseteq {"idle", "persistent"}

ASSUME TimerAssumption == "idle" \in Policies => Timer # {}

ASSUME BoundAssumption == MaxLease \in Nat /\ MaxCasts \in Nat

VARIABLES
  status,     \* "new", "active" (in one_shots or watches), "closed" or "lost"
  previous,   \* what the server last evaluated a watch against
  due,        \* next_due of a watch has passed
  seen,       \* the content the client of a watch was last sent
  reply,      \* how often and with what a one-shot was answered
  served,     \* the server took data from the network since the request came
  joined,     \* refreshes that came while a fetch that may use the disk was under way
  selfMsg,    \* dispatch_one_shot and evaluate_watch messages to self()
  clientUp,   \* the client process of a request is alive
  snapshot, stale, expired,
  fetch,      \* the fetch worker of a dataset and the result it posted
  pollTimer, pollArmed, pollMail,
  idleTimer, idleArmed, idleMail, policy,
  external,   \* external_activity: the leases the server counts
  castQ,      \* activity casts in flight, with the leases held after each
  held,       \* the leases an owner believes it holds
  ownerUp,
  vm          \* "up", or "stopping" once init:stop is ordered

subVars   == <<status, previous, due, seen, reply, served, joined, selfMsg>>
dataVars  == <<snapshot, stale, expired>>
pollVars  == <<pollTimer, pollArmed, pollMail>>
idleVars  == <<idleTimer, idleArmed, idleMail, policy>>
leaseVars == <<external, castQ, held, ownerUp>>
vars == <<subVars, clientUp, dataVars, fetch, pollVars, idleVars, leaseVars, vm>>

NoReply == [count |-> 0, ok |-> FALSE, stale |-> FALSE]

Cast == [kind : {"start", "end"}, level : Nat]

TypeOK ==
  /\ status \in [Request -> {"new", "active", "closed", "lost"}]
  /\ previous \in [Watch -> Content \cup {NoContent}]
  /\ due \in [Watch -> BOOLEAN]
  /\ seen \in [Watch -> Content \cup {NoContent}]
  /\ reply \in [OneShot -> [count : Nat, ok : BOOLEAN, stale : BOOLEAN]]
  /\ served \in [OneShot -> BOOLEAN]
  /\ joined \subseteq OneShot
  /\ selfMsg \subseteq Request
  /\ clientUp \in [Request -> BOOLEAN]
  /\ snapshot \in [Key -> Content \cup {NoContent}]
  /\ stale \in [Key -> BOOLEAN]
  /\ expired \in [Key -> BOOLEAN]
  /\ fetch \in [Key -> {"none", "unforced", "forced", "fetched", "cached", "cachedStale",
                        "failed"}]
  /\ pollTimer \in Timer \cup {NoTimer}
  /\ pollArmed \subseteq Timer
  /\ pollMail \subseteq Timer
  /\ idleTimer \in Timer \cup {NoTimer}
  /\ idleArmed \subseteq Timer
  /\ idleMail \subseteq Timer
  /\ policy \in {"idle", "persistent"}
  /\ external \in [Owner -> Nat]
  /\ castQ \in [Owner -> Seq(Cast)]
  /\ held \in [Owner -> Nat]
  /\ ownerUp \in [Owner -> BOOLEAN]
  /\ vm \in {"up", "stopping"}

ActiveOneShots == {r \in OneShot : status[r] = "active"}
ActiveWatches  == {r \in Watch : status[r] = "active"}

(***************************************************************************)
(* Timers.  erlang:cancel_timer removes a running timer; the message of a  *)
(* timer that has fired stays in the mailbox.                              *)
(***************************************************************************)
FreshTimer(used) == CHOOSE t \in Timer : t \notin used

EnsurePollTimer(timer, armed) ==
  \/ /\ ActiveWatches' = {}
     /\ pollTimer' = NoTimer
     /\ pollArmed' = armed \ {timer}
  \/ /\ ActiveWatches' # {} /\ timer = NoTimer
     /\ Timer \ (armed \cup pollMail') # {}        \* bound: Timer
     /\ pollTimer' = FreshTimer(armed \cup pollMail')
     /\ pollArmed' = armed \cup {pollTimer'}
  \/ /\ ActiveWatches' # {} /\ timer # NoTimer
     /\ pollTimer' = timer
     /\ pollArmed' = armed

\* remove_subscription calls ensure_poll_timer; a handler that removed
\* nothing leaves the poll timer alone.
PollAfterRemoval(removed) ==
  /\ pollMail' = pollMail
  /\ IF removed = {} THEN UNCHANGED <<pollTimer, pollArmed>>
                     ELSE EnsurePollTimer(pollTimer, pollArmed)

\* Fault: leases are left out of the idle test.
IdleIgnoringLeases ==
  /\ \A r \in Request : status[r] # "active"
  /\ \A k \in Key : fetch[k] = "none"

Idle ==
  /\ \A r \in Request : status[r] # "active"
  /\ \A o \in Owner : external[o] = 0
  /\ \A k \in Key : fetch[k] = "none"

CancelIdle ==
  /\ idleTimer' = NoTimer
  /\ idleArmed' = idleArmed \ {idleTimer}

\* maybe_arm_idle, from the given idle_timer field and running timers.
ArmIdle(timer, armed) ==
  IF policy' = "persistent" \/ timer # NoTimer
  THEN idleTimer' = timer /\ idleArmed' = armed
  ELSE /\ Timer \ (armed \cup idleMail') # {}      \* bound: Timer
       /\ idleTimer' = FreshTimer(armed \cup idleMail')
       /\ idleArmed' = armed \cup {idleTimer'}

\* maybe_idle(State), evaluated on the state a handler ends with.
MaybeIdle ==
  /\ UNCHANGED <<idleMail, policy>>
  /\ \/ Idle' /\ ArmIdle(idleTimer, idleArmed)
     \/ ~Idle' /\ CancelIdle

(***************************************************************************)
(* Subscriptions.                                                          *)
(***************************************************************************)
\* Fault: the refresh option is not looked at.
SnapshotFreshIgnoringRefresh(r) ==
  snapshot[KeyOf[r]] # NoContent /\ ~expired[KeyOf[r]]

SnapshotFresh(r) ==
  /\ snapshot[KeyOf[r]] # NoContent
  /\ r \notin Refresh
  /\ ~expired[KeyOf[r]]

\* start_fetch: one worker per dataset; a second request joins it, whatever
\* that worker was told.  fetch_opts: a worker is forced past the file on disk
\* by a refresh or by a snapshot there is.
StartFetch(keys, refresh) ==
  fetch' = [k \in Key |->
             IF k \notin keys \/ fetch[k] # "none" THEN fetch[k]
             ELSE IF refresh \/ snapshot[k] # NoContent THEN "forced" ELSE "unforced"]

\* Fault: an expired snapshot neither answers nor starts a fetch.
EnsureReadyOnce(r) ==
  IF SnapshotFresh(r)
  THEN selfMsg' = selfMsg \cup {r} /\ fetch' = fetch
  ELSE /\ StartFetch({k \in {KeyOf[r]} : snapshot[k] = NoContent}, r \in Refresh)
       /\ selfMsg' = selfMsg

\* ensure_request_ready and ensure_watch_ready.
EnsureReady(r) ==
  IF SnapshotFresh(r)
  THEN selfMsg' = selfMsg \cup {r} /\ fetch' = fetch
  ELSE StartFetch({KeyOf[r]}, r \in Refresh) /\ selfMsg' = selfMsg

Submit(r) ==
  /\ status[r] = "new"
  /\ status' = [status EXCEPT ![r] = "active"]
  /\ served' = [served EXCEPT ![r] = FALSE]
  /\ joined' = IF r \in Refresh /\ fetch[KeyOf[r]] \in {"unforced", "cached"}
               THEN joined \cup {r} ELSE joined
  /\ CancelIdle
  /\ EnsureReady(r)
  /\ UNCHANGED <<previous, due, seen, reply, clientUp, dataVars, pollVars,
                 idleMail, policy, leaseVars, vm>>

Subscribe(r) ==
  /\ status[r] = "new"
  /\ status' = [status EXCEPT ![r] = "active"]
  /\ due' = [due EXCEPT ![r] = TRUE]
  /\ CancelIdle
  /\ EnsureReady(r)
  /\ pollMail' = pollMail
  /\ EnsurePollTimer(pollTimer, pollArmed)
  /\ UNCHANGED <<previous, seen, reply, served, joined, clientUp, dataVars,
                 idleMail, policy, leaseVars, vm>>

\* remove_subscription, from unsubscribe or from the client's 'DOWN'.
RemoveSubscription(r) ==
  LET removed == {r} \cap (ActiveOneShots \cup ActiveWatches)
  IN /\ status' = [q \in Request |-> IF q \in removed THEN "closed" ELSE status[q]]
     /\ previous' = [q \in Watch |-> IF q \in removed THEN NoContent ELSE previous[q]]
     /\ due' = [q \in Watch |-> due[q] /\ q \notin removed]
     /\ PollAfterRemoval(removed)
     /\ UNCHANGED <<seen, reply, served, joined, selfMsg, clientUp, dataVars, fetch,
                    leaseVars, vm>>
     /\ MaybeIdle

Unsubscribe(r) ==
  /\ status[r] \in {"active", "closed"}
  /\ RemoveSubscription(r)

ClientDown(r) ==
  /\ status[r] = "active"
  /\ ~clientUp[r]
  /\ RemoveSubscription(r)

\* The reply of dispatch_one_shot: the snapshot of the state, marked stale,
\* or an error when the dataset never loaded.
Answer(rs) ==
  reply' = [r \in OneShot |->
             IF r \notin rs THEN reply[r]
             ELSE [count |-> reply[r].count + 1,
                   ok    |-> snapshot'[KeyOf[r]] # NoContent,
                   stale |-> stale'[KeyOf[r]] /\ snapshot'[KeyOf[r]] # NoContent]]

\* evaluate_watch for a set of watches whose dataset has a snapshot.
\* Fault: a change after the first update is not sent.
ShouldSendFirst(r) == previous[r] = NoContent \/ r \in Always

ShouldSend(r) ==
  \/ previous[r] = NoContent
  \/ r \in Always
  \/ previous[r] # snapshot'[KeyOf[r]]

EvaluateWatches(ws) ==
  /\ seen' = [r \in Watch |-> IF r \in ws /\ ShouldSend(r)
                              THEN snapshot'[KeyOf[r]] ELSE seen[r]]
  /\ previous' = [r \in Watch |-> IF r \notin ws THEN previous[r]
                                  ELSE IF r \in Once THEN NoContent
                                  ELSE snapshot'[KeyOf[r]]]
  /\ due' = [r \in Watch |-> due[r] /\ r \notin ws]

\* Fault: an answered one-shot stays registered.
DeliverKeepingAnswered(answered, evaluated) ==
  LET removed == evaluated \cap Once
  IN /\ Answer(answered)
     /\ EvaluateWatches(evaluated)
     /\ status' = [r \in Request |-> IF r \in removed THEN "closed" ELSE status[r]]
     /\ PollAfterRemoval(removed)

\* Answer one-shots and evaluate watches; what is over is removed.
Deliver(answered, evaluated) ==
  LET removed == answered \cup (evaluated \cap Once)
  IN /\ Answer(answered)
     /\ EvaluateWatches(evaluated)
     /\ status' = [r \in Request |-> IF r \in removed THEN "closed" ELSE status[r]]
     /\ PollAfterRemoval(removed)

\* The dispatch_one_shot and evaluate_watch messages to self().
HandleSelfMessage(r) ==
  /\ r \in selfMsg
  /\ selfMsg' = selfMsg \ {r}
  /\ UNCHANGED <<served, joined, clientUp, dataVars, fetch, leaseVars, vm>>
  /\ Deliver({r} \cap ActiveOneShots,
             {q \in {r} \cap ActiveWatches : snapshot[KeyOf[q]] # NoContent})
  /\ MaybeIdle

(***************************************************************************)
(* Fetching and polling.                                                   *)
(***************************************************************************)
\* The fetch worker posts its result, or dies; both reach the server once.
\* Unless it was forced it may take a young enough file for the data of now; a
\* file of any age is the data, marked stale, when the network fails.
Results(k) ==
  {"fetched", "cachedStale", "failed"} \cup (IF fetch[k] = "unforced" THEN {"cached"} ELSE {})

FetchEnds(k) ==
  /\ fetch[k] \in {"unforced", "forced"}
  /\ \E result \in Results(k) : fetch' = [fetch EXCEPT ![k] = result]
  /\ UNCHANGED <<subVars, clientUp, dataVars, pollVars, idleVars, leaseVars, vm>>

\* Fault: the error of a failed fetch is stored as the snapshot.
StoreResultAnyway(k) ==
  /\ IF fetch[k] = "failed"
     THEN snapshot' = [snapshot EXCEPT ![k] = "failed"]
     ELSE \E c \in Content : snapshot' = [snapshot EXCEPT ![k] = c]
  /\ UNCHANGED <<stale, expired, served>>

\* A result replaces the snapshot; a failure keeps it and records last_error.
StoreResult(k) ==
  IF fetch[k] = "failed"
  THEN /\ stale' = [stale EXCEPT ![k] = TRUE]
       /\ UNCHANGED <<snapshot, expired, served>>
  ELSE /\ \E c \in Content : snapshot' = [snapshot EXCEPT ![k] = c]
       /\ stale' = [stale EXCEPT ![k] = (fetch[k] = "cachedStale")]
       /\ expired' = [expired EXCEPT ![k] = FALSE]
       /\ served' = [r \in OneShot |->
                       \/ served[r]
                       \/ fetch[k] = "fetched" /\ KeyOf[r] = k /\ status[r] = "active"]

HandleFetchResult(k) ==
  /\ fetch[k] \in {"fetched", "cached", "cachedStale", "failed"}
  /\ fetch' = [fetch EXCEPT ![k] = "none"]
  /\ StoreResult(k)
  /\ UNCHANGED <<joined, selfMsg, clientUp, leaseVars, vm>>
  /\ Deliver({r \in ActiveOneShots : KeyOf[r] = k},
             {r \in ActiveWatches : KeyOf[r] = k /\ due[r]
                                    /\ snapshot'[k] # NoContent})
  /\ MaybeIdle

\* Fault: a poll starts no fetch.
PollWithoutFetch(t) ==
  /\ t \in pollMail
  /\ pollMail' = pollMail \ {t}
  /\ UNCHANGED <<subVars, clientUp, dataVars, fetch, idleVars, leaseVars, vm>>
  /\ EnsurePollTimer(NoTimer, pollArmed)

\* Fault: a poll does not arm the next one.
PollOnce(t) ==
  /\ t \in pollMail
  /\ pollMail' = pollMail \ {t}
  /\ pollTimer' = NoTimer /\ pollArmed' = pollArmed
  /\ StartFetch({KeyOf[r] : r \in ActiveWatches}, TRUE)
  /\ UNCHANGED <<subVars, clientUp, dataVars, idleVars, leaseVars, vm>>

Poll(t) ==
  /\ t \in pollMail
  /\ pollMail' = pollMail \ {t}
  /\ StartFetch({KeyOf[r] : r \in ActiveWatches}, TRUE)
  /\ UNCHANGED <<subVars, clientUp, dataVars, idleVars, leaseVars, vm>>
  /\ EnsurePollTimer(NoTimer, pollArmed)

PollTimerFires(t) ==
  /\ t \in pollArmed
  /\ pollArmed' = pollArmed \ {t}
  /\ pollMail' = pollMail \cup {t}
  /\ UNCHANGED <<pollTimer, subVars, clientUp, dataVars, fetch, idleVars,
                 leaseVars, vm>>

(***************************************************************************)
(* Activity leases and idle shutdown.                                      *)
(***************************************************************************)
OwnerStarts(o) ==
  /\ ownerUp[o]
  /\ held[o] < MaxLease /\ Len(castQ[o]) < MaxCasts     \* bounds
  /\ held' = [held EXCEPT ![o] = @ + 1]
  /\ castQ' = [castQ EXCEPT ![o] = Append(@, [kind |-> "start", level |-> held[o] + 1])]
  /\ UNCHANGED <<external, ownerUp, subVars, clientUp, dataVars, fetch,
                 pollVars, idleVars, vm>>

OwnerEnds(o) ==
  /\ ownerUp[o]
  /\ held[o] > 0
  /\ Len(castQ[o]) < MaxCasts                           \* bound
  /\ held' = [held EXCEPT ![o] = @ - 1]
  /\ castQ' = [castQ EXCEPT ![o] = Append(@, [kind |-> "end", level |-> held[o] - 1])]
  /\ UNCHANGED <<external, ownerUp, subVars, clientUp, dataVars, fetch,
                 pollVars, idleVars, vm>>

\* Fault: a second lease of an owner is not counted.
HandleActivityStartFlag(o) ==
  /\ castQ[o] # << >>
  /\ Head(castQ[o]).kind = "start"
  /\ castQ' = [castQ EXCEPT ![o] = Tail(@)]
  /\ external' = [external EXCEPT ![o] = 1]
  /\ CancelIdle
  /\ UNCHANGED <<held, ownerUp, subVars, clientUp, dataVars, fetch, pollVars,
                 idleMail, policy, vm>>

\* activity_start and activity_end casts: add_external_activity and
\* remove_external_activity.
HandleActivityStart(o) ==
  /\ castQ[o] # << >>
  /\ Head(castQ[o]).kind = "start"
  /\ castQ' = [castQ EXCEPT ![o] = Tail(@)]
  /\ external' = [external EXCEPT ![o] = @ + 1]
  /\ CancelIdle
  /\ UNCHANGED <<held, ownerUp, subVars, clientUp, dataVars, fetch, pollVars,
                 idleMail, policy, vm>>

\* Fault: the last lease ends without arming the idle timer.
HandleActivityEndQuietly(o) ==
  /\ castQ[o] # << >>
  /\ Head(castQ[o]).kind = "end"
  /\ castQ' = [castQ EXCEPT ![o] = Tail(@)]
  /\ external' = [external EXCEPT ![o] = IF @ = 0 THEN 0 ELSE @ - 1]
  /\ UNCHANGED <<held, ownerUp, subVars, clientUp, dataVars, fetch, pollVars,
                 idleVars, vm>>

HandleActivityEnd(o) ==
  /\ castQ[o] # << >>
  /\ Head(castQ[o]).kind = "end"
  /\ castQ' = [castQ EXCEPT ![o] = Tail(@)]
  /\ external' = [external EXCEPT ![o] = IF @ = 0 THEN 0 ELSE @ - 1]
  /\ UNCHANGED <<held, ownerUp, subVars, clientUp, dataVars, fetch, pollVars, vm>>
  /\ MaybeIdle

OwnerDies(o) ==
  /\ ownerUp[o]
  /\ ownerUp' = [ownerUp EXCEPT ![o] = FALSE]
  /\ held' = [held EXCEPT ![o] = 0]
  /\ UNCHANGED <<external, castQ, subVars, clientUp, dataVars, fetch, pollVars,
                 idleVars, vm>>

\* The owner's 'DOWN' follows its casts: drop_external_activity.
HandleOwnerDown(o) ==
  /\ ~ownerUp[o]
  /\ castQ[o] = << >>
  /\ external[o] > 0
  /\ external' = [external EXCEPT ![o] = 0]
  /\ UNCHANGED <<castQ, held, ownerUp, subVars, clientUp, dataVars, fetch,
                 pollVars, vm>>
  /\ MaybeIdle

\* The supervisor restarts the owner.  It is a new process; the model reuses
\* its name once nothing of the old one is left.
OwnerRestarts(o) ==
  /\ ~ownerUp[o]
  /\ castQ[o] = << >> /\ external[o] = 0
  /\ ownerUp' = [ownerUp EXCEPT ![o] = TRUE]
  /\ UNCHANGED <<external, castQ, held, subVars, clientUp, dataVars, fetch,
                 pollVars, idleVars, vm>>

SetIdlePolicy(p) ==
  /\ policy' = p
  /\ idleMail' = idleMail
  /\ UNCHANGED <<subVars, clientUp, dataVars, fetch, pollVars, leaseVars, vm>>
  /\ IF p = "idle" /\ Idle THEN ArmIdle(NoTimer, idleArmed \ {idleTimer})
                           ELSE CancelIdle

IdleTimerFires(t) ==
  /\ t \in idleArmed
  /\ idleArmed' = idleArmed \ {t}
  /\ idleMail' = idleMail \cup {t}
  /\ UNCHANGED <<idleTimer, policy, subVars, clientUp, dataVars, fetch, pollVars,
                 leaseVars, vm>>

IdleTimeout(t) ==
  /\ t \in idleMail
  /\ idleMail' = idleMail \ {t}
  /\ policy' = policy
  /\ UNCHANGED <<subVars, clientUp, dataVars, fetch, pollVars, leaseVars>>
  /\ IF Idle /\ policy = "idle"
     THEN /\ vm' = "stopping"    \* perform_idle_action
          /\ idleTimer' = NoTimer
          /\ idleArmed' = idleArmed
     ELSE /\ vm' = vm
          /\ ArmIdle(NoTimer, idleArmed)

(***************************************************************************)
(* Time, clients and the supervisor.                                       *)
(***************************************************************************)
SnapshotExpires(k) ==
  /\ snapshot[k] # NoContent /\ ~expired[k]
  /\ expired' = [expired EXCEPT ![k] = TRUE]
  /\ UNCHANGED <<snapshot, stale, subVars, clientUp, fetch, pollVars, idleVars,
                 leaseVars, vm>>

WatchFallsDue(r) ==
  /\ status[r] = "active" /\ ~due[r]
  /\ due' = [due EXCEPT ![r] = TRUE]
  /\ UNCHANGED <<status, previous, seen, reply, served, joined, selfMsg, clientUp,
                 dataVars, fetch, pollVars, idleVars, leaseVars, vm>>

ClientDies(r) ==
  /\ clientUp[r]
  /\ clientUp' = [clientUp EXCEPT ![r] = FALSE]
  /\ UNCHANGED <<subVars, dataVars, fetch, pollVars, idleVars, leaseVars, vm>>

\* A crash of the server takes its linked fetch workers, its timers and its
\* mailbox with it; wfcli_sup starts it again with init/1.  The owners of
\* leases are other processes and keep running.
Restart ==
  /\ vm = "up"
  /\ status' = [r \in Request |-> IF status[r] = "active" THEN "lost" ELSE status[r]]
  /\ previous' = [r \in Watch |-> NoContent]
  /\ due' = [r \in Watch |-> FALSE]
  /\ selfMsg' = {}
  /\ snapshot' = [k \in Key |-> NoContent]
  /\ stale' = [k \in Key |-> FALSE]
  /\ expired' = [k \in Key |-> FALSE]
  /\ fetch' = [k \in Key |-> "none"]
  /\ pollTimer' = NoTimer /\ pollArmed' = {} /\ pollMail' = {}
  /\ \E p \in Policies : policy' = p                   \* as configured
  /\ idleMail' = {}
  /\ IF policy' = "persistent"
     THEN idleTimer' = NoTimer /\ idleArmed' = {}
     ELSE idleTimer' = FreshTimer({}) /\ idleArmed' = {idleTimer'}
  /\ external' = [o \in Owner |-> 0]
  /\ castQ' = [o \in Owner |-> << >>]
  /\ UNCHANGED <<seen, reply, served, joined, clientUp, held, ownerUp, vm>>

Init ==
  /\ status = [r \in Request |-> "new"]
  /\ previous = [r \in Watch |-> NoContent]
  /\ due = [r \in Watch |-> FALSE]
  /\ seen = [r \in Watch |-> NoContent]
  /\ reply = [r \in OneShot |-> NoReply]
  /\ served = [r \in OneShot |-> FALSE]
  /\ joined = {}
  /\ selfMsg = {}
  /\ clientUp = [r \in Request |-> TRUE]
  /\ snapshot = [k \in Key |-> NoContent]
  /\ stale = [k \in Key |-> FALSE]
  /\ expired = [k \in Key |-> FALSE]
  /\ fetch = [k \in Key |-> "none"]
  /\ pollTimer = NoTimer /\ pollArmed = {} /\ pollMail = {}
  /\ policy \in Policies
  /\ IF policy = "persistent"
     THEN idleTimer = NoTimer /\ idleArmed = {}
     ELSE idleTimer = FreshTimer({}) /\ idleArmed = {idleTimer}
  /\ idleMail = {}
  /\ external = [o \in Owner |-> 0]
  /\ castQ = [o \in Owner |-> << >>]
  /\ held = [o \in Owner |-> 0]
  /\ ownerUp = [o \in Owner |-> TRUE]
  /\ vm = "up"

ServerStep ==
  \/ \E r \in OneShot : Submit(r)
  \/ \E r \in Watch : Subscribe(r)
  \/ \E r \in Request : Unsubscribe(r)
  \/ \E r \in Request : ClientDown(r)
  \/ \E r \in Request : HandleSelfMessage(r)
  \/ \E k \in Key : HandleFetchResult(k)
  \/ \E t \in Timer : Poll(t)
  \/ \E o \in Owner : HandleActivityStart(o)
  \/ \E o \in Owner : HandleActivityEnd(o)
  \/ \E o \in Owner : HandleOwnerDown(o)
  \/ \E p \in Policies : SetIdlePolicy(p)
  \/ \E t \in Timer : IdleTimeout(t)

WorldStep ==
  \/ \E k \in Key : FetchEnds(k)
  \/ \E k \in Key : SnapshotExpires(k)
  \/ \E r \in Watch : WatchFallsDue(r)
  \/ \E r \in Request : ClientDies(r)
  \/ \E t \in Timer : PollTimerFires(t)
  \/ \E t \in Timer : IdleTimerFires(t)
  \/ \E o \in Owner : OwnerStarts(o)
  \/ \E o \in Owner : OwnerEnds(o)
  \/ \E o \in Owner : OwnerDies(o)
  \/ \E o \in Owner : OwnerRestarts(o)

Next == ServerStep \/ WorldStep

\* The server handles every message it receives, fetch workers end (network
\* calls time out) and timers fire.
Fairness ==
  /\ \A r \in Request : WF_vars(HandleSelfMessage(r)) /\ WF_vars(ClientDown(r))
  /\ \A k \in Key : WF_vars(HandleFetchResult(k)) /\ WF_vars(FetchEnds(k))
  /\ \A t \in Timer : WF_vars(Poll(t)) /\ WF_vars(PollTimerFires(t))
  /\ \A r \in Watch : WF_vars(WatchFallsDue(r))

Spec == Init /\ [][Next]_vars
FairSpec == Spec /\ Fairness
RestartSpec == Init /\ [][Next \/ Restart]_vars

(***************************************************************************)
(* What the service promises.                                              *)
(***************************************************************************)
\* A one-shot is answered at most once, and a request that was answered is no
\* longer registered: neither a second fetch result nor the queued
\* dispatch_one_shot message answers it again.
OneReply ==
  \A r \in OneShot :
    reply[r] # NoReply => reply[r].count = 1 /\ status[r] = "closed"

\* No waiter is forgotten: whatever a registered one-shot waits for, its own
\* message or the fetch of its dataset, is under way.
WaiterIsServed ==
  \A r \in ActiveOneShots : r \in selfMsg \/ fetch[KeyOf[r]] # "none"

\* A refresh is answered with data from the network that the server took after
\* the refresh came, or with data marked stale: it never gets the snapshot
\* that was there.  The one exception is a refresh that joined a fetch free to
\* use the file on disk (start_fetch/3 looks at no option of the joiner).
RefreshHonoured ==
  \A r \in OneShot \cap Refresh :
    reply[r].ok /\ ~reply[r].stale => served[r] \/ r \in joined

\* The option refresh forces a network refresh (wfcli_mcp_tools.erl:73), whatever is under
\* way when the request comes.
RefreshForcesFetch ==
  \A r \in OneShot \cap Refresh : reply[r].ok /\ ~reply[r].stale => served[r]

\* What the server compares the next snapshot with is what the client of the
\* watch was last sent, so an unsent change is never taken for a sent one.
ClientSeesPrevious ==
  \A r \in ActiveWatches : previous[r] # NoContent => seen[r] = previous[r]

\* Every request gets what it was promised: one answer, fresh if it asked for that and
\* joined no fetch that may use the disk, and every change of its dataset (ensure_request_ready/4, evaluate_watch/3).
RequestsServed == OneReply /\ WaiterIsServed /\ RefreshHonoured /\ ClientSeesPrevious

\* While there are watches the poll timer the server remembers is running or
\* its message is queued: the poll chain never dies under a live watch.
PollScheduled ==
  ActiveWatches # {} => pollTimer \in pollArmed \cup pollMail

\* An idle daemon whose policy is to stop has an idle timer under way, so no
\* path to idleness forgets to arm it.
IdleTimerPending ==
  Idle /\ policy = "idle" /\ vm = "up" => idleTimer \in idleArmed \cup idleMail

\* Whatever the state of the server waits for a timer, the timer is under way
\* (ensure_poll_timer/1, maybe_idle/1).
TimersPending == PollScheduled /\ IdleTimerPending

\* The leases the server counts for a live owner are the leases it holds, up
\* to the casts still in flight.
LeaseAccounting ==
  \A o \in Owner : ownerUp[o] /\ castQ[o] = << >> => external[o] = held[o]

\* The daemon decides to stop only when no request is registered and no owner
\* holds a lease the server has been told of.
StopsIdle ==
  vm' # vm => /\ ActiveOneShots = {} /\ ActiveWatches = {}
              /\ \A o \in Owner : held[o] = 0 \/ castQ[o] # << >>

\* The server knows the leases of working owners after every step, and does not stop under
\* them (add_external_activity/2, handle_info idle_timeout).
LeasesHonoured == [][LeaseAccounting' /\ StopsIdle]_vars

\* A one-shot that was accepted and neither answered nor given up.
Unanswered == ActiveOneShots # {}

\* A watch whose client was not told the content its dataset has.
Behind == \E r \in ActiveWatches : snapshot[KeyOf[r]] \notin {NoContent, seen[r]}

=============================================================================
