------------------------------ MODULE HotUpdate ------------------------------
(***************************************************************************)
(* wfcli_hot_update and the handlers of wfcli_daemon that start it: the    *)
(* update of a running daemon to a newly staged build.  The updater is a   *)
(* process of its own.  It suspends the stateful services one after the    *)
(* other, loads the code, has each service convert its state, resumes      *)
(* them, and restarts those whose conversion failed.                       *)
(*                                                                         *)
(* A service handles a system message only between two handlers of its     *)
(* own, and sys calls time out, which leaves the message in its mailbox.   *)
(* Every build changes every service, so one number is the version of all  *)
(* the loaded modules.                                                     *)
(*                                                                         *)
(* The module is about one updater, Me.  Its process outlives a crash of   *)
(* wfcli_daemon, which then knows of no update and may start another:      *)
(* HotUpdates puts two of these modules together, which share the services *)
(* and the persistent terms.                                               *)
(***************************************************************************)
EXTENDS Integers, FiniteSets, Sequences, SequencesExt

CONSTANTS
  Me,           \* the name of this updater
  Service,      \* the services of wfcli_sup:child_specs/0
  Daemon,       \* wfcli_daemon, which starts updates and calls the others
  Order,        \* the services in the order of child_specs/0
  Slow,         \* services with a handler that outlasts SYS_TIMEOUT_MS
  MaxVersion,   \* bound: builds staged
  MaxStale      \* bound: system messages left in a mailbox when an update starts

ASSUME ServiceAssumption ==
  /\ Daemon \in Service
  /\ Slow \subseteq Service \ {Daemon}
  /\ Order \in Seq(Service)
  /\ \A s \in Service : \E i \in DOMAIN Order : Order[i] = s
  /\ \A i, j \in DOMAIN Order : Order[i] = Order[j] => i = j

ASSUME MeAssumption == Me \in {"first", "second"}

ASSUME BoundAssumption == MaxVersion \in Nat /\ MaxStale \in Nat

ASSUME NameAssumption == "idle" \notin Service /\ "busy" \notin Service

VARIABLES
  proc,       \* a service's process: mode, work and version of its state
  sysQ,       \* system messages in the mailbox of a service
  loaded,     \* the version of the loaded modules
  pending,    \* persistent_term pending_migrations: the services, and whether
              \* the process has changed since
  oldCode,    \* the modules have old code, which a load would have to purge
  build,      \* persistent_term of the build identity
  staged,     \* the artifact on disk
  known,      \* artifact_id of wfcli_daemon
  update,     \* the updater wfcli_daemon has under way
  pc,         \* where the updater process is
  job,        \* what it was started for: artifact id, build it read, and by whom
  todo,       \* processes it has yet to suspend, migrate or resume
  suspended,  \* processes it has suspended
  notes,      \* the pending migrations as it found them, yet to be recovered
  reply,      \* of its current sys call
  outcome     \* the result it has come to

serviceVars == <<proc, sysQ>>
codeVars    == <<loaded, pending, oldCode, build>>
daemonVars  == <<known, update>>
updaterVars == <<pc, job, todo, suspended, notes, reply, outcome>>
vars == <<serviceVars, codeVars, staged, daemonVars, updaterVars>>

Version == 0..MaxVersion
Updater == {"first", "second"}

TypeOK ==
  /\ proc \in [Service -> [mode : {"running", "suspended", "down"},
                           work : {"idle", "busy"} \cup Service, data : Version]]
  /\ \A s \in Service : \A i \in DOMAIN sysQ[s] :
       sysQ[s][i] \in [op : {"suspend", "change_code", "resume"}, by : Updater,
                       live : BOOLEAN, aged : BOOLEAN]
  /\ loaded \in Version /\ build \in Version /\ staged \in Version /\ known \in Version
  /\ \A i \in DOMAIN pending : pending[i] \in [name : Service, replaced : BOOLEAN]
  /\ \A i \in DOMAIN notes : notes[i] \in [name : Service, replaced : BOOLEAN]
  /\ oldCode \in BOOLEAN
  /\ update \in {"none"} \cup Updater
  /\ pc \in {"none", "read", "recoverFirst", "decide", "suspend", "change", "resume",
             "unwind", "recover", "finish", "done"}
  /\ job \in [id : Version, target : Version, kind : {"artifact", "manual"}]
  /\ todo \in Seq(Service) /\ suspended \in Seq(Service)
  /\ reply \in {"none", "waiting", "ok", "error"}
  /\ outcome \in {"ok", "error"}

(***************************************************************************)
(* The services.                                                           *)
(***************************************************************************)
Answers(s) == proc[s].mode = "running" /\ proc[s].work = "idle"

\* A sys call that the updater waits for is in the mailbox of s.
Waits(m) == m.live /\ m.by = Me
Called(s) == \E i \in DOMAIN sysQ[s] : Waits(sysQ[s][i])

\* Notes of migrations name processes: s is another one now.
Replace(q, s) == [i \in DOMAIN q |-> [q[i] EXCEPT !.replaced = @ \/ q[i].name = s]]

\* A new process for s, with the state init/1 of the loaded code gives it.
\* init/1 of wfcli_daemon takes the artifact on disk for the installed one.
NewProcess(s) ==
  /\ proc' = [proc EXCEPT ![s] = [mode |-> "running", work |-> "idle", data |-> loaded]]
  /\ sysQ' = [sysQ EXCEPT ![s] = << >>]
  /\ known' = IF s = Daemon THEN staged ELSE known
  /\ update' = IF s = Daemon THEN "none" ELSE update

\* A handler crashes and the supervisor restarts the service.
Crash(s) ==
  /\ proc[s].mode = "running"
  /\ NewProcess(s)
  /\ pending' = Replace(pending, s) /\ notes' = Replace(notes, s)
  /\ reply' = IF Called(s) THEN "error" ELSE reply
  /\ UNCHANGED <<loaded, oldCode, build, staged, pc, job, todo, suspended, outcome>>

BeginHandler(s) ==
  /\ s \in Slow /\ Answers(s)
  /\ proc' = [proc EXCEPT ![s].work = "busy"]
  /\ UNCHANGED <<sysQ, codeVars, staged, daemonVars, updaterVars>>

EndHandler(s) ==
  /\ proc[s].work = "busy"
  /\ proc' = [proc EXCEPT ![s].work = "idle"]
  /\ UNCHANGED <<sysQ, codeVars, staged, daemonVars, updaterVars>>

\* The status handler of wfcli_daemon calls the services one by one; other
\* handlers of it call one service.
CallService(s) ==
  /\ s # Daemon /\ Answers(Daemon)
  /\ proc' = [proc EXCEPT ![Daemon].work = s]
  /\ UNCHANGED <<sysQ, codeVars, staged, daemonVars, updaterVars>>

\* The call returns or times out after five seconds, and the handler ends or
\* calls the next service.
CallReturns ==
  LET s == proc[Daemon].work
      after == {Order[j] : j \in {j \in DOMAIN Order :
                  \E i \in 1..(j - 1) : Order[i] = s}} \ {Daemon}
  IN /\ s \in Service
     /\ \E next \in after \cup {"idle"} :
          proc' = [proc EXCEPT ![Daemon].work = next]
     /\ sysQ' = IF Answers(s) \/ proc[s].mode = "down" THEN sysQ
                ELSE [sysQ EXCEPT ![Daemon] =
                        [i \in DOMAIN @ |-> [@[i] EXCEPT !.aged = TRUE]]]
     /\ UNCHANGED <<codeVars, staged, daemonVars, updaterVars>>

\* sys:handle_system_msg, for the first system message in the mailbox.  A
\* process that is not suspended does not convert its state, and code_change/3
\* may fail.
HandleSystemMessage(s) ==
  LET m == Head(sysQ[s])
      Reply(r) == reply' = IF Waits(m) THEN r ELSE reply
  IN /\ sysQ[s] # << >>
     /\ proc[s].work = "idle"
     /\ sysQ' = [sysQ EXCEPT ![s] = Tail(@)]
     /\ \/ /\ m.op \in {"suspend", "resume"}
           /\ proc' = [proc EXCEPT ![s].mode =
                         IF m.op = "suspend" THEN "suspended" ELSE "running"]
           /\ Reply("ok")
        \/ /\ m.op = "change_code" /\ proc[s].mode = "suspended"
           /\ proc' = [proc EXCEPT ![s].data = loaded]
           /\ Reply("ok")
        \/ /\ m.op = "change_code"
           /\ proc' = proc
           /\ Reply("error")
     /\ UNCHANGED <<codeVars, staged, daemonVars, pc, job, todo, suspended, notes, outcome>>

\* A service that may keep a caller waiting for SYS_TIMEOUT_MS.
\* wfcli_daemon does when a call of it has timed out since and another one is
\* waiting.
Late(s) ==
  \/ s \in Slow
  \/ /\ proc[s].work \in Service
     /\ ~Answers(proc[s].work) /\ proc[proc[s].work].mode # "down"
     /\ \E i \in DOMAIN sysQ[s] : Waits(sysQ[s][i]) /\ sysQ[s][i].aged

GivenUp(q) == [i \in DOMAIN q |-> IF Waits(q[i]) THEN [q[i] EXCEPT !.live = FALSE] ELSE q[i]]

\* Fault: sys:suspend/1, which waits for ever, in place of sys:suspend/2.
TimesOutUnlessSuspending(s) ==
  /\ Called(s) /\ Late(s) /\ pc # "suspend"
  /\ sysQ' = [sysQ EXCEPT ![s] = GivenUp(@)]
  /\ reply' = "error"
  /\ UNCHANGED <<proc, codeVars, staged, daemonVars, pc, job, todo, suspended, notes, outcome>>

\* The updater gives up waiting; its message stays in the mailbox.
TimesOut(s) ==
  /\ Called(s) /\ Late(s)
  /\ sysQ' = [sysQ EXCEPT ![s] = GivenUp(@)]
  /\ reply' = "error"
  /\ UNCHANGED <<proc, codeVars, staged, daemonVars, pc, job, todo, suspended, notes, outcome>>

(***************************************************************************)
(* The updater process: wfcli_hot_update:apply/1.                          *)
(***************************************************************************)
\* safe_sys_call, to the first process of the list.
Call(op) ==
  /\ todo # << >> /\ reply = "none"
  /\ IF proc[Head(todo)].mode = "down"
     THEN reply' = "error" /\ sysQ' = sysQ
     ELSE /\ reply' = "waiting"
          /\ sysQ' = [sysQ EXCEPT ![Head(todo)] =
                        Append(@, [op |-> op, by |-> Me, live |-> TRUE, aged |-> FALSE])]
  /\ UNCHANGED <<proc, codeVars, staged, daemonVars, pc, job, todo, suspended, notes, outcome>>

\* read_directories and the checks of the bundles, which may fail: the build now
\* on disk.  recover_pending/0 then looks at the pending migrations once.
ReadBuild ==
  /\ pc = "read"
  /\ job' = [job EXCEPT !.target = staged]
  /\ \/ pc' = "recoverFirst" /\ notes' = pending /\ outcome' = outcome
     \/ pc' = "done" /\ outcome' = "error" /\ notes' = notes
  /\ UNCHANGED <<serviceVars, codeVars, staged, daemonVars, todo, suspended, reply>>

\* Fault: a live process counts as restarted.
RecoveredIfAlive(p) == proc[p.name].mode # "down"

\* The service has been restarted since its migration was noted.
Recovered(p) == proc[p.name].mode # "down" /\ p.replaced

\* The process that the next step of the updater stops.
Stops ==
  {s \in Service : /\ pc \in {"recoverFirst", "recover"} /\ notes # << >>
                   /\ ~Recovered(Head(notes)) /\ s = Head(notes).name}

\* recover_pending/1: restart what is still the process that was not migrated,
\* and write the rest of the list it goes through.
RecoverPending ==
  /\ pc \in {"recoverFirst", "recover"}
  /\ notes # << >>
  /\ UNCHANGED <<loaded, oldCode, build, staged, job, todo, suspended, reply>>
  /\ LET p == Head(notes)
     IN \/ /\ Recovered(p)
           /\ notes' = Tail(notes) /\ pending' = notes'
           /\ UNCHANGED <<serviceVars, daemonVars, pc, outcome>>
        \/ /\ ~Recovered(p)
           /\ NewProcess(p.name)
           /\ notes' = Tail(notes) /\ pending' = notes'
           /\ UNCHANGED <<pc, outcome>>
        \/ /\ ~Recovered(p) /\ p.name # Daemon    \* its init/1 cannot fail
           /\ proc' = [proc EXCEPT ![p.name].mode = "down", ![p.name].work = "idle"]
           /\ sysQ' = [sysQ EXCEPT ![p.name] = << >>]
           /\ pending' = Replace(pending, p.name) /\ notes' = << >>
           /\ pc' = "done" /\ outcome' = "error"
           /\ UNCHANGED daemonVars

\* recover_pending([]) erases the list.
RecoverEnds ==
  /\ pc \in {"recoverFirst", "recover"} /\ notes = << >>
  /\ pending' = << >>
  /\ pc' = IF pc = "recover" THEN "finish" ELSE "decide"
  /\ UNCHANGED <<serviceVars, loaded, oldCode, build, staged, daemonVars, job, todo,
                 suspended, notes, reply, outcome>>

\* stateful_processes: the services that are up, in their order.
Living ==
  LET up == {i \in DOMAIN Order : proc[Order[i]].mode # "down"}
      Place(i) == Cardinality({j \in up : j <= i})
  IN [k \in 1..Cardinality(up) |-> Order[CHOOSE i \in up : Place(i) = k]]

\* apply_recovered: old code is purged and the services of changed modules are
\* listed, unless it cannot be purged or the new code not be prepared.
Decide ==
  /\ pc = "decide" /\ loaded # job.target
  /\ \/ /\ pc' = "suspend" /\ outcome' = outcome
        /\ todo' = Living /\ oldCode' = FALSE
     \/ /\ pc' = "done" /\ outcome' = "error" /\ todo' = todo
        /\ oldCode' \in {oldCode, FALSE}
  /\ UNCHANGED <<serviceVars, loaded, pending, build, staged, daemonVars, job, suspended,
                 notes, reply>>

\* reconcile_unchanged, when every module is loaded already.
Reconcile ==
  /\ pc = "decide" /\ loaded = job.target
  /\ pc' = "done"
  /\ \/ outcome' = "ok" /\ build' = job.target
     \/ outcome' = "error" /\ build' = build      \* wfcli_local_api does not restart
  /\ UNCHANGED <<serviceVars, loaded, pending, oldCode, staged, daemonVars, job, todo,
                 suspended, notes, reply>>

\* suspend_all: when a suspend fails, those before it are resumed.
SuspendReturns ==
  /\ pc = "suspend" /\ reply \in {"ok", "error"}
  /\ reply' = "none"
  /\ IF reply = "ok"
     THEN /\ suspended' = Append(suspended, Head(todo)) /\ todo' = Tail(todo)
          /\ UNCHANGED <<pc, outcome>>
     ELSE /\ pc' = "unwind" /\ outcome' = "error"
          /\ todo' = suspended /\ suspended' = suspended
  /\ UNCHANGED <<serviceVars, codeVars, staged, daemonVars, job, notes>>

\* apply_prepared, once all are suspended: note what has to migrate and load,
\* which fails when another load left old code since the purge.  From here on,
\* what was suspended last is resumed first.
Load ==
  /\ pc = "suspend" /\ todo = << >>
  /\ \/ /\ ~oldCode /\ oldCode' = TRUE
        /\ pending' = [i \in DOMAIN suspended |->
                         [name |-> suspended[i],
                          replaced |-> proc[suspended[i]].mode = "down"]]
        /\ loaded' = job.target
        /\ pc' = "change" /\ todo' = suspended /\ outcome' = outcome
     \/ /\ pending' = << >> /\ UNCHANGED <<loaded, oldCode>>
        /\ pc' = "resume" /\ outcome' = "error" /\ todo' = Reverse(suspended)
  /\ UNCHANGED <<serviceVars, build, staged, daemonVars, job, suspended, notes, reply>>

\* change_code_all: what is first in the pending list is struck off for the
\* process that migrated.  Without one the updater crashes, but for the after
\* clause that resumes the services.
ChangeReturns ==
  /\ pc = "change" /\ reply \in {"ok", "error"}
  /\ reply' = "none"
  /\ \/ /\ reply = "ok" /\ pending # << >>
        /\ pending' = Tail(pending) /\ todo' = Tail(todo)
        /\ UNCHANGED <<pc, outcome>>
     \/ /\ reply = "ok" /\ pending = << >>
        /\ pc' = "unwind" /\ outcome' = "error" /\ todo' = Reverse(suspended)
        /\ pending' = pending
     \/ /\ reply = "error"
        /\ pc' = "resume" /\ outcome' = "error" /\ todo' = Reverse(suspended)
        /\ pending' = pending
  /\ UNCHANGED <<serviceVars, loaded, oldCode, build, staged, daemonVars, job, suspended,
                 notes>>

\* All are migrated; wfcli_sup:ensure_children may fail.
Migrated ==
  /\ pc = "change" /\ todo = << >>
  /\ pc' = "resume" /\ outcome' \in {"ok", "error"} /\ todo' = Reverse(suspended)
  /\ UNCHANGED <<serviceVars, codeVars, staged, daemonVars, job, suspended, notes, reply>>

\* resume_all does not look at the result.
ResumeReturns ==
  /\ pc \in {"resume", "unwind"} /\ reply \in {"ok", "error"}
  /\ reply' = "none" /\ todo' = Tail(todo)
  /\ UNCHANGED <<serviceVars, codeVars, staged, daemonVars, pc, job, suspended, notes, outcome>>

\* recover_pending/0 follows, unless a suspend failed or the updater crashed.
Resumed ==
  /\ pc \in {"resume", "unwind"} /\ todo = << >>
  /\ IF pc = "resume" THEN pc' = "recover" /\ notes' = pending
                      ELSE pc' = "done" /\ notes' = notes
  /\ suspended' = << >>
  /\ UNCHANGED <<serviceVars, codeVars, staged, daemonVars, job, todo, reply, outcome>>

\* maybe_restart_runtime_workers, and the new identity when all went well.
Finish ==
  /\ pc = "finish"
  /\ pc' = "done"
  /\ \/ /\ outcome = "ok" /\ build' = job.target /\ outcome' = "ok"
     \/ build' = build /\ outcome' = "error"
  /\ UNCHANGED <<serviceVars, loaded, pending, oldCode, staged, daemonVars, job, todo,
                 suspended, notes, reply>>

(***************************************************************************)
(* wfcli_daemon.                                                           *)
(***************************************************************************)
Stage ==
  /\ staged < MaxVersion                                     \* bound
  /\ staged' = staged + 1
  /\ UNCHANGED <<serviceVars, codeVars, daemonVars, updaterVars>>

\* spawn_monitor of the updater: update_in_progress/1 looks at the state of this
\* wfcli_daemon only.  Me is the name of no other updater.
StartUpdater(kind) ==
  /\ Answers(Daemon)
  /\ update = "none" /\ pc = "none"
  /\ \A s \in Service : Len(sysQ[s]) <= MaxStale            \* bound
  /\ update' = Me
  /\ pc' = "read"
  /\ job' = [id |-> staged, target |-> loaded, kind |-> kind]
  /\ outcome' = "ok"
  /\ UNCHANGED <<serviceVars, codeVars, staged, known, todo, suspended, notes, reply>>

ArtifactCheck == staged # known /\ StartUpdater("artifact")

ManualUpdate == StartUpdater("manual")

\* The artifact this wfcli_daemon takes for installed after the updater's message.
Installed == IF update = Me /\ job.kind = "artifact" /\ outcome = "ok" THEN job.id ELSE known

\* Fault: the state notes that the last update failed.
UpdateEndsNotingFailure ==
  /\ pc = "done" /\ (update = Me => Answers(Daemon))
  /\ pc' = "none"
  /\ update' = IF update # Me THEN update ELSE IF outcome = "ok" THEN "none" ELSE "failed"
  /\ known' = Installed
  /\ UNCHANGED <<serviceVars, codeVars, staged, job, todo, suspended, notes, reply, outcome>>

\* The updater's message, or its 'DOWN'.  They go to the process that started
\* it: a wfcli_daemon restarted since gets neither.
UpdateEnds ==
  /\ pc = "done" /\ (update = Me => Answers(Daemon))
  /\ pc' = "none"
  /\ update' = IF update = Me THEN "none" ELSE update
  /\ known' = Installed
  /\ UNCHANGED <<serviceVars, codeVars, staged, job, todo, suspended, notes, reply, outcome>>

Init ==
  /\ proc = [s \in Service |-> [mode |-> "running", work |-> "idle", data |-> 0]]
  /\ sysQ = [s \in Service |-> << >>]
  /\ loaded = 0 /\ pending = << >> /\ oldCode = FALSE /\ build = 0
  /\ staged = 0 /\ known = 0 /\ update = "none"
  /\ pc = "none" /\ job = [id |-> 0, target |-> 0, kind |-> "manual"]
  /\ todo = << >> /\ suspended = << >> /\ notes = << >>
  /\ reply = "none" /\ outcome = "ok"

UpdaterStep ==
  \/ ReadBuild
  \/ RecoverPending
  \/ RecoverEnds
  \/ Decide
  \/ Reconcile
  \/ pc = "suspend" /\ Call("suspend")
  \/ SuspendReturns
  \/ Load
  \/ pc = "change" /\ Call("change_code")
  \/ ChangeReturns
  \/ Migrated
  \/ pc \in {"resume", "unwind"} /\ Call("resume")
  \/ ResumeReturns
  \/ Resumed
  \/ Finish

\* The steps of an updater that is alone.
Next ==
  \/ UpdaterStep
  \/ \E s \in Service : HandleSystemMessage(s)
  \/ \E s \in Service : TimesOut(s)
  \/ \E s \in Service : Crash(s)
  \/ \E s \in Service : BeginHandler(s)
  \/ \E s \in Service : EndHandler(s)
  \/ \E s \in Service : CallService(s)
  \/ CallReturns
  \/ Stage
  \/ ArtifactCheck
  \/ ManualUpdate
  \/ UpdateEnds

(***************************************************************************)
(* What the update promises.                                               *)
(***************************************************************************)
\* A service that runs with state of another version than the loaded code is
\* noted as pending, and will not be taken for restarted: a failed migration
\* is not forgotten (developer/daemon.md, "stay pending until the affected
\* services restart").
MigratedOrPending ==
  \A s \in Service : proc[s].mode = "running" /\ proc[s].data # loaded =>
    \E i \in DOMAIN pending : pending[i] = [name |-> s, replaced |-> FALSE]

\* The new build identity is committed only when every service is up and has
\* state of the new version, however many updates failed before.
CommitsMigrated ==
  build' # build => /\ loaded' = build'
                    /\ \A s \in Service : /\ proc'[s].mode # "down"
                                          /\ proc'[s].data = build'

\* When the updater is over, no service that answers in time is suspended,
\* wherever the update failed.
PromptServicesResumed ==
  pc \in {"none", "done"} =>
    \A s \in Service \ (Slow \cup {Daemon}) : proc[s].mode # "suspended"

\* wfcli_daemon does not refuse updates for one that is over: what it takes for
\* under way has a process or a result in its mailbox.
NoUpdateLockout == update = Me => pc # "none"

\* An update comes to a result, though the updater and wfcli_daemon may both be
\* waiting for services that are suspended.
EveryUpdateFinishes == (pc # "none") ~> (pc \in {"none", "done"})

(***************************************************************************)
(* What the documentation says of it, and the code does not keep.          *)
(***************************************************************************)
\* docs/developer/daemon.md:157, "Load changed modules, invoke code_change/3,
\* and resume services": when the updater is over no service is suspended for
\* good.  A suspend that has timed out still suspends the service when it comes
\* to read it, and nobody resumes it.
EveryServiceResumed ==
  pc \in {"none", "done"} => \A s \in Service : proc[s].mode # "suspended"

=============================================================================
