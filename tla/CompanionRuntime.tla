-------------------------- MODULE CompanionRuntime --------------------------
(***************************************************************************)
(* The process of wfcompanion (runtime/mod.rs): the services it starts and *)
(* joins, the launched game (runtime/game.rs), its signals                 *)
(* (runtime/signals.rs), and its replacement by a build that is installed  *)
(* while it runs (runtime/reload.rs).                                      *)
(*                                                                         *)
(* Builds are numbered as they are installed, so a number stands for the   *)
(* stamp and for the hash of a file.  Whether screens, captures and the    *)
(* user let the companion be idle is the matter of RelicScenes, whether    *)
(* the publications are fit to be handed over that of InventorySync; here  *)
(* both are choices.                                                       *)
(***************************************************************************)
EXTENDS CompanionConstants, Naturals, FiniteSets

VARIABLES
  stage,      \* where run() is
  launch,     \* launch mode
  child,      \* the launched game: none, runs, exited, gone (reaped)
  monitor,    \* the thread that waits for it: off, on, done
  running,    \* the build that runs
  file,       \* the build that is installed
  sound,      \* the builds that accept a handoff
  tried,      \* the builds whose turn has come
  rejected,   \* the candidate of the last attempt
  watch,      \* reload::Watch: [on, failed, previous, found]
  gate,       \* reload::Gate: [requested, approved]
  idle,       \* no scene or capture is under way, nor a user at the overlay
  stopping,   \* the flag all threads watch
  signals,    \* [on, requested]: the listener, and what it has heard
  sent,       \* signals sent so far, and whether one waits for a listener
  services,   \* the services that run
  made,       \* what the observer and the relic jobs have published
  accepted,   \* what of it the connection has taken
  state,      \* reload::State in the hands of run()
  troubles    \* counts towards MaxRuntimeFaults

buildVars == <<file, sound>>
reloadVars == <<running, tried, rejected, watch, gate, idle>>
gameVars == <<launch, child, monitor>>
signalVars == <<signals, sent>>
dataVars == <<made, accepted, state>>
runtimeVars == <<stage, gameVars, buildVars, reloadVars, stopping, signalVars, services, dataVars,
                 troubles>>

Services == {"daemon", "observer", "relic"}
Producers == {"observer", "relic"}
Empty == [p \in Producers |-> 0]
Ready == stage # "stopped"

Trouble == troubles < MaxRuntimeFaults /\ troubles' = troubles + 1

(***************************************************************************)
(* The world.                                                              *)
(***************************************************************************)
Installs ==
  /\ file < MaxBuilds
  /\ file' = file + 1
  /\ sound' \in {sound, sound \cup {file + 1}}
  /\ UNCHANGED <<stage, gameVars, reloadVars, stopping, signalVars, services, dataVars, troubles>>

GameExits ==
  /\ child = "runs" /\ child' = "exited"
  /\ UNCHANGED <<stage, launch, monitor, buildVars, reloadVars, stopping, signalVars, services,
                 dataVars, troubles>>

\* SIGTERM or SIGINT: heard by the listener; kept by the handler of the process while there
\* is none; and deadly for a process that has not installed the handler.
Signalled ==
  /\ Ready /\ sent.count < MaxSignals
  /\ IF signals.on
       THEN /\ signals' = [signals EXCEPT !.requested = TRUE]
            /\ stopping' = TRUE
            /\ sent' = [sent EXCEPT !.count = @ + 1]
            /\ UNCHANGED <<stage, services>>
       ELSE /\ sent' = [sent EXCEPT !.count = @ + 1, !.waits = stage = "again"]
            /\ stage' = IF stage = "again" THEN stage ELSE "stopped"
            /\ services' = IF stage = "again" THEN services ELSE {}
            /\ UNCHANGED <<signals, stopping>>
  /\ UNCHANGED <<gameVars, buildVars, reloadVars, dataVars, troubles>>

(***************************************************************************)
(* The threads.                                                            *)
(***************************************************************************)
\* The monitor reaps the game and stops the companion.
GameReaped ==
  /\ monitor = "on" /\ child = "exited"
  /\ child' = "gone" /\ monitor' = "done" /\ stopping' = TRUE
  /\ UNCHANGED <<stage, launch, buildVars, reloadVars, signalVars, services, dataVars, troubles>>

\* The watcher compares what is installed with what it has seen, once a second.
WatchLooks ==
  /\ watch.on /\ ~watch.failed /\ watch.found = 0 /\ ~stopping
  /\ file # watch.previous
  /\ IF file # running /\ file # rejected
       THEN /\ watch' = [watch EXCEPT !.previous = file, !.found = file]
            /\ gate' = [gate EXCEPT !.requested = TRUE]
       ELSE watch' = [watch EXCEPT !.previous = file] /\ UNCHANGED gate
  /\ UNCHANGED <<stage, gameVars, buildVars, running, tried, rejected, idle, stopping, signalVars,
                 services, dataVars, troubles>>

\* It cannot open, stat or read a file, and ends: nobody looks for builds any more.
WatchFails ==
  /\ watch.on /\ ~watch.failed /\ watch.found = 0 /\ Trouble
  /\ watch' = [watch EXCEPT !.failed = TRUE]
  /\ UNCHANGED <<stage, gameVars, buildVars, running, tried, rejected, gate, idle, stopping,
                 signalVars, services, dataVars>>

\* The coordinator begins or ends something, the overlay becomes interactive or is left.
IdleChanges ==
  /\ "relic" \in services
  /\ idle' = ~idle
  /\ UNCHANGED <<stage, gameVars, buildVars, running, tried, rejected, watch, gate, stopping,
                 signalVars, services, dataVars, troubles>>

\* Gate::quiesce_if_idle, by the coordinator.
Approves ==
  /\ "relic" \in services /\ idle /\ gate.requested /\ ~stopping
  /\ gate' = [gate EXCEPT !.approved = TRUE]
  /\ stopping' = TRUE
  /\ UNCHANGED <<stage, gameVars, buildVars, running, tried, rejected, watch, idle, signalVars,
                 services, dataVars, troubles>>

\* The observer publishes until it stops; a job of the coordinator publishes its outcome even
\* while it is joined.
Publishes ==
  /\ \E p \in Producers \cap services :
       /\ p = "observer" => ~stopping
       /\ made[p] < MaxMade
       /\ made' = [made EXCEPT ![p] = @ + 1]
       /\ accepted' = IF "daemon" \in services THEN [accepted EXCEPT ![p] = made'[p]] ELSE accepted
  /\ UNCHANGED <<stage, gameVars, buildVars, reloadVars, stopping, signalVars, services, state,
                 troubles>>

(***************************************************************************)
(* run().                                                                  *)
(***************************************************************************)
WatchInstalled == [on |-> TRUE, failed |-> FALSE, previous |-> file, found |-> 0]

\* Watch::start: what is installed is compared with what runs.
WatchStarted == [on |-> TRUE, failed |-> FALSE, previous |-> running, found |-> 0]

\* An iteration begins: signals, the services with the state that was kept.
Starts ==
  /\ stage \in {"first", "resumed", "again"}
  /\ stage' = "started"
  /\ signals' = [on |-> TRUE, requested |-> sent.waits]
  /\ stopping' = sent.waits
  /\ sent' = [sent EXCEPT !.waits = FALSE]
  /\ gate' = [requested |-> FALSE, approved |-> FALSE] /\ idle' = TRUE
  /\ services' = Services
  /\ accepted' = state /\ state' = Empty
  /\ UNCHANGED <<gameVars, buildVars, running, tried, rejected, watch, made, troubles>>

MonitoredAtLaunch(kid) == IF child = "none" /\ kid # "none" THEN "on" ELSE "off"
Monitored(kid) == IF kid = "none" THEN "off" ELSE "on"

\* The game is launched, or watched again, and the watcher started.
Runs ==
  /\ stage = "started" /\ ~stopping
  /\ stage' = "running"
  /\ child' = IF launch /\ child = "none" THEN "runs" ELSE child
  /\ monitor' = Monitored(child')
  /\ watch' = WatchStarted
  /\ UNCHANGED <<launch, buildVars, running, tried, rejected, gate, idle, stopping, signalVars,
                 services, dataVars, troubles>>

\* A start that fails, and a stop that comes during the start: Core is dropped, which joins
\* the services.
GivesUp ==
  /\ stage = "started"
  /\ stopping \/ Trouble
  /\ stopping => UNCHANGED troubles
  /\ stage' = "stopped" /\ services' = {} /\ stopping' = TRUE
  /\ signals' = [signals EXCEPT !.on = FALSE]
  /\ UNCHANGED <<gameVars, buildVars, reloadVars, sent, dataVars>>

\* overlay::run and wait_without_overlay return.
Stops ==
  /\ stage = "running" /\ stopping
  /\ stage' = "joining"
  /\ UNCHANGED <<gameVars, buildVars, reloadVars, stopping, signalVars, services, dataVars,
                 troubles>>

DaemonFirst == IF services = Services THEN "daemon" ELSE IF "observer" \in services THEN "observer" ELSE "relic"

\* Core::shutdown: the connection is joined last.
NextJoined ==
  IF "observer" \in services THEN "observer" ELSE IF "relic" \in services THEN "relic" ELSE "daemon"

JoinsNext ==
  /\ stage = "joining" /\ services # {}
  /\ services' = services \ {NextJoined}
  /\ state' = IF NextJoined = "daemon" THEN accepted ELSE state
  /\ UNCHANGED <<stage, gameVars, buildVars, reloadVars, stopping, signalVars, made, accepted,
                 troubles>>

\* The monitor and the watcher are joined, and run() decides; it ends with the error of a
\* watcher that failed.
Decides ==
  /\ stage = "joining" /\ services = {}
  /\ monitor' = "off"
  /\ watch' = [watch EXCEPT !.on = FALSE]
  /\ IF watch.failed \/ ~gate.approved \/ signals.requested \/ (launch /\ child = "gone")
       THEN stage' = "stopped" /\ UNCHANGED <<tried, rejected>>
       ELSE /\ stage' = "validating"
            /\ rejected' = watch.found
            /\ tried' = tried \cup {watch.found}
  /\ UNCHANGED <<launch, child, buildVars, running, gate, idle, stopping, signalVars, services,
                 dataVars, troubles>>

Candidate == watch.found

\* Candidate::replace: the candidate is asked whether it takes the handoff; a signal cancels.
Probes ==
  /\ stage = "validating"
  /\ \/ ~signals.requested /\ Candidate \in sound /\ stage' = "comparing" /\ UNCHANGED troubles
     \/ stage' = "refused" /\ (signals.requested \/ Candidate \notin sound) /\ UNCHANGED troubles
     \/ stage' = "refused" /\ Trouble
  /\ UNCHANGED <<gameVars, buildVars, reloadVars, stopping, signalVars, services, dataVars>>

\* What is installed is hashed again, which takes its time.
Compares ==
  /\ stage = "comparing"
  /\ stage' = IF file = Candidate THEN "exec" ELSE "refused"
  /\ UNCHANGED <<gameVars, buildVars, reloadVars, stopping, signalVars, services, dataVars,
                 troubles>>

\* fexecve: the candidate takes the place of the process; nothing else of it remains.
Replaces ==
  /\ stage = "exec"
  /\ stage' = "resumed"
  /\ running' = Candidate /\ rejected' = 0
  /\ watch' = [watch EXCEPT !.found = 0]
  /\ launch' = (child # "none")
  /\ signals' = [on |-> FALSE, requested |-> FALSE]
  /\ UNCHANGED <<child, monitor, buildVars, tried, gate, idle, stopping, sent, services, dataVars,
                 troubles>>

StateForgotten == Empty
StateKept == state

\* The old code goes on with child and state, unless a signal has been heard; the listener is
\* dropped.
Refused ==
  /\ stage = "refused"
  /\ stage' = IF signals.requested THEN "stopped" ELSE "again"
  /\ state' = StateKept
  /\ signals' = [on |-> FALSE, requested |-> FALSE]
  /\ UNCHANGED <<gameVars, buildVars, reloadVars, stopping, sent, services, made, accepted,
                 troubles>>

RuntimeInit ==
  /\ stage = "first" /\ launch \in BOOLEAN /\ child = "none" /\ monitor = "off"
  /\ running = 1 /\ file = 1 /\ sound = {1} /\ tried = {} /\ rejected = 0
  /\ watch = [on |-> FALSE, failed |-> FALSE, previous |-> 1, found |-> 0]
  /\ gate = [requested |-> FALSE, approved |-> FALSE] /\ idle = TRUE
  /\ stopping = FALSE
  /\ signals = [on |-> FALSE, requested |-> FALSE]
  /\ sent = [count |-> 0, waits |-> FALSE]
  /\ services = {}
  /\ made = Empty /\ accepted = Empty /\ state = Empty
  /\ troubles = 0

Main ==
  \/ Starts \/ Runs \/ GivesUp \/ Stops \/ JoinsNext \/ Decides
  \/ Probes \/ Compares \/ Replaces \/ Refused

RuntimeNext ==
  \/ Main
  \/ Installs
  \/ GameExits
  \/ Signalled
  \/ GameReaped
  \/ WatchLooks
  \/ WatchFails
  \/ IdleChanges
  \/ Approves
  \/ Publishes

\* The threads go on; an idle companion comes to look at the gate.  Nothing makes it idle.
RuntimeFairness ==
  /\ WF_runtimeVars(Main) /\ WF_runtimeVars(GameReaped) /\ WF_runtimeVars(WatchLooks)
  /\ WF_runtimeVars(Approves)

RuntimeSpec == RuntimeInit /\ [][RuntimeNext]_runtimeVars /\ RuntimeFairness

(***************************************************************************)
(* Properties.                                                             *)
(***************************************************************************)
\* Every variable keeps its type.
RuntimeTypeOK ==
  /\ stage \in {"first", "started", "running", "joining", "validating", "comparing", "exec",
                "refused", "again", "resumed", "stopped"}
  /\ child \in {"none", "runs", "exited", "gone"} /\ monitor \in {"off", "on", "done"}
  /\ {launch, stopping, watch.on, watch.failed, gate.requested, gate.approved, idle} \subseteq BOOLEAN
  /\ {running, file} \cup sound \subseteq 1..MaxBuilds
  /\ {rejected, watch.found, watch.previous} \cup tried \subseteq 0..MaxBuilds
  /\ services \subseteq Services
  /\ \A p \in Producers : accepted[p] <= made[p] /\ state[p] <= made[p]

\* What the producers have published is with the connection or kept for the next one, through
\* joins, refused replacements and replacements (Core::shutdown, Handoff).
ObservationKept ==
  stage # "stopped" => (IF "daemon" \in services THEN accepted ELSE state) = made

\* A build that stays installed gets its turn, whatever was installed or refused before it
\* (Watch::start, rejected), unless the companion stops, or its watcher has failed.
HadItsTurn == stage = "stopped" \/ watch.failed \/ running = file \/ file \in tried

\* The end of the launched game is the end of the companion, also when it comes during a
\* replacement (Game::resume, stop_monitor).
OutlivesGame == child \in {"exited", "gone"} /\ stage # "stopped"

\* Developer guide: "SIGTERM, Ctrl+C, partial startup and error exits follow the same cleanup
\* path".  A signal stops the companion.
StopHonoured == (sent.count > 0) ~> stage = "stopped"
=============================================================================
