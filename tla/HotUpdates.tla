----------------------------- MODULE HotUpdates -----------------------------
(***************************************************************************)
(* Two updaters of one daemon.  update_in_progress/1 of wfcli_daemon looks *)
(* at the state of its own process, so a wfcli_daemon restarted while an   *)
(* updater runs starts another one beside it, and the two share the        *)
(* services, the loaded code and the list of pending migrations.           *)
(*                                                                         *)
(* HotUpdate is the first updater, Second another copy of it.  What stops  *)
(* a service, and what a service does, both of them see.                   *)
(***************************************************************************)
EXTENDS HotUpdate

VARIABLES
  pc2, job2, todo2, suspended2, notes2, reply2, outcome2,  \* of the second updater
  overlapped    \* the two have run at once

ASSUME FirstAssumption == Me = "first"

Second == INSTANCE HotUpdate WITH
  Me <- "second", pc <- pc2, job <- job2, todo <- todo2, suspended <- suspended2,
  notes <- notes2, reply <- reply2, outcome <- outcome2

secondVars == <<pc2, job2, todo2, suspended2, notes2, reply2, outcome2>>
updatesVars == <<vars, secondVars, overlapped>>

(***************************************************************************)
(* A process that one updater stops leaves the other's call unanswered,    *)
(* and is not the one that the other has noted.                            *)
(***************************************************************************)
FirstStep ==
  /\ UpdaterStep
  /\ notes2' = [i \in DOMAIN notes2 |->
                  [notes2[i] EXCEPT !.replaced = @ \/ notes2[i].name \in Stops]]
  /\ reply2' = IF \E s \in Stops : Second!Called(s) THEN "error" ELSE reply2
  /\ UNCHANGED <<pc2, job2, todo2, suspended2, outcome2, overlapped>>

SecondStep ==
  /\ Second!UpdaterStep
  /\ notes' = [i \in DOMAIN notes |->
                 [notes[i] EXCEPT !.replaced = @ \/ notes[i].name \in Second!Stops]]
  /\ reply' = IF \E s \in Second!Stops : Called(s) THEN "error" ELSE reply
  /\ UNCHANGED <<pc, job, todo, suspended, outcome, overlapped>>

FirstTimesOut(s) == TimesOut(s) /\ UNCHANGED <<secondVars, overlapped>>
SecondTimesOut(s) == Second!TimesOut(s) /\ UNCHANGED <<updaterVars, overlapped>>

Handles(s) ==
  /\ HandleSystemMessage(s) /\ Second!HandleSystemMessage(s)
  /\ overlapped' = overlapped

Crashes(s) == Crash(s) /\ Second!Crash(s) /\ overlapped' = overlapped

CallOfDaemonReturns == CallReturns /\ UNCHANGED <<secondVars, overlapped>>

(***************************************************************************)
(* wfcli_daemon takes no account of an updater that it has not started.    *)
(* Bound: two updaters at once.                                            *)
(***************************************************************************)
FirstStarts ==
  /\ ArtifactCheck \/ ManualUpdate
  /\ overlapped' = (overlapped \/ pc2 # "none")
  /\ UNCHANGED secondVars

SecondStarts ==
  /\ pc # "none"
  /\ Second!ArtifactCheck \/ Second!ManualUpdate
  /\ overlapped' = TRUE
  /\ UNCHANGED updaterVars

FirstEnds == UpdateEnds /\ UNCHANGED <<secondVars, overlapped>>
SecondEnds == Second!UpdateEnds /\ UNCHANGED <<updaterVars, overlapped>>

UpdatesInit ==
  /\ Init /\ Second!Init
  /\ overlapped = FALSE

\* What is under way goes on.
Proceeds ==
  \/ FirstStep
  \/ SecondStep
  \/ \E s \in Service : FirstTimesOut(s) \/ SecondTimesOut(s)
  \/ \E s \in Service : Handles(s)
  \/ CallOfDaemonReturns
  \/ \E s \in Service : EndHandler(s) /\ UNCHANGED <<secondVars, overlapped>>
  \/ FirstEnds
  \/ SecondEnds

\* Handlers that no updater asked for, and new builds.
Works ==
  /\ \/ \E s \in Service : BeginHandler(s) \/ CallService(s)
     \/ Stage
  /\ UNCHANGED <<secondVars, overlapped>>

UpdatesNext ==
  \/ Proceeds
  \/ \E s \in Service : Crashes(s)
  \/ Works
  \/ FirstStarts
  \/ SecondStarts

UpdatesSpec == UpdatesInit /\ [][UpdatesNext]_updatesVars

\* An updater runs; a sys call is answered, after the finitely many messages before it, or
\* times out; the calls of wfcli_daemon end, by their timeout if not by an answer.
UpdatesFairness ==
  /\ WF_updatesVars(FirstStep) /\ WF_updatesVars(SecondStep)
  /\ WF_updatesVars(CallOfDaemonReturns)
  /\ \A s \in Service : /\ SF_updatesVars(Handles(s))
                        /\ WF_updatesVars(FirstTimesOut(s))
                        /\ WF_updatesVars(SecondTimesOut(s))

(***************************************************************************)
(* What the updates promise.                                               *)
(***************************************************************************)
\* As long as no two updaters have run at once: a failed migration is not
\* forgotten, and no service that answers in time stays suspended.
AloneSafe == ~overlapped => MigratedOrPending /\ PromptServicesResumed

\* Until then the new build identity is committed only when every service has migrated.
AloneCommitsMigrated == [][~overlapped => CommitsMigrated]_updatesVars

\* However many run, later updates are not refused for one that is over.
NeverLockedOut == NoUpdateLockout /\ Second!NoUpdateLockout

\* However many run, each comes to a result.
EachUpdateFinishes == EveryUpdateFinishes /\ Second!EveryUpdateFinishes

=============================================================================
