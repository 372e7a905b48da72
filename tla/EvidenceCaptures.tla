-------------------------- MODULE EvidenceCaptures --------------------------
(***************************************************************************)
(* Recordings of relic rewards (relic/evidence.rs, runtime/jobs.rs, work.rs, *)
(* capture.rs, observation/ui_capture.rs).  The user arms one; the next      *)
(* reward triggers it, and a job of its own takes a screenshot, freezes what *)
(* the game shows out of its memory, and writes both, within one budget of   *)
(* time and bytes that can also be cancelled.  Each recording publishes how  *)
(* far it is, and the last it publishes is its outcome.                      *)
(***************************************************************************)
EXTENDS CompanionConstants, Naturals, Sequences, FiniteSets, SequencesExt

VARIABLES
  game,      \* the run of the game; even: it has ended
  notice,    \* its end is still to be heard of
  armed,     \* the recording that waits for a reward, 0: none
  arms,      \* recordings so far
  jobs,      \* per recording its job
  said,      \* per recording what it has published
  shutdown   \* "no", "joining" or "done"

captureVars == <<game, notice, armed, arms, jobs, said, shutdown>>

Recording == 1..MaxArms
Outcomes == {"expired", "cancelled", "failed", "partial", "saved"}

\* image and ui: the run of the game they are of, 0 if there is none.
NoJob == [at |-> "none", game |-> 0, image |-> 0, ui |-> 0,
          cancelled |-> FALSE, written |-> FALSE]

Running == {r \in Recording : jobs[r].at \notin {"none", "done"}}
IsCurrent(g) == game = g
Shown == IF game % 2 = 1 THEN game ELSE 0

Say(r, state) == said' = [said EXCEPT ![r] = Append(@, state)]
CancelledArm == IF armed = 0 THEN UNCHANGED said ELSE Say(armed, "cancelled")
CancelAll == jobs' = [r \in Recording |-> IF r \in Running THEN [jobs[r] EXCEPT !.cancelled = TRUE]
                                          ELSE jobs[r]]

(***************************************************************************)
(* The coordinator.                                                        *)
(***************************************************************************)
\* A recording that is armed already is forgotten.
Arms ==
  /\ shutdown = "no" /\ arms < MaxArms
  /\ arms' = arms + 1 /\ armed' = arms + 1 /\ Say(arms + 1, "armed")
  /\ UNCHANGED <<game, notice, jobs, shutdown>>

Expires ==
  /\ shutdown = "no" /\ armed # 0
  /\ Say(armed, "expired") /\ armed' = 0
  /\ UNCHANGED <<game, notice, arms, jobs, shutdown>>

\* The user cancels, or the game has ended.
Cancels ==
  /\ shutdown = "no"
  /\ notice' \in {notice, FALSE}
  /\ armed # 0 \/ Running # {} \/ notice # notice'
  /\ CancelledArm /\ armed' = 0 /\ CancelAll
  /\ UNCHANGED <<game, arms, shutdown>>

\* Debug output was lost, the end of the game perhaps with it: only the arm is cancelled.
Gap ==
  /\ shutdown = "no" /\ notice /\ notice' = FALSE
  /\ CancelledArm /\ armed' = 0
  /\ UNCHANGED <<game, arms, jobs, shutdown>>

\* PendingCapture is told to be finished before it is handed over, so that a job that is
\* refused, and dropped, publishes no second outcome.
Rejects(r) == said' = [said EXCEPT ![r] = @ \o <<"triggered", "failed">>]
RejectsTwice(r) == said' = [said EXCEPT ![r] = @ \o <<"triggered", "cancelled", "failed">>]
NotStarted(r) == Rejects(r)

\* A reward of a game, which may be over when it is heard of.
Triggers ==
  /\ shutdown = "no" /\ armed # 0 /\ armed' = 0
  /\ \E g \in {h \in 1..game : h % 2 = 1} :
       \/ /\ Cardinality(Running) < MaxJobs
          /\ jobs' = [jobs EXCEPT ![armed] = [NoJob EXCEPT !.at = "waits", !.game = g]]
          /\ Say(armed, "triggered")
       \/ NotStarted(armed) /\ UNCHANGED jobs \* also when no thread can be started
  /\ UNCHANGED <<game, notice, arms, shutdown>>

\* Jobs::shutdown: cancel, then join.
ShutsDown ==
  /\ shutdown = "no" /\ shutdown' = "joining"
  /\ CancelledArm /\ armed' = 0 /\ CancelAll
  /\ UNCHANGED <<game, notice, arms>>

Joins ==
  /\ shutdown = "joining" /\ Running = {} /\ shutdown' = "done"
  /\ UNCHANGED <<game, notice, armed, arms, jobs, said>>

(***************************************************************************)
(* The jobs.  The budget of a job may be spent at every step, and every step *)
(* may fail.                                                                 *)
(***************************************************************************)
Set(r, j) == jobs' = [jobs EXCEPT ![r] = j]
Rest == UNCHANGED <<game, notice, armed, arms, shutdown>>

Ends(r, state) == Set(r, [jobs[r] EXCEPT !.at = "done"]) /\ Say(r, state)
EndsBadly(r) == Ends(r, IF jobs[r].cancelled THEN "cancelled" ELSE "failed")

\* 650 ms for the screen to come to rest.
Waits(r) ==
  /\ jobs[r].at = "waits"
  /\ \/ /\ ~jobs[r].cancelled
        /\ Set(r, [jobs[r] EXCEPT !.at = "image"]) /\ Say(r, "capturing_image")
     \/ EndsBadly(r)
  /\ Rest

\* Is the game the one the reward was of?
Checks(r) ==
  /\ jobs[r].at = "image"
  /\ Set(r, [jobs[r] EXCEPT !.at = IF IsCurrent(jobs[r].game) THEN "window" ELSE "shot"])
  /\ UNCHANGED said /\ Rest

\* The window of whatever game there is now, if it can be found.
TakesImage(r) ==
  /\ jobs[r].at = "window"
  /\ \E image \in {0, IF jobs[r].cancelled THEN 0 ELSE Shown} :
       Set(r, [jobs[r] EXCEPT !.at = "shot", !.image = image])
  /\ UNCHANGED said /\ Rest

\* Session::read looks at the session, then the memory of the game is opened and read.
OpensMemory(r) ==
  /\ jobs[r].at = "shot" /\ Say(r, "capturing_memory")
  /\ \E at \in {"memory", "frozen"} :
       /\ at = "memory" => ~jobs[r].cancelled /\ IsCurrent(jobs[r].game)
       /\ Set(r, [jobs[r] EXCEPT !.at = at])
  /\ Rest

Unverified(j) == TRUE
Verified(j) == IsCurrent(j.game)
Revalidated(j) == Verified(j)

\* Typed reads, or the graph of the heap, of the process that has the number now; and the
\* session once more.
Freezes(r) ==
  /\ jobs[r].at = "memory"
  /\ \E ui \in {0, IF Revalidated(jobs[r]) /\ ~jobs[r].cancelled THEN Shown ELSE 0} :
       Set(r, [jobs[r] EXCEPT !.at = "frozen", !.ui = ui])
  /\ UNCHANGED said /\ Rest

BeginsToWrite(r) ==
  /\ jobs[r].at = "frozen"
  /\ Set(r, [jobs[r] EXCEPT !.at = "files"]) /\ Say(r, "writing")
  /\ Rest

\* A new directory, the image, and the memory.
WritesFiles(r) ==
  /\ jobs[r].at = "files"
  /\ \/ EndsBadly(r)
     \/ \E ok \in {~jobs[r].cancelled, FALSE} :
          Set(r, [jobs[r] EXCEPT !.at = "metadata", !.written = ok]) /\ UNCHANGED said
  /\ Rest

\* The metadata are written whatever has failed.
WritesMetadata(r) ==
  /\ jobs[r].at = "metadata"
  /\ \/ EndsBadly(r)
     \/ jobs[r].written
        /\ Ends(r, IF jobs[r].image = 0 \/ jobs[r].ui = 0 THEN "partial" ELSE "saved")
  /\ Rest

Silent(r) == Set(r, [jobs[r] EXCEPT !.at = "done"]) /\ UNCHANGED said
Failed(r) == Ends(r, "failed")
Dropped(r) == Failed(r)

\* PendingCapture is dropped by a panic.
Panics(r) == r \in Running /\ Dropped(r) /\ Rest

Works(r) ==
  \/ Waits(r) \/ Checks(r) \/ TakesImage(r) \/ OpensMemory(r) \/ Freezes(r)
  \/ BeginsToWrite(r) \/ WritesFiles(r) \/ WritesMetadata(r) \/ Panics(r)

(***************************************************************************)
(* The game.                                                               *)
(***************************************************************************)
GameStartsOrEnds ==
  /\ game < 2 * MaxGames /\ game' = game + 1
  /\ notice' = (notice \/ game % 2 = 1)
  /\ UNCHANGED <<armed, arms, jobs, said, shutdown>>

(***************************************************************************)
(* The specification.                                                      *)
(***************************************************************************)
CapturesInit ==
  /\ game = 1 /\ notice = FALSE /\ armed = 0 /\ arms = 0
  /\ jobs = [r \in Recording |-> NoJob] /\ said = [r \in Recording |-> <<>>]
  /\ shutdown = "no"

CapturesNext ==
  \/ Arms \/ Expires \/ Cancels \/ Gap \/ Triggers \/ ShutsDown \/ Joins \/ GameStartsOrEnds
  \/ \E r \in Recording : Works(r)

\* A job runs.
CapturesFairness == \A r \in Recording : WF_captureVars(Works(r))

CapturesSpec == CapturesInit /\ [][CapturesNext]_captureVars /\ CapturesFairness

(***************************************************************************)
(* Properties.                                                             *)
(***************************************************************************)
\* Every variable keeps its type.
CapturesTypeOK ==
  /\ game \in 1..(2 * MaxGames) /\ notice \in BOOLEAN
  /\ armed \in 0..arms /\ arms \in 0..MaxArms
  /\ \A r \in Recording : jobs[r].image % 2 = 1 \/ jobs[r].image = 0
  /\ Cardinality(Running) <= MaxJobs
  /\ shutdown \in {"no", "joining", "done"}

\* The outcome of a recording is the last it says, and it says one, whether it runs out of
\* budget, is cancelled, refused, panics or is shut down.
OneOutcome ==
  \A r \in Recording : \A i \in 1..Len(said[r]) :
    said[r][i] \in Outcomes => i = Len(said[r])

\* A recording that has begun ends with an outcome.
Underway ==
  {r \in Recording : "triggered" \in ToSet(said[r]) /\ Last(said[r]) \notin Outcomes}

\* What is called saved is a screenshot and a memory of the one game the reward was of.
SavedIsWhole ==
  \A r \in Recording :
    said[r] # <<>> /\ Last(said[r]) = "saved" =>
      jobs[r].image = jobs[r].game /\ jobs[r].ui = jobs[r].game

\* What users are told of a recording is what there is of it.
CapturesHonest == OneOutcome /\ SavedIsWhole

=============================================================================
