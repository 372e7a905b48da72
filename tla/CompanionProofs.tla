-------------------------- MODULE CompanionProofs --------------------------
(***************************************************************************)
(* Proofs about six parts of wfcompanion.  CompanionRuntime: what was      *)
(* published is never forgotten, for any number of builds, signals, faults *)
(* and publications.  EvidenceCaptures: a recording says one outcome, its  *)
(* last word, and what it calls saved is of the game of the reward, for    *)
(* any number of recordings, jobs and runs of the game.  DaemonRequests    *)
(* and CompanionDiagnostics: a request is in one place or answered, and so *)
(* is the right to send a sample, for any number of callers and clients.   *)
(* Observer: what waits is of the session that is held, and the end of a   *)
(* game is told before the next, for any number of games and faults.       *)
(* OverlaySurface: what is shown is the present scene, for any number of   *)
(* buffers and events.                                                     *)
(***************************************************************************)
EXTENDS CompanionRuntime, EvidenceCaptures, CompanionDiagnostics, Observer, OverlaySurface,
        SequenceTheorems, FiniteSetTheorems, TLAPS

-----------------------------------------------------------------------------
(***************************************************************************)
(* The inductive invariant.  The services run from the start of an         *)
(* iteration until it joins them, and the connection is the last that is   *)
(* joined, so whoever publishes has it to publish to.                      *)
(***************************************************************************)
Counters == [Producers -> Nat]

Served == {"started", "running"}

KeptInv ==
  /\ stage # "stopped" => made \in Counters /\ accepted \in Counters /\ state \in Counters
  /\ services \subseteq Services
  /\ stage \in Served => services = Services
  /\ stage \notin Served \cup {"joining"} => services = {}
  /\ services # {} => "daemon" \in services
  /\ ObservationKept

LEMMA KeptInit == RuntimeInit => KeptInv
BY DEF RuntimeInit, KeptInv, Counters, Served, Empty, ObservationKept

\* A publication is accepted at once, because the connection still runs.
LEMMA KeptPublishes ==
  ASSUME KeptInv, Publishes
  PROVE  KeptInv'
<1>1. PICK p \in Producers \cap services :
        /\ made' = [made EXCEPT ![p] = @ + 1]
        /\ accepted' = IF "daemon" \in services THEN [accepted EXCEPT ![p] = made'[p]]
                                                ELSE accepted
  BY DEF Publishes
<1>2. UNCHANGED <<stage, services, state>>
  BY DEF Publishes
<1>3. "daemon" \in services /\ stage \in Served \cup {"joining"}
  BY <1>1 DEF KeptInv
<1>4. stage # "stopped"
  BY <1>3 DEF Served
<1>5. made \in Counters /\ accepted = made
  BY <1>3, <1>4 DEF KeptInv, ObservationKept
<1>6. made' \in Counters /\ accepted' = made'
  BY <1>1, <1>3, <1>5 DEF Counters
<1>7. QED
  BY <1>2, <1>3, <1>4, <1>6 DEF KeptInv, ObservationKept

\* The services are joined one by one, the connection last, and what it has accepted is
\* kept.
LEMMA KeptJoins ==
  ASSUME KeptInv, JoinsNext
  PROVE  KeptInv'
<1>1. /\ stage = "joining" /\ services # {} /\ services' = services \ {NextJoined}
      /\ state' = IF NextJoined = "daemon" THEN accepted ELSE state
      /\ UNCHANGED <<stage, made, accepted>>
  BY DEF JoinsNext
<1>2. "daemon" \in services /\ accepted = made
  BY <1>1 DEF KeptInv, ObservationKept
<1>3. CASE NextJoined = "daemon"
  <2>1. services = {"daemon"}
    BY <1>2, <1>3 DEF NextJoined, KeptInv, Services
  <2>2. services' = {} /\ state' = made'
    BY <1>1, <1>2, <1>3, <2>1
  <2>3. QED
    BY <1>1, <1>2, <2>2 DEF KeptInv, ObservationKept, Served
<1>4. CASE NextJoined # "daemon"
  <2>1. "daemon" \in services' /\ state' = state
    BY <1>1, <1>2, <1>4
  <2>2. QED
    BY <1>1, <1>2, <2>1 DEF KeptInv, ObservationKept, Served
<1>5. QED
  BY <1>3, <1>4

LEMMA KeptStep == KeptInv /\ [RuntimeNext]_runtimeVars => KeptInv'
<1> SUFFICES ASSUME KeptInv, [RuntimeNext]_runtimeVars PROVE KeptInv'
  OBVIOUS
<1> USE DEF dataVars
<1>1. CASE Starts
  BY <1>1 DEF Starts, KeptInv, ObservationKept, Served, Services, Counters, Empty
<1>2. CASE Runs
  BY <1>2 DEF Runs, KeptInv, ObservationKept, Served
<1>3. CASE GivesUp
  BY <1>3 DEF GivesUp, KeptInv, ObservationKept, Served
<1>4. CASE Stops
  BY <1>4 DEF Stops, KeptInv, ObservationKept, Served
<1>5. CASE JoinsNext
  BY <1>5, KeptJoins
<1>6. CASE Decides
  BY <1>6 DEF Decides, KeptInv, ObservationKept, Served
<1>7. CASE Probes \/ Compares \/ Replaces
  BY <1>7 DEF Probes, Compares, Replaces, KeptInv, ObservationKept, Served
<1>8. CASE Refused
  BY <1>8 DEF Refused, StateKept, KeptInv, ObservationKept, Served
<1>9. CASE Signalled
  BY <1>9 DEF Signalled, Ready, KeptInv, ObservationKept, Served
<1>10. CASE Publishes
  BY <1>10, KeptPublishes
<1>11. CASE Installs \/ GameExits \/ GameReaped \/ WatchLooks \/ Approves
  BY <1>11 DEF Installs, GameExits, GameReaped, WatchLooks, Approves, KeptInv,
     ObservationKept
<1>11a. CASE WatchFails \/ IdleChanges
  BY <1>11a DEF WatchFails, IdleChanges, KeptInv, ObservationKept
<1>12. CASE UNCHANGED runtimeVars
  BY <1>12 DEF runtimeVars, KeptInv, ObservationKept
<1>13. QED
  BY <1>1, <1>2, <1>3, <1>4, <1>5, <1>6, <1>7, <1>8, <1>9, <1>10, <1>11, <1>11a,
     <1>12 DEF RuntimeNext, Main

\* Through joins, refused replacements, replacements and signals, what the observer and the
\* relic jobs have published is with the connection or kept for the next one.
THEOREM ObservationAlwaysKept == RuntimeSpec => []ObservationKept
<1>1. KeptInv => ObservationKept
  BY DEF KeptInv
<1>2. QED
  BY <1>1, KeptInit, KeptStep, PTL DEF RuntimeSpec

-----------------------------------------------------------------------------
(***************************************************************************)
(* The inductive invariant.  A recording that may still speak has said no  *)
(* outcome.  The games a job meets come one after the other: an image is   *)
(* of the game of the reward or of a later one, and memory is read only    *)
(* while the game of the reward runs, so both are of it if there is memory *)
(* at all.                                                                 *)
(***************************************************************************)
Stages == {"none", "waits", "image", "window", "shot", "memory", "frozen", "files", "metadata",
           "done"}
Unread == {"none", "waits", "image", "window", "shot", "memory"}
Job == [at : Stages, game : Nat, image : Nat, ui : Nat, cancelled : BOOLEAN, written : BOOLEAN]

Words == Outcomes \cup {"armed", "triggered", "capturing_image", "capturing_memory", "writing"}

CapturesType ==
  /\ game \in Nat /\ arms \in 0..MaxArms /\ armed \in 0..arms
  /\ jobs \in [Recording -> Job] /\ said \in [Recording -> Seq(Words)]

Open(s) == \A i \in 1..Len(s) : s[i] \notin Outcomes
OutcomeLast(s) == \A i \in 1..Len(s) : s[i] \in Outcomes => i = Len(s)

\* What a job has, while g is the run of the game.
Timely(j, g) ==
  /\ j.game <= g
  /\ j.image # 0 => j.game <= j.image /\ j.image <= g
  /\ j.ui # 0 => j.ui = j.game /\ (j.image # 0 => j.image = j.game)
  /\ j.at \in Unread => j.ui = 0

\* What has been said, s, fits the job j; silent: the recording has not begun.
Fits(j, s, silent) ==
  /\ silent => j.at = "none" /\ Open(s)
  /\ j.at \notin {"none", "done"} => Open(s)
  /\ OutcomeLast(s)
  /\ s # <<>> /\ Last(s) = "saved" => j.at = "done" /\ j.image = j.game /\ j.ui = j.game

Unbegun(r) == r = armed \/ r > arms

CapturesInv ==
  /\ CapturesType
  /\ \A r \in Recording : Timely(jobs[r], game) /\ Fits(jobs[r], said[r], Unbegun(r))

-----------------------------------------------------------------------------
\* An outcome may be said once to those who have heard none.
LEMMA SaysMore ==
  ASSUME NEW S, NEW s \in Seq(S), NEW x \in S, Open(s)
  PROVE  /\ Append(s, x) \in Seq(S) /\ Append(s, x) # <<>>
         /\ OutcomeLast(Append(s, x)) /\ Last(Append(s, x)) = x
         /\ x \notin Outcomes => Open(Append(s, x))
<1> DEFINE t == Append(s, x)
<1>1. /\ t \in Seq(S) /\ t # <<>> /\ Len(t) = Len(s) + 1
      /\ \A i \in 1..Len(s) : t[i] = s[i]
      /\ t[Len(s) + 1] = x
  BY AppendProperties
<1>2. Len(s) \in Nat
  OBVIOUS
<1> HIDE DEF t
<1>3. \A i \in 1..Len(t) : i = Len(t) \/ (t[i] = s[i] /\ i \in 1..Len(s))
  BY <1>1, <1>2
<1>4. OutcomeLast(t) /\ Last(t) = x /\ (x \notin Outcomes => Open(t))
  <2>1. Last(t) = x
    BY <1>1 DEF Last
  <2>2. OutcomeLast(t)
    BY <1>3 DEF Open, OutcomeLast
  <2>3. ASSUME x \notin Outcomes PROVE Open(t)
    BY <1>1, <1>2, <1>3, <2>3 DEF Open
  <2>4. QED
    BY <2>1, <2>2, <2>3
<1>5. QED
  BY <1>1, <1>4 DEF t

LEMMA CapturesStart == CapturesInit => CapturesInv
<1> SUFFICES ASSUME CapturesInit PROVE CapturesInv
  OBVIOUS
<1>1. CapturesType
  BY CapturesAssumption DEF CapturesInit, CapturesType, Job, NoJob, Stages
<1>2. \A r \in Recording : Timely(jobs[r], game) /\ Fits(jobs[r], said[r], Unbegun(r))
  BY DEF CapturesInit, Timely, Fits, NoJob, Open, OutcomeLast
<1>3. QED
  BY <1>1, <1>2 DEF CapturesInv

\* A job that runs goes on to j, and may say something, x: an outcome only at its end.
LEMMA JobGoesOn ==
  ASSUME CapturesInv, NEW r \in Recording, jobs[r].at \notin {"none", "done"},
         NEW j \in Job, NEW x \in Words,
         jobs' = [jobs EXCEPT ![r] = j], Timely(j, game), j.at # "none",
         said' = said \/ said' = [said EXCEPT ![r] = Append(@, x)],
         said' = said => j.at # "done",
         x \in Outcomes => j.at = "done",
         x = "saved" => j.image = j.game /\ j.ui = j.game,
         UNCHANGED <<game, armed, arms>>
  PROVE  CapturesInv'
<1>1. said[r] \in Seq(Words) /\ Open(said[r]) /\ ~Unbegun(r)
  BY DEF CapturesInv, CapturesType, Fits
<1>2. ASSUME NEW q \in Recording, q # r
      PROVE  jobs'[q] = jobs[q] /\ said'[q] = said[q]
  BY <1>2 DEF CapturesInv, CapturesType
<1>3. jobs'[r] = j /\ said'[r] \in {said[r], Append(said[r], x)}
  BY DEF CapturesInv, CapturesType
<1>4. CapturesType'
  <2>1. jobs' \in [Recording -> Job]
    BY DEF CapturesInv, CapturesType
  <2>2. Append(said[r], x) \in Seq(Words)
    BY <1>1, SaysMore
  <2>3. said' \in [Recording -> Seq(Words)]
    BY <2>2, Zenon DEF CapturesInv, CapturesType
  <2>4. QED
    BY <2>1, <2>3 DEF CapturesInv, CapturesType
<1>5. Fits(j, said'[r], FALSE)
  <2>1. CASE said' = said
    <3>1. said[r] # <<>> => Last(said[r]) \notin Outcomes
      <4>1. said[r] # <<>> => Len(said[r]) \in 1..Len(said[r])
        BY <1>1
      <4>2. QED
        BY <1>1, <4>1 DEF Open, Last
    <3>2. OutcomeLast(said[r])
      BY <1>1 DEF Open, OutcomeLast
    <3>3. QED
      BY <1>1, <2>1, <3>1, <3>2 DEF Fits, Outcomes
  <2>2. CASE said' = [said EXCEPT ![r] = Append(@, x)]
    <3>1. said'[r] = Append(said[r], x)
      BY <2>2 DEF CapturesInv, CapturesType
    <3>2. x \notin Outcomes \/ j.at = "done"
      OBVIOUS
    <3>3. x = "saved" => j.at = "done"
      BY DEF Outcomes
    <3>4. QED
      BY <1>1, <3>1, <3>2, <3>3, SaysMore DEF Fits
  <2>3. QED
    BY <2>1, <2>2
<1>6. ASSUME NEW q \in Recording
      PROVE  Timely(jobs'[q], game') /\ Fits(jobs'[q], said'[q], Unbegun(q)')
  <2>1. Unbegun(q)' = Unbegun(q)
    BY DEF Unbegun
  <2>2. CASE q = r
    BY <1>1, <1>3, <1>5, <2>1, <2>2 DEF Fits
  <2>3. CASE q # r
    BY <1>2, <2>1, <2>3 DEF CapturesInv
  <2>4. QED
    BY <2>2, <2>3
<1>7. QED
  BY <1>4, <1>6 DEF CapturesInv

-----------------------------------------------------------------------------
(***************************************************************************)
(* The steps of the coordinator.                                           *)
(***************************************************************************)
\* Same but for the order to stop.
Alike(j, k) == j.at = k.at /\ j.game = k.game /\ j.image = k.image /\ j.ui = k.ui

LEMMA CancelledAlike ==
  ASSUME CapturesInv, CancelAll \/ UNCHANGED jobs
  PROVE  /\ jobs' \in [Recording -> Job]
         /\ \A r \in Recording : Alike(jobs'[r], jobs[r])
<1>1. \A r \in Recording : [jobs[r] EXCEPT !.cancelled = TRUE] \in Job
  BY DEF CapturesInv, CapturesType, Job
<1>2. CASE CancelAll
  <2>1. jobs' = [r \in Recording |-> IF r \in Running THEN [jobs[r] EXCEPT !.cancelled = TRUE]
                                     ELSE jobs[r]]
    BY <1>2 DEF CancelAll
  <2>2. jobs' \in [Recording -> Job]
    BY <1>1, <2>1 DEF CapturesInv, CapturesType
  <2>3. ASSUME NEW r \in Recording PROVE Alike(jobs'[r], jobs[r])
    <3>1. jobs[r] \in Job
      BY DEF CapturesInv, CapturesType
    <3>2. jobs'[r] = jobs[r] \/ jobs'[r] = [jobs[r] EXCEPT !.cancelled = TRUE]
      BY <2>1
    <3>3. QED
      BY <3>1, <3>2 DEF Alike, Job
  <2>4. QED
    BY <2>2, <2>3
<1>3. CASE UNCHANGED jobs
  BY <1>3 DEF CapturesInv, CapturesType, Alike
<1>4. QED
  BY <1>2, <1>3

\* The arm goes, and what was armed fits what becomes of it; the others stay what they were.
LEMMA ArmLeaves ==
  ASSUME CapturesInv, armed' = 0, UNCHANGED <<game, arms>>,
         jobs' \in [Recording -> Job], said' \in [Recording -> Seq(Words)],
         \A r \in Recording : r # armed => said'[r] = said[r] /\ Alike(jobs'[r], jobs[r]),
         armed # 0 => Timely(jobs'[armed], game) /\ Fits(jobs'[armed], said'[armed], FALSE)
  PROVE  CapturesInv'
<1>1. armed \in Nat /\ arms \in Nat /\ MaxArms \in Nat
  BY CapturesAssumption DEF CapturesInv, CapturesType
<1>2. CapturesType'
  BY <1>1 DEF CapturesInv, CapturesType
<1>3. ASSUME NEW r \in Recording
      PROVE  Timely(jobs'[r], game') /\ Fits(jobs'[r], said'[r], Unbegun(r)')
  <2>1. r # 0 /\ (Unbegun(r)' => r > arms)
    BY <1>1 DEF Recording, Unbegun
  <2>2. CASE r = armed
    <3>1. ~Unbegun(r)'
      BY <1>1, <2>1, <2>2 DEF CapturesInv, CapturesType
    <3>2. QED
      BY <2>1, <2>2, <3>1 DEF Fits
  <2>3. CASE r # armed
    <3>1. Unbegun(r)' => Unbegun(r)
      BY <2>1 DEF Unbegun
    <3>2. Timely(jobs[r], game) /\ Fits(jobs[r], said[r], Unbegun(r))
      BY DEF CapturesInv
    <3>3. Timely(jobs'[r], game')
      BY <2>3, <3>2 DEF Timely, Alike
    <3>4. QED
      BY <2>3, <3>1, <3>2, <3>3 DEF Fits, Alike
  <2>4. QED
    BY <2>2, <2>3
<1>4. QED
  BY <1>2, <1>3 DEF CapturesInv

\* What is known of a recording that is armed.
LEMMA TheArmed ==
  ASSUME CapturesInv, armed # 0
  PROVE  /\ armed \in Recording /\ jobs[armed].at = "none" /\ jobs[armed] \in Job
         /\ said[armed] \in Seq(Words) /\ Open(said[armed]) /\ Timely(jobs[armed], game)
<1>1. armed \in Recording
  BY CapturesAssumption DEF CapturesInv, CapturesType, Recording
<1>2. QED
  BY <1>1 DEF CapturesInv, CapturesType, Fits, Unbegun

\* The arm goes with a word, x; the jobs may be told to stop.
LEMMA ArmSays ==
  ASSUME CapturesInv, armed' = 0, UNCHANGED <<game, arms>>, CancelAll \/ UNCHANGED jobs,
         NEW x \in Words, x # "saved",
         IF armed = 0 THEN UNCHANGED said ELSE Say(armed, x)
  PROVE  CapturesInv'
<1>1. jobs' \in [Recording -> Job] /\ \A r \in Recording : Alike(jobs'[r], jobs[r])
  BY CancelledAlike
<1>2. CASE armed = 0
  <2>1. said' = said
    BY <1>2
  <2>2. QED
    BY <1>1, <1>2, <2>1, ArmLeaves DEF CapturesInv, CapturesType
<1>3. CASE armed # 0
  <2> DEFINE t == Append(said[armed], x)
  <2>1. said' = [said EXCEPT ![armed] = t]
    BY <1>3 DEF Say
  <2>2. t \in Seq(Words) /\ t # <<>> /\ OutcomeLast(t) /\ Last(t) = x
    BY <1>3, TheArmed, SaysMore
  <2> HIDE DEF t
  <2>3. /\ said' \in [Recording -> Seq(Words)] /\ said'[armed] = t
        /\ \A r \in Recording : r # armed => said'[r] = said[r]
    BY <1>3, <2>1, <2>2, TheArmed, Zenon DEF CapturesInv, CapturesType
  <2>4. Alike(jobs'[armed], jobs[armed]) /\ Timely(jobs[armed], game) /\ jobs[armed].at = "none"
    BY <1>1, <1>3, TheArmed
  <2>5. Timely(jobs'[armed], game)
    BY <2>4 DEF Timely, Alike
  <2>6. Fits(jobs'[armed], said'[armed], FALSE)
    BY <2>2, <2>3, <2>4 DEF Fits, Alike
  <2>7. QED
    BY <1>1, <2>3, <2>5, <2>6, ArmLeaves
<1>4. QED
  BY <1>2, <1>3

LEMMA ArmsStep == CapturesInv /\ Arms => CapturesInv'
<1> SUFFICES ASSUME CapturesInv, Arms PROVE CapturesInv'
  OBVIOUS
<1> DEFINE a == arms + 1
           x == "armed"
           t == Append(said[a], x)
<1>0. x \in Words /\ x \notin Outcomes /\ x # "saved"
  BY DEF Words, Outcomes
<1>1. /\ arms \in Nat /\ armed \in 0..arms /\ a \in Recording /\ a # 0 /\ a <= MaxArms
      /\ armed' = a /\ arms' = a /\ jobs' = jobs /\ game' = game
  BY CapturesAssumption DEF Arms, CapturesInv, CapturesType, Recording
<1>2. said[a] \in Seq(Words) /\ Open(said[a]) /\ jobs[a].at = "none"
  BY <1>1 DEF CapturesInv, CapturesType, Fits, Unbegun
<1>4. said' = [said EXCEPT ![a] = t]
  BY DEF Arms, Say
<1> HIDE DEF x
<1>3. t \in Seq(Words) /\ t # <<>> /\ OutcomeLast(t) /\ Last(t) = x /\ Open(t)
  BY <1>0, <1>2, SaysMore
<1> HIDE DEF t
<1>5. /\ said' \in [Recording -> Seq(Words)] /\ said'[a] = t
      /\ \A r \in Recording : r # a => said'[r] = said[r]
  BY <1>1, <1>3, <1>4, Zenon DEF CapturesInv, CapturesType
<1>6. CapturesType'
  BY <1>1, <1>5, CapturesAssumption DEF CapturesInv, CapturesType
<1>7. ASSUME NEW r \in Recording
      PROVE  Timely(jobs'[r], game') /\ Fits(jobs'[r], said'[r], Unbegun(r)')
  <2>1. Timely(jobs[r], game) /\ Fits(jobs[r], said[r], Unbegun(r))
    BY DEF CapturesInv
  <2>2. CASE r = a
    BY <1>0, <1>1, <1>2, <1>3, <1>5, <2>1, <2>2 DEF Fits
  <2>3. CASE r # a
    <3>1. Unbegun(r)' => Unbegun(r)
      BY <1>1, <2>3 DEF Unbegun, Recording
    <3>2. QED
      BY <1>1, <1>5, <2>1, <2>3, <3>1 DEF Fits
  <2>4. QED
    BY <2>2, <2>3
<1>8. QED
  BY <1>6, <1>7 DEF CapturesInv

\* A recording that is refused says that it was triggered and that it failed.
LEMMA RefusedSays ==
  ASSUME NEW s \in Seq(Words), Open(s)
  PROVE  LET t == s \o <<"triggered", "failed">>
         IN  t \in Seq(Words) /\ OutcomeLast(t) /\ t # <<>> /\ Last(t) = "failed"
<1> DEFINE x == "triggered"
           y == "failed"
           u == Append(s, x)
           t == s \o <<x, y>>
<1>1. x \in Words /\ x \notin Outcomes /\ y \in Words
  BY DEF Words, Outcomes
<1> SUFFICES t \in Seq(Words) /\ OutcomeLast(t) /\ t # <<>> /\ Last(t) = y
  OBVIOUS
<1> HIDE DEF x, y
<1>2. u \in Seq(Words) /\ Open(u)
  BY <1>1, SaysMore
<1>3. t = Append(u, y)
  BY <1>1
<1> HIDE DEF t, u
<1>4. QED
  BY <1>1, <1>2, <1>3, SaysMore

LEMMA TriggersStep == CapturesInv /\ Triggers => CapturesInv'
<1> SUFFICES ASSUME CapturesInv, Triggers PROVE CapturesInv'
  OBVIOUS
<1>1. /\ armed # 0 /\ armed' = 0 /\ UNCHANGED <<game, arms>>
  BY DEF Triggers
<1>2. /\ armed \in Recording /\ jobs[armed].at = "none" /\ jobs[armed] \in Job
      /\ said[armed] \in Seq(Words) /\ Open(said[armed]) /\ Timely(jobs[armed], game)
  BY <1>1, TheArmed
<1>3. PICK g \in {h \in 1..game : h % 2 = 1} :
       \/ /\ jobs' = [jobs EXCEPT ![armed] = [NoJob EXCEPT !.at = "waits", !.game = g]]
          /\ Say(armed, "triggered")
       \/ NotStarted(armed) /\ UNCHANGED jobs
  BY DEF Triggers
<1>4. CASE /\ jobs' = [jobs EXCEPT ![armed] = [NoJob EXCEPT !.at = "waits", !.game = g]]
           /\ Say(armed, "triggered")
  <2> DEFINE j == [NoJob EXCEPT !.at = "waits", !.game = g]
             x == "triggered"
             t == Append(said[armed], x)
  <2>0. x \in Words /\ x \notin Outcomes /\ x # "saved"
    BY DEF Words, Outcomes
  <2>1. j \in Job /\ Timely(j, game) /\ j.at = "waits"
    <3>1. NoJob \in Job /\ NoJob.image = 0 /\ NoJob.ui = 0
      BY DEF NoJob, Job, Stages
    <3>2. g \in Nat /\ g <= game
      BY DEF CapturesInv, CapturesType
    <3>3. QED
      BY <3>1, <3>2 DEF Job, Stages, Timely
  <2>3. jobs' = [jobs EXCEPT ![armed] = j] /\ said' = [said EXCEPT ![armed] = t]
    BY <1>4 DEF Say
  <2> HIDE DEF x
  <2>2. t \in Seq(Words) /\ t # <<>> /\ OutcomeLast(t) /\ Last(t) = x /\ Open(t)
    BY <1>2, <2>0, SaysMore
  <2> HIDE DEF j, t
  <2>4. /\ said' \in [Recording -> Seq(Words)] /\ said'[armed] = t
        /\ \A r \in Recording : r # armed => said'[r] = said[r]
    BY <1>2, <2>2, <2>3, Zenon DEF CapturesInv, CapturesType
  <2>5. /\ jobs' \in [Recording -> Job] /\ jobs'[armed] = j
        /\ \A r \in Recording : r # armed => Alike(jobs'[r], jobs[r])
    BY <1>2, <2>1, <2>3 DEF CapturesInv, CapturesType, Alike
  <2>6. Fits(j, t, FALSE)
    BY <2>0, <2>1, <2>2 DEF Fits
  <2>7. QED
    BY <1>1, <2>1, <2>4, <2>5, <2>6, ArmLeaves
<1>5. CASE NotStarted(armed) /\ UNCHANGED jobs
  <2> DEFINE t == said[armed] \o <<"triggered", "failed">>
  <2>1. t \in Seq(Words) /\ OutcomeLast(t) /\ t # <<>> /\ Last(t) = "failed"
    BY <1>2, RefusedSays
  <2>2. said' = [said EXCEPT ![armed] = t]
    BY <1>5 DEF NotStarted, Rejects
  <2> HIDE DEF t
  <2>3. /\ said' \in [Recording -> Seq(Words)] /\ said'[armed] = t
        /\ \A r \in Recording : r # armed => said'[r] = said[r]
    BY <1>2, <2>1, <2>2, Zenon DEF CapturesInv, CapturesType
  <2>4. jobs' \in [Recording -> Job] /\ jobs' = jobs
    BY <1>5 DEF CapturesInv, CapturesType
  <2>5. Fits(jobs[armed], t, FALSE)
    BY <1>2, <2>1 DEF Fits
  <2>6. QED
    BY <1>1, <1>2, <2>3, <2>4, <2>5, ArmLeaves DEF Alike
<1>6. QED
  BY <1>3, <1>4, <1>5

-----------------------------------------------------------------------------
(***************************************************************************)
(* The steps of a job.                                                     *)
(***************************************************************************)
\* A job that ends with a word, x.
LEMMA JobEnds ==
  ASSUME CapturesInv, NEW r \in Recording, r \in Running, Rest,
         NEW x \in Words, Ends(r, x),
         x = "saved" => jobs[r].image = jobs[r].game /\ jobs[r].ui = jobs[r].game
  PROVE  CapturesInv'
<1> DEFINE j == [jobs[r] EXCEPT !.at = "done"]
<1>1. jobs[r] \in Job /\ Timely(jobs[r], game) /\ jobs[r].at \notin {"none", "done"}
  BY DEF Running, CapturesInv, CapturesType
<1>2. /\ j \in Job /\ j.at = "done"
      /\ j.game = jobs[r].game /\ j.image = jobs[r].image /\ j.ui = jobs[r].ui
  BY <1>1 DEF Job, Stages
<1>3. jobs' = [jobs EXCEPT ![r] = j] /\ said' = [said EXCEPT ![r] = Append(@, x)]
  BY DEF Ends, Set, Say
<1> HIDE DEF j
<1>4. Timely(j, game)
  BY <1>1, <1>2 DEF Timely, Unread
<1>5. said' # said
  <2>1. said[r] \in Seq(Words) /\ said'[r] = Append(said[r], x)
    BY <1>3 DEF CapturesInv, CapturesType
  <2>2. Append(said[r], x) # said[r]
    BY <2>1, AppendProperties
  <2>3. QED
    BY <2>1, <2>2
<1>6. UNCHANGED <<game, armed, arms>>
  BY DEF Rest
<1>7. QED
  BY <1>1, <1>2, <1>3, <1>4, <1>5, <1>6, JobGoesOn

LEMMA JobEndsBadly ==
  ASSUME CapturesInv, NEW r \in Recording, r \in Running, Rest, EndsBadly(r)
  PROVE  CapturesInv'
<1>1. PICK x \in {"cancelled", "failed"} : Ends(r, x)
  BY DEF EndsBadly
<1>2. x \in Words /\ x # "saved"
  BY DEF Words, Outcomes
<1>3. QED
  BY <1>1, <1>2, JobEnds

\* A job that goes on, in silence or with a word, x, that is no outcome.
LEMMA JobWorks ==
  ASSUME CapturesInv, NEW r \in Recording, r \in Running, Rest,
         NEW j \in Job, Set(r, j), Timely(j, game), j.at \notin {"none", "done"},
         NEW x \in Words \ Outcomes, UNCHANGED said \/ Say(r, x)
  PROVE  CapturesInv'
<1>1. jobs[r].at \notin {"none", "done"}
  BY DEF Running
<1>2. x \in Words /\ x \notin Outcomes /\ x # "saved"
  BY DEF Outcomes
<1>3. said' = said \/ said' = [said EXCEPT ![r] = Append(@, x)]
  BY DEF Say
<1>4. jobs' = [jobs EXCEPT ![r] = j] /\ UNCHANGED <<game, armed, arms>>
  BY DEF Set, Rest
<1>5. QED
  BY <1>1, <1>2, <1>3, <1>4, JobGoesOn

LEMMA Progress == {"capturing_image", "capturing_memory", "writing"} \subseteq Words \ Outcomes
BY DEF Words, Outcomes

LEMMA WorksStep ==
  ASSUME CapturesInv, NEW r \in Recording, Works(r)
  PROVE  CapturesInv'
<1> DEFINE job == jobs[r]
<1>1. /\ job \in Job /\ Timely(job, game) /\ game \in Nat
  BY DEF CapturesInv, CapturesType
<1>2. CASE Waits(r)
  <2>1. r \in Running /\ Rest
    BY <1>2 DEF Waits, Running
  <2>2. CASE EndsBadly(r)
    BY <2>1, <2>2, JobEndsBadly
  <2>3. CASE Set(r, [job EXCEPT !.at = "image"]) /\ Say(r, "capturing_image")
    <3> DEFINE j == [job EXCEPT !.at = "image"]
    <3>1. j \in Job /\ Timely(j, game) /\ j.at \notin {"none", "done"}
      BY <1>1, <1>2 DEF Waits, Job, Stages, Timely, Unread
    <3> HIDE DEF j
    <3>2. Set(r, j)
      BY <2>3 DEF j
    <3>3. QED
      BY <2>1, <2>3, <3>1, <3>2, Progress, JobWorks
  <2>4. QED
    BY <1>2, <2>2, <2>3 DEF Waits
<1>3. CASE Checks(r)
  <2> DEFINE at == IF IsCurrent(job.game) THEN "window" ELSE "shot"
             j == [job EXCEPT !.at = at]
  <2>1. r \in Running /\ Rest /\ UNCHANGED said /\ Set(r, j)
    BY <1>3 DEF Checks, Running
  <2>2. at \in {"window", "shot"}
    OBVIOUS
  <2> HIDE DEF at
  <2>3. j \in Job /\ Timely(j, game) /\ j.at \notin {"none", "done"}
    BY <1>1, <1>3, <2>2 DEF Checks, Job, Stages, Timely, Unread
  <2> HIDE DEF j
  <2>4. QED
    BY <2>1, <2>3, Progress, JobWorks
<1>4. CASE TakesImage(r)
  <2>1. r \in Running /\ Rest /\ UNCHANGED said /\ job.at = "window"
    BY <1>4 DEF TakesImage, Running
  <2>2. PICK image \in {0, IF job.cancelled THEN 0 ELSE Shown} :
               Set(r, [job EXCEPT !.at = "shot", !.image = image])
    BY <1>4 DEF TakesImage
  <2>3. image \in {0, game}
    BY DEF Shown
  <2> DEFINE j == [job EXCEPT !.at = "shot", !.image = image]
  <2>4. j \in Job /\ Timely(j, game) /\ j.at \notin {"none", "done"}
    <3>1. image \in Nat /\ "shot" \in Stages
      BY <1>1, <2>3 DEF Stages
    <3>2. /\ j \in Job /\ j.at = "shot" /\ j.image = image
          /\ j.game = job.game /\ j.ui = job.ui
      BY <1>1, <3>1 DEF Job
    <3>3. job.ui = 0 /\ job.game <= game
      BY <1>1, <2>1 DEF Timely, Unread
    <3>4. QED
      BY <1>1, <2>3, <3>2, <3>3 DEF Timely, Job
  <2> HIDE DEF j
  <2>5. Set(r, j)
    BY <2>2 DEF j
  <2>6. QED
    BY <2>1, <2>4, <2>5, Progress, JobWorks
<1>5. CASE OpensMemory(r)
  <2>1. r \in Running /\ Rest /\ job.at = "shot" /\ Say(r, "capturing_memory")
    BY <1>5 DEF OpensMemory, Running
  <2>2. PICK at \in {"memory", "frozen"} : Set(r, [job EXCEPT !.at = at])
    BY <1>5 DEF OpensMemory
  <2> DEFINE j == [job EXCEPT !.at = at]
  <2>3. j \in Job /\ Timely(j, game) /\ j.at \notin {"none", "done"}
    BY <1>1, <2>1 DEF Job, Stages, Timely, Unread
  <2> HIDE DEF j
  <2>4. Set(r, j)
    BY <2>2 DEF j
  <2>5. QED
    BY <2>1, <2>3, <2>4, Progress, JobWorks
<1>6. CASE Freezes(r)
  <2>1. r \in Running /\ Rest /\ UNCHANGED said /\ job.at = "memory"
    BY <1>6 DEF Freezes, Running
  <2>2. PICK ui \in {0, IF Revalidated(job) /\ ~job.cancelled THEN Shown ELSE 0} :
               Set(r, [job EXCEPT !.at = "frozen", !.ui = ui])
    BY <1>6 DEF Freezes
  <2>3. ui = 0 \/ (ui = game /\ job.game = game)
    BY DEF Shown, Revalidated, Verified, IsCurrent
  <2> DEFINE j == [job EXCEPT !.at = "frozen", !.ui = ui]
  <2>4. /\ j \in Job /\ j.at = "frozen" /\ j.ui = ui
        /\ j.game = job.game /\ j.image = job.image
    <3>1. ui \in Nat /\ "frozen" \in Stages
      BY <1>1, <2>3 DEF Stages
    <3>2. QED
      BY <1>1, <3>1 DEF Job
  <2> HIDE DEF j
  <2>5. Timely(j, game)
    BY <1>1, <2>3, <2>4 DEF Job, Timely, Unread
  <2>6. Set(r, j)
    BY <2>2 DEF j
  <2>7. QED
    BY <2>1, <2>4, <2>5, <2>6, Progress, JobWorks
<1>7. CASE BeginsToWrite(r)
  <2>1. r \in Running /\ Rest /\ job.at = "frozen" /\ Say(r, "writing")
    BY <1>7 DEF BeginsToWrite, Running
  <2> DEFINE j == [job EXCEPT !.at = "files"]
  <2>2. j \in Job /\ Timely(j, game) /\ j.at \notin {"none", "done"}
    BY <1>1, <2>1 DEF Job, Stages, Timely, Unread
  <2> HIDE DEF j
  <2>3. Set(r, j)
    BY <1>7 DEF j, BeginsToWrite
  <2>4. QED
    BY <2>1, <2>2, <2>3, Progress, JobWorks
<1>8. CASE WritesFiles(r)
  <2>1. r \in Running /\ Rest /\ job.at = "files"
    BY <1>8 DEF WritesFiles, Running
  <2>2. CASE EndsBadly(r)
    BY <2>1, <2>2, JobEndsBadly
  <2>3. CASE \E ok \in {~job.cancelled, FALSE} :
               Set(r, [job EXCEPT !.at = "metadata", !.written = ok]) /\ UNCHANGED said
    <3>1. PICK ok \in BOOLEAN :
                 Set(r, [job EXCEPT !.at = "metadata", !.written = ok]) /\ UNCHANGED said
      BY <1>1, <2>3 DEF Job
    <3> DEFINE j == [job EXCEPT !.at = "metadata", !.written = ok]
    <3>2. j \in Job /\ Timely(j, game) /\ j.at \notin {"none", "done"}
      BY <1>1, <2>1 DEF Job, Stages, Timely, Unread
    <3> HIDE DEF j
    <3>3. Set(r, j)
      BY <3>1 DEF j
    <3>4. QED
      BY <2>1, <3>1, <3>2, <3>3, Progress, JobWorks
  <2>4. QED
    BY <1>8, <2>2, <2>3 DEF WritesFiles
<1>9. CASE WritesMetadata(r)
  <2>1. r \in Running /\ Rest
    BY <1>9 DEF WritesMetadata, Running
  <2>2. CASE EndsBadly(r)
    BY <2>1, <2>2, JobEndsBadly
  <2>3. CASE Ends(r, IF job.image = 0 \/ job.ui = 0 THEN "partial" ELSE "saved")
    <3>1. PICK x \in {"partial", "saved"} :
                 Ends(r, x) /\ (x = "saved" => job.image # 0 /\ job.ui # 0)
      BY <2>3
    <3>2. x \in Words
      BY DEF Words, Outcomes
    <3>3. x = "saved" => job.image = job.game /\ job.ui = job.game
      BY <1>1, <3>1 DEF Timely
    <3>4. QED
      BY <2>1, <3>1, <3>2, <3>3, JobEnds
  <2>4. QED
    BY <1>9, <2>2, <2>3 DEF WritesMetadata
<1>10. CASE Panics(r)
  <2>1. r \in Running /\ Rest /\ Ends(r, "failed")
    BY <1>10 DEF Panics, Dropped, Failed
  <2>2. "failed" \in Words
    BY DEF Words, Outcomes
  <2>3. QED
    BY <2>1, <2>2, JobEnds
<1>11. QED
  BY <1>2, <1>3, <1>4, <1>5, <1>6, <1>7, <1>8, <1>9, <1>10 DEF Works

-----------------------------------------------------------------------------
LEMMA CapturesStep == CapturesInv /\ [CapturesNext]_captureVars => CapturesInv'
<1> SUFFICES ASSUME CapturesInv, [CapturesNext]_captureVars PROVE CapturesInv'
  OBVIOUS
<1>1. {"expired", "cancelled"} \subseteq Words \ {"saved"}
  BY DEF Words, Outcomes
<1>2. CASE Arms
  BY <1>2, ArmsStep
<1>3. CASE Expires
  <2>1. armed' = 0 /\ UNCHANGED <<game, arms, jobs>> /\ armed # 0 /\ Say(armed, "expired")
    BY <1>3 DEF Expires
  <2>2. QED
    BY <1>1, <2>1, ArmSays
<1>4. CASE Cancels \/ Gap \/ ShutsDown
  <2>1. /\ armed' = 0 /\ UNCHANGED <<game, arms>> /\ (CancelAll \/ UNCHANGED jobs)
        /\ CancelledArm
    BY <1>4 DEF Cancels, Gap, ShutsDown
  <2>2. IF armed = 0 THEN UNCHANGED said ELSE Say(armed, "cancelled")
    BY <2>1 DEF CancelledArm
  <2>3. QED
    BY <1>1, <2>1, <2>2, ArmSays
<1>5. CASE Triggers
  BY <1>5, TriggersStep
<1>6. CASE Joins \/ UNCHANGED captureVars
  <2>1. UNCHANGED <<game, armed, arms, jobs, said>>
    BY <1>6 DEF Joins, captureVars
  <2>2. QED
    BY <2>1 DEF CapturesInv, CapturesType, Unbegun
<1>7. CASE GameStartsOrEnds
  <2>1. game' = game + 1 /\ UNCHANGED <<armed, arms, jobs, said>>
    BY <1>7 DEF GameStartsOrEnds
  <2>2. CapturesType' /\ \A r \in Recording : Unbegun(r)' = Unbegun(r)
    BY <2>1 DEF CapturesInv, CapturesType, Unbegun
  <2>3. ASSUME NEW r \in Recording PROVE Timely(jobs'[r], game')
    <3>1. Timely(jobs[r], game) /\ jobs[r] \in Job /\ game \in Nat
      BY DEF CapturesInv, CapturesType
    <3>2. QED
      BY <2>1, <3>1 DEF Timely, Job
  <2>4. QED
    BY <2>1, <2>2, <2>3 DEF CapturesInv
<1>8. CASE \E r \in Recording : Works(r)
  BY <1>8, WorksStep
<1>9. QED
  BY <1>2, <1>3, <1>4, <1>5, <1>6, <1>7, <1>8 DEF CapturesNext

LEMMA CapturesInvHonest == CapturesInv => CapturesHonest
BY DEF CapturesInv, Fits, OutcomeLast, CapturesHonest, OneOutcome, SavedIsWhole

\* What users are told of a recording is what there is of it: whatever happens to a job, its
\* outcome is its last word (PendingCapture in runtime/jobs.rs), and a recording that is called
\* saved has the screenshot and the memory of the game of the reward.
THEOREM CapturesAlwaysHonest == CapturesSpec => []CapturesHonest
<1>1. CapturesSpec => []CapturesInv
  BY CapturesStart, CapturesStep, PTL DEF CapturesSpec
<1>2. QED
  BY <1>1, CapturesInvHonest, PTL

-----------------------------------------------------------------------------
(***************************************************************************)
(* The invariant of the requests.  The numbers of a session tell requests  *)
(* apart: whatever has the same number, among what awaits an answer, what  *)
(* is being written and what the daemon has, is the same.  An attempt that *)
(* has not been made yet is in no place.                                   *)
(***************************************************************************)
Failings == {"stopped", "stopping", "full", "timeout", "closed"}
Waiting(P, r) == Cardinality({p \in P : p.request = r})
OnTheWay == pending \cup wire \cup ({frame} \ {None})
Unmade(c, a) == call[c].state = "idle" \/ call[c].attempt < a

RequestsTyped ==
  /\ call \in [Callers -> [attempt : {1, 2}, state : {"idle", "waits"} \cup CallOutcomes]]
  /\ answers \in [Callers -> Seq(CallOutcomes)]
  /\ outbox \in Seq(Requests) /\ queued \in Seq(Requests)
  /\ IsFiniteSet(pending) /\ nextId \in Nat \ {0}
  /\ (halting => cancelled) /\ (closing => cancelled)

NumbersTell ==
  /\ \A p \in OnTheWay : /\ p \in [id : Nat, request : Requests]
                         /\ 0 < p.id /\ p.id < nextId
  /\ \A p, q \in OnTheWay : p.id = q.id => p = q
  /\ link # "session" => OnTheWay = {}

UnmadeNowhere ==
  \A c \in Callers, a \in {1, 2} : Unmade(c, a) => Held(<<c, a>>) = 0

RequestsInv ==
  /\ RequestsTyped /\ NumbersTell /\ UnmadeNowhere
  /\ NobodyForgotten /\ AnswersFit

-----------------------------------------------------------------------------
(***************************************************************************)
(* The invariant of the watches.  A watch command is the first credit, and *)
(* there is one of it.  In a queue, and in both of them one after the      *)
(* other, a watch is cancelled after it is asked for.                      *)
(***************************************************************************)
Commands == [id : Watchers, action : {"watch", "credit", "cancel"}]
Replies == [id : Watchers, state : Final \cup {"running"}]

Watch(id) == Command(id, "watch")
Credit(id) == Command(id, "credit")
Cancel(id) == Command(id, "cancel")
Sample(id) == Reply(id, "running")

AtClient(id) == IF id \in DOMAIN entries /\ entries[id].waiting THEN 1 ELSE 0
AtWatch(id) == IF id \in DOMAIN watches /\ watches[id] THEN 1 ELSE 0
RunsOnce(id) == IF id \in DOMAIN watches THEN 1 ELSE 0

Total(a, b, c, d, e, f, g) == a + b + c + d + e + f + g
Credits(id) ==
  Total(Count(channel, Sample(id)), Count(line, Credit(id)), Count(inbox, Credit(id)),
        Count(line, Watch(id)), Count(inbox, Watch(id)), AtClient(id), AtWatch(id))
Three(a, b, c) == a + b + c
WatchPlaces(id) == Three(Count(line, Watch(id)), Count(inbox, Watch(id)), RunsOnce(id))

InOrder(s, id) ==
  \A i, j \in DOMAIN s : s[i] = Cancel(id) /\ s[j] = Watch(id) => j < i

HasEnded(id) == \E e \in Final : Count(channel, Reply(id, e)) # 0

DiagnosticsTyped ==
  /\ entries \in [DOMAIN entries -> [waiting : BOOLEAN, started : BOOLEAN]]
  /\ watches \in [DOMAIN watches -> BOOLEAN]
  /\ DOMAIN entries \subseteq Watchers /\ DOMAIN watches \subseteq Watchers
  /\ IsFiniteSet(DOMAIN watches)
  /\ line \in Seq(Commands) /\ inbox \in Seq(Commands) /\ channel \in Seq(Replies)
  /\ open \in BOOLEAN
  /\ ~open => line = <<>> /\ channel = <<>> /\ DOMAIN entries = {}

WatchKept(id) ==
  /\ Credits(id) <= 1 /\ WatchPlaces(id) <= 1
  /\ InOrder(line, id) /\ InOrder(inbox, id)
  /\ Count(inbox, Cancel(id)) # 0 => Count(line, Watch(id)) = 0
  /\ HasEnded(id) /\ id \notin spoilt => WatchPlaces(id) = 0
  /\ open /\ WatchPlaces(id) # 0 /\ id \notin DOMAIN entries /\ id \notin spoilt =>
       Count(line, Cancel(id)) + Count(inbox, Cancel(id)) # 0
  /\ id \notin asked =>
       /\ Credits(id) = 0 /\ WatchPlaces(id) = 0 /\ ~HasEnded(id) /\ id \notin DOMAIN entries
       /\ Count(line, Cancel(id)) = 0 /\ Count(inbox, Cancel(id)) = 0

DiagnosticsInv == DiagnosticsTyped /\ \A id \in Watchers : WatchKept(id)

CallsInv == RequestsInv /\ DiagnosticsInv

-----------------------------------------------------------------------------
(***************************************************************************)
(* Sums, kept apart from what they are sums of.                            *)
(***************************************************************************)
LEMMA TotalZero ==
  ASSUME NEW a \in Nat, NEW b \in Nat, NEW c \in Nat, NEW d \in Nat, NEW e \in Nat,
         NEW f \in Nat, NEW g \in Nat, Total(a, b, c, d, e, f, g) = 0
  PROVE  a = 0 /\ b = 0 /\ c = 0 /\ d = 0 /\ e = 0 /\ f = 0 /\ g = 0
BY DEF Total

\* Nothing is gained.
LEMMA TotalFalls ==
  ASSUME NEW a \in Nat, NEW b \in Nat, NEW c \in Nat, NEW d \in Nat, NEW e \in Nat,
         NEW f \in Nat, NEW g \in Nat,
         NEW t \in Nat, NEW u \in Nat, NEW v \in Nat, NEW w \in Nat, NEW x \in Nat,
         NEW y \in Nat, NEW z \in Nat,
         t <= a, u <= b, v <= c, w <= d, x <= e, y <= f, z <= g
  PROVE  Total(t, u, v, w, x, y, z) <= Total(a, b, c, d, e, f, g)
BY DEF Total

\* A right that moves between the companion and the way out, or the inbox and the companion.
LEMMA TotalMoves ==
  ASSUME NEW a \in Nat, NEW b \in Nat, NEW c \in Nat, NEW d \in Nat, NEW e \in Nat,
         NEW f \in Nat, NEW g \in Nat,
         NEW t \in Nat, NEW v \in Nat, NEW x \in Nat, NEW z \in Nat,
         \/ t = a + 1 /\ e = x + 1 /\ v = c /\ z <= g
         \/ t = a + 1 /\ g = z + 1 /\ v = c /\ x = e
         \/ c = v + 1 /\ z <= 1 /\ x = e /\ t = a
  PROVE  Total(t, b, v, d, x, f, z) <= Total(a, b, c, d, e, f, g)
BY DEF Total

\* A right that moves between the client and the ways from and to it.
LEMMA TotalGiven ==
  ASSUME NEW a \in Nat, NEW b \in Nat, NEW c \in Nat, NEW d \in Nat, NEW e \in Nat,
         NEW f \in Nat, NEW g \in Nat,
         NEW t \in Nat, NEW u \in Nat, NEW y \in Nat,
         \/ a = t + 1 /\ y <= 1 /\ u = b
         \/ f = y + 1 /\ u <= b + 1 /\ t = a
  PROVE  Total(t, u, c, d, e, y, g) <= Total(a, b, c, d, e, f, g)
BY DEF Total

LEMMA TotalNat ==
  ASSUME NEW a \in Nat, NEW b \in Nat, NEW c \in Nat, NEW d \in Nat, NEW e \in Nat,
         NEW f \in Nat, NEW g \in Nat
  PROVE  Total(a, b, c, d, e, f, g) \in Nat
BY DEF Total

\* The same for what is in one of three places.
LEMMA ThreeSum ==
  ASSUME NEW a \in Nat, NEW b \in Nat, NEW c \in Nat
  PROVE  /\ Three(a, b, c) \in Nat
         /\ Three(a, b, c) = 0 => a = 0 /\ b = 0 /\ c = 0
BY DEF Three

LEMMA ThreeOne ==
  ASSUME NEW a \in Nat, NEW b \in Nat, NEW c \in Nat, Three(a, b, c) <= 1, b # 0
  PROVE  a = 0 /\ b = 1 /\ c = 0
BY DEF Three

LEMMA ThreeFalls ==
  ASSUME NEW a \in Nat, NEW b \in Nat, NEW c \in Nat,
         NEW t \in Nat, NEW u \in Nat, NEW v \in Nat, t <= a, u <= b, v <= c
  PROVE  Three(t, u, v) <= Three(a, b, c)
BY DEF Three

(***************************************************************************)
(* How often an item is in a queue.                                        *)
(***************************************************************************)
\* An item is counted in any sequence, and not at all where it does not occur.
LEMMA CountIs ==
  ASSUME NEW S, NEW s \in Seq(S), NEW x
  PROVE  /\ Count(s, x) \in Nat
         /\ x \in ToSet(s) <=> Count(s, x) # 0
         /\ Count(<< >>, x) = 0
<1>1. Len(s) \in Nat /\ DOMAIN s = 1..Len(s) /\ IsFiniteSet(1..Len(s))
  BY LenProperties, FS_Interval
<1> DEFINE A == {i \in DOMAIN s : s[i] = x}
<1>2. IsFiniteSet(A)
  BY <1>1, FS_Subset
<1>3. Cardinality(A) \in Nat /\ (Cardinality(A) = 0 <=> A = {})
  BY <1>2, FS_CardinalityType, FS_EmptySet
<1>4. x \in ToSet(s) <=> A # {}
  BY <1>1 DEF ToSet
<1>5. {i \in DOMAIN << >> : << >>[i] = x} = {}
  OBVIOUS
<1>6. Count(<< >>, x) = 0
  BY <1>5, FS_EmptySet DEF Count
<1> QED
  BY <1>3, <1>4, <1>6 DEF Count

\* A queue that is extended.
LEMMA CountAppend ==
  ASSUME NEW S, NEW s \in Seq(S), NEW e \in S, NEW x
  PROVE  Count(Append(s, e), x) = Count(s, x) + (IF e = x THEN 1 ELSE 0)
<1> DEFINE r == Append(s, e)  n == Len(s)
           A == {i \in DOMAIN s : s[i] = x}  B == {i \in DOMAIN r : r[i] = x}
<1>1. n \in Nat /\ DOMAIN s = 1..n /\ IsFiniteSet(1..n)
  BY LenProperties, FS_Interval
<1>2. r \in Seq(S) /\ Len(r) = n + 1 /\ (\A i \in 1..n : r[i] = s[i]) /\ r[n + 1] = e
  BY AppendProperties
<1>3. DOMAIN r = 1..(n + 1)
  BY <1>2, LenProperties
<1> HIDE DEF n, r
<1>4. B = IF e = x THEN A \cup {n + 1} ELSE A
  BY <1>1, <1>2, <1>3
<1>5. IsFiniteSet(A) /\ n + 1 \notin A
  <2>1. A \in SUBSET (1..n)
    BY <1>1
  <2> QED
    BY <1>1, <2>1, FS_Subset
<1>6. Cardinality(A) \in Nat /\ Cardinality(A \cup {n + 1}) = Cardinality(A) + 1
  BY <1>5, FS_AddElement, FS_CardinalityType
<1>7. Cardinality(B) = Cardinality(A) + (IF e = x THEN 1 ELSE 0)
  <2> HIDE DEF A, B
  <2> QED
    BY <1>4, <1>6
<1> QED
  BY <1>7 DEF Count, r

\* A queue that loses its first item.
LEMMA CountTail ==
  ASSUME NEW S, NEW s \in Seq(S), s # << >>, NEW x
  PROVE  Count(Tail(s), x) = Count(s, x) - (IF Head(s) = x THEN 1 ELSE 0)
<1> DEFINE r == Tail(s)  n == Len(s)
           A == {i \in DOMAIN s : s[i] = x}  B == {i \in DOMAIN r : r[i] = x}
           f == [i \in B |-> i + 1]
<1>1. n \in Nat \ {0} /\ DOMAIN s = 1..n /\ IsFiniteSet(1..n) /\ Head(s) = s[1]
  BY LenProperties, FS_Interval, EmptySeq
<1>2. r \in Seq(S) /\ Len(r) = n - 1 /\ \A i \in 1..Len(r) : r[i] = s[i + 1]
  BY HeadTailProperties
<1>3. DOMAIN r = 1..(n - 1)
  BY <1>2, LenProperties
<1> HIDE DEF n, r
<1>4. IsFiniteSet(A) /\ IsFiniteSet(B)
  <2>1. A \in SUBSET (1..n) /\ B \in SUBSET (1..n)
    BY <1>1, <1>3
  <2> QED
    BY <1>1, <2>1, FS_Subset
<1>5. f \in Bijection(B, A \ {1})
  <2>1. \A i \in B : i \in 1..(n - 1) /\ s[i + 1] = x
    BY <1>2, <1>3
  <2>2. \A i \in B : i + 1 \in A \ {1}
    BY <1>1, <2>1
  <2>3. \A i, j \in B : i + 1 = j + 1 => i = j
    BY <2>1
  <2>4. ASSUME NEW k \in A \ {1} PROVE \E i \in B : i + 1 = k
    <3>1. k - 1 \in 1..(n - 1) /\ (k - 1) + 1 = k
      BY <1>1
    <3>2. r[k - 1] = s[k]
      BY <1>2, <1>3, <3>1
    <3>3. k - 1 \in B
      BY <1>3, <3>1, <3>2
    <3> QED
      BY <3>1, <3>3
  <2> HIDE DEF A, B
  <2>5. f \in [B -> A \ {1}] /\ (\A i, j \in B : f[i] = f[j] => i = j)
        /\ \A k \in A \ {1} : \E i \in B : f[i] = k
    BY <2>2, <2>3, <2>4
  <2> HIDE DEF f
  <2> QED
    BY <2>5 DEF Bijection, Injection, Surjection, IsInjective
<1>6. Cardinality(A \ {1}) = Cardinality(B)
  <2> HIDE DEF A, B, f
  <2>1. ExistsBijection(B, A \ {1})
    BY <1>5 DEF ExistsBijection
  <2> QED
    BY <1>4, <2>1, FS_Bijection
<1>7. Cardinality(A \ {1}) = IF 1 \in A THEN Cardinality(A) - 1 ELSE Cardinality(A)
  BY <1>4, FS_RemoveElement
<1>8. 1 \in A <=> Head(s) = x
  BY <1>1
<1>9. Cardinality(B) = Cardinality(A) - (IF Head(s) = x THEN 1 ELSE 0)
  <2>1. Cardinality(A) \in Nat
    BY <1>4, FS_CardinalityType
  <2> HIDE DEF A, B
  <2> QED
    BY <1>6, <1>7, <1>8, <2>1
<1> QED
  BY <1>9 DEF Count, r

\* The numbers of places: each item of a set of places has one of its own.
LEMMA Numbered ==
  ASSUME NEW n \in Nat, NEW K \in SUBSET (1..n),
         NEW f, f = [i \in K |-> Cardinality({j \in K : j <= i})]
  PROVE  f \in Bijection(K, 1..Cardinality(K)) /\ Cardinality(K) \in 0..n
<1>1. IsFiniteSet(1..n) /\ Cardinality(1..n) = n
  BY FS_Interval
<1>2. IsFiniteSet(K) /\ Cardinality(K) \in Nat /\ Cardinality(K) <= n
  BY <1>1, FS_Subset, FS_CardinalityType
<1> DEFINE N == 1..Cardinality(K)  Upto(i) == {j \in K : j <= i}
<1>3. IsFiniteSet(N) /\ Cardinality(N) = Cardinality(K)
  BY <1>2, FS_Interval
<1>4. ASSUME NEW i \in K PROVE IsFiniteSet(Upto(i)) /\ f[i] = Cardinality(Upto(i)) /\ f[i] \in N
  <2>1. Upto(i) \in SUBSET K /\ i \in Upto(i)
    OBVIOUS
  <2>2. IsFiniteSet(Upto(i)) /\ Cardinality(Upto(i)) \in Nat
        /\ Cardinality(Upto(i)) <= Cardinality(K) /\ Cardinality(Upto(i)) # 0
    BY <1>2, <2>1, FS_Subset, FS_CardinalityType, FS_EmptySet
  <2>3. f[i] = Cardinality(Upto(i))
    OBVIOUS
  <2> HIDE DEF Upto
  <2> QED
    BY <1>2, <2>2, <2>3
<1>5. ASSUME NEW i \in K, NEW k \in K, i < k PROVE f[i] # f[k]
  <2>0. i \in Nat /\ k \in Nat /\ (\A j \in K : j <= i => j <= k) /\ ~(k <= i) /\ k <= k
    BY <1>5
  <2>1. Upto(i) \in SUBSET Upto(k) /\ k \in Upto(k) /\ k \notin Upto(i)
    BY <2>0
  <2>2. f[i] = Cardinality(Upto(i)) /\ f[k] = Cardinality(Upto(k)) /\ IsFiniteSet(Upto(k))
    BY <1>4
  <2> HIDE DEF Upto
  <2>3. Upto(k) # Upto(i)
    BY <2>1
  <2> QED
    BY <2>1, <2>2, <2>3, FS_Subset
<1>6. f \in Injection(K, N)
  <2>1. \A i, k \in K : f[i] = f[k] => i = k
    BY <1>5
  <2>2. f \in [K -> N]
    BY <1>4
  <2> QED
    BY <2>1, <2>2 DEF Injection, IsInjective
<1>7. f \in Surjection(K, N)
  BY <1>2, <1>3, <1>6, FS_Injection
<1> QED
  BY <1>2, <1>6, <1>7 DEF Bijection

\* A function on an initial interval is a sequence.
LEMMA SequenceOf ==
  ASSUME NEW S, NEW m \in Nat, NEW r \in [1..m -> S]
  PROVE  r \in Seq(S) /\ Len(r) = m /\ DOMAIN r = 1..m
<1>1. r \in Seq(S)
  BY SeqDef, Zenon
<1> QED
  BY <1>1, LenProperties

\* How often an item is in the places K of a queue, the numbers of these places, and the
\* queue of what is in them.
Among(s, K, x) == Cardinality({i \in K : s[i] = x})
Numbers(K) == [i \in K |-> Cardinality({j \in K : j <= i})]
Picked(s, K, f, m) == [k \in 1..m |-> s[CHOOSE i \in K : f[i] = k]]

\* Items that are renumbered are counted as before.
LEMMA AmongRenumbered ==
  ASSUME NEW m, NEW K, IsFiniteSet(K), NEW f \in Bijection(K, 1..m),
         NEW s, NEW r, \A i \in K : r[f[i]] = s[i], NEW x
  PROVE  Among(r, 1..m, x) = Among(s, K, x)
<1> DEFINE A == {i \in K : s[i] = x}  B == {k \in 1..m : r[k] = x}
           h == [i \in A |-> f[i]]
<1>1. /\ \A i, j \in K : f[i] = f[j] => i = j
      /\ \A i \in K : f[i] \in 1..m
      /\ \A k \in 1..m : \E i \in K : f[i] = k
  BY DEF Bijection, Injection, Surjection, IsInjective
<1>2. IsFiniteSet(A)
  <2>1. A \in SUBSET K
    OBVIOUS
  <2> QED
    BY <2>1, FS_Subset
<1>3. \A i \in A : f[i] \in B
  BY <1>1
<1>4. \A k \in B : \E i \in A : f[i] = k
  BY <1>1
<1>5. \A i, j \in A : f[i] = f[j] => i = j
  BY <1>1
<1> HIDE DEF A, B
<1>6. h \in [A -> B] /\ (\A i, j \in A : h[i] = h[j] => i = j) /\ \A k \in B : \E i \in A : h[i] = k
  BY <1>3, <1>4, <1>5
<1> HIDE DEF h
<1>7. h \in Bijection(A, B)
  BY <1>6 DEF Bijection, Injection, Surjection, IsInjective
<1>8. ExistsBijection(A, B)
  BY <1>7 DEF ExistsBijection
<1>9. Cardinality(B) = Cardinality(A)
  BY <1>2, <1>8, FS_Bijection
<1> QED
  BY <1>9 DEF A, B, Among

\* What is in some places of a queue, in their order, is there as often as before.
LEMMA PickedIs ==
  ASSUME NEW S, NEW s \in Seq(S), NEW K \in SUBSET (DOMAIN s), IsFiniteSet(K),
         NEW m \in Nat, NEW f \in Bijection(K, 1..m)
  PROVE  /\ Picked(s, K, f, m) \in Seq(S) /\ Len(Picked(s, K, f, m)) = m
         /\ \A x : Count(Picked(s, K, f, m), x) = Among(s, K, x)
<1> DEFINE r == Picked(s, K, f, m)
<1>1. /\ \A i, j \in K : f[i] = f[j] => i = j
      /\ \A i \in K : f[i] \in 1..m
      /\ \A k \in 1..m : \E i \in K : f[i] = k
  BY DEF Bijection, Injection, Surjection, IsInjective
<1>2. ASSUME NEW k \in 1..m PROVE \E i \in K : f[i] = k /\ r[k] = s[i]
  <2>1. PICK i \in K : i = CHOOSE j \in K : f[j] = k
    BY <1>1
  <2>2. f[i] = k
    BY <1>1, <2>1
  <2>3. r[k] = s[i]
    BY <2>1 DEF Picked
  <2> QED
    BY <2>2, <2>3
<1>3. r = [k \in 1..m |-> r[k]]
  BY DEF Picked
<1> HIDE DEF r
<1>4. \A i \in K : r[f[i]] = s[i]
  BY <1>1, <1>2
<1>5. r \in [1..m -> S]
  <2>1. \A i \in K : s[i] \in S
    BY LenProperties
  <2> QED
    BY <1>2, <1>3, <2>1
<1>6. r \in Seq(S) /\ Len(r) = m /\ DOMAIN r = 1..m
  BY <1>5, SequenceOf
<1>7. ASSUME NEW x PROVE Among(r, 1..m, x) = Among(s, K, x)
  BY <1>4, AmongRenumbered, SMT
<1> QED
  BY <1>6, <1>7 DEF Count, Among, r

\* What did not expire stays queued, as often as before.
LEMMA UnexpiredIs ==
  ASSUME NEW S, NEW s \in Seq(S)
  PROVE  /\ Unexpired(s) \in Seq(S) /\ Len(Unexpired(s)) \in 0..Len(s)
         /\ \A x : Count(Unexpired(s), x) =
                     IF HasFailed(x) THEN 0 ELSE Count(s, x)
<1> DEFINE K == {i \in DOMAIN s : ~HasFailed(s[i])}
           m == Cardinality(K)
<1>1. Unexpired(s) = Picked(s, K, Numbers(K), m)
  BY DEF Unexpired, Picked, Numbers
<1>2. Len(s) \in Nat /\ s \in [1..Len(s) -> S] /\ DOMAIN s = 1..Len(s)
  BY LenProperties
<1>3. K \in SUBSET (1..Len(s))
  BY <1>2
<1>4. ASSUME NEW x PROVE Among(s, K, x) = IF HasFailed(x) THEN 0 ELSE Count(s, x)
  <2>1. {i \in K : s[i] = x} = IF HasFailed(x) THEN {} ELSE {i \in DOMAIN s : s[i] = x}
    OBVIOUS
  <2> QED
    BY <2>1, FS_EmptySet DEF Among, Count
<1> HIDE DEF K, m
<1>5. Numbers(K) \in Bijection(K, 1..m) /\ m \in 0..Len(s)
  BY <1>2, <1>3, Numbered DEF Numbers, m
<1> m \in Nat
  BY <1>2, <1>5
<1> K \in SUBSET (DOMAIN s) /\ IsFiniteSet(K)
  <2>1. IsFiniteSet(1..Len(s))
    BY <1>2, FS_Interval
  <2> QED
    BY <1>2, <1>3, <2>1, FS_Subset
<1>6. /\ Picked(s, K, Numbers(K), m) \in Seq(S) /\ Len(Picked(s, K, Numbers(K), m)) = m
      /\ \A x : Count(Picked(s, K, Numbers(K), m), x) = Among(s, K, x)
  BY <1>5, PickedIs, Zenon
<1> QED
  BY <1>1, <1>4, <1>5, <1>6

(***************************************************************************)
(* Queues of commands and replies.                                         *)
(***************************************************************************)
\* A queue t is s and e at its end, as far as counting goes; or s without e at its head.
Sent(s, t, e) == \A x : Count(t, x) = Count(s, x) + (IF e = x THEN 1 ELSE 0)
Taken(s, t, e) == \A x : Count(t, x) = Count(s, x) - (IF e = x THEN 1 ELSE 0)

\* What a queue gains and loses, for all items at once.
LEMMA AppendSends ==
  ASSUME NEW S, NEW s \in Seq(S), NEW e \in S
  PROVE  Append(s, e) \in Seq(S) /\ Sent(s, Append(s, e), e)
<1>1. Append(s, e) \in Seq(S)
  BY AppendProperties
<1>2. \A x : Count(Append(s, e), x) = Count(s, x) + (IF e = x THEN 1 ELSE 0)
  BY CountAppend, Zenon
<1> QED
  BY <1>1, <1>2 DEF Sent

LEMMA TailTakes ==
  ASSUME NEW S, NEW s \in Seq(S), s # << >>
  PROVE  Head(s) \in S /\ Tail(s) \in Seq(S) /\ Taken(s, Tail(s), Head(s))
<1>1. Head(s) \in S /\ Tail(s) \in Seq(S)
  BY HeadTailProperties
<1>2. \A x : Count(Tail(s), x) = Count(s, x) - (IF Head(s) = x THEN 1 ELSE 0)
  BY CountTail, Zenon
<1> QED
  BY <1>1, <1>2 DEF Taken

LEMMA CountsAreNat ==
  ASSUME NEW S, NEW s \in Seq(S)
  PROVE  \A x : Count(s, x) \in Nat
BY CountIs, Zenon

LEMMA EmptyCounts == \A x : Count(<< >>, x) = 0
<1> << >> \in Seq({})
  BY EmptySeq
<1> QED
  BY CountIs, Zenon

\* The order of a watch and its cancellation, when a queue gets a command or loses one.
LEMMA OrderAppend ==
  ASSUME NEW S, NEW s \in Seq(S), NEW e \in S, NEW id, InOrder(s, id),
         e = Watch(id) => Count(s, Cancel(id)) = 0,
         Cancel(id) # Watch(id)
  PROVE  InOrder(Append(s, e), id)
<1> DEFINE n == Len(s)  r == Append(s, e)
<1>1. n \in Nat /\ DOMAIN s = 1..n
  BY LenProperties
<1>2. r \in Seq(S) /\ Len(r) = n + 1 /\ (\A i \in 1..n : r[i] = s[i]) /\ r[n + 1] = e
  BY AppendProperties
<1>3. DOMAIN r = 1..(n + 1)
  BY <1>2, LenProperties
<1>4. Count(s, Cancel(id)) = 0 => \A i \in 1..n : s[i] # Cancel(id)
  <2>1. Cancel(id) \in ToSet(s) <=> Count(s, Cancel(id)) # 0
    BY CountIs, Zenon
  <2> QED
    BY <1>1, <2>1 DEF ToSet
<1> HIDE DEF n, r
<1>5. ASSUME NEW i \in 1..(n + 1), NEW j \in 1..(n + 1), r[i] = Cancel(id), r[j] = Watch(id)
      PROVE  j < i
  <2>1. CASE i = n + 1
    <3>1. j # n + 1
      BY <1>2, <1>5, <2>1
    <3> QED
      BY <1>1, <2>1, <3>1
  <2>2. CASE i # n + 1
    <3>1. i \in 1..n /\ s[i] = Cancel(id)
      BY <1>1, <1>2, <1>5, <2>2
    <3>2. CASE j = n + 1
      BY <1>2, <1>4, <1>5, <3>1, <3>2
    <3>3. CASE j # n + 1
      <4>1. j \in 1..n /\ s[j] = Watch(id)
        BY <1>1, <1>2, <1>5, <3>3
      <4> QED
        BY <1>1, <3>1, <4>1 DEF InOrder
    <3> QED
      BY <3>2, <3>3
  <2> QED
    BY <2>1, <2>2
<1> QED
  BY <1>3, <1>5 DEF InOrder, r

LEMMA OrderTail ==
  ASSUME NEW S, NEW s \in Seq(S), s # << >>, NEW id, InOrder(s, id)
  PROVE  /\ InOrder(Tail(s), id)
         /\ Head(s) = Cancel(id) => Count(s, Watch(id)) = 0
<1> DEFINE n == Len(s)  r == Tail(s)
<1>1. n \in Nat \ {0} /\ DOMAIN s = 1..n /\ Head(s) = s[1]
  BY LenProperties, EmptySeq
<1>2. r \in Seq(S) /\ Len(r) = n - 1 /\ (\A i \in 1..Len(r) : r[i] = s[i + 1])
  BY HeadTailProperties
<1>3. DOMAIN r = 1..(n - 1)
  BY <1>2, LenProperties
<1>4. (\A i \in 1..n : s[i] # Watch(id)) => Count(s, Watch(id)) = 0
  <2>1. Watch(id) \in ToSet(s) <=> Count(s, Watch(id)) # 0
    BY CountIs, Zenon
  <2> QED
    BY <1>1, <2>1 DEF ToSet
<1> HIDE DEF n, r
<1>5. ASSUME NEW i \in 1..(n - 1), NEW j \in 1..(n - 1), r[i] = Cancel(id), r[j] = Watch(id)
      PROVE  j < i
  <2>1. i + 1 \in 1..n /\ j + 1 \in 1..n /\ s[i + 1] = Cancel(id) /\ s[j + 1] = Watch(id)
    BY <1>1, <1>2, <1>5
  <2>2. j + 1 < i + 1
    BY <1>1, <2>1 DEF InOrder
  <2> QED
    BY <2>2
<1>6. ASSUME Head(s) = Cancel(id), NEW j \in 1..n PROVE s[j] # Watch(id)
  <2>1. 1 \in 1..n /\ ~(j < 1)
    BY <1>1
  <2> QED
    BY <1>1, <1>6, <2>1 DEF InOrder
<1> QED
  BY <1>3, <1>4, <1>5, <1>6 DEF InOrder, r

(***************************************************************************)
(* The steps.                                                              *)
(***************************************************************************)
\* Commands and replies are told apart by their parts.
LEMMA CommandIs ==
  /\ \A i \in Watchers : Watch(i) \in Commands /\ Credit(i) \in Commands /\ Cancel(i) \in Commands
                         /\ \A e \in Final \cup {"running"} :
                              Reply(i, e) \in Replies
  /\ \A i, j : /\ Watch(i) # Credit(j) /\ Watch(i) # Cancel(j) /\ Credit(i) # Cancel(j)
               /\ (Watch(i) = Watch(j) <=> i = j) /\ (Credit(i) = Credit(j) <=> i = j)
               /\ (Cancel(i) = Cancel(j) <=> i = j) /\ (Sample(i) = Sample(j) <=> i = j)
  /\ \A i, j : \A e \in Final :
       /\ Sample(i) # Reply(j, e)
       /\ Reply(i, e) = Reply(j, e) <=> i = j
BY DEF Commands, Replies, Watch, Credit, Cancel, Sample, Command, Reply,
       Final

\* What is counted of a watch are numbers.
LEMMA NumbersOf ==
  ASSUME DiagnosticsTyped, NEW id
  PROVE  /\ \A x : Count(channel, x) \in Nat /\ Count(line, x) \in Nat /\ Count(inbox, x) \in Nat
         /\ AtClient(id) \in {0, 1} /\ AtWatch(id) \in {0, 1} /\ RunsOnce(id) \in {0, 1}
<1>1. AtClient(id) \in {0, 1} /\ AtWatch(id) \in {0, 1} /\ RunsOnce(id) \in {0, 1}
  BY DEF AtClient, AtWatch, RunsOnce
<1>2. line \in Seq(Commands) /\ inbox \in Seq(Commands) /\ channel \in Seq(Replies)
  BY DEF DiagnosticsTyped
<1>3. (\A x : Count(channel, x) \in Nat) /\ (\A x : Count(line, x) \in Nat)
      /\ (\A x : Count(inbox, x) \in Nat)
  BY <1>2, CountsAreNat, Zenon
<1> QED
  BY <1>1, <1>3

\* A client asks for a watch: a number that was nowhere is on the line.
LEMMA KeptSubmits ==
  ASSUME DiagnosticsInv, Submits
  PROVE  DiagnosticsInv'
<1>1. PICK k \in Watchers \ asked :
        /\ asked' = asked \cup {k}
        /\ entries' = [i \in DOMAIN entries \cup {k} |->
             IF i = k THEN [waiting |-> FALSE, started |-> FALSE] ELSE entries[i]]
        /\ line' = Append(line, Command(k, "watch"))
  BY DEF Submits
<1>2. open /\ UNCHANGED <<inbox, watches, channel, open, spoilt>>
  BY DEF Submits, NoMishap, companionVars
<1>3. DiagnosticsTyped
  BY DEF DiagnosticsInv
<1>4. Watch(k) \in Commands /\ line' = Append(line, Watch(k))
  BY <1>1, CommandIs DEF Watch
<1>5. line' \in Seq(Commands) /\ Sent(line, line', Watch(k))
  <2>1. line \in Seq(Commands)
    BY <1>3 DEF DiagnosticsTyped
  <2> QED
    BY <1>4, <2>1, AppendSends, Zenon
<1>6. DiagnosticsTyped'
  <2>1. entries' \in [DOMAIN entries' -> [waiting : BOOLEAN, started : BOOLEAN]]
        /\ DOMAIN entries' \subseteq Watchers
    BY <1>1, <1>3 DEF DiagnosticsTyped
  <2> QED
    BY <1>2, <1>3, <1>5, <2>1 DEF DiagnosticsTyped
<1>7. ASSUME NEW id \in Watchers PROVE WatchKept(id)'
  <2>1. WatchKept(id)
    BY DEF DiagnosticsInv
  <2>2. InOrder(line', id)
    <3>1. line \in Seq(Commands) /\ InOrder(line, id)
      BY <1>3, <2>1 DEF DiagnosticsTyped, WatchKept
    <3>2. Watch(k) = Watch(id) => Count(line, Cancel(id)) = 0
      BY <1>1, <2>1, CommandIs DEF WatchKept
    <3>3. Cancel(id) # Watch(id)
      BY CommandIs
    <3> QED
      BY <1>4, <3>1, <3>2, <3>3, OrderAppend, Zenon
  <2>3. /\ Count(line', Watch(id)) = Count(line, Watch(id)) + (IF k = id THEN 1 ELSE 0)
        /\ Count(line', Credit(id)) = Count(line, Credit(id)) + 0
        /\ Count(line', Cancel(id)) = Count(line, Cancel(id)) + 0
    BY <1>5, CommandIs DEF Sent
  <2>4. AtClient(id)' = IF id = k THEN 0 ELSE AtClient(id)
    BY <1>1 DEF AtClient
  <2>5. UNCHANGED <<AtWatch(id), RunsOnce(id)>> /\ (HasEnded(id)' <=> HasEnded(id))
    BY <1>2 DEF AtWatch, RunsOnce, HasEnded
  <2>6. (id \in DOMAIN entries' <=> id \in DOMAIN entries \/ id = k)
        /\ (id \in asked' <=> id \in asked \/ id = k)
    BY <1>1
  <2>7. InOrder(inbox', id) <=> InOrder(inbox, id)
    BY <1>2
  <2>8. \A x : Count(channel, x) \in Nat /\ Count(line, x) \in Nat /\ Count(inbox, x) \in Nat
    BY <1>3, NumbersOf
  <2>9. AtClient(id) \in {0, 1} /\ AtWatch(id) \in {0, 1} /\ RunsOnce(id) \in {0, 1}
    BY <1>3, NumbersOf
  <2>10. CASE id = k
    <3>1. /\ Credits(id) = 0 /\ WatchPlaces(id) = 0 /\ ~HasEnded(id)
          /\ Count(line, Cancel(id)) = 0 /\ Count(inbox, Cancel(id)) = 0
      BY <1>1, <2>1, <2>10 DEF WatchKept
    <3>2. AtClient(id)' = 0
      BY <2>4, <2>9, <2>10
    <3>3. Credits(id)' <= 1
      BY <1>2, <2>3, <2>5, <2>8, <2>9, <2>10, <3>1, <3>2 DEF Credits, Total
    <3>4. WatchPlaces(id)' <= 1
      BY <1>2, <2>3, <2>5, <2>8, <2>9, <2>10, <3>1 DEF WatchPlaces, Three
    <3>5. id \in DOMAIN entries' /\ id \in asked'
      BY <2>6, <2>10
    <3> QED
      BY <1>2, <2>1, <2>2, <2>5, <2>7, <3>1, <3>3, <3>4, <3>5 DEF WatchKept
  <2>11. CASE id # k
    <3>1. Credits(id)' = Credits(id)
      BY <1>2, <2>3, <2>4, <2>5, <2>8, <2>9, <2>11 DEF Credits, Total
    <3>2. WatchPlaces(id)' = WatchPlaces(id)
      BY <1>2, <2>3, <2>4, <2>5, <2>8, <2>9, <2>11 DEF WatchPlaces, Three
    <3>3. /\ Count(line', Watch(id)) = Count(line, Watch(id))
          /\ Count(line', Cancel(id)) = Count(line, Cancel(id))
      BY <2>3, <2>8, <2>11
    <3>4. /\ id \in DOMAIN entries' <=> id \in DOMAIN entries
          /\ id \in asked' <=> id \in asked
      BY <2>6, <2>11
    <3> QED
      BY <1>2, <2>1, <2>2, <2>5, <2>7, <3>1, <3>2, <3>3, <3>4
      DEF WatchKept
  <2> QED
    BY <2>10, <2>11
<1> QED
  BY <1>6, <1>7 DEF DiagnosticsInv

\* A command or reply is of one request.
LEMMA ItemIs ==
  /\ \A c \in Commands : c.id \in Watchers /\ c \in {Watch(c.id), Credit(c.id), Cancel(c.id)}
  /\ \A r \in Replies : /\ r.id \in Watchers
                        /\ \/ r = Sample(r.id) /\ r.state = "running"
                           \/ r.state \in Final /\ r = Reply(r.id, r.state)
                              /\ r.state # "running"
BY DEF Commands, Replies, Watch, Credit, Cancel, Sample, Command, Reply,
       Final

\* A request that no step is about.
Same(id) ==
  /\ Count(line', Watch(id)) = Count(line, Watch(id))
  /\ Count(line', Credit(id)) = Count(line, Credit(id))
  /\ Count(line', Cancel(id)) = Count(line, Cancel(id))
  /\ Count(inbox', Watch(id)) = Count(inbox, Watch(id))
  /\ Count(inbox', Credit(id)) = Count(inbox, Credit(id))
  /\ Count(inbox', Cancel(id)) = Count(inbox, Cancel(id))
  /\ Count(channel', Sample(id)) = Count(channel, Sample(id))
  /\ HasEnded(id)' <=> HasEnded(id)
  /\ AtClient(id)' = AtClient(id) /\ AtWatch(id)' = AtWatch(id) /\ RunsOnce(id)' = RunsOnce(id)
  /\ id \in DOMAIN entries' <=> id \in DOMAIN entries
  /\ id \in asked' <=> id \in asked
  /\ id \in spoilt => id \in spoilt'
  /\ open' => open

\* A watch of which nothing changed.
LEMMA SameKept ==
  ASSUME NEW id, WatchKept(id), Same(id), InOrder(line', id), InOrder(inbox', id)
  PROVE  WatchKept(id)'
<1>1. Credits(id)' = Credits(id)
  BY DEF Same, Credits, Total
<1>2. WatchPlaces(id)' = WatchPlaces(id)
  BY DEF Same, WatchPlaces, Three
<1> QED
  BY <1>1, <1>2 DEF Same, WatchKept

\* A reply that is given.
LEMMA ReplyGiven ==
  ASSUME DiagnosticsTyped, NEW r \in Replies, Sent(channel, channel', r), NEW id
  PROVE  /\ Count(channel', Sample(id)) = Count(channel, Sample(id)) + (IF r = Sample(id) THEN 1 ELSE 0)
         /\ HasEnded(id)' <=> HasEnded(id) \/ (r.id = id /\ r.state # "running")
<1>1. \A e \in Final :
        Count(channel', Reply(id, e)) # 0 <=>
          Count(channel, Reply(id, e)) # 0 \/ r = Reply(id, e)
  <2>1. \A x : Count(channel, x) \in Nat
    BY NumbersOf
  <2> QED
    BY <2>1 DEF Sent
<1>2. r.id = id /\ r.state # "running" <=> \E e \in Final : r = Reply(id, e)
  BY DEF Replies, Reply, Final
<1>3. HasEnded(id)' <=> HasEnded(id) \/ (r.id = id /\ r.state # "running")
  BY <1>1, <1>2 DEF HasEnded
<1> QED
  BY <1>3 DEF Sent

\* A reply that the daemon takes.
LEMMA ReplyTaken ==
  ASSUME DiagnosticsTyped, NEW r \in Replies, Taken(channel, channel', r), NEW id,
         \A x : Count(channel', x) \in Nat
  PROVE  /\ Count(channel', Sample(id)) = Count(channel, Sample(id)) - (IF r = Sample(id) THEN 1 ELSE 0)
         /\ HasEnded(id)' => HasEnded(id)
         /\ r.id = id /\ r.state # "running" => HasEnded(id)
         /\ r.id # id => (HasEnded(id)' <=> HasEnded(id))
<1>0. \A x : Count(channel, x) \in Nat
  BY NumbersOf
<1>1. \A e \in Final :
        /\ Count(channel', Reply(id, e)) # 0 => Count(channel, Reply(id, e)) # 0
        /\ r = Reply(id, e) => Count(channel, Reply(id, e)) # 0
        /\ r # Reply(id, e) =>
             Count(channel', Reply(id, e)) = Count(channel, Reply(id, e))
  BY <1>0 DEF Taken
<1>2. /\ r.id = id /\ r.state # "running" => \E e \in Final : r = Reply(id, e)
      /\ r.id # id => \A e \in Final : r # Reply(id, e)
  BY DEF Replies, Reply, Final
<1>3. /\ HasEnded(id)' => HasEnded(id)
      /\ r.id = id /\ r.state # "running" => HasEnded(id)
      /\ r.id # id => (HasEnded(id)' <=> HasEnded(id))
  BY <1>1, <1>2 DEF HasEnded
<1> QED
  BY <1>3 DEF Taken

\* A reply is given, or dropped, and its request is spoilt.
LEMMA Responds ==
  ASSUME DiagnosticsTyped, NEW r \in Replies, Respond(<<r>>)
  PROVE  /\ channel' \in Seq(Replies) /\ spoilt \subseteq spoilt'
         /\ \/ Sent(channel, channel', r) /\ channel' # channel
            \/ channel' = channel /\ r.id \in spoilt'
<1>1. channel \in Seq(Replies)
  BY DEF DiagnosticsTyped
<1>2. CASE channel' = channel \o <<r>> /\ NoMishap
  <2>1. channel \o <<r>> = Append(channel, r)
    BY <1>1, AppendIsConcat
  <2>2. Append(channel, r) \in Seq(Replies) /\ Sent(channel, Append(channel, r), r)
    BY <1>1, AppendSends, Zenon
  <2>3. Append(channel, r) # channel
    BY <1>1, <2>2, CountsAreNat DEF Sent
  <2>4. spoilt' = spoilt
    BY <1>2 DEF NoMishap
  <2> QED
    BY <1>2, <2>1, <2>2, <2>3, <2>4
<1>3. CASE channel' = channel /\ Mishap({q.id : q \in ToSet(<<r>>)})
  <2>1. r \in ToSet(<<r>>)
    BY DEF ToSet
  <2>2. spoilt' = spoilt \cup {q.id : q \in ToSet(<<r>>)}
    BY <1>3 DEF Mishap
  <2> QED
    BY <1>1, <1>3, <2>1, <2>2
<1> QED
  BY <1>2, <1>3 DEF Respond

LEMMA RespondsNothing ==
  ASSUME DiagnosticsTyped, Respond(<< >>)
  PROVE  channel' = channel /\ spoilt' = spoilt
<1>1. channel' = channel \o << >> /\ NoMishap
  BY DEF Respond
<1>2. channel \in Seq(Replies)
  BY DEF DiagnosticsTyped
<1> QED
  BY <1>1, <1>2, ConcatEmptySeq DEF NoMishap

\* A failed command: its request is spoilt.
LEMMA FailsOne ==
  ASSUME DiagnosticsTyped, NEW k \in Watchers,
         channel' = Append(channel, Reply(k, "failed"))
  PROVE  /\ channel' \in Seq(Replies)
         /\ \A id : /\ Count(channel', Sample(id)) = Count(channel, Sample(id))
                    /\ id # k => (HasEnded(id)' <=> HasEnded(id))
<1> DEFINE r == Reply(k, "failed")
<1>1. r \in Replies /\ r.id = k
  BY CommandIs DEF Final, Reply
<1>2. channel \in Seq(Replies)
  BY DEF DiagnosticsTyped
<1> HIDE DEF r
<1>3. channel' \in Seq(Replies) /\ Sent(channel, channel', r)
  <2>1. channel' = Append(channel, r)
    BY DEF r
  <2> QED
    BY <1>1, <1>2, <2>1, AppendSends, Zenon
<1>4. ASSUME NEW id PROVE r # Sample(id)
  BY CommandIs DEF r, Final
<1>5. ASSUME NEW id
      PROVE  /\ Count(channel', Sample(id)) = Count(channel, Sample(id)) + (IF r = Sample(id) THEN 1 ELSE 0)
             /\ HasEnded(id)' <=> HasEnded(id) \/ (r.id = id /\ r.state # "running")
  BY <1>1, <1>3, ReplyGiven, Zenon
<1>6. ASSUME NEW id PROVE Count(channel', Sample(id)) = Count(channel, Sample(id))
  <2>1. Count(channel, Sample(id)) \in Nat
    BY NumbersOf
  <2> QED
    BY <1>4, <1>5, <2>1
<1> QED
  BY <1>1, <1>3, <1>5, <1>6

LEMMA KeptArrives ==
  ASSUME DiagnosticsInv, Arrives
  PROVE  DiagnosticsInv'
<1> DEFINE c == Head(line)
<1>1. /\ line # << >> /\ open /\ line' = Tail(line)
      /\ UNCHANGED <<asked, entries, watches, open>>
  BY DEF Arrives, daemonVars
<1>2. DiagnosticsTyped /\ line \in Seq(Commands) /\ inbox \in Seq(Commands)
  BY DEF DiagnosticsInv, DiagnosticsTyped
<1>3. c \in Commands /\ line' \in Seq(Commands) /\ Taken(line, line', c)
  BY <1>1, <1>2, TailTakes, Zenon
<1>4. \A x : Count(line', x) \in Nat
  BY <1>3, CountsAreNat, Zenon
<1>5. c.id \in Watchers /\ c \in {Watch(c.id), Credit(c.id), Cancel(c.id)}
  BY <1>3, ItemIs
<1>6. \A id \in Watchers : InOrder(line', id) /\ (c = Cancel(id) => Count(line, Watch(id)) = 0)
  <2>1. \A id \in Watchers : InOrder(line, id)
    BY DEF DiagnosticsInv, WatchKept
  <2> QED
    BY <1>1, <1>2, <2>1, OrderTail, Zenon
<1>7. CASE inbox' = Append(inbox, c) /\ UNCHANGED channel /\ NoMishap
  <2>1. inbox' \in Seq(Commands) /\ Sent(inbox, inbox', c)
    BY <1>2, <1>3, <1>7, AppendSends, Zenon
  <2>2. DiagnosticsTyped'
    BY <1>1, <1>2, <1>3, <1>7, <2>1 DEF DiagnosticsTyped
  <2>3. ASSUME NEW id \in Watchers PROVE WatchKept(id)'
    <3> HIDE DEF c
    <3>1. WatchKept(id)
      BY DEF DiagnosticsInv
    <3>2. \A x : /\ Count(line, x) \in Nat /\ Count(inbox, x) \in Nat /\ Count(channel, x) \in Nat
                 /\ Count(line', x) \in Nat
      BY <1>2, <1>4, NumbersOf
    <3>3. \A x : /\ Count(line', x) + Count(inbox', x) = Count(line, x) + Count(inbox, x)
                 /\ Count(line', x) <= Count(line, x)
                 /\ Count(inbox', x) \in Nat
                 /\ c = x => Count(line, x) # 0
                 /\ c # x => Count(inbox', x) = Count(inbox, x)
      BY <1>3, <2>1, <3>2 DEF Sent, Taken
    <3>4. /\ AtClient(id)' = AtClient(id) /\ AtWatch(id)' = AtWatch(id)
          /\ RunsOnce(id)' = RunsOnce(id) /\ (HasEnded(id)' <=> HasEnded(id))
      BY <1>1, <1>7 DEF AtClient, AtWatch, RunsOnce, HasEnded
    <3>5. AtClient(id) \in {0, 1} /\ AtWatch(id) \in {0, 1} /\ RunsOnce(id) \in {0, 1}
      BY <1>2, NumbersOf
    <3>6. Credits(id)' = Credits(id)
      <4>1. /\ Count(line', Watch(id)) + Count(inbox', Watch(id)) = Count(line, Watch(id)) + Count(inbox, Watch(id))
            /\ Count(line', Credit(id)) + Count(inbox', Credit(id)) = Count(line, Credit(id)) + Count(inbox, Credit(id))
            /\ Count(channel', Sample(id)) = Count(channel, Sample(id))
        BY <1>7, <3>3
      <4>2. /\ Count(line, Watch(id)) \in Nat /\ Count(inbox, Watch(id)) \in Nat
            /\ Count(line', Watch(id)) \in Nat /\ Count(inbox', Watch(id)) \in Nat
            /\ Count(line, Credit(id)) \in Nat /\ Count(inbox, Credit(id)) \in Nat
            /\ Count(line', Credit(id)) \in Nat /\ Count(inbox', Credit(id)) \in Nat
            /\ Count(channel, Sample(id)) \in Nat
        BY <3>2, <3>3
      <4> QED
        BY <3>4, <3>5, <4>1, <4>2 DEF Credits, Total
    <3>7. WatchPlaces(id)' = WatchPlaces(id)
      BY <3>2, <3>3, <3>4, <3>5 DEF WatchPlaces, Three
    <3>8. c = Watch(id) => Count(inbox, Cancel(id)) = 0
      BY <3>1, <3>3 DEF WatchKept
    <3>9. InOrder(inbox', id)
      <4>1. InOrder(inbox, id) /\ Cancel(id) # Watch(id)
        BY <3>1, CommandIs DEF WatchKept
      <4>2. inbox' = Append(inbox, c)
        BY <1>7
      <4> QED
        BY <1>2, <1>3, <3>8, <4>1, <4>2, OrderAppend, Zenon
    <3>10. Count(inbox', Cancel(id)) # 0 => Count(line', Watch(id)) = 0
      <4>1. CASE c = Cancel(id)
        BY <1>6, <3>2, <3>3, <4>1
      <4>2. CASE c # Cancel(id)
        BY <3>1, <3>2, <3>3, <4>2 DEF WatchKept
      <4> QED
        BY <4>1, <4>2
    <3>11. Count(line, Cancel(id)) + Count(inbox, Cancel(id)) =
           Count(line', Cancel(id)) + Count(inbox', Cancel(id))
      BY <3>2, <3>3
    <3>12. id \notin asked => Count(line', Cancel(id)) = 0 /\ Count(inbox', Cancel(id)) = 0
      BY <3>1, <3>2, <3>3, <3>11 DEF WatchKept
    <3>13. open' /\ spoilt' = spoilt
      BY <1>1, <1>7 DEF NoMishap
    <3> QED
      BY <1>1, <1>6, <3>1, <3>4, <3>6, <3>7, <3>9, <3>10, <3>11, <3>12, <3>13 DEF WatchKept
  <2> QED
    BY <2>2, <2>3 DEF DiagnosticsInv
<1>8. CASE /\ Mishap({c.id}) /\ UNCHANGED inbox
           /\ channel' = Append(channel, Reply(c.id, "failed"))
  <2>1. spoilt' = spoilt \cup {c.id}
    BY <1>8 DEF Mishap
  <2>2. /\ channel' \in Seq(Replies)
        /\ \A id : /\ Count(channel', Sample(id)) = Count(channel, Sample(id))
                   /\ id # c.id => (HasEnded(id)' <=> HasEnded(id))
    BY <1>2, <1>5, <1>8, FailsOne, Zenon
  <2>3. DiagnosticsTyped'
    BY <1>1, <1>2, <1>3, <1>8, <2>2 DEF DiagnosticsTyped
  <2>4. ASSUME NEW id \in Watchers PROVE WatchKept(id)'
    <3> HIDE DEF c
    <3>1. WatchKept(id)
      BY DEF DiagnosticsInv
    <3>2. \A x : /\ Count(line, x) \in Nat /\ Count(inbox, x) \in Nat /\ Count(channel, x) \in Nat
                 /\ Count(line', x) \in Nat
      BY <1>2, <1>4, NumbersOf
    <3>3. \A x : /\ Count(line', x) <= Count(line, x)
                 /\ c = x => Count(line, x) # 0
                 /\ c # x => Count(line', x) = Count(line, x)
      BY <1>3, <3>2 DEF Taken
    <3>4. /\ AtClient(id)' = AtClient(id) /\ AtWatch(id)' = AtWatch(id) /\ RunsOnce(id)' = RunsOnce(id)
      BY <1>1 DEF AtClient, AtWatch, RunsOnce
    <3>5. AtClient(id) \in {0, 1} /\ AtWatch(id) \in {0, 1} /\ RunsOnce(id) \in {0, 1}
      BY <1>2, NumbersOf
    <3>6. InOrder(line', id) /\ InOrder(inbox', id)
      BY <1>6, <1>8, <3>1 DEF WatchKept
    <3>7. CASE id # c.id
      <4>1. c # Watch(id) /\ c # Credit(id) /\ c # Cancel(id)
        BY <1>5, <3>7, CommandIs
      <4>2. /\ open' => open
            /\ id \in spoilt => id \in spoilt'
            /\ HasEnded(id)' <=> HasEnded(id)
        BY <1>1, <2>1, <2>2, <3>7
      <4>3. /\ Count(line', Watch(id)) = Count(line, Watch(id))
            /\ Count(line', Credit(id)) = Count(line, Credit(id))
            /\ Count(line', Cancel(id)) = Count(line, Cancel(id))
        BY <3>3, <4>1
      <4>4. Same(id)
        BY <1>1, <1>8, <2>2, <3>4, <4>2, <4>3 DEF Same
      <4> QED
        BY <3>1, <3>6, <4>4, SameKept
    <3>8. CASE id = c.id
      <4>0. /\ Count(line', Watch(id)) <= Count(line, Watch(id))
            /\ Count(line', Credit(id)) <= Count(line, Credit(id))
            /\ Count(inbox', Watch(id)) = Count(inbox, Watch(id))
            /\ Count(inbox', Credit(id)) = Count(inbox, Credit(id))
            /\ Count(channel', Sample(id)) = Count(channel, Sample(id))
            /\ Count(line, Watch(id)) \in Nat /\ Count(inbox, Watch(id)) \in Nat
            /\ Count(line, Credit(id)) \in Nat /\ Count(inbox, Credit(id)) \in Nat
            /\ Count(line', Watch(id)) \in Nat /\ Count(line', Credit(id)) \in Nat
            /\ Count(channel, Sample(id)) \in Nat
        BY <1>8, <2>2, <3>2, <3>3
      <4>1. Credits(id)' <= Credits(id) /\ Credits(id) \in Nat /\ Credits(id)' \in Nat
        BY <3>4, <3>5, <4>0 DEF Credits, Total
      <4>2. WatchPlaces(id)' <= WatchPlaces(id) /\ WatchPlaces(id)' \in Nat /\ WatchPlaces(id) \in Nat
        BY <1>8, <3>2, <3>3, <3>4, <3>5 DEF WatchPlaces, Three
      <4>4. id \in asked'
        <5>1. Count(line, Watch(id)) # 0 \/ Count(line, Credit(id)) # 0 \/ Count(line, Cancel(id)) # 0
          BY <1>5, <3>3, <3>8
        <5>2. Credits(id) = 0 /\ WatchPlaces(id) = 0 => Count(line, Watch(id)) = 0 /\ Count(line, Credit(id)) = 0
          BY <3>2, <3>5 DEF Credits, Total, WatchPlaces, Three
        <5> QED
          BY <1>1, <3>1, <5>1, <5>2 DEF WatchKept
      <4>5. Count(inbox', Cancel(id)) # 0 => Count(line', Watch(id)) = 0
        BY <1>8, <3>1, <3>2, <3>3 DEF WatchKept
      <4>6. id \in spoilt'
        BY <2>1, <3>8
      <4> QED
        BY <3>1, <3>6, <4>1, <4>2, <4>4, <4>5, <4>6 DEF WatchKept
    <3> QED
      BY <3>7, <3>8
  <2> QED
    BY <2>3, <2>4 DEF DiagnosticsInv
<1> QED
  BY <1>7, <1>8 DEF Arrives

\* A command that is obeyed.
LEMMA CommandedIs ==
  ASSUME DiagnosticsTyped, NEW c \in Commands, Commanded(c)
  PROVE  \/ /\ c = Watch(c.id) /\ UNCHANGED watches
            /\ Respond(<<Reply(c.id, "failed")>>)
         \/ /\ c = Watch(c.id) /\ Respond(<<Sample(c.id)>>)
            /\ watches' = IF channel' # channel THEN Credited(c.id, FALSE) ELSE watches
         \/ /\ c = Credit(c.id) /\ UNCHANGED channel /\ NoMishap
            /\ watches' = IF c.id \in RunningWatches THEN Credited(c.id, TRUE) ELSE watches
         \/ /\ c = Cancel(c.id) /\ watches' = Without(watches, {c.id})
            /\ \/ Respond(<<Reply(c.id, "cancelled")>>)
               \/ Respond(<< >>)
<1> DEFINE n == Cardinality(RunningWatches)
<1>1. n \in Nat /\ MaxWatches \in Nat
  <2> HIDE DEF n
  <2>1. n = Cardinality(DOMAIN watches)
    BY Zenon DEF n, RunningWatches
  <2>2. IsFiniteSet(DOMAIN watches)
    BY DEF DiagnosticsTyped
  <2> QED
    BY <2>1, <2>2, FS_CardinalityType, DiagnosticsAssumption
<1>2. /\ c.action \in {"watch", "credit", "cancel"}
      /\ c.action = "watch" => c = Watch(c.id)
      /\ c.action = "credit" => c = Credit(c.id)
      /\ c.action = "cancel" => c = Cancel(c.id)
  BY DEF Commands, Watch, Credit, Cancel, Command
<1>3. CASE c.action = "watch" /\ n >= MaxWatches
  <2>1. ~(n < MaxWatches)
    BY <1>1, <1>3
  <2>2. Respond(<<Reply(c.id, "failed")>>) /\ UNCHANGED watches
    BY <1>3, <2>1 DEF Commanded
  <2> QED
    BY <1>2, <1>3, <2>2
<1>4. CASE c.action = "watch" /\ n < MaxWatches
  <2>1. ~(n >= MaxWatches)
    BY <1>1, <1>4
  <2>2. /\ Respond(<<Reply(c.id, "running")>>)
        /\ watches' = IF channel' # channel THEN Credited(c.id, FALSE) ELSE watches
    BY <1>4, <2>1 DEF Commanded
  <2> QED
    BY <1>2, <1>4, <2>2 DEF Sample
<1> HIDE DEF n
<1>5. CASE c.action = "credit"
  BY <1>2, <1>5 DEF Commanded
<1>6. CASE c.action = "cancel"
  <2>1. /\ watches' = Without(watches, {c.id})
        /\ Respond(IF c.id \in RunningWatches
                     THEN <<Reply(c.id, "cancelled")>> ELSE << >>)
    BY <1>6 DEF Commanded
  <2>2. CASE c.id \in RunningWatches
    BY <1>2, <1>6, <2>1, <2>2
  <2>3. CASE c.id \notin RunningWatches
    BY <1>2, <1>6, <2>1, <2>3
  <2> QED
    BY <2>2, <2>3
<1>7. \/ c.action = "watch" /\ n >= MaxWatches
      \/ c.action = "watch" /\ n < MaxWatches
      \/ c.action = "credit" \/ c.action = "cancel"
  BY <1>1, <1>2
<1> QED
  BY <1>3, <1>4, <1>5, <1>6, <1>7, Zenon

\* What a command that is taken from the inbox leaves there.
LEMMA InboxTaken ==
  ASSUME DiagnosticsInv, inbox # << >>, inbox' = Tail(inbox)
  PROVE  /\ inbox' \in Seq(Commands) /\ Head(inbox) \in Commands
         /\ \A x : /\ Count(inbox', x) \in Nat /\ Count(inbox, x) \in Nat
                   /\ Count(inbox', x) <= Count(inbox, x)
                   /\ Head(inbox) = x => Count(inbox, x) = Count(inbox', x) + 1
                   /\ Head(inbox) # x => Count(inbox', x) = Count(inbox, x)
         /\ \A id \in Watchers : /\ InOrder(inbox', id)
                                 /\ Head(inbox) = Cancel(id) => Count(inbox, Watch(id)) = 0
<1>1. inbox \in Seq(Commands) /\ DiagnosticsTyped
  BY DEF DiagnosticsInv, DiagnosticsTyped
<1>2. Head(inbox) \in Commands /\ inbox' \in Seq(Commands) /\ Taken(inbox, inbox', Head(inbox))
  BY <1>1, TailTakes, Zenon
<1>3. \A x : Count(inbox', x) \in Nat /\ Count(inbox, x) \in Nat
  <2>1. (\A x : Count(inbox', x) \in Nat) /\ (\A x : Count(inbox, x) \in Nat)
    BY <1>1, <1>2, CountsAreNat, Zenon
  <2> QED
    BY <2>1
<1>4. \A id \in Watchers : InOrder(inbox', id) /\ (Head(inbox) = Cancel(id) => Count(inbox, Watch(id)) = 0)
  <2>1. \A id \in Watchers : InOrder(inbox, id)
    BY DEF DiagnosticsInv, WatchKept
  <2> QED
    BY <1>1, <2>1, OrderTail, Zenon
<1>5. \A x : /\ Count(inbox', x) <= Count(inbox, x)
             /\ Head(inbox) = x => Count(inbox, x) = Count(inbox', x) + 1
             /\ Head(inbox) # x => Count(inbox', x) = Count(inbox, x)
  BY <1>2, <1>3 DEF Taken
<1> QED
  BY <1>2, <1>3, <1>4, <1>5

\* A request of which a command is queued was made.
LEMMA QueuedAsked ==
  ASSUME DiagnosticsTyped, NEW id, WatchKept(id),
         \/ Count(inbox, Watch(id)) # 0 \/ Count(inbox, Credit(id)) # 0 \/ Count(inbox, Cancel(id)) # 0
  PROVE  id \in asked
<1>1. SUFFICES ASSUME id \notin asked PROVE FALSE
  OBVIOUS
<1>2. Credits(id) = 0 /\ Count(inbox, Cancel(id)) = 0
  BY <1>1 DEF WatchKept
<1>3. /\ Count(channel, Sample(id)) \in Nat /\ Count(line, Credit(id)) \in Nat
      /\ Count(inbox, Credit(id)) \in Nat /\ Count(line, Watch(id)) \in Nat
      /\ Count(inbox, Watch(id)) \in Nat /\ AtClient(id) \in Nat /\ AtWatch(id) \in Nat
  BY NumbersOf
<1>5. Count(inbox, Credit(id)) = 0 /\ Count(inbox, Watch(id)) = 0
  <2>1. Total(Count(channel, Sample(id)), Count(line, Credit(id)), Count(inbox, Credit(id)),
              Count(line, Watch(id)), Count(inbox, Watch(id)), AtClient(id), AtWatch(id)) = 0
    BY <1>2 DEF Credits
  <2> QED
    BY <1>3, <2>1, TotalZero, Zenon
<1> QED
  BY <1>2, <1>5

\* The places of a watch are numbers.
LEMMA PlacesNat ==
  ASSUME DiagnosticsTyped, NEW id
  PROVE  /\ Count(channel, Sample(id)) \in Nat /\ Count(line, Credit(id)) \in Nat
         /\ Count(inbox, Credit(id)) \in Nat /\ Count(line, Watch(id)) \in Nat
         /\ Count(inbox, Watch(id)) \in Nat
         /\ AtClient(id) \in Nat /\ AtWatch(id) \in Nat /\ RunsOnce(id) \in Nat
         /\ Credits(id) \in Nat /\ WatchPlaces(id) \in Nat
<1>1. /\ Count(channel, Sample(id)) \in Nat /\ Count(line, Credit(id)) \in Nat
      /\ Count(inbox, Credit(id)) \in Nat /\ Count(line, Watch(id)) \in Nat
      /\ Count(inbox, Watch(id)) \in Nat
      /\ AtClient(id) \in Nat /\ AtWatch(id) \in Nat /\ RunsOnce(id) \in Nat
  BY NumbersOf
<1>2. Credits(id) \in Nat
  BY <1>1, TotalNat DEF Credits
<1>3. WatchPlaces(id) \in Nat
  BY <1>1, ThreeSum DEF WatchPlaces
<1> QED
  BY <1>1, <1>2, <1>3

\* An inbox that loses its head without effect on the watches, as far as id goes.
LEMMA Ignored ==
  ASSUME DiagnosticsInv, DiagnosticsTyped', inbox # << >>, inbox' = Tail(inbox),
         UNCHANGED <<asked, entries, line, open>>, spoilt \subseteq spoilt',
         NEW id \in Watchers,
         Count(channel', Sample(id)) = Count(channel, Sample(id)),
         UNCHANGED <<AtWatch(id), RunsOnce(id)>>,
         \/ HasEnded(id)' <=> HasEnded(id)
         \/ id \in spoilt' /\ id \in asked,
         \/ Head(inbox) # Cancel(id)
         \/ ~open \/ id \in spoilt'
  PROVE  WatchKept(id)'
<1>1. WatchKept(id) /\ DiagnosticsTyped
  BY DEF DiagnosticsInv
<1>2. /\ Count(inbox', Watch(id)) <= Count(inbox, Watch(id)) /\ Count(inbox', Watch(id)) \in Nat
      /\ Count(inbox', Credit(id)) <= Count(inbox, Credit(id)) /\ Count(inbox', Credit(id)) \in Nat
      /\ Count(inbox', Cancel(id)) <= Count(inbox, Cancel(id)) /\ Count(inbox', Cancel(id)) \in Nat
      /\ Count(inbox, Cancel(id)) \in Nat
      /\ Head(inbox) # Cancel(id) => Count(inbox', Cancel(id)) = Count(inbox, Cancel(id))
      /\ InOrder(inbox', id)
  BY InboxTaken
<1>3. AtClient(id)' = AtClient(id)
  BY DEF AtClient
<1>13. /\ Count(channel, Sample(id)) \in Nat /\ Count(line, Credit(id)) \in Nat
      /\ Count(inbox, Credit(id)) \in Nat /\ Count(line, Watch(id)) \in Nat
      /\ Count(inbox, Watch(id)) \in Nat
      /\ AtClient(id) \in Nat /\ AtWatch(id) \in Nat /\ RunsOnce(id) \in Nat
      /\ Credits(id) \in Nat /\ WatchPlaces(id) \in Nat
  BY <1>1, PlacesNat
<1>14. /\ Count(line', Credit(id)) = Count(line, Credit(id))
      /\ Count(line', Watch(id)) = Count(line, Watch(id))
      /\ AtWatch(id)' = AtWatch(id) /\ RunsOnce(id)' = RunsOnce(id)
  OBVIOUS
<1>4. Credits(id)' <= Credits(id) /\ Credits(id)' \in Nat
  <2>1. /\ Count(channel', Sample(id)) \in Nat /\ Count(line', Credit(id)) \in Nat
        /\ Count(line', Watch(id)) \in Nat /\ AtClient(id)' \in Nat /\ AtWatch(id)' \in Nat
        /\ Count(channel', Sample(id)) <= Count(channel, Sample(id))
        /\ Count(line', Credit(id)) <= Count(line, Credit(id))
        /\ Count(line', Watch(id)) <= Count(line, Watch(id))
        /\ AtClient(id)' <= AtClient(id) /\ AtWatch(id)' <= AtWatch(id)
    BY <1>3, <1>13, <1>14
  <2>2. Credits(id)' <= Credits(id)
    BY <1>2, <1>13, <2>1, TotalFalls, Zenon DEF Credits
  <2>3. Credits(id)' \in Nat
    BY <1>2, <2>1, TotalNat, Zenon DEF Credits
  <2> QED
    BY <2>2, <2>3
<1>5. WatchPlaces(id)' <= WatchPlaces(id) /\ WatchPlaces(id)' \in Nat
  <2>1. /\ Count(line', Watch(id)) \in Nat /\ RunsOnce(id)' \in Nat
        /\ Count(line', Watch(id)) <= Count(line, Watch(id)) /\ RunsOnce(id)' <= RunsOnce(id)
    BY <1>13, <1>14
  <2>2. WatchPlaces(id)' <= WatchPlaces(id)
    BY <1>2, <1>13, <2>1, ThreeFalls, Zenon DEF WatchPlaces
  <2>3. WatchPlaces(id)' \in Nat
    BY <1>2, <2>1, ThreeSum, Zenon DEF WatchPlaces
  <2> QED
    BY <2>2, <2>3
<1>6. Count(line', Watch(id)) = Count(line, Watch(id)) /\ Count(line', Cancel(id)) = Count(line, Cancel(id))
      /\ (InOrder(line', id) <=> InOrder(line, id))
  OBVIOUS
<1>7. Count(inbox', Cancel(id)) # 0 => Count(line', Watch(id)) = 0
  BY <1>1, <1>2, <1>6 DEF WatchKept
<1>8. Credits(id)' <= 1 /\ WatchPlaces(id)' <= 1
  BY <1>1, <1>4, <1>5, <1>13 DEF WatchKept
<1>9. HasEnded(id)' /\ id \notin spoilt' => WatchPlaces(id)' = 0
  BY <1>1, <1>5, <1>13 DEF WatchKept
<1>10. open' /\ WatchPlaces(id)' # 0 /\ id \notin DOMAIN entries' /\ id \notin spoilt' =>
         Count(line', Cancel(id)) + Count(inbox', Cancel(id)) # 0
  BY <1>1, <1>2, <1>5, <1>6, <1>13 DEF WatchKept
<1>11. id \notin asked' =>
         /\ Credits(id)' = 0 /\ WatchPlaces(id)' = 0 /\ ~HasEnded(id)'
         /\ Count(line', Cancel(id)) = 0 /\ Count(inbox', Cancel(id)) = 0
  BY <1>1, <1>2, <1>4, <1>5, <1>6, <1>13 DEF WatchKept
<1> QED
  BY <1>1, <1>2, <1>6, <1>7, <1>8, <1>9, <1>10, <1>11 DEF WatchKept

\* A command that is obeyed, as far as its own request goes.
LEMMA ObeyedOne ==
  ASSUME DiagnosticsInv, inbox # << >>, inbox' = Tail(inbox),
         UNCHANGED <<asked, entries, line, open>>, spoilt \subseteq spoilt',
         NEW id \in Watchers, id \in asked,
         Credits(id)' <= 1, WatchPlaces(id)' <= 1,
         \/ id \in spoilt' \/ WatchPlaces(id)' = 0
         \/ /\ WatchPlaces(id)' = WatchPlaces(id) /\ Head(inbox) # Cancel(id)
            /\ HasEnded(id)' <=> HasEnded(id)
  PROVE  WatchKept(id)'
<1>1. WatchKept(id) /\ DiagnosticsTyped
  BY DEF DiagnosticsInv
<1>2. /\ Count(inbox', Cancel(id)) <= Count(inbox, Cancel(id)) /\ Count(inbox', Cancel(id)) \in Nat
      /\ Count(inbox, Cancel(id)) \in Nat
      /\ Head(inbox) # Cancel(id) => Count(inbox', Cancel(id)) = Count(inbox, Cancel(id))
      /\ InOrder(inbox', id)
  BY InboxTaken
<1>3. Count(line', Watch(id)) = Count(line, Watch(id)) /\ Count(line', Cancel(id)) = Count(line, Cancel(id))
      /\ (InOrder(line', id) <=> InOrder(line, id))
  OBVIOUS
<1>4. Count(inbox', Cancel(id)) # 0 => Count(line', Watch(id)) = 0
  BY <1>1, <1>2, <1>3 DEF WatchKept
<1>5. HasEnded(id)' /\ id \notin spoilt' => WatchPlaces(id)' = 0
  BY <1>1 DEF WatchKept
<1>6. open' /\ WatchPlaces(id)' # 0 /\ id \notin DOMAIN entries' /\ id \notin spoilt' =>
        Count(line', Cancel(id)) + Count(inbox', Cancel(id)) # 0
  BY <1>1, <1>2, <1>3 DEF WatchKept
<1> QED
  BY <1>1, <1>2, <1>3, <1>4, <1>5, <1>6 DEF WatchKept

\* The same of a command that its request alone knows of.
LEMMA ObeysFor ==
  ASSUME DiagnosticsInv, inbox # << >>, inbox' = Tail(inbox), UNCHANGED <<asked, entries, line, open>>,
         NEW c \in Commands, c = Head(inbox), NEW k \in Watchers, k = c.id,
         Commanded(c), open
  PROVE  DiagnosticsInv'
<1>1. DiagnosticsTyped /\ \A id \in Watchers : WatchKept(id)
  BY DEF DiagnosticsInv
<1>2. inbox' \in Seq(Commands) /\ c \in Commands
  BY InboxTaken
<1>3. k \in Watchers /\ c \in {Watch(k), Credit(k), Cancel(k)}
  BY <1>2, ItemIs
<1>4. k \in asked
  <2>1. Count(inbox, c) # 0
    BY <1>2, InboxTaken
  <2> QED
    BY <1>1, <1>3, <2>1, QueuedAsked
<1>5. ASSUME channel' \in Seq(Replies), spoilt \subseteq spoilt',
             watches' \in [DOMAIN watches' -> BOOLEAN], DOMAIN watches' \subseteq Watchers,
             IsFiniteSet(DOMAIN watches'),
             NEW r \in Replies, r.id = k,
             channel' = channel \/ Sent(channel, channel', r),
             \A id \in Watchers \ {k} : AtWatch(id)' = AtWatch(id) /\ RunsOnce(id)' = RunsOnce(id),
             WatchKept(k)'
      PROVE  DiagnosticsInv'
  <2>1. DiagnosticsTyped'
    BY <1>1, <1>2, <1>5 DEF DiagnosticsTyped
  <2>2. ASSUME NEW id \in Watchers, id # k PROVE WatchKept(id)'
    <3>1. Count(channel', Sample(id)) = Count(channel, Sample(id)) /\ (HasEnded(id)' <=> HasEnded(id))
      <4>1. CASE channel' = channel
        BY <4>1 DEF HasEnded
      <4>2. CASE Sent(channel, channel', r)
        <5>1. r # Sample(id)
          BY <1>5, <2>2 DEF Sample, Reply
        <5>2. Count(channel, Sample(id)) \in Nat
          BY <1>1, NumbersOf
        <5> QED
          BY <1>1, <1>5, <2>2, <4>2, <5>1, <5>2, ReplyGiven
      <4> QED
        BY <1>5, <4>1, <4>2
    <3>2. Head(inbox) # Cancel(id)
      BY <1>3, <2>2, CommandIs
    <3>3. UNCHANGED <<AtWatch(id), RunsOnce(id)>>
      BY <1>5, <2>2
    <3> QED
      BY <1>5, <2>1, <2>2, <3>1, <3>2, <3>3, Ignored, Zenon
  <2>3. ASSUME NEW id \in Watchers PROVE WatchKept(id)'
    <3>1. CASE id = k
      BY <1>5, <3>1
    <3>2. CASE id # k
      BY <2>2, <3>2
    <3> QED
      BY <3>1, <3>2
  <2> QED
    BY <2>1, <2>3 DEF DiagnosticsInv
<1>6. /\ Credits(k) <= 1 /\ WatchPlaces(k) <= 1 /\ InOrder(inbox, k)
      /\ Count(inbox, Cancel(k)) # 0 => Count(line, Watch(k)) = 0
  BY <1>1, <1>3 DEF WatchKept
<1>7. /\ Count(channel, Sample(k)) \in Nat /\ Count(line, Credit(k)) \in Nat
      /\ Count(inbox, Credit(k)) \in Nat /\ Count(line, Watch(k)) \in Nat
      /\ Count(inbox, Watch(k)) \in Nat
      /\ AtClient(k) \in Nat /\ AtWatch(k) \in Nat /\ RunsOnce(k) \in Nat
      /\ Credits(k) \in Nat /\ WatchPlaces(k) \in Nat
      /\ AtClient(k)' = AtClient(k)
      /\ AtWatch(k) \in {0, 1} /\ RunsOnce(k) \in {0, 1}
  <2>1. AtClient(k)' = AtClient(k)
    BY DEF AtClient
  <2>2. AtWatch(k) \in {0, 1} /\ RunsOnce(k) \in {0, 1}
    BY <1>1, NumbersOf
  <2>3. /\ Count(channel, Sample(k)) \in Nat /\ Count(line, Credit(k)) \in Nat
        /\ Count(inbox, Credit(k)) \in Nat /\ Count(line, Watch(k)) \in Nat
        /\ Count(inbox, Watch(k)) \in Nat
        /\ AtClient(k) \in Nat /\ AtWatch(k) \in Nat /\ RunsOnce(k) \in Nat
        /\ Credits(k) \in Nat /\ WatchPlaces(k) \in Nat
    BY <1>1, PlacesNat
  <2> QED
    BY <2>1, <2>2, <2>3
<1>8. /\ Count(inbox', Watch(k)) \in Nat /\ Count(inbox', Credit(k)) \in Nat
      /\ Count(inbox', Watch(k)) <= Count(inbox, Watch(k))
      /\ Count(inbox', Credit(k)) <= Count(inbox, Credit(k))
      /\ c = Watch(k) => Count(inbox, Watch(k)) = Count(inbox', Watch(k)) + 1
                         /\ Count(inbox', Credit(k)) = Count(inbox, Credit(k))
      /\ c = Credit(k) => Count(inbox, Credit(k)) = Count(inbox', Credit(k)) + 1
                          /\ Count(inbox', Watch(k)) = Count(inbox, Watch(k))
      /\ c = Cancel(k) => /\ Count(inbox', Credit(k)) = Count(inbox, Credit(k))
                          /\ Count(inbox, Watch(k)) = 0 /\ Count(inbox, Cancel(k)) # 0
  BY <1>3, CommandIs, InboxTaken
<1>9. /\ WatchPlaces(k) = Three(Count(line, Watch(k)), Count(inbox, Watch(k)), RunsOnce(k))
      /\ WatchPlaces(k)' = Three(Count(line, Watch(k)), Count(inbox', Watch(k)), RunsOnce(k)')
      /\ Credits(k) = Total(Count(channel, Sample(k)), Count(line, Credit(k)), Count(inbox, Credit(k)),
                            Count(line, Watch(k)), Count(inbox, Watch(k)), AtClient(k), AtWatch(k))
      /\ Credits(k)' = Total(Count(channel', Sample(k)), Count(line, Credit(k)), Count(inbox', Credit(k)),
                             Count(line, Watch(k)), Count(inbox', Watch(k)), AtClient(k), AtWatch(k)')
  <2>1. Count(line', Watch(k)) = Count(line, Watch(k)) /\ Count(line', Credit(k)) = Count(line, Credit(k))
    OBVIOUS
  <2> QED
    BY <1>7, <2>1, Zenon DEF WatchPlaces, Credits
<1>15. ASSUME c = Watch(k)
       PROVE  Count(line, Watch(k)) = 0 /\ Count(inbox', Watch(k)) = 0 /\ RunsOnce(k) = 0 /\ WatchPlaces(k) = 1
  <2>1. Three(Count(line, Watch(k)), Count(inbox, Watch(k)), RunsOnce(k)) <= 1 /\ Count(inbox, Watch(k)) # 0
    BY <1>6, <1>8, <1>9, <1>15
  <2>2. Count(line, Watch(k)) = 0 /\ Count(inbox, Watch(k)) = 1 /\ RunsOnce(k) = 0
    BY <1>7, <2>1, ThreeOne, Zenon
  <2> QED
    BY <1>8, <1>9, <1>15, <2>2 DEF Three
<1>16. ASSUME Count(channel', Sample(k)) \in Nat, AtWatch(k)' \in Nat, Credits(k)' <= Credits(k)
       PROVE  Credits(k)' <= 1
  <2>1. Total(Count(channel', Sample(k)), Count(line, Credit(k)), Count(inbox', Credit(k)),
              Count(line, Watch(k)), Count(inbox', Watch(k)), AtClient(k), AtWatch(k)') \in Nat
    BY <1>7, <1>8, <1>16, TotalNat, Zenon
  <2> QED
    BY <1>6, <1>7, <1>9, <1>16, <2>1
<1>10. CASE /\ c = Watch(k) /\ UNCHANGED watches
            /\ Respond(<<Reply(k, "failed")>>)
  <2> DEFINE r == Reply(k, "failed")
  <2>1. r \in Replies /\ r.id = k /\ r # Sample(k)
    BY CommandIs DEF Final, Reply, Sample
  <2> HIDE DEF r
  <2>2. /\ channel' \in Seq(Replies) /\ spoilt \subseteq spoilt'
        /\ Sent(channel, channel', r) \/ channel' = channel
    <3>1. Respond(<<r>>)
      BY <1>10 DEF r
    <3> QED
      BY <1>1, <2>1, <3>1, Responds
  <2>3. \A id \in Watchers : AtWatch(id)' = AtWatch(id) /\ RunsOnce(id)' = RunsOnce(id)
    BY <1>10 DEF AtWatch, RunsOnce
  <2>4. Count(channel', Sample(k)) = Count(channel, Sample(k))
    BY <1>7, <2>1, <2>2 DEF Sent
  <2>5. /\ Count(line, Watch(k)) = 0 /\ Count(inbox', Watch(k)) = 0 /\ RunsOnce(k)' = 0
    BY <1>10, <1>15, <2>3
  <2>6. WatchPlaces(k)' = 0
    BY <1>9, <2>5 DEF Three
  <2>7. /\ Count(channel', Sample(k)) <= Count(channel, Sample(k)) /\ Count(line, Credit(k)) <= Count(line, Credit(k))
        /\ Count(line, Watch(k)) <= Count(line, Watch(k)) /\ AtClient(k) <= AtClient(k)
        /\ AtWatch(k)' <= AtWatch(k) /\ Count(channel', Sample(k)) \in Nat /\ AtWatch(k)' \in Nat
    BY <1>7, <2>3, <2>4
  <2>8. Credits(k)' <= Credits(k)
    <3>1. Total(Count(channel', Sample(k)), Count(line, Credit(k)), Count(inbox', Credit(k)),
                Count(line, Watch(k)), Count(inbox', Watch(k)), AtClient(k), AtWatch(k)') <=
          Total(Count(channel, Sample(k)), Count(line, Credit(k)), Count(inbox, Credit(k)),
                Count(line, Watch(k)), Count(inbox, Watch(k)), AtClient(k), AtWatch(k))
      BY <1>7, <1>8, <2>7, TotalFalls, Zenon
    <3> QED
      BY <1>9, <3>1, Zenon
  <2>9. Credits(k)' <= 1
    BY <1>16, <2>7, <2>8
  <2>10. WatchKept(k)'
    BY <1>4, <2>2, <2>6, <2>9, ObeyedOne
  <2>11. watches' \in [DOMAIN watches' -> BOOLEAN] /\ DOMAIN watches' \subseteq Watchers
         /\ IsFiniteSet(DOMAIN watches')
    BY <1>1, <1>10 DEF DiagnosticsTyped
  <2> QED
    BY <1>5, <2>1, <2>2, <2>3, <2>10, <2>11
<1>11. CASE /\ c = Watch(k) /\ Respond(<<Sample(k)>>)
            /\ watches' = IF channel' # channel THEN Credited(k, FALSE) ELSE watches
  <2> DEFINE r == Sample(k)
  <2>1. r \in Replies /\ r.id = k
    BY CommandIs DEF Final, Reply, Sample
  <2> HIDE DEF r
  <2>2. /\ channel' \in Seq(Replies) /\ spoilt \subseteq spoilt'
        /\ \/ Sent(channel, channel', r) /\ channel' # channel
           \/ channel' = channel /\ k \in spoilt'
    <3>1. Respond(<<r>>)
      BY <1>11 DEF r
    <3> QED
      BY <1>1, <2>1, <3>1, Responds
  <2>3. CASE channel' = channel /\ k \in spoilt'
    <3>1. \A id \in Watchers : AtWatch(id)' = AtWatch(id) /\ RunsOnce(id)' = RunsOnce(id)
      BY <1>11, <2>3 DEF AtWatch, RunsOnce
    <3>2. WatchKept(k)'
      <4>1. Count(channel', Sample(k)) = Count(channel, Sample(k)) /\ AtWatch(k)' = AtWatch(k)
            /\ RunsOnce(k)' = RunsOnce(k) /\ (HasEnded(k)' <=> HasEnded(k))
        BY <2>3, <3>1 DEF HasEnded
      <4>2. DiagnosticsTyped'
        BY <1>1, <1>2, <1>11, <2>3 DEF DiagnosticsTyped
      <4> QED
        BY <2>2, <2>3, <4>1, <4>2, Ignored, Zenon
    <3>3. watches' \in [DOMAIN watches' -> BOOLEAN] /\ DOMAIN watches' \subseteq Watchers
          /\ IsFiniteSet(DOMAIN watches')
      BY <1>1, <1>11, <2>3 DEF DiagnosticsTyped
    <3> QED
      BY <1>5, <2>1, <2>2, <3>1, <3>2, <3>3
  <2>4. CASE Sent(channel, channel', r) /\ channel' # channel
    <3>1. watches' = [i \in DOMAIN watches \cup {k} |-> IF i = k THEN FALSE ELSE watches[i]]
      BY <1>11, <2>4 DEF Credited, RunningWatches
    <3>2. \A id \in Watchers \ {k} : AtWatch(id)' = AtWatch(id) /\ RunsOnce(id)' = RunsOnce(id)
      BY <3>1 DEF AtWatch, RunsOnce
    <3>3. AtWatch(k)' = 0 /\ RunsOnce(k)' = 1
      BY <3>1 DEF AtWatch, RunsOnce
    <3>4. watches' \in [DOMAIN watches' -> BOOLEAN] /\ DOMAIN watches' \subseteq Watchers
          /\ IsFiniteSet(DOMAIN watches')
      <4>1. IsFiniteSet(DOMAIN watches \cup {k})
        BY <1>1, FS_AddElement DEF DiagnosticsTyped
      <4> QED
        BY <1>1, <3>1, <4>1 DEF DiagnosticsTyped
    <3>5. Count(channel', Sample(k)) = Count(channel, Sample(k)) + 1
      BY <2>4 DEF Sent, r
    <3>6. /\ Count(line, Watch(k)) = 0 /\ Count(inbox', Watch(k)) = 0 /\ RunsOnce(k) = 0
          /\ WatchPlaces(k) = 1
      BY <1>11, <1>15
    <3>7. WatchPlaces(k)' = WatchPlaces(k)
      BY <1>9, <3>3, <3>6 DEF Three
    <3>8. Credits(k)' <= Credits(k)
      <4>1. /\ Count(channel', Sample(k)) \in Nat /\ AtWatch(k)' \in Nat /\ AtWatch(k)' <= AtWatch(k)
            /\ Count(inbox, Watch(k)) = Count(inbox', Watch(k)) + 1
            /\ Count(inbox', Credit(k)) = Count(inbox, Credit(k))
        BY <1>7, <1>8, <1>11, <3>3, <3>5
      <4>2. Total(Count(channel', Sample(k)), Count(line, Credit(k)), Count(inbox', Credit(k)),
                  Count(line, Watch(k)), Count(inbox', Watch(k)), AtClient(k), AtWatch(k)') <=
            Total(Count(channel, Sample(k)), Count(line, Credit(k)), Count(inbox, Credit(k)),
                  Count(line, Watch(k)), Count(inbox, Watch(k)), AtClient(k), AtWatch(k))
        BY <1>7, <1>8, <3>5, <4>1, TotalMoves, Zenon
      <4> QED
        BY <1>9, <4>2, Zenon
    <3>9. HasEnded(k)' <=> HasEnded(k)
      BY <1>1, <2>1, <2>4, ReplyGiven, CommandIs DEF Sample, Reply, r
    <3>10. WatchKept(k)'
      <4>1. Credits(k)' <= 1
        BY <1>7, <1>16, <3>3, <3>5, <3>8
      <4>2. WatchPlaces(k)' <= 1 /\ Head(inbox) # Cancel(k)
        BY <1>11, <3>6, <3>7, CommandIs
      <4> QED
        BY <1>4, <2>2, <3>7, <3>9, <4>1, <4>2, ObeyedOne, Zenon
    <3> QED
      BY <1>5, <2>1, <2>2, <3>2, <3>4, <3>10
  <2> QED
    BY <2>2, <2>3, <2>4
<1>12. CASE /\ c = Credit(k) /\ UNCHANGED channel /\ NoMishap
            /\ watches' = IF k \in RunningWatches THEN Credited(k, TRUE) ELSE watches
  <2>1. /\ \A id \in Watchers \ {k} : AtWatch(id)' = AtWatch(id) /\ RunsOnce(id)' = RunsOnce(id)
        /\ RunsOnce(k)' = RunsOnce(k) /\ AtWatch(k)' \in {0, 1}
        /\ watches' \in [DOMAIN watches' -> BOOLEAN] /\ DOMAIN watches' = DOMAIN watches
    <3>1. CASE k \in DOMAIN watches
      <4>1. watches' = [i \in DOMAIN watches \cup {k} |-> IF i = k THEN TRUE ELSE watches[i]]
        BY <1>12, <3>1 DEF Credited, RunningWatches
      <4>2. DOMAIN watches' = DOMAIN watches
        BY <3>1, <4>1
      <4> QED
        BY <1>1, <4>1, <4>2 DEF AtWatch, RunsOnce, DiagnosticsTyped
    <3>2. CASE k \notin DOMAIN watches
      <4>1. watches' = watches
        BY <1>12, <3>2 DEF RunningWatches
      <4> QED
        BY <1>1, <4>1 DEF AtWatch, RunsOnce, DiagnosticsTyped
    <3> QED
      BY <3>1, <3>2
  <2>2. DOMAIN watches' \subseteq Watchers /\ IsFiniteSet(DOMAIN watches') /\ channel' \in Seq(Replies)
        /\ spoilt \subseteq spoilt'
    BY <1>1, <1>12, <2>1 DEF DiagnosticsTyped, NoMishap
  <2>3. WatchPlaces(k)' = WatchPlaces(k)
    BY <1>8, <1>9, <1>12, <2>1
  <2>4. Credits(k)' <= Credits(k)
    <3>1. /\ Count(channel', Sample(k)) = Count(channel, Sample(k)) /\ AtWatch(k)' <= 1
          /\ AtWatch(k)' \in Nat
          /\ Count(inbox, Credit(k)) = Count(inbox', Credit(k)) + 1
          /\ Count(inbox', Watch(k)) = Count(inbox, Watch(k))
      BY <1>8, <1>12, <2>1
    <3>2. Total(Count(channel', Sample(k)), Count(line, Credit(k)), Count(inbox', Credit(k)),
                Count(line, Watch(k)), Count(inbox', Watch(k)), AtClient(k), AtWatch(k)') <=
          Total(Count(channel, Sample(k)), Count(line, Credit(k)), Count(inbox, Credit(k)),
                Count(line, Watch(k)), Count(inbox, Watch(k)), AtClient(k), AtWatch(k))
      BY <1>7, <1>8, <3>1, TotalMoves, Zenon
    <3> QED
      BY <1>9, <3>2, Zenon
  <2>5. Credits(k)' <= 1
    BY <1>7, <1>12, <1>16, <2>1, <2>4
  <2>6. WatchKept(k)'
    <3>1. Head(inbox) # Cancel(k) /\ (HasEnded(k)' <=> HasEnded(k)) /\ WatchPlaces(k)' <= 1
      BY <1>6, <1>12, <2>3, CommandIs DEF HasEnded
    <3> QED
      BY <1>4, <2>2, <2>3, <2>5, <3>1, ObeyedOne, Zenon
  <2>7. Sample(k) \in Replies /\ Sample(k).id = k
    BY CommandIs DEF Sample, Reply
  <2> QED
    BY <1>5, <1>12, <2>1, <2>2, <2>6, <2>7
<1>13. CASE /\ c = Cancel(k) /\ watches' = Without(watches, {k})
            /\ \/ Respond(<<Reply(k, "cancelled")>>)
               \/ Respond(<< >>)
  <2> DEFINE r == Reply(k, "cancelled")
  <2>1. r \in Replies /\ r.id = k /\ r # Sample(k)
    BY CommandIs DEF Final, Reply, Sample
  <2> HIDE DEF r
  <2>2. /\ channel' \in Seq(Replies) /\ spoilt \subseteq spoilt'
        /\ Sent(channel, channel', r) \/ channel' = channel
    <3>1. Respond(<<r>>) \/ Respond(<< >>)
      BY <1>13 DEF r
    <3>2. CASE Respond(<<r>>)
      BY <1>1, <2>1, <3>2, Responds
    <3>3. CASE Respond(<< >>)
      BY <1>1, <3>3, RespondsNothing DEF DiagnosticsTyped
    <3> QED
      BY <3>1, <3>2, <3>3
  <2>3. watches' = [i \in DOMAIN watches \ {k} |-> watches[i]]
    BY <1>13 DEF Without
  <2>4. /\ \A id \in Watchers \ {k} : AtWatch(id)' = AtWatch(id) /\ RunsOnce(id)' = RunsOnce(id)
        /\ RunsOnce(k)' = 0 /\ AtWatch(k)' = 0
    BY <2>3 DEF AtWatch, RunsOnce
  <2>5. watches' \in [DOMAIN watches' -> BOOLEAN] /\ DOMAIN watches' \subseteq Watchers
        /\ IsFiniteSet(DOMAIN watches')
    <3>1. IsFiniteSet(DOMAIN watches \ {k})
      BY <1>1, FS_Subset DEF DiagnosticsTyped
    <3> QED
      BY <1>1, <2>3, <3>1 DEF DiagnosticsTyped
  <2>6. Count(channel', Sample(k)) = Count(channel, Sample(k))
    BY <1>7, <2>1, <2>2 DEF Sent
  <2>7. Count(line, Watch(k)) = 0 /\ Count(inbox', Watch(k)) = 0
    BY <1>6, <1>8, <1>13
  <2>8. WatchPlaces(k)' = 0
    BY <1>9, <2>4, <2>7 DEF Three
  <2>9. /\ Count(channel', Sample(k)) <= Count(channel, Sample(k)) /\ Count(line, Credit(k)) <= Count(line, Credit(k))
        /\ Count(line, Watch(k)) <= Count(line, Watch(k)) /\ AtClient(k) <= AtClient(k)
        /\ AtWatch(k)' <= AtWatch(k) /\ Count(channel', Sample(k)) \in Nat /\ AtWatch(k)' \in Nat
    BY <1>7, <2>4, <2>6
  <2>10. Credits(k)' <= Credits(k)
    <3>1. Total(Count(channel', Sample(k)), Count(line, Credit(k)), Count(inbox', Credit(k)),
                Count(line, Watch(k)), Count(inbox', Watch(k)), AtClient(k), AtWatch(k)') <=
          Total(Count(channel, Sample(k)), Count(line, Credit(k)), Count(inbox, Credit(k)),
                Count(line, Watch(k)), Count(inbox, Watch(k)), AtClient(k), AtWatch(k))
      BY <1>7, <1>8, <2>9, TotalFalls, Zenon
    <3> QED
      BY <1>9, <3>1, Zenon
  <2>11. Credits(k)' <= 1
    BY <1>16, <2>9, <2>10
  <2>12. WatchKept(k)'
    BY <1>4, <2>2, <2>8, <2>11, ObeyedOne
  <2> QED
    BY <1>5, <2>1, <2>2, <2>4, <2>5, <2>12
<1> QED
  BY <1>1, <1>2, <1>10, <1>11, <1>12, <1>13, CommandedIs, Zenon

\* The inbox loses its head: obeyed, failed, or ignored.
LEMMA KeptObeys ==
  ASSUME DiagnosticsInv, Obeys
  PROVE  DiagnosticsInv'
<1>1. inbox # << >> /\ inbox' = Tail(inbox) /\ UNCHANGED <<asked, entries, line, open>>
  BY DEF Obeys, daemonVars
<1>2. DiagnosticsTyped /\ \A id \in Watchers : WatchKept(id)
  BY DEF DiagnosticsInv
<1>3. PICK c \in Commands : c = Head(inbox)
  BY <1>1, InboxTaken
<1>4. PICK k \in Watchers : k = c.id
  BY ItemIs
<1>5. inbox' \in Seq(Commands)
  BY <1>1, InboxTaken
<1>6. CASE open /\ Commanded(Head(inbox))
  BY <1>1, <1>3, <1>4, <1>6, ObeysFor
<1>7. CASE /\ open /\ Mishap({Head(inbox).id}) /\ UNCHANGED watches
           /\ channel' = Append(channel, Reply(Head(inbox).id, "failed"))
  <2>1. spoilt' = spoilt \cup {k}
    BY <1>3, <1>4, <1>7 DEF Mishap
  <2>2. channel' = Append(channel, Reply(k, "failed"))
    BY <1>3, <1>4, <1>7
  <2>3. /\ channel' \in Seq(Replies)
        /\ \A id : /\ Count(channel', Sample(id)) = Count(channel, Sample(id))
                   /\ id # k => (HasEnded(id)' <=> HasEnded(id))
    BY <1>2, <2>2, FailsOne, Zenon
  <2>4. DiagnosticsTyped'
    BY <1>1, <1>2, <1>5, <1>7, <2>3 DEF DiagnosticsTyped
  <2>5. k \in asked
    <3>1. Count(inbox, c) # 0 /\ c \in {Watch(k), Credit(k), Cancel(k)}
      BY <1>1, <1>3, <1>4, InboxTaken, ItemIs
    <3> QED
      BY <1>2, <3>1, QueuedAsked
  <2>6. ASSUME NEW id \in Watchers PROVE WatchKept(id)'
    <3>1. /\ UNCHANGED <<AtWatch(id), RunsOnce(id)>>
          /\ Count(channel', Sample(id)) = Count(channel, Sample(id)) /\ spoilt \subseteq spoilt'
      BY <1>7, <2>1, <2>3 DEF AtWatch, RunsOnce
    <3>2. (HasEnded(id)' <=> HasEnded(id)) \/ (id \in spoilt' /\ id \in asked)
      BY <2>1, <2>3, <2>5, Zenon
    <3>3. Head(inbox) # Cancel(id) \/ id \in spoilt'
      <4>1. c = Cancel(id) => k = id
        BY <1>4 DEF Cancel, Command
      <4> QED
        BY <1>3, <2>1, <4>1
    <3> QED
      BY <1>1, <2>4, <3>1, <3>2, <3>3, Ignored, Zenon
  <2> QED
    BY <2>4, <2>6 DEF DiagnosticsInv
<1>8. CASE ~open /\ UNCHANGED <<watches, channel>> /\ NoMishap
  <2>1. DiagnosticsTyped'
    BY <1>1, <1>2, <1>5, <1>8 DEF DiagnosticsTyped
  <2>2. ASSUME NEW id \in Watchers PROVE WatchKept(id)'
    <3>1. /\ UNCHANGED <<AtWatch(id), RunsOnce(id)>>
          /\ Count(channel', Sample(id)) = Count(channel, Sample(id))
          /\ spoilt \subseteq spoilt'
      BY <1>8 DEF AtWatch, RunsOnce, NoMishap
    <3>2. HasEnded(id)' <=> HasEnded(id)
      BY <1>8 DEF HasEnded
    <3> QED
      BY <1>1, <1>8, <2>1, <3>1, <3>2, Ignored, Zenon
  <2> QED
    BY <2>1, <2>2 DEF DiagnosticsInv
<1> QED
  BY <1>6, <1>7, <1>8 DEF Obeys

\* A step that leaves the commands alone, as far as id goes.
LEMMA Settles ==
  ASSUME DiagnosticsTyped, NEW id, WatchKept(id),
         UNCHANGED <<line, inbox, asked, open>>, spoilt \subseteq spoilt',
         Credits(id)' \in Nat, Credits(id)' <= Credits(id),
         WatchPlaces(id)' \in Nat, WatchPlaces(id)' <= WatchPlaces(id),
         HasEnded(id)' => HasEnded(id) \/ (WatchPlaces(id)' = 0 /\ id \in asked),
         id \in DOMAIN entries' => id \in DOMAIN entries,
         id \in DOMAIN entries /\ id \notin DOMAIN entries' => HasEnded(id)
  PROVE  WatchKept(id)'
<1>1. Credits(id) \in Nat /\ WatchPlaces(id) \in Nat
  BY PlacesNat
<1>2. /\ Count(line', Watch(id)) = Count(line, Watch(id)) /\ Count(line', Cancel(id)) = Count(line, Cancel(id))
      /\ Count(inbox', Cancel(id)) = Count(inbox, Cancel(id))
      /\ InOrder(line', id) <=> InOrder(line, id)
      /\ InOrder(inbox', id) <=> InOrder(inbox, id)
  OBVIOUS
<1>3. Credits(id)' <= 1 /\ WatchPlaces(id)' <= 1
  BY <1>1 DEF WatchKept
<1>4. HasEnded(id)' /\ id \notin spoilt' => WatchPlaces(id)' = 0
  BY <1>1 DEF WatchKept
<1>5. open' /\ WatchPlaces(id)' # 0 /\ id \notin DOMAIN entries' /\ id \notin spoilt' =>
         Count(line', Cancel(id)) + Count(inbox', Cancel(id)) # 0
  BY <1>1, <1>2 DEF WatchKept
<1>6. id \notin asked' =>
         /\ Credits(id)' = 0 /\ WatchPlaces(id)' = 0 /\ ~HasEnded(id)' /\ id \notin DOMAIN entries'
         /\ Count(line', Cancel(id)) = 0 /\ Count(inbox', Cancel(id)) = 0
  BY <1>1, <1>2 DEF WatchKept
<1> QED
  BY <1>2, <1>3, <1>4, <1>5, <1>6 DEF WatchKept

\* The places of a watch after such a step.
LEMMA PlacesAfter ==
  ASSUME DiagnosticsTyped, NEW id, UNCHANGED <<line, inbox>>
  PROVE  /\ Credits(id) = Total(Count(channel, Sample(id)), Count(line, Credit(id)), Count(inbox, Credit(id)),
                  Count(line, Watch(id)), Count(inbox, Watch(id)), AtClient(id), AtWatch(id))
         /\ Credits(id)' = Total(Count(channel', Sample(id)), Count(line, Credit(id)), Count(inbox, Credit(id)),
                  Count(line, Watch(id)), Count(inbox, Watch(id)), AtClient(id)', AtWatch(id)')
         /\ WatchPlaces(id) = Three(Count(line, Watch(id)), Count(inbox, Watch(id)), RunsOnce(id))
         /\ WatchPlaces(id)' = Three(Count(line, Watch(id)), Count(inbox, Watch(id)), RunsOnce(id)')
<1>1. Count(line', Watch(id)) = Count(line, Watch(id)) /\ Count(line', Credit(id)) = Count(line, Credit(id))
      /\ Count(inbox', Watch(id)) = Count(inbox, Watch(id)) /\ Count(inbox', Credit(id)) = Count(inbox, Credit(id))
  OBVIOUS
<1> QED
  BY <1>1, Zenon DEF WatchPlaces, Credits

\* A request that such a step is not about.
LEMMA SettlesOther ==
  ASSUME DiagnosticsTyped, NEW id, WatchKept(id),
         UNCHANGED <<line, inbox, asked, open>>, spoilt \subseteq spoilt',
         Count(channel', Sample(id)) = Count(channel, Sample(id)),
         AtClient(id)' = AtClient(id), AtWatch(id)' = AtWatch(id), RunsOnce(id)' = RunsOnce(id),
         HasEnded(id)' <=> HasEnded(id),
         id \in DOMAIN entries' <=> id \in DOMAIN entries
  PROVE  WatchKept(id)'
<1>1. Credits(id)' = Credits(id) /\ WatchPlaces(id)' = WatchPlaces(id)
  BY PlacesAfter
<1>2. Credits(id) \in Nat /\ WatchPlaces(id) \in Nat
  BY PlacesNat
<1>3. /\ Credits(id)' \in Nat /\ Credits(id)' <= Credits(id)
      /\ WatchPlaces(id)' \in Nat /\ WatchPlaces(id)' <= WatchPlaces(id)
  BY <1>1, <1>2
<1> QED
  BY <1>3, Settles, Zenon

\* What a reply leaves of the counts.
LEMMA RepliesOf ==
  ASSUME DiagnosticsTyped, NEW k \in Watchers, NEW e \in Final \cup {"running"},
         Respond(<<Reply(k, e)>>)
  PROVE  /\ channel' \in Seq(Replies) /\ spoilt \subseteq spoilt'
         /\ \A id : /\ Count(channel', Sample(id)) \in Nat
                    /\ id # k => /\ Count(channel', Sample(id)) = Count(channel, Sample(id))
                                 /\ HasEnded(id)' <=> HasEnded(id)
         /\ Count(channel', Sample(k)) <= Count(channel, Sample(k)) + 1
         /\ e # "running" => Count(channel', Sample(k)) = Count(channel, Sample(k))
         /\ e = "running" => (HasEnded(k)' <=> HasEnded(k))
<1> DEFINE r == Reply(k, e)
<1>1. r \in Replies /\ r.id = k /\ r.state = e
  BY CommandIs DEF Reply
<1>2. \A id : r = Sample(id) <=> id = k /\ e = "running"
  BY DEF Sample, Reply
<1> HIDE DEF r
<1>3. /\ channel' \in Seq(Replies) /\ spoilt \subseteq spoilt'
      /\ Sent(channel, channel', r) \/ channel' = channel
  <2>1. Respond(<<r>>)
    BY DEF r
  <2> QED
    BY <1>1, <2>1, Responds
<1>4. \A id : Count(channel, Sample(id)) \in Nat
  BY NumbersOf
<1>5. CASE channel' = channel
  <2>1. \A id : HasEnded(id)' <=> HasEnded(id)
    BY <1>5 DEF HasEnded
  <2> QED
    BY <1>3, <1>4, <1>5, <2>1
<1>6. CASE Sent(channel, channel', r)
  <2>1. \A id : /\ Count(channel', Sample(id)) = Count(channel, Sample(id)) + (IF r = Sample(id) THEN 1 ELSE 0)
                /\ HasEnded(id)' <=> HasEnded(id) \/ (r.id = id /\ r.state # "running")
    BY <1>1, <1>6, ReplyGiven, Zenon
  <2>2. \A id : Count(channel', Sample(id)) = Count(channel, Sample(id)) + (IF id = k /\ e = "running" THEN 1 ELSE 0)
    BY <1>2, <2>1, Zenon
  <2>3. \A id : /\ Count(channel', Sample(id)) \in Nat
                /\ id # k => Count(channel', Sample(id)) = Count(channel, Sample(id))
    BY <1>4, <2>2
  <2>4. /\ Count(channel', Sample(k)) <= Count(channel, Sample(k)) + 1
        /\ e # "running" => Count(channel', Sample(k)) = Count(channel, Sample(k))
    BY <1>4, <2>2
  <2>5. \A id : id # k => (HasEnded(id)' <=> HasEnded(id))
    BY <1>1, <2>1, Zenon
  <2>6. e = "running" => (HasEnded(k)' <=> HasEnded(k))
    BY <1>1, <2>1, Zenon
  <2> QED
    BY <1>3, <2>3, <2>4, <2>5, <2>6, Zenon
<1> QED
  BY <1>3, <1>5, <1>6

\* A watch spends its credit on a sample.
LEMMA KeptSamples ==
  ASSUME DiagnosticsInv, Samples
  PROVE  DiagnosticsInv'
<1>1. PICK k \in RunningWatches :
        watches[k] /\ watches' = Spent(k) /\ Respond(<<Reply(k, "running")>>)
  BY DEF Samples
<1>2. UNCHANGED <<asked, entries, line, inbox, open>> /\ open
  BY DEF Samples, daemonVars
<1>3. DiagnosticsTyped /\ \A id \in Watchers : WatchKept(id)
  BY DEF DiagnosticsInv
<1>4. k \in Watchers /\ k \in DOMAIN watches
  BY <1>1, <1>3 DEF RunningWatches, DiagnosticsTyped
<1>5. watches' = [i \in DOMAIN watches |-> IF i = k THEN FALSE ELSE watches[i]]
  BY <1>1, <1>3 DEF Spent, DiagnosticsTyped
<1>6. /\ channel' \in Seq(Replies) /\ spoilt \subseteq spoilt'
      /\ \A id : /\ Count(channel', Sample(id)) \in Nat
                 /\ id # k => /\ Count(channel', Sample(id)) = Count(channel, Sample(id))
                              /\ HasEnded(id)' <=> HasEnded(id)
      /\ Count(channel', Sample(k)) <= Count(channel, Sample(k)) + 1
      /\ HasEnded(k)' <=> HasEnded(k)
  <2>1. "running" \in Final \cup {"running"}
    OBVIOUS
  <2> QED
    BY <1>1, <1>3, <1>4, <2>1, RepliesOf
<1>7. DiagnosticsTyped'
  <2>1. DOMAIN watches' = DOMAIN watches
    BY <1>5
  <2>2. watches' \in [DOMAIN watches' -> BOOLEAN]
    BY <1>3, <1>5, <2>1 DEF DiagnosticsTyped
  <2> QED
    BY <1>2, <1>3, <1>6, <2>1, <2>2 DEF DiagnosticsTyped
<1>8. ASSUME NEW id \in Watchers, id # k PROVE WatchKept(id)'
  <2>1. AtClient(id)' = AtClient(id) /\ AtWatch(id)' = AtWatch(id) /\ RunsOnce(id)' = RunsOnce(id)
    BY <1>2, <1>5, <1>8 DEF AtClient, AtWatch, RunsOnce
  <2>2. Count(channel', Sample(id)) = Count(channel, Sample(id)) /\ (HasEnded(id)' <=> HasEnded(id))
    BY <1>6, <1>8, Zenon
  <2> QED
    BY <1>2, <1>3, <1>6, <1>8, <2>1, <2>2, SettlesOther
<1>9. WatchKept(k)'
  <2>1. AtClient(k)' = AtClient(k) /\ AtWatch(k)' = 0 /\ AtWatch(k) = 1 /\ RunsOnce(k)' = RunsOnce(k)
    BY <1>1, <1>2, <1>4, <1>5 DEF AtClient, AtWatch, RunsOnce
  <2>2. /\ Count(channel, Sample(k)) \in Nat /\ Count(line, Credit(k)) \in Nat
        /\ Count(inbox, Credit(k)) \in Nat /\ Count(line, Watch(k)) \in Nat
        /\ Count(inbox, Watch(k)) \in Nat
        /\ AtClient(k) \in Nat /\ AtWatch(k) \in Nat /\ RunsOnce(k) \in Nat
        /\ Credits(k) \in Nat /\ WatchPlaces(k) \in Nat
    BY <1>3, PlacesNat
  <2>3. \/ Count(channel', Sample(k)) = Count(channel, Sample(k)) + 1
        \/ Count(channel', Sample(k)) <= Count(channel, Sample(k))
    BY <1>6, <2>2
  <2>4. Count(channel', Sample(k)) \in Nat /\ 0 \in Nat /\ 1 = 0 + 1 /\ 0 <= 1
    BY <1>6
  <2>5. Credits(k)' <= Credits(k) /\ Credits(k)' \in Nat
    <3>1. Credits(k)' = Total(Count(channel', Sample(k)), Count(line, Credit(k)), Count(inbox, Credit(k)),
                  Count(line, Watch(k)), Count(inbox, Watch(k)), AtClient(k), 0)
      BY <1>2, <1>3, <2>1, PlacesAfter
    <3>2. Credits(k) = Total(Count(channel, Sample(k)), Count(line, Credit(k)), Count(inbox, Credit(k)),
                  Count(line, Watch(k)), Count(inbox, Watch(k)), AtClient(k), 1)
      BY <1>2, <1>3, <2>1, PlacesAfter
    <3>3. Credits(k)' \in Nat
      <4>1. Total(Count(channel', Sample(k)), Count(line, Credit(k)), Count(inbox, Credit(k)),
                  Count(line, Watch(k)), Count(inbox, Watch(k)), AtClient(k), 0) \in Nat
        BY <2>2, <2>4, TotalNat, Zenon
      <4> QED
        BY <3>1, <4>1
    <3>4. Count(line, Credit(k)) <= Count(line, Credit(k)) /\ Count(inbox, Credit(k)) <= Count(inbox, Credit(k))
          /\ Count(line, Watch(k)) <= Count(line, Watch(k)) /\ Count(inbox, Watch(k)) <= Count(inbox, Watch(k))
          /\ AtClient(k) <= AtClient(k)
      BY <2>2
    <3>5. 1 \in Nat
      OBVIOUS
    <3>6. CASE Count(channel', Sample(k)) = Count(channel, Sample(k)) + 1
      <4>1. Total(Count(channel', Sample(k)), Count(line, Credit(k)), Count(inbox, Credit(k)),
                  Count(line, Watch(k)), Count(inbox, Watch(k)), AtClient(k), 0) <=
            Total(Count(channel, Sample(k)), Count(line, Credit(k)), Count(inbox, Credit(k)),
                  Count(line, Watch(k)), Count(inbox, Watch(k)), AtClient(k), 1)
        BY <2>2, <2>4, <3>5, <3>6, TotalMoves, Zenon
      <4> QED
        BY <3>1, <3>2, <3>3, <4>1, Zenon
    <3>7. CASE Count(channel', Sample(k)) <= Count(channel, Sample(k))
      <4>1. Total(Count(channel', Sample(k)), Count(line, Credit(k)), Count(inbox, Credit(k)),
                  Count(line, Watch(k)), Count(inbox, Watch(k)), AtClient(k), 0) <=
            Total(Count(channel, Sample(k)), Count(line, Credit(k)), Count(inbox, Credit(k)),
                  Count(line, Watch(k)), Count(inbox, Watch(k)), AtClient(k), 1)
        BY <2>2, <2>4, <3>4, <3>5, <3>7, TotalFalls, Zenon
      <4> QED
        BY <3>1, <3>2, <3>3, <4>1, Zenon
    <3> QED
      BY <2>3, <3>6, <3>7
  <2>6. WatchPlaces(k)' \in Nat /\ WatchPlaces(k)' <= WatchPlaces(k)
    <3>1. WatchPlaces(k)' = WatchPlaces(k)
      BY <1>2, <1>3, <2>1, PlacesAfter
    <3> QED
      BY <2>2, <3>1
  <2> QED
    BY <1>2, <1>3, <1>4, <1>6, <2>5, <2>6, Settles
<1> QED
  <2>1. ASSUME NEW id \in Watchers PROVE WatchKept(id)'
    BY <1>8, <1>9
  <2> QED
    BY <1>7, <2>1 DEF DiagnosticsInv

\* A watch ends.
LEMMA KeptFinishes ==
  ASSUME DiagnosticsInv, Finishes
  PROVE  DiagnosticsInv'
<1>1. PICK k \in RunningWatches, e \in {"completed", "cancelled"} :
        /\ watches' = Without(watches, {k})
        /\ IF open THEN Respond(<<Reply(k, e)>>)
                   ELSE UNCHANGED channel /\ NoMishap
  BY DEF Finishes
<1>2. UNCHANGED <<asked, entries, line, inbox, open>>
  BY DEF Finishes, daemonVars
<1>3. DiagnosticsTyped /\ \A id \in Watchers : WatchKept(id)
  BY DEF DiagnosticsInv
<1>4. k \in Watchers /\ k \in DOMAIN watches
  BY <1>1, <1>3 DEF RunningWatches, DiagnosticsTyped
<1>5. watches' = [i \in DOMAIN watches \ {k} |-> watches[i]]
  BY <1>1 DEF Without
<1>6. /\ channel' \in Seq(Replies) /\ spoilt \subseteq spoilt'
      /\ \A id : /\ Count(channel', Sample(id)) = Count(channel, Sample(id))
                 /\ id # k => (HasEnded(id)' <=> HasEnded(id))
      /\ ~open => channel' = channel
  <2>1. CASE open
    <3>1. e \in Final \cup {"running"} /\ e # "running"
      BY DEF Final
    <3>2. Respond(<<Reply(k, e)>>)
      BY <1>1, <2>1
    <3> QED
      BY <1>3, <1>4, <2>1, <3>1, <3>2, RepliesOf
  <2>2. CASE ~open
    <3>1. channel' = channel /\ spoilt' = spoilt
      BY <1>1, <2>2 DEF NoMishap
    <3>2. \A id : HasEnded(id)' <=> HasEnded(id)
      BY <3>1 DEF HasEnded
    <3> QED
      BY <1>3, <3>1, <3>2 DEF DiagnosticsTyped
  <2> QED
    BY <2>1, <2>2
<1>7. DiagnosticsTyped'
  <2>1. IsFiniteSet(DOMAIN watches \ {k})
    BY <1>3, FS_Subset DEF DiagnosticsTyped
  <2> QED
    BY <1>2, <1>3, <1>5, <1>6, <2>1 DEF DiagnosticsTyped
<1>8. ASSUME NEW id \in Watchers, id # k PROVE WatchKept(id)'
  <2>1. AtClient(id)' = AtClient(id) /\ AtWatch(id)' = AtWatch(id) /\ RunsOnce(id)' = RunsOnce(id)
    BY <1>2, <1>5, <1>8 DEF AtClient, AtWatch, RunsOnce
  <2>2. Count(channel', Sample(id)) = Count(channel, Sample(id)) /\ (HasEnded(id)' <=> HasEnded(id))
    BY <1>6, <1>8, Zenon
  <2> QED
    BY <1>2, <1>3, <1>6, <1>8, <2>1, <2>2, SettlesOther
<1>9. WatchKept(k)'
  <2>1. AtClient(k)' = AtClient(k) /\ AtWatch(k)' = 0 /\ RunsOnce(k) = 1 /\ RunsOnce(k)' = 0
    BY <1>2, <1>4, <1>5 DEF AtClient, AtWatch, RunsOnce
  <2>2. /\ Count(channel, Sample(k)) \in Nat /\ Count(line, Credit(k)) \in Nat
        /\ Count(inbox, Credit(k)) \in Nat /\ Count(line, Watch(k)) \in Nat
        /\ Count(inbox, Watch(k)) \in Nat
        /\ AtClient(k) \in Nat /\ AtWatch(k) \in Nat /\ RunsOnce(k) \in Nat
        /\ Credits(k) \in Nat /\ WatchPlaces(k) \in Nat
    BY <1>3, PlacesNat
  <2>3. 0 \in Nat /\ 0 <= AtWatch(k)
        /\ Count(channel, Sample(k)) <= Count(channel, Sample(k))
        /\ Count(line, Credit(k)) <= Count(line, Credit(k)) /\ Count(inbox, Credit(k)) <= Count(inbox, Credit(k))
        /\ Count(line, Watch(k)) <= Count(line, Watch(k)) /\ Count(inbox, Watch(k)) <= Count(inbox, Watch(k))
        /\ AtClient(k) <= AtClient(k)
    BY <2>2
  <2>4. Credits(k)' <= Credits(k) /\ Credits(k)' \in Nat
    <3>1. Credits(k)' = Total(Count(channel, Sample(k)), Count(line, Credit(k)), Count(inbox, Credit(k)),
                  Count(line, Watch(k)), Count(inbox, Watch(k)), AtClient(k), 0)
      BY <1>2, <1>3, <1>6, <2>1, PlacesAfter
    <3>2. Credits(k) = Total(Count(channel, Sample(k)), Count(line, Credit(k)), Count(inbox, Credit(k)),
                  Count(line, Watch(k)), Count(inbox, Watch(k)), AtClient(k), AtWatch(k))
      BY <1>2, <1>3, PlacesAfter
    <3>3. Credits(k)' \in Nat
      <4>1. Total(Count(channel, Sample(k)), Count(line, Credit(k)), Count(inbox, Credit(k)),
                  Count(line, Watch(k)), Count(inbox, Watch(k)), AtClient(k), 0) \in Nat
        BY <2>2, <2>3, TotalNat, Zenon
      <4> QED
        BY <3>1, <4>1
    <3>4. Total(Count(channel, Sample(k)), Count(line, Credit(k)), Count(inbox, Credit(k)),
                  Count(line, Watch(k)), Count(inbox, Watch(k)), AtClient(k), 0) <=
          Total(Count(channel, Sample(k)), Count(line, Credit(k)), Count(inbox, Credit(k)),
                  Count(line, Watch(k)), Count(inbox, Watch(k)), AtClient(k), AtWatch(k))
      BY <2>2, <2>3, TotalFalls, Zenon
    <3> QED
      BY <3>1, <3>2, <3>3, <3>4, Zenon
  <2>5. WatchPlaces(k)' = 0 /\ WatchPlaces(k) = 1
    <3>1. WatchPlaces(k)' = Three(Count(line, Watch(k)), Count(inbox, Watch(k)), 0)
          /\ WatchPlaces(k) = Three(Count(line, Watch(k)), Count(inbox, Watch(k)), 1)
      BY <1>2, <1>3, <2>1, PlacesAfter
    <3>2. WatchPlaces(k) <= 1
      BY <1>3, <1>4 DEF WatchKept
    <3> QED
      BY <2>2, <3>1, <3>2 DEF Three
  <2>6. k \in asked
    BY <1>3, <1>4, <2>5 DEF WatchKept
  <2>7. WatchPlaces(k)' \in Nat /\ WatchPlaces(k)' <= WatchPlaces(k)
    BY <2>5
  <2> QED
    BY <1>2, <1>3, <1>4, <1>6, <2>4, <2>5, <2>6, <2>7, Settles
<1> QED
  <2>1. ASSUME NEW id \in Watchers PROVE WatchKept(id)'
    BY <1>8, <1>9
  <2> QED
    BY <1>7, <2>1 DEF DiagnosticsInv

\* The daemon takes a reply: a sample for the client, or the end.
LEMMA KeptReplied ==
  ASSUME DiagnosticsInv, Replied
  PROVE  DiagnosticsInv'
<1>1. /\ channel # << >> /\ channel' = Tail(channel)
      /\ UNCHANGED <<asked, line, inbox, watches, open, spoilt>>
  BY DEF Replied, companionVars, NoMishap
<1>2. DiagnosticsTyped /\ \A id \in Watchers : WatchKept(id)
  BY DEF DiagnosticsInv
<1>3. channel \in Seq(Replies)
  BY <1>2 DEF DiagnosticsTyped
<1>4. Head(channel) \in Replies /\ channel' \in Seq(Replies) /\ Taken(channel, channel', Head(channel))
  BY <1>1, <1>3, TailTakes, Zenon
<1>5. PICK r \in Replies : r = Head(channel)
  BY <1>4
<1>6. PICK k \in Watchers : k = r.id
  BY DEF Replies
<1>7. \/ /\ r.state = "running" /\ k \in DOMAIN entries /\ ~entries[k].waiting
         /\ entries' = [entries EXCEPT ![k] = [waiting |-> TRUE, started |-> TRUE]]
      \/ /\ r.state # "running" /\ k \in DOMAIN entries
         /\ entries' = [i \in DOMAIN entries \ {k} |-> entries[i]]
      \/ entries' = entries
  BY <1>5, <1>6 DEF Replied, Awaits, Without
<1>8. \A x : Count(channel', x) \in Nat /\ Count(channel, x) \in Nat
  <2>1. (\A x : Count(channel', x) \in Nat) /\ (\A x : Count(channel, x) \in Nat)
    BY <1>3, <1>4, CountsAreNat, Zenon
  <2> QED
    BY <2>1
<1>9. \A id : /\ Count(channel', Sample(id)) = Count(channel, Sample(id)) - (IF r = Sample(id) THEN 1 ELSE 0)
              /\ HasEnded(id)' => HasEnded(id)
              /\ r.id = id /\ r.state # "running" => HasEnded(id)
              /\ r.id # id => (HasEnded(id)' <=> HasEnded(id))
  <2>1. Taken(channel, channel', r) /\ \A x : Count(channel', x) \in Nat
    BY <1>4, <1>5, <1>8
  <2> QED
    BY <1>2, <2>1, ReplyTaken, Zenon
<1>10. DiagnosticsTyped'
  <2>1. entries' \in [DOMAIN entries' -> [waiting : BOOLEAN, started : BOOLEAN]]
        /\ DOMAIN entries' \subseteq DOMAIN entries
    <3>1. CASE entries' = [entries EXCEPT ![k] = [waiting |-> TRUE, started |-> TRUE]]
      BY <1>2, <3>1 DEF DiagnosticsTyped
    <3>2. CASE entries' = [i \in DOMAIN entries \ {k} |-> entries[i]]
      BY <1>2, <3>2 DEF DiagnosticsTyped
    <3>3. CASE entries' = entries
      BY <1>2, <3>3 DEF DiagnosticsTyped
    <3> QED
      BY <1>7, <3>1, <3>2, <3>3
  <2>2. open
    BY <1>1, <1>2 DEF DiagnosticsTyped
  <2> QED
    BY <1>1, <1>2, <1>4, <2>1, <2>2 DEF DiagnosticsTyped
<1>11. ASSUME NEW id \in Watchers, id # k PROVE WatchKept(id)'
  <2>1. AtClient(id)' = AtClient(id) /\ (id \in DOMAIN entries' <=> id \in DOMAIN entries)
    BY <1>2, <1>7, <1>11 DEF AtClient, DiagnosticsTyped
  <2>2. AtWatch(id)' = AtWatch(id) /\ RunsOnce(id)' = RunsOnce(id)
    BY <1>1 DEF AtWatch, RunsOnce
  <2>3. r # Sample(id)
    BY <1>6, <1>11 DEF Sample, Reply
  <2>4. Count(channel', Sample(id)) = Count(channel, Sample(id))
    BY <1>8, <1>9, <2>3
  <2>5. HasEnded(id)' <=> HasEnded(id)
    BY <1>6, <1>9, <1>11, Zenon
  <2> QED
    BY <1>1, <1>2, <1>11, <2>1, <2>2, <2>4, <2>5, SettlesOther
<1>12. WatchKept(k)'
  <2>1. AtWatch(k)' = AtWatch(k) /\ RunsOnce(k)' = RunsOnce(k)
    BY <1>1 DEF AtWatch, RunsOnce
  <2>2. /\ Count(channel, Sample(k)) \in Nat /\ Count(line, Credit(k)) \in Nat
        /\ Count(inbox, Credit(k)) \in Nat /\ Count(line, Watch(k)) \in Nat
        /\ Count(inbox, Watch(k)) \in Nat
        /\ AtClient(k) \in Nat /\ AtWatch(k) \in Nat /\ RunsOnce(k) \in Nat
        /\ Credits(k) \in Nat /\ WatchPlaces(k) \in Nat
    BY <1>2, PlacesNat
  <2>3. \/ /\ AtClient(k)' = 1 /\ Count(channel, Sample(k)) = Count(channel', Sample(k)) + 1
           /\ k \in DOMAIN entries' /\ k \in DOMAIN entries
        \/ /\ AtClient(k)' = 0 /\ Count(channel', Sample(k)) <= Count(channel, Sample(k))
           /\ r.state # "running" /\ k \in DOMAIN entries /\ k \notin DOMAIN entries'
        \/ /\ AtClient(k)' = AtClient(k) /\ Count(channel', Sample(k)) <= Count(channel, Sample(k))
           /\ (k \in DOMAIN entries' <=> k \in DOMAIN entries)
    <3>0. /\ Count(channel', Sample(k)) <= Count(channel, Sample(k))
          /\ r = Sample(k) => Count(channel, Sample(k)) = Count(channel', Sample(k)) + 1
      BY <1>8, <1>9
    <3>1. CASE /\ r.state = "running" /\ k \in DOMAIN entries /\ ~entries[k].waiting
               /\ entries' = [entries EXCEPT ![k] = [waiting |-> TRUE, started |-> TRUE]]
      <4>1. r = Sample(k)
        BY <1>6, <3>1, ItemIs DEF Final
      <4>2. AtClient(k)' = 1 /\ k \in DOMAIN entries'
        BY <1>2, <3>1 DEF AtClient, DiagnosticsTyped
      <4> QED
        BY <3>0, <3>1, <4>1, <4>2
    <3>2. CASE /\ r.state # "running" /\ k \in DOMAIN entries
               /\ entries' = [i \in DOMAIN entries \ {k} |-> entries[i]]
      <4>1. AtClient(k)' = 0 /\ k \notin DOMAIN entries'
        BY <3>2 DEF AtClient
      <4> QED
        BY <3>0, <3>2, <4>1
    <3>3. CASE entries' = entries
      <4>1. AtClient(k)' = AtClient(k)
        BY <3>3 DEF AtClient
      <4> QED
        BY <3>0, <3>3, <4>1
    <3> QED
      BY <1>7, <3>1, <3>2, <3>3
  <2>4. Credits(k)' <= Credits(k) /\ Credits(k)' \in Nat
    <3> DEFINE T(a, f) == Total(a, Count(line, Credit(k)), Count(inbox, Credit(k)),
                                Count(line, Watch(k)), Count(inbox, Watch(k)), f, AtWatch(k))
    <3>1. Credits(k)' = T(Count(channel', Sample(k)), AtClient(k)') /\ Credits(k) = T(Count(channel, Sample(k)), AtClient(k))
      BY <1>1, <1>2, <2>1, PlacesAfter
    <3>2. Count(channel', Sample(k)) \in Nat /\ AtClient(k)' \in Nat /\ AtClient(k)' <= 1
      BY <1>8, <1>10, NumbersOf DEF AtClient
    <3>3. T(Count(channel', Sample(k)), AtClient(k)') \in Nat
      BY <2>2, <3>2, TotalNat, Zenon
    <3>4. Count(line, Credit(k)) <= Count(line, Credit(k)) /\ Count(inbox, Credit(k)) <= Count(inbox, Credit(k))
          /\ Count(line, Watch(k)) <= Count(line, Watch(k)) /\ Count(inbox, Watch(k)) <= Count(inbox, Watch(k))
          /\ AtWatch(k) <= AtWatch(k)
      BY <2>2
    <3>5. CASE Count(channel, Sample(k)) = Count(channel', Sample(k)) + 1
      <4>1. T(Count(channel', Sample(k)), AtClient(k)') <= T(Count(channel, Sample(k)), AtClient(k))
        BY <2>2, <3>2, <3>5, TotalGiven, Zenon
      <4> QED
        BY <3>1, <3>3, <4>1, Zenon
    <3>6. CASE Count(channel', Sample(k)) <= Count(channel, Sample(k)) /\ AtClient(k)' <= AtClient(k)
      <4>1. T(Count(channel', Sample(k)), AtClient(k)') <= T(Count(channel, Sample(k)), AtClient(k))
        BY <2>2, <3>2, <3>4, <3>6, TotalFalls, Zenon
      <4> QED
        BY <3>1, <3>3, <4>1, Zenon
    <3>7. \/ Count(channel, Sample(k)) = Count(channel', Sample(k)) + 1
          \/ Count(channel', Sample(k)) <= Count(channel, Sample(k)) /\ AtClient(k)' <= AtClient(k)
      BY <2>2, <2>3
    <3> QED
      BY <3>5, <3>6, <3>7
  <2>5. WatchPlaces(k)' \in Nat /\ WatchPlaces(k)' <= WatchPlaces(k)
    <3>1. WatchPlaces(k)' = WatchPlaces(k)
      BY <1>1, <1>2, <2>1, PlacesAfter
    <3> QED
      BY <2>2, <3>1
  <2>6. HasEnded(k)' => HasEnded(k)
    BY <1>9, Zenon
  <2>7. (k \in DOMAIN entries' => k \in DOMAIN entries)
        /\ (k \in DOMAIN entries /\ k \notin DOMAIN entries' => HasEnded(k))
    <3>1. r.state # "running" => HasEnded(k)
      BY <1>6, <1>9, Zenon
    <3> QED
      BY <2>3, <3>1
  <2> QED
    BY <1>1, <1>2, <2>4, <2>5, <2>6, <2>7, Settles
<1> QED
  <2>1. ASSUME NEW id \in Watchers PROVE WatchKept(id)'
    BY <1>11, <1>12
  <2> QED
    BY <1>10, <2>1 DEF DiagnosticsInv

\* The line gets a command that is no watch: as far as the order goes.
LEMMA LineOrder ==
  ASSUME DiagnosticsTyped, NEW id, InOrder(line, id), NEW c \in Commands, c # Watch(id)
  PROVE  InOrder(Append(line, c), id)
<1>1. line \in Seq(Commands) /\ Cancel(id) # Watch(id)
  BY CommandIs DEF DiagnosticsTyped
<1> QED
  BY <1>1, OrderAppend, Zenon

\* The client gives its credit back.
LEMMA KeptConsumes ==
  ASSUME DiagnosticsInv, Consumes
  PROVE  DiagnosticsInv'
<1>1. PICK k \in unread :
        IF k \in DOMAIN entries /\ entries[k].waiting
          THEN /\ entries' = [entries EXCEPT ![k].waiting = FALSE]
               /\ line' = IF open THEN Append(line, Command(k, "credit")) ELSE line
          ELSE UNCHANGED <<entries, line>>
  BY DEF Consumes
<1>2. UNCHANGED <<asked, inbox, watches, channel, open, spoilt>>
  BY DEF Consumes, companionVars, NoMishap
<1>3. DiagnosticsTyped /\ \A id \in Watchers : WatchKept(id)
  BY DEF DiagnosticsInv
<1>4. \A id : AtWatch(id)' = AtWatch(id) /\ RunsOnce(id)' = RunsOnce(id) /\ (HasEnded(id)' <=> HasEnded(id))
  BY <1>2 DEF AtWatch, RunsOnce, HasEnded
<1>5. CASE UNCHANGED <<entries, line>>
  <2>1. DiagnosticsTyped'
    BY <1>2, <1>3, <1>5 DEF DiagnosticsTyped
  <2>2. ASSUME NEW id \in Watchers PROVE WatchKept(id)'
    <3>1. AtClient(id)' = AtClient(id) /\ (id \in DOMAIN entries' <=> id \in DOMAIN entries)
          /\ Count(channel', Sample(id)) = Count(channel, Sample(id)) /\ spoilt \subseteq spoilt'
      BY <1>2, <1>5 DEF AtClient
    <3> QED
      BY <1>2, <1>3, <1>4, <1>5, <3>1, SettlesOther
  <2> QED
    BY <2>1, <2>2 DEF DiagnosticsInv
<1>6. CASE /\ k \in DOMAIN entries /\ entries[k].waiting
           /\ entries' = [entries EXCEPT ![k].waiting = FALSE]
           /\ line' = IF open THEN Append(line, Command(k, "credit")) ELSE line
  <2>1. k \in Watchers /\ open
    BY <1>3, <1>6 DEF DiagnosticsTyped
  <2>2. Credit(k) \in Commands /\ line' = Append(line, Credit(k)) /\ line \in Seq(Commands)
    BY <1>3, <1>6, <2>1, CommandIs DEF Credit, DiagnosticsTyped
  <2>3. line' \in Seq(Commands) /\ Sent(line, line', Credit(k))
    BY <2>2, AppendSends, Zenon
  <2>4. entries' \in [DOMAIN entries' -> [waiting : BOOLEAN, started : BOOLEAN]]
        /\ DOMAIN entries' = DOMAIN entries
    BY <1>3, <1>6 DEF DiagnosticsTyped
  <2>5. DiagnosticsTyped'
    BY <1>2, <1>3, <2>1, <2>3, <2>4 DEF DiagnosticsTyped
  <2>6. \A id : /\ id # k => AtClient(id)' = AtClient(id)
                /\ AtClient(k)' = 0 /\ AtClient(k) = 1
    BY <1>3, <1>6 DEF AtClient, DiagnosticsTyped
  <2>7. ASSUME NEW id \in Watchers PROVE WatchKept(id)'
    <3>1. /\ Count(channel, Sample(id)) \in Nat /\ Count(line, Credit(id)) \in Nat
          /\ Count(inbox, Credit(id)) \in Nat /\ Count(line, Watch(id)) \in Nat
          /\ Count(inbox, Watch(id)) \in Nat
          /\ AtClient(id) \in Nat /\ AtWatch(id) \in Nat /\ RunsOnce(id) \in Nat
          /\ Credits(id) \in Nat /\ WatchPlaces(id) \in Nat
      BY <1>3, PlacesNat
    <3>2. /\ Count(line', Watch(id)) = Count(line, Watch(id))
          /\ Count(line', Cancel(id)) = Count(line, Cancel(id))
          /\ Count(line', Credit(id)) = Count(line, Credit(id)) + (IF id = k THEN 1 ELSE 0)
      <4>1. Count(line, Cancel(id)) \in Nat
        BY <1>3, NumbersOf
      <4>2. Credit(k) # Watch(id) /\ Credit(k) # Cancel(id) /\ (Credit(k) = Credit(id) <=> id = k)
        BY CommandIs
      <4> QED
        BY <2>3, <3>1, <4>1, <4>2 DEF Sent
    <3>3. InOrder(line', id)
      <4>1. InOrder(line, id) /\ Credit(k) # Watch(id)
        BY <1>3, CommandIs DEF WatchKept
      <4> QED
        BY <1>3, <2>2, <4>1, LineOrder
    <3>4. WatchPlaces(id)' = WatchPlaces(id)
      BY <1>2, <1>4, <3>2 DEF WatchPlaces
    <3>5. Credits(id)' <= Credits(id) /\ Credits(id)' \in Nat
      <4>1. CASE id = k
        <5> DEFINE T(b, f) == Total(Count(channel, Sample(id)), b, Count(inbox, Credit(id)),
                                Count(line, Watch(id)), Count(inbox, Watch(id)), f, AtWatch(id))
        <5>1. Credits(id) = T(Count(line, Credit(id)), 1)
          BY <2>6, <4>1 DEF Credits
        <5>2. AtClient(id)' = 0
          BY <2>6, <4>1
        <5>3. Credits(id)' = T(Count(line', Credit(id)), 0)
          BY <1>2, <1>4, <3>2, <5>2 DEF Credits
        <5>4. Count(line', Credit(id)) \in Nat /\ Count(line', Credit(id)) <= Count(line, Credit(id)) + 1
              /\ 0 \in Nat /\ 1 \in Nat /\ 1 = 0 + 1
          BY <3>1, <3>2, <4>1
        <5>5. T(Count(line', Credit(id)), 0) <= T(Count(line, Credit(id)), 1)
          BY <3>1, <5>4, TotalGiven, Zenon
        <5>6. T(Count(line', Credit(id)), 0) \in Nat
          BY <3>1, <5>4, TotalNat, Zenon
        <5> QED
          BY <5>1, <5>3, <5>5, <5>6, Zenon
      <4>2. CASE id # k
        <5>1. Count(line', Credit(id)) = Count(line, Credit(id)) /\ AtClient(id)' = AtClient(id)
          BY <2>6, <3>1, <3>2, <4>2
        <5>2. Credits(id)' = Credits(id)
          BY <1>2, <1>4, <3>2, <5>1 DEF Credits
        <5> QED
          BY <3>1, <5>2
      <4> QED
        BY <4>1, <4>2
    <3>6. Credits(id)' <= 1
      BY <1>3, <3>1, <3>5 DEF WatchKept
    <3>7. WatchKept(id)
      BY <1>3
    <3>8. id \notin asked => Credits(id)' = 0
      BY <3>1, <3>5, <3>7 DEF WatchKept
    <3> QED
      BY <1>2, <1>4, <2>4, <3>2, <3>3, <3>4, <3>6, <3>7, <3>8 DEF WatchKept
  <2> QED
    BY <2>5, <2>7 DEF DiagnosticsInv
<1> QED
  BY <1>1, <1>5, <1>6

\* An entry goes, and the cancellation is on the line.
LEMMA KeptForgets ==
  ASSUME DiagnosticsInv, ClientLeaves \/ TimesOut
  PROVE  DiagnosticsInv'
<1>1. PICK k \in DOMAIN entries :
        entries' = Without(entries, {k}) /\ line' = CancelSent(k)
  BY DEF ClientLeaves, TimesOut
<1>2. UNCHANGED <<asked, inbox, watches, channel, open, spoilt>>
  BY DEF ClientLeaves, TimesOut, companionVars, NoMishap
<1>3. DiagnosticsTyped /\ \A id \in Watchers : WatchKept(id)
  BY DEF DiagnosticsInv
<1>4. k \in Watchers /\ open /\ k \in asked
  BY <1>1, <1>3 DEF DiagnosticsTyped, WatchKept
<1>5. Cancel(k) \in Commands /\ line' = Append(line, Cancel(k)) /\ line \in Seq(Commands)
  BY <1>1, <1>3, <1>4, CommandIs DEF CancelSent, Cancel, DiagnosticsTyped
<1>6. line' \in Seq(Commands) /\ Sent(line, line', Cancel(k))
  BY <1>5, AppendSends, Zenon
<1>7. entries' = [i \in DOMAIN entries \ {k} |-> entries[i]]
  BY <1>1 DEF Without
<1>8. DiagnosticsTyped'
  <2>1. entries' \in [DOMAIN entries' -> [waiting : BOOLEAN, started : BOOLEAN]]
        /\ DOMAIN entries' \subseteq DOMAIN entries
    BY <1>3, <1>7 DEF DiagnosticsTyped
  <2> QED
    BY <1>2, <1>3, <1>4, <1>6, <2>1 DEF DiagnosticsTyped
<1>9. \A id : AtWatch(id)' = AtWatch(id) /\ RunsOnce(id)' = RunsOnce(id) /\ (HasEnded(id)' <=> HasEnded(id))
  BY <1>2 DEF AtWatch, RunsOnce, HasEnded
<1>10. ASSUME NEW id \in Watchers PROVE WatchKept(id)'
  <2>1. /\ Count(channel, Sample(id)) \in Nat /\ Count(line, Credit(id)) \in Nat
        /\ Count(inbox, Credit(id)) \in Nat /\ Count(line, Watch(id)) \in Nat
        /\ Count(inbox, Watch(id)) \in Nat
        /\ AtClient(id) \in Nat /\ AtWatch(id) \in Nat /\ RunsOnce(id) \in Nat
        /\ Credits(id) \in Nat /\ WatchPlaces(id) \in Nat
    BY <1>3, PlacesNat
  <2>2. Count(line, Cancel(id)) \in Nat /\ Count(inbox, Cancel(id)) \in Nat
    BY <1>3, NumbersOf
  <2>3. /\ Count(line', Watch(id)) = Count(line, Watch(id))
        /\ Count(line', Credit(id)) = Count(line, Credit(id))
        /\ Count(line', Cancel(id)) = Count(line, Cancel(id)) + (IF id = k THEN 1 ELSE 0)
    <3>1. Cancel(k) # Watch(id) /\ Cancel(k) # Credit(id) /\ (Cancel(k) = Cancel(id) <=> id = k)
      BY CommandIs
    <3> QED
      BY <1>6, <2>1, <2>2, <3>1 DEF Sent
  <2>4. InOrder(line', id)
    <3>1. InOrder(line, id) /\ Cancel(k) # Watch(id)
      BY <1>3, CommandIs DEF WatchKept
    <3> QED
      BY <1>3, <1>5, <3>1, LineOrder
  <2>5. WatchPlaces(id)' = WatchPlaces(id)
    BY <1>2, <1>9, <2>3 DEF WatchPlaces
  <2>6. AtClient(id)' \in Nat /\ AtClient(id)' <= AtClient(id)
    BY <1>7 DEF AtClient
  <2>7. Credits(id)' <= Credits(id) /\ Credits(id)' \in Nat
    <3> DEFINE T(f) == Total(Count(channel, Sample(id)), Count(line, Credit(id)), Count(inbox, Credit(id)),
                             Count(line, Watch(id)), Count(inbox, Watch(id)), f, AtWatch(id))
    <3>1. Credits(id) = T(AtClient(id))
      BY DEF Credits
    <3>2. Credits(id)' = T(AtClient(id)')
      BY <1>2, <1>9, <2>3 DEF Credits
    <3>3. /\ Count(channel, Sample(id)) <= Count(channel, Sample(id))
          /\ Count(line, Credit(id)) <= Count(line, Credit(id)) /\ Count(inbox, Credit(id)) <= Count(inbox, Credit(id))
          /\ Count(line, Watch(id)) <= Count(line, Watch(id)) /\ Count(inbox, Watch(id)) <= Count(inbox, Watch(id))
          /\ AtWatch(id) <= AtWatch(id)
      BY <2>1
    <3>4. T(AtClient(id)') <= T(AtClient(id))
      BY <2>1, <2>6, <3>3, TotalFalls, Zenon
    <3>5. T(AtClient(id)') \in Nat
      BY <2>1, <2>6, TotalNat, Zenon
    <3> QED
      BY <3>1, <3>2, <3>4, <3>5, Zenon
  <2>8. WatchKept(id)
    BY <1>3
  <2>9. Credits(id)' <= 1
    BY <2>1, <2>7, <2>8 DEF WatchKept
  <2>10. CASE id = k
    <3>1. Count(line', Cancel(id)) + Count(inbox', Cancel(id)) # 0
      BY <1>2, <2>2, <2>3, <2>10
    <3>2. Count(inbox', Cancel(id)) # 0 => Count(line', Watch(id)) = 0
      BY <1>2, <2>3, <2>8 DEF WatchKept
    <3> QED
      BY <1>2, <1>4, <1>9, <2>4, <2>5, <2>8, <2>9, <2>10, <3>1, <3>2 DEF WatchKept
  <2>11. CASE id # k
    <3>1. Count(line', Cancel(id)) = Count(line, Cancel(id)) /\ (id \in DOMAIN entries' <=> id \in DOMAIN entries)
      BY <1>7, <2>2, <2>3, <2>11
    <3>2. id \notin asked => Credits(id)' = 0
      BY <2>1, <2>7, <2>8 DEF WatchKept
    <3> QED
      BY <1>2, <1>9, <2>3, <2>4, <2>5, <2>8, <2>9, <3>1, <3>2 DEF WatchKept
  <2> QED
    BY <2>10, <2>11
<1> QED
  BY <1>8, <1>10 DEF DiagnosticsInv

\* The connection ends: what was on the line and in the channel is lost.
LEMMA KeptDisconnects ==
  ASSUME DiagnosticsInv, Disconnects
  PROVE  DiagnosticsInv'
<1>1. /\ open' = FALSE /\ spoilt' = spoilt \cup {} /\ line' = <<>> /\ channel' = <<>> /\ entries' = <<>>
      /\ UNCHANGED <<asked, inbox, watches>>
  BY DEF Disconnects, Mishap, companionVars
<1>2. DiagnosticsTyped /\ \A id \in Watchers : WatchKept(id)
  BY DEF DiagnosticsInv
<1>3. DOMAIN << >> = {} /\ << >> \in Seq(Commands) /\ << >> \in Seq(Replies)
  BY EmptySeq
<1>4. DiagnosticsTyped'
  <2>1. entries' \in [DOMAIN entries' -> [waiting : BOOLEAN, started : BOOLEAN]] /\ DOMAIN entries' = {}
    <3>1. << >> = [i \in {} |-> 0]
      OBVIOUS
    <3> QED
      BY <1>1, <1>3, <3>1
  <2>2. watches' = watches /\ inbox' = inbox /\ line' \in Seq(Commands) /\ channel' \in Seq(Replies)
        /\ open' \in BOOLEAN
    BY <1>1, <1>3
  <2>3. /\ watches \in [DOMAIN watches -> BOOLEAN] /\ DOMAIN watches \subseteq Watchers
        /\ IsFiniteSet(DOMAIN watches) /\ inbox \in Seq(Commands)
    BY <1>2 DEF DiagnosticsTyped
  <2>4. watches' \in [DOMAIN watches' -> BOOLEAN] /\ DOMAIN watches' \subseteq Watchers
        /\ IsFiniteSet(DOMAIN watches') /\ inbox' \in Seq(Commands) /\ DOMAIN entries' \subseteq Watchers
    BY <2>1, <2>2, <2>3
  <2>5. ~open' => line' = << >> /\ channel' = << >> /\ DOMAIN entries' = {}
    BY <1>1, <2>1
  <2> QED
    BY <2>1, <2>2, <2>4, <2>5 DEF DiagnosticsTyped
<1>5. \A x : Count(line', x) = 0 /\ Count(channel', x) = 0
  BY <1>1, EmptyCounts, Zenon
<1>6. ASSUME NEW id \in Watchers PROVE WatchKept(id)'
  <2>1. /\ Count(channel, Sample(id)) \in Nat /\ Count(line, Credit(id)) \in Nat
        /\ Count(inbox, Credit(id)) \in Nat /\ Count(line, Watch(id)) \in Nat
        /\ Count(inbox, Watch(id)) \in Nat
        /\ AtClient(id) \in Nat /\ AtWatch(id) \in Nat /\ RunsOnce(id) \in Nat
        /\ Credits(id) \in Nat /\ WatchPlaces(id) \in Nat
    BY <1>2, PlacesNat
  <2>2. AtClient(id)' = 0
    BY <1>1, <1>3 DEF AtClient
  <2>3. AtWatch(id)' = AtWatch(id) /\ RunsOnce(id)' = RunsOnce(id)
    BY <1>1 DEF AtWatch, RunsOnce
  <2>4. ~HasEnded(id)'
    BY <1>5 DEF HasEnded
  <2>5. /\ 0 \in Nat /\ 0 <= Count(channel, Sample(id)) /\ 0 <= Count(line, Credit(id))
        /\ Count(inbox, Credit(id)) <= Count(inbox, Credit(id))
        /\ 0 <= Count(line, Watch(id)) /\ Count(inbox, Watch(id)) <= Count(inbox, Watch(id))
        /\ 0 <= AtClient(id) /\ AtWatch(id) <= AtWatch(id) /\ RunsOnce(id) <= RunsOnce(id)
    BY <2>1
  <2>6. Credits(id)' <= Credits(id) /\ Credits(id)' \in Nat
    <3>1. Credits(id)' = Total(0, 0, Count(inbox, Credit(id)), 0, Count(inbox, Watch(id)), 0, AtWatch(id))
      BY <1>1, <1>5, <2>2, <2>3 DEF Credits
    <3>2. Total(0, 0, Count(inbox, Credit(id)), 0, Count(inbox, Watch(id)), 0, AtWatch(id)) <=
          Total(Count(channel, Sample(id)), Count(line, Credit(id)), Count(inbox, Credit(id)),
                Count(line, Watch(id)), Count(inbox, Watch(id)), AtClient(id), AtWatch(id))
      BY <2>1, <2>5, TotalFalls, Zenon
    <3>3. Total(0, 0, Count(inbox, Credit(id)), 0, Count(inbox, Watch(id)), 0, AtWatch(id)) \in Nat
      BY <2>1, <2>5, TotalNat, Zenon
    <3> QED
      BY <3>1, <3>2, <3>3, Zenon DEF Credits
  <2>7. WatchPlaces(id)' <= WatchPlaces(id) /\ WatchPlaces(id)' \in Nat
    <3>1. WatchPlaces(id)' = Three(0, Count(inbox, Watch(id)), RunsOnce(id))
      BY <1>1, <1>5, <2>3 DEF WatchPlaces
    <3>2. Three(0, Count(inbox, Watch(id)), RunsOnce(id)) <=
          Three(Count(line, Watch(id)), Count(inbox, Watch(id)), RunsOnce(id))
      BY <2>1, <2>5, ThreeFalls, Zenon
    <3>3. Three(0, Count(inbox, Watch(id)), RunsOnce(id)) \in Nat
      BY <2>1, <2>5, ThreeSum, Zenon
    <3> QED
      BY <3>1, <3>2, <3>3, Zenon DEF WatchPlaces
  <2>8. WatchKept(id)
    BY <1>2
  <2>9. Credits(id)' <= 1 /\ WatchPlaces(id)' <= 1
    BY <2>1, <2>6, <2>7, <2>8 DEF WatchKept
  <2>10. InOrder(line', id) /\ InOrder(inbox', id)
    BY <1>1, <1>3, <2>8 DEF WatchKept, InOrder
  <2>11. id \notin asked' =>
           /\ Credits(id)' = 0 /\ WatchPlaces(id)' = 0 /\ ~HasEnded(id)' /\ id \notin DOMAIN entries'
           /\ Count(line', Cancel(id)) = 0 /\ Count(inbox', Cancel(id)) = 0
    BY <1>1, <1>3, <1>5, <2>1, <2>4, <2>6, <2>7, <2>8 DEF WatchKept
  <2> QED
    BY <1>1, <1>5, <2>4, <2>9, <2>10, <2>11 DEF WatchKept
<1> QED
  BY <1>4, <1>6 DEF DiagnosticsInv

\* A new connection finds nothing of the old one.
LEMMA KeptReconnects ==
  ASSUME DiagnosticsInv, Reconnects
  PROVE  DiagnosticsInv'
<1>1. /\ ~open /\ open' = TRUE /\ inbox = <<>> /\ watches = <<>>
      /\ UNCHANGED <<asked, entries, line, inbox, watches, channel, spoilt>>
  BY DEF Reconnects, daemonVars, companionVars, NoMishap
<1>2. DiagnosticsTyped /\ \A id \in Watchers : WatchKept(id)
  BY DEF DiagnosticsInv
<1>3. DiagnosticsTyped'
  BY <1>1, <1>2 DEF DiagnosticsTyped
<1>4. line = <<>>
  BY <1>1, <1>2 DEF DiagnosticsTyped
<1>5. \A x : Count(line, x) = 0 /\ Count(inbox, x) = 0
  BY <1>1, <1>4, EmptyCounts, Zenon
<1>6. ASSUME NEW id \in Watchers PROVE WatchKept(id)'
  <2>1. AtClient(id)' = AtClient(id) /\ AtWatch(id)' = AtWatch(id) /\ RunsOnce(id)' = RunsOnce(id)
        /\ (HasEnded(id)' <=> HasEnded(id))
    BY <1>1 DEF AtClient, AtWatch, RunsOnce, HasEnded
  <2>2. Credits(id)' = Credits(id) /\ WatchPlaces(id)' = WatchPlaces(id)
    BY <1>1, <2>1 DEF Credits, WatchPlaces
  <2>3. RunsOnce(id) = 0
    BY <1>1 DEF RunsOnce
  <2>4. WatchPlaces(id) = 0
    BY <1>5, <2>3 DEF WatchPlaces, Three
  <2>5. WatchKept(id)
    BY <1>2
  <2> QED
    BY <1>1, <2>1, <2>2, <2>4, <2>5 DEF WatchKept
<1> QED
  BY <1>3, <1>6 DEF DiagnosticsInv

\* No request has been made.
LEMMA KeptStart == DiagnosticsInit => DiagnosticsInv
<1> SUFFICES ASSUME DiagnosticsInit PROVE DiagnosticsInv
  OBVIOUS
<1>1. /\ asked = {} /\ entries = <<>> /\ line = <<>> /\ inbox = <<>> /\ watches = <<>> /\ channel = <<>>
      /\ open = TRUE
  BY DEF DiagnosticsInit
<1>2. DOMAIN << >> = {} /\ << >> \in Seq(Commands) /\ << >> \in Seq(Replies) /\ IsFiniteSet({})
  BY EmptySeq, FS_EmptySet
<1>3. DiagnosticsTyped
  BY <1>1, <1>2 DEF DiagnosticsTyped
<1>4. \A x : Count(line, x) = 0 /\ Count(inbox, x) = 0 /\ Count(channel, x) = 0
  BY <1>1, EmptyCounts, Zenon
<1>5. ASSUME NEW id \in Watchers PROVE WatchKept(id)
  <2>1. AtClient(id) = 0 /\ AtWatch(id) = 0 /\ RunsOnce(id) = 0
    BY <1>1 DEF AtClient, AtWatch, RunsOnce
  <2>2. ~HasEnded(id)
    BY <1>4 DEF HasEnded
  <2>3. Credits(id) = 0 /\ WatchPlaces(id) = 0
    BY <1>4, <2>1 DEF Credits, Total, WatchPlaces, Three
  <2>4. InOrder(line, id) /\ InOrder(inbox, id)
    BY <1>1, <1>2 DEF InOrder
  <2> QED
    BY <1>1, <1>2, <1>4, <2>2, <2>3, <2>4 DEF WatchKept
<1> QED
  BY <1>3, <1>5 DEF DiagnosticsInv

LEMMA DiagnosticsKept ==
  ASSUME DiagnosticsInv, DiagnosticsNext
  PROVE  DiagnosticsInv'
BY KeptArrives, KeptObeys, KeptSamples, KeptFinishes, KeptSubmits, KeptReplied, KeptConsumes,
   KeptForgets, KeptDisconnects, KeptReconnects DEF DiagnosticsNext

\* The invariant is unaffected by the steps of the other parts.
LEMMA DiagnosticsStill ==
  ASSUME DiagnosticsInv, UNCHANGED diagnosticVars
  PROVE  DiagnosticsInv'
<1>1. UNCHANGED <<asked, entries, line, inbox, watches, channel, open, spoilt>>
  BY DEF diagnosticVars, daemonVars, companionVars
<1>2. DiagnosticsTyped' /\ \A id \in Watchers : WatchKept(id)
  BY <1>1 DEF DiagnosticsInv, DiagnosticsTyped
<1>3. ASSUME NEW id \in Watchers PROVE WatchKept(id)'
  <2>1. AtClient(id)' = AtClient(id) /\ AtWatch(id)' = AtWatch(id) /\ RunsOnce(id)' = RunsOnce(id)
        /\ (HasEnded(id)' <=> HasEnded(id))
    BY <1>1 DEF AtClient, AtWatch, RunsOnce, HasEnded
  <2>2. Credits(id)' = Credits(id) /\ WatchPlaces(id)' = WatchPlaces(id)
    BY <1>1, <2>1 DEF Credits, WatchPlaces
  <2> QED
    BY <1>1, <1>2, <2>1, <2>2 DEF WatchKept
<1> QED
  BY <1>2, <1>3 DEF DiagnosticsInv

\* A part of a sum.
LEMMA TotalSome ==
  ASSUME NEW a \in Nat, NEW b \in Nat, NEW c \in Nat, NEW d \in Nat, NEW e \in Nat,
         NEW f \in Nat, NEW g \in Nat, Total(a, b, c, d, e, f, g) <= 1
  PROVE  a + b + c + f + g <= 1
BY DEF Total

\* What the invariant is for.
LEMMA WatchesKept == DiagnosticsInv => OneSampleAwaits /\ NoOrphanWatch
<1> SUFFICES ASSUME DiagnosticsInv PROVE OneSampleAwaits /\ NoOrphanWatch
  OBVIOUS
<1>1. DiagnosticsTyped /\ \A id \in Watchers : WatchKept(id)
  BY DEF DiagnosticsInv
<1>2. ASSUME NEW id \in DOMAIN entries
      PROVE  Count(channel, Sample(id)) + Count(line, Credit(id))
             + Count(inbox, Credit(id)) + (IF entries[id].waiting THEN 1 ELSE 0)
             + (IF id \in DOMAIN watches /\ watches[id] THEN 1 ELSE 0) <= 1
  <2>1. id \in Watchers
    BY <1>1, <1>2 DEF DiagnosticsTyped
  <2>2. Credits(id) <= 1
    BY <1>1, <2>1 DEF WatchKept
  <2>3. /\ Count(channel, Sample(id)) \in Nat /\ Count(line, Credit(id)) \in Nat
        /\ Count(inbox, Credit(id)) \in Nat /\ Count(line, Watch(id)) \in Nat
        /\ Count(inbox, Watch(id)) \in Nat
        /\ AtClient(id) \in Nat /\ AtWatch(id) \in Nat
    BY <1>1, PlacesNat
  <2>4. Count(channel, Sample(id)) + Count(line, Credit(id)) + Count(inbox, Credit(id))
        + AtClient(id) + AtWatch(id) <= 1
    BY <2>2, <2>3, TotalSome, Zenon DEF Credits
  <2>5. AtClient(id) = IF entries[id].waiting THEN 1 ELSE 0
    BY <1>2 DEF AtClient
  <2>6. AtWatch(id) = IF id \in DOMAIN watches /\ watches[id] THEN 1 ELSE 0
    BY DEF AtWatch
  <2> QED
    BY <2>4, <2>5, <2>6, Zenon
<1>3. OneSampleAwaits
  BY <1>2, Zenon DEF OneSampleAwaits, RunningWatches, Sample, Credit
<1>4. ASSUME NEW id \in DOMAIN watches, id \notin DOMAIN entries, id \notin spoilt, open
      PROVE  Cancel(id) \in ToSet(line) \cup ToSet(inbox)
  <2>1. id \in Watchers
    BY <1>1, <1>4 DEF DiagnosticsTyped
  <2>2. RunsOnce(id) # 0
    BY <1>4 DEF RunsOnce
  <2>3. Count(line, Watch(id)) \in Nat /\ Count(inbox, Watch(id)) \in Nat /\ RunsOnce(id) \in Nat
    BY <1>1, PlacesNat
  <2>4. WatchPlaces(id) # 0
    BY <2>2, <2>3, ThreeSum, Zenon DEF WatchPlaces
  <2>5. Count(line, Cancel(id)) + Count(inbox, Cancel(id)) # 0
    BY <1>1, <1>4, <2>1, <2>4 DEF WatchKept
  <2>6. Count(line, Cancel(id)) # 0 \/ Count(inbox, Cancel(id)) # 0
    BY <2>5
  <2>7. line \in Seq(Commands) /\ inbox \in Seq(Commands)
    BY <1>1 DEF DiagnosticsTyped
  <2> QED
    BY <2>6, <2>7, CountIs, Zenon
<1>5. NoOrphanWatch
  BY <1>4, Zenon DEF NoOrphanWatch, RunningWatches, Cancel
<1> QED
  BY <1>3, <1>5

(***************************************************************************)
(* What the connection tells the callers.                                  *)
(***************************************************************************)
\* What the set told says of the request r.
Says(told, r) == {t.what : t \in {u \in told : u.request = r}}

\* A finite set as a sequence.
LEMMA SetAsSeq ==
  ASSUME NEW S, NEW T \in SUBSET S, IsFiniteSet(T)
  PROVE  /\ SetToSeq(T) \in Seq(T) /\ SetToSeq(T) \in Seq(S)
         /\ Len(SetToSeq(T)) = Cardinality(T)
<1> DEFINE m == Cardinality(T)  P(f) == f \in [1..m -> T] /\ IsInjective(f)
<1>1. m \in Nat /\ ExistsBijection(1..m, T)
  BY FS_CardinalityType
<1>2. SetToSeq(T) = CHOOSE f \in [1..m -> T] : IsInjective(f)
  BY DEF SetToSeq
<1>3. \E f \in [1..m -> T] : IsInjective(f)
  BY <1>1 DEF ExistsBijection, Bijection, Injection
<1> HIDE DEF m
<1>4. SetToSeq(T) \in [1..m -> T]
  BY <1>2, <1>3
<1>5. SetToSeq(T) \in Seq(T) /\ Len(SetToSeq(T)) = m
  BY <1>1, <1>4, SequenceOf
<1> QED
  BY <1>5, SeqMonotonic DEF m

\* Nobody is told what nobody says, and one outcome is one answer.
LEMMA ToldIs ==
  ASSUME NEW S, NEW s \in Seq(S), NEW T \in SUBSET S, IsFiniteSet(T)
  PROVE  /\ s \o SetToSeq(T) \in Seq(S)
         /\ Len(s \o SetToSeq(T)) = Len(s) + Cardinality(T)
         /\ ToSet(s \o SetToSeq(T)) \subseteq ToSet(s) \cup T
         /\ T = {} => s \o SetToSeq(T) = s
<1> DEFINE q == SetToSeq(T)
<1>1. q \in Seq(T) /\ q \in Seq(S) /\ Len(q) = Cardinality(T)
  BY SetAsSeq
<1> HIDE DEF q
<1>2. /\ s \o q \in Seq(S) /\ Len(s \o q) = Len(s) + Len(q)
      /\ \A i \in 1 .. Len(s) + Len(q) : (s \o q)[i] = IF i <= Len(s) THEN s[i] ELSE q[i - Len(s)]
  BY <1>1, ConcatProperties
<1>3. Len(s) \in Nat /\ Len(q) \in Nat /\ DOMAIN s = 1..Len(s) /\ DOMAIN q = 1..Len(q)
      /\ (\A i \in 1..Len(q) : q[i] \in T) /\ DOMAIN (s \o q) = 1..Len(s \o q)
  BY <1>1, <1>2, LenProperties
<1>4. ASSUME NEW i \in 1..(Len(s) + Len(q)) PROVE (s \o q)[i] \in ToSet(s) \cup T
  <2>1. CASE i <= Len(s)
    BY <1>2, <1>3, <2>1 DEF ToSet
  <2>2. CASE ~(i <= Len(s))
    <3>1. i - Len(s) \in 1..Len(q)
      BY <1>3, <2>2
    <3> QED
      BY <1>2, <1>3, <2>2, <3>1
  <2> QED
    BY <2>1, <2>2
<1>5. ToSet(s \o q) \subseteq ToSet(s) \cup T
  BY <1>2, <1>3, <1>4 DEF ToSet
<1>6. T = {} => q = << >>
  <2>1. T = {} => Len(q) = 0
    BY <1>1, FS_EmptySet
  <2> QED
    BY <1>1, <2>1, EmptySeq
<1>7. s \o << >> = s
  BY ConcatEmptySeq
<1> QED
  BY <1>1, <1>2, <1>5, <1>6, <1>7 DEF q

\* What becomes of the answers of one caller.
LEMMA ToldTells ==
  ASSUME RequestsTyped, NEW told, Told(told),
         \A r \in Requests : Says(told, r) \subseteq {r[1]} \cup Failings
  PROVE  /\ answers' \in [Callers -> Seq(CallOutcomes)]
         /\ \A c \in Callers :
              /\ call[c].state # "waits" \/ Says(told, Current(c)) = {} => answers'[c] = answers[c]
              /\ call[c].state = "waits" =>
                   /\ ToSet(answers'[c]) \subseteq ToSet(answers[c]) \cup {c} \cup Failings
                   /\ \A w : Says(told, Current(c)) = {w} => Len(answers'[c]) = Len(answers[c]) + 1
<1> DEFINE T(c) == {t.what : t \in {u \in told : call[c].state = "waits" /\ u.request = Current(c)}}
<1>1. answers' = [c \in Callers |-> answers[c] \o SetToSeq(T(c))]
  BY DEF Told
<1>2. ASSUME NEW c \in Callers
      PROVE  /\ T(c) = IF call[c].state = "waits" THEN Says(told, Current(c)) ELSE {}
             /\ T(c) \subseteq {c} \cup Failings /\ IsFiniteSet(T(c))
  <2>1. call[c].attempt \in {1, 2}
    BY <1>2 DEF RequestsTyped
  <2>2. Current(c) \in Requests /\ Current(c)[1] = c
    BY <1>2, <2>1 DEF Current, Requests
  <2>3. T(c) = IF call[c].state = "waits" THEN Says(told, Current(c)) ELSE {}
    BY DEF Says
  <2> HIDE DEF T
  <2>4. T(c) \subseteq {c} \cup Failings
    BY <2>2, <2>3
  <2>5. IsFiniteSet({c} \cup Failings)
    <3>1. {c} \cup Failings = {c, "stopped", "stopping", "full", "timeout", "closed"}
      BY DEF Failings
    <3>2. IsFiniteSet(((((({} \cup {c}) \cup {"stopped"}) \cup {"stopping"}) \cup {"full"}) \cup {"timeout"}) \cup {"closed"})
      BY FS_EmptySet, FS_AddElement
    <3>3. (((((({} \cup {c}) \cup {"stopped"}) \cup {"stopping"}) \cup {"full"}) \cup {"timeout"}) \cup {"closed"})
          = {c, "stopped", "stopping", "full", "timeout", "closed"}
      OBVIOUS
    <3> QED
      BY <3>1, <3>2, <3>3
  <2>6. IsFiniteSet(T(c))
    BY <2>4, <2>5, FS_Subset
  <2> QED
    BY <2>3, <2>4, <2>6
<1> HIDE DEF T
<1>3. ASSUME NEW c \in Callers
      PROVE  /\ answers'[c] \in Seq(CallOutcomes)
             /\ Len(answers'[c]) = Len(answers[c]) + Cardinality(T(c))
             /\ ToSet(answers'[c]) \subseteq ToSet(answers[c]) \cup T(c)
             /\ T(c) = {} => answers'[c] = answers[c]
  <2>1. answers'[c] = answers[c] \o SetToSeq(T(c))
    BY <1>1, <1>3
  <2>2. answers[c] \in Seq(CallOutcomes)
    BY <1>3 DEF RequestsTyped
  <2>3. T(c) \in SUBSET CallOutcomes
    BY <1>2, <1>3 DEF CallOutcomes, Failings
  <2>4. IsFiniteSet(T(c))
    BY <1>2, <1>3
  <2> QED
    BY <2>1, <2>2, <2>3, <2>4, ToldIs
<1>4. answers' \in [Callers -> Seq(CallOutcomes)]
  BY <1>1, <1>3
<1>5. ASSUME NEW c \in Callers
      PROVE  /\ call[c].state # "waits" \/ Says(told, Current(c)) = {} => answers'[c] = answers[c]
             /\ call[c].state = "waits" =>
                  /\ ToSet(answers'[c]) \subseteq ToSet(answers[c]) \cup {c} \cup Failings
                  /\ \A w : Says(told, Current(c)) = {w} => Len(answers'[c]) = Len(answers[c]) + 1
  <2>1. \A w : Cardinality({w}) = 1
    BY FS_Singleton
  <2> QED
    BY <1>2, <1>3, <1>5, <2>1
<1> QED
  BY <1>4, <1>5

\* No news.
LEMMA ToldNothing ==
  ASSUME RequestsTyped, answers' = answers
  PROVE  Told({})
<1>1. ASSUME NEW c \in Callers PROVE answers[c] \o SetToSeq({}) = answers[c]
  <2>1. answers[c] \in Seq(CallOutcomes) /\ {} \in SUBSET CallOutcomes /\ IsFiniteSet({})
    BY <1>1, FS_EmptySet DEF RequestsTyped
  <2> QED
    BY <2>1, ToldIs
<1>2. \A c \in Callers : {t.what : t \in {u \in {} : call[c].state = "waits" /\ u.request = Current(c)}} = {}
  OBVIOUS
<1>3. answers = [c \in Callers |-> answers[c]]
  BY DEF RequestsTyped
<1>4. answers = [c \in Callers |-> answers[c] \o SetToSeq({t.what : t \in {u \in {} : call[c].state = "waits" /\ u.request = Current(c)}})]
  BY <1>1, <1>2, <1>3
<1> QED
  BY <1>4 DEF Told

LEMMA SaysNothing == \A r : Says({}, r) = {}
BY DEF Says

(***************************************************************************)
(* The places of a request.                                                *)
(***************************************************************************)
LEMMA WaitingIs ==
  ASSUME NEW P, IsFiniteSet(P), NEW r
  PROVE  /\ Waiting(P, r) \in Nat
         /\ Waiting(P, r) = 0 <=> \A p \in P : p.request # r
         /\ \A p \in P : Waiting(P \ {p}, r) = Waiting(P, r) - (IF p.request = r THEN 1 ELSE 0)
         /\ \A p : p \notin P => Waiting(P \cup {p}, r) = Waiting(P, r) + (IF p.request = r THEN 1 ELSE 0)
<1> DEFINE W == {p \in P : p.request = r}
<1>1. W \in SUBSET P
  OBVIOUS
<1>2. IsFiniteSet(W) /\ Cardinality(W) \in Nat /\ (Cardinality(W) = 0 <=> W = {})
  BY <1>1, FS_Subset, FS_CardinalityType, FS_EmptySet
<1>3. W = {} <=> \A p \in P : p.request # r
  OBVIOUS
<1>4. ASSUME NEW p \in P
      PROVE  Waiting(P \ {p}, r) = Waiting(P, r) - (IF p.request = r THEN 1 ELSE 0)
  <2>1. {q \in P \ {p} : q.request = r} = W \ {p} /\ (p \in W <=> p.request = r)
    BY <1>4
  <2> HIDE DEF W
  <2>2. Cardinality(W \ {p}) = Cardinality(W) - (IF p.request = r THEN 1 ELSE 0)
    <3>1. Cardinality(W \ {p}) = IF p \in W THEN Cardinality(W) - 1 ELSE Cardinality(W)
      BY <1>2, FS_RemoveElement
    <3> QED
      BY <1>2, <2>1, <3>1
  <2>3. Waiting(P \ {p}, r) = Cardinality(W \ {p})
    BY <2>1 DEF Waiting
  <2>4. Waiting(P, r) = Cardinality(W)
    BY DEF Waiting, W
  <2> QED
    BY <2>2, <2>3, <2>4
<1>5. ASSUME NEW p, p \notin P
      PROVE  Waiting(P \cup {p}, r) = Waiting(P, r) + (IF p.request = r THEN 1 ELSE 0)
  <2>1. {q \in P \cup {p} : q.request = r} = (IF p.request = r THEN W \cup {p} ELSE W) /\ p \notin W
    BY <1>5
  <2> HIDE DEF W
  <2>2. Cardinality(W \cup {p}) = Cardinality(W) + 1
    BY <1>2, <2>1, FS_AddElement
  <2>3. Waiting(P \cup {p}, r) = Cardinality(IF p.request = r THEN W \cup {p} ELSE W)
    BY <2>1 DEF Waiting
  <2>4. Waiting(P, r) = Cardinality(W)
    BY DEF Waiting, W
  <2>5. CASE p.request = r
    BY <2>2, <2>3, <2>4, <2>5
  <2>6. CASE p.request # r
    BY <1>2, <2>3, <2>4, <2>6
  <2> QED
    BY <2>5, <2>6
<1> QED
  BY <1>2, <1>3, <1>4, <1>5 DEF Waiting

\* The number of places that hold a request.
PlaceCount(r) == Three(Count(outbox, r), Count(queued, r), Waiting(pending, r))

LEMMA HeldIs == \A r : Held(r) = PlaceCount(r) /\ Held(r)' = PlaceCount(r)'
BY DEF Held, PlaceCount, Three, Waiting

\* Counts are numbers.
LEMMA HeldNat ==
  ASSUME RequestsTyped, NEW r
  PROVE  /\ Count(outbox, r) \in Nat /\ Count(queued, r) \in Nat /\ Waiting(pending, r) \in Nat
         /\ PlaceCount(r) \in Nat
<1>1. /\ Count(outbox, r) \in Nat /\ Count(queued, r) \in Nat /\ Waiting(pending, r) \in Nat
  BY CountIs, WaitingIs DEF RequestsTyped
<1> QED
  BY <1>1, ThreeSum DEF PlaceCount

LEMMA ThreeCases ==
  ASSUME NEW a \in Nat, NEW b \in Nat, NEW c \in Nat
  PROVE  /\ Three(a, b, c) = 0 <=> a = 0 /\ b = 0 /\ c = 0
         /\ Three(a, b, c) = 1 <=> \/ a = 1 /\ b = 0 /\ c = 0
                                   \/ a = 0 /\ b = 1 /\ c = 0
                                   \/ a = 0 /\ b = 0 /\ c = 1
BY DEF Three

\* The request of a caller.
LEMMA CurrentIs ==
  ASSUME RequestsTyped, NEW c \in Callers
  PROVE  /\ call[c].attempt \in {1, 2} /\ Current(c) = <<c, call[c].attempt>>
         /\ Current(c) \in Requests
         /\ answers[c] \in Seq(CallOutcomes) /\ Len(answers[c]) \in Nat
<1>1. call[c].attempt \in {1, 2} /\ answers[c] \in Seq(CallOutcomes)
  BY DEF RequestsTyped
<1> QED
  BY <1>1, LenProperties DEF Current, Requests

\* What a step of the worker does with one request: one that is held and not cancelled stays
\* held, or leaves its place and is told one outcome, and nothing is told of another.
Handled(told, r) ==
  /\ Says(told, r) \subseteq {r[1]} \cup Failings
  /\ PlaceCount(r) = 0 => PlaceCount(r)' = 0
  /\ ~cancelled /\ PlaceCount(r) = 0 => Says(told, r) = {}
  /\ ~cancelled /\ PlaceCount(r) = 1 =>
       \/ PlaceCount(r)' = 1 /\ Says(told, r) = {}
       \/ PlaceCount(r)' = 0 /\ \E w : Says(told, r) = {w}

\* A step of the worker that handles every request so keeps the invariant.
LEMMA WorkerKeeps ==
  ASSUME RequestsInv, UNCHANGED <<call, cancelled, halting>>,
         outbox' \in Seq(Requests), queued' \in Seq(Requests),
         IsFiniteSet(pending'), nextId' \in Nat \ {0}, closing' => cancelled,
         NumbersTell',
         NEW told, Told(told),
         \A r \in Requests : Handled(told, r)
  PROVE  RequestsInv'
<1>1. /\ RequestsTyped /\ UnmadeNowhere /\ NobodyForgotten /\ AnswersFit
  BY DEF RequestsInv
<1>2. /\ answers' \in [Callers -> Seq(CallOutcomes)]
      /\ \A c \in Callers :
              /\ call[c].state # "waits" \/ Says(told, Current(c)) = {} => answers'[c] = answers[c]
              /\ call[c].state = "waits" =>
                   /\ ToSet(answers'[c]) \subseteq ToSet(answers[c]) \cup {c} \cup Failings
                   /\ \A w : Says(told, Current(c)) = {w} => Len(answers'[c]) = Len(answers[c]) + 1
  <2>1. \A r \in Requests : Says(told, r) \subseteq {r[1]} \cup Failings
    BY DEF Handled
  <2> QED
    BY <1>1, <2>1, ToldTells
<1>3. RequestsTyped'
  BY <1>1, <1>2 DEF RequestsTyped
<1>4. UnmadeNowhere'
  <2>1. ASSUME NEW c \in Callers, NEW a \in {1, 2}, Unmade(c, a) PROVE Held(<<c, a>>)' = 0
    <3>1. <<c, a>> \in Requests
      BY <2>1 DEF Requests
    <3>2. PlaceCount(<<c, a>>) = 0
      BY <1>1, <2>1, HeldIs DEF UnmadeNowhere
    <3>3. PlaceCount(<<c, a>>)' = 0
      BY <3>1, <3>2 DEF Handled
    <3> QED
      BY <3>3, HeldIs
  <2>2. \A c \in Callers, a \in {1, 2} : Unmade(c, a)' => Unmade(c, a)
    BY DEF Unmade
  <2>3. ASSUME NEW c \in Callers, NEW a \in {1, 2}, Unmade(c, a)' PROVE Held(<<c, a>>)' = 0
    BY <2>1, <2>2, <2>3
  <2> QED
    BY <2>3 DEF UnmadeNowhere
<1>5. NobodyForgotten'
  <2>1. ASSUME NEW c \in Callers, call[c].state = "waits", ~cancelled
        PROVE  Held(Current(c))' + Len(answers'[c]) = 1
    <3> DEFINE r == Current(c)
    <3>1. r \in Requests /\ Len(answers[c]) \in Nat
      BY <1>1, <2>1, CurrentIs
    <3>2. PlaceCount(r) + Len(answers[c]) = 1 /\ PlaceCount(r) \in Nat
      BY <1>1, <2>1, HeldIs, HeldNat DEF NobodyForgotten
    <3>3. Current(c)' = Current(c)
      BY DEF Current
    <3>4. Held(Current(c))' = PlaceCount(Current(c))'
      BY HeldIs DEF Held, PlaceCount, Three, Waiting
    <3>5. PICK k : k = r
      OBVIOUS
    <3>6. PlaceCount(Current(c))' = PlaceCount(k)'
      BY <3>3, <3>5 DEF PlaceCount
    <3>7. Handled(told, k)
      BY <3>1, <3>5
    <3>8. \/ Says(told, k) = {} => answers'[c] = answers[c]
          \/ \A w : Says(told, k) = {w} => Len(answers'[c]) = Len(answers[c]) + 1
      BY <1>2, <2>1, <3>5
    <3>9. /\ Says(told, k) = {} => answers'[c] = answers[c]
          /\ \A w : Says(told, k) = {w} => Len(answers'[c]) = Len(answers[c]) + 1
      BY <1>2, <2>1, <3>5
    <3>10. PlaceCount(k) + Len(answers[c]) = 1 /\ PlaceCount(k) \in Nat
      BY <3>2, <3>5
    <3> HIDE DEF r
    <3>11. CASE PlaceCount(k) = 0
      <4>1. PlaceCount(k)' = 0 /\ Says(told, k) = {}
        BY <2>1, <3>7, <3>11 DEF Handled
      <4>2. Len(answers[c]) = 1
        BY <3>1, <3>10, <3>11
      <4>3. answers'[c] = answers[c]
        BY <3>9, <4>1
      <4> QED
        BY <3>4, <3>6, <4>1, <4>2, <4>3
    <3>12. CASE PlaceCount(k) = 1
      <4>1. Len(answers[c]) = 0
        BY <3>1, <3>10, <3>12
      <4>2. CASE PlaceCount(k)' = 1 /\ Says(told, k) = {}
        BY <3>4, <3>6, <3>9, <4>1, <4>2
      <4>3. CASE PlaceCount(k)' = 0 /\ \E w : Says(told, k) = {w}
        <5>1. PICK w : Says(told, k) = {w}
          BY <4>3
        <5>2. Len(answers'[c]) = Len(answers[c]) + 1
          BY <3>9, <5>1, Zenon
        <5> QED
          BY <3>4, <3>6, <4>1, <4>3, <5>2
      <4> QED
        BY <2>1, <3>7, <3>12, <4>2, <4>3 DEF Handled
    <3> QED
      BY <3>1, <3>10, <3>11, <3>12
  <2> QED
    BY <2>1 DEF NobodyForgotten
<1>6. AnswersFit'
  <2>1. ASSUME NEW c \in Callers
        PROVE  Callers \cap (ToSet(answers'[c]) \cup {call[c].state}) \subseteq {c}
    <3>1. Callers \cap (ToSet(answers[c]) \cup {call[c].state}) \subseteq {c}
      BY <1>1, <2>1 DEF AnswersFit
    <3>2. Callers \cap Failings = {}
      BY RequestsAssumption DEF Failings
    <3>3. ToSet(answers'[c]) \subseteq ToSet(answers[c]) \cup {c} \cup Failings
      BY <1>2, <2>1
    <3> QED
      BY <3>1, <3>2, <3>3
  <2> QED
    BY <2>1 DEF AnswersFit
<1> QED
  BY <1>3, <1>4, <1>5, <1>6 DEF RequestsInv

(***************************************************************************)
(* The worker without a connection.                                        *)
(***************************************************************************)
LEMMA SaysBoth == \A a, b, r : Says(a \cup b, r) = Says(a, r) \cup Says(b, r)
BY DEF Says

LEMMA TellSays == \A set, what, r : Says(Tell(set, what), r) = IF r \in set THEN {what} ELSE {}
<1> SUFFICES ASSUME NEW set, NEW what, NEW r
             PROVE  Says(Tell(set, what), r) = IF r \in set THEN {what} ELSE {}
  OBVIOUS
<1> DEFINE x == [request |-> r, what |-> what]
<1>1. \A u \in Tell(set, what) : u.request = r => u = x /\ r \in set
  BY DEF Tell
<1>2. r \in set => x \in Tell(set, what)
  BY DEF Tell
<1>3. x.request = r /\ x.what = what
  OBVIOUS
<1> HIDE DEF x
<1>4. CASE r \in set
  <2>1. {u \in Tell(set, what) : u.request = r} = {x}
    BY <1>1, <1>2, <1>3, <1>4
  <2> QED
    BY <1>3, <1>4, <2>1 DEF Says
<1>5. CASE ~(r \in set)
  <2>1. {u \in Tell(set, what) : u.request = r} = {}
    BY <1>1, <1>5
  <2> QED
    BY <1>5, <2>1 DEF Says
<1> QED
  BY <1>4, <1>5

LEMMA FailuresSay ==
  \A set, r : Says(Failures(set), r) = IF r \in set /\ HasFailed(r) THEN {Failure(r)} ELSE {}
<1> SUFFICES ASSUME NEW set, NEW r
             PROVE  Says(Failures(set), r) = IF r \in set /\ HasFailed(r) THEN {Failure(r)} ELSE {}
  OBVIOUS
<1> DEFINE x == [request |-> r, what |-> Failure(r)]
<1>1. \A u \in Failures(set) : u.request = r => u = x /\ (r \in set /\ HasFailed(r))
  BY DEF Failures
<1>2. (r \in set /\ HasFailed(r)) => x \in Failures(set)
  BY DEF Failures
<1>3. x.request = r /\ x.what = Failure(r)
  OBVIOUS
<1> HIDE DEF x
<1>4. CASE (r \in set /\ HasFailed(r))
  <2>1. {u \in Failures(set) : u.request = r} = {x}
    BY <1>1, <1>2, <1>3, <1>4
  <2> QED
    BY <1>3, <1>4, <2>1 DEF Says
<1>5. CASE ~((r \in set /\ HasFailed(r)))
  <2>1. {u \in Failures(set) : u.request = r} = {}
    BY <1>1, <1>5
  <2> QED
    BY <1>5, <2>1 DEF Says
<1> QED
  BY <1>4, <1>5

LEMMA FailureSaid == \A r : Failure(r) \in Failings
BY DEF Failure, Failings

\* What is counted is there.
LEMMA QueuedIs ==
  ASSUME RequestsTyped
  PROVE  \A r : r \in ToSet(queued) <=> Count(queued, r) # 0
BY CountIs DEF RequestsTyped

\* What has failed leaves the queue and is told so.
LEMMA ExpireKeeps ==
  ASSUME RequestsInv, Expire
  PROVE  RequestsInv'
<1>1. /\ link = "pause" /\ queued' = Unexpired(queued)
      /\ Told(Failures(ToSet(queued)))
      /\ UNCHANGED <<call, cancelled, halting, outbox, pending, nextId, closing, link, wire, frame>>
  BY DEF Expire, boxVars
<1> DEFINE told == Failures(ToSet(queued))
<1>2. RequestsTyped /\ NumbersTell
  BY DEF RequestsInv
<1>3. /\ queued' \in Seq(Requests)
      /\ \A x : Count(queued', x) = IF HasFailed(x) THEN 0 ELSE Count(queued, x)
  BY <1>1, <1>2, UnexpiredIs DEF RequestsTyped
<1>4. NumbersTell'
  BY <1>1, <1>2 DEF NumbersTell, OnTheWay
<1>5. ASSUME NEW r \in Requests PROVE Handled(told, r)
  <2>1. /\ Count(outbox, r) \in Nat /\ Count(queued, r) \in Nat /\ Waiting(pending, r) \in Nat
    BY <1>2, HeldNat
  <2>2. Says(told, r) = IF Count(queued, r) # 0 /\ HasFailed(r) THEN {Failure(r)} ELSE {}
    BY <1>2, FailuresSay, QueuedIs
  <2>3. PlaceCount(r)' = Three(Count(outbox, r), IF HasFailed(r) THEN 0 ELSE Count(queued, r), Waiting(pending, r))
    BY <1>1, <1>3 DEF PlaceCount
  <2>4. Says(told, r) \subseteq {r[1]} \cup Failings
    BY <2>2, FailureSaid
  <2> HIDE DEF told
  <2>5. CASE HasFailed(r) /\ Count(queued, r) # 0
    <3>1. PlaceCount(r)' = Three(Count(outbox, r), 0, Waiting(pending, r)) /\ Says(told, r) = {Failure(r)}
      BY <2>2, <2>3, <2>5
    <3> QED
      BY <2>1, <2>4, <2>5, <3>1, ThreeCases DEF Handled, PlaceCount
  <2>6. CASE ~HasFailed(r)
    <3>1. PlaceCount(r)' = PlaceCount(r) /\ Says(told, r) = {}
      BY <2>2, <2>3, <2>6 DEF PlaceCount
    <3> QED
      BY <2>1, <2>4, <2>6, <3>1, ThreeCases DEF Handled, PlaceCount
  <2>7. CASE Count(queued, r) = 0
    <3>1. PlaceCount(r)' = PlaceCount(r) /\ Says(told, r) = {}
      BY <2>2, <2>3, <2>7 DEF PlaceCount
    <3> QED
      BY <2>4, <3>1 DEF Handled
  <2> QED
    BY <2>5, <2>6, <2>7
<1> HIDE DEF told
<1>6. /\ UNCHANGED <<call, cancelled, halting>>
      /\ outbox' \in Seq(Requests) /\ IsFiniteSet(pending') /\ nextId' \in Nat \ {0}
      /\ closing' => cancelled
  BY <1>1, <1>2 DEF RequestsTyped
<1>7. Told(told)
  BY <1>1 DEF told
<1> QED
  BY <1>3, <1>4, <1>5, <1>6, <1>7, WorkerKeeps

\* What a request at the head of the outbox becomes.
LEMMA DrainKeeps ==
  ASSUME RequestsInv, Drain
  PROVE  RequestsInv'
<1> DEFINE h == Head(outbox)
           kept == Unexpired(queued)
           full == Len(kept) >= MaxMessages
           failed == Failures(ToSet(queued))
           refused == IF full THEN Tell({h}, "full") ELSE {}
           told == failed \cup refused
<1>1. /\ outbox # << >> /\ outbox' = Tail(outbox)
      /\ queued' = IF full THEN kept ELSE Append(kept, h)
      /\ Told(told)
      /\ UNCHANGED <<call, cancelled, halting, pending, nextId, closing, link, wire, frame>>
  BY DEF Drain, Retain
<1>2. RequestsTyped /\ NumbersTell
  BY DEF RequestsInv
<1>3. /\ kept \in Seq(Requests)
      /\ \A x : Count(kept, x) = IF HasFailed(x) THEN 0 ELSE Count(queued, x)
  BY <1>2, UnexpiredIs DEF RequestsTyped
<1>4. NumbersTell'
  BY <1>1, <1>2 DEF NumbersTell, OnTheWay
<1>5. h \in Requests /\ outbox' \in Seq(Requests) /\ Taken(outbox, outbox', h)
  BY <1>1, <1>2, TailTakes DEF RequestsTyped
<1>6. Append(kept, h) \in Seq(Requests) /\ Sent(kept, Append(kept, h), h)
  <2> HIDE DEF kept, h
  <2> QED
    BY <1>3, <1>5, AppendSends, Zenon
<1>7. \A r : Says(told, r) =
          (IF Count(queued, r) # 0 /\ HasFailed(r) THEN {Failure(r)} ELSE {})
          \cup (IF full /\ r = h THEN {"full"} ELSE {})
  <2>1. \A r : Says(failed, r) =
                 IF Count(queued, r) # 0 /\ HasFailed(r) THEN {Failure(r)} ELSE {}
    BY <1>2, FailuresSay, QueuedIs
  <2>2. \A r : Says(refused, r) = IF full /\ r = h THEN {"full"} ELSE {}
    <3> HIDE DEF h, full
    <3>1. CASE full
      BY <3>1, TellSays
    <3>2. CASE ~full
      BY <3>2, SaysNothing
    <3> QED
      BY <3>1, <3>2
  <2> HIDE DEF failed, refused, full, h
  <2>3. \A r : Says(told, r) = Says(failed, r) \cup Says(refused, r)
    BY SaysBoth
  <2> HIDE DEF told
  <2> QED
    BY <2>1, <2>2, <2>3
<1> HIDE DEF told, full, kept, h
<1>8. queued' \in Seq(Requests)
  BY <1>1, <1>3, <1>6
<1>9. ASSUME NEW r \in Requests PROVE Handled(told, r)
  <2>1. /\ Count(outbox, r) \in Nat /\ Count(queued, r) \in Nat /\ Waiting(pending, r) \in Nat
        /\ Count(outbox', r) \in Nat
    BY <1>2, <1>5, HeldNat, CountsAreNat
  <2>2. Says(told, r) \subseteq {r[1]} \cup Failings
    BY <1>7, FailureSaid DEF Failings
  <2>3. Count(outbox', r) = Count(outbox, r) - (IF h = r THEN 1 ELSE 0)
    BY <1>5 DEF Taken
  <2>4. Count(queued', r) = (IF HasFailed(r) THEN 0 ELSE Count(queued, r)) + (IF ~full /\ h = r THEN 1 ELSE 0)
    <3>1. CASE full
      BY <1>1, <1>3, <2>1, <3>1
    <3>2. CASE ~full
      <4>1. queued' = Append(kept, h)
        BY <1>1, <3>2
      <4>3. Count(Append(kept, h), r) = Count(kept, r) + (IF h = r THEN 1 ELSE 0)
        BY <1>6 DEF Sent
      <4>2. Count(queued', r) = Count(kept, r) + (IF h = r THEN 1 ELSE 0)
        BY <4>1, <4>3
      <4> QED
        BY <1>3, <3>2, <4>2
    <3> QED
      BY <3>1, <3>2
  <2>5. PlaceCount(r)' = Three(Count(outbox', r), Count(queued', r), Waiting(pending, r)) /\ Count(queued', r) \in Nat
    BY <1>1, <1>8, CountsAreNat DEF PlaceCount
  <2>6. /\ PlaceCount(r) = 0 <=> Count(outbox, r) = 0 /\ Count(queued, r) = 0 /\ Waiting(pending, r) = 0
        /\ PlaceCount(r) = 1 <=> \/ Count(outbox, r) = 1 /\ Count(queued, r) = 0 /\ Waiting(pending, r) = 0
                                 \/ Count(outbox, r) = 0 /\ Count(queued, r) = 1 /\ Waiting(pending, r) = 0
                                 \/ Count(outbox, r) = 0 /\ Count(queued, r) = 0 /\ Waiting(pending, r) = 1
    BY <2>1, ThreeCases DEF PlaceCount
  <2>7. /\ PlaceCount(r)' = 0 <=> Count(outbox', r) = 0 /\ Count(queued', r) = 0 /\ Waiting(pending, r) = 0
        /\ PlaceCount(r)' = 1 <=> \/ Count(outbox', r) = 1 /\ Count(queued', r) = 0 /\ Waiting(pending, r) = 0
                                  \/ Count(outbox', r) = 0 /\ Count(queued', r) = 1 /\ Waiting(pending, r) = 0
                                  \/ Count(outbox', r) = 0 /\ Count(queued', r) = 0 /\ Waiting(pending, r) = 1
    BY <2>1, <2>5, ThreeCases
  <2>8. CASE h # r
    <3>1. Count(outbox', r) = Count(outbox, r)
          /\ Count(queued', r) = (IF HasFailed(r) THEN 0 ELSE Count(queued, r))
          /\ Says(told, r) = (IF Count(queued, r) # 0 /\ HasFailed(r) THEN {Failure(r)} ELSE {})
      BY <1>7, <2>1, <2>3, <2>4, <2>8
    <3>2. CASE Count(queued, r) # 0 /\ HasFailed(r)
      BY <2>1, <2>2, <2>6, <2>7, <3>1, <3>2 DEF Handled
    <3>3. CASE ~(Count(queued, r) # 0 /\ HasFailed(r))
      BY <2>1, <2>2, <2>6, <2>7, <3>1, <3>3 DEF Handled
    <3> QED
      BY <3>2, <3>3
  <2>9. CASE h = r
    <3>1. Count(outbox, r) # 0 /\ Count(outbox', r) = Count(outbox, r) - 1
      BY <2>1, <2>3, <2>9
    <3>2. PlaceCount(r) # 0
      BY <2>6, <3>1
    <3>3. CASE PlaceCount(r) = 1
      <4>1. Count(outbox, r) = 1 /\ Count(queued, r) = 0 /\ Waiting(pending, r) = 0
        BY <2>6, <3>1, <3>3
      <4>2. Says(told, r) = (IF full THEN {"full"} ELSE {}) /\ Count(outbox', r) = 0
            /\ Count(queued', r) = IF full THEN 0 ELSE 1
        BY <1>7, <2>4, <2>9, <3>1, <4>1
      <4>3. CASE full
        BY <2>2, <2>7, <3>3, <4>1, <4>2, <4>3 DEF Handled
      <4>4. CASE ~full
        BY <2>2, <2>7, <3>3, <4>1, <4>2, <4>4 DEF Handled
      <4> QED
        BY <4>3, <4>4
    <3>4. CASE PlaceCount(r) # 1
      BY <2>2, <3>2, <3>4 DEF Handled
    <3> QED
      BY <3>3, <3>4
  <2> QED
    BY <2>8, <2>9
<1>10. /\ UNCHANGED <<call, cancelled, halting>> /\ IsFiniteSet(pending') /\ nextId' \in Nat \ {0}
       /\ closing' => cancelled
  BY <1>1, <1>2 DEF RequestsTyped
<1> QED
  BY <1>1, <1>4, <1>5, <1>8, <1>9, <1>10, WorkerKeeps

\* A step of the worker that neither moves a request nor answers one.
LEMMA QuietKeeps ==
  ASSUME RequestsInv,
         UNCHANGED <<call, answers, cancelled, halting, outbox, queued, pending, closing>>,
         nextId' \in Nat \ {0}, NumbersTell'
  PROVE  RequestsInv'
<1>1. RequestsTyped
  BY DEF RequestsInv
<1>0. PICK told : told = {}
  OBVIOUS
<1>2. Told(told)
  BY <1>0, <1>1, ToldNothing
<1>3. ASSUME NEW r \in Requests PROVE Handled(told, r)
  <2>1. PlaceCount(r)' = PlaceCount(r)
    BY DEF PlaceCount
  <2>2. PlaceCount(r) \in Nat
    BY <1>1, HeldNat
  <2> QED
    BY <1>0, <2>1, <2>2, SaysNothing DEF Handled
<1>4. /\ UNCHANGED <<call, cancelled, halting>>
      /\ outbox' \in Seq(Requests) /\ queued' \in Seq(Requests)
      /\ IsFiniteSet(pending') /\ (closing' => cancelled)
  BY <1>1 DEF RequestsTyped
<1> QED
  BY <1>2, <1>3, <1>4, WorkerKeeps

\* A new session starts its numbers where nothing is on the way; a frame is written.
LEMMA ConnectsKeep ==
  ASSUME RequestsInv,
         ConnectFails \/ Connect \/ Retry \/ Written
  PROVE  RequestsInv'
<1>1. NumbersTell /\ nextId \in Nat \ {0}
  BY DEF RequestsInv, RequestsTyped
<1>2. CASE ConnectFails \/ Connect \/ Retry
  <2>1. /\ UNCHANGED <<call, answers, cancelled, halting, outbox, queued, pending, closing>>
        /\ UNCHANGED <<wire, frame>> /\ link # "session"
        /\ nextId' \in {nextId, 10}
    BY <1>2 DEF ConnectFails, Connect, Retry, FirstId,
                callVars, boxVars, sessionVars
  <2>2. OnTheWay = {} /\ OnTheWay' = OnTheWay
    BY <1>1, <2>1 DEF NumbersTell, OnTheWay
  <2>3. NumbersTell'
    BY <2>2 DEF NumbersTell
  <2>4. nextId' \in Nat \ {0}
    BY <1>1, <2>1
  <2> QED
    BY <2>1, <2>3, <2>4, QuietKeeps
<1>3. CASE Written
  <2>1. /\ UNCHANGED <<call, answers, cancelled, halting, outbox, queued, pending, closing, nextId, link>>
        /\ frame # None /\ frame' = None /\ wire' = wire \cup {frame}
    BY <1>3 DEF Written, callVars, boxVars
  <2>2. OnTheWay' = OnTheWay
    BY <2>1 DEF OnTheWay, None
  <2>3. NumbersTell'
    BY <1>1, <2>1, <2>2 DEF NumbersTell
  <2> QED
    BY <1>1, <2>1, <2>3, QuietKeeps
<1> QED
  BY <1>2, <1>3

\* What is on the way in a later state was on the way.
LEMMA StillTell ==
  ASSUME NumbersTell, OnTheWay' \subseteq OnTheWay, nextId' = nextId,
         link' = link \/ OnTheWay' = {}
  PROVE  NumbersTell'
BY DEF NumbersTell

\* The worker ends; everything was cancelled before.
LEMMA EndKeeps ==
  ASSUME RequestsInv, End
  PROVE  RequestsInv'
<1>1. /\ halting /\ outbox' = << >> /\ queued' = << >> /\ link # "session"
      /\ UNCHANGED <<call, answers, cancelled, halting, pending, nextId, closing, wire, frame>>
  BY DEF End, callVars
<1>2. RequestsTyped /\ NumbersTell
  BY DEF RequestsInv
<1>3. NumbersTell'
  <2>1. OnTheWay' = {} /\ OnTheWay = {}
    BY <1>1, <1>2 DEF NumbersTell, OnTheWay
  <2> QED
    BY <1>1, <1>2, <2>1, StillTell
<1>4. cancelled
  BY <1>1, <1>2 DEF RequestsTyped
<1>0. PICK told : told = {}
  OBVIOUS
<1>5. Told(told)
  BY <1>0, <1>1, <1>2, ToldNothing
<1>6. ASSUME NEW r \in Requests PROVE Handled(told, r)
  <2>1. Count(outbox, r) \in Nat /\ Count(queued, r) \in Nat /\ Waiting(pending, r) \in Nat
    BY <1>2, HeldNat
  <2>2. PlaceCount(r)' = Three(0, 0, Waiting(pending, r))
    BY <1>1, EmptyCounts DEF PlaceCount
  <2>3. PlaceCount(r) = 0 => PlaceCount(r)' = 0
    BY <2>1, <2>2, ThreeCases DEF PlaceCount
  <2> QED
    BY <1>0, <1>4, <2>3, SaysNothing DEF Handled
<1>7. /\ outbox' \in Seq(Requests) /\ queued' \in Seq(Requests)
      /\ IsFiniteSet(pending') /\ nextId' \in Nat \ {0} /\ (closing' => cancelled)
  BY <1>1, <1>2, <1>4, EmptySeq DEF RequestsTyped
<1>8. UNCHANGED <<call, cancelled, halting>>
  BY <1>1
<1> QED
  BY <1>3, <1>5, <1>6, <1>7, <1>8, WorkerKeeps

\* Those that await an answer are told.
AwaitedRequests == {p.request : p \in pending}

\* What awaits an answer is counted.
LEMMA AwaitedIs ==
  ASSUME RequestsTyped
  PROVE  \A r : r \in AwaitedRequests <=> Waiting(pending, r) # 0
<1>1. IsFiniteSet(pending)
  BY DEF RequestsTyped
<1>2. \A r : Waiting(pending, r) = 0 <=> \A p \in pending : p.request # r
  BY <1>1, WaitingIs
<1> QED
  BY <1>2 DEF AwaitedRequests

LEMMA NobodyWaits == \A r : Waiting({}, r) = 0
BY WaitingIs, FS_EmptySet

\* In a shutdown.
LEMMA HaltKeeps ==
  ASSUME RequestsInv, Halt \/ Flushed
  PROVE  RequestsInv'
<1>1. PICK reason \in Failings : Told(Tell(AwaitedRequests, reason))
  BY DEF Halt, Flushed, Fail, AwaitedRequests, Failings
<1>0. PICK told : told = Tell(AwaitedRequests, reason)
  OBVIOUS
<1>2. /\ pending' = {} /\ UNCHANGED <<call, cancelled, halting, outbox, queued, nextId>>
      /\ OnTheWay' \subseteq OnTheWay
      /\ halting \/ closing
      /\ link' = link \/ OnTheWay' = {}
  <2>1. CASE Halt
    BY <2>1 DEF Halt, Fail, OnTheWay
  <2>2. CASE Flushed
    BY <2>2 DEF Flushed, Fail, OnTheWay, boxVars
  <2> QED
    BY <2>1, <2>2
<1>3. RequestsTyped /\ NumbersTell
  BY DEF RequestsInv
<1>4. NumbersTell' /\ cancelled
  <2>1. NumbersTell'
    BY <1>2, <1>3, StillTell
  <2>2. cancelled
    BY <1>2, <1>3 DEF RequestsTyped
  <2> QED
    BY <2>1, <2>2
<1>5. ASSUME NEW r \in Requests PROVE Handled(told, r)
  <2>1. Count(outbox, r) \in Nat /\ Count(queued, r) \in Nat /\ Waiting(pending, r) \in Nat
    BY <1>3, HeldNat
  <2>2. PlaceCount(r)' = Three(Count(outbox, r), Count(queued, r), 0)
    BY <1>2, NobodyWaits DEF PlaceCount
  <2>3. PlaceCount(r) = 0 => PlaceCount(r)' = 0
    BY <2>1, <2>2, ThreeCases DEF PlaceCount
  <2>4. Says(told, r) \subseteq {r[1]} \cup Failings
    BY <1>0, TellSays
  <2> QED
    BY <1>4, <2>3, <2>4 DEF Handled
<1>6. /\ outbox' \in Seq(Requests) /\ queued' \in Seq(Requests)
      /\ IsFiniteSet(pending') /\ nextId' \in Nat \ {0} /\ (closing' => cancelled)
  BY <1>2, <1>3, <1>4, FS_EmptySet DEF RequestsTyped
<1>7. UNCHANGED <<call, cancelled, halting>> /\ Told(told)
  BY <1>0, <1>1, <1>2
<1> QED
  BY <1>4, <1>5, <1>6, <1>7, WorkerKeeps

\* The connection breaks: what was asked and what was taken on is told so.
LEMMA BreakKeeps ==
  ASSUME RequestsInv, Break
  PROVE  RequestsInv'
<1>0. PICK told : told = Tell(Abandoned, "closed")
  OBVIOUS
<1>1. /\ Told(told) /\ pending' = {} /\ queued' = << >>
      /\ UNCHANGED <<call, cancelled, halting, outbox, nextId, closing>> /\ OnTheWay' = {}
  BY <1>0 DEF Break, boxVars, OnTheWay, None
<1>3. RequestsTyped /\ NumbersTell
  BY DEF RequestsInv
<1>4. NumbersTell'
  BY <1>1, <1>3, StillTell
<1>5. ASSUME NEW r \in Requests PROVE Handled(told, r)
  <2>1. Count(outbox, r) \in Nat /\ Count(queued, r) \in Nat /\ Waiting(pending, r) \in Nat
    BY <1>3, HeldNat
  <2>2. PlaceCount(r)' = Three(Count(outbox, r), 0, 0)
    BY <1>1, NobodyWaits, EmptyCounts DEF PlaceCount
  <2>3. r \in Abandoned <=> Waiting(pending, r) # 0 \/ Count(queued, r) # 0
    BY <1>3, AwaitedIs, QueuedIs DEF Abandoned, AwaitedRequests
  <2>4. Says(told, r) = IF Waiting(pending, r) # 0 \/ Count(queued, r) # 0 THEN {"closed"} ELSE {}
    BY <1>0, <2>3, TellSays
  <2>5. Says(told, r) \subseteq {r[1]} \cup Failings
    BY <2>4 DEF Failings
  <2>6. PlaceCount(r) = 0 => PlaceCount(r)' = 0 /\ Says(told, r) = {}
    BY <2>1, <2>2, <2>4, ThreeCases DEF PlaceCount
  <2>7. PlaceCount(r) = 1 => \/ PlaceCount(r)' = 1 /\ Says(told, r) = {}
                             \/ PlaceCount(r)' = 0 /\ Says(told, r) = {"closed"}
    BY <2>1, <2>2, <2>4, ThreeCases DEF PlaceCount
  <2> QED
    BY <2>5, <2>6, <2>7 DEF Handled
<1>6. /\ outbox' \in Seq(Requests) /\ queued' \in Seq(Requests)
      /\ IsFiniteSet(pending') /\ nextId' \in Nat \ {0} /\ (closing' => cancelled)
  BY <1>1, <1>3, FS_EmptySet, EmptySeq DEF RequestsTyped
<1>7. UNCHANGED <<call, cancelled, halting>>
  BY <1>1
<1> QED
  BY <1>1, <1>4, <1>5, <1>6, <1>7, WorkerKeeps

\* Requests that were not answered in time.
LEMMA ExpirePendingKeeps ==
  ASSUME RequestsInv, ExpirePending
  PROVE  RequestsInv'
<1>0. PICK told : told = Failures(AwaitedRequests)
  OBVIOUS
<1>1. /\ Told(told) /\ pending' = {p \in pending : ~HasFailed(p.request)}
      /\ UNCHANGED <<call, cancelled, halting, outbox, queued, nextId, closing, link, frame, wire>>
  BY <1>0 DEF ExpirePending, boxVars, AwaitedRequests
<1>3. RequestsTyped /\ NumbersTell
  BY DEF RequestsInv
<1>4. NumbersTell'
  <2>1. OnTheWay' \subseteq OnTheWay
    BY <1>1 DEF OnTheWay
  <2> QED
    BY <1>1, <1>3, <2>1, StillTell
<1>5. ASSUME NEW r \in Requests PROVE Handled(told, r)
  <2>1. Count(outbox, r) \in Nat /\ Count(queued, r) \in Nat /\ Waiting(pending, r) \in Nat
    BY <1>3, HeldNat
  <2>2. Waiting(pending', r) = IF HasFailed(r) THEN 0 ELSE Waiting(pending, r)
    <3>1. {p \in pending' : p.request = r}
          = IF HasFailed(r) THEN {} ELSE {p \in pending : p.request = r}
      BY <1>1
    <3> QED
      BY <3>1, FS_EmptySet DEF Waiting
  <2>3. PlaceCount(r)' = Three(Count(outbox, r), Count(queued, r), IF HasFailed(r) THEN 0 ELSE Waiting(pending, r))
    BY <1>1, <2>2 DEF PlaceCount
  <2>4. Says(told, r) = IF Waiting(pending, r) # 0 /\ HasFailed(r) THEN {Failure(r)} ELSE {}
    BY <1>0, <1>3, AwaitedIs, FailuresSay
  <2>5. Says(told, r) \subseteq {r[1]} \cup Failings
    BY <2>4, FailureSaid
  <2>6. CASE HasFailed(r) /\ Waiting(pending, r) # 0
    <3>1. PlaceCount(r)' = Three(Count(outbox, r), Count(queued, r), 0) /\ Says(told, r) = {Failure(r)}
      BY <2>3, <2>4, <2>6
    <3>2. PlaceCount(r) # 0 /\ (PlaceCount(r) = 1 => PlaceCount(r)' = 0)
      BY <2>1, <2>6, <3>1, ThreeCases DEF PlaceCount
    <3> QED
      BY <2>5, <3>1, <3>2 DEF Handled
  <2>7. CASE ~(HasFailed(r) /\ Waiting(pending, r) # 0)
    <3>1. PlaceCount(r)' = PlaceCount(r) /\ Says(told, r) = {}
      BY <2>3, <2>4, <2>7 DEF PlaceCount
    <3>2. PlaceCount(r) \in Nat
      BY <1>3, HeldNat
    <3> QED
      BY <2>5, <3>1, <3>2 DEF Handled
  <2> QED
    BY <2>6, <2>7
<1>6. /\ outbox' \in Seq(Requests) /\ queued' \in Seq(Requests)
      /\ IsFiniteSet(pending') /\ nextId' \in Nat \ {0} /\ (closing' => cancelled)
  <2>1. pending' \in SUBSET pending
    BY <1>1
  <2>2. IsFiniteSet(pending')
    BY <1>3, <2>1, FS_Subset DEF RequestsTyped
  <2> QED
    BY <1>1, <1>3, <2>2 DEF RequestsTyped
<1>7. UNCHANGED <<call, cancelled, halting>>
  BY <1>1
<1> QED
  BY <1>1, <1>4, <1>5, <1>6, <1>7, WorkerKeeps

(***************************************************************************)
(* The session.                                                            *)
(***************************************************************************)
\* The next request is taken from the front of the queue, or else of the outbox.
LEMMA NextTaken ==
  ASSUME RequestsTyped, Take, NEW h, h = Head(queued \o outbox)
  PROVE  /\ h \in Requests
         /\ outbox' \in Seq(Requests) /\ queued' \in Seq(Requests)
         /\ \/ queued' = queued /\ Taken(outbox, outbox', h)
            \/ outbox' = outbox /\ Taken(queued, queued', h)
<1>1. /\ queued \o outbox # << >>
      /\ queued' = IF queued = << >> THEN queued ELSE Tail(queued)
      /\ outbox' = IF queued = << >> THEN Tail(outbox) ELSE outbox
  BY DEF Take
<1>2. queued \in Seq(Requests) /\ outbox \in Seq(Requests)
  BY DEF RequestsTyped
<1>3. CASE queued = << >>
  <2>1. queued \o outbox = outbox
    BY <1>2, <1>3, ConcatEmptySeq
  <2>2. outbox # << >> /\ h = Head(outbox) /\ outbox' = Tail(outbox) /\ queued' = queued
    BY <1>1, <1>3, <2>1
  <2>3. Head(outbox) \in Requests /\ Tail(outbox) \in Seq(Requests)
        /\ Taken(outbox, Tail(outbox), Head(outbox))
    BY <1>2, <2>2, TailTakes, Zenon
  <2> QED
    BY <1>2, <2>2, <2>3
<1>4. CASE queued # << >>
  <2>1. Len(queued) \in Nat \ {0} /\ Len(outbox) \in Nat
    BY <1>2, <1>4, EmptySeq, LenProperties
  <2>2. queued \o outbox \in Seq(Requests)
        /\ \A i \in 1 .. Len(queued) + Len(outbox) : (queued \o outbox)[i] =
                     IF i <= Len(queued) THEN queued[i] ELSE outbox[i - Len(queued)]
    BY <1>2, ConcatProperties
  <2>3. (queued \o outbox)[1] = queued[1]
    <3>1. 1 \in 1 .. Len(queued) + Len(outbox) /\ 1 <= Len(queued)
      BY <2>1
    <3> QED
      BY <2>2, <3>1
  <2>4. Head(queued \o outbox) = (queued \o outbox)[1] /\ Head(queued) = queued[1]
    BY <1>1, <1>2, <1>4, <2>2
  <2>5. h = Head(queued) /\ queued' = Tail(queued) /\ outbox' = outbox
    BY <1>1, <1>4, <2>3, <2>4
  <2>6. Head(queued) \in Requests /\ Tail(queued) \in Seq(Requests)
        /\ Taken(queued, Tail(queued), Head(queued))
    BY <1>2, <1>4, TailTakes, Zenon
  <2> QED
    BY <1>2, <2>5, <2>6
<1> QED
  BY <1>3, <1>4

\* What is left in the queues.
LEMMA OneTaken ==
  ASSUME RequestsTyped, NEW h, NEW r,
         outbox' \in Seq(Requests), queued' \in Seq(Requests),
         \/ queued' = queued /\ Taken(outbox, outbox', h)
         \/ outbox' = outbox /\ Taken(queued, queued', h)
  PROVE  /\ Count(outbox, r) \in Nat /\ Count(queued, r) \in Nat /\ Waiting(pending, r) \in Nat
         /\ Count(outbox', r) \in Nat /\ Count(queued', r) \in Nat
         /\ h # r => Count(outbox', r) = Count(outbox, r) /\ Count(queued', r) = Count(queued, r)
         /\ h = r => \/ Count(outbox, r) = Count(outbox', r) + 1 /\ Count(queued', r) = Count(queued, r)
                     \/ Count(queued, r) = Count(queued', r) + 1 /\ Count(outbox', r) = Count(outbox, r)
<1>2. /\ Count(outbox, r) \in Nat /\ Count(queued, r) \in Nat /\ Waiting(pending, r) \in Nat
  BY HeldNat
<1>3. Count(outbox', r) \in Nat /\ Count(queued', r) \in Nat
  BY CountsAreNat
<1>4. CASE queued' = queued /\ Taken(outbox, outbox', h)
  <2>1. Count(outbox', r) = Count(outbox, r) - (IF h = r THEN 1 ELSE 0) /\ Count(queued', r) = Count(queued, r)
    BY <1>4 DEF Taken
  <2>2. CASE h = r
    BY <1>2, <1>3, <2>1, <2>2
  <2>3. CASE h # r
    BY <1>2, <1>3, <2>1, <2>3
  <2> QED
    BY <2>2, <2>3
<1>5. CASE outbox' = outbox /\ Taken(queued, queued', h)
  <2>1. Count(queued', r) = Count(queued, r) - (IF h = r THEN 1 ELSE 0) /\ Count(outbox', r) = Count(outbox, r)
    BY <1>5 DEF Taken
  <2>2. CASE h = r
    BY <1>2, <1>3, <2>1, <2>2
  <2>3. CASE h # r
    BY <1>2, <1>3, <2>1, <2>3
  <2> QED
    BY <2>2, <2>3
<1> QED
  BY <1>4, <1>5

\* What the next request leaves of the counts.
LEMMA NextLeaves ==
  ASSUME RequestsTyped, Take, NEW h, h = Head(queued \o outbox), NEW r
  PROVE  /\ Count(outbox, r) \in Nat /\ Count(queued, r) \in Nat /\ Waiting(pending, r) \in Nat
         /\ Count(outbox', r) \in Nat /\ Count(queued', r) \in Nat
         /\ h # r => Count(outbox', r) = Count(outbox, r) /\ Count(queued', r) = Count(queued, r)
         /\ h = r => \/ Count(outbox, r) = Count(outbox', r) + 1 /\ Count(queued', r) = Count(queued, r)
                     \/ Count(queued, r) = Count(queued', r) + 1 /\ Count(outbox', r) = Count(outbox, r)
<1>1. /\ outbox' \in Seq(Requests) /\ queued' \in Seq(Requests)
      /\ \/ queued' = queued /\ Taken(outbox, outbox', h)
         \/ outbox' = outbox /\ Taken(queued, queued', h)
  BY NextTaken
<1> QED
  BY <1>1, OneTaken, Zenon

\* In a shutdown the request is dropped.
LEMMA DroppedKeeps ==
  ASSUME RequestsInv, Take, closing
  PROVE  RequestsInv'
<1>0. PICK told : told = {}
  OBVIOUS
<1>1. PICK h : h = Head(queued \o outbox)
  OBVIOUS
<1>2. UNCHANGED <<call, answers, cancelled, halting, pending, frame, nextId, link, closing, wire>>
  BY DEF Take
<1>3. RequestsTyped /\ NumbersTell
  BY DEF RequestsInv
<1>11. \A r : /\ Count(outbox, r) \in Nat /\ Count(queued, r) \in Nat /\ Waiting(pending, r) \in Nat
              /\ Count(outbox', r) \in Nat /\ Count(queued', r) \in Nat
              /\ h # r => Count(outbox', r) = Count(outbox, r) /\ Count(queued', r) = Count(queued, r)
              /\ h = r => \/ Count(outbox, r) = Count(outbox', r) + 1 /\ Count(queued', r) = Count(queued, r)
                          \/ Count(queued, r) = Count(queued', r) + 1 /\ Count(outbox', r) = Count(outbox, r)
  BY <1>1, <1>3, NextLeaves, Zenon
<1>10. cancelled
  BY <1>3 DEF RequestsTyped
<1>4. NumbersTell'
  BY <1>2, <1>3 DEF NumbersTell, OnTheWay
<1>5. Told(told)
  BY <1>0, <1>2, <1>3, ToldNothing
<1>6. ASSUME NEW r \in Requests PROVE Handled(told, r)
  <2>1. /\ Count(outbox, r) \in Nat /\ Count(queued, r) \in Nat /\ Waiting(pending, r) \in Nat
        /\ Count(outbox', r) \in Nat /\ Count(queued', r) \in Nat
        /\ h # r => Count(outbox', r) = Count(outbox, r) /\ Count(queued', r) = Count(queued, r)
        /\ h = r => \/ Count(outbox, r) = Count(outbox', r) + 1 /\ Count(queued', r) = Count(queued, r)
                    \/ Count(queued, r) = Count(queued', r) + 1 /\ Count(outbox', r) = Count(outbox, r)
    BY <1>11
  <2>2. Count(outbox, r) = 0 /\ Count(queued, r) = 0 => Count(outbox', r) = 0 /\ Count(queued', r) = 0
    <3>1. CASE h = r
      <4>1. Count(outbox, r) # 0 \/ Count(queued, r) # 0
        BY <2>1, <3>1
      <4> QED
        BY <4>1
    <3>2. CASE h # r
      BY <2>1, <3>2
    <3> QED
      BY <3>1, <3>2
  <2>3. PlaceCount(r)' = Three(Count(outbox', r), Count(queued', r), Waiting(pending, r))
    BY <1>2 DEF PlaceCount
  <2>4. PlaceCount(r) = 0 => PlaceCount(r)' = 0
    BY <2>1, <2>2, <2>3, ThreeCases DEF PlaceCount
  <2> QED
    BY <1>0, <1>10, <2>4, SaysNothing DEF Handled
<1>7. /\ outbox' \in Seq(Requests) /\ queued' \in Seq(Requests)
  BY <1>1, <1>3, NextTaken
<1>8. /\ IsFiniteSet(pending') /\ nextId' \in Nat \ {0}
      /\ closing' => cancelled
  BY <1>2, <1>3, <1>10 DEF RequestsTyped
<1>9. UNCHANGED <<call, cancelled, halting>>
  BY <1>2
<1> QED
  BY <1>4, <1>5, <1>6, <1>7, <1>8, <1>9, WorkerKeeps

\* A new number tells a request from all others.
LEMMA NextTells ==
  ASSUME NumbersTell, nextId \in Nat \ {0}, link = "session", NEW next,
         next \in [id : Nat, request : Requests], next.id = nextId,
         nextId' = nextId + 1, link' = link, OnTheWay' \subseteq OnTheWay \cup {next}
  PROVE  NumbersTell'
<1>1. \A p \in OnTheWay : p \in [id : Nat, request : Requests] /\ 0 < p.id /\ p.id < nextId
  BY DEF NumbersTell
<1>2. \A p \in OnTheWay' : p \in OnTheWay \/ p = next
  OBVIOUS
<1>3. ASSUME NEW p \in OnTheWay'
      PROVE  /\ p \in [id : Nat, request : Requests]
             /\ 0 < p.id /\ p.id < nextId'
  <2>1. CASE p \in OnTheWay
    <3>1. p \in [id : Nat, request : Requests] /\ 0 < p.id /\ p.id < nextId
      BY <1>1, <2>1
    <3>2. p.id \in Nat
      BY <3>1
    <3> QED
      BY <3>1, <3>2
  <2>2. CASE p = next
    BY <2>2
  <2> QED
    BY <1>2, <1>3, <2>1, <2>2
<1>4. ASSUME NEW p \in OnTheWay', NEW q \in OnTheWay', p.id = q.id PROVE p = q
  <2>1. \A e \in OnTheWay : e.id # next.id
    <3>1. \A e \in OnTheWay : e.id \in Nat /\ e.id < nextId
      BY <1>1
    <3> QED
      BY <3>1
  <2>2. \A e, f \in OnTheWay : e.id = f.id => e = f
    BY DEF NumbersTell
  <2> QED
    BY <1>2, <1>4, <2>1, <2>2
<1> QED
  BY <1>3, <1>4 DEF NumbersTell

\* The next request gets a number and awaits its answer, or is refused and told so.
LEMMA TakeKeeps ==
  ASSUME RequestsInv, Take, ~closing
  PROVE  RequestsInv'
<1>1. PICK h : h = Head(queued \o outbox)
  OBVIOUS
<1>2. PICK next : next = [id |-> nextId, request |-> h]
  OBVIOUS
<1>3. PICK refused : refused = IF HasFailed(h) THEN {Failure(h)}
                     ELSE IF Cardinality(pending) >= MaxMessages THEN {"full"} ELSE {}
  OBVIOUS
<1>0. PICK told : told = {[request |-> h, what |-> w] : w \in refused}
  OBVIOUS
<1>4. /\ link = "session" /\ frame = None /\ nextId' = nextId + 1
      /\ pending' = IF refused = {} THEN pending \cup {next} ELSE pending
      /\ frame' = IF refused = {} THEN next ELSE None
      /\ Told(told)
      /\ UNCHANGED <<call, cancelled, halting, link, closing, wire>>
  BY <1>0, <1>1, <1>2, <1>3 DEF Take
<1>5. refused = {} \/ \E w \in Failings : refused = {w}
  BY <1>3, FailureSaid DEF Failings
<1>6. RequestsTyped /\ NumbersTell /\ nextId \in Nat \ {0}
  BY DEF RequestsInv, RequestsTyped
<1>7. /\ h \in Requests
      /\ outbox' \in Seq(Requests) /\ queued' \in Seq(Requests)
  BY <1>1, <1>6, NextTaken
<1>8. NumbersTell'
  <2>1. next \in [id : Nat, request : Requests] /\ next.id = nextId
    BY <1>2, <1>6, <1>7
  <2>2. OnTheWay' \subseteq OnTheWay \cup {next}
    BY <1>4 DEF OnTheWay
  <2> QED
    BY <1>4, <1>6, <2>1, <2>2, NextTells
<1>9. next \notin pending /\ next.request = h
  <2>1. next.id = nextId /\ next.request = h
    BY <1>2
  <2>2. \A p \in pending : p.id < nextId
    BY <1>6 DEF NumbersTell, OnTheWay
  <2> QED
    BY <1>6, <2>1, <2>2
<1>10. \A r : Says(told, r) = IF r = h THEN refused ELSE {}
  <2>1. CASE refused = {}
    <3>1. told = {}
      BY <1>0, <2>1
    <3> QED
      BY <2>1, <3>1, SaysNothing
  <2>2. CASE refused # {}
    <3>1. PICK w : refused = {w}
      BY <1>5, <2>2
    <3>2. told = {[request |-> h, what |-> w]}
      BY <1>0, <3>1
    <3>3. Tell({h}, w) = {[request |-> h, what |-> w]}
      BY DEF Tell
    <3>4. told = Tell({h}, w)
      BY <3>2, <3>3
    <3>5. \A r : Says(told, r) = IF r \in {h} THEN {w} ELSE {}
      BY <3>4, TellSays
    <3> QED
      BY <3>1, <3>5
  <2> QED
    BY <2>1, <2>2
<1>11. ASSUME NEW r \in Requests PROVE Handled(told, r)
  <2>1. /\ Count(outbox, r) \in Nat /\ Count(queued, r) \in Nat /\ Waiting(pending, r) \in Nat
        /\ Count(outbox', r) \in Nat /\ Count(queued', r) \in Nat
        /\ h # r => Count(outbox', r) = Count(outbox, r) /\ Count(queued', r) = Count(queued, r)
        /\ h = r => \/ Count(outbox, r) = Count(outbox', r) + 1 /\ Count(queued', r) = Count(queued, r)
                    \/ Count(queued, r) = Count(queued', r) + 1 /\ Count(outbox', r) = Count(outbox, r)
    BY <1>1, <1>6, NextLeaves, Zenon
  <2>2. IsFiniteSet(pending)
    BY <1>6 DEF RequestsTyped
  <2>3. Waiting(pending', r) = Waiting(pending, r) + (IF refused = {} /\ h = r THEN 1 ELSE 0)
    <3>1. Waiting(pending \cup {next}, r) = Waiting(pending, r) + (IF next.request = r THEN 1 ELSE 0)
      BY <1>9, <2>2, WaitingIs
    <3>2. CASE refused = {}
      BY <1>4, <1>9, <2>1, <3>1, <3>2
    <3>3. CASE refused # {}
      BY <1>4, <2>1, <3>3
    <3> QED
      BY <3>2, <3>3
  <2>4. Waiting(pending', r) \in Nat
    BY <2>1, <2>3
  <2>5. /\ PlaceCount(r) = 0 <=> Count(outbox, r) = 0 /\ Count(queued, r) = 0 /\ Waiting(pending, r) = 0
        /\ PlaceCount(r) = 1 <=> \/ Count(outbox, r) = 1 /\ Count(queued, r) = 0 /\ Waiting(pending, r) = 0
                                 \/ Count(outbox, r) = 0 /\ Count(queued, r) = 1 /\ Waiting(pending, r) = 0
                                 \/ Count(outbox, r) = 0 /\ Count(queued, r) = 0 /\ Waiting(pending, r) = 1
    BY <2>1, ThreeCases DEF PlaceCount
  <2>6. /\ PlaceCount(r)' = 0 <=> Count(outbox', r) = 0 /\ Count(queued', r) = 0 /\ Waiting(pending', r) = 0
        /\ PlaceCount(r)' = 1 <=> \/ Count(outbox', r) = 1 /\ Count(queued', r) = 0 /\ Waiting(pending', r) = 0
                                  \/ Count(outbox', r) = 0 /\ Count(queued', r) = 1 /\ Waiting(pending', r) = 0
                                  \/ Count(outbox', r) = 0 /\ Count(queued', r) = 0 /\ Waiting(pending', r) = 1
    <3>1. PlaceCount(r)' = Three(Count(outbox', r), Count(queued', r), Waiting(pending', r))
      BY DEF PlaceCount
    <3> QED
      BY <2>1, <2>4, <3>1, ThreeCases
  <2>7. Says(told, r) \subseteq {r[1]} \cup Failings
    BY <1>5, <1>10
  <2>8. CASE h # r
    <3>1. Waiting(pending', r) = Waiting(pending, r) /\ Says(told, r) = {}
      BY <1>10, <2>1, <2>3, <2>8
    <3> QED
      BY <2>1, <2>5, <2>6, <2>7, <2>8, <3>1 DEF Handled
  <2>9. CASE h = r
    <3>1. Says(told, r) = refused
      BY <1>10, <2>9
    <3>2. PlaceCount(r) # 0
      BY <2>1, <2>5, <2>9
    <3>3. PlaceCount(r) = 1 => Count(outbox', r) = 0 /\ Count(queued', r) = 0 /\ Waiting(pending, r) = 0
      BY <2>1, <2>5, <2>9
    <3>4. CASE refused = {}
      <4>1. PlaceCount(r) = 1 => PlaceCount(r)' = 1
        BY <2>3, <2>6, <2>9, <3>3, <3>4
      <4> QED
        BY <2>7, <3>1, <3>2, <3>4, <4>1 DEF Handled
    <3>5. CASE refused # {}
      <4>1. PlaceCount(r) = 1 => PlaceCount(r)' = 0
        BY <2>3, <2>6, <2>9, <3>3, <3>5
      <4>2. \E w : Says(told, r) = {w}
        BY <1>5, <3>1, <3>5
      <4> QED
        BY <2>7, <3>2, <4>1, <4>2 DEF Handled
    <3> QED
      BY <3>4, <3>5
  <2> QED
    BY <2>8, <2>9
<1>12. /\ IsFiniteSet(pending') /\ nextId' \in Nat \ {0}
       /\ closing' => cancelled
  <2>1. IsFiniteSet(pending)
    BY <1>6 DEF RequestsTyped
  <2>2. IsFiniteSet(pending \cup {next})
    BY <2>1, FS_AddElement
  <2> QED
    BY <1>4, <1>6, <2>1, <2>2 DEF RequestsTyped
<1>13. UNCHANGED <<call, cancelled, halting>>
  BY <1>4
<1> QED
  BY <1>4, <1>7, <1>8, <1>11, <1>12, <1>13, WorkerKeeps

\* An answer finds the request it answers, or none.
LEMMA AnsweredKeeps ==
  ASSUME RequestsInv, Answered
  PROVE  RequestsInv'
<1>1. PICK w \in wire :
        /\ wire' = wire \ {w}
        /\ pending' = pending \ Matching(w.id)
        /\ Told({[request |-> p.request, what |-> w.request[1]] : p \in Matching(w.id)})
  BY DEF Answered
<1>2. UNCHANGED <<call, cancelled, halting, outbox, queued, nextId, closing, link, frame>>
  BY DEF Answered, boxVars
<1>3. RequestsTyped /\ NumbersTell
  BY DEF RequestsInv
<1>4. Matching(w.id) = IF w \in pending THEN {w} ELSE {}
  <2>1. \A p \in pending : p.id = w.id => p = w
    BY <1>3 DEF NumbersTell, OnTheWay
  <2> QED
    BY <2>1 DEF Matching
<1>5. w.request \in Requests
  BY <1>3 DEF NumbersTell, OnTheWay
<1>6. NumbersTell'
  <2>1. OnTheWay' \subseteq OnTheWay
    BY <1>1, <1>2 DEF OnTheWay
  <2> QED
    BY <1>2, <1>3, <2>1, StillTell
<1>7. IsFiniteSet(pending)
  BY <1>3 DEF RequestsTyped
<1>8. IsFiniteSet(pending')
  <2>1. pending' \in SUBSET pending
    BY <1>1
  <2> QED
    BY <1>7, <2>1, FS_Subset
<1>9. /\ outbox' \in Seq(Requests) /\ queued' \in Seq(Requests)
      /\ nextId' \in Nat \ {0}
      /\ closing' => cancelled
  BY <1>2, <1>3 DEF RequestsTyped
<1>10. UNCHANGED <<call, cancelled, halting>>
  BY <1>2
<1>11. PICK told : told = {[request |-> p.request, what |-> w.request[1]] : p \in Matching(w.id)}
  OBVIOUS
<1>12. Told(told)
  BY <1>1, <1>11
<1>13. CASE w \notin pending
  <2>1. told = {} /\ pending' = pending
    BY <1>1, <1>4, <1>11, <1>13
  <2>2. ASSUME NEW r \in Requests PROVE Handled(told, r)
    <3>1. PlaceCount(r)' = PlaceCount(r)
      BY <1>2, <2>1 DEF PlaceCount
    <3>2. PlaceCount(r) \in Nat /\ Says(told, r) = {}
      BY <1>3, <2>1, HeldNat, SaysNothing
    <3> QED
      BY <3>1, <3>2 DEF Handled
  <2> QED
    BY <1>6, <1>8, <1>9, <1>10, <1>12, <2>2, WorkerKeeps
<1>14. CASE w \in pending
  <2>1. pending' = pending \ {w}
    BY <1>1, <1>4, <1>14
  <2>2. PICK h : h = w.request
    OBVIOUS
  <2>3. told = Tell({h}, h[1])
    <3>1. told = {[request |-> h, what |-> h[1]]}
      BY <1>4, <1>11, <1>14, <2>2
    <3>2. Tell({h}, h[1]) = {[request |-> h, what |-> h[1]]}
      BY DEF Tell
    <3> QED
      BY <3>1, <3>2
  <2>4. \A r : Says(told, r) = IF r = h THEN {h[1]} ELSE {}
    <3>1. \A r : Says(told, r) = IF r \in {h} THEN {h[1]} ELSE {}
      BY <2>3, TellSays
    <3> QED
      BY <3>1
  <2>5. ASSUME NEW r \in Requests PROVE Handled(told, r)
    <3>1. Count(outbox, r) \in Nat /\ Count(queued, r) \in Nat /\ Waiting(pending, r) \in Nat
      BY <1>3, HeldNat
    <3>2. Waiting(pending', r) = Waiting(pending, r) - (IF h = r THEN 1 ELSE 0)
          /\ Waiting(pending', r) \in Nat
      <4>1. Waiting(pending \ {w}, r) = Waiting(pending, r) - (IF w.request = r THEN 1 ELSE 0)
        BY <1>7, <1>14, WaitingIs
      <4>2. Waiting(pending', r) \in Nat
        BY <1>8, WaitingIs
      <4> QED
        BY <2>1, <2>2, <4>1, <4>2
    <3>3. Says(told, r) \subseteq {r[1]} \cup Failings
      BY <2>4
    <3>4. PlaceCount(r)' = Three(Count(outbox, r), Count(queued, r), Waiting(pending', r))
      BY <1>2 DEF PlaceCount
    <3>5. CASE h = r
      <4>1. Waiting(pending, r) = Waiting(pending', r) + 1
        BY <3>1, <3>2, <3>5
      <4>2. PlaceCount(r) # 0 /\ (PlaceCount(r) = 1 => PlaceCount(r)' = 0)
        BY <3>1, <3>2, <3>4, <4>1, ThreeCases DEF PlaceCount
      <4>3. Says(told, r) = {h[1]}
        BY <2>4, <3>5
      <4> QED
        BY <3>3, <4>2, <4>3 DEF Handled
    <3>6. CASE h # r
      <4>1. Waiting(pending', r) = Waiting(pending, r) /\ Says(told, r) = {}
        BY <2>4, <3>1, <3>2, <3>6
      <4>2. PlaceCount(r)' = PlaceCount(r) /\ PlaceCount(r) \in Nat
        BY <1>3, <3>4, <4>1, HeldNat DEF PlaceCount
      <4> QED
        BY <3>3, <4>1, <4>2 DEF Handled
    <3> QED
      BY <3>5, <3>6
  <2> QED
    BY <1>6, <1>8, <1>9, <1>10, <1>12, <2>5, WorkerKeeps
<1> QED
  BY <1>13, <1>14

-----------------------------------------------------------------------------
(***************************************************************************)
(* The callers.                                                            *)
(***************************************************************************)
\* A request that was nowhere is made, or refused at once.
LEMMA SendKeeps ==
  ASSUME RequestsInv, NEW c \in Callers, NEW a \in {1, 2},
         Unmade(c, a),
         a = 1 => call[c].state = "idle",
         Send(c, a),
         UNCHANGED <<late, cancelled, closed, link, sessions, queued, pending, frame, nextId,
                     wire, halting, closing>>
  PROVE  RequestsInv'
<1>1. /\ RequestsTyped /\ NumbersTell /\ UnmadeNowhere /\ NobodyForgotten /\ AnswersFit
  BY DEF RequestsInv
<1>2. PICK refused \in {"stopped", "stopping", "full", "waits"} :
        /\ call' = [call EXCEPT ![c] = [attempt |-> a, state |-> refused]]
        /\ outbox' = IF refused = "waits" THEN Append(outbox, <<c, a>>) ELSE outbox
        /\ answers' = [answers EXCEPT ![c] = <<>>]
  BY DEF Send
<1>3. <<c, a>> \in Requests
  BY DEF Requests
<1>4. outbox' \in Seq(Requests)
      /\ \A r : Count(outbox', r) = Count(outbox, r) + (IF refused = "waits" /\ r = <<c, a>> THEN 1 ELSE 0)
  <2>1. outbox \in Seq(Requests)
    BY <1>1 DEF RequestsTyped
  <2>2. PICK e : e = <<c, a>>
    OBVIOUS
  <2>3. e \in Requests
    BY <1>3, <2>2
  <2>4. Append(outbox, e) \in Seq(Requests) /\ Sent(outbox, Append(outbox, e), e)
    BY <2>1, <2>3, AppendSends
  <2>5. \A r : Count(outbox, r) \in Nat
    BY <2>1, CountsAreNat
  <2>6. CASE refused = "waits"
    <3>1. outbox' = Append(outbox, e)
      BY <1>2, <2>2, <2>6
    <3>2. \A r : Count(outbox', r) = Count(outbox, r) + (IF e = r THEN 1 ELSE 0)
      BY <2>4, <3>1 DEF Sent
    <3> QED
      BY <2>2, <2>4, <2>6, <3>1, <3>2
  <2>7. CASE refused # "waits"
    BY <1>2, <2>1, <2>5, <2>7
  <2> QED
    BY <2>6, <2>7
<1>5. /\ call' \in [Callers -> [attempt : {1, 2}, state : {"idle", "waits"} \cup CallOutcomes]]
      /\ answers' \in [Callers -> Seq(CallOutcomes)]
      /\ call'[c] = [attempt |-> a, state |-> refused] /\ answers'[c] = << >>
      /\ \A d \in Callers \ {c} : call'[d] = call[d] /\ answers'[d] = answers[d]
  <2>1. << >> \in Seq(CallOutcomes)
    BY EmptySeq
  <2>2. [attempt |-> a, state |-> refused] \in [attempt : {1, 2}, state : {"idle", "waits"} \cup CallOutcomes]
    BY <1>2 DEF CallOutcomes
  <2> QED
    BY <1>1, <1>2, <2>1, <2>2 DEF RequestsTyped
<1>6. RequestsTyped'
  BY <1>1, <1>4, <1>5 DEF RequestsTyped
<1>7. NumbersTell'
  BY <1>1 DEF NumbersTell, OnTheWay
<1>8. ASSUME NEW r \in Requests
      PROVE  /\ r # <<c, a>> => PlaceCount(r)' = PlaceCount(r)
             /\ r = <<c, a>> => PlaceCount(r)' = IF refused = "waits" THEN 1 ELSE 0
  <2>1. Count(outbox, r) \in Nat /\ Count(queued, r) \in Nat /\ Waiting(pending, r) \in Nat
    BY <1>1, HeldNat
  <2>2. PlaceCount(r)' = Three(Count(outbox', r), Count(queued, r), Waiting(pending, r))
    BY DEF PlaceCount
  <2>3. CASE r # <<c, a>>
    <3>1. Count(outbox', r) = Count(outbox, r)
      BY <1>4, <2>1, <2>3
    <3> QED
      BY <2>2, <2>3, <3>1 DEF PlaceCount
  <2>4. CASE r = <<c, a>>
    <3>1. PlaceCount(r) = 0
      BY <1>1, <2>4, HeldIs DEF UnmadeNowhere
    <3>2. Count(outbox, r) = 0 /\ Count(queued, r) = 0 /\ Waiting(pending, r) = 0
      BY <2>1, <3>1, ThreeCases DEF PlaceCount
    <3>3. Count(outbox', r) = IF refused = "waits" THEN 1 ELSE 0
      BY <1>4, <2>4, <3>2
    <3>4. Three(0, 0, 0) = 0 /\ Three(1, 0, 0) = 1
      BY DEF Three
    <3> QED
      BY <2>2, <2>4, <3>2, <3>3, <3>4
  <2> QED
    BY <2>3, <2>4
<1>9. UnmadeNowhere'
  <2>1. ASSUME NEW d \in Callers, NEW b \in {1, 2}, Unmade(d, b)' PROVE Held(<<d, b>>)' = 0
    <3>1. <<d, b>> # <<c, a>> /\ Unmade(d, b)
      <4>1. CASE d = c
        <5>1. call'[c].state = refused /\ call'[c].attempt = a
          BY <1>5
        <5>2. a < b
          BY <1>2, <2>1, <4>1, <5>1 DEF Unmade
        <5>3. a = 1 /\ b = 2
          BY <2>1, <5>2
        <5>4. Unmade(c, 2)
          BY <5>3 DEF Unmade
        <5> QED
          BY <4>1, <5>3, <5>4
      <4>2. CASE d # c
        BY <1>5, <2>1, <4>2 DEF Unmade
      <4> QED
        BY <4>1, <4>2
    <3>2. PlaceCount(<<d, b>>) = 0
      BY <1>1, <2>1, <3>1, HeldIs DEF UnmadeNowhere
    <3>3. <<d, b>> \in Requests
      BY <2>1 DEF Requests
    <3>4. PICK r : r = <<d, b>>
      OBVIOUS
    <3>5. PlaceCount(r)' = PlaceCount(r)
      BY <1>8, <3>1, <3>3, <3>4
    <3>6. Held(r)' = 0
      BY <3>2, <3>4, <3>5, HeldIs
    <3> QED
      BY <3>4, <3>6
  <2> QED
    BY <2>1 DEF UnmadeNowhere
<1>10. NobodyForgotten'
  <2>1. ASSUME NEW d \in Callers, call'[d].state = "waits", ~cancelled
        PROVE  Held(Current(d))' + Len(answers'[d]) = 1
    <3>1. PICK r : r = <<d, call'[d].attempt>>
      OBVIOUS
    <3>2. Held(Current(d))' = PlaceCount(r)'
      <4>1. Current(d)' = r
        BY <3>1 DEF Current
      <4>2. Held(Current(d))' = Held(r)'
        BY <4>1 DEF Held, Count
      <4> QED
        BY <4>2, HeldIs
    <3>3. call'[d].attempt \in {1, 2}
      BY <1>5, <2>1
    <3>4. r \in Requests
      BY <2>1, <3>1, <3>3 DEF Requests
    <3>5. CASE d = c
      <4>1. refused = "waits" /\ r = <<c, a>> /\ answers'[d] = << >>
        BY <1>5, <2>1, <3>1, <3>5
      <4>2. PlaceCount(r)' = 1
        BY <1>8, <3>4, <4>1
      <4>3. Len(answers'[d]) = 0
        BY <4>1, EmptySeq
      <4> QED
        BY <3>2, <4>2, <4>3
    <3>6. CASE d # c
      <4>1. call'[d] = call[d] /\ answers'[d] = answers[d] /\ r # <<c, a>>
        BY <1>5, <2>1, <3>1, <3>6
      <4>2. Current(d) = r
        BY <3>1, <4>1 DEF Current
      <4>3. Held(r) + Len(answers[d]) = 1
        BY <1>1, <2>1, <4>1, <4>2 DEF NobodyForgotten
      <4>4. PlaceCount(r)' = PlaceCount(r)
        BY <1>8, <3>4, <4>1
      <4> QED
        BY <3>2, <4>1, <4>3, <4>4, HeldIs
    <3> QED
      BY <3>5, <3>6
  <2> QED
    BY <2>1 DEF NobodyForgotten
<1>11. AnswersFit'
  <2>1. ASSUME NEW d \in Callers
        PROVE  Callers \cap (ToSet(answers'[d]) \cup {call'[d].state}) \subseteq {d}
    <3>1. CASE d = c
      <4>1. ToSet(answers'[d]) = {} /\ call'[d].state = refused
        BY <1>5, <3>1 DEF ToSet
      <4>2. refused \notin Callers
        BY <1>2, RequestsAssumption
      <4> QED
        BY <4>1, <4>2
    <3>2. CASE d # c
      <4>1. Callers \cap (ToSet(answers[d]) \cup {call[d].state}) \subseteq {d}
        BY <1>1, <2>1 DEF AnswersFit
      <4>2. answers'[d] = answers[d] /\ call'[d] = call[d]
        BY <1>5, <2>1, <3>2
      <4> QED
        BY <4>1, <4>2
    <3> QED
      BY <3>1, <3>2
  <2> QED
    BY <2>1 DEF AnswersFit
<1> QED
  BY <1>6, <1>7, <1>9, <1>10, <1>11 DEF RequestsInv

\* A caller ends with an outcome, of its own or of nobody.
LEMMA EndsKeep ==
  ASSUME RequestsInv, NEW c \in Callers, NEW w \in CallOutcomes,
         w \in ToSet(answers[c]) \cup Failings, call[c].state = "waits",
         call' = [call EXCEPT ![c].state = w],
         UNCHANGED <<answers, late, cancelled, closed, outbox, link, sessions, queued, pending, frame, nextId,
                     wire, halting, closing>>
  PROVE  RequestsInv'
<1>1. /\ RequestsTyped /\ NumbersTell /\ UnmadeNowhere /\ NobodyForgotten /\ AnswersFit
  BY DEF RequestsInv
<1>2. /\ call' \in [Callers -> [attempt : {1, 2}, state : {"idle", "waits"} \cup CallOutcomes]]
      /\ call'[c].state = w /\ call'[c].attempt = call[c].attempt
      /\ \A d \in Callers \ {c} : call'[d] = call[d]
  BY <1>1 DEF RequestsTyped
<1>3. RequestsTyped'
  BY <1>1, <1>2 DEF RequestsTyped
<1>4. NumbersTell'
  BY <1>1 DEF NumbersTell, OnTheWay
<1>5. w \notin {"idle", "waits"}
  BY RequestsAssumption DEF CallOutcomes
<1>6. \A r : Held(r)' = Held(r)
  <2>1. \A r : PlaceCount(r)' = PlaceCount(r)
    BY DEF PlaceCount
  <2> QED
    BY <2>1, HeldIs
<1>7. UnmadeNowhere'
  <2>1. ASSUME NEW d \in Callers, NEW b \in {1, 2}, Unmade(d, b)' PROVE Held(<<d, b>>)' = 0
    <3>1. Unmade(d, b)
      <4>1. CASE d = c
        BY <1>2, <1>5, <2>1, <4>1 DEF Unmade
      <4>2. CASE d # c
        BY <1>2, <2>1, <4>2 DEF Unmade
      <4> QED
        BY <4>1, <4>2
    <3> QED
      BY <1>1, <1>6, <2>1, <3>1 DEF UnmadeNowhere
  <2> QED
    BY <2>1 DEF UnmadeNowhere
<1>8. NobodyForgotten'
  <2>1. ASSUME NEW d \in Callers, call'[d].state = "waits", ~cancelled
        PROVE  Held(Current(d))' + Len(answers'[d]) = 1
    <3>1. d # c
      BY <1>2, <1>5, <2>1
    <3>2. call'[d] = call[d]
      BY <1>2, <2>1, <3>1
    <3>3. PICK r : r = Current(d)
      OBVIOUS
    <3>4. Held(Current(d))' = Held(r)'
      <4>1. Current(d)' = r
        BY <3>2, <3>3 DEF Current
      <4> QED
        BY <4>1 DEF Held, Count
    <3>5. Held(r) + Len(answers[d]) = 1
      BY <1>1, <2>1, <3>2, <3>3 DEF NobodyForgotten
    <3> QED
      BY <1>6, <3>4, <3>5
  <2> QED
    BY <2>1 DEF NobodyForgotten
<1>9. AnswersFit'
  <2>1. ASSUME NEW d \in Callers
        PROVE  Callers \cap (ToSet(answers[d]) \cup {call'[d].state}) \subseteq {d}
    <3>1. Callers \cap (ToSet(answers[d]) \cup {call[d].state}) \subseteq {d}
      BY <1>1, <2>1 DEF AnswersFit
    <3>2. CASE d = c
      <4>1. Callers \cap Failings = {}
        BY RequestsAssumption DEF Failings
      <4> QED
        BY <1>2, <3>1, <3>2, <4>1
    <3>3. CASE d # c
      BY <1>2, <2>1, <3>1, <3>3
    <3> QED
      BY <3>2, <3>3
  <2> QED
    BY <2>1 DEF AnswersFit
<1> QED
  BY <1>3, <1>4, <1>7, <1>8, <1>9 DEF RequestsInv

\* A caller asks, hears, gives up or is late.
LEMMA CallersKeep ==
  ASSUME RequestsInv, CallerStep
  PROVE  RequestsInv'
<1>1. PICK c \in Callers : Ask(c) \/ Hear(c) \/ GiveUp(c) \/ Deadline(c)
  BY DEF CallerStep
<1>2. RequestsTyped /\ NumbersTell
  BY DEF RequestsInv
<1>3. call[c].attempt \in {1, 2} /\ answers[c] \in Seq(CallOutcomes)
  BY <1>2, CurrentIs
<1>4. CASE Ask(c)
  <2>1. Send(c, 1) /\ call[c].state = "idle"
        /\ UNCHANGED <<late, cancelled, closed, link, sessions, queued, pending, frame, nextId,
                       wire, halting, closing>>
    BY <1>4 DEF Ask, sessionVars
  <2>2. Unmade(c, 1)
    BY <2>1 DEF Unmade
  <2> QED
    BY <2>1, <2>2, SendKeeps
<1>5. CASE Hear(c)
  <2>1. /\ call[c].state = "waits" /\ answers[c] # << >>
        /\ UNCHANGED <<late, cancelled, closed, link, sessions, queued, pending, frame, nextId,
                       wire, halting, closing>>
        /\ \/ call[c].attempt = 1 /\ Send(c, 2)
           \/ /\ call' = [call EXCEPT ![c].state = Head(answers[c])]
              /\ UNCHANGED <<answers, outbox>>
    BY <1>5 DEF Hear, sessionVars
  <2>2. CASE call[c].attempt = 1 /\ Send(c, 2)
    <3>1. Unmade(c, 2)
      BY <2>2 DEF Unmade
    <3> QED
      BY <2>1, <2>2, <3>1, SendKeeps
  <2>3. CASE call' = [call EXCEPT ![c].state = Head(answers[c])] /\ UNCHANGED <<answers, outbox>>
    <3>1. PICK w : w = Head(answers[c])
      OBVIOUS
    <3>2. w \in CallOutcomes /\ w \in ToSet(answers[c])
      <4>1. Len(answers[c]) \in Nat \ {0} /\ DOMAIN answers[c] = 1..Len(answers[c])
        BY <1>3, <2>1, EmptySeq, LenProperties
      <4>2. Head(answers[c]) = answers[c][1] /\ Head(answers[c]) \in CallOutcomes
        BY <1>3, <2>1, HeadTailProperties
      <4> QED
        BY <3>1, <4>1, <4>2 DEF ToSet
    <3>3. call' = [call EXCEPT ![c].state = w]
      BY <2>3, <3>1
    <3> QED
      BY <2>1, <2>3, <3>2, <3>3, EndsKeep
  <2> QED
    BY <2>1, <2>2, <2>3
<1>6. CASE GiveUp(c)
  <2>1. /\ call[c].state = "waits"
        /\ UNCHANGED <<answers, late, cancelled, closed, outbox, link, sessions, queued, pending, frame,
                       nextId, wire, halting, closing>>
        /\ \/ call' = [call EXCEPT ![c].state = Failure(Current(c))]
           \/ call' = [call EXCEPT ![c].state = "stopped"]
    BY <1>6 DEF GiveUp, sessionVars, boxVars
  <2>2. PICK w \in Failings : call' = [call EXCEPT ![c].state = w]
    BY <2>1, FailureSaid DEF Failings
  <2>3. w \in CallOutcomes
    BY <2>2 DEF Failings, CallOutcomes
  <2> QED
    BY <2>1, <2>2, <2>3, EndsKeep
<1>7. CASE Deadline(c)
  <2>1. UNCHANGED <<call, answers, cancelled, halting, outbox, queued, pending, closing, nextId, link,
                    frame, wire>>
    BY <1>7 DEF Deadline, sessionVars, boxVars
  <2>2. NumbersTell' /\ nextId' \in Nat \ {0}
    BY <1>2, <2>1 DEF NumbersTell, OnTheWay, RequestsTyped
  <2> QED
    BY <2>1, <2>2, QuietKeeps
<1> QED
  BY <1>1, <1>4, <1>5, <1>6, <1>7

\* From here on nothing is promised to those who wait.
LEMMA StopKeeps ==
  ASSUME RequestsInv, Quiesce \/ Finish
  PROVE  RequestsInv'
<1>1. /\ UNCHANGED <<call, answers, outbox, queued, pending, closing, nextId, link, frame, wire>>
      /\ cancelled'
  BY DEF Quiesce, Finish, callVars, sessionVars
<1>2. RequestsTyped /\ NumbersTell /\ UnmadeNowhere /\ AnswersFit
  BY DEF RequestsInv
<1>3. RequestsTyped'
  BY <1>1, <1>2 DEF RequestsTyped
<1>4. NumbersTell'
  BY <1>1, <1>2 DEF NumbersTell, OnTheWay
<1>5. UnmadeNowhere'
  <2>1. \A r : Held(r)' = Held(r)
    BY <1>1 DEF Held, Count
  <2>2. \A c \in Callers, a \in {1, 2} : Unmade(c, a)' <=> Unmade(c, a)
    BY <1>1 DEF Unmade
  <2> QED
    BY <1>2, <2>1, <2>2 DEF UnmadeNowhere
<1>6. NobodyForgotten'
  BY <1>1 DEF NobodyForgotten
<1>7. AnswersFit'
  BY <1>1, <1>2 DEF AnswersFit, ToSet
<1> QED
  BY <1>3, <1>4, <1>5, <1>6, <1>7 DEF RequestsInv

LEMMA RequestsKept ==
  ASSUME RequestsInv, RequestsNext
  PROVE  RequestsInv'
<1>1. CASE Take
  BY <1>1, TakeKeeps, DroppedKeeps
<1> QED
  BY <1>1, CallersKeep, StopKeeps, DrainKeeps, ConnectsKeep, ExpireKeeps, EndKeeps, HaltKeeps,
     ExpirePendingKeeps, AnsweredKeeps, BreakKeeps
     DEF RequestsNext, WorkerStep

\* The invariant is unaffected by the steps of the other part.
LEMMA RequestsStill ==
  ASSUME RequestsInv, UNCHANGED requestVars
  PROVE  RequestsInv'
<1>1. UNCHANGED <<call, answers, cancelled, halting, outbox, queued, pending, closing, nextId, link,
                  frame, wire>>
  BY DEF requestVars, callVars, boxVars, sessionVars
<1>2. NumbersTell' /\ nextId' \in Nat \ {0}
  BY <1>1 DEF RequestsInv, NumbersTell, OnTheWay, RequestsTyped
<1> QED
  BY <1>1, <1>2, QuietKeeps

LEMMA RequestsStart == RequestsInit => RequestsInv
<1> SUFFICES ASSUME RequestsInit PROVE RequestsInv
  OBVIOUS
<1>1. /\ call = [c \in Callers |-> [attempt |-> 1, state |-> "idle"]]
      /\ answers = [c \in Callers |-> <<>>]
      /\ cancelled = FALSE /\ outbox = << >> /\ queued = << >> /\ pending = {} /\ wire = {}
      /\ frame = None /\ nextId = 10 /\ halting = FALSE /\ closing = FALSE
  BY DEF RequestsInit, FirstId
<1>2. << >> \in Seq(CallOutcomes) /\ << >> \in Seq(Requests) /\ IsFiniteSet({})
  BY EmptySeq, FS_EmptySet
<1>3. RequestsTyped
  <2>1. answers \in [Callers -> Seq(CallOutcomes)]
    BY <1>1, <1>2
  <2>2. call \in [Callers -> [attempt : {1, 2}, state : {"idle", "waits"} \cup CallOutcomes]]
    BY <1>1
  <2> QED
    BY <1>1, <1>2, <2>1, <2>2 DEF RequestsTyped
<1>4. NumbersTell
  <2>1. OnTheWay = {}
    BY <1>1 DEF OnTheWay
  <2> QED
    BY <2>1 DEF NumbersTell
<1>5. \A r : Held(r) = 0
  <2>1. \A r : PlaceCount(r) = Three(0, 0, 0)
    BY <1>1, EmptyCounts, NobodyWaits DEF PlaceCount
  <2>2. Three(0, 0, 0) = 0
    BY DEF Three
  <2> QED
    BY <2>1, <2>2, HeldIs
<1>6. UnmadeNowhere
  BY <1>5 DEF UnmadeNowhere
<1>7. \A c \in Callers : call[c].state = "idle" /\ answers[c] = << >>
  BY <1>1
<1>8. NobodyForgotten
  BY <1>7 DEF NobodyForgotten
<1>9. AnswersFit
  <2>1. "idle" \notin Callers
    BY RequestsAssumption
  <2> QED
    BY <1>7, <2>1 DEF AnswersFit, ToSet
<1> QED
  BY <1>3, <1>4, <1>6, <1>8, <1>9 DEF RequestsInv

-----------------------------------------------------------------------------
(***************************************************************************)
(* Both.                                                                   *)
(***************************************************************************)
LEMMA CallsStart == RequestsInit /\ DiagnosticsInit => CallsInv
BY RequestsStart, KeptStart DEF CallsInv

LEMMA CallsStep ==
  CallsInv /\ [RequestsNext]_requestVars /\ [DiagnosticsNext]_diagnosticVars => CallsInv'
<1> SUFFICES ASSUME CallsInv, [RequestsNext]_requestVars, [DiagnosticsNext]_diagnosticVars
             PROVE  CallsInv'
  OBVIOUS
<1>1. RequestsInv'
  BY RequestsKept, RequestsStill DEF CallsInv
<1>2. DiagnosticsInv'
  BY DiagnosticsKept, DiagnosticsStill DEF CallsInv
<1> QED
  BY <1>1, <1>2 DEF CallsInv

\* A request that is waited for and not cancelled is in one place of the connection or
\* answered, once, and the answer is its own; one sample of a watch awaits its client, and a
\* watch without a client is about to be cancelled: for any number of callers, clients,
\* connections and mishaps (daemon.rs, daemon/outbox.rs, runtime/diagnostics.rs,
\* wfcli_companion_diagnostics).  Either part may move while the other does not.
THEOREM CallsAlwaysAnswered == RequestsSpec /\ DiagnosticsSpec => []CallsAnswered
<1>1. CallsInv => CallsAnswered
  BY WatchesKept DEF CallsInv, RequestsInv, CallsAnswered
<1> QED
  BY CallsStart, CallsStep, <1>1, PTL DEF RequestsSpec, DiagnosticsSpec

-----------------------------------------------------------------------------
(***************************************************************************)
(* The observer.                                                           *)
(***************************************************************************)
Marks == Records \cup {"Stopped"}
MarkedBy(gen) == [type : Marks, gen : {gen}]

(***************************************************************************)
(* The inductive invariant.  Whatever waits is of the session that is      *)
(* held: a collector that runs, and a reader that has not seen the end,    *)
(* were started in it.  The coordinator has heard of no other session,     *)
(* until the observer ends.                                                *)
(***************************************************************************)
ObserverInv ==
  /\ played \in [now : Nat, count : Nat] /\ streams \in Nat
  /\ session \in [gen : Nat, game : Nat, retired : BOOLEAN]
  /\ bridge \in [Collectors -> {0, session.gen}]
  /\ runs \in [Collectors -> BOOLEAN] /\ reads \in BOOLEAN
  /\ mailbox \in Seq(MarkedBy(session.gen))
  /\ decoded \in [Decoded -> {0, session.gen}]
  /\ \A c \in Collectors : runs[c] => bridge[c] # 0
  /\ reads => bridge["debug"] # 0
  /\ ReportIsTrue
  /\ observing # "ended" => heard \in {0, session.gen}
  /\ relic.type \in Records => heard = relic.gen

LEMMA ObserverStart == ObserverInit => ObserverInv
<1> SUFFICES ASSUME ObserverInit PROVE ObserverInv
  OBVIOUS
<1>1. /\ played \in {[now |-> 0, count |-> 0], [now |-> 1, count |-> 1]} /\ streams = 0
      /\ session = [gen |-> 0, game |-> 0, retired |-> FALSE]
      /\ bridge = [c \in Collectors |-> 0]
      /\ runs = [c \in Collectors |-> FALSE] /\ reads = FALSE
      /\ mailbox = << >> /\ decoded = [c \in Decoded |-> 0]
      /\ relic = [type |-> "none", gen |-> 0] /\ heard = 0 /\ observing = "scan"
  BY DEF ObserverInit, NoSession
<1>2. << >> \in Seq(MarkedBy(session.gen))
  BY EmptySeq
<1>3. relic.type \notin Records
  BY <1>1 DEF Records
<1>4. ReportIsTrue
  BY <1>1 DEF ReportIsTrue
<1>5. /\ played \in [now : Nat, count : Nat] /\ streams \in Nat
      /\ session \in [gen : Nat, game : Nat, retired : BOOLEAN]
  BY <1>1
<1>6. /\ bridge \in [Collectors -> {0, session.gen}]
      /\ runs \in [Collectors -> BOOLEAN]
      /\ decoded \in [Decoded -> {0, session.gen}]
      /\ \A c \in Collectors : runs[c] => bridge[c] # 0
  BY <1>1
<1>7. mailbox \in Seq(MarkedBy(session.gen))
  BY <1>1, <1>2
<1>8. /\ reads \in BOOLEAN /\ (reads => bridge["debug"] # 0)
      /\ (observing # "ended" => heard \in {0, session.gen})
      /\ (relic.type \in Records => heard = relic.gen)
  BY <1>1, <1>3
<1> QED
  BY <1>4, <1>5, <1>6, <1>7, <1>8 DEF ObserverInv

\* A record is posted, if need be in place of the oldest.
LEMMA PostedIs ==
  ASSUME NEW S, NEW box \in Seq(S), NEW r \in S
  PROVE  Posted(box, r) \in Seq(S)
<1>1. CASE Len(box) < DebugItems
  <2>1. Posted(box, r) = Append(box, r)
    BY <1>1 DEF Posted
  <2> QED
    BY <2>1, AppendProperties
<1>2. CASE ~(Len(box) < DebugItems)
  <2>1. DebugItems \in Nat \ {0} /\ Len(box) \in Nat
    BY ObserverAssumption, LenProperties
  <2>2. box # << >>
    BY <1>2, <2>1, EmptySeq
  <2>3. Tail(box) \in Seq(S)
    BY <2>2, HeadTailProperties
  <2>4. Posted(box, r) = Append(Tail(box), r)
    BY <1>2 DEF Posted
  <2> QED
    BY <2>3, <2>4, AppendProperties
<1> QED
  BY <1>1, <1>2

\* What a collector says that is dropped, and the end of input, are of the session too.
LEMMA StoppedIs ==
  ASSUME ObserverInv, reads
  PROVE  Record("Stopped", bridge["debug"]) \in MarkedBy(session.gen)
<1>1. bridge["debug"] = session.gen
  BY DEF ObserverInv, Collectors
<1> QED
  BY <1>1 DEF Record, MarkedBy, Marks

LEMMA FarewellIs ==
  ASSUME ObserverInv, NEW box \in Seq(MarkedBy(session.gen))
  PROVE  Farewell(box) \in Seq(MarkedBy(session.gen))
BY StoppedIs, PostedIs DEF Farewell

\* The coordinator is told nothing, or of a gap or an end.
LEMMA QuietIs ==
  ASSUME TellNothing
  PROVE  relic'.type \notin Records /\ heard' = heard
BY DEF TellNothing, Records

LEMMA EndingIs ==
  ASSUME NEW type \in Ending, TellCoordinator(type)
  PROVE  relic'.type \notin Records /\ heard' = 0
BY DEF TellCoordinator, Records, Ending

LEMMA ScanKeeps ==
  ASSUME ObserverInv, Scan
  PROVE  ObserverInv' /\ relic'.type \notin Records /\ checkpoint' = checkpoint
<1>1. PICK found \in Found :
        /\ session' = Renewed(found)
        /\ streams' = streams + (IF Renewed(found).gen > streams THEN 1 ELSE 0)
        /\ IF Renewed(found) # session
             THEN /\ bridge' = [c \in Collectors |-> 0]
                  /\ runs' = [c \in Collectors |-> FALSE]
                  /\ reads' = FALSE /\ mailbox' = Drained
                  /\ decoded' = [c \in Decoded |-> 0]
                  /\ IF Over(Renewed(found)) THEN TellCoordinator("GameStopped")
                                             ELSE TellNothing
             ELSE /\ TellNothing
                  /\ UNCHANGED <<bridge, runs, delayed, reads, mailbox, decoded>>
  BY DEF Scan, bridgeVars
<1>2. observing = "scan" /\ observing' = "collect" /\ UNCHANGED <<played, checkpoint>>
  BY DEF Scan
<1>3. found \in Nat
  BY DEF Found, ObserverInv
<1>4. session' \in [gen : Nat, game : Nat, retired : BOOLEAN] /\ streams' \in Nat
  BY <1>1, <1>3 DEF Renewed, NoSession, ObserverInv
<1>5. ReportIsTrue'
  BY <1>2 DEF ReportIsTrue
<1>6. CASE session' # session
  <2>1. << >> \in Seq(MarkedBy(session'.gen))
    BY EmptySeq
  <2>2. relic'.type \notin Records /\ heard' = 0
    <3>1. CASE session.gen # 0
      BY <1>1, <1>6, <3>1, EndingIs DEF Over, Ending
    <3>2. CASE session.gen = 0
      <4>1. heard = 0
        BY <1>2, <3>2 DEF ObserverInv
      <4> QED
        BY <1>1, <1>6, <3>2, <4>1, QuietIs DEF Over
    <3> QED
      BY <3>1, <3>2
  <2>3. /\ bridge' = [c \in Collectors |-> 0]
        /\ runs' = [c \in Collectors |-> FALSE] /\ reads' = FALSE
        /\ mailbox' = << >> /\ decoded' = [c \in Decoded |-> 0]
    BY <1>1, <1>6 DEF Drained
  <2> QED
    BY <1>2, <1>4, <1>5, <2>1, <2>2, <2>3 DEF ObserverInv
<1>7. CASE session' = session
  <2>1. relic'.type \notin Records /\ heard' = heard
    BY <1>1, <1>7, QuietIs
  <2>2. UNCHANGED <<bridge, runs, reads, mailbox, decoded>>
    BY <1>1, <1>7
  <2> QED
    BY <1>2, <1>4, <1>5, <1>7, <2>1, <2>2 DEF ObserverInv
<1> QED
  BY <1>6, <1>7

\* The stream that is kept is given up for another process or taken over.
LEMMA CollectKeeps ==
  ASSUME ObserverInv, Collect
  PROVE  ObserverInv' /\ relic'.type \notin Records /\ StreamKept
<1>1. PICK tries : tries = {c \in Collectors :
                              session.gen # 0 /\ ~Kept(c) /\ ~delayed[c]}
  OBVIOUS
<1>2. PICK ok \in SUBSET tries :
        /\ \E over \in BOOLEAN : session' = [session EXCEPT !.retired = @ \/ over]
        /\ bridge' = [c \in Collectors |->
             IF c \in ok THEN session.gen ELSE IF Kept(c) THEN bridge[c] ELSE 0]
        /\ runs' = [c \in Collectors |-> c \in ok \/ Kept(c)]
        /\ reads' = ("debug" \in ok \/ (Kept("debug") /\ reads))
        /\ mailbox' = IF Kept("debug") THEN mailbox ELSE Farewell(mailbox)
        /\ checkpoint' = IF "inventory" \in tries THEN Discarded("inventory" \in ok)
                                                  ELSE checkpoint
        /\ report' = Report(bridge', session)
  BY <1>1 DEF Collect
<1>3. /\ observing = "collect" /\ observing' = "drain" /\ TellNothing
      /\ UNCHANGED <<played, streams, decoded>>
  BY DEF Collect
<1>4. session' \in [gen : Nat, game : Nat, retired : BOOLEAN] /\ session'.gen = session.gen
  BY <1>2 DEF ObserverInv
<1>5. ok # {} => session.gen # 0
  BY <1>1
<1>6. /\ bridge' \in [Collectors -> {0, session.gen}]
      /\ runs' \in [Collectors -> BOOLEAN] /\ reads' \in BOOLEAN
      /\ \A c \in Collectors : runs'[c] => bridge'[c] # 0
      /\ reads' => bridge'["debug"] # 0
  <2>1. \A c \in Collectors : bridge[c] \in {0, session.gen}
    BY DEF ObserverInv
  <2>2. \A c : Kept(c) => bridge[c] # 0
    BY DEF Kept
  <2>3. \A c \in Collectors : Kept(c) \in BOOLEAN
    BY DEF Kept, ObserverInv
  <2>4. "debug" \in Collectors /\ reads \in BOOLEAN
    BY DEF Collectors, ObserverInv
  <2> QED
    BY <1>2, <1>5, <2>1, <2>2, <2>3, <2>4
<1>7. mailbox' \in Seq(MarkedBy(session.gen))
  BY <1>2, FarewellIs DEF ObserverInv
<1>8. ReportIsTrue'
  BY <1>2, <1>4 DEF ReportIsTrue, Report
<1>9. relic'.type \notin Records /\ heard' = heard
  BY <1>3, QuietIs
<1>10. StreamKept
  <2>1. "inventory" \in ok => bridge'["inventory"] # 0
    BY <1>2, <1>5 DEF Collectors
  <2> QED
    BY <1>2, <2>1 DEF StreamKept, Discarded
<1> QED
  BY <1>3, <1>4, <1>6, <1>7, <1>8, <1>9, <1>10 DEF ObserverInv

LEMMA ObserverDrainKeeps ==
  ASSUME ObserverInv, DrainQueues
  PROVE  ObserverInv' /\ relic'.type \notin Records /\ checkpoint' = checkpoint
<1>1. /\ observing = "drain" /\ observing' = "receive"
      /\ UNCHANGED <<played, session, streams, bridge, runs, reads, mailbox, checkpoint, report>>
  BY DEF DrainQueues, bridgeVars
<1>2. decoded' = [[decoded EXCEPT !["inventory"] = 0] EXCEPT !["metadata"] = 0]
  BY DEF DrainQueues, MetadataTaken, InventoryTaken
<1>3. decoded' \in [Decoded -> {0, session.gen}]
  BY <1>2 DEF ObserverInv
<1>4. relic'.type \notin Records /\ heard' \in {0, heard}
  BY QuietIs, EndingIs DEF DrainQueues, Ending
<1>5. ReportIsTrue'
  BY <1>1 DEF ReportIsTrue, ObserverInv
<1> QED
  BY <1>1, <1>3, <1>4, <1>5 DEF ObserverInv

\* A record is heeded, told to the coordinator as one of the session, or dropped.
LEMMA ReceiveKeeps ==
  ASSUME ObserverInv, Receive
  PROVE  ObserverInv' /\ OneGameAtATime /\ checkpoint' = checkpoint
<1>1. /\ observing = "receive" /\ observing' \in {"scan", "drain"}
      /\ UNCHANGED <<played, session, streams, decoded, checkpoint>>
  BY DEF Receive
<1>2. CASE mailbox = << >>
  <2>1. UNCHANGED <<bridge, runs, reads, mailbox, report>> /\ TellNothing
    BY <1>2 DEF Receive, bridgeVars
  <2>2. relic'.type \notin Records /\ heard' = heard
    BY <2>1, QuietIs
  <2>3. ReportIsTrue'
    BY <1>1, <2>1 DEF ReportIsTrue, ObserverInv
  <2> QED
    BY <1>1, <2>1, <2>2, <2>3 DEF ObserverInv, OneGameAtATime
<1>3. CASE mailbox # << >>
  <2>1. PICK r : r = Head(mailbox)
    OBVIOUS
  <2>2. r \in MarkedBy(session.gen) /\ Tail(mailbox) \in Seq(MarkedBy(session.gen))
    BY <1>3, <2>1, HeadTailProperties DEF ObserverInv
  <2>3. \/ TellNothing
        \/ r.type \in Records /\ TellCoordinator(r.type)
    BY <1>3, <2>1 DEF Receive, Records
  <2>4. /\ relic'.type \in Records => heard' = relic'.gen /\ relic'.gen = session.gen
        /\ heard' \in {heard, session.gen}
    <3>1. CASE TellNothing
      BY <3>1, QuietIs
    <3>2. CASE r.type \in Records /\ TellCoordinator(r.type)
      <4>1. r.type \notin Ending
        BY <3>2 DEF Records, Ending
      <4> QED
        BY <3>2, <4>1 DEF TellCoordinator
    <3> QED
      BY <2>3, <3>1, <3>2
  <2>5. OneGameAtATime
    BY <1>1, <2>4 DEF OneGameAtATime, ObserverInv
  <2>6. \/ /\ bridge' = [bridge EXCEPT !["debug"] = 0]
           /\ runs' = [runs EXCEPT !["debug"] = FALSE]
           /\ mailbox' = Farewell(Tail(mailbox)) /\ reads' = FALSE
           /\ report' = Report(bridge', session)
        \/ mailbox' = Tail(mailbox) /\ UNCHANGED <<bridge, runs, reads, report>>
    BY <1>3, <2>1 DEF Receive, Closed
  <2>7. mailbox' \in Seq(MarkedBy(session.gen))
    BY <2>2, <2>6, FarewellIs
  <2>8. /\ bridge' \in [Collectors -> {0, session.gen}]
        /\ runs' \in [Collectors -> BOOLEAN] /\ reads' \in BOOLEAN
        /\ \A c \in Collectors : runs'[c] => bridge'[c] # 0
        /\ reads' => bridge'["debug"] # 0
    <3>1. /\ bridge \in [Collectors -> {0, session.gen}]
          /\ runs \in [Collectors -> BOOLEAN] /\ reads \in BOOLEAN
          /\ \A c \in Collectors : runs[c] => bridge[c] # 0
          /\ (reads => bridge["debug"] # 0)
      BY DEF ObserverInv
    <3>2. CASE /\ bridge' = [bridge EXCEPT !["debug"] = 0]
               /\ runs' = [runs EXCEPT !["debug"] = FALSE]
               /\ reads' = FALSE
      <4>1. \A c \in Collectors :
              /\ bridge'[c] = IF c = "debug" THEN 0 ELSE bridge[c]
              /\ runs'[c] = IF c = "debug" THEN FALSE ELSE runs[c]
        BY <3>1, <3>2
      <4>2. \A c \in Collectors : runs'[c] => bridge'[c] # 0
        BY <3>1, <4>1
      <4> QED
        BY <3>1, <3>2, <4>2
    <3>3. CASE UNCHANGED <<bridge, runs, reads>>
      BY <3>1, <3>3
    <3> QED
      BY <2>6, <3>2, <3>3
  <2>9. ReportIsTrue'
    <3>1. CASE report' = Report(bridge', session)
      BY <1>1, <3>1 DEF ReportIsTrue, Report
    <3>2. CASE UNCHANGED <<bridge, report>>
      BY <1>1, <3>2 DEF ReportIsTrue, ObserverInv
    <3> QED
      BY <2>6, <3>1, <3>2
  <2> QED
    BY <1>1, <2>4, <2>5, <2>7, <2>8, <2>9 DEF ObserverInv
<1> QED
  BY <1>2, <1>3

\* The observer ends: the stream it returns is of its own process.
LEMMA ObserverEndKeeps ==
  ASSUME ObserverInv, ObserverEnds
  PROVE  ObserverInv' /\ relic'.type \notin Records /\ StreamKept
<1>1. /\ observing' = "ended" /\ UNCHANGED <<played, streams>> /\ TellNothing
      /\ checkpoint' \in {checkpoint, session.game}
      /\ bridge' = [c \in Collectors |-> 0]
      /\ runs' = [c \in Collectors |-> FALSE] /\ reads' = FALSE
      /\ mailbox' = << >> /\ decoded' = [c \in Decoded |-> 0]
      /\ session' = [gen |-> 0, game |-> 0, retired |-> FALSE]
  BY DEF ObserverEnds, NoSession
<1>2. relic'.type \notin Records
  BY <1>1, QuietIs
<1>3. << >> \in Seq(MarkedBy(session'.gen))
  BY EmptySeq
<1>4. ReportIsTrue'
  BY <1>1 DEF ReportIsTrue
<1>5. StreamKept
  BY <1>1 DEF StreamKept
<1> QED
  BY <1>1, <1>2, <1>3, <1>4, <1>5 DEF ObserverInv

\* What the collectors, the game and time do: the loop, its report and what the coordinator
\* has heard stay.
LEMMA WorldKeeps ==
  ASSUME ObserverInv,
         UNCHANGED <<relic, heard, report, observing, checkpoint, streams, bridge>>,
         played' \in [now : Nat, count : Nat],
         session' \in [gen : Nat, game : Nat, retired : BOOLEAN], session'.gen = session.gen,
         runs' \in [Collectors -> BOOLEAN], reads' \in BOOLEAN,
         \A c \in Collectors : runs'[c] => runs[c], reads' => reads,
         mailbox' \in Seq(MarkedBy(session.gen)),
         decoded' \in [Decoded -> {0, session.gen}]
  PROVE  ObserverInv' /\ OneGameAtATime /\ checkpoint' = checkpoint
<1>1. ReportIsTrue'
  BY DEF ReportIsTrue, ObserverInv
<1>2. OneGameAtATime
  BY DEF OneGameAtATime, ObserverInv
<1> QED
  BY <1>1, <1>2 DEF ObserverInv

LEMMA ObserverStep ==
  ASSUME ObserverInv, ObserverNext
  PROVE  ObserverInv' /\ OneGameAtATime /\ StreamKept
<1>1. CASE Scan
  BY <1>1, ScanKeeps DEF OneGameAtATime, StreamKept
<1>2. CASE Collect
  BY <1>2, CollectKeeps DEF OneGameAtATime
<1>3. CASE DrainQueues
  BY <1>3, ObserverDrainKeeps DEF OneGameAtATime, StreamKept
<1>4. CASE Receive
  BY <1>4, ReceiveKeeps DEF StreamKept
<1>5. CASE ObserverEnds
  BY <1>5, ObserverEndKeeps DEF OneGameAtATime
<1>6. ASSUME ObserverInv' /\ OneGameAtATime /\ checkpoint' = checkpoint
      PROVE  ObserverInv' /\ OneGameAtATime /\ StreamKept
  BY <1>6 DEF StreamKept
<1>7. /\ played \in [now : Nat, count : Nat]
      /\ session \in [gen : Nat, game : Nat, retired : BOOLEAN]
      /\ runs \in [Collectors -> BOOLEAN] /\ reads \in BOOLEAN
      /\ mailbox \in Seq(MarkedBy(session.gen))
      /\ decoded \in [Decoded -> {0, session.gen}]
      /\ \A c \in Collectors : bridge[c] \in {0, session.gen}
      /\ \A c \in Collectors : runs[c] => bridge[c] # 0
  BY DEF ObserverInv
<1>8. ASSUME NEW type \in Records, Speaks(type)
      PROVE  ObserverInv' /\ OneGameAtATime /\ checkpoint' = checkpoint
  <2>1. /\ UNCHANGED <<relic, heard, report, observing, checkpoint, streams, bridge, played,
                       session, runs, reads, decoded>>
        /\ runs["debug"]
        /\ mailbox' = Posted(mailbox, Record(type, bridge["debug"]))
    BY <1>8 DEF Speaks, loopVars
  <2>2. Record(type, bridge["debug"]) \in MarkedBy(session.gen)
    <3>1. bridge["debug"] = session.gen
      BY <1>7, <2>1 DEF Collectors
    <3> QED
      BY <1>8, <3>1 DEF Record, MarkedBy, Marks
  <2>3. mailbox' \in Seq(MarkedBy(session.gen))
    BY <1>7, <2>1, <2>2, PostedIs
  <2> QED
    BY <1>7, <2>1, <2>3, WorldKeeps
<1>9. ASSUME NEW c \in Decoded, Deliver(c)
      PROVE  ObserverInv' /\ OneGameAtATime /\ checkpoint' = checkpoint
  <2>1. /\ UNCHANGED <<relic, heard, report, observing, checkpoint, streams, bridge, played,
                       session, runs, reads, mailbox>>
        /\ decoded' = [decoded EXCEPT ![c] = bridge[c]]
    BY <1>9 DEF Deliver, loopVars, bridgeVars
  <2>2. decoded' \in [Decoded -> {0, session.gen}]
    BY <1>7, <2>1, <1>9 DEF Decoded
  <2> QED
    BY <1>7, <2>1, <2>2, WorldKeeps
<1>10. ASSUME NEW c \in Collectors, CollectorFails(c)
       PROVE  ObserverInv' /\ OneGameAtATime /\ checkpoint' = checkpoint
  <2>1. /\ UNCHANGED <<relic, heard, report, observing, checkpoint, streams, bridge, played,
                       session, reads, mailbox, decoded>>
        /\ runs' = [runs EXCEPT ![c] = FALSE]
    BY <1>10 DEF CollectorFails, loopVars
  <2>2. /\ runs' \in [Collectors -> BOOLEAN]
        /\ \A d \in Collectors : runs'[d] => runs[d]
    BY <1>7, <2>1
  <2> QED
    BY <1>7, <2>1, <2>2, WorldKeeps
<1>11. ASSUME EndOfInput
       PROVE  ObserverInv' /\ OneGameAtATime /\ checkpoint' = checkpoint
  <2>1. /\ UNCHANGED <<relic, heard, report, observing, checkpoint, streams, bridge, played,
                       session, runs, decoded>>
        /\ reads /\ reads' = FALSE
        /\ mailbox' = Posted(mailbox, Record("Stopped", bridge["debug"]))
    BY <1>11 DEF EndOfInput, loopVars
  <2>2. mailbox' \in Seq(MarkedBy(session.gen))
    BY <1>7, <2>1, StoppedIs, PostedIs
  <2> QED
    BY <1>7, <2>1, <2>2, WorldKeeps
<1>12. ASSUME Check
       PROVE  ObserverInv' /\ OneGameAtATime /\ checkpoint' = checkpoint
  <2>1. /\ UNCHANGED <<relic, heard, report, observing, checkpoint, streams, bridge, played,
                       runs, reads, mailbox, decoded>>
        /\ session' = [session EXCEPT !.retired = TRUE]
    BY <1>12 DEF Check, loopVars, bridgeVars
  <2>2. session' \in [gen : Nat, game : Nat, retired : BOOLEAN] /\ session'.gen = session.gen
    BY <1>7, <2>1
  <2> QED
    BY <1>7, <2>1, <2>2, WorldKeeps
<1>13. ASSUME GameChanges
       PROVE  ObserverInv' /\ OneGameAtATime /\ checkpoint' = checkpoint
  <2>1. /\ UNCHANGED <<relic, heard, report, observing, checkpoint, streams, bridge,
                       session, runs, reads, mailbox, decoded>>
        /\ \/ played' = [now |-> played.count + 1, count |-> played.count + 1]
           \/ played' = [played EXCEPT !.now = 0]
    BY <1>13 DEF GameChanges, loopVars, bridgeVars
  <2>2. played' \in [now : Nat, count : Nat]
    BY <1>7, <2>1
  <2> QED
    BY <1>7, <2>1, <2>2, WorldKeeps
<1>14. ASSUME \/ \E c \in Collectors : DelayEnds(c)
              \/ ConsoleCloses
              \/ StopObserver
       PROVE  ObserverInv' /\ OneGameAtATime /\ checkpoint' = checkpoint
  <2>1. UNCHANGED <<relic, heard, report, observing, checkpoint, streams, bridge, played,
                    session, runs, reads, mailbox, decoded>>
    BY <1>14 DEF DelayEnds, ConsoleCloses, StopObserver,
                 loopVars, bridgeVars, outputVars
  <2> QED
    BY <1>7, <2>1, WorldKeeps
<1> QED
  BY <1>1, <1>2, <1>3, <1>4, <1>5, <1>6, <1>8, <1>9, <1>10, <1>11, <1>12, <1>13, <1>14
     DEF ObserverNext, Loop

LEMMA ObserverStill ==
  ASSUME ObserverInv, UNCHANGED observerVars
  PROVE  ObserverInv'
<1>1. UNCHANGED <<relic, heard, report, observing, checkpoint, streams, bridge, played,
                  session, runs, reads, mailbox, decoded>>
  BY DEF observerVars, bridgeVars, outputVars
<1> QED
  BY <1>1, WorldKeeps DEF ObserverInv

\* However games, collectors and the observer's loop interleave, what waits for the observer
\* is of the session it holds, and the status it published names the collectors that are
\* open (observer.rs).
THEOREM ObserverAlwaysTrue == ObserverSpec => []ObserverTrue
<1>1. ObserverInv => ObserverTrue
  <2> SUFFICES ASSUME ObserverInv PROVE ObserverTrue
    OBVIOUS
  <2>1. \A i \in DOMAIN mailbox : mailbox[i].gen = session.gen
    <3>1. \A i \in DOMAIN mailbox : mailbox[i] \in MarkedBy(session.gen)
      BY ElementOfSeq, LenProperties DEF ObserverInv
    <3> QED
      BY <3>1 DEF MarkedBy
  <2>2. FreshEvents
    BY <2>1 DEF ObserverInv, FreshEvents
  <2> QED
    BY <2>2 DEF ObserverInv, ObserverTrue
<1>2. ObserverInv /\ [ObserverNext]_(observerVars) => ObserverInv'
  BY ObserverStep, ObserverStill
<1> QED
  BY ObserverStart, <1>1, <1>2, PTL DEF ObserverSpec

\* The coordinator hears the end of one game before anything of the next, and the stream the
\* last companion left is not given up while its process runs.
THEOREM StreamsAlwaysKept == ObserverSpec => StreamsKept
<1>1. ObserverInv /\ [ObserverNext]_(observerVars) => ObserverInv'
  BY ObserverStep, ObserverStill
<1>2. /\ ObserverInv /\ [ObserverNext]_(observerVars)
      => [OneGameAtATime /\ StreamKept]_(observerVars)
  BY ObserverStep
<1> QED
  BY ObserverStart, <1>1, <1>2, PTL DEF ObserverSpec, StreamsKept

-----------------------------------------------------------------------------
(***************************************************************************)
(* The overlay.                                                            *)
(***************************************************************************)
(***************************************************************************)
(* The inductive invariant.  What is cached, the static frame and the      *)
(* pixels of a buffer that has a key, was drawn with the images that are   *)
(* installed: only then may it be shown without being drawn again.         *)
(***************************************************************************)
Drawn(s, size, images) == [scene |-> s, size |-> size, assets |-> images]

Cached(pixels, key, images) ==
  key.scene = NoScene \/ pixels = Drawn(key.scene, key.size, images)

PixelsInv ==
  /\ redraw \in {"None", "Loading", "Full"}
  /\ DOMAIN surface = {"configured", "asked", "mapped", "contextual", "size"}
  /\ \A i \in DOMAIN buffers : /\ DOMAIN buffers[i] = {"key", "pixels", "busy"}
                               /\ Cached(buffers[i].pixels, buffers[i].key, assets)
  /\ Cached(picture, picture, assets)
  /\ surface.mapped /\ surface.configured /\ redraw # "Full" => shown = Present

LEMMA PixelsStart == OverlayInit => PixelsInv
BY DEF OverlayInit, PixelsInv, Cached, Blank

\* A step that neither draws nor installs images.
LEMMA PixelsStay ==
  ASSUME PixelsInv, UNCHANGED <<picture, shown, assets>>,
         redraw' \in {"None", "Loading", "Full"},
         DOMAIN surface' = {"configured", "asked", "mapped", "contextual", "size"},
         \A i \in DOMAIN buffers' : /\ i \in DOMAIN buffers
                                    /\ DOMAIN buffers'[i] = {"key", "pixels", "busy"}
                                    /\ buffers'[i].key = buffers[i].key
                                    /\ buffers'[i].pixels = buffers[i].pixels,
         surface'.mapped /\ surface'.configured /\ redraw' # "Full" =>
           /\ surface.mapped /\ surface.configured /\ redraw # "Full"
           /\ surface'.size = surface.size /\ UNCHANGED <<scene, enabled, focus>>
  PROVE  PixelsInv'
<1>2. \A i \in DOMAIN buffers' : Cached(buffers'[i].pixels, buffers'[i].key, assets')
  BY DEF PixelsInv, Cached
<1>3. Cached(picture', picture', assets')
  BY DEF PixelsInv, Cached
<1>4. surface'.mapped /\ surface'.configured /\ redraw' # "Full" => shown' = Present'
  <2> SUFFICES ASSUME surface'.mapped /\ surface'.configured /\ redraw' # "Full"
               PROVE  shown' = Present'
    OBVIOUS
  <2>1. shown = Present
    BY DEF PixelsInv
  <2>2. UNCHANGED <<scene, enabled, focus, assets, shown>> /\ surface'.size = surface.size
    OBVIOUS
  <2> QED
    BY <2>1, <2>2 DEF Present, SceneShown
<1> QED
  BY <1>2, <1>3, <1>4 DEF PixelsInv

\* New images: the static frame and the keys of the buffers go.
LEMMA PrepareKeeps ==
  ASSUME PixelsInv, Prepare
  PROVE  PixelsInv'
<1>1. /\ UNCHANGED <<scene, enabled, focus, surface, shown>>
      /\ IF ImagesReady
           THEN picture' = Blank /\ buffers' = Invalidated(buffers)
           ELSE UNCHANGED <<assets, picture, buffers>>
      /\ redraw' \in {"None", "Loading", "Full"}
      /\ ImagesReady => redraw' = "Full"
      /\ redraw' # "Full" => redraw # "Full"
  BY DEF Prepare, contentVars, PixelsInv
<1>2. CASE ImagesReady
  <2>1. \A i \in DOMAIN buffers' : /\ DOMAIN buffers'[i] = {"key", "pixels", "busy"}
                                   /\ buffers'[i].key = Unkeyed
    BY <1>1, <1>2 DEF Invalidated, PixelsInv
  <2>2. Unkeyed.scene = NoScene
    BY DEF Unkeyed
  <2>3. Cached(picture', picture', assets')
    BY <1>1, <1>2 DEF Cached, Blank
  <2> QED
    BY <1>1, <1>2, <2>1, <2>2, <2>3 DEF PixelsInv, Cached
<1>3. CASE ~ImagesReady
  BY <1>1, <1>3, PixelsStay DEF PixelsInv
<1> QED
  BY <1>2, <1>3

\* A frame is drawn: what was cached may be used again.
LEMMA PaintKeeps ==
  ASSUME PixelsInv, NEW i, Paint(i), UNCHANGED <<scene, enabled, focus, assets>>
  PROVE  PixelsInv'
<1>1. PICK key : key = IF SceneShown THEN [scene |-> scene, size |-> surface.size]
                       ELSE Unkeyed
  OBVIOUS
<1>2. PICK cached : cached = Rendered(key)
  OBVIOUS
<1>3. PICK old : old = IF i \in DOMAIN buffers THEN buffers[i]
                       ELSE [key |-> Unkeyed, pixels |-> Blank, busy |-> FALSE]
  OBVIOUS
<1>4. PICK partial \in BOOLEAN :
        partial <=> /\ SceneShown /\ scene.kind = "Reading"
                    /\ surface.mapped /\ redraw = "Loading" /\ old.key = key
  OBVIOUS
<1>5. PICK pixels : pixels = IF partial THEN old.pixels
                             ELSE IF SceneShown THEN cached ELSE Blank
  OBVIOUS
<1>6. /\ picture' = cached
      /\ buffers' = [j \in DOMAIN buffers \cup {i} |->
                       IF j = i THEN [key |-> key, busy |-> TRUE, pixels |-> pixels] ELSE buffers[j]]
      /\ shown' = pixels
      /\ surface' = [surface EXCEPT !.mapped = TRUE]
      /\ redraw' = "None"
  <2>1. partial = ((SceneShown /\ scene.kind = "Reading")
                   /\ surface.mapped /\ redraw = "Loading" /\ old.key = key)
    BY <1>4
  <2> QED
    BY <1>1, <1>2, <1>3, <1>5, <2>1, Zenon DEF Paint
<1>7. CASE SceneShown
  <2>1. key = [scene |-> scene, size |-> surface.size] /\ scene # NoScene
    BY <1>1, <1>7 DEF SceneShown
  <2>2. cached = Drawn(scene, surface.size, assets)
    <3>1. CASE picture.scene = key.scene /\ picture.size = key.size
      BY <1>2, <2>1, <3>1 DEF Rendered, PixelsInv, Cached
    <3>2. CASE ~(picture.scene = key.scene /\ picture.size = key.size)
      BY <1>2, <1>7, <2>1, <3>2 DEF Rendered, Drawn
    <3> QED
      BY <3>1, <3>2
  <2>3. partial => old.pixels = Drawn(scene, surface.size, assets)
    <3>1. i \in DOMAIN buffers => Cached(old.pixels, old.key, assets)
      BY <1>3 DEF PixelsInv
    <3>2. ~(i \in DOMAIN buffers) => old.key.scene = NoScene
      BY <1>3 DEF Unkeyed
    <3> QED
      BY <1>4, <2>1, <3>1, <3>2 DEF Cached
  <2>4. pixels = Drawn(scene, surface.size, assets) /\ pixels = Present
    BY <1>5, <1>7, <2>2, <2>3 DEF Present, Drawn
  <2> QED
    <3>1. Present' = Present
      BY <1>6 DEF Present, SceneShown, PixelsInv
    <3>3. Cached(picture', picture', assets')
      BY <1>6, <2>2 DEF Cached, Drawn
    <3>4. \A j \in DOMAIN buffers' : /\ DOMAIN buffers'[j] = {"key", "pixels", "busy"}
                                     /\ Cached(buffers'[j].pixels, buffers'[j].key, assets')
      <4> SUFFICES ASSUME NEW j \in DOMAIN buffers'
                   PROVE  /\ DOMAIN buffers'[j] = {"key", "pixels", "busy"}
                          /\ Cached(buffers'[j].pixels, buffers'[j].key, assets')
        OBVIOUS
      <4>1. CASE j = i
        BY <1>6, <2>1, <2>4, <4>1 DEF Cached, Drawn
      <4>2. CASE j # i
        BY <1>6, <4>2 DEF PixelsInv, Cached
      <4> QED
        BY <4>1, <4>2
    <3>5. DOMAIN surface' = {"configured", "asked", "mapped", "contextual", "size"}
      BY <1>6 DEF PixelsInv
    <3> QED
      BY <1>6, <2>4, <3>1, <3>3, <3>4, <3>5 DEF PixelsInv
<1>8. CASE ~SceneShown
  <2>1. key = Unkeyed /\ cached = picture /\ ~partial /\ pixels = Blank
    BY <1>1, <1>2, <1>4, <1>5, <1>8 DEF Rendered
  <2>2. Present' = Blank
    BY <1>8 DEF Present, SceneShown
  <2>3. Cached(picture', picture', assets')
    BY <1>6, <2>1 DEF PixelsInv, Cached
  <2>4. \A j \in DOMAIN buffers' : /\ DOMAIN buffers'[j] = {"key", "pixels", "busy"}
                                   /\ Cached(buffers'[j].pixels, buffers'[j].key, assets')
    <3> SUFFICES ASSUME NEW j \in DOMAIN buffers'
                 PROVE  /\ DOMAIN buffers'[j] = {"key", "pixels", "busy"}
                        /\ Cached(buffers'[j].pixels, buffers'[j].key, assets')
      OBVIOUS
    <3>1. CASE j = i
      BY <1>6, <2>1, <3>1 DEF Cached, Unkeyed
    <3>2. CASE j # i
      BY <1>6, <3>2 DEF PixelsInv, Cached
    <3> QED
      BY <3>1, <3>2
  <2>5. DOMAIN surface' = {"configured", "asked", "mapped", "contextual", "size"}
    BY <1>6 DEF PixelsInv
  <2> QED
    BY <1>6, <2>1, <2>2, <2>3, <2>4, <2>5 DEF PixelsInv
<1> QED
  BY <1>7, <1>8

LEMMA SyncKeeps ==
  ASSUME PixelsInv, Sync
  PROVE  PixelsInv'
<1>1. UNCHANGED <<scene, enabled, focus, assets>>
  BY DEF Sync, contentVars
<1>2. CASE Draw
  <2>1. CASE \E i : Paint(i)
    BY <1>1, <2>1, PaintKeeps
  <2>2. CASE UNCHANGED <<picture, buffers, shown, surface, redraw>>
    BY <1>1, <2>2, PixelsStay DEF PixelsInv
  <2> QED
    BY <1>2, <2>1, <2>2 DEF Draw, Idle, drawnVars, bufferVars
<1>3. CASE UNCHANGED <<picture, buffers, shown, surface, redraw>>
  BY <1>1, <1>3, PixelsStay DEF PixelsInv
<1>4. CASE /\ surface' = [surface EXCEPT !.contextual = Contextual, !.configured = FALSE,
                                         !.asked = TRUE]
           /\ buffers' = << >> /\ UNCHANGED <<picture, shown, redraw>>
  <2>1. /\ DOMAIN surface' = {"configured", "asked", "mapped", "contextual", "size"}
        /\ surface'.configured = FALSE
    BY <1>4 DEF PixelsInv
  <2>2. DOMAIN << >> = {}
    BY EmptySeq
  <2> QED
    BY <1>1, <1>4, <2>1, <2>2, PixelsStay DEF PixelsInv
<1>5. CASE /\ surface' = [surface EXCEPT !.asked = TRUE]
           /\ UNCHANGED <<picture, buffers, shown, redraw>>
  <2>1. /\ DOMAIN surface' = {"configured", "asked", "mapped", "contextual", "size"}
        /\ surface'.configured = surface.configured /\ surface'.mapped = surface.mapped
        /\ surface'.size = surface.size
    BY <1>5 DEF PixelsInv
  <2> QED
    BY <1>1, <1>5, <2>1, PixelsStay DEF PixelsInv
<1>6. CASE Unmap
  <2>1. /\ surface' = [surface EXCEPT !.configured = FALSE, !.asked = FALSE, !.mapped = FALSE]
        /\ buffers' = << >> /\ redraw' = "Full" /\ picture' = picture
    BY <1>6 DEF Unmap, Unmapped, ClearBuffers
  <2>2. DOMAIN surface' = {"configured", "asked", "mapped", "contextual", "size"}
    BY <2>1 DEF PixelsInv
  <2>3. Cached(picture', picture', assets')
    BY <1>1, <2>1 DEF PixelsInv, Cached
  <2>4. DOMAIN << >> = {}
    BY EmptySeq
  <2> QED
    BY <2>1, <2>2, <2>3, <2>4 DEF PixelsInv
<1> QED
  BY <1>2, <1>3, <1>4, <1>5, <1>6
     DEF Sync, ClearBuffers, AskSize, Idle, drawnVars,
         bufferVars

LEMMA PixelsStep ==
  ASSUME PixelsInv, OverlayNext
  PROVE  PixelsInv'
<1>1. ASSUME UNCHANGED <<picture, buffers, shown, assets, surface, redraw, scene, enabled, focus>>
      PROVE  PixelsInv'
  BY <1>1, PixelsStay DEF PixelsInv
<1>2. ASSUME UNCHANGED <<picture, buffers, shown, assets, surface>>, redraw' = "Full"
      PROVE  PixelsInv'
  BY <1>2, PixelsStay DEF PixelsInv
<1>3. CASE \/ LoaderTakes \/ LoaderEnds \/ Reconfigures
           \/ FrameCalls \/ Dispatched
  BY <1>1, <1>3 DEF LoaderTakes, LoaderEnds, Reconfigures,
       FrameCalls, Dispatched, contentVars, drawnVars,
       bufferVars
<1>4. CASE \/ SceneChanges \/ OverlayToggles \/ HudChanges
           \/ FocusChanges
  BY <1>2, <1>4 DEF SceneChanges, OverlayToggles, HudChanges,
       FocusChanges, Happens, drawnVars, bufferVars
<1>5. CASE Releases
  <2>1. PICK i \in DOMAIN buffers : buffers' = [buffers EXCEPT ![i].busy = FALSE]
    BY <1>5 DEF Releases
  <2>2. UNCHANGED <<picture, shown, assets, surface, redraw, scene, enabled, focus>>
    BY <1>5 DEF Releases, contentVars
  <2>3. \A j \in DOMAIN buffers' : /\ j \in DOMAIN buffers
                                   /\ DOMAIN buffers'[j] = {"key", "pixels", "busy"}
                                   /\ buffers'[j].key = buffers[j].key
                                   /\ buffers'[j].pixels = buffers[j].pixels
    BY <2>1 DEF PixelsInv
  <2> QED
    BY <2>2, <2>3, PixelsStay DEF PixelsInv
<1>6. CASE Configured
  <2>1. /\ surface' = [surface EXCEPT !.size = Head(configures), !.configured = TRUE, !.asked = FALSE]
        /\ buffers' = << >> /\ redraw' = "Full" /\ UNCHANGED <<picture, shown, assets>>
    BY <1>6 DEF Configured, ClearBuffers
  <2>2. DOMAIN surface' = {"configured", "asked", "mapped", "contextual", "size"}
    BY <2>1 DEF PixelsInv
  <2>3. DOMAIN << >> = {}
    BY EmptySeq
  <2> QED
    BY <2>1, <2>2, <2>3, PixelsStay
<1>7. CASE Rescales
  <2>1. buffers' = << >> /\ redraw' = "Full" /\ UNCHANGED <<picture, shown, assets, surface>>
    BY <1>7 DEF Rescales, ClearBuffers
  <2>2. DOMAIN << >> = {}
    BY EmptySeq
  <2> QED
    BY <2>1, <2>2, PixelsStay DEF PixelsInv
<1> QED
  BY <1>3, <1>4, <1>5, <1>6, <1>7, PrepareKeeps, SyncKeeps DEF OverlayNext, Tick

LEMMA PixelsStill ==
  ASSUME PixelsInv, UNCHANGED overlayVars
  PROVE  PixelsInv'
<1>1. UNCHANGED <<picture, buffers, shown, assets, surface, redraw, scene, enabled, focus>>
  BY DEF overlayVars, contentVars, drawnVars, bufferVars
<1> QED
  BY <1>1, PixelsStay DEF PixelsInv

\* Whatever the compositor, the loader and the events of a tick do, and for any number of
\* buffers, a mapped surface without a redraw ahead shows the present scene in its size with
\* the images that are installed (overlay/runtime.rs).
THEOREM PixelsNeverStale == OverlaySpec => []NoStalePixels
<1>1. PixelsInv => NoStalePixels
  BY DEF PixelsInv, NoStalePixels
<1>2. PixelsInv /\ [OverlayNext]_(overlayVars) => PixelsInv'
  BY PixelsStep, PixelsStill
<1> QED
  BY PixelsStart, <1>1, <1>2, PTL DEF OverlaySpec

=============================================================================
