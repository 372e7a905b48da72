---------------------------- MODULE RelicScenes ----------------------------
(***************************************************************************)
(* The relic scenes of wfcompanion: the coordinator thread of              *)
(* relic/lifecycle.rs, its scene workers, the inbox of triggers, the       *)
(* channel to the overlay, and the scene the overlay shows.                *)
(*                                                                         *)
(* A scene lives in a context, named by its generation.  The coordinator   *)
(* opens a context per accepted trigger and cancels the one before it; a   *)
(* worker reads the game and sends scenes in the context; the overlay      *)
(* shows a scene only while its context is current.  The flag cancelled    *)
(* is shared by all of them, the rest of their state is not.               *)
(*                                                                         *)
(* The windows of time of the code (2 s, 0.5 s, 23 s, 30 s) are choices    *)
(* made when they are compared with; what a scene displays is left out.    *)
(***************************************************************************)
EXTENDS Naturals, Sequences, SequencesExt, FiniteSets

CONSTANTS
  MaxGen,        \* contexts the coordinator may open
  MaxSession,    \* game sessions
  DataItems,     \* the inbox: data triggers (64 in the code)
  ControlItems,  \* the inbox: WorkFinished, SuggestionReady and IntakeGap (8)
  UiItems,       \* the channel to the overlay (32)
  SceneWorkers,  \* MAX_WORKERS
  MaxEvents,     \* what users, the game, the compositor and time do
  Screenshots    \* whether a saved image is queued at start

\* There is room for the two messages of each worker and a gap.
ASSUME RelicAssumption ==
  /\ {MaxGen, MaxSession, DataItems, ControlItems, UiItems, SceneWorkers, MaxEvents} \subseteq Nat \ {0}
  /\ Screenshots \in BOOLEAN
  /\ ControlItems > 2 * SceneWorkers

VARIABLES
  observed,    \* what the observer knows of the game: [number, live, reported]
  triggers,    \* the inbox of the coordinator, oldest first
  owner,       \* the coordinator: Lifecycle, pending and armed
  contexts,    \* the contexts, by generation
  workers,     \* the stage of each scene worker, by generation
  recording,   \* an evidence job runs
  ui,          \* events for the overlay, oldest first
  screen,      \* the overlay
  reloadGate,  \* reload::Gate
  ending,      \* the flag all threads watch
  events       \* what has come from outside so far

relicVars == <<observed, triggers, owner, contexts, workers, recording, ui, screen, reloadGate,
               ending, events>>

Outside == events < MaxEvents /\ events' = events + 1

Gen == 1..MaxGen
SceneStarts == {"Rewards", "Suggestions", "Screenshot"}
Control == {"WorkFinished", "SuggestionReady", "IntakeGap"}
NoContext == [kind |-> "none", session |-> 0, era |-> 0, cancelled |-> TRUE, expired |-> FALSE]

(***************************************************************************)
(* The inbox.                                                              *)
(***************************************************************************)
Trigger(type) == [type |-> type, session |-> 0, gen |-> 0, era |-> FALSE, failed |-> FALSE]
IntakeGap == Trigger("IntakeGap")

IsGap(t) == t.type = "IntakeGap"
IsControl(t) == t.type \in Control
Used(q, control) == Cardinality({i \in DOMAIN q : IsControl(q[i]) = control})

\* A gap replaces the gap that is queued: there is at most one.
Unreplaced(q, t) == IF t = IntakeGap THEN RemoveFirst(q, IntakeGap) ELSE q
HasRoom(q, t) ==
  Used(Unreplaced(q, t), IsControl(t)) < (IF IsControl(t) THEN ControlItems ELSE DataItems)

Accepted(q, t) == Append(Unreplaced(q, t), t)

SentOrLost(q, t) == IF HasRoom(q, t) THEN Accepted(q, t) ELSE q

\* A trigger that finds no room leaves a gap.
Sent(q, t) ==
  IF HasRoom(q, t) THEN Accepted(q, t)
  ELSE IF HasRoom(q, IntakeGap) THEN Accepted(q, IntakeGap) ELSE q

(***************************************************************************)
(* Contexts.                                                               *)
(***************************************************************************)
SessionCurrent(n) == n = 0 \/ (n = observed.number /\ observed.live)

CurrentIn(cs, g) ==
  /\ ~cs[g].cancelled
  /\ ~ending
  /\ SessionCurrent(cs[g].session)
  /\ ~cs[g].expired

ContextCurrent(g) == CurrentIn(contexts, g)

Cancelled(cs, g) == IF g = 0 THEN cs ELSE [cs EXCEPT ![g].cancelled = TRUE]

TellOverlay(q, e) == IF Len(q) < UiItems THEN Append(q, e) ELSE q
Event(type, g, scene) == [type |-> type, gen |-> g, scene |-> scene]
Dismiss == Event("RelicDismiss", 0, "none")

(***************************************************************************)
(* The coordinator, on s: its state o, the contexts c, the events u, and   *)
(* whether the iteration ends early.                                       *)
(***************************************************************************)
Fresh(generation) ==
  [generation |-> generation, current |-> 0, lastReward |-> FALSE, lastSuggestion |-> FALSE,
   lastEra |-> 0, opened |-> FALSE, dismissed |-> FALSE, suggesting |-> FALSE,
   pending |-> 0, armed |-> FALSE]

Skip(s) == [s EXCEPT !.continue = TRUE]

\* Lifecycle::cancel.
CancelCurrent(s) == [s EXCEPT !.c = Cancelled(@, s.o.current), !.o.current = 0]

ResetButEra(s) ==
  [CancelCurrent(s) EXCEPT !.o = [Fresh(s.o.generation) EXCEPT !.lastEra = s.o.lastEra],
                           !.u = TellOverlay(@, Dismiss)]

Reset(s) ==
  [CancelCurrent(s) EXCEPT !.o = Fresh(s.o.generation), !.u = TellOverlay(@, Dismiss)]

\* Lifecycle::close.  guarded: the scene opened so recently that the close is ignored.
ClosedScene(s, guarded) ==
  IF ~s.o.suggesting \/ (s.o.opened /\ guarded)
    THEN s
    ELSE [CancelCurrent(s) EXCEPT
            !.o.opened = FALSE, !.o.dismissed = FALSE, !.o.lastSuggestion = FALSE,
            !.o.suggesting = FALSE, !.o.pending = 0, !.u = TellOverlay(@, Dismiss)]

Dismissed(s, g) ==
  IF ~s.o.suggesting \/ s.o.current # g
    THEN Skip(s)
    ELSE [CancelCurrent(s) EXCEPT
            !.o.dismissed = TRUE, !.o.opened = FALSE, !.o.pending = 0, !.u = TellOverlay(@, Dismiss)]

CompletedAnytime(s, t) ==
  [s EXCEPT !.o.lastEra = IF t.era THEN t.gen ELSE @, !.o.lastReward = @ /\ ~t.failed]

\* Lifecycle::completed.
Completed(s, t) ==
  IF s.o.current # t.gen \/ ~CurrentIn(s.c, t.gen)
    THEN s
    ELSE [s EXCEPT !.o.lastEra = IF t.era THEN t.gen ELSE @,
                   !.o.lastReward = @ /\ ~t.failed]

StartedAlongside(s, t, era) ==
  LET g == s.o.generation + 1
  IN  [s EXCEPT
         !.c = [@ EXCEPT ![g] = [NoContext EXCEPT !.kind = t.type, !.session = t.session, !.era = era,
                                                        !.cancelled = FALSE]],
         !.o.generation = g, !.o.current = g, !.o.pending = g,
         !.u = TellOverlay(@, Event("RelicStart", g, "none"))]

\* Lifecycle::start, the event that opens the scene, and the job that waits.
Started(s, t, era) ==
  LET g == s.o.generation + 1
      c == CancelCurrent(s).c
  IN  [s EXCEPT
         !.c = [c EXCEPT ![g] = [NoContext EXCEPT !.kind = t.type, !.session = t.session, !.era = era,
                                                        !.cancelled = FALSE]],
         !.o.generation = g, !.o.current = g, !.o.pending = g,
         !.u = TellOverlay(@, Event("RelicStart", g, "none"))]

\* recent: the event follows the last one of its kind too closely; afterReward: it
\* follows a reward so closely that the era of the last selection stands in for one
\* that cannot be read.
Suggested(s, t, recent, afterReward) ==
  IF s.o.dismissed \/ (s.o.lastSuggestion /\ recent)
    THEN Skip(s)
    ELSE Started([s EXCEPT !.o.lastSuggestion = TRUE, !.o.opened = TRUE, !.o.suggesting = TRUE],
                 t, IF s.o.lastReward /\ afterReward THEN s.o.lastEra ELSE 0)

Rewarded(s, t, recent) ==
  IF s.o.lastReward /\ recent
    THEN Skip(s)
    ELSE Started([s EXCEPT !.o.lastReward = TRUE, !.o.dismissed = FALSE, !.o.opened = FALSE,
                           !.o.suggesting = FALSE, !.o.armed = FALSE], t, 0)

Handled(s, t, recent, afterReward) ==
  CASE t.type = "ArmCapture" -> [s EXCEPT !.o.armed = TRUE]
    [] t.type = "CancelCapture" -> [s EXCEPT !.o.armed = FALSE]
    [] t.type \in {"GameStopped", "IntakeGap"} -> Reset(s)
    [] t.type = "CloseSuggestions" -> ClosedScene(s, recent)
    [] t.type = "DismissSuggestions" -> Dismissed(s, t.gen)
    [] t.type \in {"WorkFinished", "SuggestionReady"} -> Completed(s, t)
    [] t.type \in {"Rewards", "Suggestions"} /\ ~SessionCurrent(t.session) -> Skip(s)
    [] t.type = "Suggestions" /\ SessionCurrent(t.session) -> Suggested(s, t, recent, afterReward)
    [] t.type = "Rewards" /\ SessionCurrent(t.session) -> Rewarded(s, t, recent)
    [] t.type = "Screenshot" -> Started([s EXCEPT !.o.suggesting = FALSE], t, 0)

IdleIfQuiet(o, c, running, q) ==
  /\ ~o.armed /\ o.pending = 0 /\ DOMAIN running = {} /\ ~recording
  /\ ~o.suggesting
  /\ q = <<>>

CoordinatorIdle(o, c, running, q) ==
  /\ ~o.armed /\ o.pending = 0 /\ DOMAIN running = {} /\ ~recording
  /\ ~o.suggesting
  /\ o.current # 0 => ~CurrentIn(c, o.current)
  /\ q = <<>>

\* quiesce_if_idle.
Granted(idle) == reloadGate.requested /\ idle /\ ~reloadGate.interactive /\ ~ending

\* How closely two events follow each other is a choice when one is handled.
Timings(types) ==
  IF triggers # <<>> /\ Head(triggers).type \in types THEN BOOLEAN ELSE {FALSE}

\* One iteration of the loop: a trigger or a timeout, then the job that waits, then
\* the question whether a reload may begin.
Iterate ==
  /\ ~ending
  /\ \E recent \in Timings({"Rewards", "Suggestions", "CloseSuggestions"}),
        afterReward \in Timings({"Suggestions"}),
        expired \in IF owner.armed THEN BOOLEAN ELSE {FALSE} :
       LET before == [o |-> [owner EXCEPT !.armed = @ /\ ~expired], c |-> contexts, u |-> ui,
                      continue |-> FALSE]
           t == IF triggers = <<>> THEN Trigger("Timeout") ELSE Head(triggers)
           q == IF triggers = <<>> THEN triggers ELSE Tail(triggers)
           s == IF triggers = <<>> THEN before ELSE Handled(before, t, recent, afterReward)
           left == IF t.type = "WorkFinished" THEN DOMAIN workers \ {t.gen} ELSE DOMAIN workers
           running == [g \in left |-> workers[g]]
           launch == ~s.continue /\ s.o.pending # 0 /\ Cardinality(left) < SceneWorkers
           live == launch /\ CurrentIn(s.c, s.o.pending)
           o == [s.o EXCEPT !.pending = IF launch THEN 0 ELSE @]
           begun == IF live
                      THEN [g \in left \cup {s.o.pending} |->
                              IF g = s.o.pending THEN "probe" ELSE workers[g]]
                      ELSE running
           grant == ~s.continue /\ (launch => live) /\ Granted(CoordinatorIdle(o, s.c, begun, q))
       IN  /\ triggers = <<>> => launch \/ grant \/ expired
           /\ triggers' = q
           /\ owner' = o
           /\ contexts' = s.c
           /\ ui' = s.u
           /\ workers' = begun
           /\ recording' = (recording \/ (t.type = "Rewards" /\ before.o.armed /\ ~s.o.armed))
           /\ reloadGate' = [reloadGate EXCEPT !.approved = @ \/ grant]
           /\ ending' = (ending \/ grant)
           /\ UNCHANGED <<observed, screen, events>>

\* The end of the loop: the scene is cancelled and the workers are joined.
CoordinatorEnds ==
  /\ ending /\ (owner # Fresh(owner.generation) \/ DOMAIN workers # {} \/ recording)
  /\ \A g \in DOMAIN workers : workers[g] = "ended"
  /\ contexts' = Cancelled(contexts, owner.current)
  /\ owner' = Fresh(owner.generation)
  /\ workers' = <<>>
  /\ recording' = FALSE
  /\ UNCHANGED <<observed, triggers, ui, screen, reloadGate, ending, events>>

(***************************************************************************)
(* The workers.                                                            *)
(***************************************************************************)
\* send_scene: a scene is sent while its context is current.
SendScene(g, scene) == IF ContextCurrent(g) THEN TellOverlay(ui, Event("RelicScene", g, scene)) ELSE ui

Advance(g, stage, told) ==
  /\ workers' = [workers EXCEPT ![g] = stage]
  /\ ui' = told
  /\ UNCHANGED <<observed, owner, contexts, recording, screen, reloadGate, ending, events>>

\* A worker that has nothing more to do: its thread ends after its last message.
FinishWork(g, q, told, era, failed) ==
  /\ triggers' = Sent(q, [Trigger("WorkFinished") EXCEPT !.gen = g, !.era = era, !.failed = failed])
  /\ Advance(g, "ended", told)

\* What read_rewards and show_suggestions begin with: a context that has ended, ...
Late(g) == ~ContextCurrent(g) /\ FinishWork(g, triggers, ui, FALSE, contexts[g].kind # "Suggestions")

\* ... the names or the era in the game's memory (MemoryProbe), ...
Remember(g) ==
  ContextCurrent(g) /\ contexts[g].kind # "Screenshot" /\ Advance(g, "resolve", ui) /\ UNCHANGED triggers

\* ... an era that cannot be read and none that the coordinator has lent, ...
NoEra(g) ==
  ContextCurrent(g) /\ contexts[g].kind = "Suggestions" /\ contexts[g].era = 0
    /\ FinishWork(g, triggers, ui, FALSE, FALSE)

\* ... or an image, which may not be had.
Photograph(g) ==
  /\ ContextCurrent(g) /\ contexts[g].kind # "Suggestions"
  /\ \/ Advance(g, "scan", IF contexts[g].kind = "Rewards" THEN SendScene(g, "Reading") ELSE ui)
        /\ UNCHANGED triggers
     \/ FinishWork(g, triggers, SendScene(g, "Error"), FALSE, TRUE)

Probe(g) == workers[g] = "probe" /\ (Late(g) \/ Remember(g) \/ NoEra(g) \/ Photograph(g))

\* scan_rewards: the names in the image.
Recognize(g) == ContextCurrent(g) /\ Advance(g, "resolve", ui) /\ UNCHANGED triggers
ScanRewards(g) ==
  workers[g] = "scan" /\ (Recognize(g) \/ FinishWork(g, triggers, SendScene(g, "Error"), FALSE, TRUE))

\* The daemon's recommendations, the scene, and the era for the coordinator.
Recommend(g) ==
  /\ workers[g] = "resolve" /\ contexts[g].kind = "Suggestions"
  /\ \/ FinishWork(g, triggers, ui, FALSE, FALSE)
     \/ /\ ContextCurrent(g)
        /\ triggers' = Sent(triggers, [Trigger("SuggestionReady") EXCEPT !.gen = g, !.era = TRUE])
        /\ Advance(g, "update", SendScene(g, "Suggestions"))

\* The rewards with the names, and the first scene of present_rewards.
Identify(g) ==
  /\ workers[g] = "resolve" /\ contexts[g].kind # "Suggestions"
  /\ \/ Advance(g, "update", SendScene(g, "Rewards")) /\ UNCHANGED triggers
     \/ FinishWork(g, triggers, SendScene(g, "Error"), FALSE, TRUE)

\* show_suggestion_prices: the scene again.
Price(g) ==
  /\ workers[g] = "update" /\ contexts[g].kind = "Suggestions"
  /\ \E answered \in BOOLEAN :
       FinishWork(g, triggers, IF answered THEN SendScene(g, "Suggestions") ELSE ui, TRUE, FALSE)

\* The rest of present_rewards: the scene with what the daemon knows of the rewards, ...
Enrich(g) ==
  /\ workers[g] = "update" /\ contexts[g].kind # "Suggestions"
  /\ \/ Advance(g, "assets", SendScene(g, "Rewards")) /\ UNCHANGED triggers
     \/ FinishWork(g, triggers, ui, FALSE, FALSE)

\* ... and with their images.
Illustrate(g) ==
  /\ workers[g] = "assets"
  /\ \E complete \in BOOLEAN :
       FinishWork(g, triggers, IF complete THEN SendScene(g, "Rewards") ELSE ui, FALSE, FALSE)

Work(g) ==
  Probe(g) \/ ScanRewards(g) \/ Recommend(g) \/ Identify(g) \/ Price(g) \/ Enrich(g) \/ Illustrate(g)

\* An evidence job ends.
Recorded ==
  /\ recording /\ recording' = FALSE
  /\ UNCHANGED <<observed, triggers, owner, contexts, workers, ui, screen, reloadGate,
                 ending, events>>

(***************************************************************************)
(* The overlay.                                                            *)
(***************************************************************************)
Interactive == {"Rewards", "Suggestions"}
Allowed(s) == s.alive /\ s.focus /\ s.scene \in Interactive

\* set_interaction, which also tells the reload gate.
WithInteraction(s, active) == [s EXCEPT !.interactive = active /\ Allowed(s)]
TellGate == reloadGate' = [reloadGate EXCEPT !.interactive = screen'.interactive]

AcceptsAny(e, late) == screen.context # 0 /\ ~(late /\ e.scene = "Error")

\* apply_events: late is a deadline of the scene itself that has passed.
Accepts(e, late) ==
  /\ ContextCurrent(e.gen)
  /\ screen.context = e.gen
  /\ ~(screen.dismissed /\ e.scene = "Suggestions")
  /\ ~(late /\ e.scene = "Error")

Applied(e, late) ==
  CASE e.type = "RelicScene" /\ Accepts(e, late) ->
         [screen EXCEPT !.scene = e.scene, !.dismissed = FALSE]
    [] e.type = "RelicStart" /\ ContextCurrent(e.gen) ->
         [screen EXCEPT !.context = e.gen, !.scene = "none", !.dismissed = FALSE]
    [] e.type = "RelicDismiss" /\ (screen.context = 0 \/ ~ContextCurrent(screen.context)) ->
         [screen EXCEPT !.scene = "none", !.context = 0]
    [] e.type = "InteractionToggle" -> WithInteraction(screen, ~screen.interactive)
    [] OTHER -> screen

\* A tick of the overlay first takes the events that wait, ...
Apply ==
  /\ screen.alive /\ ui # <<>>
  /\ \E late \in {FALSE, Head(ui).scene = "Error"} :
       screen' = [Applied(Head(ui), late) EXCEPT !.ticking = TRUE]
  /\ ui' = Tail(ui)
  /\ TellGate
  /\ UNCHANGED <<observed, triggers, owner, contexts, workers, recording, ending, events>>

ExpiredNever(s) == s

\* ... then drops the scene that is over, looks where the focus is, and sets the
\* scope of the shortcut and the interaction.
Expired(s) ==
  IF s.scene # "none" /\ ~ContextCurrent(s.context) THEN [s EXCEPT !.scene = "none"] ELSE s

ScopedOnly(s) == [s EXCEPT !.scope = Allowed(s)]

Scoped(s) == [WithInteraction(s, s.interactive) EXCEPT !.scope = Allowed(s)]
OverlayTick ==
  /\ screen.alive
  /\ \E focus \in BOOLEAN, over \in {FALSE, screen.scene = "Error"} :
       LET s == IF over THEN [screen EXCEPT !.scene = "none"] ELSE Expired(screen)
       IN  /\ screen' = [Scoped([s EXCEPT !.focus = focus]) EXCEPT !.ticking = FALSE]
           /\ IF focus = screen.focus THEN UNCHANGED events ELSE Outside
  /\ screen' # screen
  /\ TellGate
  /\ UNCHANGED <<observed, triggers, owner, contexts, workers, recording, ui, ending>>

\* The shortcut's activations reach the overlay as events.
PressShortcut ==
  /\ Outside
  /\ screen.alive /\ screen.scope
  /\ \A i \in DOMAIN ui : ui[i].type # "InteractionToggle"
  /\ ui' = TellOverlay(ui, Event("InteractionToggle", 0, "none"))
  /\ UNCHANGED <<observed, triggers, owner, contexts, workers, recording, screen, reloadGate,
                 ending>>

\* pointer_frame: a press on the close button, ...
CloseScene ==
  /\ Outside
  /\ screen.alive /\ ~screen.ticking /\ screen.interactive
  /\ screen.scene = "Suggestions"
  /\ contexts' = Cancelled(contexts, screen.context)
  /\ triggers' = Sent(triggers, [Trigger("DismissSuggestions") EXCEPT !.gen = screen.context])
  /\ screen' = WithInteraction([screen EXCEPT !.dismissed = TRUE, !.scene = "none"], FALSE)
  /\ TellGate
  /\ UNCHANGED <<observed, owner, workers, recording, ui, ending>>

\* ... a press beside the scene, or the pointer leaving it.
LeaveScene ==
  /\ Outside
  /\ screen.alive /\ ~screen.ticking /\ screen.interactive
  /\ screen' = WithInteraction(screen, FALSE)
  /\ TellGate
  /\ UNCHANGED <<observed, triggers, owner, contexts, workers, recording, ui, ending>>

\* overlay::run returns: at the stop, or because the compositor closed the surface.
\* wait_without_overlay takes the events from then on.
OverlayEnds ==
  /\ screen.alive
  /\ screen' = [screen EXCEPT !.alive = FALSE, !.scope = FALSE]
  /\ UNCHANGED <<observed, triggers, owner, contexts, workers, recording, ui, reloadGate,
                 ending>>

OverlayCloses == Outside /\ OverlayEnds
OverlayStops == ending /\ OverlayEnds /\ UNCHANGED events
DropEvents ==
  /\ ~screen.alive /\ ui # <<>> /\ ui' = <<>>
  /\ UNCHANGED <<observed, triggers, owner, contexts, workers, recording, screen, reloadGate,
                 ending, events>>

(***************************************************************************)
(* The world: the game's debug output, as the observer sends it on, the    *)
(* commands of the user, and time.                                         *)
(***************************************************************************)
Post(t) ==
  /\ triggers' = Sent(triggers, t)
  /\ UNCHANGED <<owner, contexts, workers, recording, ui, screen, reloadGate>>

\* The number of contexts is bounded: so are the events that open one.
MayStart ==
  owner.generation + Cardinality({i \in DOMAIN triggers : triggers[i].type \in SceneStarts}) < MaxGen

Observe(type) ==
  /\ ~ending /\ ~observed.reported
  /\ type \in SceneStarts => MayStart
  /\ Outside
  /\ Post([Trigger(type) EXCEPT !.session = observed.number])
  /\ UNCHANGED <<observed, ending>>

\* Sessions::replace: the session is retired, then the coordinator is told, then the
\* next game opens one.
Retire ==
  /\ Outside
  /\ observed.live /\ observed' = [observed EXCEPT !.live = FALSE]
  /\ UNCHANGED <<triggers, owner, contexts, workers, recording, ui, screen, reloadGate, ending>>

ReportStop ==
  /\ ~ending /\ ~observed.live /\ ~observed.reported
  /\ observed' = [observed EXCEPT !.reported = TRUE]
  /\ Post(Trigger("GameStopped"))
  /\ UNCHANGED <<ending, events>>

NextGame ==
  /\ observed.reported /\ observed.number < MaxSession
  /\ observed' = [number |-> observed.number + 1, live |-> TRUE, reported |-> FALSE]
  /\ UNCHANGED <<triggers, owner, contexts, workers, recording, ui, screen, reloadGate,
                 ending, events>>

\* Capture commands of the user, and debug output the observer had to drop.
CaptureCommand(type) ==
  /\ Outside
  /\ ~ending /\ Post(Trigger(type)) /\ UNCHANGED <<observed, ending>>

SceneExpires(g) ==
  /\ Outside
  /\ contexts[g].kind \in {"Rewards", "Screenshot"} /\ ~contexts[g].expired
  /\ contexts' = [contexts EXCEPT ![g].expired = TRUE]
  /\ UNCHANGED <<observed, triggers, owner, workers, recording, ui, screen, reloadGate, ending>>

RequestReload ==
  /\ Outside
  /\ ~reloadGate.requested /\ reloadGate' = [reloadGate EXCEPT !.requested = TRUE]
  /\ UNCHANGED <<observed, triggers, owner, contexts, workers, recording, ui, screen, ending>>

Stop ==
  /\ Outside
  /\ ~ending /\ ending' = TRUE
  /\ UNCHANGED <<observed, triggers, owner, contexts, workers, recording, ui, screen,
                 reloadGate>>

RelicInit ==
  /\ observed = [number |-> 1, live |-> TRUE, reported |-> FALSE]
  /\ triggers \in {<<>>} \cup (IF Screenshots THEN {<<Trigger("Screenshot")>>} ELSE {})
  /\ owner = Fresh(0)
  /\ contexts = [g \in Gen |-> NoContext]
  /\ workers = <<>>
  /\ recording = FALSE
  /\ ui = <<>>
  /\ screen = [alive |-> TRUE, focus |-> TRUE, context |-> 0, scene |-> "none",
               dismissed |-> FALSE, interactive |-> FALSE, scope |-> FALSE, ticking |-> FALSE]
  /\ reloadGate = [requested |-> FALSE, approved |-> FALSE, interactive |-> FALSE]
  /\ ending = FALSE
  /\ events = 0

ToCoordinator ==
  \/ \E type \in {"Rewards", "Suggestions", "CloseSuggestions"} : Observe(type)
  \/ \E type \in {"ArmCapture", "CancelCapture", "IntakeGap"} : CaptureCommand(type)
  \/ Retire \/ ReportStop \/ NextGame

OverlayActs ==
  \/ Apply \/ OverlayTick \/ PressShortcut \/ CloseScene \/ LeaveScene
  \/ OverlayCloses \/ OverlayStops \/ DropEvents

RelicNext ==
  \/ Iterate \/ CoordinatorEnds
  \/ \E g \in DOMAIN workers : Work(g)
  \/ Recorded
  \/ OverlayActs
  \/ ToCoordinator
  \/ \E g \in Gen : SceneExpires(g)
  \/ RequestReload \/ Stop

\* The threads run; calls they wait for return, by answer, timeout or cancellation.
RelicFairness ==
  /\ WF_relicVars(Iterate) /\ WF_relicVars(CoordinatorEnds)
  /\ \A g \in Gen : WF_relicVars(g \in DOMAIN workers /\ Work(g))
  /\ WF_relicVars(Recorded)
  /\ WF_relicVars(Apply) /\ WF_relicVars(OverlayTick)
  /\ WF_relicVars(OverlayStops) /\ WF_relicVars(DropEvents)
  /\ WF_relicVars(ReportStop)

RelicSpec == RelicInit /\ [][RelicNext]_relicVars /\ RelicFairness

(***************************************************************************)
(* Properties.                                                             *)
(***************************************************************************)
Stages == {"probe", "scan", "resolve", "update", "assets", "ended"}
Scenes == {"none", "Reading", "Rewards", "Suggestions", "Error"}
TriggerTypes ==
  SceneStarts \cup Control
    \cup {"ArmCapture", "CancelCapture", "GameStopped", "CloseSuggestions", "DismissSuggestions"}
Message == [type : TriggerTypes, session : 0..MaxSession, gen : 0..MaxGen, era : BOOLEAN,
            failed : BOOLEAN]
UiEvent == [type : {"RelicStart", "RelicScene", "RelicDismiss", "InteractionToggle"},
            gen : 0..MaxGen, scene : Scenes]
Owner == [generation : 0..MaxGen, current : 0..MaxGen, lastReward : BOOLEAN,
          lastSuggestion : BOOLEAN, lastEra : 0..MaxGen, opened : BOOLEAN, dismissed : BOOLEAN,
          suggesting : BOOLEAN, pending : 0..MaxGen, armed : BOOLEAN]
Context == [kind : SceneStarts \cup {"none"}, session : 0..MaxSession, era : 0..MaxGen,
            cancelled : BOOLEAN, expired : BOOLEAN]
Screen == [alive : BOOLEAN, focus : BOOLEAN, context : 0..MaxGen, scene : Scenes,
           dismissed : BOOLEAN, interactive : BOOLEAN, scope : BOOLEAN, ticking : BOOLEAN]

\* Every variable keeps its type.
RelicTypeOK ==
  /\ observed \in [number : 1..MaxSession, live : BOOLEAN, reported : BOOLEAN]
  /\ triggers \in Seq(Message)
  /\ Used(triggers, FALSE) <= DataItems /\ Used(triggers, TRUE) <= ControlItems
  /\ owner \in Owner
  /\ contexts \in [Gen -> Context]
  /\ workers \in [DOMAIN workers -> Stages] /\ DOMAIN workers \subseteq Gen
  /\ Cardinality(DOMAIN workers) <= SceneWorkers
  /\ ui \in Seq(UiEvent) /\ Len(ui) <= UiItems
  /\ screen \in Screen
  /\ reloadGate \in [requested : BOOLEAN, approved : BOOLEAN, interactive : BOOLEAN]
  /\ recording \in BOOLEAN /\ ending \in BOOLEAN

\* The WorkFinished of a worker whose thread has ended is in the inbox, whatever was
\* dropped for want of room: else its slot would be taken for good.
CompletionsArrive ==
  \A g \in DOMAIN workers : workers[g] = "ended" =>
    \E i \in DOMAIN triggers : triggers[i].type = "WorkFinished" /\ triggers[i].gen = g

\* The era kept to stand in for one that cannot be read is of the game that runs: the
\* end of a game, or a gap in what is known of it, forgets it, and no worker that ends
\* late brings it back.
EraOfThisGame ==
  owner.lastEra # 0 =>
    \/ contexts[owner.lastEra].session = observed.number /\ ~observed.reported
    \/ \E i \in DOMAIN triggers : triggers[i].type \in {"GameStopped", "IntakeGap"}

\* The coordinator cancels what it replaces: at most its own context is current.
OneCurrentContext == \A g \in Gen : ContextCurrent(g) => owner.current = g

\* A scene comes to the screen only in the context the coordinator holds, however late
\* it arrives: never in one that was replaced, closed or dismissed meanwhile.
OnlyCurrentScenes ==
  screen'.scene \notin {"none", screen.scene} =>
    screen'.context = owner.current /\ ContextCurrent(owner.current)

\* The pointer is captured only over a scene that can be used, and the reload gate
\* knows: outside a tick of the overlay.
InputReturned ==
  screen.alive =>
    /\ reloadGate.interactive = screen.interactive
    /\ screen.interactive /\ ~screen.ticking => Allowed(screen)

\* A reload is granted only when no scene that is still current is on the screen or on
\* its way to it, and nothing is left to do for a trigger.
ReloadWhenIdle ==
  reloadGate'.approved /\ ~reloadGate.approved =>
    /\ screen.scene # "none" => ~CurrentIn(contexts', screen.context)
    /\ \A i \in DOMAIN ui' : ui'[i].type = "RelicScene" => ~CurrentIn(contexts', ui'[i].gen)
    /\ DOMAIN workers' = {} /\ triggers' = <<>> /\ ~screen.interactive

\* A scene whose context has ended leaves the screen.
Overstays ==
  screen.alive /\ screen.scene # "none" /\ \E g \in Gen : screen.context = g /\ ~ContextCurrent(g)

\* A trigger that waits for a worker gets one: the workers of the contexts that were
\* cancelled end, and their messages reach the coordinator.
TriggerWaits == owner.pending # 0

\* docs/developer/companion.md:350: a build replaces the companion once relic screens,
\* interaction and captures are idle: the gate holds nothing back then.
Quiet ==
  /\ triggers = <<>> /\ DOMAIN workers = {} /\ ~owner.armed /\ ~recording /\ ~owner.suggesting
  /\ ~(screen.alive /\ screen.interactive)
  /\ \A g \in Gen : ~ContextCurrent(g)
IdleIsReplaceable == Quiet => ~reloadGate.interactive

\* At most the context of the coordinator is current; the era that stands in for an
\* unreadable one is of the game that runs; and the overlay holds the pointer over a usable
\* scene only, as the reload gate knows (relic/lifecycle.rs, overlay/runtime.rs).
ContextsInOrder == OneCurrentContext /\ EraOfThisGame /\ InputReturned

\* No scene comes to the screen in a context that was replaced, closed or dismissed, and no
\* build replaces the companion while a scene is current or on its way (relic.rs,
\* overlay/runtime.rs, runtime/reload.rs).
ScenesInOrder == [][OnlyCurrentScenes /\ ReloadWhenIdle]_relicVars

=============================================================================
