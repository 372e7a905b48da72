----------------------------- MODULE MCCompanion -----------------------------
(***************************************************************************)
(* Small instances of the parts of wfcompanion for TLC.  A part is a       *)
(* thread, or the threads and queues that belong together; what the other  *)
(* parts and the game do to it is among its actions.  So a behaviour moves *)
(* only one of them, part: interleaving them would only multiply states.   *)
(* The parts that there are theorems about are extended; the last is an    *)
(* instance.                                                               *)
(***************************************************************************)
EXTENDS RelicScenes, CompanionRuntime, EvidenceCaptures, CompanionDiagnostics, Observer,
        OverlaySurface, TLC

CONSTANTS
  c1, c2, w1, w2,
  Parts   \* the parts that move

VARIABLES
  part,
  \* ResponseSampler
  text, at, account, current, samplerStops, parses, sampling, place, got, remembered,
  known, recheck, emits, samples, decoder, inventories, published, accountHeard

samplerVars == <<text, at, account, current, samplerStops, parses, sampling, place, got,
                 remembered, known, recheck, emits, samples, decoder, inventories,
                 published, accountHeard>>
vars == <<part, relicVars, observerVars, overlayVars, runtimeVars, requestVars,
          diagnosticVars, captureVars, samplerVars>>

Sampler == INSTANCE ResponseSampler WITH
  phase <- sampling, stopping <- samplerStops, mailbox <- samples, decoded <- inventories,
  heard <- accountHeard

\* Two responses of the game, of which one is large.
BothInventories == {1, 2}
SecondIsLarge == {2}
FirstOnly == {1}

\* A part that does not move stays in one initial state.
Init ==
  /\ part \in Parts
  /\ RelicInit /\ ObserverInit /\ OverlayInit
  /\ RuntimeInit /\ RequestsInit /\ DiagnosticsInit
  /\ CapturesInit /\ Sampler!SamplerInit
  /\ part # "relic" => triggers = <<>>
  /\ part # "observer" => played.now = 0
  /\ part # "overlay" => hud = "Hidden"
  /\ part # "runtime" => ~launch
  /\ part # "sampler" => ~parses

RelicStep ==
  /\ part = "relic" /\ RelicNext
  /\ UNCHANGED <<part, observerVars, overlayVars, runtimeVars, requestVars, diagnosticVars,
                 captureVars, samplerVars>>
ObserverStep ==
  /\ part = "observer" /\ ObserverNext
  /\ UNCHANGED <<part, relicVars, overlayVars, runtimeVars, requestVars, diagnosticVars,
                 captureVars, samplerVars>>
OverlayStep ==
  /\ part = "overlay" /\ OverlayNext
  /\ UNCHANGED <<part, relicVars, observerVars, runtimeVars, requestVars, diagnosticVars,
                 captureVars, samplerVars>>
RuntimeStep ==
  /\ part = "runtime" /\ RuntimeNext
  /\ UNCHANGED <<part, relicVars, observerVars, overlayVars, requestVars, diagnosticVars,
                 captureVars, samplerVars>>
RequestsStep ==
  /\ part = "requests" /\ RequestsNext
  /\ UNCHANGED <<part, relicVars, observerVars, overlayVars, runtimeVars, diagnosticVars,
                 captureVars, samplerVars>>
DiagnosticsStep ==
  /\ part = "diagnostics" /\ DiagnosticsNext
  /\ UNCHANGED <<part, relicVars, observerVars, overlayVars, runtimeVars, requestVars,
                 captureVars, samplerVars>>
CapturesStep ==
  /\ part = "captures" /\ CapturesNext
  /\ UNCHANGED <<part, relicVars, observerVars, overlayVars, runtimeVars, requestVars,
                 diagnosticVars, samplerVars>>
SamplerStep ==
  /\ part = "sampler" /\ Sampler!SamplerNext
  /\ UNCHANGED <<part, relicVars, observerVars, overlayVars, runtimeVars, requestVars,
                 diagnosticVars, captureVars>>

Next ==
  \/ RelicStep \/ ObserverStep \/ OverlayStep \/ RuntimeStep
  \/ RequestsStep \/ DiagnosticsStep \/ CapturesStep \/ SamplerStep

Spec == Init /\ [][Next]_vars

\* The part that moves is fair, as its module says (RelicFairness, ...).
FairSpec ==
  /\ Spec
  /\ WF_relicVars(part = "relic" /\ Iterate)
  /\ WF_relicVars(part = "relic" /\ CoordinatorEnds)
  /\ \A g \in 1..MaxGen : WF_relicVars(part = "relic" /\ g \in DOMAIN workers /\ Work(g))
  /\ WF_relicVars(part = "relic" /\ Recorded)
  /\ WF_relicVars(part = "relic" /\ Apply)
  /\ WF_relicVars(part = "relic" /\ OverlayTick)
  /\ WF_relicVars(part = "relic" /\ OverlayStops)
  /\ WF_relicVars(part = "relic" /\ DropEvents)
  /\ WF_relicVars(part = "relic" /\ ReportStop)
  /\ WF_observerVars(part = "observer" /\ Loop)
  /\ SF_observerVars(part = "observer" /\ Receive /\ observing' = "scan")
  /\ WF_observerVars(part = "observer" /\ EndOfInput)
  /\ \A c \in Collectors : WF_observerVars(part = "observer" /\ DelayEnds(c))
  /\ WF_overlayVars(part = "overlay" /\ Dispatched)
  /\ WF_overlayVars(part = "overlay" /\ Prepare)
  /\ WF_overlayVars(part = "overlay" /\ Sync)
  /\ WF_overlayVars(part = "overlay" /\ LoaderTakes)
  /\ WF_overlayVars(part = "overlay" /\ LoaderEnds)
  /\ SF_overlayVars(part = "overlay" /\ Configured)
  /\ WF_overlayVars(part = "overlay" /\ Releases)
  /\ WF_runtimeVars(part = "runtime" /\ Main)
  /\ WF_runtimeVars(part = "runtime" /\ GameReaped)
  /\ WF_runtimeVars(part = "runtime" /\ WatchLooks)
  /\ WF_runtimeVars(part = "runtime" /\ Approves)
  /\ WF_requestVars(part = "requests" /\ halting /\ (ConnectFails \/ End \/ Halt))
  /\ WF_requestVars(part = "requests" /\ closing /\ (Break \/ Flushed))
  /\ WF_diagnosticVars(part = "diagnostics" /\ Arrives)
  /\ WF_diagnosticVars(part = "diagnostics" /\ Obeys)
  /\ WF_diagnosticVars(part = "diagnostics" /\ Samples)
  /\ WF_diagnosticVars(part = "diagnostics" /\ Replied)
  /\ WF_diagnosticVars(part = "diagnostics" /\ Consumes)
  /\ \A r \in Recording : WF_captureVars(part = "captures" /\ Works(r))
  /\ WF_samplerVars(part = "sampler" /\ Sampler!SamplerSteps)
  /\ WF_samplerVars(part = "sampler" /\ Sampler!DecoderSteps)

(***************************************************************************)
(* What the parts promise.                                                 *)
(***************************************************************************)
\* Every variable of a part keeps its type, and every queue its bound.
TypeOK ==
  CASE part = "relic" -> RelicTypeOK
    [] part = "observer" -> ObserverTypeOK
    [] part = "overlay" -> OverlayTypeOK
    [] part = "runtime" -> RuntimeTypeOK
    [] part = "requests" -> RequestsTypeOK
    [] part = "diagnostics" -> DiagnosticsTypeOK
    [] part = "captures" -> CapturesTypeOK
    [] part = "sampler" -> Sampler!SamplerTypeOK

\* After the last disturbance: the collectors of a game that runs are back (observer.rs),
\* the screen shows what is wanted with its images (overlay), the installed build runs or
\* was refused, unless the watcher for builds failed or the companion is busy again and
\* again (runtime/reload.rs), and the inventory and account that the game holds are
\* published (observation/gep.rs).
PartsSettle ==
  \/ []<>(part = "runtime" /\ ~idle)
  \/ <>[](CASE part = "observer" -> CollectorsBack
            [] part = "overlay" -> Settled
            [] part = "runtime" -> HadItsTurn
            [] part = "sampler" -> Sampler!Arrived
            [] OTHER -> TRUE)

\* What is due: a context that ended leaves the screen and a waiting trigger gets a worker
\* (relic); dropped records are told (observer); the end of a launched game ends the
\* companion (runtime); a companion that stops leaves the daemon (daemon.rs); a client
\* that consumes gets more or the end (diagnostics); a recording ends (evidence.rs).
Due ==
  CASE part = "relic" -> Overstays \/ TriggerWaits
    [] part = "observer" -> GapToTell
    [] part = "runtime" -> OutlivesGame
    [] part = "requests" -> Lingers
    [] part = "diagnostics" -> Expects(w1)
    [] part = "captures" -> Underway # {}
    [] OTHER -> FALSE
NothingStaysDue == Due ~> ~Due

=============================================================================
