-------------------------- MODULE MCDaemonServices --------------------------
(***************************************************************************)
(* Small instances of HotUpdates and of MarketPresence for TLC.  They share *)
(* no state, so a behaviour moves only one of them, service: interleaving  *)
(* them would only multiply their states.                                  *)
(***************************************************************************)
EXTENDS HotUpdates

CONSTANTS s1, s2, d, good, bad, Services

\* Of wfcli_market_presence_service.
CONSTANTS Good, Bad, NoToken, Mode, MaxMessages, MaxTimers, MaxFaults

VARIABLES
  service,
  \* of wfcli_market_presence_service
  token, mode, phase, connected, status, failed, retryTimer, looseTimers, connects,
  player, gameActive, holding, link, toSite, toService, site, left, game, playerMail,
  faults

presenceVars ==
  <<token, mode, phase, connected, status, failed, retryTimer, looseTimers, connects,
    player, gameActive, holding, link, toSite, toService, site, left, game, playerMail,
    faults>>
daemonServicesVars == <<service, updatesVars, presenceVars>>

Presences == INSTANCE MarketPresence

ASSUME UserAssumption == Presences!PresenceAssumption

\* child_specs/0 has wfcli_daemon last.
DaemonLast == <<s1, s2, d>>

ServicesInit ==
  /\ service \in Services /\ UpdatesInit /\ Presences!Init
  /\ service # "presence" => token = NoToken /\ mode = "auto"

\* Updates one at a time.
UpdateStep ==
  /\ service = "update" /\ UpdatesNext /\ ~overlapped'
  /\ UNCHANGED <<service, presenceVars>>

\* Two updaters at once.  Bounds: one build, and slow services answer at once; the
\* second updater starts while services are suspended; from then on no handler begins,
\* no service crashes and no update starts, until the two are over.
PairStep ==
  /\ service = "pair"
  /\ \/ Proceeds /\ \A s \in Slow : ~FirstTimesOut(s) /\ ~SecondTimesOut(s)
     \/ /\ ~overlapped
        /\ \/ FirstStarts
           \/ suspended # << >> /\ SecondStarts
           \/ Works
           \/ \E s \in Service : Crashes(s)
        /\ staged' <= 1 /\ \A s \in Service : proc'[s].work # "busy"
     \/ overlapped /\ {pc, pc2} \subseteq {"none", "done"} /\ UNCHANGED updatesVars
  /\ UNCHANGED <<service, presenceVars>>

PresenceStep == service = "presence" /\ Presences!Next /\ UNCHANGED <<service, updatesVars>>

ServicesNext == UpdateStep \/ PairStep \/ PresenceStep

ServicesSpec == ServicesInit /\ [][ServicesNext]_daemonServicesVars

Of(step) == service = "presence" /\ step

\* That of MarketPresence, in the behaviours that move it; the updates of one that does
\* not move them are over, which is fair.
PresenceFairness ==
  /\ WF_presenceVars(Of(Presences!ConnectIdle \/ Presences!Connect))
  /\ WF_presenceVars(Of(Presences!ConnectTimerFires))
  /\ WF_presenceVars(Of(Presences!HandleEvent)) /\ WF_presenceVars(Of(Presences!HandlePlayer))
  /\ WF_presenceVars(Of(Presences!SubscribePlayer)) /\ WF_presenceVars(Of(Presences!Opens))
  /\ WF_presenceVars(Of(Presences!Upgrades)) /\ WF_presenceVars(Of(Presences!AnswersSignIn))
  /\ WF_presenceVars(Of(Presences!AnswersSet))

ServicesFairSpec == ServicesSpec /\ UpdatesFairness /\ PresenceFairness

(***************************************************************************)
(* What the services promise.                                              *)
(***************************************************************************)
\* Every variable of the two models keeps its type.
ServicesTypeOK == TypeOK /\ Second!TypeOK /\ Presences!TypeOK

\* wfcli_hot_update: wherever an update fails, later updates are not refused for it.  And
\* until the first time that two updaters run at once, a failed migration is not forgotten,
\* no service that answers in time stays suspended, and the new build identity is committed
\* only when every service has migrated.
UpdatesSafe == [](AloneSafe /\ NeverLockedOut) /\ AloneCommitsMigrated

\* wfcli_market_presence_service: a signed-in user is connected, or will be; the hold on the
\* daemon follows the token, the mode and the game; and the service rests only at the status
\* desired, and shows what others see.
PresenceTrue ==
  /\ Presences!NeverAdrift /\ Presences!HoldMatches
  /\ Presences!ReadyMeansDesired /\ Presences!StatusIsTrue

\* An update comes to a result, though the updater and wfcli_daemon may both be waiting for
\* services that are suspended; and the status of the user comes to be the one desired.
ServicesSettle == EachUpdateFinishes /\ (service = "presence" => Presences!PresenceFollows)

=============================================================================
