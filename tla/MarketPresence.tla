--------------------------- MODULE MarketPresence ---------------------------
(***************************************************************************)
(* wfcli_market_presence_service: the websocket that keeps the status of   *)
(* the user at warframe.market what the presence mode asks for, and that   *)
(* of the game when the mode is auto.                                      *)
(*                                                                         *)
(* The service is one process; the gun process of its connection, the      *)
(* website behind it and wfcli_player_service are the world around it.     *)
(* Messages of a connection the service has given up match no clause and   *)
(* are left out.  A restart of the player service is atomic: the service   *)
(* subscribes again a second after it.                                     *)
(***************************************************************************)
EXTENDS Integers, FiniteSets, Sequences, SequencesExt

CONSTANTS
  Good,          \* tokens the website accepts
  Bad,           \* tokens it refuses
  NoToken,       \* undefined
  Mode,          \* presence modes the user sets
  MaxMessages,   \* bound: messages of the website or of the player service in the mailbox
  MaxTimers,     \* bound: connect timers and messages
  MaxFaults      \* bound: how often something goes wrong

Token == Good \cup Bad
Presence == {"online", "ingame", "invisible"}

PresenceAssumption ==
  /\ Good \cap Bad = {} /\ NoToken \notin Token
  /\ Mode \subseteq Presence \cup {"auto"}
  /\ MaxMessages \in Nat /\ MaxTimers \in Nat \ {0} /\ MaxFaults \in Nat

VARIABLES
  token, mode, phase,
  connected,   \* connection is a pid
  status,      \* the status the website last reported, or "undefined"
  failed,      \* last_error is set
  retryTimer,  \* the timer of the field: "none", "running" or "fired"
  looseTimers, \* running connect timers the field no longer refers to
  connects,    \* connect messages in the mailbox
  player,      \* the player subscription: "subscribed", "waiting" to be made, or "lost"
  gameActive, holding,
  link,        \* the connection: "none", "opening", "open", "upgrading", "ws", "signed"
  toSite,      \* commands the website has not seen
  toService,   \* messages of the connection in the mailbox
  site,        \* the status other users see
  left,        \* a connection given up without closing it is signed in
  game,        \* the player service knows that the game runs
  playerMail,  \* its messages in the mailbox
  faults       \* how often something went wrong

timerVars  == <<retryTimer, looseTimers, connects>>
playerVars == <<player, gameActive, game, playerMail>>
linkVars   == <<link, toSite, toService, site, left>>
vars == <<token, mode, phase, connected, status, failed, holding, timerVars,
          playerVars, linkVars, faults>>

Command == [cmd : {"signIn"}, arg : Token] \cup [cmd : {"set"}, arg : Presence]
Event ==
  [kind : {"up", "upgraded", "signed", "refused", "setError", "protect", "closed"}]
    \cup [kind : {"status"}, status : Presence]

TypeOK ==
  /\ token \in Token \cup {NoToken}
  /\ mode \in Mode
  /\ phase \in {"idle", "connecting", "upgrading", "authenticating", "awaiting_status",
                "ready", "setting_status", "reconnecting", "auth_failed"}
  /\ connected \in BOOLEAN
  /\ connected <=> phase \notin {"idle", "reconnecting", "auth_failed"}
  /\ status \in Presence \cup {"undefined"}
  /\ failed \in BOOLEAN
  /\ retryTimer \in {"none", "running", "fired"}
  /\ looseTimers \in Nat /\ connects \in Nat
  /\ player \in {"subscribed", "waiting", "lost"}
  /\ gameActive \in BOOLEAN /\ holding \in BOOLEAN
  /\ link \in {"none", "opening", "open", "upgrading", "ws", "signed"}
  /\ toSite \in Seq(Command)
  /\ toService \in Seq(Event)
  /\ site \in Presence
  /\ left \in BOOLEAN
  /\ game \in BOOLEAN
  /\ playerMail \in Seq({"running", "ended", "down"})
  /\ faults \in Nat

Fault == faults < MaxFaults /\ faults' = faults + 1

-----------------------------------------------------------------------------
(* What the handlers share *)

Desired ==
  IF mode # "auto" THEN mode ELSE IF gameActive THEN "ingame" ELSE "invisible"

ShouldHold == token # NoToken /\ Desired # "invisible" /\ phase # "auth_failed"

UpdateHold == holding' = ShouldHold'

\* A command to a connection that broke is lost.
Send(c) == toSite' = IF link = "none" THEN toSite ELSE Append(toSite, c)

\* apply_desired, for the phase and the status the handler has come to.
ApplyDesired(ph, st) ==
  /\ IF ph = "ready" /\ st # Desired'
     THEN phase' = "setting_status" /\ Send([cmd |-> "set", arg |-> Desired'])
     ELSE phase' = ph /\ toSite' = toSite
  /\ UpdateHold

\* The user is offline at the website when no connection is signed in.
CloseLink ==
  /\ link' = "none" /\ toSite' = << >> /\ toService' = << >> /\ left' = left
  /\ site' = IF left THEN site ELSE "invisible"

\* disconnect(State, true), the timer of the field apart.
Disconnect == connected' = FALSE /\ CloseLink

\* disconnect(State, false): the connection is forgotten.  What was written to it
\* is still obeyed.
Forget ==
  LET signs == [cmd |-> "signIn", arg |-> token] \in Range(toSite) /\ token \in Good
      set == {c.arg : c \in {c \in Range(toSite) : c.cmd = "set"}}
  IN /\ connected' = FALSE
     /\ link' = "none" /\ toSite' = << >> /\ toService' = << >>
     /\ left' = (left \/ link = "signed" \/ signs)
     /\ site' \in {site} \cup set

\* retry, after disconnect has canceled the timer of the field.
Retry ==
  /\ IF token = NoToken THEN phase' = "idle" /\ failed' = FALSE /\ retryTimer' = "none"
     ELSE IF phase = "auth_failed"
     THEN UNCHANGED <<phase, failed>> /\ retryTimer' = "none"
     ELSE phase' = "reconnecting" /\ failed' = TRUE /\ retryTimer' = "running"
  /\ UpdateHold

-----------------------------------------------------------------------------
(* Calls, the account service and the connect message *)

SetMode(m) ==
  /\ mode' = m
  /\ failed' = FALSE
  /\ UNCHANGED <<token, connected, status, timerVars, playerVars, link, toService, site,
                 left, faults>>
  /\ ApplyDesired(phase, status)

\* Fault: the hold is not updated when the user signs in.
SignedInQuietly(t) ==
  /\ token = NoToken /\ t # NoToken
  /\ token' = t
  /\ connects < MaxTimers                                   \* bound
  /\ connects' = connects + 1
  /\ phase' = "idle" /\ failed' = FALSE
  /\ UNCHANGED <<holding, mode, connected, status, retryTimer, looseTimers, playerVars, linkVars,
                 faults>>

\* token_changed, when the user signs in,
SignedIn(t) ==
  /\ token = NoToken /\ t # NoToken
  /\ token' = t
  /\ connects < MaxTimers                                   \* bound
  /\ connects' = connects + 1
  /\ phase' = "idle" /\ failed' = FALSE
  /\ UNCHANGED <<mode, connected, status, retryTimer, looseTimers, playerVars, linkVars,
                 faults>>
  /\ UpdateHold

\* when the market sent a new token,
Refreshed(t) ==
  /\ token # NoToken /\ t \notin {token, NoToken}
  /\ token' = t
  /\ UNCHANGED <<mode, phase, connected, status, failed, holding, timerVars, playerVars,
                 linkVars, faults>>

\* and when the user signs out.
SignedOut ==
  /\ token # NoToken
  /\ token' = NoToken
  /\ Forget
  /\ retryTimer' = "none"
  /\ status' = "undefined" /\ phase' = "idle" /\ failed' = FALSE
  /\ UNCHANGED <<mode, looseTimers, connects, playerVars, faults>>
  /\ UpdateHold

\* The connect message with a connection to be made drops the timer of the field,
\* which goes on if it was that of another message.
TakeConnect ==
  /\ connects > 0
  /\ connects' = connects - 1
  /\ looseTimers' = IF retryTimer = "running" THEN looseTimers + 1 ELSE looseTimers

ConnectIdle ==
  /\ TakeConnect
  /\ token = NoToken \/ connected
  /\ retryTimer' = "none"
  /\ phase' = IF token = NoToken THEN "idle" ELSE phase
  /\ UNCHANGED <<token, mode, connected, status, failed, playerVars, linkVars, faults>>
  /\ IF token = NoToken THEN UpdateHold ELSE holding' = holding

Connect ==
  /\ TakeConnect
  /\ token # NoToken /\ ~connected
  /\ retryTimer' = "none"
  /\ connected' = TRUE /\ phase' = "connecting" /\ failed' = FALSE
  /\ UNCHANGED <<token, mode, status, playerVars, toSite, toService, site, left, faults>>
  /\ UpdateHold
  /\ link' = "opening"

\* Fault: a connection that cannot be opened is not tried again.
GiveUpConnect ==
  /\ Fault
  /\ TakeConnect
  /\ token # NoToken /\ ~connected
  /\ phase' = "reconnecting" /\ failed' = TRUE /\ retryTimer' = "none"
  /\ UNCHANGED <<token, mode, connected, status, playerVars, linkVars>>
  /\ UpdateHold

\* gun:open returns an error.
ConnectFails ==
  /\ Fault
  /\ TakeConnect
  /\ token # NoToken /\ ~connected
  /\ UNCHANGED <<token, mode, connected, status, playerVars, linkVars>>
  /\ Retry

ConnectTimerFires ==
  /\ connects < MaxTimers                                   \* bound
  /\ connects' = connects + 1
  /\ \/ /\ retryTimer = "running" /\ retryTimer' = "fired"
        /\ looseTimers' = looseTimers
     \/ /\ looseTimers > 0 /\ looseTimers' = looseTimers - 1
        /\ retryTimer' = retryTimer
  /\ UNCHANGED <<token, mode, phase, connected, status, failed, holding, playerVars,
                 linkVars, faults>>

-----------------------------------------------------------------------------
(* Messages of the connection *)

Received(kind) ==
  /\ toService # << >> /\ Head(toService).kind = kind
  /\ UNCHANGED <<token, mode, playerVars, faults>>

Taken == toService' = Tail(toService)

HandleUp ==
  /\ Received("up") /\ Taken
  /\ phase = "connecting"
  /\ phase' = "upgrading"
  /\ link' = IF link = "open" THEN "upgrading" ELSE link
  /\ UNCHANGED <<connected, status, failed, holding, timerVars, toSite, site, left>>

HandleUpgraded ==
  /\ Received("upgraded") /\ Taken
  /\ phase' = "authenticating"
  /\ Send([cmd |-> "signIn", arg |-> token])
  /\ UNCHANGED <<connected, status, failed, holding, timerVars, link, site, left>>

HandleSigned ==
  /\ Received("signed") /\ Taken
  /\ phase' = "awaiting_status" /\ failed' = FALSE
  /\ UNCHANGED <<connected, status, holding, timerVars, link, toSite, site, left>>

HandleRefused ==
  /\ Received("refused")
  /\ phase' = "auth_failed" /\ failed' = TRUE
  /\ Disconnect
  /\ retryTimer' = "none"
  /\ UNCHANGED <<status, looseTimers, connects>>
  /\ UpdateHold

\* Fault: a report of the status does not look at the desired one.
ReconcileOnly(s) ==
  /\ status' = s /\ failed' = FALSE
  /\ phase' = "ready" /\ toSite' = toSite /\ UpdateHold

\* Fault: the status is taken for what was asked for.
ReconcileDesired(s) ==
  /\ status' = Desired /\ failed' = FALSE
  /\ phase' = "ready" /\ toSite' = toSite /\ UpdateHold

\* reconcile_status
Reconcile(s) ==
  /\ status' = s /\ failed' = FALSE
  /\ ApplyDesired("ready", s)

\* event/status/set and cmd/status/set:ok
HandleStatus ==
  /\ Received("status") /\ Taken
  /\ UNCHANGED <<connected, timerVars, link, site, left>>
  /\ Reconcile(Head(toService).status)

HandleSetError ==
  /\ Received("setError") /\ Taken
  /\ phase' = "ready" /\ failed' = TRUE
  /\ UNCHANGED <<connected, status, holding, timerVars, link, toSite, site, left>>

HandleProtect ==
  /\ Received("protect") /\ Taken
  /\ failed' = TRUE
  /\ UNCHANGED <<phase, connected, status, holding, timerVars, link, toSite, site, left>>

\* gun_response, gun_error, close frames, gun_down and 'DOWN'.
HandleClosed ==
  /\ Received("closed")
  /\ Disconnect
  /\ UNCHANGED <<status, looseTimers, connects>>
  /\ Retry

-----------------------------------------------------------------------------
(* The player service *)

GameActive(kind) ==
  /\ gameActive' = (kind = "running")
  /\ ApplyDesired(phase, status)

HandlePlayer ==
  /\ playerMail # << >>
  /\ playerMail' = Tail(playerMail)
  /\ UNCHANGED <<token, mode, connected, status, failed, timerVars, game, link, toService,
                 site, left, faults>>
  /\ IF Head(playerMail) = "down"
     THEN /\ player' = "waiting" /\ gameActive' = FALSE
          /\ UNCHANGED <<phase, holding, toSite>>
     ELSE player' = player /\ GameActive(Head(playerMail))

SubscribePlayer ==
  /\ player = "waiting"
  /\ player' = "subscribed"
  /\ UNCHANGED <<token, mode, connected, status, failed, timerVars, game, playerMail, link,
                 toService, site, left, faults>>
  /\ GameActive(IF game THEN "running" ELSE "ended")

\* The player service is not up again, or refuses; nothing asks it a second time.
SubscribeFails ==
  /\ player = "waiting"
  /\ player' = "lost"
  /\ UNCHANGED <<token, mode, connected, status, failed, timerVars, game, playerMail, link,
                 toService, site, left, faults>>
  /\ GameActive("ended")

Subscribed == player = "subscribed" /\ "down" \notin Range(playerMail)

\* The companion publishes that the game started or ended.
GameChanges ==
  /\ Len(playerMail) < MaxMessages                          \* bound
  /\ game' = ~game
  /\ playerMail' = IF Subscribed
                   THEN Append(playerMail, IF game' THEN "running" ELSE "ended")
                   ELSE playerMail
  /\ UNCHANGED <<player, gameActive, token, mode, phase, connected, status, failed, holding,
                 timerVars, linkVars, faults>>

\* A new player service knows nothing of the game until the companion tells it.
PlayerRestarts ==
  /\ Fault
  /\ game' = FALSE
  /\ playerMail' = IF Subscribed THEN Append(playerMail, "down") ELSE playerMail
  /\ UNCHANGED <<player, gameActive, token, mode, phase, connected, status, failed, holding,
                 timerVars, linkVars>>

-----------------------------------------------------------------------------
(* The connection and the website *)

service == <<token, mode, phase, connected, status, failed, holding, timerVars, playerVars>>

Opens ==
  /\ link = "opening"
  /\ link' = "open"
  /\ toService' = Append(toService, [kind |-> "up"])
  /\ UNCHANGED <<service, toSite, site, left, faults>>

Upgrades ==
  /\ link = "upgrading"
  /\ link' = "ws"
  /\ toService' = Append(toService, [kind |-> "upgraded"])
  /\ UNCHANGED <<service, toSite, site, left, faults>>

\* After a sign-in the website reports the status.
AnswersSignIn ==
  /\ toSite # << >> /\ Head(toSite).cmd = "signIn"
  /\ toSite' = Tail(toSite)
  /\ IF Head(toSite).arg \in Good
     THEN /\ link' = "signed"
          /\ toService' = toService \o <<[kind |-> "signed"], [kind |-> "status", status |-> site]>>
     ELSE link' = link /\ toService' = Append(toService, [kind |-> "refused"])
  /\ UNCHANGED <<service, site, left, faults>>

AnswersSet ==
  /\ toSite # << >> /\ Head(toSite).cmd = "set"
  /\ toSite' = Tail(toSite)
  /\ \/ /\ site' = Head(toSite).arg
        /\ toService' = Append(toService, [kind |-> "status", status |-> site'])
        /\ faults' = faults
     \/ /\ Fault
        /\ toService' = Append(toService, [kind |-> "setError"])
        /\ site' = site
  /\ UNCHANGED <<service, link, left>>

\* Another client of the user changes the status.
SiteChanges ==
  /\ link = "signed"
  /\ Len(toSite) + Len(toService) < MaxMessages             \* bound
  /\ \E s \in Presence : site' = s
  /\ toService' = Append(toService, [kind |-> "status", status |-> site'])
  /\ UNCHANGED <<service, link, toSite, left, faults>>

\* The website reports a failure that is the answer to no command.
Protests ==
  /\ Fault
  /\ link = "signed"
  /\ toService' = Append(toService, [kind |-> "protect"])
  /\ UNCHANGED <<service, link, toSite, site, left>>

Breaks ==
  /\ Fault
  /\ link # "none"
  /\ link' = "none" /\ toSite' = << >>
  /\ toService' = Append(toService, [kind |-> "closed"])
  /\ site' = IF left THEN site ELSE "invisible"
  /\ UNCHANGED <<service, left>>

LeftCloses ==
  /\ left
  /\ left' = FALSE
  /\ site' = IF link = "signed" THEN site ELSE "invisible"
  /\ UNCHANGED <<service, link, toSite, toService, faults>>

-----------------------------------------------------------------------------
\* Every connection ends with the process that opened it.  init/1 reads the mode
\* from its file and the token from the account service.
Starts ==
  /\ phase' = "idle" /\ connected' = FALSE /\ status' = "undefined" /\ failed' = FALSE
  /\ retryTimer' = "none" /\ looseTimers' = 0 /\ connects' = 1
  /\ player' = "subscribed" /\ gameActive' = game /\ playerMail' = << >>
  /\ link' = "none" /\ toSite' = << >> /\ toService' = << >>
  /\ site' = "invisible" /\ left' = FALSE
  /\ UpdateHold

Restart ==
  /\ Fault
  /\ UNCHANGED <<token, mode, game>>
  /\ Starts

Init ==
  /\ token \in Token \cup {NoToken}
  /\ mode \in Mode
  /\ phase = "idle" /\ connected = FALSE /\ status = "undefined" /\ failed = FALSE
  /\ retryTimer = "none" /\ looseTimers = 0 /\ connects = 1
  /\ player = "subscribed" /\ game = FALSE /\ gameActive = FALSE /\ playerMail = << >>
  /\ link = "none" /\ toSite = << >> /\ toService = << >>
  /\ site = "invisible" /\ left = FALSE
  /\ holding = ShouldHold
  /\ faults = 0

HandleEvent ==
  \/ HandleUp \/ HandleUpgraded \/ HandleSigned \/ HandleRefused \/ HandleStatus
  \/ HandleSetError \/ HandleProtect \/ HandleClosed

ServiceStep ==
  \/ \E m \in Mode : SetMode(m)
  \/ \E t \in Token : SignedIn(t) \/ Refreshed(t)
  \/ SignedOut \/ ConnectIdle \/ Connect \/ ConnectFails \/ ConnectTimerFires
  \/ HandleEvent \/ HandlePlayer \/ SubscribePlayer \/ SubscribeFails \/ Restart

WorldStep ==
  \/ GameChanges \/ PlayerRestarts
  \/ Opens \/ Upgrades \/ AnswersSignIn \/ AnswersSet \/ SiteChanges \/ Protests
  \/ Breaks \/ LeftCloses

Next == ServiceStep \/ WorldStep

\* Messages are handled, timers fire, and the network and the website answer.
Fairness ==
  /\ WF_vars(ConnectIdle \/ Connect) /\ WF_vars(ConnectTimerFires)
  /\ WF_vars(HandleEvent) /\ WF_vars(HandlePlayer) /\ WF_vars(SubscribePlayer)
  /\ WF_vars(Opens) /\ WF_vars(Upgrades) /\ WF_vars(AnswersSignIn) /\ WF_vars(AnswersSet)

Spec == Init /\ [][Next]_vars
FairSpec == Spec /\ Fairness

(***************************************************************************)
(* What the service promises.                                              *)
(***************************************************************************)
\* While a user is signed in whose token was not refused, there is a connection,
\* or a timer or message that will make one: no failure, in whichever phase, and
\* no sign-in that crosses it leaves the user disconnected for good.
NeverAdrift ==
  token # NoToken /\ phase # "auth_failed" =>
    connected \/ connects > 0 \/ retryTimer = "running" \/ looseTimers > 0

\* The hold on the daemon is what the token, the mode and the game ask for, except
\* in the second after the player service ended.
HoldMatches == player # "waiting" => holding = ShouldHold

\* The service rests only when the website has said that the status is the one
\* desired, although the mode, the game and the website change it at any time.
ReadyMeansDesired ==
  phase = "ready" /\ ~failed /\ player # "waiting" => status = Desired

\* When nothing is under way, what the service shows is what others see.
StatusIsTrue ==
  link = "signed" /\ phase \in {"ready", "setting_status"}
    /\ toSite = << >> /\ toService = << >> => site = status

\* With a token the website accepts, a mode and a game that stay as they are, no
\* error that the service reports, and the player service heard of, the status comes
\* to be the one desired.
PresenceFollows ==
  /\ <>[](token \in Good /\ phase # "auth_failed" /\ ~failed /\ player # "lost")
  /\ <>[][FALSE]_<<mode, game>>
  => []<>(site = (IF mode # "auto" THEN mode ELSE IF game THEN "ingame" ELSE "invisible"))

=============================================================================
