------------------------ MODULE DaemonServicesProofs ------------------------
(***************************************************************************)
(* Proofs about the hot update and the market presence service, for any    *)
(* services, tokens, modes and bounds.  The two share no state, so each    *)
(* has an inductive invariant of its own.                                  *)
(***************************************************************************)
EXTENDS MCDaemonServices, SequenceTheorems, FiniteSetTheorems, TLAPS

-----------------------------------------------------------------------------
(***************************************************************************)
(* wfcli_market_presence_service                                           *)
(***************************************************************************)
\* A mailbox without a report of the status,
NoReport(q) == \A i \in DOMAIN q : q[i].kind # "status"

\* and one whose last report is s.
LastReport(q, s) ==
  \E i \in DOMAIN q :
    /\ q[i] = [kind |-> "status", status |-> s]
    /\ \A j \in DOMAIN q : j > i => q[j].kind # "status"

\* The status others see has been taken from the mailbox, or is the last in it.
StatusKnown ==
  link = "signed" =>
    \/ NoReport(toService) /\ status = site
    \/ LastReport(toService, site)

\* Without a connection nothing is under way, and there is none without a token.
Quiet ==
  /\ ~connected => link = "none" /\ toSite = << >> /\ toService = << >>
  /\ connected => token # NoToken

PresenceInv ==
  /\ Presences!TypeOK /\ Quiet /\ StatusKnown
  /\ Presences!NeverAdrift /\ Presences!HoldMatches /\ Presences!ReadyMeansDesired

\* A report that arrives is the last one, and another message leaves it the last.
LEMMA AppendReport ==
  ASSUME NEW S, NEW q \in Seq(S), NEW e \in S, NEW s
  PROVE  /\ e = [kind |-> "status", status |-> s] => LastReport(Append(q, e), s)
         /\ e.kind # "status" =>
              /\ NoReport(q) => NoReport(Append(q, e))
              /\ LastReport(q, s) => LastReport(Append(q, e), s)
<1> DEFINE r == Append(q, e)
<1>1. /\ Len(r) = Len(q) + 1 /\ Len(q) \in Nat /\ DOMAIN r = 1..Len(r)
      /\ DOMAIN q = 1..Len(q)
      /\ \A i \in 1..Len(q) : r[i] = q[i]
      /\ r[Len(q) + 1] = e
  BY AppendProperties
<1> HIDE DEF r
<1>2. CASE e = [kind |-> "status", status |-> s]
  <2>1. Len(q) + 1 \in DOMAIN r /\ \A j \in DOMAIN r : ~(j > Len(q) + 1)
    BY <1>1
  <2>2. LastReport(r, s)
    BY <2>1, <1>1, <1>2 DEF LastReport
  <2> QED
    BY <2>2, <1>2 DEF r
<1>3. CASE e.kind # "status"
  <2>1. \A j \in DOMAIN r : \/ j \in DOMAIN q /\ r[j] = q[j]
                            \/ j = Len(q) + 1 /\ r[j] = e
    BY <1>1
  <2>2. ASSUME NoReport(q) PROVE NoReport(r)
    BY <2>1, <2>2, <1>3 DEF NoReport
  <2>3. ASSUME LastReport(q, s) PROVE LastReport(r, s)
    <3>1. PICK i \in DOMAIN q : /\ q[i] = [kind |-> "status", status |-> s]
                                /\ \A j \in DOMAIN q : j > i => q[j].kind # "status"
      BY <2>3 DEF LastReport
    <3>2. i \in DOMAIN r /\ r[i] = q[i]
      BY <1>1
    <3>3. \A j \in DOMAIN r : j > i => r[j].kind # "status"
      BY <2>1, <3>1, <1>3
    <3> QED
      BY <3>1, <3>2, <3>3 DEF LastReport
  <2> QED
    BY <1>3, <2>2, <2>3 DEF r
<1> QED
  BY <1>2, <1>3

\* A report that is taken is the last one or is followed by it.
LEMMA TakeReport ==
  ASSUME NEW S, NEW q \in Seq(S), q # << >>, NEW s
  PROVE  /\ Head(q).kind # "status" /\ NoReport(q) => NoReport(Tail(q))
         /\ Head(q).kind = "status" => ~NoReport(q)
         /\ LastReport(q, s) =>
              \/ LastReport(Tail(q), s)
              \/ NoReport(Tail(q)) /\ Head(q) = [kind |-> "status", status |-> s]
<1> DEFINE r == Tail(q)
<1>1. /\ Len(q) \in Nat /\ Len(q) > 0 /\ Len(r) = Len(q) - 1
      /\ DOMAIN q = 1..Len(q) /\ DOMAIN r = 1..Len(r)
      /\ \A i \in 1..Len(r) : r[i] = q[i + 1]
      /\ Head(q) = q[1]
  BY EmptySeq, HeadTailProperties
<1> HIDE DEF r
<1>2. /\ 1 \in DOMAIN q
      /\ \A j \in DOMAIN r : j + 1 \in DOMAIN q /\ r[j] = q[j + 1] /\ j \in Nat
  BY <1>1
<1>3. NoReport(q) => NoReport(r)
  BY <1>2 DEF NoReport
<1>4. Head(q).kind = "status" => ~NoReport(q)
  BY <1>1, <1>2 DEF NoReport
<1>5. ASSUME LastReport(q, s)
      PROVE  LastReport(r, s)
             \/ (NoReport(r) /\ Head(q) = [kind |-> "status", status |-> s])
  <2>1. PICK i \in DOMAIN q : /\ q[i] = [kind |-> "status", status |-> s]
                              /\ \A j \in DOMAIN q : j > i => q[j].kind # "status"
    BY <1>5 DEF LastReport
  <2>2. CASE i = 1
    <3>1. \A j \in DOMAIN r : r[j].kind # "status"
      <4> TAKE j \in DOMAIN r
      <4>1. j + 1 \in DOMAIN q /\ r[j] = q[j + 1] /\ j + 1 > 1
        BY <1>1, <1>2
      <4> QED
        BY <4>1, <2>1, <2>2
    <3> QED
      BY <3>1, <2>1, <2>2, <1>1 DEF NoReport
  <2>3. CASE i # 1
    <3>1. i - 1 \in DOMAIN r /\ r[i - 1] = q[i]
      BY <1>1, <2>3
    <3>2. \A j \in DOMAIN r : j > i - 1 => r[j].kind # "status"
      <4> TAKE j \in DOMAIN r
      <4> HAVE j > i - 1
      <4>1. j + 1 \in DOMAIN q /\ r[j] = q[j + 1] /\ j + 1 > i
        BY <1>1, <1>2
      <4> QED
        BY <4>1, <2>1
    <3> QED
      BY <3>1, <3>2, <2>1 DEF LastReport
  <2> QED
    BY <2>2, <2>3
<1> QED
  BY <1>3, <1>4, <1>5 DEF r

-----------------------------------------------------------------------------
\* The type invariant in two parts, which the provers handle better.
PhaseOK ==
  /\ phase \in {"idle", "connecting", "upgrading", "authenticating", "awaiting_status",
                "ready", "setting_status", "reconnecting", "auth_failed"}
  /\ connected \in BOOLEAN
  /\ connected <=> phase \notin {"idle", "reconnecting", "auth_failed"}

RestOK ==
  /\ token \in Presences!Token \cup {NoToken}
  /\ mode \in Mode
  /\ status \in Presences!Presence \cup {"undefined"}
  /\ failed \in BOOLEAN
  /\ retryTimer \in {"none", "running", "fired"}
  /\ looseTimers \in Nat /\ connects \in Nat
  /\ player \in {"subscribed", "waiting", "lost"}
  /\ gameActive \in BOOLEAN /\ holding \in BOOLEAN
  /\ link \in {"none", "opening", "open", "upgrading", "ws", "signed"}
  /\ toSite \in Seq(Presences!Command)
  /\ toService \in Seq(Presences!Event)
  /\ site \in Presences!Presence
  /\ left \in BOOLEAN
  /\ game \in BOOLEAN
  /\ playerMail \in Seq({"running", "ended", "down"})
  /\ faults \in Nat

\* The parts again, to prove the invariant by.
LEMMA PresenceParts ==
  PhaseOK' /\ RestOK' /\ Quiet' /\ StatusKnown' /\ Presences!NeverAdrift'
    /\ Presences!HoldMatches' /\ Presences!ReadyMeansDesired' => PresenceInv'
BY DEF PhaseOK, RestOK, Presences!TypeOK, PresenceInv

USE DEF PresenceInv, Quiet, Presences!TypeOK, Presences!timerVars, Presences!playerVars,
        Presences!linkVars, Presences!service

\* The service starts idle, and with nothing under way.
LEMMA PresenceInit == Presences!PresenceAssumption /\ Presences!Init => PresenceInv
<1> SUFFICES ASSUME Presences!PresenceAssumption, Presences!Init PROVE PresenceInv
  OBVIOUS
<1>1. Presences!TypeOK
  <2>1. /\ connected \in BOOLEAN /\ failed \in BOOLEAN /\ gameActive \in BOOLEAN
        /\ left \in BOOLEAN /\ game \in BOOLEAN /\ ~connected
    BY Zenon DEF Presences!Init
  <2>2. holding \in BOOLEAN
    BY Zenon DEF Presences!Init, Presences!ShouldHold
  <2>3. /\ toSite \in Seq(Presences!Command) /\ toService \in Seq(Presences!Event)
        /\ playerMail \in Seq({"running", "ended", "down"})
    BY EmptySeq DEF Presences!Init
  <2>4. site \in Presences!Presence
    BY DEF Presences!Init, Presences!Presence
  <2> QED
    BY <2>1, <2>2, <2>3, <2>4 DEF Presences!Init, Presences!TypeOK
<1>2. Quiet /\ StatusKnown
  BY DEF Presences!Init, Quiet, StatusKnown
<1>3. Presences!NeverAdrift /\ Presences!HoldMatches /\ Presences!ReadyMeansDesired
  BY DEF Presences!Init, Presences!NeverAdrift, Presences!HoldMatches,
         Presences!ReadyMeansDesired
<1> QED
  BY <1>1, <1>2, <1>3 DEF PresenceInv

\* The desired status is one of the statuses.
LEMMA DesiredTyped ==
  ASSUME Presences!PresenceAssumption, mode \in Mode
  PROVE  Presences!Desired \in Presences!Presence
BY DEF Presences!PresenceAssumption, Presences!Desired, Presences!Presence

\* After apply_desired the service is ready only at the status desired.
LEMMA ApplyDesiredProperties ==
  ASSUME Presences!PresenceAssumption, Presences!TypeOK, Quiet, mode' \in Mode,
         NEW ph, NEW st, Presences!ApplyDesired(ph, st)
  PROVE  /\ toSite' \in Seq(Presences!Command)
         /\ ~connected => toSite' = toSite
         /\ phase' = ph \/ (ph = "ready" /\ phase' = "setting_status")
         /\ phase' = "ready" => st = Presences!Desired'
         /\ holding' = Presences!ShouldHold' /\ holding' \in BOOLEAN
<1>1. Presences!Desired' \in Presences!Presence
  BY DEF Presences!PresenceAssumption, Presences!Desired, Presences!Presence
<1>2. [cmd |-> "set", arg |-> Presences!Desired'] \in Presences!Command
  BY <1>1 DEF Presences!Command
<1>3. toSite \in Seq(Presences!Command)
  BY DEF Presences!TypeOK
<1>4. toSite' \in Seq(Presences!Command)
  <2>1. toSite' \in {toSite, Append(toSite, [cmd |-> "set", arg |-> Presences!Desired'])}
    BY DEF Presences!ApplyDesired, Presences!Send
  <2> QED
    BY <1>2, <1>3, <2>1, AppendProperties
<1>5. ~connected => toSite' = toSite
  BY DEF Presences!ApplyDesired, Presences!Send, Quiet
<1>6. holding' = Presences!ShouldHold' /\ holding' \in BOOLEAN
  BY Zenon DEF Presences!ApplyDesired, Presences!UpdateHold, Presences!ShouldHold
<1>7. /\ phase' = ph \/ (ph = "ready" /\ phase' = "setting_status")
      /\ phase' = "ready" => st = Presences!Desired'
  BY DEF Presences!ApplyDesired
<1> QED
  BY <1>4, <1>5, <1>6, <1>7

\* What a set command asks for is a status.
LEMMA SetInPresence ==
  ASSUME NEW q \in Seq(Presences!Command)
  PROVE  \A c \in Presences!Range(q) : c.cmd = "set" => c.arg \in Presences!Presence
<1>1. \A i \in DOMAIN q : q[i] \in Presences!Command
  OBVIOUS
<1>2. \A c \in Presences!Command : c.cmd = "set" => c.arg \in Presences!Presence
  BY DEF Presences!Command
<1> QED
  BY <1>1, <1>2 DEF Presences!Range

\* The account service announces a sign-in: the service connects.
LEMMA SignedInSafe ==
  ASSUME Presences!PresenceAssumption, PresenceInv, NEW t \in Presences!Token,
         Presences!SignedIn(t)
  PROVE  PresenceInv'
<1>1. holding' \in BOOLEAN /\ failed' \in BOOLEAN
  BY Zenon DEF Presences!SignedIn, Presences!UpdateHold, Presences!ShouldHold
<1>2. PhaseOK'
  BY <1>1 DEF PhaseOK, Presences!SignedIn, Presences!UpdateHold
<1>3. RestOK'
  BY <1>1 DEF RestOK, Presences!SignedIn
<1>4. Quiet' /\ StatusKnown'
  BY <1>1
     DEF StatusKnown, NoReport, LastReport, Presences!SignedIn, Presences!UpdateHold
<1>5. Presences!NeverAdrift' /\ Presences!HoldMatches' /\ Presences!ReadyMeansDesired'
  BY <1>1
     DEF Presences!NeverAdrift, Presences!HoldMatches, Presences!ReadyMeansDesired,
         Presences!ShouldHold, Presences!Desired, Presences!SignedIn,
         Presences!UpdateHold
<1> QED
  BY PresenceParts, <1>2, <1>3, <1>4, <1>5

\* A token that replaces a token changes nothing else.
LEMMA RefreshedSafe ==
  ASSUME Presences!PresenceAssumption, PresenceInv, NEW t \in Presences!Token,
         Presences!Refreshed(t)
  PROVE  PresenceInv'
<1>1. PhaseOK'
  BY DEF PhaseOK, Presences!Refreshed
<1>2. RestOK'
  BY DEF RestOK, Presences!Refreshed
<1>3. Quiet' /\ StatusKnown'
  BY DEF StatusKnown, NoReport, LastReport, Presences!Refreshed
<1>4. Presences!NeverAdrift' /\ Presences!HoldMatches' /\ Presences!ReadyMeansDesired'
  BY DEF Presences!NeverAdrift, Presences!HoldMatches, Presences!ReadyMeansDesired,
         Presences!ShouldHold, Presences!Desired, Presences!Refreshed
<1> QED
  BY PresenceParts, <1>1, <1>2, <1>3, <1>4

\* A sign-out drops the connection and what is under way on it.
LEMMA SignedOutSafe ==
  ASSUME Presences!PresenceAssumption, PresenceInv, Presences!SignedOut
  PROVE  PresenceInv'
<1>1. holding' \in BOOLEAN /\ failed' \in BOOLEAN
  BY Zenon DEF Presences!SignedOut, Presences!UpdateHold, Presences!ShouldHold
<1>2. site' \in Presences!Presence
  BY SetInPresence
     DEF Presences!SignedOut, Presences!Presence, Presences!Forget, Presences!Command
<1>3. /\ connected' = FALSE /\ link' = "none" /\ toSite' = << >> /\ toService' = << >>
      /\ left' \in BOOLEAN
  BY DEF Presences!SignedOut, Presences!Forget
<1>4. PhaseOK'
  BY <1>1, <1>2, <1>3
     DEF PhaseOK, Presences!SignedOut, Presences!UpdateHold, Presences!Forget
<1>5. RestOK'
  BY <1>1, <1>2, <1>3 DEF RestOK, Presences!SignedOut
<1>6. Quiet' /\ StatusKnown'
  BY <1>1, <1>2, <1>3
     DEF StatusKnown, NoReport, LastReport, Presences!SignedOut, Presences!UpdateHold,
         Presences!Forget
<1>7. Presences!NeverAdrift' /\ Presences!HoldMatches' /\ Presences!ReadyMeansDesired'
  BY <1>1, <1>2, <1>3
     DEF Presences!NeverAdrift, Presences!HoldMatches, Presences!ReadyMeansDesired,
         Presences!ShouldHold, Presences!Desired, Presences!SignedOut,
         Presences!UpdateHold, Presences!Forget
<1> QED
  BY PresenceParts, <1>4, <1>5, <1>6, <1>7

\* A connect message without a token leaves the service idle.
LEMMA ConnectIdleSafe ==
  ASSUME Presences!PresenceAssumption, PresenceInv, Presences!ConnectIdle
  PROVE  PresenceInv'
<1>1. holding' \in BOOLEAN /\ failed' \in BOOLEAN
  BY Zenon DEF Presences!ConnectIdle, Presences!UpdateHold, Presences!ShouldHold
<1>2. PhaseOK'
  BY <1>1
     DEF PhaseOK, Presences!ConnectIdle, Presences!TakeConnect, Presences!UpdateHold
<1>3. RestOK'
  BY <1>1 DEF RestOK, Presences!ConnectIdle, Presences!TakeConnect
<1>4. Quiet' /\ StatusKnown'
  BY <1>1
     DEF StatusKnown, NoReport, LastReport, Presences!ConnectIdle,
         Presences!TakeConnect, Presences!UpdateHold
<1>5. Presences!NeverAdrift' /\ Presences!HoldMatches' /\ Presences!ReadyMeansDesired'
  BY <1>1
     DEF Presences!NeverAdrift, Presences!HoldMatches, Presences!ReadyMeansDesired,
         Presences!ShouldHold, Presences!Desired, Presences!ConnectIdle,
         Presences!TakeConnect, Presences!UpdateHold
<1> QED
  BY PresenceParts, <1>2, <1>3, <1>4, <1>5

\* The service opens a connection.
LEMMA ConnectSafe ==
  ASSUME Presences!PresenceAssumption, PresenceInv, Presences!Connect
  PROVE  PresenceInv'
<1>1. holding' \in BOOLEAN /\ failed' \in BOOLEAN
  BY Zenon DEF Presences!Connect, Presences!UpdateHold, Presences!ShouldHold
<1>2. PhaseOK'
  BY <1>1 DEF PhaseOK, Presences!Connect, Presences!TakeConnect, Presences!UpdateHold
<1>3. RestOK'
  BY <1>1 DEF RestOK, Presences!Connect, Presences!TakeConnect
<1>4. Quiet' /\ StatusKnown'
  BY <1>1
     DEF StatusKnown, NoReport, LastReport, Presences!Connect, Presences!TakeConnect,
         Presences!UpdateHold
<1>5. Presences!NeverAdrift' /\ Presences!HoldMatches' /\ Presences!ReadyMeansDesired'
  BY <1>1
     DEF Presences!NeverAdrift, Presences!HoldMatches, Presences!ReadyMeansDesired,
         Presences!ShouldHold, Presences!Desired, Presences!Connect,
         Presences!TakeConnect, Presences!UpdateHold
<1> QED
  BY PresenceParts, <1>2, <1>3, <1>4, <1>5

\* Opening fails, and a timer is set to try again.
LEMMA ConnectFailsSafe ==
  ASSUME Presences!PresenceAssumption, PresenceInv, Presences!ConnectFails
  PROVE  PresenceInv'
<1>1. holding' \in BOOLEAN /\ failed' \in BOOLEAN
  BY Zenon
     DEF Presences!ConnectFails, Presences!UpdateHold, Presences!ShouldHold,
         Presences!Retry
<1>2. PhaseOK'
  BY <1>1
     DEF PhaseOK, Presences!ConnectFails, Presences!TakeConnect, Presences!UpdateHold,
         Presences!Retry, Presences!Fault
<1>3. RestOK'
  BY <1>1
     DEF RestOK, Presences!ConnectFails, Presences!TakeConnect, Presences!Retry,
         Presences!Fault
<1>4. Quiet' /\ StatusKnown'
  BY <1>1
     DEF StatusKnown, NoReport, LastReport, Presences!ConnectFails,
         Presences!TakeConnect, Presences!UpdateHold, Presences!Retry, Presences!Fault
<1>5. Presences!NeverAdrift' /\ Presences!HoldMatches' /\ Presences!ReadyMeansDesired'
  BY <1>1
     DEF Presences!NeverAdrift, Presences!HoldMatches, Presences!ReadyMeansDesired,
         Presences!ShouldHold, Presences!Desired, Presences!ConnectFails,
         Presences!TakeConnect, Presences!UpdateHold, Presences!Retry, Presences!Fault
<1> QED
  BY PresenceParts, <1>2, <1>3, <1>4, <1>5

\* The timer to try again fires.
LEMMA ConnectTimerFiresSafe ==
  ASSUME Presences!PresenceAssumption, PresenceInv, Presences!ConnectTimerFires
  PROVE  PresenceInv'
<1>1. PhaseOK'
  BY DEF PhaseOK, Presences!ConnectTimerFires
<1>2. RestOK'
  BY DEF RestOK, Presences!ConnectTimerFires
<1>3. Quiet' /\ StatusKnown'
  BY DEF StatusKnown, NoReport, LastReport, Presences!ConnectTimerFires
<1>4. Presences!NeverAdrift' /\ Presences!HoldMatches' /\ Presences!ReadyMeansDesired'
  BY DEF Presences!NeverAdrift, Presences!HoldMatches, Presences!ReadyMeansDesired,
         Presences!ShouldHold, Presences!Desired, Presences!ConnectTimerFires
<1> QED
  BY PresenceParts, <1>1, <1>2, <1>3, <1>4

\* The game starts or ends, and the player service reports it.
LEMMA GameChangesSafe ==
  ASSUME Presences!PresenceAssumption, PresenceInv, Presences!GameChanges
  PROVE  PresenceInv'
<1>1. playerMail' \in Seq({"running", "ended", "down"})
  BY AppendProperties DEF Presences!GameChanges
<1>2. PhaseOK'
  BY <1>1 DEF PhaseOK, Presences!GameChanges, Presences!Subscribed
<1>3. RestOK'
  BY <1>1 DEF RestOK, Presences!GameChanges
<1>4. Quiet' /\ StatusKnown'
  BY <1>1
     DEF StatusKnown, NoReport, LastReport, Presences!GameChanges, Presences!Subscribed
<1>5. Presences!NeverAdrift' /\ Presences!HoldMatches' /\ Presences!ReadyMeansDesired'
  BY <1>1
     DEF Presences!NeverAdrift, Presences!HoldMatches, Presences!ReadyMeansDesired,
         Presences!ShouldHold, Presences!Desired, Presences!GameChanges,
         Presences!Subscribed
<1> QED
  BY PresenceParts, <1>2, <1>3, <1>4, <1>5

\* The player service restarts, and its subscribers are told.
LEMMA PlayerRestartsSafe ==
  ASSUME Presences!PresenceAssumption, PresenceInv, Presences!PlayerRestarts
  PROVE  PresenceInv'
<1>1. playerMail' \in Seq({"running", "ended", "down"})
  BY AppendProperties DEF Presences!PlayerRestarts
<1>2. game' \in BOOLEAN
  BY Zenon DEF Presences!PlayerRestarts
<1>3. PhaseOK'
  BY <1>1, <1>2
     DEF PhaseOK, Presences!PlayerRestarts, Presences!Subscribed, Presences!Fault
<1>4. RestOK'
  BY <1>1, <1>2 DEF RestOK, Presences!PlayerRestarts, Presences!Fault
<1>5. Quiet' /\ StatusKnown'
  BY <1>1, <1>2
     DEF StatusKnown, NoReport, LastReport, Presences!PlayerRestarts,
         Presences!Subscribed, Presences!Fault
<1>6. Presences!NeverAdrift' /\ Presences!HoldMatches' /\ Presences!ReadyMeansDesired'
  BY <1>1, <1>2
     DEF Presences!NeverAdrift, Presences!HoldMatches, Presences!ReadyMeansDesired,
         Presences!ShouldHold, Presences!Desired, Presences!PlayerRestarts,
         Presences!Subscribed, Presences!Fault
<1> QED
  BY PresenceParts, <1>3, <1>4, <1>5, <1>6

\* The site accepts the connection.
LEMMA OpensSafe ==
  ASSUME Presences!PresenceAssumption, PresenceInv, Presences!Opens
  PROVE  PresenceInv'
<1>1. toService' \in Seq(Presences!Event)
  BY AppendProperties DEF Presences!Opens, Presences!Event
<1>2. PhaseOK'
  BY <1>1, AppendReport DEF PhaseOK, Presences!Opens
<1>3. RestOK'
  BY <1>1, AppendReport DEF RestOK, Presences!Opens
<1>4. Quiet' /\ StatusKnown'
  BY <1>1, AppendReport DEF StatusKnown, NoReport, LastReport, Presences!Opens
<1>5. Presences!NeverAdrift' /\ Presences!HoldMatches' /\ Presences!ReadyMeansDesired'
  BY <1>1, AppendReport
     DEF Presences!NeverAdrift, Presences!HoldMatches, Presences!ReadyMeansDesired,
         Presences!ShouldHold, Presences!Desired, Presences!Opens
<1> QED
  BY PresenceParts, <1>2, <1>3, <1>4, <1>5

\* The site accepts the upgrade to a web socket.
LEMMA UpgradesSafe ==
  ASSUME Presences!PresenceAssumption, PresenceInv, Presences!Upgrades
  PROVE  PresenceInv'
<1>1. toService' \in Seq(Presences!Event)
  BY AppendProperties DEF Presences!Upgrades, Presences!Event
<1>2. PhaseOK'
  BY <1>1 DEF PhaseOK, Presences!Upgrades
<1>3. RestOK'
  BY <1>1 DEF RestOK, Presences!Upgrades
<1>4. Quiet' /\ StatusKnown'
  BY <1>1 DEF StatusKnown, NoReport, LastReport, Presences!Upgrades
<1>5. Presences!NeverAdrift' /\ Presences!HoldMatches' /\ Presences!ReadyMeansDesired'
  BY <1>1
     DEF Presences!NeverAdrift, Presences!HoldMatches, Presences!ReadyMeansDesired,
         Presences!ShouldHold, Presences!Desired, Presences!Upgrades
<1> QED
  BY PresenceParts, <1>2, <1>3, <1>4, <1>5

\* The site notices that the user left.
LEMMA LeftClosesSafe ==
  ASSUME Presences!PresenceAssumption, PresenceInv, Presences!LeftCloses
  PROVE  PresenceInv'
<1>1. site' \in Presences!Presence
  BY DEF Presences!LeftCloses, Presences!Presence
<1>2. PhaseOK'
  BY <1>1 DEF PhaseOK, Presences!LeftCloses
<1>3. RestOK'
  BY <1>1 , ZenonT(40) DEF RestOK, Presences!LeftCloses
<1>4. Quiet' /\ StatusKnown'
  BY <1>1 DEF StatusKnown, NoReport, LastReport, Presences!LeftCloses
<1>5. Presences!NeverAdrift' /\ Presences!HoldMatches' /\ Presences!ReadyMeansDesired'
  BY <1>1
     DEF Presences!NeverAdrift, Presences!HoldMatches, Presences!ReadyMeansDesired,
         Presences!ShouldHold, Presences!Desired, Presences!LeftCloses
<1> QED
  BY PresenceParts, <1>2, <1>3, <1>4, <1>5

\* The service restarts, with its connection gone and its mailbox empty.
LEMMA RestartSafe ==
  ASSUME Presences!PresenceAssumption, PresenceInv, Presences!Restart
  PROVE  PresenceInv'
<1>1. holding' \in BOOLEAN /\ failed' \in BOOLEAN
  BY Zenon
     DEF Presences!Restart, Presences!UpdateHold, Presences!ShouldHold, Presences!Starts
<1>2. /\ game' \in BOOLEAN /\ gameActive' \in BOOLEAN
      /\ left' \in BOOLEAN
  BY Zenon DEF Presences!Restart, Presences!Starts
<1>3. site' \in Presences!Presence
  BY DEF Presences!Restart, Presences!Presence, Presences!Starts
<1>4. PhaseOK'
  BY <1>1, <1>2, <1>3, EmptySeq
     DEF PhaseOK, Presences!Restart, Presences!Starts, Presences!UpdateHold,
         Presences!Fault
<1>5. RestOK'
  BY <1>1, <1>2, <1>3, EmptySeq
     DEF RestOK, Presences!Restart, Presences!Starts, Presences!Fault
<1>6. Quiet' /\ StatusKnown'
  BY <1>1, <1>2, <1>3, EmptySeq
     DEF StatusKnown, NoReport, LastReport, Presences!Restart, Presences!Starts,
         Presences!UpdateHold, Presences!Fault
<1>7. Presences!NeverAdrift' /\ Presences!HoldMatches' /\ Presences!ReadyMeansDesired'
  BY <1>1, <1>2, <1>3, EmptySeq
     DEF Presences!NeverAdrift, Presences!HoldMatches, Presences!ReadyMeansDesired,
         Presences!ShouldHold, Presences!Desired, Presences!Restart, Presences!Starts,
         Presences!UpdateHold, Presences!Fault
<1> QED
  BY PresenceParts, <1>4, <1>5, <1>6, <1>7

\* The connection breaks, and what is under way on it is lost.
LEMMA BreaksSafe ==
  ASSUME Presences!PresenceAssumption, PresenceInv, Presences!Breaks
  PROVE  PresenceInv'
<1>1. toService' \in Seq(Presences!Event)
  BY AppendProperties DEF Presences!Breaks, Presences!Event
<1>2. site' \in Presences!Presence
  BY DEF Presences!Breaks, Presences!Presence
<1>3. PhaseOK'
  BY <1>1, <1>2, EmptySeq DEF PhaseOK, Presences!Breaks, Presences!Fault
<1>4. RestOK'
  BY <1>1, <1>2, EmptySeq DEF RestOK, Presences!Breaks, Presences!Fault
<1>5. Quiet' /\ StatusKnown'
  BY <1>1, <1>2, EmptySeq
     DEF StatusKnown, NoReport, LastReport, Presences!Breaks, Presences!Fault
<1>6. Presences!NeverAdrift' /\ Presences!HoldMatches' /\ Presences!ReadyMeansDesired'
  BY <1>1, <1>2, EmptySeq
     DEF Presences!NeverAdrift, Presences!HoldMatches, Presences!ReadyMeansDesired,
         Presences!ShouldHold, Presences!Desired, Presences!Breaks, Presences!Fault
<1> QED
  BY PresenceParts, <1>3, <1>4, <1>5, <1>6

\* The site changes the user's status, from elsewhere.
LEMMA SiteChangesSafe ==
  ASSUME Presences!PresenceAssumption, PresenceInv, Presences!SiteChanges
  PROVE  PresenceInv'
<1>1. PICK s \in Presences!Presence : site' = s
  BY DEF Presences!SiteChanges
<1>2. [kind |-> "status", status |-> site'] \in Presences!Event
  BY <1>1 DEF Presences!Event
<1>3. toService' \in Seq(Presences!Event)
  BY AppendProperties, <1>2 DEF Presences!SiteChanges
<1>4. LastReport(toService', site')
  BY AppendReport, <1>2 DEF Presences!SiteChanges
<1>5. PhaseOK'
  BY <1>1, <1>2, <1>3, <1>4 DEF PhaseOK, Presences!SiteChanges
<1>6. RestOK'
  BY <1>1, <1>2, <1>3, <1>4 DEF RestOK, Presences!SiteChanges
<1>7. Quiet' /\ StatusKnown'
  BY <1>1, <1>2, <1>3, <1>4 DEF StatusKnown, Presences!SiteChanges
<1>8. Presences!NeverAdrift' /\ Presences!HoldMatches' /\ Presences!ReadyMeansDesired'
  BY <1>1, <1>2, <1>3, <1>4
     DEF Presences!NeverAdrift, Presences!HoldMatches, Presences!ReadyMeansDesired,
         Presences!ShouldHold, Presences!Desired, Presences!SiteChanges
<1> QED
  BY PresenceParts, <1>5, <1>6, <1>7, <1>8

\* The service takes the news that the connection is open.
LEMMA HandleUpSafe ==
  ASSUME Presences!PresenceAssumption, PresenceInv, Presences!HandleUp
  PROVE  PresenceInv'
<1>1. /\ toService # << >> /\ toService \in Seq(Presences!Event) /\ connected
  BY DEF Presences!HandleUp, Presences!Received
<1>2. /\ Tail(toService) \in Seq(Presences!Event) /\ Head(toService) \in Presences!Event
  BY <1>1, HeadTailProperties
<1>3. link = "signed" =>
        \/ NoReport(Tail(toService)) /\ status = site
        \/ LastReport(Tail(toService), site)
  BY <1>1, TakeReport DEF StatusKnown, Presences!HandleUp, Presences!Received
<1>4. PhaseOK'
  BY <1>1, <1>2, <1>3
     DEF PhaseOK, Presences!HandleUp, Presences!Received, Presences!Taken
<1>5. RestOK'
  BY <1>1, <1>2, <1>3
     DEF RestOK, Presences!HandleUp, Presences!Received, Presences!Taken
<1>6. Quiet' /\ StatusKnown'
  BY <1>1, <1>2, <1>3
     DEF StatusKnown, Presences!HandleUp, Presences!Received, Presences!Taken
<1>7. Presences!NeverAdrift' /\ Presences!HoldMatches' /\ Presences!ReadyMeansDesired'
  BY <1>1, <1>2, <1>3
     DEF Presences!NeverAdrift, Presences!HoldMatches, Presences!ReadyMeansDesired,
         Presences!ShouldHold, Presences!Desired, Presences!HandleUp,
         Presences!Received, Presences!Taken
<1> QED
  BY PresenceParts, <1>4, <1>5, <1>6, <1>7

\* The service takes the upgrade, and signs in.
LEMMA HandleUpgradedSafe ==
  ASSUME Presences!PresenceAssumption, PresenceInv, Presences!HandleUpgraded
  PROVE  PresenceInv'
<1>1. /\ toService # << >> /\ toService \in Seq(Presences!Event) /\ connected
  BY DEF Presences!HandleUpgraded, Presences!Received
<1>2. /\ Tail(toService) \in Seq(Presences!Event) /\ Head(toService) \in Presences!Event
  BY <1>1, HeadTailProperties
<1>3. link = "signed" =>
        \/ NoReport(Tail(toService)) /\ status = site
        \/ LastReport(Tail(toService), site)
  BY <1>1, TakeReport DEF StatusKnown, Presences!HandleUpgraded, Presences!Received
<1>4. [cmd |-> "signIn", arg |-> token] \in Presences!Command
  BY <1>1 DEF Presences!Command
<1>5. toSite' \in Seq(Presences!Command)
  BY <1>4, AppendProperties DEF Presences!HandleUpgraded, Presences!Send
<1>6. PhaseOK'
  BY <1>1, <1>2, <1>3, <1>4, <1>5
     DEF PhaseOK, Presences!HandleUpgraded, Presences!Received, Presences!Taken
<1>7. RestOK'
  BY <1>1, <1>2, <1>3, <1>4, <1>5
     DEF RestOK, Presences!HandleUpgraded, Presences!Received, Presences!Taken
<1>8. Quiet' /\ StatusKnown'
  BY <1>1, <1>2, <1>3, <1>4, <1>5
     DEF StatusKnown, Presences!HandleUpgraded, Presences!Received, Presences!Taken
<1>9. Presences!NeverAdrift' /\ Presences!HoldMatches' /\ Presences!ReadyMeansDesired'
  BY <1>1, <1>2, <1>3, <1>4, <1>5
     DEF Presences!NeverAdrift, Presences!HoldMatches, Presences!ReadyMeansDesired,
         Presences!ShouldHold, Presences!Desired, Presences!HandleUpgraded,
         Presences!Received, Presences!Taken
<1> QED
  BY PresenceParts, <1>6, <1>7, <1>8, <1>9

\* The service takes the answer to its sign-in.
LEMMA HandleSignedSafe ==
  ASSUME Presences!PresenceAssumption, PresenceInv, Presences!HandleSigned
  PROVE  PresenceInv'
<1>1. /\ toService # << >> /\ toService \in Seq(Presences!Event) /\ connected
  BY DEF Presences!HandleSigned, Presences!Received
<1>2. /\ Tail(toService) \in Seq(Presences!Event) /\ Head(toService) \in Presences!Event
  BY <1>1, HeadTailProperties
<1>3. link = "signed" =>
        \/ NoReport(Tail(toService)) /\ status = site
        \/ LastReport(Tail(toService), site)
  BY <1>1, TakeReport DEF StatusKnown, Presences!HandleSigned, Presences!Received
<1>4. failed' \in BOOLEAN
  BY Zenon DEF Presences!HandleSigned
<1>5. PhaseOK'
  BY <1>1, <1>2, <1>3, <1>4
     DEF PhaseOK, Presences!HandleSigned, Presences!Received, Presences!Taken
<1>6. RestOK'
  BY <1>1, <1>2, <1>3, <1>4
     DEF RestOK, Presences!HandleSigned, Presences!Received, Presences!Taken
<1>7. Quiet' /\ StatusKnown'
  BY <1>1, <1>2, <1>3, <1>4
     DEF StatusKnown, Presences!HandleSigned, Presences!Received, Presences!Taken
<1>8. Presences!NeverAdrift' /\ Presences!HoldMatches' /\ Presences!ReadyMeansDesired'
  BY <1>1, <1>2, <1>3, <1>4
     DEF Presences!NeverAdrift, Presences!HoldMatches, Presences!ReadyMeansDesired,
         Presences!ShouldHold, Presences!Desired, Presences!HandleSigned,
         Presences!Received, Presences!Taken
<1> QED
  BY PresenceParts, <1>5, <1>6, <1>7, <1>8

\* The service takes a refused sign-in, and stays away.
LEMMA HandleRefusedSafe ==
  ASSUME Presences!PresenceAssumption, PresenceInv, Presences!HandleRefused
  PROVE  PresenceInv'
<1>1. /\ toService # << >> /\ toService \in Seq(Presences!Event) /\ connected
  BY DEF Presences!HandleRefused, Presences!Received
<1>2. holding' \in BOOLEAN /\ failed' \in BOOLEAN
  BY Zenon DEF Presences!HandleRefused, Presences!UpdateHold, Presences!ShouldHold
<1>3. site' \in Presences!Presence
  BY DEF Presences!HandleRefused, Presences!Presence, Presences!Disconnect,
         Presences!CloseLink
<1>4. PhaseOK'
  BY <1>1, <1>2, <1>3, EmptySeq
     DEF PhaseOK, Presences!HandleRefused, Presences!Received, Presences!Disconnect,
         Presences!CloseLink, Presences!UpdateHold
<1>5. RestOK'
  BY <1>1, <1>2, <1>3, EmptySeq
     DEF RestOK, Presences!HandleRefused, Presences!Received, Presences!Disconnect,
         Presences!CloseLink
<1>6. Quiet' /\ StatusKnown'
  BY <1>1, <1>2, <1>3, EmptySeq
     DEF StatusKnown, NoReport, LastReport, Presences!HandleRefused, Presences!Received,
         Presences!Disconnect, Presences!CloseLink, Presences!UpdateHold
<1>7. Presences!NeverAdrift' /\ Presences!HoldMatches' /\ Presences!ReadyMeansDesired'
  BY <1>1, <1>2, <1>3, EmptySeq
     DEF Presences!NeverAdrift, Presences!HoldMatches, Presences!ReadyMeansDesired,
         Presences!ShouldHold, Presences!Desired, Presences!HandleRefused,
         Presences!Received, Presences!Disconnect, Presences!CloseLink,
         Presences!UpdateHold
<1> QED
  BY PresenceParts, <1>4, <1>5, <1>6, <1>7

\* The service takes a refused change of status.
LEMMA HandleSetErrorSafe ==
  ASSUME Presences!PresenceAssumption, PresenceInv, Presences!HandleSetError
  PROVE  PresenceInv'
<1>1. /\ toService # << >> /\ toService \in Seq(Presences!Event) /\ connected
  BY DEF Presences!HandleSetError, Presences!Received
<1>2. /\ Tail(toService) \in Seq(Presences!Event) /\ Head(toService) \in Presences!Event
  BY <1>1, HeadTailProperties
<1>3. link = "signed" =>
        \/ NoReport(Tail(toService)) /\ status = site
        \/ LastReport(Tail(toService), site)
  BY <1>1, TakeReport DEF StatusKnown, Presences!HandleSetError, Presences!Received
<1>4. failed' \in BOOLEAN
  BY Zenon DEF Presences!HandleSetError
<1>5. PhaseOK'
  BY <1>1, <1>2, <1>3, <1>4
     DEF PhaseOK, Presences!HandleSetError, Presences!Received, Presences!Taken
<1>6. RestOK'
  BY <1>1, <1>2, <1>3, <1>4
     DEF RestOK, Presences!HandleSetError, Presences!Received, Presences!Taken
<1>7. Quiet' /\ StatusKnown'
  BY <1>1, <1>2, <1>3, <1>4
     DEF StatusKnown, Presences!HandleSetError, Presences!Received, Presences!Taken
<1>8. Presences!NeverAdrift' /\ Presences!HoldMatches' /\ Presences!ReadyMeansDesired'
  BY <1>1, <1>2, <1>3, <1>4
     DEF Presences!NeverAdrift, Presences!HoldMatches, Presences!ReadyMeansDesired,
         Presences!ShouldHold, Presences!Desired, Presences!HandleSetError,
         Presences!Received, Presences!Taken
<1> QED
  BY PresenceParts, <1>5, <1>6, <1>7, <1>8

\* The service takes the site's demand for a fresh token.
LEMMA HandleProtectSafe ==
  ASSUME Presences!PresenceAssumption, PresenceInv, Presences!HandleProtect
  PROVE  PresenceInv'
<1>1. /\ toService # << >> /\ toService \in Seq(Presences!Event) /\ connected
  BY DEF Presences!HandleProtect, Presences!Received
<1>2. /\ Tail(toService) \in Seq(Presences!Event) /\ Head(toService) \in Presences!Event
  BY <1>1, HeadTailProperties
<1>3. link = "signed" =>
        \/ NoReport(Tail(toService)) /\ status = site
        \/ LastReport(Tail(toService), site)
  BY <1>1, TakeReport DEF StatusKnown, Presences!HandleProtect, Presences!Received
<1>4. failed' \in BOOLEAN
  BY Zenon DEF Presences!HandleProtect
<1>5. PhaseOK'
  BY <1>1, <1>2, <1>3, <1>4
     DEF PhaseOK, Presences!HandleProtect, Presences!Received, Presences!Taken
<1>6. RestOK'
  BY <1>1, <1>2, <1>3, <1>4
     DEF RestOK, Presences!HandleProtect, Presences!Received, Presences!Taken
<1>7. Quiet' /\ StatusKnown'
  BY <1>1, <1>2, <1>3, <1>4
     DEF StatusKnown, Presences!HandleProtect, Presences!Received, Presences!Taken
<1>8. Presences!NeverAdrift' /\ Presences!HoldMatches' /\ Presences!ReadyMeansDesired'
  BY <1>1, <1>2, <1>3, <1>4
     DEF Presences!NeverAdrift, Presences!HoldMatches, Presences!ReadyMeansDesired,
         Presences!ShouldHold, Presences!Desired, Presences!HandleProtect,
         Presences!Received, Presences!Taken
<1> QED
  BY PresenceParts, <1>5, <1>6, <1>7, <1>8

\* The service takes the end of its connection.
LEMMA HandleClosedSafe ==
  ASSUME Presences!PresenceAssumption, PresenceInv, Presences!HandleClosed
  PROVE  PresenceInv'
<1>1. /\ toService # << >> /\ toService \in Seq(Presences!Event) /\ connected
  BY DEF Presences!HandleClosed, Presences!Received
<1>2. holding' \in BOOLEAN /\ failed' \in BOOLEAN
  BY Zenon
     DEF Presences!HandleClosed, Presences!UpdateHold, Presences!ShouldHold,
         Presences!Retry
<1>3. site' \in Presences!Presence
  BY DEF Presences!HandleClosed, Presences!Presence, Presences!Disconnect,
         Presences!CloseLink
<1>4. PhaseOK'
  BY <1>1, <1>2, <1>3, EmptySeq
     DEF PhaseOK, Presences!HandleClosed, Presences!Received, Presences!Disconnect,
         Presences!CloseLink, Presences!Retry, Presences!UpdateHold
<1>5. RestOK'
  BY <1>1, <1>2, <1>3, EmptySeq
     DEF RestOK, Presences!HandleClosed, Presences!Received, Presences!Disconnect,
         Presences!CloseLink, Presences!Retry
<1>6. Quiet' /\ StatusKnown'
  BY <1>1, <1>2, <1>3, EmptySeq
     DEF StatusKnown, NoReport, LastReport, Presences!HandleClosed, Presences!Received,
         Presences!Disconnect, Presences!CloseLink, Presences!Retry,
         Presences!UpdateHold
<1>7. Presences!NeverAdrift' /\ Presences!HoldMatches' /\ Presences!ReadyMeansDesired'
  BY <1>1, <1>2, <1>3, EmptySeq
     DEF Presences!NeverAdrift, Presences!HoldMatches, Presences!ReadyMeansDesired,
         Presences!ShouldHold, Presences!Desired, Presences!HandleClosed,
         Presences!Received, Presences!Disconnect, Presences!CloseLink, Presences!Retry,
         Presences!UpdateHold
<1> QED
  BY PresenceParts, <1>4, <1>5, <1>6, <1>7

\* The user changes the mode.
LEMMA SetModeSafe ==
  ASSUME Presences!PresenceAssumption, PresenceInv, NEW m \in Mode, Presences!SetMode(m)
  PROVE  PresenceInv'
<1>1. /\ toSite' \in Seq(Presences!Command)
      /\ ~connected => toSite' = toSite
      /\ phase' = phase \/ (phase = "ready" /\ phase' = "setting_status")
      /\ phase' = "ready" => status = Presences!Desired'
      /\ holding' = Presences!ShouldHold' /\ holding' \in BOOLEAN
  BY ApplyDesiredProperties DEF Presences!SetMode
<1>2. failed' \in BOOLEAN
  BY Zenon DEF Presences!SetMode
<1>3. PhaseOK'
  BY <1>1, <1>2 DEF PhaseOK, Presences!SetMode
<1>4. RestOK'
  BY <1>1, <1>2 DEF RestOK, Presences!SetMode
<1>5. Quiet' /\ StatusKnown'
  BY <1>1, <1>2 DEF StatusKnown, NoReport, LastReport, Presences!SetMode
<1>6. Presences!NeverAdrift' /\ Presences!HoldMatches' /\ Presences!ReadyMeansDesired'
  BY <1>1, <1>2
     DEF Presences!NeverAdrift, Presences!HoldMatches, Presences!ReadyMeansDesired,
         Presences!ShouldHold, Presences!Desired, Presences!SetMode
<1> QED
  BY PresenceParts, <1>3, <1>4, <1>5, <1>6

\* The service subscribes to the player service, and learns of the game.
LEMMA SubscribePlayerSafe ==
  ASSUME Presences!PresenceAssumption, PresenceInv, Presences!SubscribePlayer
  PROVE  PresenceInv'
<1>1. /\ toSite' \in Seq(Presences!Command)
      /\ ~connected => toSite' = toSite
      /\ phase' = phase \/ (phase = "ready" /\ phase' = "setting_status")
      /\ phase' = "ready" => status = Presences!Desired'
      /\ holding' = Presences!ShouldHold' /\ holding' \in BOOLEAN
  BY ApplyDesiredProperties DEF Presences!SubscribePlayer, Presences!GameActive
<1>2. gameActive' \in BOOLEAN
  BY Zenon DEF Presences!SubscribePlayer, Presences!GameActive
<1>3. PhaseOK'
  BY <1>1, <1>2 DEF PhaseOK, Presences!SubscribePlayer
<1>4. RestOK'
  BY <1>1, <1>2 DEF RestOK, Presences!SubscribePlayer
<1>5. Quiet' /\ StatusKnown'
  BY <1>1, <1>2 DEF StatusKnown, NoReport, LastReport, Presences!SubscribePlayer
<1>6. Presences!NeverAdrift' /\ Presences!HoldMatches' /\ Presences!ReadyMeansDesired'
  BY <1>1, <1>2
     DEF Presences!NeverAdrift, Presences!HoldMatches, Presences!ReadyMeansDesired,
         Presences!ShouldHold, Presences!Desired, Presences!SubscribePlayer
<1> QED
  BY PresenceParts, <1>3, <1>4, <1>5, <1>6

\* The subscription fails, and is tried again later.
LEMMA SubscribeFailsSafe ==
  ASSUME Presences!PresenceAssumption, PresenceInv, Presences!SubscribeFails
  PROVE  PresenceInv'
<1>1. /\ toSite' \in Seq(Presences!Command)
      /\ ~connected => toSite' = toSite
      /\ phase' = phase \/ (phase = "ready" /\ phase' = "setting_status")
      /\ phase' = "ready" => status = Presences!Desired'
      /\ holding' = Presences!ShouldHold' /\ holding' \in BOOLEAN
  BY ApplyDesiredProperties DEF Presences!SubscribeFails, Presences!GameActive
<1>2. gameActive' \in BOOLEAN
  BY Zenon DEF Presences!SubscribeFails, Presences!GameActive
<1>3. PhaseOK'
  BY <1>1, <1>2 DEF PhaseOK, Presences!SubscribeFails
<1>4. RestOK'
  BY <1>1, <1>2 DEF RestOK, Presences!SubscribeFails
<1>5. Quiet' /\ StatusKnown'
  BY <1>1, <1>2 DEF StatusKnown, NoReport, LastReport, Presences!SubscribeFails
<1>6. Presences!NeverAdrift' /\ Presences!HoldMatches' /\ Presences!ReadyMeansDesired'
  BY <1>1, <1>2
     DEF Presences!NeverAdrift, Presences!HoldMatches, Presences!ReadyMeansDesired,
         Presences!ShouldHold, Presences!Desired, Presences!SubscribeFails
<1> QED
  BY PresenceParts, <1>3, <1>4, <1>5, <1>6

\* The service takes a report of the status: it knows the status from now on.
LEMMA HandleStatusSafe ==
  ASSUME Presences!PresenceAssumption, PresenceInv, Presences!HandleStatus
  PROVE  PresenceInv'
<1>1. /\ toService # << >> /\ toService \in Seq(Presences!Event) /\ connected
  BY DEF Presences!HandleStatus, Presences!Received
<1>2. /\ Tail(toService) \in Seq(Presences!Event) /\ Head(toService) \in Presences!Event
  BY <1>1, HeadTailProperties
<1>3. Head(toService).status \in Presences!Presence
  BY <1>2 DEF Presences!HandleStatus, Presences!Received, Presences!Event
<1>4. /\ toSite' \in Seq(Presences!Command)
      /\ ~connected => toSite' = toSite
      /\ phase' = "ready" \/ ("ready" = "ready" /\ phase' = "setting_status")
      /\ phase' = "ready" => status' = Presences!Desired'
      /\ holding' = Presences!ShouldHold' /\ holding' \in BOOLEAN
  BY ApplyDesiredProperties
     DEF Presences!HandleStatus, Presences!Reconcile, Presences!Received
<1>5. status' = Head(toService).status
  BY DEF Presences!HandleStatus, Presences!Reconcile
<1>6. failed' \in BOOLEAN
  BY Zenon DEF Presences!HandleStatus, Presences!Reconcile
<1>7. link = "signed" =>
        \/ NoReport(Tail(toService)) /\ status' = site
        \/ LastReport(Tail(toService), site)
  BY <1>1, <1>5, TakeReport DEF StatusKnown, Presences!HandleStatus, Presences!Received
<1>8. PhaseOK'
  BY <1>1, <1>2, <1>3, <1>4, <1>5, <1>6, <1>7
     DEF PhaseOK, Presences!HandleStatus, Presences!Received, Presences!Taken
<1>9. RestOK'
  BY <1>1, <1>2, <1>3, <1>4, <1>5, <1>6, <1>7
     DEF RestOK, Presences!HandleStatus, Presences!Received, Presences!Taken
<1>10. Quiet' /\ StatusKnown'
  BY <1>1, <1>2, <1>3, <1>4, <1>5, <1>6, <1>7
     DEF StatusKnown, Presences!HandleStatus, Presences!Received, Presences!Taken
<1>11. Presences!NeverAdrift' /\ Presences!HoldMatches' /\ Presences!ReadyMeansDesired'
  BY <1>1, <1>2, <1>3, <1>4, <1>5, <1>6, <1>7
     DEF Presences!NeverAdrift, Presences!HoldMatches, Presences!ReadyMeansDesired,
         Presences!ShouldHold, Presences!Desired, Presences!HandleStatus,
         Presences!Received, Presences!Taken
<1> QED
  BY PresenceParts, <1>8, <1>9, <1>10, <1>11

\* The site demands a fresh token.
LEMMA ProtestsSafe ==
  ASSUME Presences!PresenceAssumption, PresenceInv, Presences!Protests
  PROVE  PresenceInv'
<1>1. /\ toService \in Seq(Presences!Event) /\ [kind |-> "protect"] \in Presences!Event
      /\ site' = site /\ link' = link /\ status' = status
      /\ toService' = Append(toService, [kind |-> "protect"])
  BY DEF Presences!Protests, Presences!Event
<1>2. toService' \in Seq(Presences!Event)
  BY <1>1, AppendProperties
<1>3. link = "signed" =>
        \/ NoReport(toService') /\ status = site
        \/ LastReport(toService', site)
  BY <1>1, AppendReport DEF StatusKnown
<1>4. PhaseOK'
  BY <1>1, <1>2, <1>3 DEF PhaseOK, Presences!Protests, Presences!Fault
<1>5. RestOK'
  BY <1>1, <1>2, <1>3 DEF RestOK, Presences!Protests, Presences!Fault
<1>6. Quiet' /\ StatusKnown'
  BY <1>1, <1>2, <1>3 DEF StatusKnown, Presences!Protests, Presences!Fault
<1>7. Presences!NeverAdrift' /\ Presences!HoldMatches' /\ Presences!ReadyMeansDesired'
  BY <1>1, <1>2, <1>3
     DEF Presences!NeverAdrift, Presences!HoldMatches, Presences!ReadyMeansDesired,
         Presences!ShouldHold, Presences!Desired, Presences!Protests, Presences!Fault
<1> QED
  BY PresenceParts, <1>4, <1>5, <1>6, <1>7

\* The service takes news of the game, or of the end of the player service.
LEMMA HandlePlayerSafe ==
  ASSUME Presences!PresenceAssumption, PresenceInv, Presences!HandlePlayer
  PROVE  PresenceInv'
<1>1. /\ playerMail' \in Seq({"running", "ended", "down"})
      /\ UNCHANGED <<token, mode, connected, status, failed, retryTimer, looseTimers,
                     connects, game, link, toService, site, left, faults>>
  BY HeadTailProperties DEF Presences!HandlePlayer
<1>2. CASE Head(playerMail) = "down"
  <2>1. /\ player' = "waiting" /\ phase' = phase /\ holding' = holding /\ toSite' = toSite
        /\ gameActive' \in BOOLEAN
    BY <1>2, Zenon DEF Presences!HandlePlayer
  <2>2. PhaseOK' /\ RestOK'
    BY <1>1, <2>1 DEF PhaseOK, RestOK
  <2>3. Quiet' /\ StatusKnown'
    BY <1>1, <2>1 DEF StatusKnown, NoReport, LastReport
  <2>4. Presences!NeverAdrift' /\ Presences!HoldMatches' /\ Presences!ReadyMeansDesired'
    BY <1>1, <2>1
       DEF Presences!NeverAdrift, Presences!HoldMatches, Presences!ReadyMeansDesired
  <2> QED
    BY PresenceParts, <2>2, <2>3, <2>4
<1>3. CASE Head(playerMail) # "down"
  <2>1. player' = player /\ Presences!GameActive(Head(playerMail))
    BY <1>3 DEF Presences!HandlePlayer
  <2>2. gameActive' \in BOOLEAN
    BY <2>1, Zenon DEF Presences!GameActive
  <2>3. /\ toSite' \in Seq(Presences!Command)
        /\ ~connected => toSite' = toSite
        /\ phase' = phase \/ (phase = "ready" /\ phase' = "setting_status")
        /\ phase' = "ready" => status = Presences!Desired'
        /\ holding' = Presences!ShouldHold' /\ holding' \in BOOLEAN
    BY <1>1, <2>1, ApplyDesiredProperties DEF Presences!GameActive
  <2>4. PhaseOK' /\ RestOK'
    BY <1>1, <2>1, <2>2, <2>3 DEF PhaseOK, RestOK
  <2>5. Quiet' /\ StatusKnown'
    BY <1>1, <2>3 DEF StatusKnown, NoReport, LastReport
  <2>6. Presences!NeverAdrift' /\ Presences!HoldMatches' /\ Presences!ReadyMeansDesired'
    BY <1>1, <2>1, <2>3
       DEF Presences!NeverAdrift, Presences!HoldMatches, Presences!ReadyMeansDesired
  <2> QED
    BY PresenceParts, <2>4, <2>5, <2>6
<1> QED
  BY <1>2, <1>3

\* The site answers a sign-in, with the status on success.
LEMMA AnswersSignInSafe ==
  ASSUME Presences!PresenceAssumption, PresenceInv, Presences!AnswersSignIn
  PROVE  PresenceInv'
<1> DEFINE told == Append(toService, [kind |-> "signed"])
           report == [kind |-> "status", status |-> site]
<1>1. /\ toSite # << >> /\ toService \in Seq(Presences!Event) /\ connected
      /\ toSite' = Tail(toSite) /\ toSite' \in Seq(Presences!Command)
      /\ UNCHANGED <<token, mode, phase, connected, status, failed, holding, retryTimer,
                     looseTimers, connects, player, gameActive, game, playerMail, site,
                     left, faults>>
  BY HeadTailProperties DEF Presences!AnswersSignIn
<1>2. /\ [kind |-> "signed"] \in Presences!Event /\ [kind |-> "refused"] \in Presences!Event
      /\ report \in Presences!Event
  BY DEF Presences!Event
<1>3. Presences!NeverAdrift' /\ Presences!HoldMatches' /\ Presences!ReadyMeansDesired'
  BY <1>1
     DEF Presences!NeverAdrift, Presences!HoldMatches, Presences!ReadyMeansDesired,
         Presences!ShouldHold, Presences!Desired
<1>4. CASE Head(toSite).arg \in Good
  <2>1. link' = "signed" /\ toService' = toService \o <<[kind |-> "signed"], report>>
    BY <1>4 DEF Presences!AnswersSignIn
  <2>2. told \in Seq(Presences!Event) /\ toService' = Append(told, report)
    BY <1>1, <1>2, <2>1, AppendProperties
  <2>3. toService' \in Seq(Presences!Event) /\ LastReport(toService', site)
    BY <1>2, <2>2, AppendReport, AppendProperties
  <2>4. PhaseOK' /\ RestOK'
    BY <1>1, <2>1, <2>3 DEF PhaseOK, RestOK
  <2>5. Quiet' /\ StatusKnown'
    BY <1>1, <2>3 DEF StatusKnown
  <2> QED
    BY PresenceParts, <1>3, <2>4, <2>5
<1>5. CASE Head(toSite).arg \notin Good
  <2>1. link' = link /\ toService' = Append(toService, [kind |-> "refused"])
    BY <1>5 DEF Presences!AnswersSignIn
  <2>2. toService' \in Seq(Presences!Event)
    BY <1>1, <1>2, <2>1, AppendProperties
  <2>3. PhaseOK' /\ RestOK'
    BY <1>1, <2>1, <2>2 DEF PhaseOK, RestOK
  <2>4. Quiet' /\ StatusKnown'
    BY <1>1, <1>2, <2>1, AppendReport DEF StatusKnown
  <2> QED
    BY PresenceParts, <1>3, <2>3, <2>4
<1> QED
  BY <1>4, <1>5

\* The site answers a change of status, with the status on success.
LEMMA AnswersSetSafe ==
  ASSUME Presences!PresenceAssumption, PresenceInv, Presences!AnswersSet
  PROVE  PresenceInv'
<1>1. /\ toSite # << >> /\ toService \in Seq(Presences!Event) /\ connected
      /\ toSite \in Seq(Presences!Command) /\ toSite' \in Seq(Presences!Command)
      /\ UNCHANGED <<token, mode, phase, connected, status, failed, holding, retryTimer,
                     looseTimers, connects, player, gameActive, game, playerMail, link,
                     left>>
  BY HeadTailProperties DEF Presences!AnswersSet
<1>2. Head(toSite).cmd = "set" /\ Head(toSite) \in Presences!Command
  BY <1>1, HeadTailProperties DEF Presences!AnswersSet
<1>3. Head(toSite).arg \in Presences!Presence
  BY <1>2 DEF Presences!Command
<1>4. Presences!NeverAdrift' /\ Presences!HoldMatches' /\ Presences!ReadyMeansDesired'
  BY <1>1
     DEF Presences!NeverAdrift, Presences!HoldMatches, Presences!ReadyMeansDesired,
         Presences!ShouldHold, Presences!Desired
<1>5. CASE /\ site' = Head(toSite).arg
           /\ toService' = Append(toService, [kind |-> "status", status |-> site'])
           /\ faults' = faults
  <2>1. site' \in Presences!Presence
    BY <1>3, <1>5
  <2>2. [kind |-> "status", status |-> site'] \in Presences!Event
    BY <2>1 DEF Presences!Event
  <2>3. toService' \in Seq(Presences!Event) /\ LastReport(toService', site')
    BY <1>1, <1>5, <2>2, AppendReport, AppendProperties
  <2>4. PhaseOK' /\ RestOK'
    BY <1>1, <1>5, <2>1, <2>3 DEF PhaseOK, RestOK
  <2>5. Quiet' /\ StatusKnown'
    BY <1>1, <2>3 DEF StatusKnown
  <2> QED
    BY PresenceParts, <1>4, <2>4, <2>5
<1>6. CASE /\ Presences!Fault
           /\ toService' = Append(toService, [kind |-> "setError"])
           /\ site' = site
  <2>1. [kind |-> "setError"] \in Presences!Event
    BY DEF Presences!Event
  <2>2. toService' \in Seq(Presences!Event)
    BY <1>1, <1>6, <2>1, AppendProperties
  <2>3. PhaseOK' /\ RestOK'
    BY <1>1, <1>6, <2>2 DEF PhaseOK, RestOK, Presences!Fault
  <2>4. Quiet' /\ StatusKnown'
    BY <1>1, <1>6, <2>1, AppendReport DEF StatusKnown
  <2> QED
    BY PresenceParts, <1>4, <2>3, <2>4
<1> QED
  BY <1>5, <1>6 DEF Presences!AnswersSet

\* Every step of the service, of the website and of the player service keeps the
\* invariant.
LEMMA PresenceNext ==
  Presences!PresenceAssumption /\ PresenceInv /\ [Presences!Next]_presenceVars =>
    PresenceInv'
<1> SUFFICES ASSUME Presences!PresenceAssumption, PresenceInv,
                    [Presences!Next]_presenceVars
             PROVE  PresenceInv'
  OBVIOUS
<1> USE SetModeSafe, SignedInSafe, RefreshedSafe, SignedOutSafe, ConnectIdleSafe,
        ConnectSafe, ConnectFailsSafe, ConnectTimerFiresSafe
<1>1. CASE Presences!ServiceStep
  BY <1>1, HandleUpSafe, HandleUpgradedSafe, HandleSignedSafe, HandleRefusedSafe,
     HandleStatusSafe, HandleSetErrorSafe, HandleProtectSafe, HandleClosedSafe,
     HandlePlayerSafe, SubscribePlayerSafe, SubscribeFailsSafe, RestartSafe
     DEF Presences!ServiceStep, Presences!HandleEvent
<1>2. CASE Presences!WorldStep
  BY <1>2, GameChangesSafe, PlayerRestartsSafe, OpensSafe, UpgradesSafe,
     AnswersSignInSafe, AnswersSetSafe, SiteChangesSafe, ProtestsSafe, BreaksSafe,
     LeftClosesSafe
     DEF Presences!WorldStep
<1>3. CASE UNCHANGED presenceVars
  <2>1. PhaseOK' /\ RestOK'
    BY <1>3 DEF presenceVars, PhaseOK, RestOK
  <2>2. Quiet' /\ StatusKnown'
    BY <1>3 DEF presenceVars, StatusKnown, NoReport, LastReport
  <2>3. Presences!NeverAdrift' /\ Presences!HoldMatches' /\ Presences!ReadyMeansDesired'
    BY <1>3
       DEF presenceVars, Presences!NeverAdrift, Presences!HoldMatches,
           Presences!ReadyMeansDesired, Presences!ShouldHold, Presences!Desired
  <2> QED
    BY PresenceParts, <2>1, <2>2, <2>3
<1> QED
  BY <1>1, <1>2, <1>3 DEF Presences!Next

\* The invariant implies the property.
LEMMA PresenceInvTrue == PresenceInv => PresenceTrue
BY EmptySeq DEF PresenceTrue, Presences!StatusIsTrue, StatusKnown, LastReport

HIDE DEF PresenceInv, Quiet, Presences!TypeOK, Presences!timerVars, Presences!playerVars,
         Presences!linkVars, Presences!service

-----------------------------------------------------------------------------
(***************************************************************************)
(* wfcli_hot_update                                                        *)
(***************************************************************************)
\* A service that answers system messages in time.
Prompt == Service \ (Slow \cup {Daemon})

\* A system message, and a note of a migration.
Message ==
  [op : {"suspend", "change_code", "resume"}, by : {Me}, live : BOOLEAN, aged : BOOLEAN]
Migration == [name : Service, replaced : BOOLEAN]

\* The updater goes through a list of services, with one sys call to each.
Calling == pc \in {"suspend", "change", "resume", "unwind"}
CallOf(p) == IF p = "suspend" THEN "suspend"
             ELSE IF p = "change" THEN "change_code" ELSE "resume"

\* A process, whose work is a handler or the call it waits for.
Process ==
  [mode : {"running", "suspended", "down"}, work : {"idle", "busy"} \cup Service,
   data : Version]

\* Types, of the services and of the updater.
ServicesTyped ==
  /\ proc \in [Service -> Process]
  /\ sysQ \in [Service -> Seq(Message)]
  /\ pending \in Seq(Migration) /\ notes \in Seq(Migration)

UpdaterTyped ==
  /\ loaded \in Version /\ build \in Version /\ staged \in Version /\ known \in Version
  /\ update \in {"none", Me} /\ oldCode \in BOOLEAN
  /\ pc \in {"none", "read", "recoverFirst", "decide", "suspend", "change", "resume",
             "unwind", "recover", "finish", "done"}
  /\ job \in [id : Version, target : Version, kind : {"artifact", "manual"}]
  /\ todo \in Seq(Service) /\ suspended \in Seq(Service)
  /\ reply \in {"none", "waiting", "ok", "error"}
  /\ outcome \in {"ok", "error"}

\* At most one system message has its caller waiting: that of the call in progress.
OneCall ==
  /\ reply # "none" => Calling /\ todo # << >>
  /\ \A s \in Service : \A i \in DOMAIN sysQ[s] :
       sysQ[s][i].live =>
         /\ reply = "waiting" /\ s = Head(todo) /\ sysQ[s][i].op = CallOf(pc)
         /\ \A j \in DOMAIN sysQ[s] : sysQ[s][j].live => j = i

\* A service that is down or has state of another version is noted as pending, and no
\* service is down while the updater calls.
Accounted ==
  \A s \in Service :
    /\ proc[s].work \in Service => s = Daemon
    /\ proc[s].mode = "down" =>
         /\ sysQ[s] = << >> /\ proc[s].work = "idle" /\ ~Calling
         /\ \E i \in DOMAIN pending : pending[i].name = s
    /\ proc[s].mode # "down" /\ proc[s].data # loaded =>
         \E i \in DOMAIN pending : pending[i] = [name |-> s, replaced |-> FALSE]

\* What each phase of the updater has done with the services.
Phases ==
  /\ pc = "suspend" =>
       /\ pending = << >>
       /\ \A s \in Service : s \in Range(suspended) \cup Range(todo)
  /\ pc = "change" =>
       /\ loaded = job.target
       /\ Len(pending) = Len(todo)
       /\ \A i \in DOMAIN todo : pending[i].name = todo[i]
       /\ reply = "ok" => proc[Head(todo)].data = loaded
  /\ pc \in {"recoverFirst", "recover"} => notes = pending
  /\ pc \in {"decide", "finish"} => pending = << >>
  /\ pc \in {"resume", "recover", "finish"} /\ outcome = "ok" => loaded = job.target

\* A service that answers in time holds no system message whose caller gave up, and is
\* suspended only while the updater has it on a list to be resumed.
Prompts ==
  \A s \in Prompt :
    /\ proc[s].work = "idle"
    /\ \A i \in DOMAIN sysQ[s] : sysQ[s][i].live
    /\ proc[s].mode = "suspended" =>
         \/ pc \in {"suspend", "change"} /\ s \in Range(suspended)
         \/ pc = "suspend" /\ reply = "ok" /\ s = Head(todo)
         \/ /\ pc \in {"resume", "unwind"} /\ s \in Range(todo)
            /\ ~(reply \in {"ok", "error"} /\ s = Head(todo))

\* The inductive invariant of updates one at a time: what is in a mailbox, and what
\* wfcli_daemon knows of, is of this updater.
UpdateInv ==
  /\ ServicesTyped /\ UpdaterTyped /\ OneCall /\ Accounted /\ Phases /\ Prompts
  /\ NoUpdateLockout

USE DEF serviceVars, codeVars, daemonVars, updaterVars, vars

\* A sequence whose elements are mapped.
LEMMA MapTyped ==
  ASSUME NEW S, NEW T, NEW q \in Seq(S), NEW f \in [DOMAIN q -> T]
  PROVE  f \in Seq(T) /\ DOMAIN f = DOMAIN q /\ Len(f) = Len(q)
<1>1. Len(q) \in Nat /\ DOMAIN q = 1..Len(q)
  OBVIOUS
<1>2. f \in [1..Len(q) -> T]
  BY <1>1
<1>3. f \in Seq(T)
  BY <1>1, <1>2, IsASeq
<1> QED
  BY <1>1, <1>2, <1>3

\* What a list is left with.
LEMMA RangeTail ==
  ASSUME NEW S, NEW q \in Seq(S), q # << >>
  PROVE  /\ Head(q) \in S /\ Tail(q) \in Seq(S) /\ Head(q) \in Range(q)
         /\ \A x \in Range(q) : x = Head(q) \/ x \in Range(Tail(q))
         /\ Len(Tail(q)) = Len(q) - 1 /\ DOMAIN q = 1..Len(q) /\ Len(q) \in Nat \ {0}
         /\ \A i \in DOMAIN Tail(q) : i + 1 \in DOMAIN q /\ Tail(q)[i] = q[i + 1]
         /\ DOMAIN Tail(q) = 1..(Len(q) - 1) /\ Head(q) = q[1]
<1>1. /\ Len(q) \in Nat \ {0} /\ DOMAIN q = 1..Len(q) /\ Tail(q) \in Seq(S)
      /\ Len(Tail(q)) = Len(q) - 1 /\ DOMAIN Tail(q) = 1..(Len(q) - 1) /\ Head(q) = q[1]
      /\ \A i \in 1..(Len(q) - 1) : Tail(q)[i] = q[i + 1]
  BY EmptySeq, HeadTailProperties
<1>2. \A i \in DOMAIN Tail(q) : i + 1 \in DOMAIN q /\ Tail(q)[i] = q[i + 1]
  BY <1>1
<1>3. \A i \in DOMAIN q : i = 1 \/ (i - 1 \in DOMAIN Tail(q) /\ Tail(q)[i - 1] = q[i])
  BY <1>1
<1>4. \A x \in Range(q) : x = Head(q) \/ x \in Range(Tail(q))
  BY <1>1, <1>3 DEF Range
<1>5. Head(q) \in Range(q) /\ Head(q) \in S
  BY <1>1 DEF Range
<1> QED
  BY <1>1, <1>2, <1>4, <1>5

\* What a list gains.
LEMMA RangeAppend ==
  ASSUME NEW S, NEW q \in Seq(S), NEW e \in S
  PROVE  /\ Append(q, e) \in Seq(S) /\ e \in Range(Append(q, e))
         /\ \A x \in Range(q) : x \in Range(Append(q, e))
<1> DEFINE r == Append(q, e)
<1>1. /\ r \in Seq(S) /\ DOMAIN r = 1..(Len(q) + 1) /\ DOMAIN q = 1..Len(q)
      /\ Len(q) \in Nat
      /\ \A i \in 1..Len(q) : r[i] = q[i]
      /\ r[Len(q) + 1] = e
  BY AppendProperties
<1> HIDE DEF r
<1>2. \A i \in DOMAIN q : i \in DOMAIN r /\ r[i] = q[i]
  BY <1>1
<1>3. e \in Range(r)
  BY <1>1 DEF Range
<1>4. \A x \in Range(q) : x \in Range(r)
  BY <1>2 DEF Range
<1> QED
  BY <1>1, <1>3, <1>4 DEF r

\* A reversed list has the same elements.
LEMMA RangeReverse ==
  ASSUME NEW S, NEW q \in Seq(S)
  PROVE  Reverse(q) \in Seq(S) /\ \A x \in Range(q) : x \in Range(Reverse(q))
<1>1. Len(q) \in Nat /\ DOMAIN q = 1..Len(q)
  OBVIOUS
<1>2. \A i \in 1..Len(q) : /\ Len(q) - i + 1 \in 1..Len(q)
                           /\ Len(q) - (Len(q) - i + 1) + 1 = i
  BY <1>1
<1>3. Reverse(q) \in [1..Len(q) -> S]
  BY <1>1, <1>2 DEF Reverse
<1>4. \A i \in 1..Len(q) : Reverse(q)[Len(q) - i + 1] = q[i]
  BY <1>2 DEF Reverse
<1>5. \A i \in DOMAIN q : \E j \in DOMAIN Reverse(q) : Reverse(q)[j] = q[i]
  BY <1>1, <1>2, <1>3, <1>4
<1> QED
  BY <1>1, <1>3, <1>5, IsASeq DEF Range

\* Notes of migrations, of which one service is another process now.
LEMMA ReplaceTyped ==
  ASSUME NEW q \in Seq(Migration), NEW s \in Service
  PROVE  /\ Replace(q, s) \in Seq(Migration)
         /\ DOMAIN Replace(q, s) = DOMAIN q /\ Len(Replace(q, s)) = Len(q)
         /\ \A i \in DOMAIN q :
              /\ Replace(q, s)[i].name = q[i].name
              /\ q[i].name # s => Replace(q, s)[i] = q[i]
<1> DEFINE Changed(m) == [m EXCEPT !.replaced = m.replaced \/ m.name = s]
<1>1. ASSUME NEW m \in Migration
      PROVE  /\ Changed(m) \in Migration /\ Changed(m).name = m.name
             /\ m.name # s => Changed(m) = m
  <2>1. m.replaced \in BOOLEAN /\ (m.replaced \/ m.name = s) \in BOOLEAN
    BY DEF Migration
  <2>2. \A b \in BOOLEAN : /\ [m EXCEPT !.replaced = b] \in Migration
                          /\ [m EXCEPT !.replaced = b].name = m.name
    BY DEF Migration
  <2>3. [m EXCEPT !.replaced = m.replaced] = m
    BY DEF Migration
  <2>4. m.name # s => (m.replaced \/ m.name = s) = m.replaced
    BY <2>1
  <2> QED
    BY <2>1, <2>2, <2>3, <2>4, Zenon
<1>2. \A i \in DOMAIN q : q[i] \in Migration /\ Replace(q, s)[i] = Changed(q[i])
  BY DEF Replace
<1> HIDE DEF Changed
<1>3. Replace(q, s) \in [DOMAIN q -> Migration]
  BY <1>1, <1>2 DEF Replace
<1>4. /\ Replace(q, s) \in Seq(Migration)
      /\ DOMAIN Replace(q, s) = DOMAIN q /\ Len(Replace(q, s)) = Len(q)
  BY <1>3, MapTyped
<1> QED
  BY <1>1, <1>2, <1>4

\* A message that waits.
LEMMA MessageTyped ==
  ASSUME NEW s \in Service, ServicesTyped
  PROVE  /\ sysQ[s] \in Seq(Message)
         /\ \A i \in DOMAIN sysQ[s] : sysQ[s][i] \in Message
<1>1. sysQ[s] \in Seq(Message)
  BY DEF ServicesTyped
<1> QED
  BY <1>1

\* The invariant has the types.
LEMMA UpdateTypes == UpdateInv => TypeOK
<1> SUFFICES ASSUME UpdateInv PROVE TypeOK
  OBVIOUS
<1>1. \A s \in Service : sysQ[s] \in Seq(Message)
  BY DEF UpdateInv, ServicesTyped
<1>2. \A s \in Service : \A i \in DOMAIN sysQ[s] : sysQ[s][i] \in Message
  BY <1>1
<1>3. /\ \A i \in DOMAIN pending : pending[i] \in Migration
      /\ \A i \in DOMAIN notes : notes[i] \in Migration
  BY DEF UpdateInv, ServicesTyped
<1> QED
  BY <1>2, <1>3, MeAssumption
     DEF UpdateInv, ServicesTyped, UpdaterTyped, TypeOK, Process, Message, Migration,
         Updater

\* Every service starts up to date, and no update runs.
LEMMA UpdateInit == Init => UpdateInv
<1> SUFFICES ASSUME Init PROVE UpdateInv
  OBVIOUS
<1>1. ServicesTyped
  BY EmptySeq, BoundAssumption DEF Init, ServicesTyped, Process, Version
<1>2. UpdaterTyped
  <2>1. 0 \in Version /\ << >> \in Seq(Service)
    BY EmptySeq, BoundAssumption DEF Version
  <2>2. job \in [id : Version, target : Version, kind : {"artifact", "manual"}]
    BY <2>1 DEF Init
  <2> QED
    BY <2>1, <2>2 DEF Init, UpdaterTyped
<1>3. OneCall /\ Accounted /\ Phases /\ Prompts /\ NoUpdateLockout
  BY NameAssumption, MeAssumption, EmptySeq
     DEF Init, OneCall, Accounted, Phases, Prompts, Prompt, NoUpdateLockout
<1> QED
  BY <1>1, <1>2, <1>3 DEF UpdateInv

\* A handler starts.
LEMMA BeginHandlerSafe ==
  ASSUME UpdateInv, NEW s \in Service, BeginHandler(s)
  PROVE  UpdateInv'
<1>1. ServicesTyped'
  BY NameAssumption
     DEF UpdateInv, ServicesTyped, UpdaterTyped, BeginHandler, Answers, Process
<1>2. UpdaterTyped'
  BY NameAssumption DEF UpdateInv, UpdaterTyped, BeginHandler, Answers, Process
<1>3. OneCall'
  BY NameAssumption
     DEF UpdateInv, OneCall, Calling, Accounted, ServicesTyped, BeginHandler, Answers,
         Process
<1>4. Accounted'
  BY NameAssumption
     DEF UpdateInv, Accounted, ServicesTyped, Calling, BeginHandler, Answers, Process
<1>5. Phases'
  BY NameAssumption
     DEF UpdateInv, Phases, Accounted, ServicesTyped, BeginHandler, Answers, Process
<1>6. Prompts'
  BY NameAssumption
     DEF UpdateInv, Prompts, Prompt, ServicesTyped, BeginHandler, Answers, Process
<1>7. NoUpdateLockout'
  BY NameAssumption DEF UpdateInv, NoUpdateLockout, BeginHandler, Answers, Process
<1> QED
  BY <1>1, <1>2, <1>3, <1>4, <1>5, <1>6, <1>7 DEF UpdateInv

\* A handler ends.
LEMMA EndHandlerSafe ==
  ASSUME UpdateInv, NEW s \in Service, EndHandler(s)
  PROVE  UpdateInv'
<1>1. ServicesTyped'
  BY NameAssumption DEF UpdateInv, ServicesTyped, UpdaterTyped, EndHandler, Process
<1>2. UpdaterTyped'
  BY NameAssumption DEF UpdateInv, UpdaterTyped, EndHandler, Process
<1>3. OneCall'
  BY NameAssumption
     DEF UpdateInv, OneCall, Calling, Accounted, ServicesTyped, EndHandler, Process
<1>4. Accounted'
  BY NameAssumption
     DEF UpdateInv, Accounted, ServicesTyped, Calling, EndHandler, Process
<1>5. Phases'
  BY NameAssumption DEF UpdateInv, Phases, Accounted, ServicesTyped, EndHandler, Process
<1>6. Prompts'
  BY NameAssumption DEF UpdateInv, Prompts, Prompt, ServicesTyped, EndHandler, Process
<1>7. NoUpdateLockout'
  BY NameAssumption DEF UpdateInv, NoUpdateLockout, EndHandler, Process
<1> QED
  BY <1>1, <1>2, <1>3, <1>4, <1>5, <1>6, <1>7 DEF UpdateInv

\* The daemon calls a service, and is busy until it is answered.
LEMMA CallServiceSafe ==
  ASSUME UpdateInv, NEW s \in Service, CallService(s)
  PROVE  UpdateInv'
<1>1. Daemon \in Service
  BY ServiceAssumption
<1>2. /\ proc[Daemon] \in Process /\ s \in {"idle", "busy"} \cup Service
  BY <1>1 DEF UpdateInv, ServicesTyped
<1>3. proc' = [proc EXCEPT ![Daemon] = [proc[Daemon] EXCEPT !.work = s]]
  BY DEF CallService
<1>4. /\ [proc[Daemon] EXCEPT !.work = s] \in Process
      /\ [proc[Daemon] EXCEPT !.work = s].mode = proc[Daemon].mode
      /\ [proc[Daemon] EXCEPT !.work = s].data = proc[Daemon].data
      /\ [proc[Daemon] EXCEPT !.work = s].work = s
  BY <1>2 DEF Process
<1>5. /\ proc' \in [Service -> Process]
      /\ \A t \in Service : t # Daemon => proc'[t] = proc[t]
      /\ proc'[Daemon].mode = proc[Daemon].mode /\ proc'[Daemon].data = proc[Daemon].data
      /\ proc'[Daemon].work = s
  BY <1>1, <1>3, <1>4 DEF UpdateInv, ServicesTyped
<1>6. s # Daemon /\ proc[Daemon].mode # "down"
  BY DEF CallService, Answers
<1>7. UNCHANGED <<sysQ, codeVars, staged, daemonVars, updaterVars>>
  BY DEF CallService
<1>8. ServicesTyped'
  BY <1>1, <1>2, <1>3, <1>4, <1>5, <1>6, <1>7
     DEF UpdateInv, ServicesTyped, UpdaterTyped, CallService, Answers
<1>9. UpdaterTyped'
  BY <1>1, <1>2, <1>3, <1>4, <1>5, <1>6, <1>7
     DEF UpdateInv, UpdaterTyped, CallService, Answers
<1>10. OneCall'
  BY <1>1, <1>2, <1>3, <1>4, <1>5, <1>6, <1>7
     DEF UpdateInv, OneCall, Calling, Accounted, ServicesTyped, CallService, Answers
<1>11. Accounted'
  BY <1>1, <1>2, <1>3, <1>4, <1>5, <1>6, <1>7
     DEF UpdateInv, Accounted, ServicesTyped, Calling, CallService, Answers, Process
<1>12. Phases'
  BY <1>1, <1>2, <1>3, <1>4, <1>5, <1>6, <1>7
     DEF UpdateInv, Phases, Accounted, ServicesTyped, CallService, Answers
<1>13. Prompts'
  BY <1>1, <1>2, <1>3, <1>4, <1>5, <1>6, <1>7
     DEF UpdateInv, Prompts, Prompt, ServicesTyped, CallService, Answers, Process
<1>14. NoUpdateLockout'
  BY <1>1, <1>2, <1>3, <1>4, <1>5, <1>6, <1>7
     DEF UpdateInv, NoUpdateLockout, CallService, Answers
<1> QED
  BY <1>8, <1>9, <1>10, <1>11, <1>12, <1>13, <1>14 DEF UpdateInv

\* With the last service resumed, the notes are recovered.
LEMMA ResumedSafe ==
  ASSUME UpdateInv, Resumed
  PROVE  UpdateInv'
<1>1. ServicesTyped'
  BY EmptySeq DEF UpdateInv, ServicesTyped, UpdaterTyped, Resumed
<1>2. UpdaterTyped'
  BY EmptySeq DEF UpdateInv, UpdaterTyped, Resumed
<1>3. OneCall'
  BY EmptySeq DEF UpdateInv, OneCall, Calling, Accounted, ServicesTyped, Resumed
<1>4. Accounted'
  BY EmptySeq DEF UpdateInv, Accounted, ServicesTyped, Calling, Resumed
<1>5. Phases'
  BY EmptySeq DEF UpdateInv, Phases, Accounted, ServicesTyped, Resumed
<1>6. Prompts'
  BY EmptySeq DEF UpdateInv, Prompts, Prompt, ServicesTyped, Resumed, Range
<1>7. NoUpdateLockout'
  BY EmptySeq DEF UpdateInv, NoUpdateLockout, Resumed
<1> QED
  BY <1>1, <1>2, <1>3, <1>4, <1>5, <1>6, <1>7 DEF UpdateInv

\* A service crashes: a note of it is made, or one is there already.
LEMMA CrashSafe ==
  ASSUME UpdateInv, NEW s \in Service, Crash(s)
  PROVE  UpdateInv'
<1>1. /\ proc' \in [Service -> Process]
      /\ \A t \in Service : t # s => proc'[t] = proc[t]
      /\ proc'[s] = [mode |-> "running", work |-> "idle", data |-> loaded]
  BY DEF UpdateInv, ServicesTyped, UpdaterTyped, Process, Crash, NewProcess
<1>2. /\ sysQ' \in [Service -> Seq(Message)]
      /\ \A t \in Service : t # s => sysQ'[t] = sysQ[t]
      /\ sysQ'[s] = << >>
  BY EmptySeq DEF UpdateInv, ServicesTyped, Crash, NewProcess
<1>3. /\ pending \in Seq(Migration) /\ notes \in Seq(Migration)
      /\ pending' = Replace(pending, s) /\ notes' = Replace(notes, s)
  BY DEF UpdateInv, ServicesTyped, Crash
<1>4. \A i \in DOMAIN pending :
        /\ pending'[i].name = pending[i].name
        /\ pending[i].name # s => pending'[i] = pending[i]
  BY <1>3, ReplaceTyped
<1>5. notes' \in Seq(Migration)
  BY <1>3, ReplaceTyped
<1>6. /\ pending' \in Seq(Migration)
      /\ DOMAIN pending' = DOMAIN pending /\ Len(pending') = Len(pending)
  BY <1>3, ReplaceTyped
<1>7. /\ UNCHANGED <<loaded, oldCode, build, staged, pc, job, todo, suspended, outcome>>
      /\ known' \in {known, staged} /\ update' \in {update, "none"}
      /\ reply' = (IF Called(s) THEN "error" ELSE reply)
  BY DEF Crash, NewProcess
<1>8. /\ Called(s) => reply = "waiting" /\ s = Head(todo)
      /\ proc[s].mode = "running"
  BY DEF UpdateInv, OneCall, Called, Waits, Crash
<1>9. ServicesTyped'
  BY <1>1, <1>2, <1>3, <1>4, <1>5, <1>6, <1>7, <1>8, NameAssumption
     DEF UpdateInv, ServicesTyped, UpdaterTyped
<1>10. UpdaterTyped'
  BY <1>1, <1>2, <1>3, <1>4, <1>5, <1>6, <1>7, <1>8, NameAssumption
     DEF UpdateInv, UpdaterTyped
<1>11. OneCall'
  <2>1. UNCHANGED <<pc, todo>> /\ (Calling' <=> Calling) /\ reply' \in {reply, "error"}
    BY <1>7 DEF Calling
  <2>2. reply' # "none" => Calling' /\ todo' # << >>
    BY <1>7, <1>8, <2>1 DEF UpdateInv, OneCall
  <2>3. ASSUME NEW t \in Service, NEW i \in DOMAIN sysQ'[t], sysQ'[t][i].live
        PROVE  /\ reply' = "waiting" /\ t = Head(todo) /\ sysQ'[t][i].op = CallOf(pc)
               /\ \A j \in DOMAIN sysQ'[t] : sysQ'[t][j].live => j = i
    <3>1. t # s /\ sysQ'[t] = sysQ[t]
      BY <1>2, <2>3, EmptySeq
    <3>2. t = Head(todo) /\ reply = "waiting"
      BY <2>3, <3>1 DEF UpdateInv, OneCall
    <3>3. reply' = reply
      BY <1>7, <1>8, <3>1, <3>2
    <3> QED
      BY <2>3, <3>1, <3>2, <3>3 DEF UpdateInv, OneCall
  <2> QED
    BY <2>1, <2>2, <2>3 DEF OneCall
<1>12. Accounted'
  <2>1. ASSUME NEW t \in Service, t # s
        PROVE  /\ proc'[t].work \in Service => t = Daemon
               /\ proc'[t].mode = "down" =>
                    /\ sysQ'[t] = << >> /\ proc'[t].work = "idle" /\ ~Calling'
                    /\ \E i \in DOMAIN pending' : pending'[i].name = t
               /\ proc'[t].mode # "down" /\ proc'[t].data # loaded' =>
                    \E i \in DOMAIN pending' :
                      pending'[i] = [name |-> t, replaced |-> FALSE]
    <3>1. proc'[t] = proc[t] /\ sysQ'[t] = sysQ[t] /\ loaded' = loaded
          /\ (Calling' <=> Calling)
      BY <1>1, <1>2, <1>7, <2>1 DEF Calling
    <3>2. \A i \in DOMAIN pending : i \in DOMAIN pending' /\ pending'[i].name = pending[i].name
      BY <1>4, <1>6
    <3>3. \A i \in DOMAIN pending :
            pending[i] = [name |-> t, replaced |-> FALSE] => pending'[i] = pending[i]
      <4> TAKE i \in DOMAIN pending
      <4> HAVE pending[i] = [name |-> t, replaced |-> FALSE]
      <4>1. pending[i].name = t
        OBVIOUS
      <4> QED
        BY <1>4, <2>1, <4>1
    <3> QED
      BY <3>1, <3>2, <3>3 DEF UpdateInv, Accounted
  <2>2. /\ proc'[s].work \notin Service /\ proc'[s].mode # "down"
        /\ proc'[s].data = loaded'
    BY <1>1, <1>7, NameAssumption
  <2> QED
    BY <2>1, <2>2 DEF Accounted
<1>13. Phases'
  <2>1. UNCHANGED <<loaded, pc, job, todo, suspended, outcome>>
    BY <1>7
  <2>2. reply' = "ok" => reply = "ok"
    BY <1>7
  <2>3. \A t \in Service : proc'[t].data \in {proc[t].data, loaded}
    BY <1>1
  <2>4. todo # << >> => Head(todo) \in Service
    BY HeadTailProperties DEF UpdateInv, UpdaterTyped
  <2> QED
    <3>1. /\ pending = << >> => pending' = << >>
          /\ notes = pending => notes' = pending'
      BY <1>3, <1>6, EmptySeq
    <3> QED
      BY <2>1, <2>2, <2>3, <2>4, <3>1, <1>4, <1>6, SMTT(30)
         DEF UpdateInv, Phases, OneCall, UpdaterTyped
<1>14. Prompts'
  <2>1. UNCHANGED <<pc, todo, suspended>>
    BY <1>7
  <2>2. \A t \in Service : t # s /\ t = Head(todo) => reply' = reply
    BY <1>7, <1>8
  <2>3. proc'[s].work = "idle" /\ proc'[s].mode = "running"
    BY <1>1
  <2> QED
    BY <2>1, <2>2, <2>3, <1>1, <1>2 DEF UpdateInv, Prompts, Prompt
<1>15. NoUpdateLockout'
  BY <1>7, MeAssumption DEF UpdateInv, NoUpdateLockout
<1> QED
  BY <1>9, <1>10, <1>11, <1>12, <1>13, <1>14, <1>15 DEF UpdateInv

\* A sys call times out, and its message stays in the mailbox.
LEMMA TimesOutSafe ==
  ASSUME UpdateInv, NEW s \in Service, TimesOut(s)
  PROVE  UpdateInv'
<1>1. \A i \in DOMAIN sysQ[s] :
        /\ [sysQ[s][i] EXCEPT !.live = FALSE] \in Message
        /\ ~[sysQ[s][i] EXCEPT !.live = FALSE].live
  <2>1. ASSUME NEW m \in Message
        PROVE  [m EXCEPT !.live = FALSE] \in Message /\ ~[m EXCEPT !.live = FALSE].live
    BY <2>1 DEF Message
  <2>2. \A i \in DOMAIN sysQ[s] : sysQ[s][i] \in Message
    BY MessageTyped DEF UpdateInv
  <2> QED
    BY <2>1, <2>2
<1>2. /\ GivenUp(sysQ[s]) \in [DOMAIN sysQ[s] -> Message]
      /\ \A i \in DOMAIN sysQ[s] : ~GivenUp(sysQ[s])[i].live
  <2>1. \A i \in DOMAIN sysQ[s] : sysQ[s][i] \in Message
    BY MessageTyped DEF UpdateInv
  <2>2. \A i \in DOMAIN sysQ[s] : Waits(sysQ[s][i]) <=> sysQ[s][i].live
    BY <2>1 DEF Waits, Message
  <2> QED
    BY <1>1, <2>1, <2>2 DEF GivenUp
<1>3. /\ sysQ' \in [Service -> Seq(Message)]
      /\ \A t \in Service : t # s => sysQ'[t] = sysQ[t]
      /\ DOMAIN sysQ'[s] = DOMAIN sysQ[s] /\ sysQ'[s] = GivenUp(sysQ[s])
  <2>1. GivenUp(sysQ[s]) \in Seq(Message) /\ DOMAIN GivenUp(sysQ[s]) = DOMAIN sysQ[s]
    BY <1>2, MapTyped DEF UpdateInv, ServicesTyped
  <2> QED
    BY <2>1 DEF UpdateInv, ServicesTyped, TimesOut
<1>4. \A i \in DOMAIN sysQ[s] : ~sysQ'[s][i].live
  BY <1>2, <1>3
<1>5. s \notin Prompt
  BY NameAssumption DEF UpdateInv, Prompts, Prompt, TimesOut, Late
<1>6. reply = "waiting" /\ reply' = "error" /\ s = Head(todo) /\ proc[s].mode # "down"
  BY EmptySeq DEF UpdateInv, OneCall, Accounted, TimesOut, Called, Waits
<1>7. UNCHANGED <<proc, codeVars, staged, daemonVars, pc, job, todo, suspended, notes, outcome>>
  BY DEF TimesOut
<1>8. ServicesTyped'
  BY <1>1, <1>2, <1>3, <1>4, <1>5, <1>6, <1>7 DEF UpdateInv, ServicesTyped, UpdaterTyped
<1>9. UpdaterTyped'
  BY <1>1, <1>2, <1>3, <1>4, <1>5, <1>6, <1>7 DEF UpdateInv, UpdaterTyped
<1>10. OneCall'
  BY <1>1, <1>2, <1>3, <1>4, <1>5, <1>6, <1>7
     DEF UpdateInv, OneCall, Calling, Accounted, ServicesTyped
<1>11. Accounted'
  <2>1. /\ proc' = proc /\ pending' = pending /\ loaded' = loaded /\ pc' = pc
        /\ \A t \in Service : proc[t].mode = "down" => sysQ'[t] = sysQ[t]
    BY <1>3, <1>6, <1>7
  <2> QED
    BY <2>1 DEF UpdateInv, Accounted, Calling
<1>12. Phases'
  BY <1>1, <1>2, <1>3, <1>4, <1>5, <1>6, <1>7
     DEF UpdateInv, Phases, Accounted, ServicesTyped
<1>13. Prompts'
  BY <1>1, <1>2, <1>3, <1>4, <1>5, <1>6, <1>7
     DEF UpdateInv, Prompts, Prompt, ServicesTyped
<1>14. NoUpdateLockout'
  BY <1>1, <1>2, <1>3, <1>4, <1>5, <1>6, <1>7 DEF UpdateInv, NoUpdateLockout
<1> QED
  BY <1>8, <1>9, <1>10, <1>11, <1>12, <1>13, <1>14 DEF UpdateInv

\* A build is staged.
LEMMA StageSafe ==
  ASSUME UpdateInv, Stage
  PROVE  UpdateInv'
<1>1. ServicesTyped'
  BY BoundAssumption DEF UpdateInv, ServicesTyped, UpdaterTyped, Stage, Version
<1>2. UpdaterTyped'
  BY BoundAssumption DEF UpdateInv, UpdaterTyped, Stage, Version
<1>3. OneCall'
  BY BoundAssumption
     DEF UpdateInv, OneCall, Calling, Accounted, ServicesTyped, Stage, Version
<1>4. Accounted'
  BY BoundAssumption DEF UpdateInv, Accounted, ServicesTyped, Calling, Stage, Version
<1>5. Phases'
  BY BoundAssumption DEF UpdateInv, Phases, Accounted, ServicesTyped, Stage, Version
<1>6. Prompts'
  BY BoundAssumption DEF UpdateInv, Prompts, Prompt, ServicesTyped, Stage, Version
<1>7. NoUpdateLockout'
  BY BoundAssumption DEF UpdateInv, NoUpdateLockout, Stage, Version
<1> QED
  BY <1>1, <1>2, <1>3, <1>4, <1>5, <1>6, <1>7 DEF UpdateInv

\* The updater reads what is loaded, and takes the staged build as its target.
LEMMA ReadBuildSafe ==
  ASSUME UpdateInv, ReadBuild
  PROVE  UpdateInv'
<1>1. ServicesTyped'
  BY DEF UpdateInv, ServicesTyped, UpdaterTyped, ReadBuild
<1>2. UpdaterTyped'
  BY DEF UpdateInv, UpdaterTyped, ReadBuild
<1>3. OneCall'
  BY DEF UpdateInv, OneCall, Calling, Accounted, ServicesTyped, ReadBuild
<1>4. Accounted'
  BY DEF UpdateInv, Accounted, ServicesTyped, Calling, ReadBuild
<1>5. Phases'
  BY DEF UpdateInv, Phases, Accounted, ServicesTyped, ReadBuild
<1>6. Prompts'
  BY DEF UpdateInv, Prompts, Prompt, ServicesTyped, ReadBuild
<1>7. NoUpdateLockout'
  BY DEF UpdateInv, NoUpdateLockout, ReadBuild
<1> QED
  BY <1>1, <1>2, <1>3, <1>4, <1>5, <1>6, <1>7 DEF UpdateInv

\* The update ends, and commits the identity of the build when it went well.
LEMMA FinishSafe ==
  ASSUME UpdateInv, Finish
  PROVE  UpdateInv'
<1>1. ServicesTyped'
  BY DEF UpdateInv, ServicesTyped, UpdaterTyped, Finish
<1>2. UpdaterTyped'
  BY DEF UpdateInv, UpdaterTyped, Finish
<1>3. OneCall'
  BY DEF UpdateInv, OneCall, Calling, Accounted, ServicesTyped, Finish
<1>4. Accounted'
  BY DEF UpdateInv, Accounted, ServicesTyped, Calling, Finish
<1>5. Phases'
  BY DEF UpdateInv, Phases, Accounted, ServicesTyped, Finish
<1>6. Prompts'
  BY DEF UpdateInv, Prompts, Prompt, ServicesTyped, Finish
<1>7. NoUpdateLockout'
  BY DEF UpdateInv, NoUpdateLockout, Finish
<1> QED
  BY <1>1, <1>2, <1>3, <1>4, <1>5, <1>6, <1>7 DEF UpdateInv

\* The code is loaded already, and the identity alone is committed.
LEMMA ReconcileSafe ==
  ASSUME UpdateInv, Reconcile
  PROVE  UpdateInv'
<1>1. ServicesTyped'
  BY DEF UpdateInv, ServicesTyped, UpdaterTyped, Reconcile
<1>2. UpdaterTyped'
  BY DEF UpdateInv, UpdaterTyped, Reconcile
<1>3. OneCall'
  BY DEF UpdateInv, OneCall, Calling, Accounted, ServicesTyped, Reconcile
<1>4. Accounted'
  BY DEF UpdateInv, Accounted, ServicesTyped, Calling, Reconcile
<1>5. Phases'
  BY DEF UpdateInv, Phases, Accounted, ServicesTyped, Reconcile
<1>6. Prompts'
  BY DEF UpdateInv, Prompts, Prompt, ServicesTyped, Reconcile
<1>7. NoUpdateLockout'
  BY DEF UpdateInv, NoUpdateLockout, Reconcile
<1> QED
  BY <1>1, <1>2, <1>3, <1>4, <1>5, <1>6, <1>7 DEF UpdateInv

\* The daemon learns that the update ended.
LEMMA UpdateEndsSafe ==
  ASSUME UpdateInv, UpdateEnds
  PROVE  UpdateInv'
<1>1. ServicesTyped'
  BY DEF UpdateInv, ServicesTyped, UpdaterTyped, UpdateEnds
<1>2. UpdaterTyped'
  BY DEF UpdateInv, UpdaterTyped, UpdateEnds, Installed
<1>3. OneCall'
  BY DEF UpdateInv, OneCall, Calling, Accounted, ServicesTyped, UpdateEnds
<1>4. Accounted'
  BY DEF UpdateInv, Accounted, ServicesTyped, Calling, UpdateEnds
<1>5. Phases'
  BY DEF UpdateInv, Phases, Accounted, ServicesTyped, UpdateEnds
<1>6. Prompts'
  BY DEF UpdateInv, Prompts, Prompt, ServicesTyped, UpdateEnds
<1>7. NoUpdateLockout'
  BY MeAssumption DEF UpdateInv, NoUpdateLockout, UpdateEnds
<1> QED
  BY <1>1, <1>2, <1>3, <1>4, <1>5, <1>6, <1>7 DEF UpdateInv

\* The daemon finds a staged build, and starts the updater.
LEMMA ArtifactCheckSafe ==
  ASSUME UpdateInv, ArtifactCheck
  PROVE  UpdateInv'
<1>1. ServicesTyped'
  BY DEF UpdateInv, ServicesTyped, UpdaterTyped, ArtifactCheck, StartUpdater, Answers
<1>2. UpdaterTyped'
  BY DEF UpdateInv, UpdaterTyped, ArtifactCheck, StartUpdater, Answers
<1>3. OneCall'
  BY DEF UpdateInv, OneCall, Calling, Accounted, ServicesTyped, ArtifactCheck,
         StartUpdater, Answers
<1>4. Accounted'
  BY DEF UpdateInv, Accounted, ServicesTyped, Calling, ArtifactCheck, StartUpdater,
         Answers
<1>5. Phases'
  BY DEF UpdateInv, Phases, Accounted, ServicesTyped, ArtifactCheck, StartUpdater,
         Answers
<1>6. Prompts'
  BY DEF UpdateInv, Prompts, Prompt, ServicesTyped, ArtifactCheck, StartUpdater, Answers
<1>7. NoUpdateLockout'
  BY DEF UpdateInv, NoUpdateLockout, ArtifactCheck, StartUpdater, Answers
<1> QED
  BY <1>1, <1>2, <1>3, <1>4, <1>5, <1>6, <1>7 DEF UpdateInv

\* A client asks for an update, and the daemon starts the updater.
LEMMA ManualUpdateSafe ==
  ASSUME UpdateInv, ManualUpdate
  PROVE  UpdateInv'
<1>1. ServicesTyped'
  BY DEF UpdateInv, ServicesTyped, UpdaterTyped, ManualUpdate, StartUpdater, Answers
<1>2. UpdaterTyped'
  BY DEF UpdateInv, UpdaterTyped, ManualUpdate, StartUpdater, Answers
<1>3. OneCall'
  BY DEF UpdateInv, OneCall, Calling, Accounted, ServicesTyped, ManualUpdate,
         StartUpdater, Answers
<1>4. Accounted'
  BY DEF UpdateInv, Accounted, ServicesTyped, Calling, ManualUpdate, StartUpdater,
         Answers
<1>5. Phases'
  BY DEF UpdateInv, Phases, Accounted, ServicesTyped, ManualUpdate, StartUpdater,
         Answers
<1>6. Prompts'
  BY DEF UpdateInv, Prompts, Prompt, ServicesTyped, ManualUpdate, StartUpdater, Answers
<1>7. NoUpdateLockout'
  BY DEF UpdateInv, NoUpdateLockout, ManualUpdate, StartUpdater, Answers
<1> QED
  BY <1>1, <1>2, <1>3, <1>4, <1>5, <1>6, <1>7 DEF UpdateInv

\* A service takes a system message between two handlers.
LEMMA HandleSystemMessageSafe ==
  ASSUME UpdateInv, NEW s \in Service, HandleSystemMessage(s)
  PROVE  UpdateInv'
<1>1. /\ sysQ[s] \in Seq(Message) /\ sysQ[s] # << >> /\ 1 \in DOMAIN sysQ[s]
      /\ Head(sysQ[s]) = sysQ[s][1] /\ Head(sysQ[s]) \in Message
      /\ Tail(sysQ[s]) \in Seq(Message)
      /\ \A i \in DOMAIN Tail(sysQ[s]) :
           i + 1 \in DOMAIN sysQ[s] /\ i + 1 # 1 /\ Tail(sysQ[s])[i] = sysQ[s][i + 1]
  BY MessageTyped, EmptySeq, HeadTailProperties DEF UpdateInv, HandleSystemMessage
<1>2. /\ sysQ' \in [Service -> Seq(Message)] /\ sysQ'[s] = Tail(sysQ[s])
      /\ \A t \in Service : t # s => sysQ'[t] = sysQ[t]
  BY <1>1 DEF UpdateInv, ServicesTyped, HandleSystemMessage
<1>3. /\ UNCHANGED <<codeVars, staged, daemonVars, pc, job, todo, suspended, notes, outcome>>
      /\ (Calling' <=> Calling)
  BY DEF HandleSystemMessage, Calling
<1>4. proc[s].mode # "down" /\ proc[s].work = "idle" /\ proc[s] \in Process
  BY <1>1 DEF UpdateInv, Accounted, ServicesTyped, HandleSystemMessage
<1>5. /\ Head(sysQ[s]).live =>
           /\ reply = "waiting" /\ s = Head(todo) /\ Head(sysQ[s]).op = CallOf(pc)
           /\ \A i \in DOMAIN Tail(sysQ[s]) : ~Tail(sysQ[s])[i].live
  BY <1>1 DEF UpdateInv, OneCall
<1>6. /\ Head(sysQ[s]).live => reply' \in {"ok", "error"}
      /\ ~Head(sysQ[s]).live => reply' = reply
      /\ Head(sysQ[s]).live /\ Head(sysQ[s]).op # "change_code" => reply' = "ok"
  <2>1. Waits(Head(sysQ[s])) <=> Head(sysQ[s]).live
    BY <1>1 DEF Waits, Message
  <2> QED
    BY <2>1 DEF HandleSystemMessage
<1>7. /\ proc' \in [Service -> Process]
      /\ \A t \in Service : t # s => proc'[t] = proc[t]
  <2>1. proc \in [Service -> Process] /\ loaded \in Version
    BY DEF UpdateInv, ServicesTyped, UpdaterTyped
  <2>2. \E p \in Process : proc' = [proc EXCEPT ![s] = p]
    <3>1. \A m \in {"suspended", "running"} : [proc[s] EXCEPT !.mode = m] \in Process
      BY <1>4 DEF Process
    <3>2. [proc[s] EXCEPT !.data = loaded] \in Process
      BY <1>4, <2>1 DEF Process
    <3>3. \/ proc' = [proc EXCEPT ![s] = [proc[s] EXCEPT !.mode = "suspended"]]
          \/ proc' = [proc EXCEPT ![s] = [proc[s] EXCEPT !.mode = "running"]]
          \/ proc' = [proc EXCEPT ![s] = [proc[s] EXCEPT !.data = loaded]]
          \/ proc' = [proc EXCEPT ![s] = proc[s]]
      BY <2>1 DEF HandleSystemMessage
    <3> QED
      BY <1>4, <3>1, <3>2, <3>3
  <2> QED
    BY <2>1, <2>2
<1>8. /\ proc'[s].work = "idle" /\ proc'[s].mode # "down"
      /\ proc'[s].data \in {proc[s].data, loaded}
      /\ Head(sysQ[s]).op = "resume" => proc'[s].mode = "running"
      /\ Head(sysQ[s]).op = "change_code" => proc'[s].mode = proc[s].mode
      /\ Head(sysQ[s]).op = "change_code" /\ Head(sysQ[s]).live /\ reply' = "ok" =>
           proc'[s].data = loaded
  <2>1. Waits(Head(sysQ[s])) <=> Head(sysQ[s]).live
    BY <1>1 DEF Waits, Message
  <2> QED
    BY <1>4, <2>1 DEF UpdateInv, ServicesTyped, UpdaterTyped, HandleSystemMessage, Process
<1>9. ServicesTyped'
  BY <1>1, <1>2, <1>3, <1>4, <1>5, <1>6, <1>7, <1>8
     DEF UpdateInv, ServicesTyped, UpdaterTyped
<1>10. UpdaterTyped'
  BY <1>1, <1>2, <1>3, <1>4, <1>5, <1>6, <1>7, <1>8 DEF UpdateInv, UpdaterTyped
<1>11. OneCall'
  <2>1. reply' # "none" => Calling' /\ todo' # << >>
    BY <1>3, <1>5, <1>6 DEF UpdateInv, OneCall
  <2>2. ASSUME NEW t \in Service, NEW i \in DOMAIN sysQ'[t], sysQ'[t][i].live
        PROVE  /\ reply' = "waiting" /\ t = Head(todo) /\ sysQ'[t][i].op = CallOf(pc)
               /\ \A j \in DOMAIN sysQ'[t] : sysQ'[t][j].live => j = i
    <3>1. CASE t = s
      <4>1. ~Head(sysQ[s]).live /\ reply' = reply
        BY <1>2, <1>5, <1>6, <2>2, <3>1
      <4>2. /\ i + 1 \in DOMAIN sysQ[s] /\ sysQ'[s][i] = sysQ[s][i + 1]
            /\ reply = "waiting" /\ s = Head(todo) /\ sysQ[s][i + 1].op = CallOf(pc)
            /\ \A j \in DOMAIN sysQ[s] : sysQ[s][j].live => j = i + 1
        BY <1>1, <1>2, <2>2, <3>1 DEF UpdateInv, OneCall
      <4>3. \A j \in DOMAIN Tail(sysQ[s]) : j \in Int
        BY <1>1
      <4>4. \A j \in DOMAIN sysQ'[s] : sysQ'[s][j].live => j + 1 = i + 1
        BY <1>1, <1>2, <4>2
      <4> QED
        <5>1. i \in Int /\ \A j \in Int : j + 1 = i + 1 => j = i
          BY <1>2, <2>2, <3>1, <4>3
        <5>2. \A j \in DOMAIN sysQ'[t] : sysQ'[t][j].live => j = i
          BY <1>2, <3>1, <4>3, <4>4, <5>1, Zenon
        <5> QED
          BY <3>1, <4>1, <4>2, <5>2
    <3>2. CASE t # s
      BY <1>2, <1>5, <1>6, <2>2, <3>2 DEF UpdateInv, OneCall
    <3> QED
      BY <3>1, <3>2
  <2> QED
    BY <1>3, <2>1, <2>2 DEF OneCall
<1>12. Accounted'
  <2>1. \A t \in Service : t # s => proc'[t] = proc[t] /\ sysQ'[t] = sysQ[t]
    BY <1>2, <1>7
  <2>2. /\ proc'[s].work = "idle" /\ proc'[s].mode # "down"
        /\ proc'[s].data \in {proc[s].data, loaded}
    BY <1>8
  <2> QED
    BY <1>3, <1>4, <2>1, <2>2, NameAssumption DEF UpdateInv, Accounted
<1>13. Phases'
  <2>1. \A t \in Service : proc'[t].data \in {proc[t].data, loaded}
    BY <1>7, <1>8
  <2>2. todo # << >> => Head(todo) \in Service
    BY HeadTailProperties DEF UpdateInv, UpdaterTyped
  <2>3. pc = "change" /\ reply' = "ok" => proc'[Head(todo)].data = loaded
    <3>1. CASE Head(sysQ[s]).live
      BY <1>5, <1>8, <3>1 DEF CallOf
    <3>2. CASE ~Head(sysQ[s]).live
      BY <1>6, <2>1, <2>2, <3>2 DEF UpdateInv, Phases, OneCall
    <3> QED
      BY <3>1, <3>2
  <2> QED
    BY <1>3, <2>3 DEF UpdateInv, Phases
<1>14. Prompts'
  <2> SUFFICES ASSUME NEW t \in Prompt
               PROVE  /\ proc'[t].work = "idle"
                      /\ \A i \in DOMAIN sysQ'[t] : sysQ'[t][i].live
                      /\ proc'[t].mode = "suspended" =>
                           \/ pc \in {"suspend", "change"} /\ t \in Range(suspended)
                           \/ pc = "suspend" /\ reply' = "ok" /\ t = Head(todo)
                           \/ /\ pc \in {"resume", "unwind"} /\ t \in Range(todo)
                              /\ ~(reply' \in {"ok", "error"} /\ t = Head(todo))
    BY <1>3, Zenon DEF Prompts
  <2>1. t \in Service
    BY DEF Prompt
  <2>2. CASE t = s
    <3>1. Head(sysQ[s]).live
      BY <1>1, <2>2 DEF UpdateInv, Prompts
    <3>2. \A i \in DOMAIN sysQ'[t] : sysQ'[t][i].live
      <4>1. \A i \in DOMAIN sysQ[s] : sysQ[s][i].live
        BY <2>2 DEF UpdateInv, Prompts
      <4> QED
        BY <1>1, <1>2, <2>2, <4>1, Zenon
    <3>3. CASE pc = "suspend"
      BY <1>5, <1>6, <1>8, <2>2, <3>1, <3>2, <3>3 DEF CallOf
    <3>4. CASE pc = "change"
      BY <1>5, <1>8, <2>2, <3>1, <3>2, <3>4 DEF CallOf, UpdateInv, Prompts
    <3>5. CASE pc \notin {"suspend", "change"}
      BY <1>5, <1>8, <2>2, <3>1, <3>2, <3>5 DEF CallOf
    <3> QED
      BY <3>3, <3>4, <3>5
  <2>3. CASE t # s
    <3>1. proc'[t] = proc[t] /\ sysQ'[t] = sysQ[t]
      BY <1>2, <1>7, <2>1, <2>3
    <3>2. t = Head(todo) => reply' = reply
      BY <1>5, <1>6, <2>3
    <3> QED
      BY <3>1, <3>2 DEF UpdateInv, Prompts
  <2> QED
    BY <2>2, <2>3
<1>15. NoUpdateLockout'
  BY <1>1, <1>2, <1>3, <1>4, <1>5, <1>6, <1>7, <1>8 DEF UpdateInv, NoUpdateLockout
<1> QED
  BY <1>9, <1>10, <1>11, <1>12, <1>13, <1>14, <1>15 DEF UpdateInv

\* The updater sends the next service a system message.
LEMMA CallSafe ==
  ASSUME UpdateInv, Calling, Call(CallOf(pc))
  PROVE  UpdateInv'
<1> DEFINE s == Head(todo)
           m == [op |-> CallOf(pc), by |-> Me, live |-> TRUE, aged |-> FALSE]
<1>1. todo # << >> /\ reply = "none" /\ s \in Service /\ proc[s].mode # "down"
  BY RangeTail DEF UpdateInv, UpdaterTyped, Accounted, Call
<1>2. \A t \in Service : \A i \in DOMAIN sysQ[t] : ~sysQ[t][i].live
  BY <1>1 DEF UpdateInv, OneCall
<1>3. m \in Message /\ m.live /\ m.op = CallOf(pc)
  BY DEF Message, CallOf
<1>4. sysQ[s] \in Seq(Message)
  BY <1>1, MessageTyped DEF UpdateInv
<1> HIDE DEF s
<1>5. /\ reply' = "waiting" /\ sysQ' = [sysQ EXCEPT ![s] = Append(sysQ[s], m)]
      /\ UNCHANGED <<proc, codeVars, staged, daemonVars, pc, job, todo, suspended, notes, outcome>>
  BY <1>1 DEF Call, s
<1> HIDE DEF m
<1>6. /\ sysQ' \in [Service -> Seq(Message)] /\ sysQ'[s] = Append(sysQ[s], m)
      /\ \A t \in Service : t # s => sysQ'[t] = sysQ[t]
  BY <1>1, <1>3, <1>4, <1>5, AppendProperties DEF UpdateInv, ServicesTyped
<1>7. \A i \in DOMAIN sysQ'[s] :
        \/ i \in DOMAIN sysQ[s] /\ sysQ'[s][i] = sysQ[s][i]
        \/ i = Len(sysQ[s]) + 1 /\ sysQ'[s][i] = m
  BY <1>3, <1>4, <1>6, AppendProperties
<1>8. ServicesTyped' /\ UpdaterTyped' /\ Phases' /\ NoUpdateLockout'
  BY <1>1, <1>5, <1>6
     DEF UpdateInv, ServicesTyped, UpdaterTyped, Phases, NoUpdateLockout
<1>9. OneCall'
  BY <1>1, <1>2, <1>3, <1>5, <1>6, <1>7 DEF OneCall, Calling, s
<1>10. Accounted'
  BY <1>1, <1>5, <1>6 DEF UpdateInv, Accounted, Calling
<1>11. Prompts'
  <2>1. \A t \in Prompt : \A i \in DOMAIN sysQ[t] : sysQ[t][i].live
    BY DEF UpdateInv, Prompts
  <2>2. ASSUME NEW t \in Prompt, NEW i \in DOMAIN sysQ'[t]
        PROVE  sysQ'[t][i].live
    <3>1. CASE t # s
      BY <1>6, <2>1, <2>2, <3>1 DEF Prompt
    <3>2. CASE t = s
      BY <1>3, <1>7, <2>1, <2>2, <3>2
    <3> QED
      BY <3>1, <3>2
  <2> QED
    BY <2>2, <1>1, <1>5 DEF UpdateInv, Prompts, Prompt, OneCall
<1> QED
  BY <1>8, <1>9, <1>10, <1>11 DEF UpdateInv

\* A suspension returns, in time or not.
LEMMA SuspendReturnsSafe ==
  ASSUME UpdateInv, SuspendReturns
  PROVE  UpdateInv'
<1>1. \A t \in Service : \A i \in DOMAIN sysQ[t] : ~sysQ[t][i].live
  BY DEF UpdateInv, OneCall, SuspendReturns
<1>2. todo # << >> /\ todo \in Seq(Service) /\ suspended \in Seq(Service)
  BY DEF UpdateInv, OneCall, UpdaterTyped, SuspendReturns
<1>3. /\ Tail(todo) \in Seq(Service) /\ Append(suspended, Head(todo)) \in Seq(Service)
      /\ \A x \in Range(todo) : x = Head(todo) \/ x \in Range(Tail(todo))
      /\ Head(todo) \in Range(Append(suspended, Head(todo)))
      /\ \A x \in Range(suspended) : x \in Range(Append(suspended, Head(todo)))
  BY <1>2, RangeTail, RangeAppend
<1>4. reply = "ok" =>
        /\ todo' \in Seq(Service) /\ suspended' \in Seq(Service)
        /\ \A x \in Range(todo) : x = Head(todo) \/ x \in Range(todo')
        /\ Head(todo) \in Range(suspended')
        /\ \A x \in Range(suspended) : x \in Range(suspended')
        /\ pc' = pc /\ outcome' = outcome
  BY <1>3 DEF SuspendReturns
<1>5. reply # "ok" =>
        /\ pc' = "unwind" /\ outcome' = "error" /\ todo' = suspended /\ suspended' = suspended
  BY DEF SuspendReturns
<1>6. /\ pc = "suspend" /\ reply \in {"ok", "error"} /\ reply' = "none"
      /\ UNCHANGED <<serviceVars, codeVars, staged, daemonVars, job, notes>>
  BY DEF SuspendReturns
<1>7. ServicesTyped'
  BY <1>1, <1>2, <1>3, <1>4, <1>5, <1>6 DEF UpdateInv, ServicesTyped, UpdaterTyped
<1>8. UpdaterTyped'
  BY <1>1, <1>2, <1>3, <1>4, <1>5, <1>6 DEF UpdateInv, UpdaterTyped
<1>9. OneCall'
  BY <1>1, <1>2, <1>3, <1>4, <1>5, <1>6
     DEF UpdateInv, OneCall, Calling, Accounted, ServicesTyped
<1>10. Accounted'
  BY <1>1, <1>2, <1>3, <1>4, <1>5, <1>6 DEF UpdateInv, Accounted, ServicesTyped, Calling
<1>11. Phases'
  BY <1>1, <1>2, <1>3, <1>4, <1>5, <1>6 DEF UpdateInv, Phases, Accounted, ServicesTyped
<1>12. Prompts'
  BY <1>1, <1>2, <1>3, <1>4, <1>5, <1>6 DEF UpdateInv, Prompts, Prompt, ServicesTyped
<1>13. NoUpdateLockout'
  BY <1>1, <1>2, <1>3, <1>4, <1>5, <1>6 DEF UpdateInv, NoUpdateLockout
<1> QED
  BY <1>7, <1>8, <1>9, <1>10, <1>11, <1>12, <1>13 DEF UpdateInv

\* With every service suspended, the code is loaded and every service noted.
LEMMA LoadSafe ==
  ASSUME UpdateInv, Load
  PROVE  UpdateInv'
<1>1. reply = "none"
  BY DEF UpdateInv, OneCall, Load, UpdaterTyped
<1>2. \A t \in Service : \A i \in DOMAIN sysQ[t] : ~sysQ[t][i].live
  BY <1>1 DEF UpdateInv, OneCall
<1>3. \A t \in Service : t \in Range(suspended) /\ proc[t].mode # "down"
  BY EmptySeq DEF UpdateInv, Accounted, Phases, Calling, Load, Range
<1>4. /\ suspended \in Seq(Service) /\ Reverse(suspended) \in Seq(Service)
      /\ \A t \in Service : t \in Range(Reverse(suspended))
  BY <1>3, RangeReverse DEF UpdateInv, UpdaterTyped
<1>5. /\ [i \in DOMAIN suspended |-> [name |-> suspended[i], replaced |-> FALSE]]
           \in [DOMAIN suspended -> Migration]
      /\ [i \in DOMAIN suspended |->
            [name |-> suspended[i], replaced |-> proc[suspended[i]].mode = "down"]]
           = [i \in DOMAIN suspended |-> [name |-> suspended[i], replaced |-> FALSE]]
  <2>1. \A i \in DOMAIN suspended :
          suspended[i] \in Service /\ (proc[suspended[i]].mode = "down") = FALSE
    BY <1>3, <1>4
  <2> QED
    BY <2>1 DEF Migration
<1>6. pc' = "change" =>
        /\ pending' \in Seq(Migration) /\ Len(pending') = Len(suspended)
        /\ DOMAIN pending' = DOMAIN suspended
        /\ \A i \in DOMAIN suspended : pending'[i] = [name |-> suspended[i], replaced |-> FALSE]
        /\ loaded' = job.target /\ outcome' = outcome /\ todo' = suspended
  <2> SUFFICES ASSUME pc' = "change"
               PROVE  /\ pending' \in Seq(Migration) /\ Len(pending') = Len(suspended)
                      /\ DOMAIN pending' = DOMAIN suspended
                      /\ \A i \in DOMAIN suspended :
                           pending'[i] = [name |-> suspended[i], replaced |-> FALSE]
                      /\ loaded' = job.target /\ outcome' = outcome /\ todo' = suspended
    OBVIOUS
  <2> DEFINE f == [i \in DOMAIN suspended |-> [name |-> suspended[i], replaced |-> FALSE]]
  <2>1. pending' = f /\ loaded' = job.target /\ outcome' = outcome /\ todo' = suspended
    BY <1>5 DEF Load
  <2>2. f \in [DOMAIN suspended -> Migration]
    BY <1>5
  <2>3. \A i \in DOMAIN suspended : f[i] = [name |-> suspended[i], replaced |-> FALSE]
    OBVIOUS
  <2> HIDE DEF f
  <2>4. f \in Seq(Migration) /\ DOMAIN f = DOMAIN suspended /\ Len(f) = Len(suspended)
    BY <1>4, <2>2, MapTyped
  <2> QED
    BY <2>1, <2>3, <2>4
<1>7. pc' # "change" =>
        /\ pc' = "resume" /\ pending' = << >> /\ loaded' = loaded
        /\ todo' = Reverse(suspended) /\ outcome' = "error"
  BY DEF Load
<1>8. /\ pc = "suspend" /\ todo = << >> /\ pc' \in {"change", "resume"} /\ pending = << >>
      /\ UNCHANGED <<serviceVars, build, staged, daemonVars, job, suspended, notes, reply>>
      /\ oldCode' \in BOOLEAN
  BY DEF UpdateInv, UpdaterTyped, Phases, Load
<1>9. ServicesTyped'
  BY <1>1, <1>2, <1>3, <1>4, <1>5, <1>6, <1>7, <1>8
     DEF UpdateInv, ServicesTyped, UpdaterTyped
<1>10. UpdaterTyped'
  BY <1>1, <1>2, <1>3, <1>4, <1>5, <1>6, <1>7, <1>8 DEF UpdateInv, UpdaterTyped
<1>11. OneCall'
  BY <1>1, <1>2, <1>3, <1>4, <1>5, <1>6, <1>7, <1>8
     DEF UpdateInv, OneCall, Calling, Accounted, ServicesTyped
<1>12. Accounted'
  <2>1. CASE pc' = "change"
    <3>1. \A t \in Service : \E i \in DOMAIN suspended : suspended[i] = t
      BY <1>3 DEF Range
    <3>2. \A t \in Service : \E i \in DOMAIN pending' :
            pending'[i] = [name |-> t, replaced |-> FALSE]
      BY <1>6, <2>1, <3>1
    <3>3. \A t \in Service : proc'[t] = proc[t] /\ proc[t].mode # "down"
      BY <1>3, <1>8
    <3> QED
      BY <3>2, <3>3 DEF UpdateInv, Accounted
  <2>2. CASE pc' # "change"
    BY <1>3, <1>7, <1>8, <2>2 DEF UpdateInv, Accounted
  <2> QED
    BY <2>1, <2>2
<1>13. Phases'
  <2>1. CASE pc' = "change"
    <3>1. /\ loaded' = job'.target /\ Len(pending') = Len(todo') /\ reply' # "ok"
      BY <1>1, <1>6, <1>8, <2>1
    <3>2. \A i \in DOMAIN todo' : pending'[i].name = todo'[i]
      BY <1>6, <2>1
    <3> QED
      BY <2>1, <3>1, <3>2 DEF Phases
  <2>2. CASE pc' # "change"
    BY <1>7, <2>2 DEF Phases
  <2> QED
    BY <2>1, <2>2
<1>14. Prompts'
  BY <1>1, <1>2, <1>3, <1>4, <1>5, <1>6, <1>7, <1>8
     DEF UpdateInv, Prompts, Prompt, ServicesTyped
<1>15. NoUpdateLockout'
  BY <1>1, <1>2, <1>3, <1>4, <1>5, <1>6, <1>7, <1>8 DEF UpdateInv, NoUpdateLockout
<1> QED
  BY <1>9, <1>10, <1>11, <1>12, <1>13, <1>14, <1>15 DEF UpdateInv

\* A migration returns, in time or not.
LEMMA ChangeReturnsSafe ==
  ASSUME UpdateInv, ChangeReturns
  PROVE  UpdateInv'
<1>1. \A t \in Service : \A i \in DOMAIN sysQ[t] : ~sysQ[t][i].live
  BY DEF UpdateInv, OneCall, ChangeReturns
<1>2. /\ todo # << >> /\ todo \in Seq(Service) /\ suspended \in Seq(Service)
      /\ pending \in Seq(Migration) /\ Len(pending) = Len(todo) /\ pending # << >>
  BY EmptySeq DEF UpdateInv, OneCall, UpdaterTyped, ServicesTyped, Phases, ChangeReturns
<1>3. reply = "ok" =>
        /\ todo' = Tail(todo) /\ pending' = Tail(pending) /\ pc' = pc /\ outcome' = outcome
  BY <1>2 DEF ChangeReturns
<1>4. reply # "ok" =>
        /\ pc' = "resume" /\ outcome' = "error" /\ todo' = Reverse(suspended)
        /\ pending' = pending
  BY DEF ChangeReturns
<1>5. /\ pc = "change" /\ reply \in {"ok", "error"} /\ reply' = "none"
      /\ UNCHANGED <<serviceVars, loaded, oldCode, build, staged, daemonVars, job, suspended,
                     notes>>
  BY DEF ChangeReturns
<1>6. /\ Tail(pending) \in Seq(Migration) /\ Len(Tail(pending)) = Len(pending) - 1
      /\ DOMAIN pending = 1..Len(pending) /\ Len(pending) \in Nat \ {0}
      /\ DOMAIN Tail(pending) = 1..(Len(pending) - 1)
      /\ \A i \in 1..(Len(pending) - 1) : Tail(pending)[i] = pending[i + 1]
  BY <1>2, RangeTail
<1>7. /\ Tail(todo) \in Seq(Service) /\ Len(Tail(todo)) = Len(todo) - 1
      /\ DOMAIN todo = 1..Len(todo)
      /\ DOMAIN Tail(todo) = 1..(Len(todo) - 1)
      /\ \A i \in 1..(Len(todo) - 1) : Tail(todo)[i] = todo[i + 1]
      /\ Reverse(suspended) \in Seq(Service)
      /\ \A x \in Range(suspended) : x \in Range(Reverse(suspended))
  BY <1>2, RangeTail, RangeReverse
<1>8. ServicesTyped'
  BY <1>1, <1>2, <1>3, <1>4, <1>5, <1>6, <1>7 DEF UpdateInv, ServicesTyped, UpdaterTyped
<1>9. UpdaterTyped'
  BY <1>1, <1>2, <1>3, <1>4, <1>5, <1>6, <1>7 DEF UpdateInv, UpdaterTyped
<1>10. OneCall'
  BY <1>1, <1>2, <1>3, <1>4, <1>5, <1>6, <1>7
     DEF UpdateInv, OneCall, Calling, Accounted, ServicesTyped
<1>11. Accounted'
  <2>1. CASE reply = "ok"
    <3>1. Head(todo) \in Service /\ proc[Head(todo)].data = loaded
      BY <1>2, <1>5, <2>1, RangeTail DEF UpdateInv, Phases
    <3>2. pending[1].name = Head(todo)
      BY <1>2, <1>5, RangeTail DEF UpdateInv, Phases
    <3>3. ASSUME NEW t \in Service, NEW i \in DOMAIN pending,
                 pending[i] = [name |-> t, replaced |-> FALSE], proc[t].data # loaded
          PROVE  \E j \in DOMAIN pending' : pending'[j] = pending[i]
      <4>1. i # 1
        BY <3>1, <3>2, <3>3
      <4>2. i - 1 \in DOMAIN Tail(pending) /\ Tail(pending)[i - 1] = pending[i]
        BY <1>6, <4>1
      <4> QED
        BY <1>3, <2>1, <4>2
    <3>4. \A t \in Service : proc[t].mode # "down"
      BY <1>5 DEF UpdateInv, Accounted, Calling
    <3> QED
      BY <1>5, <3>3, <3>4 DEF UpdateInv, Accounted
  <2>2. CASE reply # "ok"
    BY <1>4, <1>5, <2>2 DEF UpdateInv, Accounted, Calling
  <2> QED
    BY <2>1, <2>2
<1>12. Phases'
  <2>1. CASE reply = "ok"
    <3>1. Len(pending') = Len(todo') /\ pc' = "change" /\ loaded' = job'.target
          /\ reply' # "ok"
      BY <1>3, <1>5, <1>6, <1>7, <1>2, <2>1 DEF UpdateInv, Phases
    <3>2. \A i \in DOMAIN todo' : pending'[i].name = todo'[i]
      <4>1. \A i \in DOMAIN Tail(todo) :
              /\ i \in DOMAIN Tail(pending) /\ i + 1 \in DOMAIN todo
              /\ Tail(todo)[i] = todo[i + 1] /\ Tail(pending)[i] = pending[i + 1]
        BY <1>2, <1>6, <1>7
      <4> QED
        BY <1>3, <1>5, <2>1, <4>1 DEF UpdateInv, Phases
    <3> QED
      BY <3>1, <3>2 DEF Phases
  <2>2. CASE reply # "ok"
    BY <1>4, <2>2 DEF Phases
  <2> QED
    BY <2>1, <2>2
<1>13. Prompts'
  BY <1>1, <1>2, <1>3, <1>4, <1>5, <1>6, <1>7
     DEF UpdateInv, Prompts, Prompt, ServicesTyped
<1>14. NoUpdateLockout'
  BY <1>1, <1>2, <1>3, <1>4, <1>5, <1>6, <1>7 DEF UpdateInv, NoUpdateLockout
<1> QED
  BY <1>8, <1>9, <1>10, <1>11, <1>12, <1>13, <1>14 DEF UpdateInv

\* With every service migrated, they are resumed in reverse.
LEMMA MigratedSafe ==
  ASSUME UpdateInv, Migrated
  PROVE  UpdateInv'
<1>1. suspended \in Seq(Service) /\ reply = "none"
  BY DEF UpdateInv, OneCall, UpdaterTyped, Migrated
<1>2. ServicesTyped'
  BY <1>1, RangeReverse DEF UpdateInv, ServicesTyped, UpdaterTyped, Migrated
<1>3. UpdaterTyped'
  BY <1>1, RangeReverse DEF UpdateInv, UpdaterTyped, Migrated
<1>4. OneCall'
  BY <1>1, RangeReverse
     DEF UpdateInv, OneCall, Calling, Accounted, ServicesTyped, Migrated
<1>5. Accounted'
  BY <1>1, RangeReverse DEF UpdateInv, Accounted, ServicesTyped, Calling, Migrated
<1>6. Phases'
  BY <1>1, RangeReverse DEF UpdateInv, Phases, Accounted, ServicesTyped, Migrated
<1>7. Prompts'
  BY <1>1, RangeReverse DEF UpdateInv, Prompts, Prompt, ServicesTyped, Migrated
<1>8. NoUpdateLockout'
  BY <1>1, RangeReverse DEF UpdateInv, NoUpdateLockout, Migrated
<1> QED
  BY <1>2, <1>3, <1>4, <1>5, <1>6, <1>7, <1>8 DEF UpdateInv

\* A resumption returns, in time or not.
LEMMA ResumeReturnsSafe ==
  ASSUME UpdateInv, ResumeReturns
  PROVE  UpdateInv'
<1>1. \A t \in Service : \A i \in DOMAIN sysQ[t] : ~sysQ[t][i].live
  BY DEF UpdateInv, OneCall, ResumeReturns
<1>2. todo # << >> /\ todo \in Seq(Service)
  BY DEF UpdateInv, OneCall, UpdaterTyped, ResumeReturns
<1>3. /\ todo' \in Seq(Service)
      /\ \A x \in Range(todo) : x = Head(todo) \/ x \in Range(todo')
  BY <1>2, RangeTail DEF ResumeReturns
<1>4. ServicesTyped'
  BY <1>1, <1>2, <1>3 DEF UpdateInv, ServicesTyped, UpdaterTyped, ResumeReturns
<1>5. UpdaterTyped'
  BY <1>1, <1>2, <1>3 DEF UpdateInv, UpdaterTyped, ResumeReturns
<1>6. OneCall'
  BY <1>1, <1>2, <1>3
     DEF UpdateInv, OneCall, Calling, Accounted, ServicesTyped, ResumeReturns
<1>7. Accounted'
  BY <1>1, <1>2, <1>3 DEF UpdateInv, Accounted, ServicesTyped, Calling, ResumeReturns
<1>8. Phases'
  BY <1>1, <1>2, <1>3 DEF UpdateInv, Phases, Accounted, ServicesTyped, ResumeReturns
<1>9. Prompts'
  BY <1>1, <1>2, <1>3 DEF UpdateInv, Prompts, Prompt, ServicesTyped, ResumeReturns
<1>10. NoUpdateLockout'
  BY <1>1, <1>2, <1>3 DEF UpdateInv, NoUpdateLockout, ResumeReturns
<1> QED
  BY <1>4, <1>5, <1>6, <1>7, <1>8, <1>9, <1>10 DEF UpdateInv

\* With every service up, an update is about all of them.
LEMMA AllLiving ==
  ASSUME \A s \in Service : proc[s].mode # "down"
  PROVE  Living = Order
<1> DEFINE n == Len(Order)
           up == {i \in DOMAIN Order : proc[Order[i]].mode # "down"}
           Place(i) == Cardinality({j \in up : j <= i})
<1>1. n \in Nat /\ Order \in [1..n -> Service] /\ DOMAIN Order = 1..n
  BY ServiceAssumption
<1>2. up = 1..n
  BY <1>1
<1>3. Cardinality(up) = n /\ \A i \in 1..n : Cardinality(1..i) = i
  <2>1. \A i \in Nat : Cardinality(1..i) = i
    <3> TAKE i \in Nat
    <3>1. Cardinality(1..i) = IF 1 > i THEN 0 ELSE i - 1 + 1
      BY FS_Interval
    <3> QED
      BY <3>1
  <2>2. Cardinality(1..n) = n
    BY <1>1, <2>1
  <2>3. \A i \in 1..n : i \in Nat
    BY <1>1
  <2> QED
    BY <1>2, <2>1, <2>2, <2>3
<1>4. \A i \in 1..n : Place(i) = i
  <2> TAKE i \in 1..n
  <2>1. {j \in up : j <= i} = 1..i
    BY <1>1, <1>2
  <2> QED
    BY <1>3, <2>1
<1>5. \A k \in 1..n : (CHOOSE i \in up : Place(i) = k) = k
  <2> TAKE k \in 1..n
  <2>1. k \in up /\ Place(k) = k
    BY <1>2, <1>4
  <2>2. \A i \in up : Place(i) = k => i = k
    BY <1>2, <1>4
  <2> HIDE DEF Place, up
  <2> QED
    BY <2>1, <2>2
<1>6. Living = [k \in 1..Cardinality(up) |-> Order[CHOOSE i \in up : Place(i) = k]]
  BY DEF Living
<1> HIDE DEF Place, up, n
<1>7. Living = [k \in 1..n |-> Order[k]]
  <2>1. \A k \in 1..n : Order[CHOOSE i \in up : Place(i) = k] = Order[k]
    BY <1>5
  <2> QED
    BY <1>3, <1>6, <2>1
<1> QED
  BY <1>1, <1>7

\* With nothing left to recover, the update is about every service.
LEMMA DecideSafe ==
  ASSUME UpdateInv, Decide
  PROVE  UpdateInv'
<1>1. /\ pc = "decide" /\ pending = << >> /\ reply = "none"
      /\ pc' \in {"suspend", "done"}
  BY DEF UpdateInv, UpdaterTyped, OneCall, Calling, Phases, Decide
<1>2. \A s \in Service : proc[s].mode # "down"
  BY <1>1 DEF UpdateInv, Accounted
<1>3. \A s \in Service : s \in Range(Order)
  BY ServiceAssumption DEF Range
<1>4. Order \in Seq(Service)
  BY ServiceAssumption
<1>5. /\ pc' = "suspend" => todo' = Order
      /\ pc' # "suspend" => todo' = todo
      /\ outcome' \in {outcome, "error"} /\ oldCode' \in {oldCode, FALSE}
      /\ UNCHANGED <<serviceVars, loaded, pending, build, staged, daemonVars, job, suspended,
                     notes, reply>>
  BY <1>2, AllLiving DEF Decide
<1>6. ServicesTyped'
  BY <1>1, <1>2, <1>3, <1>4, <1>5 DEF UpdateInv, ServicesTyped, UpdaterTyped
<1>7. UpdaterTyped'
  BY <1>1, <1>2, <1>3, <1>4, <1>5 DEF UpdateInv, UpdaterTyped
<1>8. OneCall'
  BY <1>1, <1>2, <1>3, <1>4, <1>5
     DEF UpdateInv, OneCall, Calling, Accounted, ServicesTyped
<1>9. Accounted'
  BY <1>1, <1>2, <1>3, <1>4, <1>5 DEF UpdateInv, Accounted, ServicesTyped, Calling
<1>10. Phases'
  BY <1>1, <1>2, <1>3, <1>4, <1>5 DEF UpdateInv, Phases, Accounted, ServicesTyped
<1>11. Prompts'
  BY <1>1, <1>2, <1>3, <1>4, <1>5 DEF UpdateInv, Prompts, Prompt, ServicesTyped
<1>12. NoUpdateLockout'
  BY <1>1, <1>2, <1>3, <1>4, <1>5 DEF UpdateInv, NoUpdateLockout
<1> QED
  BY <1>6, <1>7, <1>8, <1>9, <1>10, <1>11, <1>12 DEF UpdateInv

\* A service noted is restarted, unless it came up with the loaded code since.
LEMMA RecoverPendingSafe ==
  ASSUME UpdateInv, RecoverPending
  PROVE  UpdateInv'
<1>1. /\ pc \in {"recoverFirst", "recover"} /\ reply = "none" /\ ~Calling
      /\ pending \in Seq(Migration) /\ pending # << >> /\ notes = pending
  BY DEF UpdateInv, UpdaterTyped, ServicesTyped, OneCall, Calling, Phases, RecoverPending
<1>2. /\ Head(pending) \in Migration /\ Tail(pending) \in Seq(Migration)
      /\ Head(pending) = pending[1] /\ 1 \in DOMAIN pending
      /\ \A i \in DOMAIN pending :
           i # 1 => i - 1 \in DOMAIN Tail(pending) /\ Tail(pending)[i - 1] = pending[i]
  BY <1>1, RangeTail
<1>3. Head(pending).name \in Service
  BY <1>2 DEF Migration
<1>4. UNCHANGED <<loaded, oldCode, build, staged, job, todo, suspended, reply>>
  BY DEF RecoverPending
<1>5. \A s \in Service :
        /\ s \in Prompt => proc[s].mode # "suspended"
        /\ \A i \in DOMAIN sysQ[s] : ~sysQ[s][i].live
  BY <1>1 DEF UpdateInv, Prompts, OneCall
<1>6. loaded \in Version
  BY DEF UpdateInv, UpdaterTyped
<1>7. CASE Recovered(Head(pending))
  <2>1. /\ pending' = Tail(pending) /\ notes' = pending'
        /\ UNCHANGED <<serviceVars, daemonVars, pc, outcome>>
    BY <1>1, <1>7 DEF RecoverPending
  <2>2. Head(pending).replaced /\ proc[Head(pending).name].mode # "down"
    BY <1>7 DEF Recovered
  <2>3. \A s \in Service, i \in DOMAIN pending :
          /\ proc[s].mode = "down" /\ pending[i].name = s => i # 1
          /\ pending[i] = [name |-> s, replaced |-> FALSE] => i # 1
    BY <1>2, <2>2
  <2>4. \A i \in DOMAIN pending :
          i # 1 => \E j \in DOMAIN pending' : pending'[j] = pending[i]
    BY <1>2, <2>1
  <2>5. Accounted'
    <3>1. \A t \in Service, i \in DOMAIN pending :
            /\ proc[t].mode = "down" /\ pending[i].name = t =>
                 \E j \in DOMAIN pending' : pending'[j].name = t
            /\ pending[i] = [name |-> t, replaced |-> FALSE] =>
                 \E j \in DOMAIN pending' : pending'[j] = [name |-> t, replaced |-> FALSE]
      BY <2>3, <2>4
    <3>2. proc' = proc /\ sysQ' = sysQ /\ loaded' = loaded /\ (Calling' <=> Calling)
      BY <1>4, <2>1 DEF Calling
    <3> QED
      BY <3>1, <3>2 DEF UpdateInv, Accounted
  <2>6. /\ ServicesTyped' /\ UpdaterTyped' /\ OneCall'
        /\ Phases' /\ Prompts' /\ NoUpdateLockout'
    BY <1>1, <1>2, <1>4, <2>1
       DEF UpdateInv, ServicesTyped, UpdaterTyped, OneCall, Calling, Phases, Prompts,
           NoUpdateLockout
  <2> QED
    BY <2>5, <2>6 DEF UpdateInv
<1>8. CASE ~Recovered(Head(pending)) /\ NewProcess(Head(pending).name)
           /\ pending' = Tail(pending) /\ notes' = pending' /\ UNCHANGED <<pc, outcome>>
  <2> DEFINE s == Head(pending).name
  <2>1. /\ proc' \in [Service -> Process]
        /\ \A t \in Service : t # s => proc'[t] = proc[t]
        /\ proc'[s] = [mode |-> "running", work |-> "idle", data |-> loaded]
    BY <1>3, <1>6, <1>8 DEF UpdateInv, ServicesTyped, Process, NewProcess
  <2>2. /\ sysQ' \in [Service -> Seq(Message)]
        /\ \A t \in Service : t # s => sysQ'[t] = sysQ[t]
        /\ sysQ'[s] = << >>
    BY <1>3, <1>8, EmptySeq DEF UpdateInv, ServicesTyped, NewProcess
  <2>3. known' \in {known, staged} /\ update' \in {update, "none"}
    BY <1>8 DEF NewProcess
  <2>4. \A t \in Service, i \in DOMAIN pending :
          t # s /\ (pending[i].name = t \/ pending[i] = [name |-> t, replaced |-> FALSE]) =>
            i # 1
    BY <1>2
  <2>5. s \in Service /\ s \notin {"idle", "busy"} /\ "idle" \notin Service
    BY <1>3, NameAssumption
  <2> HIDE DEF s
  <2>6. Accounted'
    <3>1. \A i \in DOMAIN pending :
            i # 1 => \E j \in DOMAIN pending' : pending'[j] = pending[i]
      BY <1>2, <1>8
    <3>2. ASSUME NEW t \in Service, t # s
          PROVE  /\ proc'[t].work \in Service => t = Daemon
                 /\ proc'[t].mode = "down" =>
                      /\ sysQ'[t] = << >> /\ proc'[t].work = "idle" /\ ~Calling'
                      /\ \E i \in DOMAIN pending' : pending'[i].name = t
                 /\ proc'[t].mode # "down" /\ proc'[t].data # loaded' =>
                      \E i \in DOMAIN pending' :
                        pending'[i] = [name |-> t, replaced |-> FALSE]
      <4>1. proc'[t] = proc[t] /\ sysQ'[t] = sysQ[t] /\ loaded' = loaded /\ ~Calling'
        BY <1>1, <1>4, <1>8, <2>1, <2>2, <3>2 DEF Calling
      <4>2. \A i \in DOMAIN pending :
              /\ pending[i].name = t =>
                   \E j \in DOMAIN pending' : pending'[j].name = t
              /\ pending[i] = [name |-> t, replaced |-> FALSE] =>
                   \E j \in DOMAIN pending' : pending'[j] = [name |-> t, replaced |-> FALSE]
        BY <2>4, <3>1, <3>2
      <4> QED
        BY <4>1, <4>2 DEF UpdateInv, Accounted
    <3>3. /\ proc'[s].work \notin Service /\ proc'[s].mode # "down"
          /\ proc'[s].data = loaded'
      BY <1>4, <2>1, <2>5
    <3> QED
      BY <3>2, <3>3 DEF Accounted
  <2>7. ServicesTyped' /\ UpdaterTyped'
    BY <1>2, <1>4, <1>8, <2>1, <2>2, <2>3 DEF UpdateInv, ServicesTyped, UpdaterTyped
  <2>8. OneCall'
    <3>1. \A t \in Service : \A i \in DOMAIN sysQ'[t] : ~sysQ'[t][i].live
      BY <1>5, <2>2, EmptySeq
    <3> QED
      BY <1>1, <1>4, <1>8, <3>1 DEF OneCall, Calling
  <2>9. Phases' /\ NoUpdateLockout'
    BY <1>1, <1>4, <1>8, <2>3 DEF UpdateInv, Phases, NoUpdateLockout
  <2>10. Prompts'
    <3>1. \A t \in Prompt : /\ proc'[t].work = "idle" /\ proc'[t].mode # "suspended"
                            /\ \A i \in DOMAIN sysQ'[t] : sysQ'[t][i].live
      BY <1>5, <2>1, <2>2, EmptySeq DEF UpdateInv, Prompts, Prompt
    <3> QED
      BY <3>1 DEF Prompts
  <2> QED
    BY <2>6, <2>7, <2>8, <2>9, <2>10 DEF UpdateInv
<1>9. CASE /\ ~Recovered(Head(pending))
           /\ proc' = [proc EXCEPT ![Head(pending).name].mode = "down",
                                   ![Head(pending).name].work = "idle"]
           /\ sysQ' = [sysQ EXCEPT ![Head(pending).name] = << >>]
           /\ pending' = Replace(pending, Head(pending).name) /\ notes' = << >>
           /\ pc' = "done" /\ outcome' = "error"
           /\ UNCHANGED daemonVars
  <2> DEFINE s == Head(pending).name
  <2>1. proc[s] \in Process
    BY <1>3 DEF UpdateInv, ServicesTyped
  <2>2. proc' = [proc EXCEPT ![s] =
                   [mode |-> "down", work |-> "idle", data |-> proc[s].data]]
    <3> DEFINE q == [proc EXCEPT ![s].mode = "down"]
    <3>1. proc' = [q EXCEPT ![s].work = "idle"]
      BY <1>9
    <3>2. q[s] = [mode |-> "down", work |-> proc[s].work, data |-> proc[s].data]
      BY <1>3, <2>1 DEF UpdateInv, ServicesTyped, Process
    <3>3. q = [proc EXCEPT ![s] = q[s]] /\ q \in [Service -> Process]
      BY <1>3, <2>1 DEF UpdateInv, ServicesTyped, Process
    <3> HIDE DEF q
    <3>4. [q[s] EXCEPT !.work = "idle"]
            = [mode |-> "down", work |-> "idle", data |-> proc[s].data]
      BY <3>2
    <3> QED
      BY <1>3, <3>1, <3>3, <3>4 DEF UpdateInv, ServicesTyped
  <2>3. /\ proc' \in [Service -> Process]
        /\ \A t \in Service : t # s => proc'[t] = proc[t]
        /\ proc'[s].mode = "down" /\ proc'[s].work = "idle"
    BY <1>3, <2>1, <2>2 DEF UpdateInv, ServicesTyped, Process
  <2>4. /\ sysQ' \in [Service -> Seq(Message)]
        /\ \A t \in Service : t # s => sysQ'[t] = sysQ[t]
        /\ sysQ'[s] = << >>
    BY <1>3, <1>9, EmptySeq DEF UpdateInv, ServicesTyped
  <2>5. /\ s \in Service /\ "idle" \notin Service
        /\ \E i \in DOMAIN pending : pending[i].name = s
    BY <1>2, <1>3, NameAssumption
  <2>11. /\ pending' \in Seq(Migration) /\ DOMAIN pending' = DOMAIN pending
         /\ \A i \in DOMAIN pending : /\ pending'[i].name = pending[i].name
                                      /\ pending[i].name # s => pending'[i] = pending[i]
    BY <1>1, <1>3, <1>9, ReplaceTyped
  <2> HIDE DEF s
  <2>6. Accounted'
    <3>1. Accounted /\ loaded' = loaded /\ ~Calling'
      BY <1>4, <1>9 DEF UpdateInv, Calling
    <3>2. ASSUME NEW t \in Service, t # s
          PROVE  proc'[t] = proc[t] /\ sysQ'[t] = sysQ[t]
      BY <2>3, <2>4, <3>2
    <3>3. /\ \A t \in Service : \A i \in DOMAIN pending :
               pending[i].name = t => i \in DOMAIN pending' /\ pending'[i].name = t
          /\ \A t \in Service \ {s} : \A i \in DOMAIN pending :
               pending[i] = [name |-> t, replaced |-> FALSE] => pending'[i] = pending[i]
      <4>1. \A i \in DOMAIN pending :
              /\ i \in DOMAIN pending' /\ pending'[i].name = pending[i].name
              /\ pending[i].name # s => pending'[i] = pending[i]
        BY <2>11
      <4>2. \A t \in Service : [name |-> t, replaced |-> FALSE].name = t
        OBVIOUS
      <4> QED
        BY <4>1, <4>2, Zenon
    <3>4. ASSUME NEW t \in Service, t # s
          PROVE  /\ proc'[t].work \in Service => t = Daemon
                 /\ proc'[t].mode = "down" =>
                      /\ sysQ'[t] = << >> /\ proc'[t].work = "idle"
                      /\ \E i \in DOMAIN pending' : pending'[i].name = t
                 /\ proc'[t].mode # "down" /\ proc'[t].data # loaded' =>
                      \E i \in DOMAIN pending' :
                        pending'[i] = [name |-> t, replaced |-> FALSE]
      <4>1. proc'[t] = proc[t] /\ sysQ'[t] = sysQ[t]
        BY <3>2, <3>4
      <4>2. /\ (\E i \in DOMAIN pending : pending[i].name = t) =>
                 \E i \in DOMAIN pending' : pending'[i].name = t
            /\ (\E i \in DOMAIN pending : pending[i] = [name |-> t, replaced |-> FALSE]) =>
                 \E i \in DOMAIN pending' : pending'[i] = [name |-> t, replaced |-> FALSE]
        BY <2>11, <3>3, <3>4
      <4> QED
        BY <3>1, <4>1, <4>2 DEF Accounted
    <3> QED
      BY <2>3, <2>4, <2>5, <3>1, <3>3, <3>4 DEF Accounted
  <2>7. ServicesTyped' /\ UpdaterTyped'
    BY <1>1, <1>4, <1>9, <2>3, <2>4, <2>11, EmptySeq DEF UpdateInv, ServicesTyped, UpdaterTyped
  <2>8. OneCall'
    <3>1. \A t \in Service : \A i \in DOMAIN sysQ'[t] : ~sysQ'[t][i].live
      BY <1>5, <2>4, EmptySeq
    <3> QED
      BY <1>1, <1>4, <1>9, <3>1 DEF OneCall, Calling
  <2>9. Phases' /\ NoUpdateLockout'
    BY <1>9 DEF UpdateInv, Phases, NoUpdateLockout
  <2>10. Prompts'
    <3>1. \A t \in Prompt : /\ proc'[t].work = "idle" /\ proc'[t].mode # "suspended"
                            /\ \A i \in DOMAIN sysQ'[t] : sysQ'[t][i].live
      BY <1>5, <2>3, <2>4, EmptySeq DEF UpdateInv, Prompts, Prompt
    <3> QED
      BY <3>1 DEF Prompts
  <2> QED
    BY <2>6, <2>7, <2>8, <2>9, <2>10 DEF UpdateInv
<1> QED
  BY <1>1, <1>7, <1>8, <1>9, Zenon DEF RecoverPending

\* With nothing left to recover, the list is erased.
LEMMA RecoverEndsSafe ==
  ASSUME UpdateInv, RecoverEnds
  PROVE  UpdateInv'
<1>1. /\ notes = << >> /\ pending = << >> /\ pending' = << >>
      /\ pc' \in {"decide", "finish"} /\ (pc' = "finish" => pc = "recover")
      /\ pc \in {"recoverFirst", "recover"}
      /\ UNCHANGED <<serviceVars, loaded, oldCode, build, staged, daemonVars, job, todo,
                     suspended, notes, reply, outcome>>
  BY DEF UpdateInv, Phases, RecoverEnds
<1>2. ServicesTyped' /\ UpdaterTyped' /\ NoUpdateLockout'
  BY <1>1, EmptySeq DEF UpdateInv, ServicesTyped, UpdaterTyped, NoUpdateLockout
<1>3. OneCall' /\ Accounted'
  BY <1>1 DEF UpdateInv, OneCall, Accounted, Calling
<1>4. Phases' /\ Prompts'
  BY <1>1 DEF UpdateInv, Phases, Prompts
<1> QED
  BY <1>2, <1>3, <1>4 DEF UpdateInv

\* A call of the daemon returns, and the system messages behind it have aged.
LEMMA CallReturnsSafe ==
  ASSUME UpdateInv, CallReturns
  PROVE  UpdateInv'
<1>1. Daemon \in Service /\ proc[Daemon] \in Process
  BY ServiceAssumption DEF UpdateInv, ServicesTyped
<1>2. PICK next \in Service \cup {"idle"} : proc' = [proc EXCEPT ![Daemon].work = next]
  <2>1. \A j \in DOMAIN Order : Order[j] \in Service
    BY ServiceAssumption
  <2> QED
    BY <2>1 DEF CallReturns
<1>3. /\ [proc[Daemon] EXCEPT !.work = next] \in Process
      /\ [proc[Daemon] EXCEPT !.work = next].mode = proc[Daemon].mode
      /\ [proc[Daemon] EXCEPT !.work = next].data = proc[Daemon].data
  BY <1>1 DEF Process
<1>4. /\ proc' \in [Service -> Process]
      /\ \A t \in Service : /\ t # Daemon => proc'[t] = proc[t]
                            /\ proc'[t].mode = proc[t].mode /\ proc'[t].data = proc[t].data
  BY <1>1, <1>2, <1>3 DEF UpdateInv, ServicesTyped
<1>5. proc[Daemon].mode # "down"
  BY <1>1, NameAssumption DEF UpdateInv, Accounted, CallReturns
<1>6. UNCHANGED <<codeVars, staged, daemonVars, updaterVars>> /\ (Calling' <=> Calling)
  BY DEF CallReturns, Calling
<1>7. /\ sysQ' \in [Service -> Seq(Message)]
      /\ \A t \in Service :
           /\ DOMAIN sysQ'[t] = DOMAIN sysQ[t]
           /\ t # Daemon => sysQ'[t] = sysQ[t]
           /\ \A i \in DOMAIN sysQ[t] : /\ sysQ'[t][i].live = sysQ[t][i].live
                                        /\ sysQ'[t][i].op = sysQ[t][i].op
  <2>1. CASE sysQ' = sysQ
    BY <2>1 DEF UpdateInv, ServicesTyped
  <2>2. CASE sysQ' = [sysQ EXCEPT ![Daemon] =
                        [i \in DOMAIN @ |-> [@[i] EXCEPT !.aged = TRUE]]]
    <3>1. \A i \in DOMAIN sysQ[Daemon] :
            /\ [sysQ[Daemon][i] EXCEPT !.aged = TRUE] \in Message
            /\ [sysQ[Daemon][i] EXCEPT !.aged = TRUE].live = sysQ[Daemon][i].live
            /\ [sysQ[Daemon][i] EXCEPT !.aged = TRUE].op = sysQ[Daemon][i].op
      <4> TAKE i \in DOMAIN sysQ[Daemon]
      <4>1. sysQ[Daemon][i] \in Message
        BY <1>1, MessageTyped DEF UpdateInv
      <4> QED
        BY <4>1 DEF Message
    <3> DEFINE q == [i \in DOMAIN sysQ[Daemon] |->
                       [sysQ[Daemon][i] EXCEPT !.aged = TRUE]]
    <3>2. q \in [DOMAIN sysQ[Daemon] -> Message] /\ sysQ[Daemon] \in Seq(Message)
      BY <1>1, <3>1 DEF UpdateInv, ServicesTyped
    <3>3. \A i \in DOMAIN sysQ[Daemon] : /\ q[i].live = sysQ[Daemon][i].live
                                         /\ q[i].op = sysQ[Daemon][i].op
      BY <3>1
    <3>4. sysQ' = [sysQ EXCEPT ![Daemon] = q]
      BY <2>2
    <3> HIDE DEF q
    <3>5. q \in Seq(Message) /\ DOMAIN q = DOMAIN sysQ[Daemon]
      BY <3>2, MapTyped
    <3> QED
      BY <1>1, <3>3, <3>4, <3>5 DEF UpdateInv, ServicesTyped
  <2> QED
    BY <2>1, <2>2 DEF CallReturns
<1>8. ServicesTyped' /\ UpdaterTyped'
  BY <1>4, <1>6, <1>7 DEF UpdateInv, ServicesTyped, UpdaterTyped
<1>9. OneCall'
  <2>1. ASSUME NEW t \in Service, NEW i \in DOMAIN sysQ'[t], sysQ'[t][i].live
        PROVE  /\ reply = "waiting" /\ t = Head(todo) /\ sysQ'[t][i].op = CallOf(pc)
               /\ \A j \in DOMAIN sysQ'[t] : sysQ'[t][j].live => j = i
    <3>1. /\ i \in DOMAIN sysQ[t] /\ sysQ[t][i].live /\ sysQ'[t][i].op = sysQ[t][i].op
          /\ DOMAIN sysQ'[t] = DOMAIN sysQ[t]
          /\ \A j \in DOMAIN sysQ[t] : sysQ'[t][j].live = sysQ[t][j].live
      BY <1>7, <2>1
    <3> QED
      BY <3>1 DEF UpdateInv, OneCall
  <2> QED
    BY <1>6, <2>1 DEF UpdateInv, OneCall
<1>10. Accounted'
  BY <1>4, <1>5, <1>6, <1>7 DEF UpdateInv, Accounted
<1>11. Phases' /\ NoUpdateLockout'
  <2>1. todo # << >> => Head(todo) \in Service
    BY RangeTail DEF UpdateInv, UpdaterTyped
  <2> QED
    BY <1>4, <1>6, <2>1 DEF UpdateInv, Phases, OneCall, NoUpdateLockout
<1>12. Prompts'
  BY <1>4, <1>6, <1>7 DEF UpdateInv, Prompts, Prompt
<1> QED
  BY <1>8, <1>9, <1>10, <1>11, <1>12 DEF UpdateInv

\* No step breaks the invariant.
LEMMA UpdateNext == UpdateInv /\ [Next]_vars => UpdateInv'
<1> SUFFICES ASSUME UpdateInv, [Next]_vars PROVE UpdateInv'
  OBVIOUS
<1>1. CASE UpdaterStep
  <2>1. CASE pc = "suspend" /\ Call("suspend")
    BY <2>1, CallSafe DEF Calling, CallOf
  <2>2. CASE pc = "change" /\ Call("change_code")
    BY <2>2, CallSafe DEF Calling, CallOf
  <2>3. CASE pc \in {"resume", "unwind"} /\ Call("resume")
    BY <2>3, CallSafe DEF Calling, CallOf
  <2> QED
    BY <1>1, <2>1, <2>2, <2>3, ReadBuildSafe, RecoverPendingSafe, RecoverEndsSafe, DecideSafe,
       ReconcileSafe, SuspendReturnsSafe, LoadSafe, ChangeReturnsSafe, MigratedSafe,
       ResumeReturnsSafe, ResumedSafe, FinishSafe
       DEF UpdaterStep
<1>2. CASE \E s \in Service : \/ HandleSystemMessage(s) \/ TimesOut(s) \/ Crash(s)
                              \/ BeginHandler(s) \/ EndHandler(s) \/ CallService(s)
  BY <1>2, HandleSystemMessageSafe, TimesOutSafe, CrashSafe, BeginHandlerSafe,
     EndHandlerSafe, CallServiceSafe
<1>3. CASE CallReturns \/ Stage \/ ArtifactCheck \/ ManualUpdate \/ UpdateEnds
  BY <1>3, CallReturnsSafe, StageSafe, ArtifactCheckSafe, ManualUpdateSafe, UpdateEndsSafe
<1>4. CASE UNCHANGED vars
  BY <1>4
     DEF UpdateInv, ServicesTyped, UpdaterTyped, OneCall, Calling, Accounted, Phases,
         Prompts, NoUpdateLockout
<1> QED
  BY <1>1, <1>2, <1>3, <1>4 DEF Next

\* The invariant implies what must always hold of an update.
LEMMA UpdateInvTrue ==
  UpdateInv => MigratedOrPending /\ PromptServicesResumed /\ NoUpdateLockout
BY DEF UpdateInv, Accounted, MigratedOrPending, Prompts, Prompt, PromptServicesResumed

\* A step that commits the identity of a build finds every service up and migrated.
LEMMA Commits ==
  ASSUME UpdateInv, [Next]_vars
  PROVE  CommitsMigrated
<1> SUFFICES ASSUME build' # build
             PROVE  /\ loaded' = build'
                    /\ \A s \in Service : proc'[s].mode # "down" /\ proc'[s].data = build'
  BY DEF CommitsMigrated
<1>1. \/ Reconcile /\ build' = job.target /\ loaded = job.target /\ pending = << >>
      \/ /\ Finish /\ outcome = "ok" /\ build' = job.target /\ loaded = job.target
         /\ pending = << >>
  <2>1. CASE Reconcile
    BY <2>1 DEF UpdateInv, Phases, Reconcile
  <2>2. CASE Finish
    BY <2>2 DEF UpdateInv, Phases, Finish
  <2>3. UpdaterStep => Reconcile \/ Finish
    BY DEF UpdaterStep, ReadBuild, RecoverPending, RecoverEnds, Decide, SuspendReturns, Load,
           ChangeReturns, Migrated, ResumeReturns, Resumed, Call
  <2>4. Next => UpdaterStep
    BY DEF Next, HandleSystemMessage, TimesOut, Crash, BeginHandler, EndHandler,
           CallService, CallReturns, Stage, ArtifactCheck, ManualUpdate, StartUpdater,
           UpdateEnds
  <2> QED
    BY <2>1, <2>2, <2>3, <2>4
<1>2. proc' = proc /\ loaded' = loaded
  BY <1>1 DEF Reconcile, Finish
<1>3. \A s \in Service : proc[s].mode # "down" /\ proc[s].data = loaded
  BY <1>1, EmptySeq DEF UpdateInv, Accounted
<1> QED
  BY <1>1, <1>2, <1>3

-----------------------------------------------------------------------------
(***************************************************************************)
(* Two updaters                                                            *)
(***************************************************************************)
\* The second updater has not been started yet.
SecondIdle ==
  /\ pc2 = "none" /\ job2 = [id |-> 0, target |-> 0, kind |-> "manual"]
  /\ todo2 = << >> /\ suspended2 = << >> /\ notes2 = << >>
  /\ reply2 = "none" /\ outcome2 = "ok"

\* The inductive invariant of updates, of which the first part is about the time until
\* two updaters run at once, and the second about all time.
UpdatesInv ==
  /\ ~overlapped => UpdateInv /\ SecondIdle
  /\ NeverLockedOut

\* While there is one updater, no service has a message of the other,
LEMMA NoSecondCall ==
  ASSUME UpdateInv, NEW s \in Service
  PROVE  /\ ~Second!Called(s)
         /\ sysQ[s] # << >> => ~Second!Waits(Head(sysQ[s]))
<1>1. \A i \in DOMAIN sysQ[s] : sysQ[s][i].by = "first"
  <2>1. \A i \in DOMAIN sysQ[s] : sysQ[s][i] \in Message
    BY MessageTyped DEF UpdateInv
  <2> QED
    BY <2>1, FirstAssumption DEF Message
<1>2. sysQ[s] # << >> => Head(sysQ[s]).by = "first"
  <2>1. sysQ[s] \in Seq(Message)
    BY MessageTyped DEF UpdateInv
  <2> QED
    BY <1>1, <2>1, RangeTail
<1> QED
  BY <1>1, <1>2 DEF Second!Called, Second!Waits

\* the other takes no step,
LEMMA SecondStandsStill ==
  ASSUME SecondIdle
  PROVE  ~Second!UpdaterStep /\ ~Second!UpdateEnds
BY DEF SecondIdle, Second!UpdaterStep, Second!ReadBuild, Second!RecoverPending,
       Second!RecoverEnds, Second!Decide, Second!Reconcile, Second!SuspendReturns,
       Second!Load, Second!ChangeReturns, Second!Migrated, Second!ResumeReturns,
       Second!Resumed, Second!Finish, Second!UpdateEnds

\* and every step is one of the only updater.
LEMMA AloneStep ==
  ASSUME UpdateInv, SecondIdle, ~overlapped, [UpdatesNext]_updatesVars, ~overlapped'
  PROVE  [Next]_vars /\ SecondIdle'
<1> USE DEF secondVars
<1>1. \A s \in Service : ~Second!Called(s)
  BY NoSecondCall
<1>2. CASE FirstStep
  <2>1. Next
    BY <1>2 DEF FirstStep, Next
  <2>2. notes2' = << >>
    BY <1>2, EmptySeq DEF FirstStep, SecondIdle
  <2>3. reply2' = reply2
    BY <1>1, <1>2 DEF FirstStep, Stops
  <2> QED
    BY <1>2, <2>1, <2>2, <2>3 DEF FirstStep, SecondIdle
<1>3. CASE SecondStep
  BY <1>3, SecondStandsStill DEF SecondStep
<1>4. CASE \E s \in Service : FirstTimesOut(s) \/ SecondTimesOut(s)
  BY <1>1, <1>4 DEF FirstTimesOut, SecondTimesOut, Second!TimesOut, Next, SecondIdle
<1>5. CASE \E s \in Service : Handles(s)
  <2>1. PICK s \in Service : Handles(s)
    BY <1>5
  <2>2. ~Second!Waits(Head(sysQ[s]))
    BY <2>1, NoSecondCall DEF Handles, HandleSystemMessage
  <2>3. UNCHANGED secondVars
    BY <2>1, <2>2 DEF Handles, Second!HandleSystemMessage
  <2> QED
    BY <2>1, <2>3 DEF Handles, Next, SecondIdle
<1>6. CASE \E s \in Service : Crashes(s)
  <2>1. PICK s \in Service : Crashes(s)
    BY <1>6
  <2>2. notes2' = << >>
    BY <2>1, EmptySeq DEF Crashes, Second!Crash, Second!Replace, SecondIdle
  <2>3. UNCHANGED <<pc2, job2, todo2, suspended2, reply2, outcome2>>
    BY <1>1, <2>1 DEF Crashes, Second!Crash
  <2> QED
    BY <2>1, <2>2, <2>3 DEF Crashes, Next, SecondIdle
<1>7. CASE CallOfDaemonReturns \/ Works
  BY <1>7 DEF CallOfDaemonReturns, Works, Next, SecondIdle
<1>8. CASE \E s \in Service : EndHandler(s) /\ UNCHANGED <<secondVars, overlapped>>
  BY <1>8 DEF Next, SecondIdle
<1>9. CASE FirstStarts \/ SecondStarts
  BY <1>9 DEF FirstStarts, SecondStarts, Next, SecondIdle
<1>10. CASE FirstEnds \/ SecondEnds
  BY <1>10, SecondStandsStill DEF FirstEnds, SecondEnds, Next, SecondIdle
<1>11. CASE UNCHANGED updatesVars
  BY <1>11 DEF updatesVars, SecondIdle
<1> QED
  BY <1>2, <1>3, <1>4, <1>5, <1>6, <1>7, <1>8, <1>9, <1>10, <1>11 DEF UpdatesNext, Proceeds

\* An updater that takes a step is there, and starts no other.
LEMMA UpdaterStaysThere ==
  /\ UpdaterStep => pc' # "none" /\ update' \in {update, "none"}
  /\ Second!UpdaterStep => pc2' # "none" /\ update' \in {update, "none"}
<1>1. ASSUME UpdaterStep
      PROVE  pc' # "none" /\ update' \in {update, "none"}
  BY <1>1 DEF UpdaterStep, ReadBuild, RecoverPending, RecoverEnds, Decide, Reconcile,
         SuspendReturns, Load, ChangeReturns, Migrated, ResumeReturns, Resumed, Finish,
         Call, NewProcess
<1>2. ASSUME Second!UpdaterStep
      PROVE  pc2' # "none" /\ update' \in {update, "none"}
  BY <1>2 DEF Second!UpdaterStep, Second!ReadBuild, Second!RecoverPending,
         Second!RecoverEnds, Second!Decide, Second!Reconcile, Second!SuspendReturns,
         Second!Load, Second!ChangeReturns, Second!Migrated, Second!ResumeReturns,
         Second!Resumed, Second!Finish, Second!Call, Second!NewProcess, Second!serviceVars,
         Second!codeVars, Second!daemonVars
<1> QED
  BY <1>1, <1>2

\* What wfcli_daemon takes for under way has a process, however many run.
LEMMA NeverLockedOutNext ==
  ASSUME NeverLockedOut, [UpdatesNext]_updatesVars
  PROVE  NeverLockedOut'
<1> USE FirstAssumption DEF NeverLockedOut, NoUpdateLockout, Second!NoUpdateLockout, secondVars
<1>1. CASE FirstStep \/ SecondStep
  BY <1>1, UpdaterStaysThere DEF FirstStep, SecondStep
<1>2. CASE \E s \in Service : FirstTimesOut(s) \/ SecondTimesOut(s)
  BY <1>2 DEF FirstTimesOut, TimesOut, SecondTimesOut, Second!TimesOut, Second!daemonVars
<1>3. CASE \E s \in Service : Handles(s)
  BY <1>3 DEF Handles, HandleSystemMessage, Second!HandleSystemMessage
<1>4. CASE \E s \in Service : Crashes(s)
  BY <1>4 DEF Crashes, Crash, Second!Crash, NewProcess
<1>5. CASE CallOfDaemonReturns \/ Works
  BY <1>5 DEF CallOfDaemonReturns, Works, CallReturns, BeginHandler, CallService, Stage
<1>6. CASE \E s \in Service : EndHandler(s) /\ UNCHANGED <<secondVars, overlapped>>
  BY <1>6 DEF EndHandler
<1>7. CASE FirstStarts \/ SecondStarts
  BY <1>7 DEF FirstStarts, SecondStarts, ArtifactCheck, ManualUpdate, StartUpdater,
         Second!ArtifactCheck, Second!ManualUpdate, Second!StartUpdater
<1>8. CASE FirstEnds \/ SecondEnds
  BY <1>8 DEF FirstEnds, SecondEnds, UpdateEnds, Second!UpdateEnds
<1>9. CASE UNCHANGED updatesVars
  BY <1>9 DEF updatesVars
<1> QED
  BY <1>1, <1>2, <1>3, <1>4, <1>5, <1>6, <1>7, <1>8, <1>9 DEF UpdatesNext, Proceeds

\* Two that have run at once have done so from then on.
LEMMA OverlappedStays == [UpdatesNext]_updatesVars /\ overlapped => overlapped'
BY DEF UpdatesNext, Proceeds, FirstStep, SecondStep, FirstTimesOut, SecondTimesOut, Handles,
       Crashes, CallOfDaemonReturns, Works, FirstStarts, SecondStarts, FirstEnds, SecondEnds,
       updatesVars

LEMMA UpdatesInductive ==
  /\ UpdatesInit => UpdatesInv
  /\ UpdatesInv /\ [UpdatesNext]_updatesVars => UpdatesInv' /\ (~overlapped => CommitsMigrated)
<1>1. ASSUME UpdatesInit PROVE UpdatesInv
  BY <1>1, UpdateInit
     DEF UpdatesInit, UpdatesInv, SecondIdle, Second!Init, NeverLockedOut, UpdateInv,
         Second!NoUpdateLockout
<1>2. ASSUME UpdatesInv, [UpdatesNext]_updatesVars
      PROVE  UpdatesInv' /\ (~overlapped => CommitsMigrated)
  <2>1. ASSUME ~overlapped' PROVE UpdateInv' /\ SecondIdle'
    BY <1>2, <2>1, OverlappedStays, AloneStep, UpdateNext DEF UpdatesInv
  <2>2. NeverLockedOut'
    BY <1>2, NeverLockedOutNext DEF UpdatesInv
  <2>3. ASSUME ~overlapped PROVE CommitsMigrated
    <3>1. CASE overlapped'
      <4>1. build' = build
        BY <1>2, <2>3, <3>1
           DEF UpdatesNext, Proceeds, FirstStep, SecondStep, FirstTimesOut, SecondTimesOut,
               Handles, Crashes, CallOfDaemonReturns, Works, FirstStarts, SecondStarts,
               FirstEnds, SecondEnds, updatesVars, ArtifactCheck, ManualUpdate, StartUpdater,
               Second!ArtifactCheck, Second!ManualUpdate, Second!StartUpdater,
               Second!codeVars
      <4> QED
        BY <4>1 DEF CommitsMigrated
    <3>2. CASE ~overlapped'
      BY <1>2, <2>3, <3>2, AloneStep, Commits DEF UpdatesInv
    <3> QED
      BY <3>1, <3>2
  <2> QED
    BY <2>1, <2>2, <2>3 DEF UpdatesInv
<1> QED
  BY <1>1, <1>2

HIDE DEF serviceVars, codeVars, daemonVars, updaterVars, vars

-----------------------------------------------------------------------------
(***************************************************************************)
(* Together                                                                *)
(***************************************************************************)
\* The two services share no state: a step of one is a stutter of the other.
LEMMA ServicesStep ==
  [ServicesNext]_daemonServicesVars => [UpdatesNext]_updatesVars /\ [Presences!Next]_presenceVars
BY DEF ServicesNext, UpdateStep, PairStep, PresenceStep, daemonServicesVars, UpdatesNext

LEMMA ServicesInductive ==
  /\ ServicesInit => UpdatesInv /\ PresenceInv
  /\ UpdatesInv /\ PresenceInv /\ [ServicesNext]_daemonServicesVars =>
       UpdatesInv' /\ PresenceInv'
<1>1. ServicesInit => UpdatesInv /\ PresenceInv
  BY UpdatesInductive, PresenceInit, UserAssumption DEF ServicesInit
<1> QED
  BY <1>1, ServicesStep, UpdatesInductive, PresenceNext, UserAssumption

\* Until two updaters run at once, every variable of the hot update keeps its type, and of
\* the presence service every one does at all times, in particular: the presence service
\* has a connection in exactly the phases of one, and the lists of services, mailboxes and
\* notes of the updater hold what they should.
THEOREM ServiceTypesKept ==
  ServicesSpec => [](Presences!TypeOK /\ (~overlapped => ServicesTypeOK))
<1>1. PresenceInv => Presences!TypeOK
  BY DEF PresenceInv
<1>2. UpdateInv /\ SecondIdle => TypeOK /\ Second!TypeOK
  <2> SUFFICES ASSUME UpdateInv, SecondIdle PROVE Second!TypeOK
    BY UpdateTypes
  <2>1. TypeOK
    BY UpdateTypes
  <2> QED
    BY <2>1, EmptySeq, BoundAssumption
       DEF SecondIdle, TypeOK, Second!TypeOK, Second!Version, Version, Second!Updater, Updater
<1>3. UpdatesInv /\ PresenceInv => Presences!TypeOK /\ (~overlapped => ServicesTypeOK)
  BY <1>1, <1>2 DEF ServicesTypeOK, UpdatesInv
<1> QED
  BY <1>3, ServicesInductive, PTL DEF ServicesSpec

\* wfcli_market_presence_service: a signed-in user is connected, or will be; the hold on
\* the daemon follows the token, the mode and the game; the service rests only at the
\* status desired, and shows what others see.
THEOREM PresenceHolds == ServicesSpec => []PresenceTrue
BY ServicesInductive, PresenceInvTrue, PTL DEF ServicesSpec

\* wfcli_hot_update: whatever crashes or times out, wfcli_daemon refuses no update for one
\* that is over.  And wherever an update fails, until the first time that two updaters run
\* at once, a service with state of another version is noted as pending, services that
\* answer in time are not left suspended, and the new build identity is committed only when
\* every service is up and has migrated.
THEOREM UpdatesHold == ServicesSpec => UpdatesSafe
<1>1. UpdatesInv => AloneSafe /\ NeverLockedOut
  BY UpdateInvTrue DEF UpdatesInv, AloneSafe
<1>2. UpdatesInv /\ [ServicesNext]_daemonServicesVars => [~overlapped => CommitsMigrated]_updatesVars
  BY ServicesStep, UpdatesInductive
<1> QED
  BY <1>1, <1>2, ServicesInductive, PTL DEF ServicesSpec, UpdatesSafe, AloneCommitsMigrated

=============================================================================
