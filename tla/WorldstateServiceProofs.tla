---------------------- MODULE WorldstateServiceProofs ----------------------
(***************************************************************************)
(* Proofs about WorldstateService, for every set of requests, datasets,    *)
(* owners and timers.                                                      *)
(***************************************************************************)
EXTENDS WorldstateService, TLAPS

\* A timer taken from the free ones is one of them.
LEMMA FreshTimerFree ==
  ASSUME NEW used, Timer \ used # {}
  PROVE  FreshTimer(used) \in Timer \ used
BY DEF FreshTimer

\* Every handler leaves the poll timer fields well typed.
LEMMA EnsurePollTimerType ==
  ASSUME NEW timer \in Timer \cup {NoTimer}, NEW armed \in SUBSET Timer,
         EnsurePollTimer(timer, armed)
  PROVE  pollTimer' \in Timer \cup {NoTimer} /\ pollArmed' \subseteq Timer
<1>1. CASE ActiveWatches' = {} /\ pollTimer' = NoTimer /\ pollArmed' = armed \ {timer}
  BY <1>1
<1>2. CASE /\ Timer \ (armed \cup pollMail') # {}
           /\ pollTimer' = FreshTimer(armed \cup pollMail')
           /\ pollArmed' = armed \cup {pollTimer'}
  BY <1>2, FreshTimerFree
<1>3. CASE pollTimer' = timer /\ pollArmed' = armed
  BY <1>3
<1>4. QED BY <1>1, <1>2, <1>3 DEF EnsurePollTimer

LEMMA PollAfterRemovalType ==
  ASSUME TypeOK, NEW removed, PollAfterRemoval(removed)
  PROVE  /\ pollTimer' \in Timer \cup {NoTimer}
         /\ pollArmed' \subseteq Timer
         /\ pollMail' \subseteq Timer
<1>1. CASE removed = {}
  BY <1>1 DEF PollAfterRemoval, TypeOK
<1>2. CASE removed # {}
  BY <1>2, EnsurePollTimerType DEF PollAfterRemoval, TypeOK
<1>3. QED BY <1>1, <1>2

LEMMA ArmIdleType ==
  ASSUME NEW timer \in Timer \cup {NoTimer}, NEW armed \in SUBSET Timer,
         ArmIdle(timer, armed)
  PROVE  idleTimer' \in Timer \cup {NoTimer} /\ idleArmed' \subseteq Timer
<1>1. CASE policy' = "persistent" \/ timer # NoTimer
  BY <1>1 DEF ArmIdle
<1>2. CASE ~(policy' = "persistent" \/ timer # NoTimer)
  BY <1>2, FreshTimerFree DEF ArmIdle
<1>3. QED BY <1>1, <1>2

LEMMA MaybeIdleType ==
  ASSUME TypeOK, MaybeIdle
  PROVE  /\ idleTimer' \in Timer \cup {NoTimer}
         /\ idleArmed' \subseteq Timer
         /\ idleMail' \subseteq Timer
         /\ policy' \in {"idle", "persistent"}
<1>1. UNCHANGED <<idleMail, policy>> /\ (ArmIdle(idleTimer, idleArmed) \/ CancelIdle)
  BY DEF MaybeIdle
<1>2. CASE ArmIdle(idleTimer, idleArmed)
  BY <1>1, <1>2, ArmIdleType DEF TypeOK
<1>3. CASE CancelIdle
  BY <1>1, <1>3 DEF CancelIdle, TypeOK
<1>4. QED BY <1>1, <1>2, <1>3

LEMMA DeliverType ==
  ASSUME TypeOK, NEW answered, NEW evaluated, Deliver(answered, evaluated),
         snapshot' \in [Key -> Content \cup {NoContent}], stale' \in [Key -> BOOLEAN]
  PROVE  /\ status' \in [Request -> {"new", "active", "closed", "lost"}]
         /\ previous' \in [Watch -> Content \cup {NoContent}]
         /\ due' \in [Watch -> BOOLEAN]
         /\ seen' \in [Watch -> Content \cup {NoContent}]
         /\ reply' \in [OneShot -> [count : Nat, ok : BOOLEAN, stale : BOOLEAN]]
         /\ pollTimer' \in Timer \cup {NoTimer}
         /\ pollArmed' \subseteq Timer
         /\ pollMail' \subseteq Timer
<1> USE RequestAssumption DEF TypeOK, Request
<1>1. status' \in [Request -> {"new", "active", "closed", "lost"}]
  BY DEF Deliver
<1>2. /\ previous' \in [Watch -> Content \cup {NoContent}]
      /\ due' \in [Watch -> BOOLEAN]
      /\ seen' \in [Watch -> Content \cup {NoContent}]
  BY DEF Deliver, EvaluateWatches
<1>3. reply' \in [OneShot -> [count : Nat, ok : BOOLEAN, stale : BOOLEAN]]
  BY DEF Deliver, Answer
<1>4. /\ pollTimer' \in Timer \cup {NoTimer}
      /\ pollArmed' \subseteq Timer
      /\ pollMail' \subseteq Timer
  BY PollAfterRemovalType DEF Deliver
<1>5. QED BY <1>1, <1>2, <1>3, <1>4

\* A fetch that starts is of one of the two kinds.
LEMMA EnsureReadyType ==
  ASSUME TypeOK, NEW r \in Request, EnsureReady(r)
  PROVE  /\ fetch' \in [Key -> {"none", "unforced", "forced", "fetched", "cached",
                              "cachedStale", "failed"}]
         /\ selfMsg' \subseteq Request
<1>1. CASE SnapshotFresh(r)
  BY <1>1 DEF EnsureReady, TypeOK
<1>2. CASE ~SnapshotFresh(r)
  BY <1>2 DEF EnsureReady, StartFetch, TypeOK
<1>3. QED BY <1>1, <1>2

-----------------------------------------------------------------------------
(***************************************************************************)
(* Type correctness.                                                       *)
(***************************************************************************)
LEMMA TypeInit == Init => TypeOK
<1> SUFFICES ASSUME Init PROVE TypeOK
  OBVIOUS
<1> USE RequestAssumption, PolicyAssumption, TimerAssumption DEF Request
<1>1. idleTimer \in Timer \cup {NoTimer} /\ idleArmed \subseteq Timer
  <2>1. CASE policy = "persistent"
    BY <2>1 DEF Init
  <2>2. CASE policy # "persistent"
    BY <2>2, FreshTimerFree DEF Init
  <2>3. QED BY <2>1, <2>2
<1>2. reply \in [OneShot -> [count : Nat, ok : BOOLEAN, stale : BOOLEAN]]
  BY DEF Init, NoReply
<1>3. castQ \in [Owner -> Seq(Cast)]
  BY DEF Init
<1>4. QED BY <1>1, <1>2, <1>3 DEF Init, TypeOK

LEMMA TypeStep == TypeOK /\ [Next]_vars => TypeOK'
<1> SUFFICES ASSUME TypeOK, [Next]_vars PROVE TypeOK'
  OBVIOUS
<1> USE RequestAssumption, PolicyAssumption
    DEF Request, subVars, dataVars, pollVars, idleVars, leaseVars
<1>1. ASSUME NEW r \in OneShot, Submit(r) PROVE TypeOK'
  BY <1>1, EnsureReadyType DEF Submit, CancelIdle, TypeOK
<1>2. ASSUME NEW r \in Watch, Subscribe(r) PROVE TypeOK'
  <2>1. pollTimer' \in Timer \cup {NoTimer} /\ pollArmed' \subseteq Timer
    BY <1>2, EnsurePollTimerType DEF Subscribe, TypeOK
  <2>2. QED BY <1>2, <2>1, EnsureReadyType DEF Subscribe, CancelIdle, TypeOK
<1>3. ASSUME NEW r \in Request, RemoveSubscription(r) PROVE TypeOK'
  <2>1. /\ pollTimer' \in Timer \cup {NoTimer}
        /\ pollArmed' \subseteq Timer
        /\ pollMail' \subseteq Timer
    BY <1>3, PollAfterRemovalType DEF RemoveSubscription
  <2>2. /\ idleTimer' \in Timer \cup {NoTimer}
        /\ idleArmed' \subseteq Timer
        /\ idleMail' \subseteq Timer
        /\ policy' \in {"idle", "persistent"}
    BY <1>3, MaybeIdleType DEF RemoveSubscription
  <2>3. QED BY <1>3, <2>1, <2>2 DEF RemoveSubscription, TypeOK
<1>4. ASSUME NEW r \in Request, HandleSelfMessage(r) PROVE TypeOK'
  <2>1. /\ UNCHANGED <<served, joined, clientUp, dataVars, fetch, leaseVars, vm>>
        /\ selfMsg' = selfMsg \ {r}
        /\ \E x, y : Deliver(x, y)
        /\ MaybeIdle
    BY <1>4 DEF HandleSelfMessage
  <2>2. snapshot' \in [Key -> Content \cup {NoContent}] /\ stale' \in [Key -> BOOLEAN]
    BY <2>1 DEF TypeOK
  <2>3. QED BY <2>1, <2>2, DeliverType, MaybeIdleType DEF TypeOK
<1>5. ASSUME NEW k \in Key, FetchEnds(k) PROVE TypeOK'
  BY <1>5 DEF FetchEnds, Results, TypeOK
<1>6. ASSUME NEW k \in Key, HandleFetchResult(k) PROVE TypeOK'
  <2>1. /\ fetch' = [fetch EXCEPT ![k] = "none"]
        /\ UNCHANGED <<joined, selfMsg, clientUp, leaseVars, vm>>
        /\ \E x, y : Deliver(x, y)
        /\ MaybeIdle
    BY <1>6 DEF HandleFetchResult
  <2>2. /\ snapshot' \in [Key -> Content \cup {NoContent}]
        /\ stale' \in [Key -> BOOLEAN]
        /\ expired' \in [Key -> BOOLEAN]
        /\ served' \in [OneShot -> BOOLEAN]
    <3>1. CASE fetch[k] = "failed"
      BY <1>6, <3>1 DEF HandleFetchResult, StoreResult, TypeOK
    <3>2. CASE fetch[k] # "failed"
      <4>1. PICK c \in Content : snapshot' = [snapshot EXCEPT ![k] = c]
        BY <1>6, <3>2 DEF HandleFetchResult, StoreResult
      <4>2. expired' = [expired EXCEPT ![k] = FALSE]
        BY <1>6, <3>2 DEF HandleFetchResult, StoreResult
      <4>3. stale' = [stale EXCEPT ![k] = (fetch[k] = "cachedStale")]
        BY <1>6, <3>2 DEF HandleFetchResult, StoreResult
      <4>4. served' = [q \in OneShot |->
                         \/ served[q]
                         \/ fetch[k] = "fetched" /\ KeyOf[q] = k /\ status[q] = "active"]
        BY <1>6, <3>2 DEF HandleFetchResult, StoreResult
      <4>5. (fetch[k] = "cachedStale") \in BOOLEAN
        OBVIOUS
      <4>6. stale' \in [Key -> BOOLEAN]
        BY <4>3, <4>5 DEF TypeOK
      <4>7. QED BY <4>1, <4>2, <4>4, <4>6 DEF TypeOK
    <3>3. QED BY <3>1, <3>2
  <2>3. QED BY <2>1, <2>2, DeliverType, MaybeIdleType DEF TypeOK
<1>7. ASSUME NEW t \in Timer, Poll(t) PROVE TypeOK'
  <2>1. pollTimer' \in Timer \cup {NoTimer} /\ pollArmed' \subseteq Timer
    BY <1>7, EnsurePollTimerType DEF Poll, TypeOK
  <2>2. QED BY <1>7, <2>1 DEF Poll, StartFetch, TypeOK
<1>8. ASSUME NEW t \in Timer, PollTimerFires(t) PROVE TypeOK'
  BY <1>8 DEF PollTimerFires, TypeOK
<1>9. ASSUME NEW o \in Owner, OwnerStarts(o) PROVE TypeOK'
  <2>1. [kind |-> "start", level |-> held[o] + 1] \in Cast
    BY DEF TypeOK, Cast
  <2>2. castQ' \in [Owner -> Seq(Cast)]
    BY <1>9, <2>1 DEF OwnerStarts, TypeOK
  <2>3. QED BY <1>9, <2>2 DEF OwnerStarts, TypeOK
<1>10. ASSUME NEW o \in Owner, OwnerEnds(o) PROVE TypeOK'
  <2>1. held[o] - 1 \in Nat
    BY <1>10 DEF OwnerEnds, TypeOK
  <2>2. [kind |-> "end", level |-> held[o] - 1] \in Cast
    BY <2>1 DEF Cast
  <2>3. castQ' \in [Owner -> Seq(Cast)]
    BY <1>10, <2>2 DEF OwnerEnds, TypeOK
  <2>4. QED BY <1>10, <2>1, <2>3 DEF OwnerEnds, TypeOK
<1>11. ASSUME NEW o \in Owner, HandleActivityStart(o) PROVE TypeOK'
  BY <1>11 DEF HandleActivityStart, CancelIdle, TypeOK
<1>12. ASSUME NEW o \in Owner, HandleActivityEnd(o) PROVE TypeOK'
  <2>1. external' \in [Owner -> Nat] /\ castQ' \in [Owner -> Seq(Cast)]
    BY <1>12 DEF HandleActivityEnd, TypeOK
  <2>2. MaybeIdle
    BY <1>12 DEF HandleActivityEnd
  <2>3. QED BY <1>12, <2>1, <2>2, MaybeIdleType DEF HandleActivityEnd, TypeOK
<1>13. ASSUME NEW o \in Owner, OwnerDies(o) PROVE TypeOK'
  BY <1>13 DEF OwnerDies, TypeOK
<1>14. ASSUME NEW o \in Owner, HandleOwnerDown(o) PROVE TypeOK'
  BY <1>14, MaybeIdleType DEF HandleOwnerDown, TypeOK
<1>15. ASSUME NEW o \in Owner, OwnerRestarts(o) PROVE TypeOK'
  BY <1>15 DEF OwnerRestarts, TypeOK
<1>16. ASSUME NEW p \in Policies, SetIdlePolicy(p) PROVE TypeOK'
  <2>1. idleTimer' \in Timer \cup {NoTimer} /\ idleArmed' \subseteq Timer
    <3>1. CASE p = "idle" /\ Idle
      BY <1>16, <3>1, ArmIdleType DEF SetIdlePolicy, TypeOK
    <3>2. CASE ~(p = "idle" /\ Idle)
      BY <1>16, <3>2 DEF SetIdlePolicy, CancelIdle, TypeOK
    <3>3. QED BY <3>1, <3>2
  <2>2. QED BY <1>16, <2>1 DEF SetIdlePolicy, TypeOK
<1>17. ASSUME NEW t \in Timer, IdleTimerFires(t) PROVE TypeOK'
  BY <1>17 DEF IdleTimerFires, TypeOK
<1>18. ASSUME NEW t \in Timer, IdleTimeout(t) PROVE TypeOK'
  <2>1. idleTimer' \in Timer \cup {NoTimer} /\ idleArmed' \subseteq Timer
    <3>1. CASE Idle /\ policy = "idle"
      BY <1>18, <3>1 DEF IdleTimeout, TypeOK
    <3>2. CASE ~(Idle /\ policy = "idle")
      BY <1>18, <3>2, ArmIdleType DEF IdleTimeout, TypeOK
    <3>3. QED BY <3>1, <3>2
  <2>2. QED BY <1>18, <2>1 DEF IdleTimeout, TypeOK
<1>19. ASSUME NEW k \in Key, SnapshotExpires(k) PROVE TypeOK'
  BY <1>19 DEF SnapshotExpires, TypeOK
<1>20. ASSUME NEW r \in Watch, WatchFallsDue(r) PROVE TypeOK'
  BY <1>20 DEF WatchFallsDue, TypeOK
<1>21. ASSUME NEW r \in Request, ClientDies(r) PROVE TypeOK'
  BY <1>21 DEF ClientDies, TypeOK
<1>22. CASE UNCHANGED vars
  BY <1>22 DEF vars, TypeOK
<1>23. CASE ServerStep
  BY <1>1, <1>2, <1>3, <1>4, <1>6, <1>7, <1>11, <1>12, <1>14, <1>16, <1>18, <1>23
     DEF ServerStep, Unsubscribe, ClientDown
<1>24. CASE WorldStep
  BY <1>5, <1>8, <1>9, <1>10, <1>13, <1>15, <1>17, <1>19, <1>20, <1>21, <1>24
     DEF WorldStep
<1>25. QED BY <1>22, <1>23, <1>24 DEF Next

\* Every variable keeps its type, whatever the handlers are given.
THEOREM TypeCorrect == Spec => []TypeOK
<1>1. Init => TypeOK
  BY TypeInit
<1>2. TypeOK /\ [Next]_vars => TypeOK'
  BY TypeStep
<1>3. QED BY <1>1, <1>2, PTL DEF Spec

\* A restart of the server leaves the state well typed.
LEMMA TypeRestart == TypeOK /\ Restart => TypeOK'
<1> SUFFICES ASSUME TypeOK, Restart PROVE TypeOK'
  OBVIOUS
<1> USE RequestAssumption, PolicyAssumption, TimerAssumption DEF Request
<1>1. PICK p \in Policies : policy' = p
  BY DEF Restart
<1>2. idleTimer' \in Timer \cup {NoTimer} /\ idleArmed' \subseteq Timer
  <2>1. CASE policy' = "persistent"
    BY <2>1 DEF Restart
  <2>2. CASE policy' # "persistent"
    <3>1. "idle" \in Policies
      BY <1>1, <2>2
    <3>2. FreshTimer({}) \in Timer
      BY <3>1, FreshTimerFree
    <3>3. QED BY <2>2, <3>2 DEF Restart
  <2>3. QED BY <2>1, <2>2
<1>3. castQ' \in [Owner -> Seq(Cast)]
  BY DEF Restart
<1>4. QED BY <1>1, <1>2, <1>3 DEF Restart, TypeOK

LEMMA TypeRestartStep == TypeOK /\ [Next \/ Restart]_vars => TypeOK'
BY TypeStep, TypeRestart

THEOREM TypeCorrectRestart == RestartSpec => []TypeOK
<1>1. Init => TypeOK
  BY TypeInit
<1>2. TypeOK /\ [Next \/ Restart]_vars => TypeOK'
  BY TypeRestartStep
<1>3. QED BY <1>1, <1>2, PTL DEF RestartSpec

-----------------------------------------------------------------------------
(***************************************************************************)
(* One-shots: at most one reply, never a waiter without a message or a     *)
(* fetch, and no old data for a refresh.  The invariant needs two facts    *)
(* more: a refresh request never sent itself a dispatch_one_shot, and the  *)
(* fetch it waits for is one that passes over the disk, unless it joined   *)
(* one that need not.                                                      *)
(***************************************************************************)
Unforced == {"unforced", "cached"}

RefreshForced ==
  \A r \in ActiveOneShots \cap Refresh : r \in joined \/ fetch[KeyOf[r]] \notin Unforced

RequestInv ==
  /\ OneReply
  /\ WaiterIsServed
  /\ RefreshHonoured
  /\ RefreshForced
  /\ selfMsg \cap Refresh = {}

LEMMA RequestInvInit == Init => RequestInv
BY RequestAssumption
   DEF Init, RequestInv, OneReply, WaiterIsServed, RefreshHonoured, RefreshForced,
       ActiveOneShots, Request, NoReply

\* What a handler that answers nobody does: subscriptions only disappear,
\* and no fetch disappears.
LEMMA RequestInvQuiet ==
  ASSUME TypeOK, RequestInv, UNCHANGED <<reply, served, joined, selfMsg>>,
         NEW gone \in SUBSET Request,
         \A r \in OneShot : status'[r] = IF r \in gone THEN "closed" ELSE status[r],
         \A r \in gone : status[r] = "active",
         \A k \in Key : fetch[k] # "none" => fetch'[k] # "none",
         \A k \in Key : fetch[k] # "none" /\ fetch'[k] \in Unforced => fetch[k] \in Unforced
  PROVE  RequestInv'
<1> USE RequestAssumption DEF RequestInv, Request, ActiveOneShots
<1>1. OneReply'
  BY DEF OneReply, TypeOK, NoReply
<1>2. WaiterIsServed'
  BY DEF WaiterIsServed
<1>3. RefreshHonoured'
  BY DEF RefreshHonoured
<1>4. RefreshForced'
  BY DEF RefreshForced, WaiterIsServed
<1>5. QED BY <1>1, <1>2, <1>3, <1>4

\* A new request has a message or a fetch of its own.
LEMMA RequestInvSubmit ==
  ASSUME TypeOK, RequestInv, NEW r \in Request, status[r] = "new",
         status' = [status EXCEPT ![r] = "active"], reply' = reply,
         \A q \in OneShot \ {r} : served'[q] = served[q], joined \subseteq joined',
         r \in OneShot \cap Refresh /\ fetch[KeyOf[r]] \in Unforced => r \in joined',
         EnsureReady(r)
  PROVE  RequestInv'
<1> USE RequestAssumption DEF RequestInv, Request, ActiveOneShots
<1>1. OneReply'
  BY DEF OneReply, TypeOK, NoReply
<1>2. \A k \in Key : fetch[k] # "none" => fetch'[k] # "none"
  BY DEF EnsureReady, StartFetch, TypeOK
<1>3. selfMsg \subseteq selfMsg' /\ selfMsg' \cap Refresh = {}
  BY DEF EnsureReady, SnapshotFresh
<1>4. r \in selfMsg' \/ fetch'[KeyOf[r]] # "none"
  <2>1. CASE SnapshotFresh(r)
    BY <2>1 DEF EnsureReady
  <2>2. CASE ~SnapshotFresh(r)
    <3>1. KeyOf[r] \in Key
      OBVIOUS
    <3>2. fetch'[KeyOf[r]] = IF fetch[KeyOf[r]] # "none" THEN fetch[KeyOf[r]]
                             ELSE IF r \in Refresh \/ snapshot[KeyOf[r]] # NoContent
                                  THEN "forced" ELSE "unforced"
      BY <2>2, <3>1 DEF EnsureReady, StartFetch
    <3>3. QED BY <3>2
  <2>3. QED BY <2>1, <2>2
<1>5. WaiterIsServed'
  BY <1>2, <1>3, <1>4 DEF WaiterIsServed, TypeOK
<1>6. RefreshHonoured'
  BY DEF RefreshHonoured, OneReply, NoReply
<1>7. \A k \in Key : fetch[k] # "none" => fetch'[k] = fetch[k]
  BY DEF EnsureReady, StartFetch, TypeOK
<1>8. r \in Refresh /\ fetch[KeyOf[r]] = "none" => fetch'[KeyOf[r]] \notin Unforced
  BY DEF EnsureReady, SnapshotFresh, StartFetch, TypeOK, Unforced
<1>9. RefreshForced'
  BY <1>7, <1>8 DEF RefreshForced, WaiterIsServed, TypeOK
<1>10. QED BY <1>1, <1>3, <1>5, <1>6, <1>9

\* dispatch_one_shot to self: the request it names is answered once, or gone.
LEMMA RequestInvSelfMessage ==
  ASSUME TypeOK, RequestInv, NEW r \in Request, HandleSelfMessage(r)
  PROVE  RequestInv'
<1> USE RequestAssumption DEF RequestInv, Request, ActiveOneShots
<1> DEFINE answered == {r} \cap ActiveOneShots
           evaluated == {q \in {r} \cap ActiveWatches : snapshot[KeyOf[q]] # NoContent}
<1>1. /\ r \in selfMsg /\ selfMsg' = selfMsg \ {r}
      /\ served' = served /\ joined' = joined /\ fetch' = fetch
      /\ Answer(answered)
      /\ status' = [q \in Request |-> IF q \in answered \cup (evaluated \cap Once)
                                      THEN "closed" ELSE status[q]]
  BY DEF HandleSelfMessage, Deliver
<1>2. \A q \in OneShot : q # r => status'[q] = status[q] /\ reply'[q] = reply[q]
  BY <1>1 DEF Answer, ActiveWatches
<1>3. r \in OneShot => /\ status'[r] = IF status[r] = "active" THEN "closed" ELSE status[r]
                       /\ status[r] = "active" => reply'[r].count = reply[r].count + 1
                       /\ status[r] # "active" => reply'[r] = reply[r]
  BY <1>1 DEF Answer, ActiveWatches
<1>4. OneReply'
  BY <1>2, <1>3 DEF OneReply, NoReply
<1>5. WaiterIsServed'
  BY <1>1, <1>2, <1>3 DEF WaiterIsServed
<1>6. RefreshHonoured'
  BY <1>1, <1>2 DEF RefreshHonoured
<1>7. RefreshForced'
  BY <1>1, <1>2, <1>3 DEF RefreshForced
<1>8. QED BY <1>1, <1>4, <1>5, <1>6, <1>7

\* A fetch result answers every one-shot of its dataset, so none is left
\* waiting for the fetch that ends, and a refresh is answered either with the
\* snapshot just fetched or with data marked stale, or it joined a fetch that
\* could use the disk.
LEMMA RequestInvFetchResult ==
  ASSUME TypeOK, RequestInv, NEW k \in Key, HandleFetchResult(k)
  PROVE  RequestInv'
<1> USE RequestAssumption DEF RequestInv, Request, ActiveOneShots
<1> DEFINE answered == {q \in ActiveOneShots : KeyOf[q] = k}
           evaluated == {q \in ActiveWatches : KeyOf[q] = k /\ due[q]
                                               /\ snapshot'[k] # NoContent}
<1>1. /\ selfMsg' = selfMsg /\ joined' = joined
      /\ fetch' = [fetch EXCEPT ![k] = "none"]
      /\ StoreResult(k)
      /\ Answer(answered)
      /\ status' = [q \in Request |-> IF q \in answered \cup (evaluated \cap Once)
                                      THEN "closed" ELSE status[q]]
  BY DEF HandleFetchResult, Deliver
<1>2. \A q \in OneShot : q \notin answered => status'[q] = status[q] /\ reply'[q] = reply[q]
  BY <1>1 DEF Answer, ActiveWatches
<1>3. \A q \in answered : /\ status[q] = "active" /\ status'[q] = "closed"
                          /\ reply'[q].count = reply[q].count + 1
                          /\ reply'[q].ok => snapshot'[k] # NoContent
                          /\ reply'[q].stale = (stale'[k] /\ snapshot'[k] # NoContent)
  BY <1>1 DEF Answer
<1>4. OneReply'
  BY <1>2, <1>3 DEF OneReply, NoReply
<1>5. WaiterIsServed'
  BY <1>1, <1>2 DEF WaiterIsServed, TypeOK
<1>6. \A q \in OneShot : served[q] => served'[q]
  BY <1>1 DEF StoreResult, TypeOK
<1>7. fetch[k] = "fetched" => \A q \in answered : served'[q]
  BY <1>1 DEF StoreResult, TypeOK
<1>8. fetch[k] \in {"fetched", "cached", "cachedStale", "failed"}
  BY DEF HandleFetchResult
<1>9. fetch[k] \in {"cachedStale", "failed"} => stale'[k]
  BY <1>1 DEF StoreResult, TypeOK
<1>10. \A q \in answered \cap Refresh : q \in joined \/ fetch[k] # "cached"
  BY DEF RefreshForced, Unforced
<1>11. \A q \in answered \cap Refresh : served'[q] \/ q \in joined \/ stale'[k]
  BY <1>7, <1>8, <1>9, <1>10
<1>12. \A q \in answered \cap Refresh : reply'[q].ok /\ ~reply'[q].stale => ~stale'[k]
  BY <1>3
<1>13. RefreshHonoured'
  <2> SUFFICES ASSUME NEW q \in OneShot \cap Refresh, reply'[q].ok /\ ~reply'[q].stale
               PROVE  served'[q] \/ q \in joined'
    BY DEF RefreshHonoured
  <2>1. CASE q \in answered
    BY <1>1, <1>11, <1>12, <2>1
  <2>2. CASE q \notin answered
    BY <1>1, <1>2, <1>6, <2>2 DEF RefreshHonoured
  <2>3. QED BY <2>1, <2>2
<1>14. RefreshForced'
  <2> SUFFICES ASSUME NEW q \in OneShot \cap Refresh, status'[q] = "active"
               PROVE  q \in joined' \/ fetch'[KeyOf[q]] \notin Unforced
    BY DEF RefreshForced
  <2>1. status[q] = "active" /\ KeyOf[q] # k
    BY <1>1, <1>2, <1>3
  <2>2. QED BY <1>1, <2>1 DEF RefreshForced, TypeOK
<1>15. QED BY <1>1, <1>4, <1>5, <1>13, <1>14

LEMMA RequestInvStep ==
  TypeOK /\ RequestInv /\ [Next \/ Restart]_vars => RequestInv'
<1> SUFFICES ASSUME TypeOK, RequestInv, [Next \/ Restart]_vars PROVE RequestInv'
  OBVIOUS
<1> USE RequestAssumption DEF Request, subVars
<1>1. ASSUME NEW r \in OneShot, Submit(r) PROVE RequestInv'
  BY <1>1, RequestInvSubmit DEF Submit, Unforced, TypeOK
<1>2. ASSUME NEW r \in Watch, Subscribe(r) PROVE RequestInv'
  BY <1>2, RequestInvSubmit DEF Subscribe, TypeOK
<1>3. ASSUME NEW r \in Request, RemoveSubscription(r) PROVE RequestInv'
  <2> DEFINE removed == {r} \cap (ActiveOneShots \cup ActiveWatches)
  <2>1. \A q \in removed : status[q] = "active"
    BY DEF ActiveOneShots, ActiveWatches
  <2>2. /\ UNCHANGED <<reply, served, joined, selfMsg, fetch>>
        /\ status' = [q \in Request |-> IF q \in removed THEN "closed" ELSE status[q]]
    BY <1>3 DEF RemoveSubscription
  <2>3. removed \in SUBSET Request
    OBVIOUS
  <2> HIDE DEF removed
  <2>4. QED BY <2>1, <2>2, <2>3, RequestInvQuiet
<1>4. ASSUME NEW r \in Request, HandleSelfMessage(r) PROVE RequestInv'
  BY <1>4, RequestInvSelfMessage
<1>5. ASSUME NEW k \in Key, HandleFetchResult(k) PROVE RequestInv'
  BY <1>5, RequestInvFetchResult
<1>6. ASSUME UNCHANGED <<reply, served, joined, selfMsg, status>>,
             \A k \in Key : fetch[k] # "none" => fetch'[k] # "none",
             \A k \in Key : fetch[k] # "none" /\ fetch'[k] \in Unforced => fetch[k] \in Unforced
      PROVE  RequestInv'
  BY <1>6, RequestInvQuiet
<1>7. CASE Restart
  BY <1>7 DEF Restart, RequestInv, OneReply, WaiterIsServed, RefreshHonoured, RefreshForced,
              ActiveOneShots, NoReply
<1>8. CASE ServerStep
  <2>1. ASSUME NEW t \in Timer, Poll(t) PROVE RequestInv'
    BY <2>1, <1>6 DEF Poll, StartFetch
  <2>2. ASSUME NEW o \in Owner,
               HandleActivityStart(o) \/ HandleActivityEnd(o) \/ HandleOwnerDown(o)
        PROVE  RequestInv'
    BY <2>2, <1>6 DEF HandleActivityStart, HandleActivityEnd, HandleOwnerDown
  <2>3. ASSUME NEW p \in Policies, SetIdlePolicy(p) PROVE RequestInv'
    BY <2>3, <1>6 DEF SetIdlePolicy
  <2>4. ASSUME NEW t \in Timer, IdleTimeout(t) PROVE RequestInv'
    BY <2>4, <1>6 DEF IdleTimeout
  <2>5. QED BY <1>8, <1>1, <1>2, <1>3, <1>4, <1>5, <2>1, <2>2, <2>3, <2>4
               DEF ServerStep, Unsubscribe, ClientDown
<1>9. CASE WorldStep
  <2>1. ASSUME NEW k \in Key, FetchEnds(k) PROVE RequestInv'
    BY <2>1, <1>6 DEF FetchEnds, Results, Unforced, TypeOK
  <2>2. ASSUME NEW k \in Key, SnapshotExpires(k) PROVE RequestInv'
    BY <2>2, <1>6 DEF SnapshotExpires
  <2>3. ASSUME NEW r \in Request, ClientDies(r) PROVE RequestInv'
    BY <2>3, <1>6 DEF ClientDies
  <2>4. ASSUME NEW r \in Watch, WatchFallsDue(r) PROVE RequestInv'
    BY <2>4, <1>6 DEF WatchFallsDue
  <2>5. ASSUME NEW t \in Timer, PollTimerFires(t) \/ IdleTimerFires(t) PROVE RequestInv'
    BY <2>5, <1>6 DEF PollTimerFires, IdleTimerFires
  <2>6. ASSUME NEW o \in Owner,
               OwnerStarts(o) \/ OwnerEnds(o) \/ OwnerDies(o) \/ OwnerRestarts(o)
        PROVE  RequestInv'
    BY <2>6, <1>6 DEF OwnerStarts, OwnerEnds, OwnerDies, OwnerRestarts
  <2>7. QED BY <1>9, <2>1, <2>2, <2>3, <2>4, <2>5, <2>6 DEF WorldStep
<1>10. CASE UNCHANGED vars
  BY <1>10, <1>6 DEF vars
<1>11. QED BY <1>7, <1>8, <1>9, <1>10 DEF Next

\* The client of a watch was sent what the server compares the next snapshot with: only an
\* evaluation sends, and it remembers what it sent.
SeenInv == \A r \in Watch : previous[r] # NoContent => seen[r] = previous[r]

LEMMA SeenEvaluates ==
  ASSUME SeenInv, NEW ws, EvaluateWatches(ws)
  PROVE  SeenInv'
<1> SUFFICES ASSUME NEW r \in Watch, previous'[r] # NoContent
             PROVE  seen'[r] = previous'[r]
  BY DEF SeenInv
<1>1. CASE r \notin ws
  BY <1>1 DEF EvaluateWatches, SeenInv
<1>2. CASE r \in ws
  <2>1. previous'[r] = snapshot'[KeyOf[r]]
    BY <1>2 DEF EvaluateWatches
  <2>2. CASE ShouldSend(r)
    BY <1>2, <2>1, <2>2 DEF EvaluateWatches
  <2>3. CASE ~ShouldSend(r)
    BY <1>2, <2>1, <2>3 DEF EvaluateWatches, ShouldSend, SeenInv
  <2>4. QED BY <2>2, <2>3
<1>3. QED BY <1>1, <1>2

LEMMA SeenStep == SeenInv /\ [Next \/ Restart]_vars => SeenInv'
<1> SUFFICES ASSUME SeenInv, [Next \/ Restart]_vars PROVE SeenInv'
  OBVIOUS
<1>1. ASSUME UNCHANGED <<previous, seen>> PROVE SeenInv'
  BY <1>1 DEF SeenInv
<1>2. ASSUME NEW r \in OneShot, Submit(r) PROVE SeenInv'
  BY <1>2, <1>1 DEF Submit
<1>3. ASSUME NEW r \in Watch, Subscribe(r) PROVE SeenInv'
  BY <1>3, <1>1 DEF Subscribe
<1>4. ASSUME NEW r \in Request, RemoveSubscription(r) PROVE SeenInv'
  BY <1>4 DEF RemoveSubscription, SeenInv
<1>5. ASSUME NEW x, NEW y, Deliver(x, y) PROVE SeenInv'
  BY <1>5, SeenEvaluates DEF Deliver
<1>6. CASE ServerStep
  <2>1. ASSUME NEW r \in Request, Unsubscribe(r) \/ ClientDown(r) PROVE SeenInv'
    BY <2>1, <1>4 DEF Unsubscribe, ClientDown
  <2>2. ASSUME NEW r \in Request, HandleSelfMessage(r) PROVE SeenInv'
    BY <2>2, <1>5 DEF HandleSelfMessage
  <2>3. ASSUME NEW k \in Key, HandleFetchResult(k) PROVE SeenInv'
    BY <2>3, <1>5 DEF HandleFetchResult
  <2>4. ASSUME NEW t \in Timer, Poll(t) \/ IdleTimeout(t) PROVE SeenInv'
    BY <2>4, <1>1 DEF Poll, IdleTimeout, subVars
  <2>5. ASSUME NEW o \in Owner,
               HandleActivityStart(o) \/ HandleActivityEnd(o) \/ HandleOwnerDown(o)
        PROVE  SeenInv'
    BY <2>5, <1>1 DEF HandleActivityStart, HandleActivityEnd, HandleOwnerDown, subVars
  <2>6. ASSUME NEW p \in Policies, SetIdlePolicy(p) PROVE SeenInv'
    BY <2>6, <1>1 DEF SetIdlePolicy, subVars
  <2>7. QED BY <1>2, <1>3, <1>6, <2>1, <2>2, <2>3, <2>4, <2>5, <2>6 DEF ServerStep
<1>7. CASE WorldStep
  BY <1>7, <1>1 DEF WorldStep, FetchEnds, SnapshotExpires, WatchFallsDue, ClientDies,
     PollTimerFires, IdleTimerFires, OwnerStarts, OwnerEnds, OwnerDies, OwnerRestarts, subVars
<1>8. CASE Restart
  BY <1>8 DEF Restart, SeenInv
<1>9. CASE UNCHANGED vars
  BY <1>9, <1>1 DEF vars, subVars
<1>10. QED BY <1>6, <1>7, <1>8, <1>9 DEF Next

\* Every request gets what it was promised, restarts of the server included: one answer,
\* never a wait for nothing, no old data for a refresh, and every change of its dataset.
THEOREM EveryRequestServed == RestartSpec => []RequestsServed
<1>1. Init => TypeOK /\ RequestInv /\ SeenInv
  BY TypeInit, RequestInvInit DEF Init, SeenInv
<1>2. TypeOK /\ RequestInv /\ SeenInv /\ [Next \/ Restart]_vars
        => (TypeOK /\ RequestInv /\ SeenInv)'
  BY TypeRestartStep, RequestInvStep, SeenStep
<1>3. RequestInv /\ SeenInv => RequestsServed
  BY DEF RequestInv, RequestsServed, ClientSeesPrevious, SeenInv, ActiveWatches
<1>4. QED BY <1>1, <1>2, <1>3, PTL DEF RestartSpec

-----------------------------------------------------------------------------
(***************************************************************************)
(* Leases.  A cast carries the leases its owner holds after it, so the     *)
(* casts in flight lead from the server's count to the owner's.            *)
(***************************************************************************)
Follows(c, n) == IF c.kind = "start" THEN c.level = n + 1 ELSE n = c.level + 1

LeaseChain(o) ==
  /\ castQ[o] = << >> => external[o] = held[o]
  /\ castQ[o] # << >> => /\ Follows(castQ[o][1], external[o])
                         /\ castQ[o][Len(castQ[o])].level = held[o]
  /\ \A i \in 1..(Len(castQ[o]) - 1) : Follows(castQ[o][i + 1], castQ[o][i].level)

LeaseInv ==
  \A o \in Owner : IF ownerUp[o] THEN LeaseChain(o) ELSE held[o] = 0

LEMMA LeaseInvInit == Init => LeaseInv
BY DEF Init, LeaseInv, LeaseChain

\* A cast appended by its owner keeps the chain.
LEMMA LeaseChainAppend ==
  ASSUME TypeOK, NEW o \in Owner, LeaseChain(o), NEW c \in Cast,
         Follows(c, held[o]), held'[o] = c.level,
         castQ'[o] = Append(castQ[o], c), external'[o] = external[o]
  PROVE  LeaseChain(o)'
<1> USE DEF LeaseChain, TypeOK
<1>1. castQ[o] \in Seq(Cast) /\ Len(castQ'[o]) = Len(castQ[o]) + 1
  OBVIOUS
<1>2. castQ'[o] # << >> /\ castQ'[o][Len(castQ'[o])] = c
  BY <1>1
<1>3. \A i \in 1..Len(castQ[o]) : castQ'[o][i] = castQ[o][i]
  BY <1>1
<1>4. Follows(castQ'[o][1], external'[o])
  <2>1. CASE castQ[o] = << >>
    BY <2>1, <1>1, <1>2
  <2>2. CASE castQ[o] # << >>
    BY <2>2, <1>1, <1>3
  <2>3. QED BY <2>1, <2>2
<1>5. ASSUME NEW i \in 1..(Len(castQ'[o]) - 1)
      PROVE  Follows(castQ'[o][i + 1], castQ'[o][i].level)
  <2>1. CASE i = Len(castQ[o])
    BY <2>1, <1>1, <1>2, <1>3
  <2>2. CASE i # Len(castQ[o])
    BY <2>2, <1>1, <1>3
  <2>3. QED BY <2>1, <2>2
<1>6. QED BY <1>2, <1>4, <1>5

\* Counting the first cast in flight keeps the chain.
LEMMA LeaseChainTail ==
  ASSUME TypeOK, NEW o \in Owner, LeaseChain(o), castQ[o] # << >>,
         external'[o] = castQ[o][1].level,
         castQ'[o] = Tail(castQ[o]), held'[o] = held[o]
  PROVE  LeaseChain(o)'
<1> USE DEF LeaseChain, TypeOK
<1>1. castQ[o] \in Seq(Cast) /\ Len(castQ'[o]) = Len(castQ[o]) - 1
  OBVIOUS
<1>2. \A i \in 1..Len(castQ'[o]) : castQ'[o][i] = castQ[o][i + 1]
  BY <1>1
<1>3. castQ'[o] = << >> => external'[o] = held'[o]
  BY <1>1
<1>4. castQ'[o] # << >> => /\ Follows(castQ'[o][1], external'[o])
                           /\ castQ'[o][Len(castQ'[o])].level = held'[o]
  BY <1>1, <1>2
<1>5. \A i \in 1..(Len(castQ'[o]) - 1) : Follows(castQ'[o][i + 1], castQ'[o][i].level)
  BY <1>1, <1>2
<1>6. QED BY <1>3, <1>4, <1>5

LEMMA LeaseInvStep == TypeOK /\ LeaseInv /\ [Next]_vars => LeaseInv'
<1> SUFFICES ASSUME TypeOK, LeaseInv, [Next]_vars PROVE LeaseInv'
  OBVIOUS
<1> USE DEF leaseVars
<1>1. ASSUME UNCHANGED leaseVars PROVE LeaseInv'
  BY <1>1 DEF LeaseInv, LeaseChain
\* The chains of the other owners.
<1>2. ASSUME NEW o \in Owner,
             \A q \in Owner \ {o} : /\ ownerUp'[q] = ownerUp[q] /\ held'[q] = held[q]
                                    /\ castQ'[q] = castQ[q]
                                    /\ external'[q] = external[q],
             IF ownerUp'[o] THEN LeaseChain(o)' ELSE held'[o] = 0
      PROVE  LeaseInv'
  BY <1>2 DEF LeaseInv, LeaseChain
<1>3. ASSUME NEW o \in Owner, OwnerStarts(o) PROVE LeaseInv'
  <2> DEFINE c == [kind |-> "start", level |-> held[o] + 1]
  <2>1. c \in Cast /\ Follows(c, held[o]) /\ LeaseChain(o)
    BY <1>3 DEF OwnerStarts, Cast, Follows, TypeOK, LeaseInv
  <2>2. held'[o] = c.level /\ castQ'[o] = Append(castQ[o], c) /\ external' = external
    BY <1>3 DEF OwnerStarts, TypeOK
  <2>3. LeaseChain(o)'
    BY <2>1, <2>2, LeaseChainAppend
  <2>4. QED BY <1>3, <2>3, <1>2 DEF OwnerStarts, TypeOK
<1>4. ASSUME NEW o \in Owner, OwnerEnds(o) PROVE LeaseInv'
  <2> DEFINE c == [kind |-> "end", level |-> held[o] - 1]
  <2>1. c \in Cast /\ Follows(c, held[o]) /\ LeaseChain(o)
    BY <1>4 DEF OwnerEnds, Cast, Follows, TypeOK, LeaseInv
  <2>2. held'[o] = c.level /\ castQ'[o] = Append(castQ[o], c) /\ external' = external
    BY <1>4 DEF OwnerEnds, TypeOK
  <2>3. LeaseChain(o)'
    BY <2>1, <2>2, LeaseChainAppend
  <2>4. QED BY <1>4, <2>3, <1>2 DEF OwnerEnds, TypeOK
<1>5. ASSUME NEW o \in Owner, HandleActivityStart(o) PROVE LeaseInv'
  <2>1. castQ'[o] = Tail(castQ[o]) /\ external'[o] = external[o] + 1
        /\ held' = held /\ ownerUp' = ownerUp /\ castQ[o] # << >>
        /\ castQ[o][1].kind = "start"
    BY <1>5 DEF HandleActivityStart, TypeOK
  <2>2. ownerUp[o] => LeaseChain(o)'
    <3>1. ownerUp[o] => external'[o] = castQ[o][1].level
      BY <2>1 DEF LeaseInv, LeaseChain, Follows, TypeOK
    <3>2. QED BY <2>1, <3>1, LeaseChainTail DEF LeaseInv
  <2>3. QED BY <1>5, <2>1, <2>2, <1>2 DEF HandleActivityStart, TypeOK, LeaseInv
<1>6. ASSUME NEW o \in Owner, HandleActivityEnd(o) PROVE LeaseInv'
  <2>1. castQ'[o] = Tail(castQ[o])
        /\ external'[o] = (IF external[o] = 0 THEN 0 ELSE external[o] - 1)
        /\ held' = held /\ ownerUp' = ownerUp /\ castQ[o] # << >>
        /\ castQ[o][1].kind = "end" /\ castQ[o][1] \in Cast
    <3>1. castQ[o] # << >> /\ castQ[o] \in Seq(Cast) /\ Head(castQ[o]).kind = "end"
      BY <1>6 DEF HandleActivityEnd, TypeOK
    <3>2. castQ[o][1].kind = "end" /\ castQ[o][1] \in Cast
      BY <3>1
    <3>3. QED BY <1>6, <3>1, <3>2 DEF HandleActivityEnd, TypeOK
  <2>2. ownerUp[o] => LeaseChain(o)'
    <3>1. ownerUp[o] => external'[o] = castQ[o][1].level
      BY <2>1 DEF LeaseInv, LeaseChain, Follows, TypeOK, Cast
    <3>2. QED BY <2>1, <3>1, LeaseChainTail DEF LeaseInv
  <2>3. \A q \in Owner \ {o} : /\ ownerUp'[q] = ownerUp[q] /\ held'[q] = held[q]
                               /\ castQ'[q] = castQ[q]
                               /\ external'[q] = external[q]
    BY <1>6 DEF HandleActivityEnd, TypeOK
  <2>4. IF ownerUp'[o] THEN LeaseChain(o)' ELSE held'[o] = 0
    BY <2>1, <2>2 DEF LeaseInv
  <2>5. QED BY <2>3, <2>4, <1>2
<1>7. ASSUME NEW o \in Owner, OwnerDies(o) PROVE LeaseInv'
  <2>1. \A q \in Owner \ {o} : /\ ownerUp'[q] = ownerUp[q] /\ held'[q] = held[q]
                               /\ castQ'[q] = castQ[q]
                               /\ external'[q] = external[q]
    BY <1>7 DEF OwnerDies, TypeOK
  <2>2. ~ownerUp'[o] /\ held'[o] = 0
    BY <1>7 DEF OwnerDies, TypeOK
  <2>3. QED BY <2>1, <2>2, <1>2
<1>8. ASSUME NEW o \in Owner, HandleOwnerDown(o) PROVE LeaseInv'
  BY <1>8, <1>2 DEF HandleOwnerDown, TypeOK, LeaseInv
<1>9. ASSUME NEW o \in Owner, OwnerRestarts(o) PROVE LeaseInv'
  <2>1. LeaseChain(o)'
    BY <1>9 DEF OwnerRestarts, TypeOK, LeaseInv, LeaseChain
  <2>2. QED BY <1>9, <1>2, <2>1 DEF OwnerRestarts, TypeOK
<1>10. CASE ServerStep
  <2>1. ASSUME NEW r \in OneShot, Submit(r) PROVE LeaseInv'
    BY <2>1, <1>1 DEF Submit
  <2>2. ASSUME NEW r \in Watch, Subscribe(r) PROVE LeaseInv'
    BY <2>2, <1>1 DEF Subscribe
  <2>3. ASSUME NEW r \in Request, RemoveSubscription(r) PROVE LeaseInv'
    BY <2>3, <1>1 DEF RemoveSubscription
  <2>4. ASSUME NEW r \in Request, HandleSelfMessage(r) PROVE LeaseInv'
    BY <2>4, <1>1 DEF HandleSelfMessage
  <2>5. ASSUME NEW k \in Key, HandleFetchResult(k) PROVE LeaseInv'
    BY <2>5, <1>1 DEF HandleFetchResult
  <2>6. ASSUME NEW t \in Timer, Poll(t) \/ IdleTimeout(t) PROVE LeaseInv'
    BY <2>6, <1>1 DEF Poll, IdleTimeout
  <2>7. ASSUME NEW p \in Policies, SetIdlePolicy(p) PROVE LeaseInv'
    BY <2>7, <1>1 DEF SetIdlePolicy
  <2>8. QED BY <1>10, <1>5, <1>6, <1>8, <2>1, <2>2, <2>3, <2>4, <2>5, <2>6, <2>7
               DEF ServerStep, Unsubscribe, ClientDown
<1>11. CASE WorldStep
  <2>1. ASSUME NEW k \in Key, FetchEnds(k) \/ SnapshotExpires(k) PROVE LeaseInv'
    BY <2>1, <1>1 DEF FetchEnds, SnapshotExpires
  <2>2. ASSUME NEW r \in Watch, WatchFallsDue(r) PROVE LeaseInv'
    BY <2>2, <1>1 DEF WatchFallsDue
  <2>3. ASSUME NEW r \in Request, ClientDies(r) PROVE LeaseInv'
    BY <2>3, <1>1 DEF ClientDies
  <2>4. ASSUME NEW t \in Timer, PollTimerFires(t) \/ IdleTimerFires(t) PROVE LeaseInv'
    BY <2>4, <1>1 DEF PollTimerFires, IdleTimerFires
  <2>5. QED BY <1>11, <1>3, <1>4, <1>7, <1>9, <2>1, <2>2, <2>3, <2>4 DEF WorldStep
<1>12. CASE UNCHANGED vars
  BY <1>12, <1>1 DEF vars
<1>13. QED BY <1>10, <1>11, <1>12 DEF Next

\* The leases counted for a live owner are the leases it holds, up to the
\* casts in flight, for any number of owners, leases and casts.
THEOREM LeasesCounted == Spec => []LeaseAccounting
<1>1. Init => TypeOK /\ LeaseInv
  BY TypeInit, LeaseInvInit
<1>2. TypeOK /\ LeaseInv /\ [Next]_vars => (TypeOK /\ LeaseInv)'
  BY TypeStep, LeaseInvStep
<1>3. LeaseInv => LeaseAccounting
  BY DEF LeaseInv, LeaseChain, LeaseAccounting
<1>4. QED BY <1>1, <1>2, <1>3, PTL DEF Spec

\* The daemon decides to stop only in a state without requests and without a
\* lease the server has been told of.
THEOREM NoStopUnderKnownWork == Spec => [][StopsIdle]_vars
<1>1. Init => TypeOK /\ LeaseInv
  BY TypeInit, LeaseInvInit
<1>2. TypeOK /\ LeaseInv /\ [Next]_vars => (TypeOK /\ LeaseInv)'
  BY TypeStep, LeaseInvStep
<1>3. TypeOK /\ LeaseInv /\ [Next]_vars => [StopsIdle]_vars
  <2> SUFFICES ASSUME TypeOK, LeaseInv, Next, vm' # vm PROVE StopsIdle
    BY DEF StopsIdle
  <2>1. PICK t \in Timer : IdleTimeout(t)
    <3>1. CASE ServerStep
      BY <3>1 DEF ServerStep, Submit, Subscribe, Unsubscribe, ClientDown, RemoveSubscription,
         HandleSelfMessage, HandleFetchResult, Poll, HandleActivityStart,
         HandleActivityEnd, HandleOwnerDown, SetIdlePolicy
    <3>2. CASE WorldStep
      BY <3>2 DEF WorldStep, FetchEnds, SnapshotExpires, WatchFallsDue, ClientDies,
         PollTimerFires, IdleTimerFires, OwnerStarts, OwnerEnds, OwnerDies, OwnerRestarts
    <3>3. QED BY <3>1, <3>2 DEF Next
  <2>2. Idle
    BY <2>1 DEF IdleTimeout
  <2>3. ActiveOneShots = {} /\ ActiveWatches = {}
    BY <2>2 DEF Idle, ActiveOneShots, ActiveWatches, Request
  <2>4. \A o \in Owner : held[o] = 0 \/ castQ[o] # << >>
    BY <2>2 DEF Idle, LeaseInv, LeaseChain
  <2>5. QED BY <2>3, <2>4 DEF StopsIdle
<1>4. QED BY <1>1, <1>2, <1>3, PTL DEF Spec

\* The server knows the leases of working owners and does not stop under them, for any
\* number of owners, leases and casts in flight.
THEOREM LeasesAlwaysHonoured == Spec => LeasesHonoured
BY LeasesCounted, NoStopUnderKnownWork, PTL DEF LeasesHonoured

-----------------------------------------------------------------------------
(***************************************************************************)
(* Timers.  A timer the server remembers is running or its message is      *)
(* queued; that and the two promises about timers are inductive, also over *)
(* restarts.                                                               *)
(***************************************************************************)
PollInv ==
  /\ pollTimer \in pollArmed \cup pollMail \cup {NoTimer}
  /\ PollScheduled

IdleInv ==
  /\ idleTimer \in idleArmed \cup idleMail \cup {NoTimer}
  /\ IdleTimerPending

LEMMA PollInvEnsure ==
  ASSUME NEW timer, NEW armed, timer \in armed \cup pollMail' \cup {NoTimer},
         EnsurePollTimer(timer, armed)
  PROVE  PollInv'
<1>1. CASE ActiveWatches' = {} /\ pollTimer' = NoTimer
  BY <1>1 DEF PollInv, PollScheduled
<1>2. CASE pollArmed' = armed \cup {pollTimer'}
  BY <1>2 DEF PollInv, PollScheduled
<1>3. CASE timer # NoTimer /\ pollTimer' = timer /\ pollArmed' = armed
  BY <1>3 DEF PollInv, PollScheduled
<1>4. QED BY <1>1, <1>2, <1>3 DEF EnsurePollTimer

LEMMA PollInvRemoval ==
  ASSUME PollInv, NEW removed, PollAfterRemoval(removed),
         ActiveWatches' \subseteq ActiveWatches
  PROVE  PollInv'
<1>1. CASE removed = {}
  BY <1>1 DEF PollAfterRemoval, PollInv, PollScheduled
<1>2. CASE removed # {}
  BY <1>2, PollInvEnsure DEF PollAfterRemoval, PollInv
<1>3. QED BY <1>1, <1>2

LEMMA PollInvStep == TypeOK /\ PollInv /\ [Next \/ Restart]_vars => PollInv'
<1> SUFFICES ASSUME TypeOK, PollInv, [Next \/ Restart]_vars PROVE PollInv'
  OBVIOUS
<1> USE RequestAssumption, ValueAssumption DEF Request, subVars, pollVars
<1>1. ASSUME UNCHANGED <<status, pollVars>> PROVE PollInv'
  BY <1>1 DEF PollInv, PollScheduled, ActiveWatches
<1>2. ASSUME NEW r \in OneShot, Submit(r) PROVE PollInv'
  BY <1>2 DEF Submit, PollInv, PollScheduled, ActiveWatches, TypeOK
<1>3. ASSUME NEW r \in Watch, Subscribe(r) PROVE PollInv'
  BY <1>3, PollInvEnsure DEF Subscribe, PollInv
<1>4. ASSUME NEW r \in Request, RemoveSubscription(r) PROVE PollInv'
  <2>1. ActiveWatches' \subseteq ActiveWatches
    BY <1>4 DEF RemoveSubscription, ActiveWatches
  <2>2. QED BY <1>4, <2>1, PollInvRemoval DEF RemoveSubscription
<1>5. ASSUME NEW x, NEW y, Deliver(x, y) PROVE PollInv'
  <2>1. ActiveWatches' \subseteq ActiveWatches
    BY <1>5 DEF Deliver, ActiveWatches
  <2>2. QED BY <1>5, <2>1, PollInvRemoval DEF Deliver
<1>6. ASSUME NEW t \in Timer, Poll(t) PROVE PollInv'
  BY <1>6, PollInvEnsure DEF Poll
<1>7. ASSUME NEW t \in Timer, PollTimerFires(t) PROVE PollInv'
  BY <1>7 DEF PollTimerFires, PollInv, PollScheduled, ActiveWatches
<1>8. CASE Restart
  BY <1>8 DEF Restart, PollInv, PollScheduled, ActiveWatches
<1>9. CASE ServerStep
  <2>1. ASSUME NEW o \in Owner,
               HandleActivityStart(o) \/ HandleActivityEnd(o) \/ HandleOwnerDown(o)
        PROVE  PollInv'
    BY <2>1, <1>1 DEF HandleActivityStart, HandleActivityEnd, HandleOwnerDown
  <2>2. ASSUME NEW p \in Policies, SetIdlePolicy(p) PROVE PollInv'
    BY <2>2, <1>1 DEF SetIdlePolicy
  <2>3. ASSUME NEW t \in Timer, IdleTimeout(t) PROVE PollInv'
    BY <2>3, <1>1 DEF IdleTimeout
  <2>4. ASSUME NEW r \in Request, HandleSelfMessage(r) PROVE PollInv'
    BY <2>4, <1>5 DEF HandleSelfMessage
  <2>5. ASSUME NEW k \in Key, HandleFetchResult(k) PROVE PollInv'
    BY <2>5, <1>5 DEF HandleFetchResult
  <2>6. QED BY <1>9, <1>2, <1>3, <1>4, <1>6, <2>1, <2>2, <2>3, <2>4, <2>5
               DEF ServerStep, Unsubscribe, ClientDown
<1>10. CASE WorldStep
  <2>1. ASSUME NEW k \in Key, FetchEnds(k) \/ SnapshotExpires(k) PROVE PollInv'
    BY <2>1, <1>1 DEF FetchEnds, SnapshotExpires
  <2>2. ASSUME NEW r \in Watch, WatchFallsDue(r) PROVE PollInv'
    BY <2>2, <1>1 DEF WatchFallsDue
  <2>3. ASSUME NEW r \in Request, ClientDies(r) PROVE PollInv'
    BY <2>3, <1>1 DEF ClientDies
  <2>4. ASSUME NEW t \in Timer, IdleTimerFires(t) PROVE PollInv'
    BY <2>4, <1>1 DEF IdleTimerFires
  <2>5. ASSUME NEW o \in Owner,
               OwnerStarts(o) \/ OwnerEnds(o) \/ OwnerDies(o) \/ OwnerRestarts(o)
        PROVE  PollInv'
    BY <2>5, <1>1 DEF OwnerStarts, OwnerEnds, OwnerDies, OwnerRestarts
  <2>6. QED BY <1>10, <1>7, <2>1, <2>2, <2>3, <2>4, <2>5 DEF WorldStep
<1>11. CASE UNCHANGED vars
  BY <1>11, <1>1 DEF vars
<1>12. QED BY <1>8, <1>9, <1>10, <1>11 DEF Next

\* Under every live watch a poll is scheduled, stale poll messages, restarts
\* and removals included.
THEOREM PollNeverDies == RestartSpec => []PollScheduled
<1>1. Init => TypeOK /\ PollInv
  <2>1. Init => PollInv
    BY DEF Init, PollInv, PollScheduled, ActiveWatches, Request
  <2>2. QED BY <2>1, TypeInit
<1>2. TypeOK /\ PollInv /\ [Next \/ Restart]_vars => (TypeOK /\ PollInv)'
  BY TypeRestartStep, PollInvStep
<1>3. PollInv => PollScheduled
  BY DEF PollInv
<1>4. QED BY <1>1, <1>2, <1>3, PTL DEF RestartSpec

LEMMA IdleInvArm ==
  ASSUME NEW timer, NEW armed, timer \in armed \cup idleMail' \cup {NoTimer},
         ArmIdle(timer, armed), policy' \in {"idle", "persistent"}
  PROVE  IdleInv'
<1>1. CASE policy' = "persistent" \/ timer # NoTimer
  BY <1>1 DEF ArmIdle, IdleInv, IdleTimerPending
<1>2. CASE ~(policy' = "persistent" \/ timer # NoTimer)
  BY <1>2 DEF ArmIdle, IdleInv, IdleTimerPending
<1>3. QED BY <1>1, <1>2

LEMMA IdleInvMaybe ==
  ASSUME TypeOK, IdleInv, MaybeIdle
  PROVE  IdleInv'
<1>1. UNCHANGED <<idleMail, policy>>
  BY DEF MaybeIdle
<1>2. CASE ArmIdle(idleTimer, idleArmed)
  BY <1>1, <1>2, IdleInvArm DEF IdleInv, TypeOK
<1>3. CASE ~Idle' /\ CancelIdle
  BY <1>3 DEF CancelIdle, IdleInv, IdleTimerPending
<1>4. QED BY <1>2, <1>3 DEF MaybeIdle

LEMMA IdleInvStep == TypeOK /\ IdleInv /\ [Next \/ Restart]_vars => IdleInv'
<1> SUFFICES ASSUME TypeOK, IdleInv, [Next \/ Restart]_vars PROVE IdleInv'
  OBVIOUS
<1> USE RequestAssumption, PolicyAssumption
    DEF Request, subVars, dataVars, pollVars, idleVars, leaseVars
<1>1. ASSUME UNCHANGED <<idleVars, vm>>, Idle' => Idle PROVE IdleInv'
  BY <1>1 DEF IdleInv, IdleTimerPending
<1>2. ASSUME UNCHANGED idleMail, CancelIdle, ~Idle' PROVE IdleInv'
  BY <1>2 DEF CancelIdle, IdleInv, IdleTimerPending
<1>3. ASSUME NEW r \in Request, Submit(r) \/ Subscribe(r) PROVE IdleInv'
  <2>1. status'[r] = "active" /\ UNCHANGED idleMail /\ CancelIdle
    BY <1>3 DEF Submit, Subscribe, TypeOK
  <2>2. QED BY <2>1, <1>2 DEF Idle
<1>4. ASSUME NEW o \in Owner, HandleActivityStart(o) PROVE IdleInv'
  <2>1. external'[o] = external[o] + 1 /\ UNCHANGED idleMail /\ CancelIdle
    BY <1>4 DEF HandleActivityStart, TypeOK
  <2>2. QED BY <2>1, <1>2 DEF Idle, TypeOK
<1>5. ASSUME NEW p \in Policies, SetIdlePolicy(p) PROVE IdleInv'
  <2>1. CASE p = "idle" /\ Idle
    <3>1. ArmIdle(NoTimer, idleArmed \ {idleTimer}) /\ policy' = p
      BY <1>5, <2>1 DEF SetIdlePolicy
    <3>2. QED BY <3>1, IdleInvArm
  <2>2. CASE ~(p = "idle" /\ Idle)
    <3>1. CancelIdle /\ policy' = p /\ idleMail' = idleMail
      BY <1>5, <2>2 DEF SetIdlePolicy
    <3>2. Idle' <=> Idle
      BY <1>5 DEF SetIdlePolicy, Idle
    <3>3. QED BY <2>2, <3>1, <3>2 DEF CancelIdle, IdleInv, IdleTimerPending
  <2>3. QED BY <2>1, <2>2
<1>6. ASSUME NEW t \in Timer, IdleTimeout(t) PROVE IdleInv'
  <2>1. CASE Idle /\ policy = "idle"
    BY <1>6, <2>1 DEF IdleTimeout, IdleInv, IdleTimerPending
  <2>2. CASE ~(Idle /\ policy = "idle")
    BY <1>6, <2>2, IdleInvArm DEF IdleTimeout, TypeOK
  <2>3. QED BY <2>1, <2>2
<1>7. CASE Restart
  <2>1. CASE policy' = "persistent"
    BY <1>7, <2>1 DEF Restart, IdleInv, IdleTimerPending
  <2>2. CASE policy' # "persistent"
    BY <1>7, <2>2 DEF Restart, IdleInv, IdleTimerPending
  <2>3. QED BY <2>1, <2>2
<1>8. ASSUME NEW t \in Timer, IdleTimerFires(t) PROVE IdleInv'
  <2>1. Idle' <=> Idle
    BY <1>8 DEF IdleTimerFires, Idle
  <2>2. QED BY <1>8, <2>1 DEF IdleTimerFires, IdleInv, IdleTimerPending
<1>9. ASSUME NEW k \in Key, FetchEnds(k) PROVE IdleInv'
  <2>1. fetch'[k] # "none" /\ UNCHANGED <<idleVars, vm>>
    BY <1>9 DEF FetchEnds, Results, TypeOK
  <2>2. QED BY <2>1, <1>1 DEF Idle
<1>10. ASSUME NEW t \in Timer, Poll(t) PROVE IdleInv'
  <2>1. Idle' => Idle
    BY <1>10 DEF Poll, StartFetch, Idle, TypeOK
  <2>2. QED BY <1>10, <2>1, <1>1 DEF Poll
<1>11. CASE ServerStep
  <2>1. ASSUME NEW o \in Owner, HandleActivityEnd(o) \/ HandleOwnerDown(o)
        PROVE  IdleInv'
    BY <2>1, IdleInvMaybe DEF HandleActivityEnd, HandleOwnerDown
  <2>2. ASSUME NEW r \in Request, RemoveSubscription(r) \/ HandleSelfMessage(r)
        PROVE  IdleInv'
    BY <2>2, IdleInvMaybe DEF RemoveSubscription, HandleSelfMessage
  <2>3. ASSUME NEW k \in Key, HandleFetchResult(k) PROVE IdleInv'
    BY <2>3, IdleInvMaybe DEF HandleFetchResult
  <2>4. QED BY <1>11, <1>3, <1>4, <1>5, <1>6, <1>10, <2>1, <2>2, <2>3
               DEF ServerStep, Unsubscribe, ClientDown
<1>12. ASSUME UNCHANGED <<status, external, fetch, idleVars, vm>> PROVE IdleInv'
  BY <1>12, <1>1 DEF Idle
<1>13. CASE WorldStep
  <2>1. ASSUME NEW k \in Key, SnapshotExpires(k) PROVE IdleInv'
    BY <2>1, <1>12 DEF SnapshotExpires
  <2>2. ASSUME NEW r \in Watch, WatchFallsDue(r) PROVE IdleInv'
    BY <2>2, <1>12 DEF WatchFallsDue
  <2>3. ASSUME NEW r \in Request, ClientDies(r) PROVE IdleInv'
    BY <2>3, <1>12 DEF ClientDies
  <2>4. ASSUME NEW t \in Timer, PollTimerFires(t) PROVE IdleInv'
    BY <2>4, <1>12 DEF PollTimerFires
  <2>5. ASSUME NEW o \in Owner,
               OwnerStarts(o) \/ OwnerEnds(o) \/ OwnerDies(o) \/ OwnerRestarts(o)
        PROVE  IdleInv'
    BY <2>5, <1>12 DEF OwnerStarts, OwnerEnds, OwnerDies, OwnerRestarts
  <2>6. QED BY <1>13, <1>8, <1>9, <2>1, <2>2, <2>3, <2>4, <2>5 DEF WorldStep
<1>14. CASE UNCHANGED vars
  BY <1>14, <1>12 DEF vars
<1>15. QED BY <1>7, <1>11, <1>13, <1>14 DEF Next

\* An idle daemon that is to stop has an idle timer under way.
THEOREM IdleTimerNeverForgotten == RestartSpec => []IdleTimerPending
<1>1. Init => TypeOK /\ IdleInv
  <2>1. ASSUME Init PROVE IdleInv
    <3>1. CASE policy = "persistent"
      BY <2>1, <3>1 DEF Init, IdleInv, IdleTimerPending
    <3>2. CASE policy # "persistent"
      BY <2>1, <3>2 DEF Init, IdleInv, IdleTimerPending
    <3>3. QED BY <3>1, <3>2
  <2>2. QED BY <2>1, TypeInit
<1>2. TypeOK /\ IdleInv /\ [Next \/ Restart]_vars => (TypeOK /\ IdleInv)'
  BY TypeRestartStep, IdleInvStep
<1>3. IdleInv => IdleTimerPending
  BY DEF IdleInv
<1>4. QED BY <1>1, <1>2, <1>3, PTL DEF RestartSpec

\* Whatever the state of the server waits for a timer, the timer is under way, restarts of
\* the server included.
THEOREM TimersNeverForgotten == RestartSpec => []TimersPending
<1>1. PollScheduled /\ IdleTimerPending => TimersPending
  BY DEF TimersPending
<1>2. QED BY <1>1, PollNeverDies, IdleTimerNeverForgotten, PTL

=============================================================================
