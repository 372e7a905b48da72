------------------------- MODULE InventorySyncProofs -------------------------
(***************************************************************************)
(* Proofs about InventorySync, for any number of observations, streams and *)
(* faults.                                                                 *)
(***************************************************************************)
EXTENDS InventorySync, SequenceTheorems, TLAPS

-----------------------------------------------------------------------------
(* What the operators of the model return *)

\* Coalescing keeps a queue of messages one.
LEMMA EnqueueType ==
  ASSUME NEW q \in Seq(Message), NEW m \in Message
  PROVE  Enqueue(q, m) \in Seq(Message)
<1>1. CASE \E i \in DOMAIN q : q[i].kind = m.kind
  <2> DEFINE at == CHOOSE i \in DOMAIN q : q[i].kind = m.kind
  <2>1. at \in 1..Len(q)
    BY <1>1
  <2>2. SubSeq(q, 1, at - 1) \in Seq(Message) /\ SubSeq(q, at + 1, Len(q)) \in Seq(Message)
    <3> HIDE DEF at
    <3>1. /\ at - 1 \in Int /\ at + 1 \in Int /\ Len(q) \in Int
          /\ \A i \in 1 .. at - 1 : q[i] \in Message
          /\ \A i \in at + 1 .. Len(q) : q[i] \in Message
      BY <2>1
    <3> QED
      BY <3>1, SubSeqProperties
  <2>3. RemoveAt(q, at) \in Seq(Message)
    BY <2>2, ConcatProperties DEF RemoveAt
  <2> QED
    BY <1>1, <2>3, AppendProperties DEF Enqueue
<1>2. CASE ~ \E i \in DOMAIN q : q[i].kind = m.kind
  BY <1>2, AppendProperties DEF Enqueue
<1> QED
  BY <1>1, <1>2

\* Retaining messages keeps the latest of each kind messages.
LEMMA RetainType ==
  ASSUME NEW l \in [Kind -> Message \cup {None}], NEW q \in Seq(Message)
  PROVE  Retain(l, q) \in [Kind -> Message \cup {None}]
<1> SUFFICES ASSUME NEW k \in Kind
             PROVE  Retain(l, q)[k] \in Message \cup {None}
  BY DEF Retain
<1>1. CASE \E i \in DOMAIN q : IsLast(q, k, i)
  <2> DEFINE at == CHOOSE i \in DOMAIN q : IsLast(q, k, i)
  <2>1. at \in DOMAIN q
    BY <1>1
  <2>2. q[at] \in Message
    BY <2>1, ElementOfSeq
  <2> QED
    BY <1>1, <2>2 DEF Retain
<1>2. CASE ~ \E i \in DOMAIN q : IsLast(q, k, i)
  BY <1>2 DEF Retain
<1> QED
  BY <1>1, <1>2

LEMMA ReplayType ==
  ASSUME latest \in [Kind -> Message \cup {None}]
  PROVE  Replay \in Seq(Message)
<1>1. ASSUME NEW k \in Kind PROVE Repeated(k) \in Seq(Message)
  BY DEF Repeated
<1> QED
  BY <1>1, ConcatProperties DEF Replay, Kind

\* A publication keeps the sources of the daemon sources.
LEMMA PublishType ==
  ASSUME store \in Sources, NEW m \in Message
  PROVE  Publish(m) \in Sources
<1>1. CASE m \in Observation
  BY <1>1 DEF Publish, Apply, ApplyHttp, ApplyNative, Sources, Snapshot
<1>2. CASE m \notin Observation
  BY <1>2 DEF Publish, Message, Snapshot
<1> QED
  BY <1>1, <1>2

-----------------------------------------------------------------------------
(* Type correctness *)

LEMMA InitType == Init => TypeOK
<1> SUFFICES ASSUME Init PROVE TypeOK
  OBVIOUS
<1>1. game \in [version : 0..MaxVersion, sync : 0..MaxSync]
  BY InventoryAssumption DEF Init
<1>2. stream \in 1..MaxStream /\ seq \in 0..MaxSeq /\ captured \in 0..MaxSync /\ faults \in 0..MaxFaults
  BY InventoryAssumption, SyncAssumption DEF Init
<1>3. store \in Sources /\ disk \in Sources
  BY DEF Init, NoSources, Sources
<1>4. << >> \in Seq(Message)
  OBVIOUS
<1> QED
  BY <1>1, <1>2, <1>3, <1>4 DEF Init, TypeOK

\* What ends a session keeps the latest publications well typed.
LEMMA EndSessionType ==
  ASSUME TypeOK, EndSession
  PROVE  /\ latest' \in [Kind -> Message \cup {None}]
         /\ conn' \in {"down", "up", "closing"}
         /\ replay' \in Seq(Message)
BY RetainType, SMTT(30) DEF TypeOK, EndSession

LEMMA OldConnectionType ==
  ASSUME TypeOK, OldConnection
  PROVE  wire' \in Seq(Message) /\ oldWire' \in Seq(Message)
BY DEF TypeOK, OldConnection

LEMMA FaultType ==
  ASSUME TypeOK, NEW f, Fault(f)
  PROVE  faults' \in 0..MaxFaults
BY SyncAssumption DEF TypeOK, Fault

\* Every step keeps the types.
LEMMA NextType == TypeOK /\ [Next]_vars => TypeOK'
<1> SUFFICES ASSUME TypeOK, [Next]_vars
             PROVE  TypeOK'
  OBVIOUS
<1> USE InventoryAssumption, SyncAssumption

<1>1. CASE InventoryChanges
  <2>1. game' \in [version : 0..MaxVersion, sync : 0..MaxSync]
    <3>0. game \in [version : 0..MaxVersion, sync : 0..MaxSync]
      BY DEF TypeOK
    <3>1. game.version \in 0..MaxVersion /\ game.sync \in 0..MaxSync
      BY <3>0
    <3>2. game.version < MaxVersion /\ game' = [game EXCEPT !.version = @ + 1]
      BY <1>1 DEF InventoryChanges
    <3>3. game' = [version |-> game.version + 1, sync |-> game.sync]
      BY <3>0, <3>2
    <3>4. game.version < MaxVersion
      BY <3>2
    <3>5. game.version + 1 \in 0..MaxVersion
      BY <3>1, <3>4
    <3> QED
      BY <3>1, <3>3, <3>5
  <2>2. UNCHANGED <<response, companion, outbox, link, daemon, outcomes, faults>>
    BY <1>1 DEF InventoryChanges
  <2> QED
    BY <2>1, <2>2 DEF TypeOK, companion, link, daemon
<1>2. CASE ServerResponds
  <2>1. game.version \in 0..MaxVersion /\ game.sync + 1 \in 1..MaxSync
    BY <1>2, SMTT(30) DEF TypeOK, ServerResponds
  <2>2. game' \in [version : 0..MaxVersion, sync : 0..MaxSync]
    <3>1. game' = [version |-> game.version, sync |-> game.sync + 1]
      BY <1>2 DEF TypeOK, ServerResponds
    <3> QED
      BY <2>1, <3>1
  <2>3. response' \in Sample
    BY <1>2, <2>1 DEF ServerResponds, Sample
  <2>4. UNCHANGED <<companion, outbox, link, daemon, outcomes, faults>>
    BY <1>2 DEF ServerResponds
  <2> QED
    BY <2>2, <2>3, <2>4 DEF TypeOK, companion, link, daemon
<1>3. CASE ResponseFreed
  BY <1>3 DEF TypeOK, ResponseFreed, companion, link, daemon
<1>4. CASE Capture
  BY <1>4 DEF TypeOK, Capture, companion, link, daemon, Sample
<1>5. CASE NativeRead
  BY <1>5 DEF TypeOK, NativeRead, companion, link, daemon, Sample, Read
<1>6. CASE Accept
  <2>1. baseline' \in Observation
    BY <1>6, SMTT(30) DEF TypeOK, Accept, Observation, Sample
  <2>2. outbox' \in Seq(Message)
    BY <1>6, <2>1, EnqueueType DEF TypeOK, Accept, Message
  <2> QED
    BY <1>6, <2>1, <2>2 DEF TypeOK, Accept, link, daemon
<1>7. CASE Native
  <2>1. CASE Publishable(read)
    <3>0. baseline \in Observation /\ read \in Read
      BY <1>7, <2>1 DEF TypeOK, Native, Publishable
    <3>1. lastNative' \in Observation
      <4>1. /\ stream \in 1..MaxStream /\ seq + 1 \in 1..MaxSeq
            /\ baseline.seq \in 1..MaxSeq
            /\ read.at \in 0..MaxSync /\ read.sync \in 0..MaxSync
            /\ read.version \in 0..MaxVersion
        BY <1>7, <3>0 DEF TypeOK, Native, Observation, Read
      <4>2. lastNative' = [kind |-> "native", stream |-> stream, seq |-> seq + 1,
                           base |-> baseline.seq, at |-> read.at, sync |-> read.sync,
                           version |-> read.version]
        BY <1>7, <2>1 DEF Native
      <4> QED
        BY <4>1, <4>2 DEF Observation
    <3>2. outbox' \in Seq(Message)
      <4>1. lastNative' \in Message /\ outbox' = Enqueue(outbox, lastNative')
        BY <1>7, <2>1, <3>1 DEF Native, Message
      <4> QED
        BY <4>1, EnqueueType DEF TypeOK
    <3>3. /\ read' = None /\ seq' = seq + 1 /\ seq < MaxSeq
          /\ UNCHANGED <<game, response, stream, captured, sample, baseline, link, daemon,
                         outcomes, faults>>
      BY <1>7, <2>1 DEF Native
    <3> QED
      BY <3>1, <3>2, <3>3 DEF TypeOK, link, daemon
  <2>2. CASE ~Publishable(read)
    BY <1>7, <2>2 DEF TypeOK, Native, link, daemon
  <2> QED
    BY <2>1, <2>2
<1>8. ASSUME NEW o \in Outcome, PublishOutcome(o)
       PROVE  TypeOK'
  <2>1. outbox' \in Seq(Message)
    BY <1>8, AppendProperties DEF TypeOK, PublishOutcome, Message
  <2> QED
    BY <1>8, <2>1 DEF TypeOK, PublishOutcome, companion, link, daemon
<1>9. CASE RetainOutbound
  <2>1. /\ Head(outbox) \in Message /\ Tail(outbox) \in Seq(Message)
        /\ <<Head(outbox)>> \in Seq(Message)
    BY <1>9 DEF TypeOK, RetainOutbound
  <2>2. latest' \in [Kind -> Message \cup {None}] /\ queued' \in Seq(Message)
    <3>1. Retain(latest, <<Head(outbox)>>) \in [Kind -> Message \cup {None}]
      BY <2>1, RetainType DEF TypeOK
    <3>2. Append(queued, Head(outbox)) \in Seq(Message)
      BY <2>1 DEF TypeOK
    <3>3. \/ latest' = Retain(latest, <<Head(outbox)>>) /\ queued' = queued
          \/ queued' = Append(queued, Head(outbox)) /\ latest' = latest
      BY <1>9 DEF RetainOutbound
    <3> QED
      BY <3>1, <3>2, <3>3 DEF TypeOK
  <2> QED
    BY <1>9, <2>1, <2>2 DEF TypeOK, RetainOutbound, companion, daemon
<1>10. CASE Connect
  <2>1. replay' \in Seq(Message)
    BY <1>10, ReplayType, ConcatProperties DEF TypeOK, Connect
  <2> QED
    BY <1>10, <2>1 DEF TypeOK, Connect, companion, daemon
<1>11. CASE Send
  <2> DEFINE m == Head(replay \o outbox)
  <2>1. m \in Message /\ <<m>> \in Seq(Message)
    BY <1>11, SMTT(30) DEF TypeOK, Send
  <2>2. replay' \in Seq(Message) /\ outbox' \in Seq(Message)
    BY <1>11 DEF TypeOK, Send
  <2>3. wire' \in Seq(Message)
    BY <1>11, <2>1, SMTT(30) DEF TypeOK, Send
  <2>4. latest' \in [Kind -> Message \cup {None}]
    BY <1>11, <2>1, RetainType DEF TypeOK, Send
  <2>5. outcomes' \in [Outcome -> {"new", "held", "written", "lost"}]
    BY <1>11 DEF TypeOK, Send
  <2> QED
    BY <1>11, <2>2, <2>3, <2>4, <2>5 DEF TypeOK, Send, companion, daemon
<1>12. CASE Disconnect
  BY <1>12, EndSessionType, FaultType, OldConnectionType DEF TypeOK, Disconnect, companion, link, daemon
<1>13. CASE CompanionCrashes
  BY <1>13, FaultType, OldConnectionType DEF TypeOK, CompanionCrashes, companion, link, daemon, NewStream, LoseOutcomes, Kind
<1>14. CASE CompanionReloads
  <2>1. Retain(latest, replay \o outbox) \in [Kind -> Message \cup {None}]
    BY RetainType, ConcatProperties DEF TypeOK
  <2>2. latest' \in [Kind -> Message \cup {None}]
    BY <1>14, <2>1 DEF CompanionReloads
  <2> QED
    BY <1>14, <2>2, FaultType, OldConnectionType DEF TypeOK, CompanionReloads, LoseOutcomes, daemon
<1>15. CASE DecoderRestarts
  BY <1>15, FaultType DEF TypeOK, DecoderRestarts, companion, link, daemon, NewStream
<1>16. CASE Deliver
  <2>1. Head(wire) \in Message /\ Tail(wire) \in Seq(Message)
    BY <1>16 DEF TypeOK, Deliver
  <2>2. store' \in Sources
    BY <1>16, <2>1, PublishType DEF TypeOK, Deliver
  <2> QED
    BY <1>16, <2>1, <2>2 DEF TypeOK, Deliver, companion
<1>17. CASE DeliverOld
  <2>1. Head(oldWire) \in Message /\ Tail(oldWire) \in Seq(Message)
    BY <1>17 DEF TypeOK, DeliverOld
  <2>2. store' \in Sources
    BY <1>17, <2>1, PublishType DEF TypeOK, DeliverOld
  <2> QED
    BY <1>17, <2>1, <2>2 DEF TypeOK, DeliverOld, companion
<1>18. CASE DropOld
  BY <1>18 DEF TypeOK, DropOld, companion, link, daemon
<1>19. CASE Persist
  BY <1>19 DEF TypeOK, Persist, companion, link, daemon
<1>20. CASE Clear
  BY <1>20, FaultType DEF TypeOK, Clear, companion, link, daemon, NoSources, Sources
<1>21. CASE ServiceRestarts
  BY <1>21, FaultType DEF TypeOK, ServiceRestarts, companion, link, daemon
<1>22. CASE DaemonCloses
  BY <1>22, EndSessionType DEF TypeOK, DaemonCloses, companion, link, daemon
<1>23. CASE DaemonRestarts
  BY <1>23, EndSessionType, FaultType DEF TypeOK, DaemonRestarts, companion, link, daemon
<1>24. CASE UNCHANGED vars
  BY <1>24 DEF TypeOK, vars, companion, link, daemon
<1> QED
  BY <1>1, <1>2, <1>3, <1>4, <1>5, <1>6, <1>7, <1>8, <1>9, <1>10, <1>11, <1>12, <1>13, <1>14, <1>15, <1>16, <1>17, <1>18, <1>19, <1>20, <1>21, <1>22, <1>23, <1>24
     DEF Next, CompanionStep, DaemonStep, Restart

\* Whatever goes wrong, the decoder, the queues and the sources of the daemon
\* hold nothing but messages and observations within their bounds.
THEOREM TypeCorrect == Spec => []TypeOK
<1>1. Init => TypeOK
  BY InitType
<1>2. TypeOK /\ [Next]_vars => TypeOK'
  BY NextType
<1> QED
  BY <1>1, <1>2, PTL DEF Spec

-----------------------------------------------------------------------------
(* What the daemon holds *)

\* A publication that is no outcome is an observation.
LEMMA SnapshotIsObservation ==
  ASSUME NEW m \in Message, m.kind \in Snapshot
  PROVE  m \in Observation
BY DEF Message, Snapshot, Observation

\* Newer orders observations strictly.
LEMMA NewerAsymmetric ==
  ASSUME NEW m \in Observation, NEW p \in Observation, Newer(m, p)
  PROVE  ~Newer(p, m)
<1>1. m # None /\ p # None
  BY InventoryAssumption
<1>2. m.stream \in Int /\ p.stream \in Int /\ m.seq \in Int /\ p.seq \in Int
  BY InventoryAssumption DEF Observation
<1> QED
  BY <1>1, <1>2 DEF Newer

LEMMA NewerIrreflexive ==
  ASSUME NEW m \in Observation
  PROVE  ~Newer(m, m)
BY NewerAsymmetric

\* A publication keeps the sources consistent, and none of them goes back.
LEMMA PublishKeeps ==
  ASSUME store \in Sources, Consistent(store), NEW m \in Message
  PROVE  Consistent(Publish(m)) /\ NeverOlder(store, Publish(m))
<1> DEFINE t == Publish(m)
<1>1. store.http \in Observation \cup {None} /\ store.native \in Observation \cup {None}
  BY DEF Sources
<1>2. CASE t = store
  BY <1>1, <1>2, NewerIrreflexive DEF NeverOlder
<1>3. CASE /\ m \in Observation /\ Newer(m, store.http)
           /\ t = [http |-> m, native |-> None, inventory |-> m]
  <2>1. m # None
    BY <1>3, InventoryAssumption
  <2>2. Consistent(t)
    BY <1>3, <2>1 DEF Consistent
  <2>3. t.http # store.http
    BY <1>3, NewerIrreflexive
  <2>4. store.http # None => ~Newer(store.http, t.http)
    BY <1>1, <1>3, NewerAsymmetric
  <2> QED
    BY <1>3, <2>1, <2>2, <2>3, <2>4 DEF NeverOlder
<1>4. CASE /\ m \in Observation
           /\ BaselineMatches(m, store.http) /\ Newer(m, store.native)
           /\ t = [store EXCEPT !.native = m,
                               !.inventory = IF m.version = @.version THEN @ ELSE m]
  <2>1. m # None /\ store.http # None
    BY <1>4, InventoryAssumption DEF BaselineMatches
  <2>2. /\ t.http = store.http /\ t.native = m
        /\ t.inventory.version = m.version
    BY <1>4 DEF Sources
  <2>3. Consistent(t)
    BY <1>4, <2>1, <2>2 DEF Consistent
  <2>4. ~Newer(store.http, t.http)
    BY <1>1, <2>1, <2>2, NewerIrreflexive
  <2>5. store.native # None => ~Newer(store.native, t.native)
    BY <1>1, <1>4, <2>2, NewerAsymmetric
  <2> QED
    BY <2>1, <2>2, <2>3, <2>4, <2>5 DEF NeverOlder
<1> QED
  BY <1>2, <1>3, <1>4, SnapshotIsObservation DEF Publish, Apply, ApplyHttp, ApplyNative

\* Every step keeps what the daemon holds, and its cache file, consistent.
LEMMA NextEffective == TypeOK /\ EffectiveInventory /\ [Next]_vars => EffectiveInventory'
<1> SUFFICES ASSUME TypeOK, EffectiveInventory, [Next]_vars
             PROVE  EffectiveInventory'
  OBVIOUS
<1> USE DEF EffectiveInventory
<1>1. CASE Deliver
  <2>1. Head(wire) \in Message
    BY <1>1 DEF TypeOK, Deliver
  <2> QED
    BY <1>1, <2>1, PublishKeeps DEF TypeOK, Deliver
<1>2. CASE DeliverOld
  <2>1. Head(oldWire) \in Message
    BY <1>2 DEF TypeOK, DeliverOld
  <2> QED
    BY <1>2, <2>1, PublishKeeps DEF TypeOK, DeliverOld
<1>3. CASE Clear
  BY <1>3 DEF Clear, Consistent, NoSources
<1>4. CASE Persist \/ ServiceRestarts \/ DaemonRestarts
  BY <1>4 DEF Persist, ServiceRestarts, DaemonRestarts
<1>5. CASE UNCHANGED daemon
  BY <1>5 DEF daemon
<1>6. \/ Deliver \/ DeliverOld \/ Clear \/ Persist \/ ServiceRestarts \/ DaemonRestarts
      \/ UNCHANGED daemon
  BY DEF Next, CompanionStep, DaemonStep, Restart, InventoryChanges, ServerResponds,
         ResponseFreed, Capture, NativeRead, Accept, Native, PublishOutcome,
         RetainOutbound, Connect, Send, Disconnect, CompanionCrashes, CompanionReloads,
         DecoderRestarts, DropOld, DaemonCloses, vars
<1> QED
  BY <1>1, <1>2, <1>3, <1>4, <1>5, <1>6

\* What clients are shown and what the cache file holds is always one full
\* inventory, or the last native read that was made on top of it.
THEOREM EffectiveInventoryCorrect == Spec => []EffectiveInventory
<1>1. Init => EffectiveInventory
  BY DEF Init, EffectiveInventory, Consistent, NoSources
<1> QED
  BY <1>1, NextEffective, TypeCorrect, PTL DEF Spec

\* No frame, on whatever connection and however late, takes the daemon back to
\* an older observation.
THEOREM NeverBack == Spec => NoRegression
<1>1. TypeOK /\ EffectiveInventory /\ [Next]_vars
        => [Deliver \/ DeliverOld => NeverOlder(store, store')]_vars
  <2> SUFFICES ASSUME TypeOK, EffectiveInventory, Deliver \/ DeliverOld
               PROVE  NeverOlder(store, store')
    OBVIOUS
  <2>1. CASE Deliver
    <3>1. Head(wire) \in Message
      BY <2>1 DEF TypeOK, Deliver
    <3> QED
      BY <2>1, <3>1, PublishKeeps DEF TypeOK, EffectiveInventory, Deliver
  <2>2. CASE DeliverOld
    <3>1. Head(oldWire) \in Message
      BY <2>2 DEF TypeOK, DeliverOld
    <3> QED
      BY <2>2, <3>1, PublishKeeps DEF TypeOK, EffectiveInventory, DeliverOld
  <2> QED
    BY <2>1, <2>2
<1> QED
  BY <1>1, TypeCorrect, EffectiveInventoryCorrect, PTL DEF Spec, NoRegression

-----------------------------------------------------------------------------
(* The queues of the companion *)

\* At most one observation of each kind waits in a queue.
OnePerKind(q) ==
  \A i, j \in DOMAIN q : q[i].kind \in Snapshot /\ q[i].kind = q[j].kind => i = j

\* Observations of a queue are no newer than the last one of the decoder.
NoneAhead(q, n, last) ==
  \A i \in DOMAIN q :
    q[i].kind \in Snapshot
      => q[i].stream < n \/ (q[i].stream = n /\ q[i].seq <= last)

Ordered(q) ==
  \A i, j \in DOMAIN q :
    i < j /\ q[i].kind \in Snapshot /\ q[j].kind \in Snapshot => Newer(q[j], q[i])

\* The observation m is the one of its kind in the outbox, or the last sent.
HeldBy(m, q, l) ==
  IF \E i \in DOMAIN q : q[i].kind = m.kind
  THEN \A i \in DOMAIN q : q[i].kind = m.kind => q[i] = m
  ELSE l[m.kind] = m

\* Coalescing drops at most the message of the same kind, and keeps the order
\* of the others.
LEMMA EnqueueShape ==
  ASSUME NEW q \in Seq(Message), NEW m \in Message, m.kind \in Snapshot, OnePerKind(q)
  PROVE  \E r \in Seq(Message) : \E e \in [DOMAIN r -> DOMAIN q] :
           /\ Enqueue(q, m) = Append(r, m)
           /\ \A i \in DOMAIN r : r[i] = q[e[i]] /\ q[e[i]].kind # m.kind
           /\ \A i, j \in DOMAIN r : i < j => e[i] < e[j]
           /\ \A j \in DOMAIN q : q[j].kind # m.kind => \E i \in DOMAIN r : e[i] = j
<1>1. CASE \E i \in DOMAIN q : q[i].kind = m.kind
  <2> DEFINE at == CHOOSE i \in DOMAIN q : q[i].kind = m.kind
             before == SubSeq(q, 1, at - 1)
             after == SubSeq(q, at + 1, Len(q))
             r == RemoveAt(q, at)
             e == [i \in 1..Len(q) - 1 |-> IF i < at THEN i ELSE i + 1]
  <2>1. at \in 1..Len(q) /\ q[at].kind = m.kind
    BY <1>1
  <2>2. Enqueue(q, m) = Append(r, m)
    BY <1>1 DEF Enqueue
  <2> HIDE DEF at
  <2>3. /\ before \in Seq(Message) /\ Len(before) = at - 1
        /\ \A i \in 1..at - 1 : before[i] = q[i]
    <3>1. 1 \in Int /\ at - 1 \in Int /\ \A i \in 1 .. at - 1 : q[i] \in Message
      BY <2>1
    <3> QED
      BY <2>1, <3>1, SubSeqProperties
  <2>4. /\ after \in Seq(Message) /\ Len(after) = Len(q) - at
        /\ \A i \in 1..Len(q) - at : after[i] = q[at + i]
    <3>1. at + 1 \in Int /\ Len(q) \in Int /\ \A i \in at + 1 .. Len(q) : q[i] \in Message
      BY <2>1
    <3> QED
      BY <2>1, <3>1, SubSeqProperties
  <2>5. /\ r \in Seq(Message)
        /\ Len(r) = Len(q) - 1
        /\ \A i \in 1..Len(q) - 1 : r[i] = q[e[i]]
    <3>1. r = before \o after
      BY DEF RemoveAt
    <3> HIDE DEF before, after, r
    <3>2. /\ r \in Seq(Message) /\ Len(r) = Len(before) + Len(after)
          /\ \A i \in 1..Len(r) :
               r[i] = IF i <= Len(before) THEN before[i] ELSE after[i - Len(before)]
      <4> HIDE DEF e
      <4>1. /\ before \o after \in Seq(Message)
            /\ Len(before \o after) = Len(before) + Len(after)
            /\ \A i \in 1..Len(before) + Len(after) :
                 (before \o after)[i] = IF i <= Len(before) THEN before[i]
                                        ELSE after[i - Len(before)]
        BY <2>3, <2>4, ConcatProperties
      <4> QED
        BY <3>1, <4>1
    <3>3. Len(r) = Len(q) - 1
      BY <2>1, <2>3, <2>4, <3>2
    <3>4. ASSUME NEW i \in 1..Len(q) - 1
          PROVE  r[i] = q[e[i]]
      <4>1. CASE i < at
        BY <2>1, <2>3, <3>2, <3>3, <4>1
      <4>2. CASE i >= at
        <5>1. /\ i - (at - 1) \in 1..Len(q) - at
              /\ at + (i - (at - 1)) = i + 1
          BY <2>1, <4>2
        <5>2. r[i] = after[i - (at - 1)]
          BY <2>1, <2>3, <3>2, <3>3, <4>2
        <5> QED
          BY <2>1, <2>4, <4>2, <5>1, <5>2
      <4> QED
        BY <2>1, <4>1, <4>2
    <3> QED
      BY <3>2, <3>3, <3>4
  <2> HIDE DEF r
  <2>6. DOMAIN r = 1..Len(q) - 1 /\ e \in [DOMAIN r -> DOMAIN q]
    BY <2>1, <2>5
  <2>7. \A i \in DOMAIN r : r[i] = q[e[i]] /\ q[e[i]].kind # m.kind
    BY <2>1, <2>5, <2>6, SMTT(30) DEF OnePerKind
  <2>8. \A i, j \in DOMAIN r : i < j => e[i] < e[j]
    BY <2>1, <2>6
  <2>9. ASSUME NEW j \in DOMAIN q, q[j].kind # m.kind
        PROVE  \E i \in DOMAIN r : e[i] = j
    <3>1. CASE j < at
      BY <2>1, <2>6, <2>9, <3>1
    <3>2. CASE j > at
      <4>1. j - 1 \in DOMAIN r /\ e[j - 1] = j
        BY <2>1, <2>6, <2>9, <3>2
      <4> QED
        BY <4>1
    <3>3. j # at /\ j \in Int /\ at \in Int
      BY <2>1, <2>9
    <3> QED
      BY <3>1, <3>2, <3>3
  <2> HIDE DEF e
  <2> QED
    BY <2>2, <2>5, <2>6, <2>7, <2>8, <2>9
<1>2. CASE ~ \E i \in DOMAIN q : q[i].kind = m.kind
  <2> DEFINE e == [i \in DOMAIN q |-> i]
  <2>1. Enqueue(q, m) = Append(q, m)
    BY <1>2 DEF Enqueue
  <2>2. e \in [DOMAIN q -> DOMAIN q] /\ \A i \in DOMAIN q : e[i] = i
    OBVIOUS
  <2> HIDE DEF e
  <2> QED
    BY <1>2, <2>1, <2>2
<1> QED
  BY <1>1, <1>2

\* A new observation of the decoder, coalesced into its outbox, keeps the outbox
\* ordered and without doubles; it is held there, and what was held stays so.
LEMMA EnqueueKeeps ==
  ASSUME NEW q \in Seq(Message), NEW m \in Observation, OnePerKind(q), Ordered(q),
         m.stream \in Int, m.seq \in Int,
         NEW last \in Int, NoneAhead(q, m.stream, last), m.seq = last + 1,
         \A i \in DOMAIN q : q[i].kind \in Snapshot => q[i].stream \in Int /\ q[i].seq \in Int,
         NEW l
  PROVE  /\ OnePerKind(Enqueue(q, m)) /\ Ordered(Enqueue(q, m))
         /\ NoneAhead(Enqueue(q, m), m.stream, m.seq)
         /\ HeldBy(m, Enqueue(q, m), l)
         /\ \A b \in Observation :
              b.kind # m.kind /\ HeldBy(b, q, l) => HeldBy(b, Enqueue(q, m), l)
<1>1. m \in Message /\ m.kind \in Snapshot /\ m # None
  BY InventoryAssumption DEF Message, Snapshot, Observation
<1>a. PICK r \in Seq(Message) : \E e \in [DOMAIN r -> DOMAIN q] :
           /\ Enqueue(q, m) = Append(r, m)
           /\ \A i \in DOMAIN r : r[i] = q[e[i]] /\ q[e[i]].kind # m.kind
           /\ \A i, j \in DOMAIN r : i < j => e[i] < e[j]
           /\ \A j \in DOMAIN q : q[j].kind # m.kind => \E i \in DOMAIN r : e[i] = j
  BY <1>1, EnqueueShape, ZenonT(60)
<1>2. PICK e \in [DOMAIN r -> DOMAIN q] :
           /\ Enqueue(q, m) = Append(r, m)
           /\ \A i \in DOMAIN r : r[i] = q[e[i]] /\ q[e[i]].kind # m.kind
           /\ \A i, j \in DOMAIN r : i < j => e[i] < e[j]
           /\ \A j \in DOMAIN q : q[j].kind # m.kind => \E i \in DOMAIN r : e[i] = j
  BY <1>a
<1> DEFINE w == Append(r, m)
<1>3. /\ DOMAIN r = 1..Len(r) /\ Len(r) \in Nat /\ DOMAIN w = 1..Len(r) + 1
      /\ w[Len(r) + 1] = m /\ \A i \in DOMAIN r : w[i] = r[i]
  BY <1>1
<1> HIDE DEF w
<1>4. \A i \in DOMAIN w :
        \/ i = Len(r) + 1 /\ w[i] = m
        \/ i \in DOMAIN r /\ w[i] = q[e[i]] /\ e[i] \in DOMAIN q /\ w[i].kind # m.kind
  <2> SUFFICES ASSUME NEW i \in DOMAIN w, i # Len(r) + 1
               PROVE  i \in DOMAIN r /\ w[i] = q[e[i]] /\ e[i] \in DOMAIN q /\ w[i].kind # m.kind
    BY <1>3
  <2>1. i \in DOMAIN r
    BY <1>3
  <2> QED
    BY <1>2, <1>3, <2>1
<1>5. OnePerKind(w)
  <2> SUFFICES ASSUME NEW i \in DOMAIN w, NEW j \in DOMAIN w,
                      w[i].kind \in Snapshot, w[i].kind = w[j].kind
               PROVE  i = j
    BY DEF OnePerKind
  <2>1. CASE w[i].kind = m.kind
    BY <1>4, <2>1
  <2>2. CASE w[i].kind # m.kind
    <3>1. i \in DOMAIN r /\ j \in DOMAIN r /\ e[i] = e[j]
      BY <1>4, <2>2 DEF OnePerKind
    <3>2. ~(i < j) /\ ~(j < i)
      <4> HIDE <1>3
      <4>1. i < j => e[i] < e[j]
        BY <1>2, <3>1
      <4>2. j < i => e[j] < e[i]
        BY <1>2, <3>1
      <4>3. e[i] \in Int /\ e[j] \in Int
        BY <3>1
      <4> QED
        BY <3>1, <4>1, <4>2, <4>3
    <3> QED
      BY <1>3, <3>1, <3>2
  <2> QED
    BY <2>1, <2>2
<1>6. NoneAhead(w, m.stream, m.seq)
  <2> SUFFICES ASSUME NEW i \in DOMAIN w, w[i].kind \in Snapshot
               PROVE  w[i].stream < m.stream \/ (w[i].stream = m.stream /\ w[i].seq <= m.seq)
    BY DEF NoneAhead
  <2>1. CASE w[i] = m
    BY <2>1
  <2>2. CASE w[i] = q[e[i]] /\ e[i] \in DOMAIN q
    BY <2>2 DEF NoneAhead
  <2> QED
    BY <1>4, <2>1, <2>2
<1>7. Ordered(w)
  <2> SUFFICES ASSUME NEW i \in DOMAIN w, NEW j \in DOMAIN w, i < j,
                      w[i].kind \in Snapshot, w[j].kind \in Snapshot
               PROVE  Newer(w[j], w[i])
    BY DEF Ordered
  <2>1. i \in DOMAIN r /\ w[i] = q[e[i]] /\ e[i] \in DOMAIN q
    BY <1>3, <1>4
  <2>2. CASE j = Len(r) + 1
    <3>1. w[i].stream < m.stream \/ (w[i].stream = m.stream /\ w[i].seq <= last)
      BY <2>1 DEF NoneAhead
    <3> QED
      BY <1>4, <2>1, <2>2, <3>1, <1>3 DEF Newer
  <2>3. CASE j \in DOMAIN r
    <3>1. e[i] < e[j] /\ w[j] = q[e[j]] /\ e[j] \in DOMAIN q
      BY <1>2, <1>3, <2>1, <2>3
    <3> QED
      BY <2>1, <3>1 DEF Ordered
  <2> QED
    BY <1>3, <2>2, <2>3
<1>8. HeldBy(m, w, l)
  BY <1>3, <1>4, SMTT(30) DEF HeldBy
<1>9. ASSUME NEW b \in Observation, b.kind # m.kind, HeldBy(b, q, l)
      PROVE  HeldBy(b, w, l)
  <2>1. CASE \E j \in DOMAIN q : q[j].kind = b.kind
    <3>1. \A j \in DOMAIN q : q[j].kind = b.kind => q[j] = b
      BY <1>9, <2>1 DEF HeldBy
    <3>2. \E i \in DOMAIN w : w[i].kind = b.kind
      BY <1>2, <1>3, <1>9, <2>1
    <3>3. \A i \in DOMAIN w : w[i].kind = b.kind => w[i] = b
      BY <1>4, <1>9, <3>1
    <3> QED
      BY <3>2, <3>3 DEF HeldBy
  <2>2. CASE ~ \E j \in DOMAIN q : q[j].kind = b.kind
    <3>1. ~ \E i \in DOMAIN w : w[i].kind = b.kind
      BY <1>4, <1>9, <2>2
    <3> QED
      BY <1>9, <2>2, <3>1 DEF HeldBy
  <2> QED
    BY <2>1, <2>2
<1> QED
  BY <1>2, <1>5, <1>6, <1>7, <1>8, <1>9 DEF w

\* Taking the first message, an observation being remembered as the last of its
\* kind, loses nothing.
LEMMA TailKeeps ==
  ASSUME NEW q \in Seq(Message), q # << >>, NEW n, NEW last,
         OnePerKind(q), Ordered(q), NoneAhead(q, n, last), NEW l, NEW t,
         \A k \in Snapshot : t[k] = IF Head(q).kind = k THEN Head(q) ELSE l[k]
  PROVE  /\ OnePerKind(Tail(q)) /\ Ordered(Tail(q)) /\ NoneAhead(Tail(q), n, last)
         /\ \A b \in Observation : HeldBy(b, q, l) => HeldBy(b, Tail(q), t)
<1> DEFINE r == Tail(q)
<1>1. /\ DOMAIN q = 1..Len(q) /\ Len(q) \in Nat \ {0} /\ DOMAIN r = 1..Len(q) - 1
      /\ \A i \in DOMAIN r : i + 1 \in DOMAIN q /\ r[i] = q[i + 1]
      /\ Head(q) = q[1] /\ 1 \in DOMAIN q
  OBVIOUS
<1>2. \A j \in DOMAIN q : j # 1 => j - 1 \in DOMAIN r /\ r[j - 1] = q[j]
  BY <1>1
<1> HIDE DEF r
<1>3. OnePerKind(r)
  <2> SUFFICES ASSUME NEW i \in DOMAIN r, NEW j \in DOMAIN r,
                      r[i].kind \in Snapshot, r[i].kind = r[j].kind
               PROVE  i = j
    BY DEF OnePerKind
  <2>1. i + 1 = j + 1
    BY <1>1 DEF OnePerKind
  <2> QED
    BY <1>1, <2>1
<1>4. Ordered(r)
  <2> SUFFICES ASSUME NEW i \in DOMAIN r, NEW j \in DOMAIN r, i < j,
                      r[i].kind \in Snapshot, r[j].kind \in Snapshot
               PROVE  Newer(r[j], r[i])
    BY DEF Ordered
  <2>1. i + 1 < j + 1
    BY <1>1
  <2> QED
    BY <1>1, <2>1 DEF Ordered
<1>5. NoneAhead(r, n, last)
  BY <1>1 DEF NoneAhead
<1>6. ASSUME NEW b \in Observation, HeldBy(b, q, l)
      PROVE  HeldBy(b, r, t)
  <2>1. b.kind \in Snapshot
    BY DEF Observation, Snapshot
  <2>2. CASE q[1].kind = b.kind
    <3>1. q[1] = b
      BY <1>1, <1>6, <2>2 DEF HeldBy
    <3>2. ~ \E i \in DOMAIN r : r[i].kind = b.kind
      <4> SUFFICES ASSUME NEW i \in DOMAIN r, r[i].kind = b.kind
                   PROVE  FALSE
        OBVIOUS
      <4>1. i + 1 = 1
        BY <1>1, <2>1, <2>2 DEF OnePerKind
      <4> QED
        BY <1>1, <4>1
    <3> QED
      BY <1>1, <2>1, <3>1, <3>2 DEF HeldBy
  <2>3. CASE q[1].kind # b.kind
    <3>1. t[b.kind] = l[b.kind]
      BY <1>1, <2>1, <2>3
    <3>2. CASE \E i \in DOMAIN q : q[i].kind = b.kind
      <4>1. \E i \in DOMAIN r : r[i].kind = b.kind
        BY <1>2, <2>3, <3>2
      <4>2. \A i \in DOMAIN r : r[i].kind = b.kind => r[i] = b
        BY <1>1, <1>6, <3>2 DEF HeldBy
      <4> QED
        BY <4>1, <4>2 DEF HeldBy
    <3>3. CASE ~ \E i \in DOMAIN q : q[i].kind = b.kind
      <4>1. ~ \E i \in DOMAIN r : r[i].kind = b.kind
        BY <1>1, <3>3
      <4> QED
        BY <1>6, <3>1, <3>3, <4>1 DEF HeldBy
    <3> QED
      BY <3>2, <3>3
  <2> QED
    BY <2>2, <2>3
<1> QED
  BY <1>3, <1>4, <1>5, <1>6 DEF r

\* An outcome changes nothing for the observations.
LEMMA OutcomeKeeps ==
  ASSUME NEW q \in Seq(Message), NEW m \in Message, m.kind = "outcome", NEW n, NEW last,
         OnePerKind(q), Ordered(q), NoneAhead(q, n, last), NEW l
  PROVE  /\ OnePerKind(Append(q, m)) /\ Ordered(Append(q, m)) /\ NoneAhead(Append(q, m), n, last)
         /\ \A b \in Observation : HeldBy(b, q, l) => HeldBy(b, Append(q, m), l)
<1> DEFINE r == Append(q, m)
<1>1. /\ \A i \in DOMAIN q : i \in DOMAIN r /\ r[i] = q[i]
      /\ \A i \in DOMAIN r : i \in DOMAIN q \/ r[i] = m
  OBVIOUS
<1>2. m.kind \notin Snapshot
  BY DEF Snapshot
<1> HIDE DEF r
<1>3. OnePerKind(r)
  BY <1>1, <1>2 DEF OnePerKind
<1>4. Ordered(r)
  BY <1>1, <1>2 DEF Ordered
<1>5. NoneAhead(r, n, last)
  BY <1>1, <1>2 DEF NoneAhead
<1>6. ASSUME NEW b \in Observation, HeldBy(b, q, l)
      PROVE  HeldBy(b, r, l)
  <2>1. b.kind # m.kind
    BY <1>2 DEF Observation, Snapshot
  <2> QED
    BY <1>1, <1>6, <2>1 DEF HeldBy
<1> QED
  BY <1>3, <1>4, <1>5, <1>6 DEF r

LEMMA RetainOne ==
  ASSUME NEW l, NEW m, NEW k \in Kind
  PROVE  Retain(l, <<m>>)[k] = IF m.kind = k THEN m ELSE l[k]
<1>1. DOMAIN <<m>> = {1} /\ <<m>>[1] = m
  OBVIOUS
<1>2. \A i \in {1} : IsLast(<<m>>, k, i) <=> m.kind = k
  BY <1>1 DEF IsLast
<1> QED
  BY <1>1, <1>2 DEF Retain

\* Retaining what is the last of its kind already changes no observation.
LEMMA RetainSame ==
  ASSUME NEW l, NEW q \in Seq(Message),
         \A i \in DOMAIN q : q[i].kind \in Snapshot => l[q[i].kind] = q[i],
         NEW k \in Snapshot
  PROVE  Retain(l, q)[k] = l[k]
<1>1. k \in Kind
  BY DEF Snapshot, Kind
<1>2. CASE \E i \in DOMAIN q : IsLast(q, k, i)
  <2> DEFINE i == CHOOSE i \in DOMAIN q : IsLast(q, k, i)
  <2>1. i \in DOMAIN q /\ q[i].kind = k
    BY <1>2 DEF IsLast
  <2> QED
    BY <1>1, <1>2, <2>1 DEF Retain
<1>3. CASE ~ \E i \in DOMAIN q : IsLast(q, k, i)
  BY <1>1, <1>3 DEF Retain
<1> QED
  BY <1>2, <1>3

LEMMA RetainKind ==
  ASSUME NEW l, NEW q, NEW k \in Kind, l[k] # None => l[k].kind = k
  PROVE  Retain(l, q)[k] # None => Retain(l, q)[k].kind = k
<1>1. CASE \E i \in DOMAIN q : IsLast(q, k, i)
  <2> DEFINE i == CHOOSE i \in DOMAIN q : IsLast(q, k, i)
  <2>1. i \in DOMAIN q /\ q[i].kind = k
    BY <1>1 DEF IsLast
  <2> QED
    BY <1>1, <2>1 DEF Retain
<1>2. CASE ~ \E i \in DOMAIN q : IsLast(q, k, i)
  BY <1>2 DEF Retain
<1> QED
  BY <1>1, <1>2

\* What waits when the companion reloads is remembered as the last of its kind.
LEMMA RetainAll ==
  ASSUME NEW l, NEW p \in Seq(Message), NEW q \in Seq(Message), OnePerKind(q),
         \A i \in DOMAIN p : p[i].kind \in Snapshot => l[p[i].kind] = p[i],
         NEW b \in Observation, HeldBy(b, q, l)
  PROVE  Retain(l, p \o q)[b.kind] = b
<1> DEFINE r == p \o q
           k == b.kind
<1>1. k \in Snapshot /\ k \in Kind
  BY DEF Observation, Snapshot, Kind
<1>2. /\ Len(p) \in Nat /\ DOMAIN p = 1..Len(p) /\ Len(q) \in Nat /\ DOMAIN q = 1..Len(q)
      /\ DOMAIN r = 1..Len(p) + Len(q)
      /\ \A i \in DOMAIN p : i \in DOMAIN r /\ r[i] = p[i]
      /\ \A i \in DOMAIN q : Len(p) + i \in DOMAIN r /\ r[Len(p) + i] = q[i]
      /\ \A i \in DOMAIN r : i \in DOMAIN p \/ (i - Len(p) \in DOMAIN q /\ r[i] = q[i - Len(p)])
  <2>1. /\ r \in Seq(Message) /\ Len(r) = Len(p) + Len(q)
        /\ \A i \in 1..Len(p) + Len(q) : r[i] = IF i <= Len(p) THEN p[i] ELSE q[i - Len(p)]
    BY ConcatProperties
  <2> HIDE DEF r
  <2> QED
    BY <2>1
<1> SUFFICES Retain(l, r)[k] = b
  OBVIOUS
<1> HIDE DEF r
<1> HIDE DEF k
<1>3. CASE \E j \in DOMAIN q : q[j].kind = k
  <2>1. PICK j \in DOMAIN q : q[j].kind = k
    BY <1>3
  <2>2. q[j] = b
    BY <2>1 DEF HeldBy, k
  <2>3. ASSUME NEW i \in DOMAIN r, r[i].kind = k PROVE i <= Len(p) + j
    <3>1. CASE i \in DOMAIN p
      BY <1>2, <2>1, <3>1
    <3>2. CASE i - Len(p) \in DOMAIN q /\ r[i] = q[i - Len(p)]
      <4>1. i - Len(p) = j
        BY <1>1, <2>1, <2>3, <3>2 DEF OnePerKind
      <4> QED
        BY <1>2, <4>1
    <3> QED
      BY <1>2, <3>1, <3>2
  <2>4. Len(p) + j \in DOMAIN r /\ r[Len(p) + j] = b
    BY <1>2, <2>1, <2>2
  <2>5. IsLast(r, k, Len(p) + j)
    BY <2>3, <2>4 DEF IsLast, k
  <2>6. \A i \in DOMAIN r : IsLast(r, k, i) => i = Len(p) + j
    <3> SUFFICES ASSUME NEW i \in DOMAIN r, IsLast(r, k, i)
                 PROVE  i = Len(p) + j
      OBVIOUS
    <3>1. i <= Len(p) + j
      BY <2>3 DEF IsLast
    <3>2. Len(p) + j <= i
      BY <2>4 DEF IsLast, k
    <3> QED
      BY <1>2, <2>1, <3>1, <3>2
  <2> QED
    BY <1>1, <2>4, <2>5, <2>6 DEF Retain
<1>4. CASE ~ \E j \in DOMAIN q : q[j].kind = k
  <2>1. l[k] = b
    BY <1>4 DEF HeldBy, k
  <2>2. \A i \in DOMAIN r : r[i].kind = k => r[i] = b
    BY <1>1, <1>2, <1>4, <2>1
  <2>3. CASE \E i \in DOMAIN r : IsLast(r, k, i)
    <3> DEFINE i == CHOOSE i \in DOMAIN r : IsLast(r, k, i)
    <3>1. i \in DOMAIN r /\ r[i].kind = k
      BY <2>3 DEF IsLast
    <3> QED
      BY <1>1, <2>2, <2>3, <3>1 DEF Retain
  <2>4. CASE ~ \E i \in DOMAIN r : IsLast(r, k, i)
    BY <1>1, <2>1, <2>4 DEF Retain
  <2> QED
    BY <2>3, <2>4
<1> QED
  BY <1>3, <1>4

-----------------------------------------------------------------------------
(* The companion loses no observation *)

OutboxInv ==
  OnePerKind(outbox) /\ Ordered(outbox) /\ NoneAhead(outbox, stream, seq)

LatestInv ==
  /\ \A k \in Kind : latest[k] # None => latest[k].kind = k
  /\ conn = "down" => replay = << >>
  /\ \A i \in DOMAIN replay : replay[i].kind \in Snapshot => latest[replay[i].kind] = replay[i]
  /\ \A i \in DOMAIN queued : queued[i].kind = "outcome"

HeldInv ==
  /\ baseline # None => baseline.kind = "http" /\ HeldBy(baseline, outbox, latest)
  /\ lastNative # None => lastNative.kind = "native" /\ HeldBy(lastNative, outbox, latest)

\* Outbox, replay and decoder agree: the observations of the outbox are the newest,
\* those that are repeated are the last sent, and the last observation of the
\* decoder is one or the other.
SyncInv == OutboxInv /\ LatestInv /\ HeldInv

LEMMA InitSync == Init => SyncInv
BY DEF Init, SyncInv, OutboxInv, LatestInv, HeldInv, OnePerKind, Ordered, NoneAhead

LEMMA NewStreamKeeps ==
  ASSUME TypeOK, SyncInv, NewStream
  PROVE  HeldInv' /\ (outbox' = outbox => OutboxInv')
<1>1. stream \in Int /\ stream' = stream + 1 /\ seq' = 0
  BY DEF TypeOK, NewStream
<1>2. \A i \in DOMAIN outbox : outbox[i].kind \in Snapshot => outbox[i].stream < stream + 1
  <2> SUFFICES ASSUME NEW i \in DOMAIN outbox, outbox[i].kind \in Snapshot
               PROVE  outbox[i].stream < stream + 1
    OBVIOUS
  <2>1. outbox[i] \in Observation
    BY SnapshotIsObservation DEF TypeOK
  <2>2. outbox[i].stream \in Int
    BY <2>1 DEF Observation
  <2>3. outbox[i].stream <= stream
    BY <1>1, <2>2 DEF SyncInv, OutboxInv, NoneAhead
  <2> QED
    BY <1>1, <2>2, <2>3
<1>3. HeldInv'
  BY DEF NewStream, HeldInv
<1>4. ASSUME outbox' = outbox PROVE OutboxInv'
  BY <1>1, <1>2, <1>4 DEF SyncInv, OutboxInv, NoneAhead
<1> QED
  BY <1>3, <1>4

\* The end of a session changes no observation that is remembered.
LEMMA EndSessionKeeps ==
  ASSUME TypeOK, SyncInv, EndSession,
         UNCHANGED <<baseline, lastNative, outbox, stream, seq, queued>>
  PROVE  SyncInv'
<1>1. \A k \in Snapshot : latest'[k] = latest[k]
  <2>1. replay \in Seq(Message)
    BY DEF TypeOK
  <2>2. \A i \in DOMAIN replay :
          replay[i].kind \in Snapshot => latest[replay[i].kind] = replay[i]
    BY DEF SyncInv, LatestInv
  <2>3. latest' = Retain(latest, replay)
    BY DEF EndSession
  <2> QED
    BY <2>1, <2>2, <2>3, RetainSame
<1>2. \A k \in Kind : latest'[k] # None => latest'[k].kind = k
  <2>1. \A k \in Kind : latest[k] # None => latest[k].kind = k
    BY DEF SyncInv, LatestInv
  <2>2. latest' = Retain(latest, replay)
    BY DEF EndSession
  <2> QED
    BY <2>1, <2>2, RetainKind
<1>3. LatestInv'
  BY <1>2 DEF SyncInv, LatestInv, EndSession
<1>4. HeldInv'
  BY <1>1 DEF SyncInv, HeldInv, HeldBy, Snapshot
<1>5. OutboxInv'
  BY DEF SyncInv, OutboxInv
<1> QED
  BY <1>3, <1>4, <1>5 DEF SyncInv

\* A new observation of the decoder.
LEMMA PublishKeepsSync ==
  ASSUME TypeOK, TypeOK', SyncInv, NEW m \in Observation,
         m.stream = stream, m.seq = seq + 1, seq' = seq + 1, outbox' = Enqueue(outbox, m),
         UNCHANGED <<stream, latest>>
  PROVE  /\ OutboxInv' /\ HeldBy(m, outbox', latest')
         /\ \A b \in Observation :
              b.kind # m.kind /\ HeldBy(b, outbox, latest) => HeldBy(b, outbox', latest')
<1>1. stream \in Int /\ seq \in Int
  BY DEF TypeOK
<1>0. outbox \in Seq(Message)
  BY DEF TypeOK
<1>2. \A i \in DOMAIN outbox : outbox[i].kind \in Snapshot
        => outbox[i].stream \in Int /\ outbox[i].seq \in Int
  <2> SUFFICES ASSUME NEW i \in DOMAIN outbox, outbox[i].kind \in Snapshot
               PROVE  outbox[i].stream \in Int /\ outbox[i].seq \in Int
    OBVIOUS
  <2>1. outbox[i] \in Observation
    BY <1>0, SnapshotIsObservation
  <2> QED
    BY <2>1 DEF Observation
<1>3. /\ OnePerKind(outbox) /\ Ordered(outbox) /\ NoneAhead(outbox, m.stream, seq)
      /\ m.stream \in Int /\ m.seq \in Int /\ m.seq = seq + 1
  BY <1>1 DEF SyncInv, OutboxInv
<1>4. /\ OnePerKind(Enqueue(outbox, m)) /\ Ordered(Enqueue(outbox, m))
      /\ NoneAhead(Enqueue(outbox, m), m.stream, m.seq)
      /\ HeldBy(m, Enqueue(outbox, m), latest)
      /\ \A b \in Observation :
           b.kind # m.kind /\ HeldBy(b, outbox, latest) => HeldBy(b, Enqueue(outbox, m), latest)
  BY <1>0, <1>1, <1>2, <1>3, EnqueueKeeps
<1> QED
  BY <1>4 DEF OutboxInv

\* Every step keeps the queues and the decoder in agreement.
LEMMA NextSync == TypeOK /\ TypeOK' /\ SyncInv /\ [Next]_vars => SyncInv'
<1> SUFFICES ASSUME TypeOK, TypeOK', SyncInv, [Next]_vars
             PROVE  SyncInv'
  OBVIOUS
<1>1. CASE UNCHANGED <<baseline, lastNative, stream, seq, outbox, latest, queued, replay>>
           /\ (conn' = conn \/ conn' # "down")
  BY <1>1 DEF SyncInv, OutboxInv, LatestInv, HeldInv
<1>2. CASE Accept
  <2>1. /\ baseline' \in Observation /\ baseline'.kind = "http"
        /\ baseline'.stream = stream /\ baseline'.seq = seq + 1
        /\ seq' = seq + 1 /\ outbox' = Enqueue(outbox, baseline') /\ lastNative' = None
        /\ UNCHANGED <<stream, latest, queued, replay, conn>>
    <3>1. /\ stream \in 1..MaxStream /\ seq + 1 \in 1..MaxSeq
          /\ sample.sync \in 0..MaxSync /\ sample.version \in 0..MaxVersion
      <4>1. sample \in Sample
        BY <1>2 DEF TypeOK, Accept
      <4>2. stream \in 1..MaxStream /\ seq \in 0..MaxSeq /\ seq < MaxSeq
        BY <1>2 DEF TypeOK, Accept
      <4> QED
        BY <4>1, <4>2, InventoryAssumption DEF Sample
    <3>2. baseline' = [kind |-> "http", stream |-> stream, seq |-> seq + 1, base |-> seq + 1,
                       at |-> sample.sync, sync |-> sample.sync, version |-> sample.version]
      BY <1>2 DEF Accept
    <3>3. baseline' \in Observation
      BY <3>1, <3>2 DEF Observation
    <3>4. /\ seq' = seq + 1 /\ outbox' = Enqueue(outbox, baseline') /\ lastNative' = None
          /\ UNCHANGED <<stream, latest, queued, replay, conn>>
      BY <1>2 DEF Accept, link
    <3> QED
      BY <3>2, <3>3, <3>4
  <2>2. OutboxInv' /\ HeldBy(baseline', outbox', latest')
    BY <2>1, PublishKeepsSync
  <2> QED
    BY <2>1, <2>2 DEF SyncInv, LatestInv, HeldInv
<1>3. CASE Native /\ Publishable(read)
  <2>1. /\ lastNative' \in Observation /\ lastNative'.kind = "native"
        /\ lastNative'.stream = stream /\ lastNative'.seq = seq + 1
        /\ seq' = seq + 1 /\ outbox' = Enqueue(outbox, lastNative')
        /\ UNCHANGED <<baseline, stream, latest, queued, replay, conn>>
    <3>0. baseline \in Observation /\ read \in Read
      BY <1>3 DEF TypeOK, Native, Publishable
    <3>1. /\ stream \in 1..MaxStream /\ seq + 1 \in 1..MaxSeq
          /\ baseline.seq \in 1..MaxSeq
          /\ read.at \in 0..MaxSync /\ read.sync \in 0..MaxSync
          /\ read.version \in 0..MaxVersion
      BY <1>3, <3>0 DEF TypeOK, Native, Observation, Read
    <3>2. lastNative' = [kind |-> "native", stream |-> stream, seq |-> seq + 1,
                         base |-> baseline.seq, at |-> read.at, sync |-> read.sync,
                         version |-> read.version]
      BY <1>3 DEF Native
    <3>3. lastNative' \in Observation
      BY <3>1, <3>2 DEF Observation
    <3>4. /\ seq' = seq + 1 /\ outbox' = Enqueue(outbox, lastNative')
          /\ UNCHANGED <<baseline, stream, latest, queued, replay, conn>>
      BY <1>3 DEF Native, link
    <3> QED
      BY <3>2, <3>3, <3>4
  <2>2. /\ OutboxInv' /\ HeldBy(lastNative', outbox', latest')
        /\ \A b \in Observation :
             b.kind # "native" /\ HeldBy(b, outbox, latest) => HeldBy(b, outbox', latest')
    BY <2>1, PublishKeepsSync
  <2>3. baseline # None => baseline \in Observation /\ baseline.kind # "native"
    BY DEF TypeOK, SyncInv, HeldInv
  <2> QED
    BY <2>1, <2>2, <2>3 DEF SyncInv, LatestInv, HeldInv
<1>4. ASSUME NEW o \in Outcome, PublishOutcome(o)
      PROVE  SyncInv'
  <2> DEFINE m == [kind |-> "outcome", id |-> o]
  <2>1. /\ m \in Message /\ m.kind = "outcome" /\ outbox' = Append(outbox, m)
        /\ UNCHANGED <<baseline, lastNative, stream, seq, latest, queued, replay, conn>>
    BY <1>4 DEF PublishOutcome, Message, companion, link
  <2>2. outbox \in Seq(Message)
    BY DEF TypeOK
  <2> HIDE DEF m
  <2>3. /\ OutboxInv'
        /\ \A b \in Observation : HeldBy(b, outbox, latest) => HeldBy(b, outbox', latest')
    BY <2>1, <2>2, OutcomeKeeps DEF SyncInv, OutboxInv
  <2> QED
    BY <2>1, <2>3 DEF TypeOK, SyncInv, LatestInv, HeldInv
<1>5. CASE RetainOutbound
  <2> DEFINE m == Head(outbox)
  <2>1. /\ outbox # << >> /\ outbox' = Tail(outbox) /\ replay = << >> /\ replay' = << >>
        /\ UNCHANGED <<baseline, lastNative, stream, seq, conn>>
    BY <1>5 DEF RetainOutbound, companion, SyncInv, LatestInv
  <2>2. outbox \in Seq(Message) /\ queued \in Seq(Message) /\ m \in Message
    BY <2>1, SMTT(30) DEF TypeOK
  <2>3. CASE m.kind \in Snapshot
    <3>1. latest' = Retain(latest, <<m>>) /\ queued' = queued
      BY <1>5, <2>3 DEF RetainOutbound
    <3>2. \A k \in Kind : latest'[k] = IF m.kind = k THEN m ELSE latest[k]
      BY <3>1, RetainOne
    <3>3. \A k \in Snapshot : latest'[k] = IF Head(outbox).kind = k THEN Head(outbox) ELSE latest[k]
      BY <3>2 DEF Snapshot, Kind
    <3>4. /\ OutboxInv'
          /\ \A b \in Observation : HeldBy(b, outbox, latest) => HeldBy(b, outbox', latest')
      BY <2>1, <2>2, <3>3, TailKeeps DEF SyncInv, OutboxInv
    <3>5. LatestInv'
      BY <2>1, <3>1, <3>2 DEF SyncInv, LatestInv
    <3> QED
      BY <2>1, <3>4, <3>5 DEF TypeOK, SyncInv, HeldInv
  <2>4. CASE m.kind \notin Snapshot
    <3>1. queued' = Append(queued, m) /\ latest' = latest
      BY <1>5, <2>4 DEF RetainOutbound
    <3>2. m.kind = "outcome"
      BY <2>2, <2>4 DEF Message, Snapshot, Observation
    <3>3. \A k \in Snapshot : latest'[k] = IF Head(outbox).kind = k THEN Head(outbox) ELSE latest[k]
      BY <2>4, <3>1
    <3>4. /\ OutboxInv'
          /\ \A b \in Observation : HeldBy(b, outbox, latest) => HeldBy(b, outbox', latest')
      BY <2>1, <2>2, <3>3, TailKeeps DEF SyncInv, OutboxInv
    <3>5. \A i \in DOMAIN queued' : queued'[i].kind = "outcome"
      BY <2>2, <3>1, <3>2 DEF SyncInv, LatestInv
    <3>6. LatestInv'
      BY <2>1, <3>1, <3>5 DEF SyncInv, LatestInv
    <3> QED
      BY <2>1, <3>4, <3>6 DEF TypeOK, SyncInv, HeldInv
  <2> QED
    BY <2>3, <2>4
<1>6. CASE Connect
  <2>1. /\ replay' = Replay \o queued /\ queued' = << >> /\ conn' = "up"
        /\ UNCHANGED <<baseline, lastNative, stream, seq, outbox, latest>>
    BY <1>6 DEF Connect, companion
  <2>2. \A i \in DOMAIN replay' : replay'[i].kind \in Snapshot => latest[replay'[i].kind] = replay'[i]
    <3>1. ASSUME NEW k \in Kind
          PROVE  /\ Repeated(k) \in Seq(Message)
                 /\ \A i \in DOMAIN Repeated(k) : latest[Repeated(k)[i].kind] = Repeated(k)[i]
      <4>1. CASE latest[k] = None
        BY <4>1 DEF Repeated
      <4>2. CASE latest[k] # None
        <5>1. latest[k] \in Message /\ latest[k].kind = k
          BY <3>1, <4>2 DEF TypeOK, SyncInv, LatestInv
        <5>2. Repeated(k) = <<latest[k]>>
          BY <4>2 DEF Repeated
        <5>3. DOMAIN Repeated(k) = {1} /\ Repeated(k)[1] = latest[k]
          BY <5>2
        <5>4. Repeated(k) \in Seq(Message)
          BY <5>1, <5>2
        <5> QED
          BY <5>1, <5>3, <5>4
      <4> QED
        BY <4>1, <4>2
    <3>2. "outcome" \in Kind /\ "http" \in Kind /\ "native" \in Kind
      BY DEF Kind
    <3>3. \A p \in Seq(Message), q \in Seq(Message) :
            /\ p \o q \in Seq(Message)
            /\ \A i \in DOMAIN (p \o q) :
                 (\E j \in DOMAIN p : (p \o q)[i] = p[j]) \/ (\E j \in DOMAIN q : (p \o q)[i] = q[j])
      <4> SUFFICES ASSUME NEW p \in Seq(Message), NEW q \in Seq(Message),
                          NEW i \in DOMAIN (p \o q)
                   PROVE  (\E j \in DOMAIN p : (p \o q)[i] = p[j]) \/ (\E j \in DOMAIN q : (p \o q)[i] = q[j])
        BY ConcatProperties
      <4>1. i \in 1..Len(p) + Len(q)
        BY ConcatProperties
      <4>2. CASE i <= Len(p)
        BY <4>1, <4>2, ConcatProperties
      <4>3. CASE i > Len(p)
        <5>1. i - Len(p) \in DOMAIN q
          BY <4>1, <4>3
        <5> QED
          BY <4>1, <4>3, <5>1, ConcatProperties
      <4> QED
        BY <4>1, <4>2, <4>3
    <3>4. /\ Repeated("outcome") \o Repeated("http") \in Seq(Message)
          /\ \A i \in DOMAIN (Repeated("outcome") \o Repeated("http")) :
               latest[(Repeated("outcome") \o Repeated("http"))[i].kind]
                 = (Repeated("outcome") \o Repeated("http"))[i]
      BY <3>1, <3>2, <3>3
    <3>5. Replay \in Seq(Message) /\ \A i \in DOMAIN Replay : latest[Replay[i].kind] = Replay[i]
      BY <3>1, <3>2, <3>3, <3>4 DEF Replay
    <3>6. queued \in Seq(Message) /\ \A i \in DOMAIN queued : queued[i].kind \notin Snapshot
      BY DEF TypeOK, SyncInv, LatestInv, Snapshot
    <3> QED
      BY <2>1, <3>3, <3>5, <3>6
  <2>3. LatestInv'
    BY <2>1, <2>2 DEF SyncInv, LatestInv
  <2> QED
    BY <2>1, <2>3 DEF SyncInv, OutboxInv, HeldInv
<1>7. CASE Send
  <2> DEFINE m == Head(replay \o outbox)
  <2>1. /\ replay \o outbox # << >> /\ conn # "down"
        /\ latest' = IF m.kind \in Snapshot THEN Retain(latest, <<m>>) ELSE latest
        /\ replay' = IF replay # << >> THEN Tail(replay) ELSE replay
        /\ outbox' = IF replay # << >> THEN outbox ELSE Tail(outbox)
        /\ UNCHANGED <<baseline, lastNative, stream, seq, queued, conn>>
    BY <1>7 DEF Send, companion
  <2>2. outbox \in Seq(Message) /\ replay \in Seq(Message)
    BY DEF TypeOK
  <2>3. \A k \in Snapshot : latest'[k] = IF m.kind = k THEN m ELSE latest[k]
    BY <2>1, RetainOne DEF Snapshot, Kind
  <2>4. \A k \in Kind : latest'[k] # None => latest'[k].kind = k
    BY <2>1, RetainOne DEF SyncInv, LatestInv
  <2>5. CASE replay # << >>
    <3>1. /\ m = replay[1] /\ 1 \in DOMAIN replay
          /\ \A i \in DOMAIN Tail(replay) : i + 1 \in DOMAIN replay /\ Tail(replay)[i] = replay[i + 1]
      BY <2>2, <2>5
    <3>2. \A k \in Snapshot : latest'[k] = latest[k]
      BY <2>3, <3>1 DEF SyncInv, LatestInv
    <3>3. LatestInv'
      <4>1. \A i \in DOMAIN replay' :
              replay'[i].kind \in Snapshot => latest'[replay'[i].kind] = replay'[i]
        BY <2>1, <2>5, <3>1, <3>2 DEF SyncInv, LatestInv
      <4> QED
        BY <2>1, <2>4, <4>1 DEF SyncInv, LatestInv
    <3> QED
      BY <2>1, <2>5, <3>2, <3>3 DEF SyncInv, OutboxInv, HeldInv, HeldBy, Snapshot
  <2>6. CASE replay = << >>
    <3>1. outbox # << >> /\ m = Head(outbox) /\ outbox' = Tail(outbox) /\ replay' = << >>
      BY <2>1, <2>2, <2>6
    <3>5. \A k \in Snapshot : latest'[k] = IF Head(outbox).kind = k THEN Head(outbox) ELSE latest[k]
      BY <2>3, <3>1
    <3>2. /\ OutboxInv'
          /\ \A b \in Observation : HeldBy(b, outbox, latest) => HeldBy(b, outbox', latest')
      <4> HIDE DEF m
      <4>1. OnePerKind(outbox) /\ Ordered(outbox) /\ NoneAhead(outbox, stream, seq)
        BY DEF SyncInv, OutboxInv
      <4>2. /\ OnePerKind(Tail(outbox)) /\ Ordered(Tail(outbox))
            /\ NoneAhead(Tail(outbox), stream, seq)
            /\ \A b \in Observation :
                 HeldBy(b, outbox, latest) => HeldBy(b, Tail(outbox), latest')
        BY <2>2, <3>1, <3>5, <4>1, TailKeeps
      <4> QED
        BY <2>1, <3>1, <4>2 DEF OutboxInv
    <3>3. LatestInv'
      BY <2>1, <2>4, <3>1 DEF SyncInv, LatestInv
    <3> QED
      BY <2>1, <3>2, <3>3 DEF TypeOK, SyncInv, HeldInv
  <2> QED
    BY <2>5, <2>6
<1>8. CASE EndSession /\ UNCHANGED <<baseline, lastNative, outbox, stream, seq, queued>>
  BY <1>8, EndSessionKeeps
<1>9. CASE CompanionCrashes
  <2>1. HeldInv'
    BY <1>9, NewStreamKeeps DEF CompanionCrashes
  <2> QED
    BY <1>9, <2>1 DEF CompanionCrashes, SyncInv, OutboxInv, LatestInv, OnePerKind, Ordered, NoneAhead
<1>10. CASE CompanionReloads
  <2>1. /\ outbox' = << >> /\ replay' = << >> /\ queued' = << >>
        /\ latest' = [Retain(latest, replay \o outbox) EXCEPT !["outcome"] = None]
        /\ baseline' = baseline /\ lastNative' = None
    BY <1>10 DEF CompanionReloads
  <2>2. OutboxInv'
    BY <2>1 DEF OutboxInv, OnePerKind, Ordered, NoneAhead
  <2>3. \A k \in Kind : latest'[k] # None => latest'[k].kind = k
    BY <2>1, RetainKind DEF SyncInv, LatestInv, Retain
  <2>4. LatestInv'
    BY <2>1, <2>3 DEF LatestInv
  <2>5. baseline # None => baseline \in Observation /\ latest'[baseline.kind] = baseline
    <3> SUFFICES ASSUME baseline # None
                 PROVE  baseline \in Observation /\ latest'[baseline.kind] = baseline
      OBVIOUS
    <3>1. baseline \in Observation /\ baseline.kind = "http" /\ HeldBy(baseline, outbox, latest)
      BY DEF TypeOK, SyncInv, HeldInv
    <3>2. Retain(latest, replay \o outbox)[baseline.kind] = baseline
      <4>1. replay \in Seq(Message) /\ outbox \in Seq(Message)
        BY DEF TypeOK
      <4>2. OnePerKind(outbox)
        BY DEF SyncInv, OutboxInv
      <4>3. \A i \in DOMAIN replay :
              replay[i].kind \in Snapshot => latest[replay[i].kind] = replay[i]
        BY DEF SyncInv, LatestInv
      <4> QED
        BY <3>1, <4>1, <4>2, <4>3, RetainAll
    <3> QED
      BY <2>1, <3>1, <3>2 DEF Retain, Kind
  <2>6. HeldInv'
    BY <2>1, <2>5 DEF SyncInv, HeldInv, HeldBy
  <2> QED
    BY <2>2, <2>4, <2>6 DEF SyncInv
<1>11. CASE DecoderRestarts
  BY <1>11, NewStreamKeeps DEF DecoderRestarts, SyncInv, LatestInv, link
<1>12. CASE Native /\ ~Publishable(read)
  BY <1>12 DEF Native, link, SyncInv, OutboxInv, LatestInv, HeldInv
<1>13. CASE \/ InventoryChanges \/ ServerResponds \/ ResponseFreed \/ Capture \/ NativeRead
            \/ Deliver \/ DeliverOld \/ DropOld \/ Persist \/ Clear \/ ServiceRestarts
            \/ UNCHANGED vars
  BY <1>1, <1>13 DEF InventoryChanges, ServerResponds, ResponseFreed, Capture, NativeRead,
     Deliver, DeliverOld, DropOld, Persist, Clear, ServiceRestarts, vars, companion, link
<1>14. CASE Disconnect \/ DaemonCloses \/ DaemonRestarts
  BY <1>8, <1>14 DEF Disconnect, DaemonCloses, DaemonRestarts, companion
<1> QED
  BY <1>2, <1>3, <1>4, <1>5, <1>6, <1>7, <1>9, <1>10, <1>11, <1>12, <1>13, <1>14
     DEF Next, CompanionStep, DaemonStep, Restart

LEMMA HeldBySomeone ==
  ASSUME NEW q \in Seq(Message), NEW b \in Observation, HeldBy(b, q, latest),
         latest \in [Kind -> Message \cup {None}]
  PROVE  b \in Range(q) \cup Range(latest)
<1>1. b.kind \in Kind
  BY DEF Observation, Kind
<1> QED
  BY <1>1 DEF HeldBy, Range

LEMMA SyncAlways == Spec => [](TypeOK /\ SyncInv)
<1>1. Init => SyncInv
  BY InitSync
<1>2. TypeOK /\ TypeOK' /\ SyncInv /\ [Next]_vars => SyncInv'
  BY NextSync
<1> QED
  BY <1>1, <1>2, TypeCorrect, PTL DEF Spec

\* An observation that the decoder takes for published is in the outbox or among
\* those that are repeated, through every disconnection, reload and restart.
THEOREM NothingLost == Spec => []PublishedIsHeld
<1>1. TypeOK /\ SyncInv => PublishedIsHeld
  BY HeldBySomeone DEF TypeOK, SyncInv, HeldInv, PublishedIsHeld, Held
<1> QED
  BY <1>1, SyncAlways, PTL

\* The outbox keeps the order of observation.
THEOREM AlwaysInOrder == Spec => []OutboxOrder
<1>1. SyncInv => OutboxOrder
  BY DEF SyncInv, OutboxInv, Ordered, OutboxOrder
<1> QED
  BY <1>1, SyncAlways, PTL

\* No observation is lost or overtaken on its way to the daemon.
THEOREM PublicationsAlwaysKept == Spec => []PublicationsKept
<1>1. PublishedIsHeld /\ OutboxOrder => PublicationsKept
  BY DEF PublicationsKept
<1> QED
  BY <1>1, NothingLost, AlwaysInOrder, PTL

=============================================================================
