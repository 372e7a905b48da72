----------------------------- MODULE IncidentLog -----------------------------
(***************************************************************************)
(* The incident log of wfcompanion (incident.rs): threads hand records to  *)
(* a bounded queue without ever waiting, one writer appends them to a      *)
(* file, and what found no room is counted and reported later.             *)
(*                                                                         *)
(* Two atomic counters and a channel are updated one after the other, and  *)
(* the writer ends when the last copy of the channel is gone.  The minute  *)
(* in which a record is not repeated is a choice; texts are 1, 2, ...      *)
(***************************************************************************)
EXTENDS EvidenceConstants, Naturals, Sequences, FiniteSets

VARIABLES active,      \* ACTIVE holds a producer
          thread,      \* per thread: where it is in send, with which record
          records,     \* per thread: the records so far
          lines,       \* the queue
          pendingInfo, \* the counters that are shared
          dropped,
          writer,      \* "receive", "handle", "report" or "done"
          held,        \* the record the writer has taken
          recent,      \* what it need not repeat
          kept,        \* what it has written
          fate         \* per level: how many records met which fate

logVars == <<active, thread, records, lines, pendingInfo, dropped, writer, held, recent, kept, fate>>

Levels == {"info", "warn"}
Texts  == {1, 2}
Record == [level : Levels, text : Texts]
NoRecord == [level |-> "warn", text |-> 0]
Outside  == [at |-> "outside", record |-> NoRecord]

Count(level, what) == fate' = [fate EXCEPT ![level][what] = @ + 1]
Drop(level) == dropped' = [dropped EXCEPT ![level] = @ + 1]

---------------------------------------------------------------------------
(* Producer::send                                                          *)

At(t, step) == thread' = [thread EXCEPT ![t].at = step]
Leaves(t) == thread' = [thread EXCEPT ![t] = Outside]

\* write: the producer is copied, if there is one.
Begins(t) ==
    /\ thread[t].at = "outside" /\ records[t] < MaxRecords /\ active
    /\ records' = [records EXCEPT ![t] = @ + 1]
    /\ \E r \in Record :
         /\ thread' = [thread EXCEPT ![t] = [at |-> IF r.level = "info" THEN "reserve" ELSE "offer",
                                             record |-> r]]
         /\ Count(r.level, "taken")
    /\ UNCHANGED <<active, lines, pendingInfo, dropped, writer, held, recent, kept>>

\* Information has a share of the queue and reserves a place of it first.
Reserves(t) ==
    /\ thread[t].at = "reserve"
    /\ IF pendingInfo < LogInfoItems
       THEN pendingInfo' = pendingInfo + 1 /\ At(t, "offer") /\ UNCHANGED dropped
       ELSE Drop("info") /\ Leaves(t) /\ UNCHANGED pendingInfo
    /\ UNCHANGED <<active, records, lines, writer, held, recent, kept, fate>>

\* try_send.
Offers(t) ==
    /\ thread[t].at = "offer"
    /\ IF Len(lines) < LogItems
       THEN lines' = Append(lines, thread[t].record) /\ Leaves(t)
       ELSE At(t, IF thread[t].record.level = "info" THEN "undo" ELSE "count") /\ UNCHANGED lines
    /\ UNCHANGED <<active, records, pendingInfo, dropped, writer, held, recent, kept, fate>>

ReservationKept(t) == pendingInfo' = pendingInfo
ReservationUndone(t) == pendingInfo' = pendingInfo - 1

Undoes(t) ==
    /\ thread[t].at = "undo" /\ At(t, "count")
    /\ ReservationUndone(t)
    /\ UNCHANGED <<active, records, lines, dropped, writer, held, recent, kept, fate>>

Counts(t) ==
    /\ thread[t].at = "count" /\ Leaves(t)
    /\ Drop(thread[t].record.level)
    /\ UNCHANGED <<active, records, lines, pendingInfo, writer, held, recent, kept, fate>>

---------------------------------------------------------------------------
(* The writer                                                              *)

\* Writer::drop; the join follows.
Stops ==
    /\ active /\ active' = FALSE
    /\ UNCHANGED <<thread, records, lines, pendingInfo, dropped, writer, held, recent, kept, fate>>

\* recv_timeout: a record, or a second without one.
Receives ==
    /\ writer = "receive"
    /\ IF lines = <<>>
       THEN writer' = "report" /\ UNCHANGED <<lines, held>>
       ELSE writer' = "handle" /\ held' = Head(lines) /\ lines' = Tail(lines)
    /\ UNCHANGED <<active, thread, records, pendingInfo, dropped, recent, kept, fate>>

\* Sink::write, with what it still remembers: a record is remembered once it is
\* in the file, in the place of one of the others if need be.
Written(r, remembered) ==
    IF r \in remembered
    THEN Count(r.level, "repeated") /\ recent' = remembered /\ UNCHANGED kept
    ELSE \/ Count(r.level, "failed") /\ recent' = remembered /\ UNCHANGED kept
         \/ /\ Count(r.level, "written") /\ kept' = kept \cup {r}
            /\ IF Cardinality(remembered) < RecentItems THEN recent' = remembered \cup {r}
               ELSE \E old \in remembered : recent' = (remembered \ {old}) \cup {r}

Handles ==
    /\ writer = "handle" /\ writer' = "report"
    /\ pendingInfo' = pendingInfo - (IF held.level = "info" THEN 1 ELSE 0)
    /\ \E remembered \in SUBSET recent : Written(held, remembered)
    /\ held' = NoRecord
    /\ UNCHANGED <<active, thread, records, lines, dropped>>

\* No copy of the channel is left, nor a record in it.
Disconnected == ~active /\ (\A t \in Threads : thread[t] = Outside) /\ lines = <<>>

\* What was dropped is told once a second, and in the end.
Reports ==
    /\ writer = "report"
    /\ \E done \in {FALSE, Disconnected} :
         /\ writer' = IF done THEN "done" ELSE "receive"
         /\ \E due \in (IF done THEN {TRUE} ELSE BOOLEAN) :
              IF due
              THEN /\ dropped' = [l \in Levels |-> 0]
                   /\ fate' = [l \in Levels |-> [fate[l] EXCEPT !.told = @ + dropped[l]]]
              ELSE UNCHANGED <<dropped, fate>>
    /\ UNCHANGED <<active, thread, records, lines, pendingInfo, held, recent, kept>>

LogInit ==
    /\ active = TRUE /\ thread = [t \in Threads |-> Outside] /\ records = [t \in Threads |-> 0]
    /\ lines = <<>> /\ pendingInfo = 0 /\ dropped = [l \in Levels |-> 0]
    /\ writer = "receive" /\ held = NoRecord /\ recent = {} /\ kept = {}
    /\ fate = [l \in Levels |-> [taken |-> 0, written |-> 0, repeated |-> 0, failed |-> 0, told |-> 0]]

Sends(t) == Begins(t) \/ Reserves(t) \/ Offers(t) \/ Undoes(t) \/ Counts(t)
LogNext == (\E t \in Threads : Sends(t)) \/ Stops \/ Receives \/ Handles \/ Reports

LogSpec == LogInit /\ [][LogNext]_logVars

---------------------------------------------------------------------------
(* Properties                                                              *)

\* Every variable keeps its type, and the queue its limits.
LogTypeOK ==
    /\ Len(lines) <= LogItems /\ \A i \in DOMAIN lines : lines[i] \in Record
    /\ pendingInfo \in 0..LogInfoItems /\ Cardinality(recent) <= RecentItems
    /\ \A t \in Threads : thread[t].at \in {"outside", "reserve", "offer", "undo", "count"}
    /\ writer \in {"receive", "handle", "report", "done"}

Infos == Cardinality({i \in DOMAIN lines : lines[i].level = "info"})
Reserved == {t \in Threads : thread[t].at \in {"offer", "undo"} /\ thread[t].record.level = "info"}

\* However the threads and the writer interleave, no record vanishes: when the
\* writer has ended, each was written, was the repetition of one that was, failed
\* to be written, or is in the number that is told.  The places information may
\* take are those it has taken, and only what was written counts as a repetition.
LogAccounts ==
    /\ writer = "done" => \A l \in Levels :
         fate[l].taken = fate[l].written + fate[l].repeated + fate[l].failed + fate[l].told
    /\ pendingInfo = Infos + Cardinality(Reserved) + (IF held.level = "info" THEN 1 ELSE 0)
    /\ recent \subseteq kept
=============================================================================
