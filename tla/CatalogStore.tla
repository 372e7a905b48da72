---------------------------- MODULE CatalogStore ----------------------------
(***************************************************************************)
(* wfcli_exports_store: catalog queries run in up to max_workers worker    *)
(* processes, equal ones as one group on one worker, over a cache of       *)
(* parsed files.  A worker starts from a copy of the cache and reports     *)
(* what it changed; the store takes a change only if the entry is still    *)
(* the one the worker started from.                                        *)
(*                                                                         *)
(* All queries read one entry of the cache, entries being independent.  An *)
(* entry is the signature of a file and its content, both represented by   *)
(* the version of the file: a changed file has another time or size.       *)
(***************************************************************************)
EXTENDS JobConstants, Sequences, SequencesExt

VARIABLES
  queue,       \* groups waiting for a worker; a group is its queries in order
  workers,     \* the group of the worker that query j was the first of, or << >>
  work,        \* what that worker has come to
  mail,        \* workers with a catalog_result message in the mailbox
  cache,       \* the entry, as a set with at most one element
  maxWorkers,
  file,        \* version of the file on disk
  monitored,
  gone,        \* queries whose client has died and not been noticed
  submitted,
  since,       \* version of the file when a query in hand came, or when its
               \* worker started if that was earlier
  replies,     \* replies sent to the client of a query
  lease        \* activity_start minus activity_end

clientVars == <<monitored, gone, submitted, since, replies, lease>>
vars == <<queue, workers, work, mail, cache, maxWorkers, file, clientVars>>

Version == 0..MaxVersion
Entries == {{}} \cup {{[signature |-> s, data |-> v]} : s, v \in Version}
NoWork == [at |-> "none", base |-> {}, signature |-> 0, found |-> {}, began |-> 0]

TypeOK ==
  /\ \A i \in DOMAIN queue : queue[i] \in Seq(Job) \ {<< >>}
  /\ \A j \in Job : workers[j] \in Seq(Job)
  /\ work \in [Job -> [at : {"none", "begun", "signed", "ended", "died"},
                       base : Entries, signature : Version, found : Entries,
                       began : Version]]
  /\ mail \in SUBSET Job
  /\ cache \in Entries
  /\ maxWorkers \in CatalogWorkers
  /\ file \in Version
  /\ monitored \in SUBSET Job /\ gone \in SUBSET Job /\ submitted \in SUBSET Job
  /\ since \in [Job -> Version]
  /\ replies \in [Job -> Nat] /\ lease \in Nat

Init ==
  /\ queue = << >>
  /\ workers = [j \in Job |-> << >>]
  /\ work = [j \in Job |-> NoWork]
  /\ mail = {}
  /\ cache = {}
  /\ maxWorkers \in CatalogWorkers
  /\ file = 0
  /\ monitored = {} /\ gone = {} /\ submitted = {}
  /\ since = [j \in Job |-> 0]
  /\ replies = [j \in Job |-> 0] /\ lease = 0

Busy(ws) == {j \in Job : ws[j] # << >>}

\* A worker starts with a copy of the cache.
Begun == [NoWork EXCEPT !.at = "begun", !.base = cache', !.began = file]

\* start_queued: groups from the head of the queue get the free workers.
StartQueued(q, ws, wk) ==
  LET free == maxWorkers - Cardinality(Busy(ws))
      n == IF free <= 0 THEN 0 ELSE IF free < Len(q) THEN free ELSE Len(q)
      GroupOf(j) == {q[i] : i \in {i \in 1..n : Head(q[i]) = j}}
  IN /\ queue' = SubSeq(q, n + 1, Len(q))
     /\ workers' = [j \in Job |-> IF GroupOf(j) = {} THEN ws[j]
                                  ELSE CHOOSE g \in GroupOf(j) : TRUE]
     /\ work' = [j \in Job |-> IF GroupOf(j) = {} THEN wk[j] ELSE Begun]

Same(j, group) == RequestOf[Head(group)] = RequestOf[j]

\* A query joins the worker of an equal one, or the group that waits.
Submit(j) ==
  LET running == {t \in Busy(workers) : Same(j, workers[t])}
      waiting == {i \in DOMAIN queue : Same(j, queue[i])}
  IN /\ j \notin submitted
     /\ submitted' = submitted \cup {j}
     /\ monitored' = monitored \cup {j}
     /\ lease' = lease + 1
     /\ since' = [since EXCEPT ![j] =
                    IF running = {} THEN file ELSE work[CHOOSE t \in running : TRUE].began]
     /\ UNCHANGED <<mail, cache, maxWorkers, file, gone, replies>>
     /\ IF running # {}
        THEN /\ workers' = [t \in Job |-> IF t \in running THEN Append(workers[t], j)
                                          ELSE workers[t]]
             /\ UNCHANGED <<queue, work>>
        ELSE IF waiting # {}
        THEN /\ queue' = [i \in DOMAIN queue |-> IF i \in waiting THEN Append(queue[i], j)
                                                 ELSE queue[i]]
             /\ UNCHANGED <<workers, work>>
        ELSE IF Cardinality(Busy(workers)) < maxWorkers
        THEN /\ workers' = [workers EXCEPT ![j] = <<j>>]
             /\ work' = [work EXCEPT ![j] = Begun]
             /\ queue' = queue
        ELSE /\ queue' = Append(queue, <<j>>)
             /\ UNCHANGED <<workers, work>>

\* complete_group and start_queued: every query of the group whose client is
\* alive is answered with what the worker found.
CompleteGroup(t) ==
  LET served == Range(workers[t]) \cap monitored
  IN /\ replies' = [j \in Job |-> IF j \in served THEN replies[j] + 1 ELSE replies[j]]
     /\ monitored' = monitored \ served /\ gone' = gone \ served
     /\ since' = [j \in Job |-> IF j \in served THEN 0 ELSE since[j]]
     /\ lease' = lease - Cardinality(served)
     /\ UNCHANGED <<maxWorkers, file, submitted>>
     /\ StartQueued(queue, [workers EXCEPT ![t] = << >>], [work EXCEPT ![t] = NoWork])

\* Fault: the entry of the worker that ends last is kept.
MergedBlindly(t) == IF work[t].found = {} THEN cache ELSE work[t].found

\* cache_changes and apply_cache_changes.
Merged(t) ==
  IF work[t].found = {} \/ work[t].base # cache THEN cache ELSE work[t].found

HandleResult(t) ==
  /\ t \in mail
  /\ mail' = mail \ {t}
  /\ IF workers[t] # << >>
     THEN cache' = Merged(t) /\ CompleteGroup(t)
     ELSE UNCHANGED <<queue, workers, work, cache, maxWorkers, file, clientVars>>

HandleWorkerDown(t) ==
  /\ workers[t] # << >>
  /\ work[t].at = "died"
  /\ UNCHANGED <<mail, cache>>
  /\ CompleteGroup(t)

\* remove_group_ref; a query is in its group once.
Without(group, j) == RemoveFirst(group, j)

\* remove_queued_ref: a query is in one group, so at most one is left empty.
WithoutQueued(j) == RemoveFirst([i \in DOMAIN queue |-> Without(queue[i], j)], << >>)

\* Fault: a worker is stopped with the client its group began with.
HandleClientDownLeading(j) ==
  LET rest == [t \in Job |-> IF t = j THEN << >> ELSE Without(workers[t], j)]
  IN /\ j \in monitored
     /\ j \in gone
     /\ monitored' = monitored \ {j} /\ gone' = gone \ {j}
     /\ since' = [since EXCEPT ![j] = 0]
     /\ lease' = lease - 1
     /\ UNCHANGED <<mail, cache, maxWorkers, file, submitted, replies>>
     /\ StartQueued(WithoutQueued(j), rest,
                    [t \in Job |-> IF rest[t] = << >> THEN NoWork ELSE work[t]])

\* cancel_client: a group goes on without the client, and a worker without
\* clients is killed.
HandleClientDown(j) ==
  LET rest == [t \in Job |-> Without(workers[t], j)]
  IN /\ j \in monitored
     /\ j \in gone
     /\ monitored' = monitored \ {j} /\ gone' = gone \ {j}
     /\ since' = [since EXCEPT ![j] = 0]
     /\ lease' = lease - 1
     /\ UNCHANGED <<mail, cache, maxWorkers, file, submitted, replies>>
     /\ StartQueued(WithoutQueued(j), rest,
                    [t \in Job |-> IF rest[t] = << >> THEN NoWork ELSE work[t]])

(***************************************************************************)
(* The workers: execute/2.                                                 *)
(***************************************************************************)
worldVars == <<queue, workers, cache, maxWorkers, clientVars>>

Ends(t, found) ==
  /\ work' = [work EXCEPT ![t].at = "ended", ![t].found = found]
  /\ mail' = mail \cup {t}

\* cached: the signature of the file, and the entry the worker started with if
\* it has that signature.
ReadSignature(t) ==
  /\ work[t].at = "begun"
  /\ UNCHANGED <<worldVars, file>>
  /\ IF \E e \in work[t].base : e.signature = file
     THEN Ends(t, work[t].base)
     ELSE work' = [work EXCEPT ![t].at = "signed", ![t].signature = file] /\ mail' = mail

\* Fault: the file is read before its signature.
LoadSigned(t) ==
  /\ work[t].at = "signed"
  /\ UNCHANGED <<worldVars, file>>
  /\ Ends(t, {[signature |-> file, data |-> work[t].signature]})

Load(t) ==
  /\ work[t].at = "signed"
  /\ UNCHANGED <<worldVars, file>>
  /\ Ends(t, {[signature |-> work[t].signature, data |-> file]})

\* The query is malformed, or its sources cannot be had or read.
Fails(t) ==
  /\ work[t].at \in {"begun", "signed"}
  /\ UNCHANGED <<worldVars, file>>
  /\ Ends(t, {})

WorkerDies(t) ==
  /\ work[t].at \in {"begun", "signed"}
  /\ work' = [work EXCEPT ![t].at = "died"]
  /\ UNCHANGED <<worldVars, file, mail>>

\* wfcli_source_manager replaces the file.
FileChanges ==
  /\ file < MaxVersion                                      \* bound
  /\ file' = file + 1
  /\ UNCHANGED <<worldVars, work, mail>>

ClientDies(j) ==
  /\ j \in monitored \ gone
  /\ gone' = gone \cup {j}
  /\ UNCHANGED <<queue, workers, work, mail, cache, maxWorkers, file, monitored, submitted,
                 since, replies, lease>>

WorkerStep(t) == ReadSignature(t) \/ Load(t) \/ Fails(t)

Next ==
  \/ \E j \in Job :
       \/ Submit(j) \/ HandleResult(j) \/ HandleWorkerDown(j) \/ HandleClientDown(j)
       \/ WorkerStep(j) \/ WorkerDies(j) \/ ClientDies(j)
  \/ FileChanges

\* Messages are handled and a worker ends: each call it makes has a timeout.
Fairness ==
  /\ WF_vars(\E j \in Job : HandleResult(j) \/ HandleWorkerDown(j) \/ HandleClientDown(j))
  /\ WF_vars(\E j \in Job : WorkerStep(j))

Spec == Init /\ [][Next]_vars
FairSpec == Spec /\ Fairness

(***************************************************************************)
(* What the store promises.                                                *)
(***************************************************************************)
\* A query that has a client is in one group, once, and no two groups are of
\* equal queries: clients that come and go neither split nor lose a group.
Placement ==
  LET groups == {queue[i] : i \in DOMAIN queue} \cup {workers[t] : t \in Busy(workers)}
  IN /\ \A g \in groups : IsInjective(g)
     /\ \A g, h \in groups : g # h => RequestOf[Head(g)] # RequestOf[Head(h)]
     /\ \A g \in groups : \A i \in DOMAIN g : Same(g[i], g)
     /\ UNION {Range(g) : g \in groups} = monitored

\* No more than max_workers workers are under way.
WorkerLimit == Cardinality(Busy(workers)) <= maxWorkers

\* A group waits only while all workers are busy.
WorkConserving == queue # << >> => Cardinality(Busy(workers)) = maxWorkers

\* No query is about to be answered with content older than the file was when the
\* query came, or when the worker it joined began, though the cache is filled by
\* workers that started from old copies of it while the file changes.
AnswersFresh ==
  \A t \in mail : \A e \in work[t].found : \A j \in Range(workers[t]) : e.data >= since[j]

\* An entry is only replaced by one whose file was looked at after the old one was
\* read: a slow worker never restores what a faster one has replaced.
CacheOnlyRenews ==
  [][\A e \in cache : cache' # cache => \E n \in cache' : n.signature >= e.data]_vars

\* The fate of a query as its client and the lease accounting see it.
Fate(j) ==
  IF j \in monitored THEN "accepted"
  ELSE IF replies[j] > 0 THEN "answered"
  ELSE IF j \in submitted THEN "dropped" ELSE "new"

Promise == INSTANCE JobQueue WITH job <- [j \in Job |-> Fate(j)]

\* Every query is finished once, and its lease is released with it.
ImplementsJobQueue == Promise!JobSpec

=============================================================================
