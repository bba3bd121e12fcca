----------------------------- MODULE MCProgress -----------------------------
(* What must happen in the end, on small instances: a host gets its rate   *)
(* back (AdaptiveRate), publisher articles are served (ClaimDispatch),     *)
(* accepted results are exported (ExportOutbox), tasks that lost the guard *)
(* stop (CohortGuard), the public index catches up (DownloadIndex), and a  *)
(* process that hangs frees its slots (Isolation).  The six share no       *)
(* variable here, so their steps are not interleaved: part says which of   *)
(* them a behaviour is about, and only that one is treated fairly.         *)
EXTENDS TLC, Naturals, FiniteSets

CONSTANTS o1, o2, a1, a2, h1, e1, e2, t1, x, h, Scaleover, None

VARIABLES
  part,
  rate, ratePause, rateLeases, probes, faults,           \* AdaptiveRate
  articles, next, slots, selected, seen, services, cache, \* ClaimDispatch
  row, by, events, exporter, stage, job, failures,        \* ExportOutbox
  guard, current, tasks, reports, calls, scaling, stop, retired, replaced, assigned,  \* CohortGuard
  done, progress, stored, fresh, refresh, failed,         \* DownloadIndex
  task, child, others, watch                              \* Isolation

Owners == {o1, o2}
Asked == {3}
Rate == INSTANCE AdaptiveRate WITH
  Owner <- Owners, Requests <- None, MinDelay <- 2, InitialDelay <- 5, MaxDelay <- 20,
  FallbackDelay <- 10, MaxConcurrency <- 2, DefaultCapacity <- 1, Window <- 2, ShortPause <- 1,
  LongPause <- 2, MaxPause <- 5, RetryAfter <- Asked, Ttl <- 2, Faults <- 3,
  cooldown <- ratePause, leases <- rateLeases

\* The one slot left after a memory restart.
Articles == {a1, a2}
OneHost == {h1}
SameHost == [a \in Articles |-> h1]
Dispatch == INSTANCE ClaimDispatch WITH
  Article <- Articles, Hostname <- OneHost, HostOf <- SameHost, Workers <- 1, ArchiveSlots <- 2,
  PerOutlet <- 2, rows <- articles, at <- next, claims <- slots, ready <- services

\* One cohort of two tasks that fail and are retried.
Cohorts == {1}
TwoTasks == {0, 1}
Outbox == INSTANCE ExportOutbox WITH
  Article <- Articles, Cohort <- Cohorts, Task <- TwoTasks, Batch <- 1, MaxFailures <- 1,
  Nobody <- 0, guard <- exporter, at <- stage

\* A task of a cohort that may come to its end, a handover and the scaleover tool.
Executions == {e1, e2}
Tasks == {t1}
Operators == {x}
Handovers == {h}
Joined == t1 :> e1
Previous == h :> e1
Cohort == INSTANCE CohortGuard WITH
  Execution <- Executions, Task <- Tasks, ExecutionOf <- Joined, Operator <- Operators,
  Handover <- Handovers, PreviousOf <- Previous, GuardTtl <- 1, ReservationTtl <- 1, Renewal <- 0

\* Two instances of the API and two articles; or an instance beside an operator's
\* refresh, one article, two collections and a failure.
Readers == {1, 2}
Script == {2}
NoScript == {}
Index == INSTANCE DownloadIndex WITH
  Article <- Articles, Reader <- Readers, Preparer <- NoScript, LastRun <- 1, MaxFailures <- 0, current <- fresh
OneArticle == {a1}
Renewed == INSTANCE DownloadIndex WITH
  Article <- OneArticle, Reader <- Readers, Preparer <- Script, LastRun <- 2, MaxFailures <- 1, current <- fresh

\* Three fetch threads, one of which must wait for a slot, and one browser.
Threads == {1, 2, 3}
Processes == INSTANCE Isolation WITH Thread <- Threads, Heavy <- 2, Browser <- 1

ASSUME Assumptions ==
  /\ Rate!PolicyAssumption /\ Rate!TimeAssumption /\ Dispatch!DispatchAssumption
  /\ Outbox!OutboxAssumption /\ Cohort!LayoutAssumption /\ Cohort!ClientAssumption
  /\ Cohort!TimeAssumption /\ Index!IndexAssumption
  /\ Renewed!IndexAssumption /\ Processes!SlotAssumption

rateVars == <<rate, ratePause, rateLeases, probes, faults>>
dispatchVars == <<articles, next, slots, selected, seen, services, cache>>
outboxVars == <<row, by, events, exporter, stage, job, failures>>
cohortVars == <<guard, current, tasks, reports, calls, scaling, stop, retired, replaced, assigned>>
indexVars == <<done, progress, stored, fresh, refresh, failed>>
processVars == <<task, child, others, watch>>

\* What a behaviour is not about stays in one initial state.
ProgressInit ==
  /\ part \in {"rate", "dispatch", "outbox", "cohort", "index", "renewed", "processes"}
  /\ Rate!Init /\ (part # "rate" => rate = Rate!Fresh /\ ratePause = 0)
  /\ Dispatch!Init /\ Outbox!Init
  /\ Cohort!Init /\ (part # "cohort" => ~stop)
  /\ IF part = "renewed" THEN Renewed!Init ELSE Index!Init
  /\ Processes!Init

ProgressNext ==
  /\ UNCHANGED part
  /\ IF part = "rate" THEN Rate!Next ELSE UNCHANGED rateVars
  /\ IF part = "dispatch" THEN Dispatch!Next ELSE UNCHANGED dispatchVars
  /\ IF part = "outbox" THEN Outbox!Next ELSE UNCHANGED outboxVars
  /\ IF part = "cohort" THEN Cohort!Next ELSE UNCHANGED cohortVars
  /\ CASE part = "index" -> Index!Next
       [] part = "renewed" -> Renewed!Next
       [] OTHER -> UNCHANGED indexVars
  /\ IF part = "processes" THEN Processes!Next ELSE UNCHANGED processVars

\* The components' own assumptions (LiveSpec, Fairness), each for behaviours about it.
RateFairness ==
  /\ WF_rateVars(part = "rate" /\ Rate!Tick)
  /\ SF_rateVars(part = "rate" /\ \E o \in Owners : Rate!Acquire(o))
  /\ SF_rateVars(part = "rate" /\ \E o \in Owners : Rate!Feedback(o, "ok"))
DispatchFairness ==
  /\ WF_dispatchVars(part = "dispatch" /\ Dispatch!Refill)
  /\ \A a \in Articles, k \in {"publisher", "browser", "archive", "archive_first"} :
       WF_dispatchVars(part = "dispatch" /\ LET c == [article |-> a, kind |-> k]
                                            IN Dispatch!Settle(c) \/ Dispatch!Refuse(c))
  /\ \A a \in Articles :
       SF_dispatchVars(part = "dispatch" /\ \E A \in SUBSET Articles :
                                              a \in A /\ Dispatch!ClaimPublishers(A))
OutboxFairness ==
  \A p \in Cohorts \X TwoTasks :
    /\ WF_outboxVars(part = "outbox" /\ Outbox!Start(p))
    /\ WF_outboxVars(part = "outbox" /\ Outbox!Export(p))
    /\ WF_outboxVars(part = "outbox" /\ Outbox!Drain(p))
    /\ WF_outboxVars(part = "outbox" /\ Outbox!ExportLast(p))
    /\ WF_outboxVars(part = "outbox" /\ Outbox!Finish(p))
CohortFairness == \A t \in Tasks : WF_cohortVars(part = "cohort" /\ Cohort!TaskStep(t))
\* Visitors keep coming, and the last counts are published.
IndexFairness ==
  /\ WF_indexVars(part = "index" /\ \E n \in 1..2 : Index!Publish(n))
  /\ \A i \in Readers :
       WF_indexVars(part = "index" /\ (Index!Snapshot(i) \/ Index!Look(i) \/ Index!Query(i) \/ Index!Upload(i)))
  /\ WF_indexVars(part = "renewed" /\ Renewed!Publish(1))
  /\ WF_indexVars(part = "renewed" /\ (Renewed!Snapshot(1) \/ Renewed!Look(1) \/ Renewed!Query(1) \/ Renewed!Upload(1)))
\* The main thread's calls return, and the time limit passes; the child may hang.
ProcessFairness ==
  \A t \in Threads :
    /\ WF_processVars(part = "processes" /\ Processes!Main(t))
    /\ WF_processVars(part = "processes" /\ (Processes!Flag(t) \/ Processes!WatchEnds(t)))
    /\ WF_processVars(part = "processes" /\ Processes!Kill(t))

ProgressSpec ==
  /\ ProgressInit /\ [][ProgressNext]_<<part, rateVars, dispatchVars, outboxVars, cohortVars,
                                      indexVars, processVars>>
  /\ RateFairness /\ DispatchFairness /\ OutboxFairness /\ CohortFairness
  /\ IndexFairness /\ ProcessFairness

-----------------------------------------------------------------------------
(* Properties                                                              *)

\* feedback: a host that answers well again gets its rate back, whatever was lost,
\* reported late, or paused before.
Recovers == Rate!Recovers

\* claim_available: a publisher article whose host is available again and again is not left
\* waiting, however much archive work there is.
PublisherServed == part = "dispatch" => Dispatch!PublisherServed

\* export_results: "A load failure cannot lose an accepted article result": it is
\* acknowledged in the end.
EveryResultExported == Outbox!EveryResultExported

\* lease_update and heartbeat: a task whose cohort was replaced does not go on for ever.
LostStops == Cohort!LostStops

\* DownloadIndex: "Count mismatches trigger full reconciliation, so the overlap cannot
\* silently lose a result": at rest, the index has every article of the collection.
Converges == /\ part = "index" => Index!Converges
             /\ part = "renewed" => Renewed!Converges

\* run_task: a process that hangs, or asks for ever, gives its slots back.
SlotsReturned == Processes!SlotsReturned
=============================================================================
