---------------------------- MODULE ExportOutbox ----------------------------
(***************************************************************************)
(* The durable outbox between the article queue and BigQuery:              *)
(* export_results and the end of DistributedRun.run                        *)
(* (crawler/distributed_worker.py) with export_pending and mark_exported   *)
(* (crawler/shared_queue.py).                                              *)
(*                                                                         *)
(* Task 0 of a cohort exports in the background while it works; every task *)
(* exports in its own thread, batch after batch, before it ends.  A load   *)
(* or an acknowledgement may fail before or after its effect; then the     *)
(* task fails and its next attempt starts over.  A cohort that has lost    *)
(* the guard notices at its next check only (CohortGuard), and may still   *)
(* accept results under the claims it holds (SharedQueue).                 *)
(***************************************************************************)
EXTENDS Integers, FiniteSets

CONSTANTS
  Article,
  Cohort,  \* in the order in which they own the guard
  Task,    \* 0 is the background exporter
  Batch,   \* rows that fit one load
  MaxFailures, \* bound: failures of a task
  Nobody

OutboxAssumption ==
  /\ Cohort \subseteq Nat /\ Task \subseteq Nat /\ 0 \in Task /\ Batch \in Nat \ {0} /\ MaxFailures \in Nat
  /\ Nobody \notin Cohort

VARIABLES
  row,     \* state of each article in the queue
  by,      \* the cohort that accepted its result
  events,  \* articles in crawl_result_events
  guard,   \* the cohort that owns the cohort guard
  at,      \* where each task is
  job,     \* its call of export_results
  failures

vars == <<row, by, events, guard, at, job, failures>>
Process == Cohort \X Task

NoJob == [at |-> "idle", read |-> {}, accepted |-> {}, renew |-> FALSE]
Init ==
  /\ row = [a \in Article |-> "open"] /\ by = [a \in Article |-> Nobody] /\ events = {}
  /\ guard \in {c \in Cohort : \A d \in Cohort : c <= d}
  /\ at = [p \in Process |-> "off"] /\ job = [p \in Process |-> NoJob] /\ failures = 0

Pending == {a \in Article : row[a] = "pending"}
\* heartbeat and publication_guard: the cohort still owns the guard.
Owns(p) == guard = p[1]
Set(p, j) == job' = [job EXCEPT ![p] = j]
Moves(p, to) == at' = [at EXCEPT ![p] = to]

\* The exception ends the task; evidence and outbox stay.
FailTask(p) == Moves(p, "off") /\ Set(p, NoJob)
Failing(p) == FailTask(p) /\ failures < MaxFailures /\ failures' = failures + 1

Start(p) ==
  /\ at[p] = "off" /\ Owns(p) /\ Moves(p, "work")
  /\ UNCHANGED <<row, by, events, guard, job, failures>>
\* persist_result and complete: also by a cohort that has been replaced.
Accept(p, a) ==
  /\ at[p] = "work" /\ row[a] = "open"
  /\ row' = [row EXCEPT ![a] = "pending"] /\ by' = [by EXCEPT ![a] = p[1]]
  /\ UNCHANGED <<events, guard, at, job, failures>>
Fail(p) ==
  /\ at[p] \in {"work", "drain"} /\ Failing(p)
  /\ UNCHANGED <<row, by, events, guard>>

(* export_results ************************************************************)

\* export_pending reads the outbox; what does not fit the batch is not accepted.
Read(p, renew) ==
  \E records \in SUBSET Pending \ {{}} : \E accepted \in SUBSET records \ {{}} :
    /\ Cardinality(accepted) <= Batch
    /\ Set(p, [at |-> "read", read |-> records, accepted |-> accepted, renew |-> renew])
Background(p) ==
  /\ at[p] = "work" /\ p[2] = 0 /\ job[p].at = "idle" /\ Read(p, FALSE)
  /\ UNCHANGED <<row, by, events, guard, at, failures>>
Check(p) ==
  /\ job[p].at = "read"
  /\ IF Owns(p) THEN Set(p, [job[p] EXCEPT !.at = "load"]) /\ UNCHANGED at ELSE FailTask(p)
  /\ UNCHANGED <<row, by, events, guard, failures>>
Load(p) ==
  /\ job[p].at = "load"
  /\ \/ /\ events' = events \cup job[p].accepted
        /\ Set(p, [job[p] EXCEPT !.at = IF job[p].renew THEN "acknowledge" ELSE "recheck"]) /\ UNCHANGED <<at, failures>>
     \/ events' \in {events, events \cup job[p].accepted} /\ Failing(p)
  /\ UNCHANGED <<row, by, guard>>
\* Only a background export looks again after its load.
Recheck(p) ==
  /\ job[p].at = "recheck"
  /\ IF Owns(p) THEN Set(p, [job[p] EXCEPT !.at = "acknowledge"]) /\ UNCHANGED at ELSE FailTask(p)
  /\ UNCHANGED <<row, by, events, guard, failures>>
Acknowledged(p) == job[p].accepted
Mark(A) == row' = [a \in Article |-> IF a \in A /\ row[a] = "pending" THEN "exported" ELSE row[a]]
\* mark_exported, in chunks.
Acknowledge(p) ==
  /\ job[p].at = "acknowledge"
  /\ \/ Mark(Acknowledged(p)) /\ Set(p, NoJob) /\ UNCHANGED <<at, failures>>
     \/ \E A \in SUBSET Acknowledged(p) : Mark(A) /\ Failing(p)
  /\ UNCHANGED <<by, events, guard>>

(* The end of a task *********************************************************)

\* The loop is over, and the background export with it.
Drain(p) ==
  /\ at[p] = "work" /\ job[p].at = "idle"
  /\ IF Owns(p) THEN Moves(p, "drain") /\ UNCHANGED job ELSE FailTask(p)
  /\ UNCHANGED <<row, by, events, guard, failures>>
ExportLast(p) ==
  /\ at[p] = "drain" /\ job[p].at = "idle" /\ Read(p, TRUE)
  /\ UNCHANGED <<row, by, events, guard, at, failures>>
\* Faulty variant: only task 0 empties the outbox.
OnlyFirst(p) == Pending = {} \/ p[2] # 0
Emptied(p) == Pending = {}
Finish(p) ==
  /\ at[p] = "drain" /\ job[p].at = "idle" /\ Emptied(p)
  /\ IF Owns(p) THEN Moves(p, "finished") /\ UNCHANGED job ELSE FailTask(p)
  /\ UNCHANGED <<row, by, events, guard, failures>>

Handover ==
  /\ \E c \in Cohort : c = guard + 1 /\ guard' = c
  /\ UNCHANGED <<row, by, events, at, job, failures>>

Export(p) == Check(p) \/ Load(p) \/ Recheck(p) \/ Acknowledge(p)
Next ==
  \/ \E p \in Process : Start(p) \/ Fail(p) \/ Background(p) \/ Export(p) \/ Drain(p) \/ ExportLast(p) \/ Finish(p)
  \/ \E p \in Process, a \in Article : Accept(p, a)
  \/ Handover

Spec == Init /\ [][Next]_vars
\* Cloud Run repeats failed tasks, and a loop ends when its work does.
FairSpec ==
  /\ Spec
  /\ \A p \in Process : WF_vars(Start(p)) /\ WF_vars(Export(p)) /\ WF_vars(Drain(p)) /\ WF_vars(ExportLast(p)) /\ WF_vars(Finish(p))

-----------------------------------------------------------------------------
(* Properties                                                              *)

Job == [at : {"idle", "read", "load", "recheck", "acknowledge"}, read : SUBSET Article, accepted : SUBSET Article, renew : BOOLEAN]
\* The type invariant; an export thread never outlives its task.
TypeOK ==
  /\ row \in [Article -> {"open", "pending", "exported"}] /\ by \in [Article -> Cohort \cup {Nobody}]
  /\ events \subseteq Article /\ guard \in Cohort /\ failures \in 0..MaxFailures
  /\ at \in [Process -> {"off", "work", "drain", "finished"}] /\ job \in [Process -> Job]
  /\ \A p \in Process : at[p] \in {"off", "finished"} => job[p] = NoJob

\* A result is acknowledged only after it has been loaded, whoever loads it, fails or repeats.
AcknowledgedIsLoaded == \A a \in Article : row[a] = "exported" => a \in events

\* When all tasks of a cohort have ended without a failure, every result the cohort accepted
\* is in BigQuery and the outbox holds none of them, although each looks on its own.
FinishedMeansExported ==
  \A c \in Cohort :
    (\A t \in Task : at[<<c, t>>] = "finished") => \A a \in Article : by[a] = c => row[a] = "exported"

\* "A load failure cannot lose an accepted article result": it is acknowledged in the end.
EveryResultExported == \A a \in Article : row[a] = "pending" ~> row[a] = "exported"

=============================================================================
