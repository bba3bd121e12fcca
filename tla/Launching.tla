----------------------------- MODULE Launching -----------------------------
(***************************************************************************)
(* How executions of the crawler begin: operators start a coordinator      *)
(* (CoordinatorLaunch), the coordinator starts one execution after the     *)
(* other (Continuation), and the queue that they share is seeded           *)
(* (QueueInit).  The three share no variable here, so their steps are not  *)
(* interleaved: part says which of them a behaviour is about.              *)
(***************************************************************************)
EXTENDS CoordinatorLaunch

CONSTANTS
  Task, MaxRetries, MaxRestarts, GuardTtl, GuardDeadline, Total, MaxExecutions, Interventions, Other,
  Initializer, Article, Shard, ShardOf, DoneOf, ManifestOf, Lease, Lag, MaxVersions, Worker

VARIABLES
  part,
  wf, execution, tasks, reports, cancelled, progress, cohort, pending, stop, interventions,
  stopKept, \* Continuation
  control, articles, stats, seeding, left, read, batches  \* QueueInit

Continue == INSTANCE Continuation WITH guard <- cohort, Work <- Total
Queue == INSTANCE QueueInit WITH at <- seeding, sent <- batches

ASSUME ContinueAssumption == Continue!ContinuationAssumption
ASSUME QueueAssumption == Queue!InitAssumption

launchVars == vars
continuationVars == <<wf, execution, tasks, reports, cancelled, progress, cohort, pending, stop,
                      interventions, stopKept>>
queueVars == <<control, articles, stats, seeding, left, read, batches>>

\* What a behaviour is not about stays in one initial state.
LaunchInit ==
  /\ part \in {"launch", "continuation", "queue"}
  /\ Init /\ Queue!Init /\ Continue!Init /\ (part # "continuation" => ~stop)

LaunchNext ==
  /\ UNCHANGED part
  /\ \/ part = "launch" /\ Next /\ UNCHANGED <<continuationVars, queueVars>>
     \/ part = "continuation" /\ Continue!Next /\ UNCHANGED <<launchVars, queueVars>>
     \/ part = "queue" /\ Queue!Next /\ UNCHANGED <<launchVars, continuationVars>>
LaunchSpec == LaunchInit /\ [][LaunchNext]_<<part, launchVars, continuationVars, queueVars>>

-----------------------------------------------------------------------------
(* Properties                                                              *)

\* continue-crawl.yaml:98-125: a coordinator never runs two executions at once, and a
\* cancelled one is never followed by another.
OneExecution == Continue!OneExecution

\* continue-crawl.yaml:166-192: before a recovery the last attempt of every task failed
\* with the marker, or the progress had the task down as done.
RecoveryIsMarked == Continue!RecoveryIsMarked

\* continue-crawl.yaml:43-57: a STOP that is set before the decision to go on, during the
\* backoff or while the old guard is waited for, and stays, prevents the launch.
StopHonored == Continue!StopHonored

\* initialize and _seed_batch: a queue that is ready is one initializer's, whole, and its
\* counters count its documents, whoever died or was late before.
ReadyIsWhole == Queue!ReadyIsWhole
=============================================================================
