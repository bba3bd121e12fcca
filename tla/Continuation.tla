---------------------------- MODULE Continuation ----------------------------
(***************************************************************************)
(* The coordinator of a collection run (workflows/continue-crawl.yaml).    *)
(* It launches one Cloud Run execution after the other, and starts another *)
(* only after a checkpointed rotation, or after a failure that every       *)
(* failed task has marked as temporary.                                    *)
(*                                                                         *)
(* An execution is a set of tasks with native retries.  A task is here     *)
(* what the coordinator can see of it: its worker document, the progress   *)
(* object it publishes and the cohort guard (CohortPublication and         *)
(* CohortGuard have the details).  Time is in ticks of five minutes.       *)
(***************************************************************************)
EXTENDS Integers

CONSTANTS
  Task,
  MaxRetries,    \* the job's native retries of a task
  MaxRestarts,   \* recoveries of one coordinator (3)
  GuardTtl,      \* ticks a guard may still last (600 seconds after a transfer)
  GuardDeadline, \* ticks the coordinator waits for it (900 seconds)
  Work,          \* articles of the collection
  MaxExecutions, \* bound: executions
  Interventions, \* bound: what operators do
  Other          \* an owner that is not an execution of this coordinator

ContinuationAssumption ==
  /\ MaxRetries \in Nat /\ MaxRestarts \in Nat /\ Work \in Nat /\ MaxExecutions \in Nat /\ Interventions \in Nat
  /\ GuardTtl \in Nat /\ GuardDeadline \in Nat /\ Other \notin Nat

VARIABLES
  wf,        \* the coordinator
  execution, \* number of the latest execution; 0: none
  tasks,     \* the latest attempt of each of its tasks
  reports,   \* its worker documents, the latest attempt of each task
  cancelled, \* whether it has been cancelled
  progress,  \* the private progress object
  guard,     \* the cohort guard; owner 0: there is none
  pending,   \* articles left
  stop,      \* the STOP object
  interventions, \* what operators have done so far
  stopKept   \* history: STOP has been there since before the coordinator last looked for it

vars == <<wf, execution, tasks, reports, cancelled, progress, guard, pending, stop,
          interventions, stopKept>>
Cloud == <<execution, tasks, reports, cancelled>>
Storage == <<progress, guard, pending, stop, interventions, stopKept>>

NoReport == [state |-> "none", attempt |-> 0, marked |-> FALSE]
Idle == [at |-> "none", attempt |-> 0]
NoGuard == [owner |-> 0, ttl |-> 0]
NoProgress == [execution |-> 0, state |-> "none", recoverable |-> FALSE, downloading |-> FALSE,
               pending |-> 0, workers |-> [t \in Task |-> NoReport]]
\* why: what the next launch is for; until: ticks a sleep or a wait still lasts.
Coordinator == [at |-> "checkStop", why |-> "start", failed |-> FALSE, restarts |-> 0, until |-> 0]

Init ==
  /\ wf = Coordinator /\ execution = 0 /\ tasks = [t \in Task |-> Idle]
  /\ reports = [t \in Task |-> NoReport] /\ cancelled = FALSE /\ progress = NoProgress
  /\ guard = NoGuard /\ pending = Work
  /\ stop \in BOOLEAN /\ stopKept = stop /\ interventions = 0

-----------------------------------------------------------------------------
(* The tasks of an execution                                               *)

\* Ends of an attempt: ok, or a failure reported as temporary or permanent, or a
\* silent one, without a report.
Ended == {"ok", "temporary", "permanent", "silent"}
IsOver(t) == tasks[t].at = "ok" \/ (tasks[t].at \in Ended /\ tasks[t].attempt = MaxRetries)
Alive(t) == tasks[t].at # "none" /\ ~IsOver(t) /\ ~cancelled
Failed == \E t \in Task : IsOver(t) /\ tasks[t].at # "ok"

EndAs(t, at) == tasks' = [tasks EXCEPT ![t].at = at]
Report(t, state, marked) ==
  reports' = [reports EXCEPT ![t] = [state |-> state, attempt |-> tasks[t].attempt, marked |-> marked]]

Final == {"completed", "continuing", "paused", "failed"}
AggregateState(rs) ==
  IF \E t \in Task : rs[t].state \notin Final THEN "running"
  ELSE IF \E t \in Task : rs[t].state = "failed" THEN "failed"
  ELSE IF \E t \in Task : rs[t].state = "paused" THEN "paused"
  ELSE IF pending = 0 THEN "completed" ELSE "continuing"

RecoverableCohort(rs) ==
  /\ AggregateState(rs) = "failed"
  /\ \A t \in Task : rs[t].state \in {"failed", "completed", "continuing"}
  /\ \A t \in Task : rs[t].state = "failed" => rs[t].marked

\* A task publishes while it owns the guard, and may fail to.
Publish(rs) ==
  \/ /\ guard.owner = execution
     /\ \E d \in BOOLEAN :
          progress' = [execution |-> execution, state |-> AggregateState(rs),
                       recoverable |-> RecoverableCohort(rs),
                       downloading |-> d /\ AggregateState(rs) = "running",
                       pending |-> pending, workers |-> rs]
  \/ UNCHANGED progress

\* Cloud Run starts an attempt, the first or the next.
StartTask(t) ==
  /\ ~cancelled
  /\ \/ tasks[t].at = "due" /\ tasks' = [tasks EXCEPT ![t].at = "up"]
     \/ /\ tasks[t].at \in Ended \ {"ok"} /\ tasks[t].attempt < MaxRetries
        /\ tasks' = [tasks EXCEPT ![t] = [at |-> "up", attempt |-> @.attempt + 1]]
  /\ UNCHANGED <<wf, execution, reports, cancelled, Storage>>

\* It finds the guard free, expired or its cohort's, and reports.
Join(t) ==
  /\ tasks[t].at = "up" /\ ~cancelled /\ (guard.owner \in {0, execution} \/ guard.ttl = 0)
  /\ guard' = [owner |-> execution, ttl |-> GuardTtl]
  /\ tasks' = [tasks EXCEPT ![t].at = "joined"] /\ Report(t, "running", FALSE)
  /\ Publish(reports')
  /\ UNCHANGED <<wf, execution, cancelled, pending, stop, interventions, stopKept>>

Running(t) == tasks[t].at = "joined" /\ ~cancelled

Crawl(t) ==
  /\ Running(t) /\ guard.owner = execution /\ pending > 0 /\ pending' = pending - 1
  /\ guard' = [guard EXCEPT !.ttl = GuardTtl] /\ Publish(reports)
  /\ UNCHANGED <<wf, Cloud, stop, interventions, stopKept>>

\* It has drained its articles, and reports and publishes its final state.
Finish(t) ==
  /\ Running(t) /\ guard.owner = execution
  /\ Report(t, IF stop THEN "paused" ELSE IF pending = 0 THEN "completed" ELSE "continuing", FALSE)
  /\ tasks' = [tasks EXCEPT ![t].at = "finished"]
  /\ Publish(reports')
  /\ UNCHANGED <<wf, execution, cancelled, guard, pending, stop, interventions, stopKept>>

\* The last one deletes the guard.
Exit(t) ==
  /\ tasks[t].at = "finished" /\ ~cancelled /\ EndAs(t, "ok")
  /\ guard' = IF progress.execution = execution /\ progress.state \in Final \ {"failed"}
                 /\ guard.owner = execution THEN NoGuard ELSE guard
  /\ UNCHANGED <<wf, execution, reports, cancelled, progress, pending, stop, interventions, stopKept>>

\* An exception: the task reports it with its marker, and publishes.
Abort(t, marked) ==
  /\ tasks[t].at \in {"up", "joined", "finished"} /\ ~cancelled /\ guard.owner = execution
  /\ EndAs(t, IF marked THEN "temporary" ELSE "permanent") /\ Report(t, "failed", marked)
  /\ Publish(reports')
  /\ UNCHANGED <<wf, execution, cancelled, guard, pending, stop, interventions, stopKept>>

\* The attempt is killed, or cannot report.
Crash(t) ==
  /\ tasks[t].at \in {"up", "joined", "finished"} /\ EndAs(t, "silent")
  /\ UNCHANGED <<wf, execution, reports, cancelled, Storage>>

-----------------------------------------------------------------------------
(* Operators                                                               *)

Intervene == interventions < Interventions /\ interventions' = interventions + 1

SetStop ==
  /\ ~stop /\ stop' = TRUE /\ stopKept' = (wf.at # "launch") /\ Intervene
  /\ UNCHANGED <<wf, Cloud, progress, guard, pending>>
ClearStop ==
  /\ stop /\ stop' = FALSE /\ stopKept' = FALSE /\ Intervene
  /\ UNCHANGED <<wf, Cloud, progress, guard, pending>>
Cancel ==
  /\ execution > 0 /\ ~cancelled /\ (\E t \in Task : ~IsOver(t)) /\ cancelled' = TRUE /\ Intervene
  /\ UNCHANGED <<wf, execution, tasks, reports, progress, guard, pending, stop, stopKept>>
\* A handover reserves the guard, a verified release deletes it.
Reserve ==
  /\ guard' \in {[owner |-> Other, ttl |-> GuardTtl], NoGuard} /\ guard' # guard /\ Intervene
  /\ UNCHANGED <<wf, Cloud, progress, pending, stop, stopKept>>

Tick ==
  /\ guard' = [guard EXCEPT !.ttl = IF @ > 0 THEN @ - 1 ELSE 0]
  /\ wf' = [wf EXCEPT !.until = IF @ > 0 THEN @ - 1 ELSE 0]
  /\ UNCHANGED <<Cloud, progress, pending, stop, interventions, stopKept>>

-----------------------------------------------------------------------------
(* The coordinator                                                         *)

At(at) == wf.at = at
Go(at) == wf' = [wf EXCEPT !.at = at]
Raise == Go("raised") /\ UNCHANGED <<Cloud, Storage>>

\* checkStop, honorStop
CheckStop ==
  /\ At("checkStop") /\ Go(IF stop THEN "paused" ELSE "launch") /\ UNCHANGED <<Cloud, Storage>>

\* runCrawler: the request may be lost, before or after it has created an execution.
Launch ==
  /\ At("launch") /\ execution < MaxExecutions
  /\ execution' = execution + 1 /\ tasks' = [t \in Task |-> [Idle EXCEPT !.at = "due"]]
  /\ reports' = [t \in Task |-> NoReport] /\ cancelled' = FALSE
  /\ wf' \in {[wf EXCEPT !.at = at] : at \in {"running", "raised"}}
  /\ UNCHANGED Storage
LaunchLost == At("launch") /\ Raise

\* A poll that fails does not tell how the execution went.
PollLost == At("running") /\ Raise

\* The operation is done.  It has failed as soon as a task is out of attempts.
Returned ==
  /\ At("running") /\ (cancelled \/ Failed \/ \A t \in Task : IsOver(t))
  /\ wf' = [wf EXCEPT !.at = "confirm", !.failed = cancelled \/ Failed]
  /\ UNCHANGED <<Cloud, Storage>>

\* Faulty variant: the operation's end is taken for the execution's.
AnyTermination == TRUE
ConfirmedTermination == ~cancelled /\ \A t \in Task : ~Alive(t)
\* confirmExecution, rejectCancelledExecution, validateTermination
Confirm ==
  /\ At("confirm") /\ Go(IF ConfirmedTermination THEN "progress" ELSE "raised")
  /\ UNCHANGED <<Cloud, Storage>>

ValidProgress ==
  /\ progress.execution = execution /\ ~progress.downloading
  /\ progress.state = "completed" => progress.pending = 0

\* Faulty variant: the reports' attempts are not compared.
MarkersOnly == progress.recoverable
\* confirmFinalNativeAttempts
CanRecover ==
  /\ progress.recoverable
  /\ MaxRetries > 0 =>
       \A t \in Task : /\ progress.workers[t].state # "none"
                       /\ progress.workers[t].state = "failed" => progress.workers[t].attempt = MaxRetries

Recovers ==
  /\ wf.failed /\ progress.state = "failed" /\ CanRecover /\ progress.pending > 0
  /\ wf.restarts < MaxRestarts

Decided(why, at) ==
  /\ wf' = [wf EXCEPT !.at = at, !.why = why,
              !.restarts = IF why = "recovery" THEN @ + 1 ELSE @,
              !.until = IF why = "recovery" THEN wf.restarts + 1 ELSE @]
  /\ stopKept' = stop /\ UNCHANGED <<Cloud, progress, guard, pending, stop, interventions>>

\* readProgress to finished
Decide ==
  /\ At("progress")
  /\ IF ~ValidProgress THEN Raise
     ELSE IF progress.state = "continuing" /\ progress.pending > 0 THEN Decided("rotation", "checkStop")
     ELSE IF Recovers THEN Decided("recovery", "sleep")
     ELSE Go("returned") /\ UNCHANGED <<Cloud, Storage>>

\* Faulty variant: STOP is not looked at again.
ResumeAtLaunch == "launch"
ResumeAt == "checkStop"
WakeTo == "guard"
Wake ==
  /\ At("sleep") /\ wf.until = 0
  /\ wf' = [wf EXCEPT !.at = WakeTo, !.until = GuardDeadline] /\ UNCHANGED <<Cloud, Storage>>

\* wait_for_old_guard; otherwise it reads the guard again after 30 seconds.
AwaitGuard ==
  /\ At("guard")
  /\ Go(IF guard.owner = 0 \/ (guard.owner = execution /\ guard.ttl = 0) THEN ResumeAt
        ELSE IF guard.owner # execution THEN "raised"
        ELSE IF wf.until = 0 THEN "stuck" ELSE "guard")
  /\ UNCHANGED <<Cloud, Storage>>

Next ==
  \/ \E t \in Task : \/ StartTask(t) \/ Join(t) \/ Crawl(t) \/ Finish(t) \/ Exit(t)
                     \/ (\E m \in BOOLEAN : Abort(t, m)) \/ Crash(t)
  \/ SetStop \/ ClearStop \/ Cancel \/ Reserve \/ Tick
  \/ CheckStop \/ Launch \/ LaunchLost \/ PollLost \/ Returned \/ Confirm \/ Decide \/ Wake \/ AwaitGuard

Spec == Init /\ [][Next]_vars

-----------------------------------------------------------------------------
(* Properties                                                              *)

\* It includes that a terminal execution's guard expires within the time that the
\* coordinator waits for it (at is never stuck).
TypeOK ==
  /\ wf.at \in {"checkStop", "launch", "running", "confirm", "progress", "sleep", "guard",
                "paused", "raised", "returned"}
  /\ wf.why \in {"start", "rotation", "recovery"} /\ wf.failed \in BOOLEAN
  /\ wf.restarts \in 0..MaxRestarts /\ wf.until \in Nat
  /\ execution \in 0..MaxExecutions /\ cancelled \in BOOLEAN
  /\ tasks \in [Task -> [at : {"none", "due", "up", "joined", "finished"} \cup Ended, attempt : 0..MaxRetries]]
  /\ reports \in [Task -> [state : Final \cup {"none", "running"}, attempt : 0..MaxRetries, marked : BOOLEAN]]
  /\ progress.execution \in 0..MaxExecutions /\ guard.owner \in {Other} \cup 0..MaxExecutions
  /\ guard.ttl \in 0..GuardTtl /\ pending \in 0..Work /\ stop \in BOOLEAN
  /\ interventions \in 0..Interventions /\ stopKept \in BOOLEAN

Relaunch == execution' # execution /\ execution > 0

\* "The worker checkpoints and releases its lease before returning continuing; only
\* then may we relaunch": a coordinator never runs two executions at once, and a
\* cancelled one is never followed by another.
OneAfterAnother == Relaunch => ~cancelled /\ \A t \in Task : ~Alive(t)
OneExecution == [][OneAfterAnother]_vars

\* "An earlier attempt's marker cannot authorize a restart after a later unreported
\* crash": before a recovery the last attempt of every task failed with the marker,
\* or the progress had the task down as done.
RecoveryIsMarked ==
  [][wf'.restarts > wf.restarts =>
       \A t \in Task : \/ tasks[t].at = "temporary"
                      \/ progress.workers[t].state \in {"completed", "continuing"}]_vars

\* "It checks STOP before launching": a STOP that is set before the decision to go on,
\* during the backoff or while the old guard is waited for, and stays, prevents the launch.
StopHonored == [][execution' # execution => ~stopKept]_vars
=============================================================================
