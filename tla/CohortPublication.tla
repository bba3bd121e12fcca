------------------------- MODULE CohortPublication -------------------------
(***************************************************************************)
(* How the tasks of a crawl publish its progress (publish,                 *)
(* publication_gate, aggregate_state and the end of run in                 *)
(* crawler/distributed_worker.py).                                         *)
(*                                                                         *)
(* Every task reports its state in a worker document, aggregates those of  *)
(* its cohort with the queue's counters, and replaces the private progress *)
(* object if its generation is still the one it read first; then it copies *)
(* the latest progress to the public object in the same way.  Before every *)
(* write it looks at the cohort guard, and the write does not depend on    *)
(* the guard.  A peer that finished earlier may have deleted it.           *)
(*                                                                         *)
(* A process here is one attempt of a task.  When Cloud Run kills one, the *)
(* request it had sent may still arrive, also after the next attempt has   *)
(* started.                                                                *)
(***************************************************************************)
EXTENDS Integers, FiniteSets

CONSTANTS
  Execution,    \* executions, one after the other on the same collection
  Task,         \* task numbers of each execution
  Process,      \* attempts
  ExecutionOf, TaskOf, AttemptOf,  \* of a process
  Total,        \* articles of the collection
  MaxConflicts, \* publish starts again after so many conflicts (4)
  Successor,    \* the execution that replaces an execution, or None
  Goals,        \* final states that tasks reach by themselves
  Fragile,      \* processes whose requests fail and that may be killed
  None

\* TERMINAL_WORKERS; paused stands for the states that keep the collection stopped.
Success == {"completed", "continuing", "paused"}

\* Attempts of a task are numbered; a handover replaces one execution.
ProcessAssumption ==
  /\ ExecutionOf \in [Process -> Execution] /\ TaskOf \in [Process -> Task]
  /\ AttemptOf \in [Process -> Nat] /\ IsFiniteSet(Task)
  /\ \A p, q \in Process :
       ExecutionOf[p] = ExecutionOf[q] /\ TaskOf[p] = TaskOf[q] /\ AttemptOf[p] = AttemptOf[q] => p = q
  /\ Successor \in [Execution -> Execution \cup {None}]
  /\ \A d, e \in Execution : Successor[d] = Successor[e] /\ Successor[e] # None => d = e
  /\ None \notin Execution \cup {"starting", "running", "exporting", "failed"} \cup Success
BoundAssumption ==
  /\ Total \in Nat /\ MaxConflicts \in Nat
  /\ Goals \subseteq Success
  /\ Fragile \subseteq Process

VARIABLES
  owner,      \* execution that owns the guard; None: there is no guard
  retired,    \* executions with a retirement marker
  processed,  \* articles done, the sum of the counter shards
  busy,       \* processes that hold an article
  proc,       \* where each process is
  records,    \* the state in each worker document
  active,     \* worker documents that are recent and list an article
  progress,   \* the private progress object
  public,     \* the public progress object
  seen,       \* processes that have read the present generation of progress
  seenPublic, \* ... and of public
  killed,     \* processes that only have a request on its way
  announced,  \* history: attempts that have reported a final state but failed
  tookOver,   \* history: attempts whose first report found none of the task's announced
  stored      \* history: executions whose progress has been final

vars == <<owner, retired, processed, busy, proc, records, active, progress, public,
          seen, seenPublic, killed, announced, tookOver, stored>>

Terminal == Success \cup {"failed"}

NoSnapshot == [execution |-> None, state |-> "none", processed |-> 0, downloading |-> FALSE]
Snapshot == [execution : Execution \cup {None}, state : Terminal \cup {"running", "none"},
             processed : 0..Total, downloading : BOOLEAN]

\* goal: the state of the main loop; then: where publication_gate or the
\* heartbeat goes on to; last: the final heartbeat has been sent; draft: the
\* summary it composes; latest: the progress it is about to copy.
Down == [at |-> "down", then |-> "up", goal |-> "starting", last |-> FALSE, tries |-> 0,
         draft |-> NoSnapshot, latest |-> NoSnapshot]
Location == {"down", "up", "export", "last", "beat", "gate", "verify", "confirm", "reload", "count",
             "list", "write", "public", "latest", "copy", "peers", "delete", "failed", "report",
             "exited", "dead"}
Local == [at : Location, then : {"up", "export", "last", "reload", "report", "write", "copy"},
          goal : Success \cup {"starting", "running", "failed"}, last : BOOLEAN,
          tries : 0..MaxConflicts, draft : Snapshot, latest : Snapshot]

Init ==
  /\ owner = None /\ retired = {} /\ processed = 0 /\ busy = {}
  /\ proc = [p \in Process |-> Down] /\ records = [p \in Process |-> None]
  /\ active = {} /\ progress = NoSnapshot /\ public = NoSnapshot
  /\ seen = {} /\ seenPublic = {} /\ killed = {} /\ announced = {} /\ tookOver = {}
  /\ stored = {}

-----------------------------------------------------------------------------
(* The worker documents of a cohort                                        *)

Peers(p) == {q \in Process : ExecutionOf[q] = ExecutionOf[p] /\ TaskOf[q] = TaskOf[p]}
Earlier(p) == {q \in Peers(p) : AttemptOf[q] < AttemptOf[p]}
Later(p) == {q \in Peers(p) : AttemptOf[q] > AttemptOf[p]}
Started(p) == proc[p].at # "down"

\* Faulty variant: whichever attempt of a task comes first.
FirstWorkers(e) ==
  {p \in Process : /\ ExecutionOf[p] = e /\ records[p] # None
                   /\ \A q \in Earlier(p) : records[q] = None}
LatestWorkers(e) ==
  {p \in Process : /\ ExecutionOf[p] = e /\ records[p] # None
                   /\ \A q \in Later(p) : records[q] = None}

AllIn(e, states) ==
  /\ Cardinality(LatestWorkers(e)) = Cardinality(Task)
  /\ \A p \in LatestWorkers(e) : records[p] \in states
AnyIs(e, state) == \E p \in LatestWorkers(e) : records[p] = state

AggregateState(e, done) ==
  IF ~AllIn(e, Terminal) THEN "running"
  ELSE IF AnyIs(e, "failed") THEN "failed"
  ELSE IF AnyIs(e, "paused") THEN "paused"
  ELSE IF done >= Total THEN "completed" ELSE "continuing"

-----------------------------------------------------------------------------
(* A task's life                                                           *)

At(p, at) == proc[p].at = at
\* A process that was killed does nothing after the request on its way.
Becomes(p, r) ==
  proc' = [proc EXCEPT ![p] = IF p \in killed THEN [Down EXCEPT !.at = "dead"] ELSE r]
Go(p, at) == Becomes(p, [proc[p] EXCEPT !.at = at])
GateTo(p, then) == Becomes(p, [proc[p] EXCEPT !.at = "gate", !.then = then])
Ends(p, at) == Becomes(p, [Down EXCEPT !.at = at])
\* An exception sets the abort event; in the abort path it is swallowed.
Fails(p) == Ends(p, IF proc[p].goal = "failed" THEN "dead" ELSE "failed")

Guard == <<owner, retired>>
Queue == <<processed, busy>>
Workers == <<records, active, killed, announced, tookOver>>
Objects == <<progress, public, seen, seenPublic, stored>>

\* startup_state and lease_update(initial=True): the guard is the cohort's or
\* nobody's.  A successor is launched for the handover.
Join(p) ==
  /\ At(p, "down") /\ \A q \in Earlier(p) : At(q, "dead") \/ q \in killed
  /\ ExecutionOf[p] \notin retired /\ owner \in {None, ExecutionOf[p]}
  /\ \A e \in Execution : Successor[e] = ExecutionOf[p] => e \in retired
  /\ owner' = ExecutionOf[p]
  /\ Go(p, "beat")
  /\ UNCHANGED <<retired, Queue, Workers, Objects>>

\* lease_update in a heartbeat: of the main loop, before the exports, and the last.
Renew(p) ==
  /\ proc[p].at \in {"up", "export", "last"}
  /\ IF owner = ExecutionOf[p]
     THEN Becomes(p, [proc[p] EXCEPT !.at = "beat", !.then = proc[p].at])
     ELSE Fails(p)
  /\ UNCHANGED <<Guard, Queue, Workers, Objects>>

\* The heartbeat reaches the queue.  The main loop reports its goal while the
\* last articles drain.  The first heartbeat and the last are followed by publish.
Report(p) ==
  /\ At(p, "beat")
  /\ records' = [records EXCEPT ![p] = IF proc[p].then = "export" THEN "exporting" ELSE proc[p].goal]
  /\ announced' = IF records'[p] \in Success THEN announced \cup {p} ELSE announced
  /\ active' = IF p \in busy THEN active \cup {p} ELSE active \ {p}
  /\ tookOver' = IF records[p] = None /\ Earlier(p) \cap announced = {}
                 THEN tookOver \cup {p} ELSE tookOver
  /\ CASE proc[p].then = "export" -> Go(p, "last")
       [] proc[p].then = "last" ->
            Becomes(p, [proc[p] EXCEPT !.at = "gate", !.then = "reload", !.last = TRUE])
       [] proc[p].goal = "starting" -> GateTo(p, "reload")
       [] OTHER -> Go(p, "up")
  /\ UNCHANGED <<Guard, Queue, killed, Objects>>

\* A worker document is ninety seconds old.
Age(p) ==
  /\ p \in active /\ active' = active \ {p}
  /\ UNCHANGED <<Guard, Queue, proc, records, killed, announced, tookOver, Objects>>

Claim(p) ==
  /\ At(p, "up") /\ proc[p].goal = "running" /\ p \notin busy
  /\ processed + Cardinality(busy) < Total /\ busy' = busy \cup {p}
  /\ UNCHANGED <<Guard, processed, proc, Workers, Objects>>

Complete(p) ==
  /\ At(p, "up") /\ p \in busy /\ processed' = processed + 1 /\ busy' = busy \ {p}
  /\ UNCHANGED <<Guard, proc, Workers, Objects>>

\* The lease of a dead process ends.
LoseClaim(p) ==
  /\ p \in busy /\ (At(p, "dead") \/ p \in killed) /\ busy' = busy \ {p}
  /\ UNCHANGED <<Guard, processed, proc, Workers, Objects>>

\* The main loop publishes every thirty seconds, also while it drains.
Publish(p) ==
  /\ At(p, "up") /\ GateTo(p, "reload")
  /\ UNCHANGED <<Guard, Queue, Workers, Objects>>

\* The loop has ended; STOP and limits are looked at again.
Ended(p, goal) ==
  \E final \in {goal} \cup (IF goal = "continuing" THEN Goals \cap {"paused"} ELSE {}) :
    Becomes(p, [proc[p] EXCEPT !.at = "export", !.goal = final])

\* Rotation, STOP or a limit; or a summary has said that all is done.  The loop
\* goes on while an article is active.
Decide(p, goal) ==
  /\ At(p, "up") /\ proc[p].goal = "running" /\ goal \in Goals
  /\ goal = "completed" => p \notin busy /\ processed = Total
  /\ IF p \in busy THEN Becomes(p, [proc[p] EXCEPT !.goal = goal]) ELSE Ended(p, goal)
  /\ UNCHANGED <<Guard, Queue, Workers, Objects>>

\* The last active article is done; a heartbeat may still have been due.
Drained(p) ==
  /\ At(p, "up") /\ proc[p].goal \in Success /\ p \notin busy /\ Ended(p, proc[p].goal)
  /\ UNCHANGED <<Guard, Queue, Workers, Objects>>

\* Any error of a request; the process stops asking for articles and drains.
Fail(p) ==
  /\ p \in Fragile /\ proc[p].at \notin {"down", "failed", "exited", "dead"} /\ Fails(p)
  /\ UNCHANGED <<Guard, Queue, Workers, Objects>>

\* The process is killed before its last heartbeat: a heartbeat or a write may
\* be on its way.
Kill(p) ==
  /\ p \in Fragile /\ proc[p].at \notin {"down", "exited", "dead"} /\ ~proc[p].last /\ p \notin killed
  /\ IF proc[p].at \in {"beat", "report", "write", "copy"}
     THEN killed' = killed \cup {p} /\ UNCHANGED proc
     ELSE Ends(p, "dead") /\ UNCHANGED killed
  /\ UNCHANGED <<Guard, Queue, records, active, announced, tookOver, Objects>>

\* The abort path releases the claims, reports the failure if the cohort may
\* still publish, and publishes.
Abort(p) ==
  /\ At(p, "failed") /\ busy' = busy \ {p}
  /\ Becomes(p, [Down EXCEPT !.at = "gate", !.then = "report", !.goal = "failed"])
  /\ UNCHANGED <<Guard, processed, Workers, Objects>>

ReportFailure(p) ==
  /\ At(p, "report") /\ records' = [records EXCEPT ![p] = "failed"] /\ active' = active \ {p}
  /\ GateTo(p, "reload") /\ UNCHANGED <<Guard, Queue, killed, announced, tookOver, Objects>>

-----------------------------------------------------------------------------
(* publication_gate and publish                                            *)

Returns(p) ==
  IF proc[p].goal = "failed" THEN Ends(p, "dead")
  ELSE IF proc[p].last THEN Becomes(p, [proc[p] EXCEPT !.at = "peers", !.latest = NoSnapshot])
  ELSE Becomes(p, [Down EXCEPT !.at = "up",
                               !.goal = IF proc[p].goal = "starting" THEN "running" ELSE proc[p].goal])

\* Faulty variant: the guard is looked at once, before the summary is composed.
GateOnce(p) ==
  /\ At(p, "gate")
  /\ IF owner = ExecutionOf[p] \/ proc[p].then \in {"write", "copy"} THEN Go(p, proc[p].then)
     ELSE IF owner = None /\ ExecutionOf[p] \notin retired THEN Go(p, "verify") ELSE Fails(p)
  /\ UNCHANGED <<Guard, Queue, Workers, Objects>>
\* publication_guard: the cohort's guard, no guard, or somebody else's.
Gate(p) ==
  /\ At(p, "gate")
  /\ IF owner = ExecutionOf[p] THEN Go(p, proc[p].then)
     ELSE IF owner = None /\ ExecutionOf[p] \notin retired THEN Go(p, "verify") ELSE Fails(p)
  /\ UNCHANGED <<Guard, Queue, Workers, Objects>>

\* Without a guard only a final snapshot of the own cohort will do ...
Verify(p) ==
  /\ At(p, "verify")
  /\ IF /\ progress.execution = ExecutionOf[p] /\ progress.state \in Terminal
        /\ ~progress.downloading /\ (progress.state = "completed" => progress.processed = Total)
     THEN Becomes(p, [proc[p] EXCEPT !.at = "confirm", !.draft = progress])
     ELSE Fails(p)
  /\ UNCHANGED <<Guard, Queue, Workers, Objects>>

\* ... if there is still no guard; it is returned and nothing is written.
Confirm(p) ==
  /\ At(p, "confirm")
  /\ IF owner = None THEN Returns(p) ELSE Fails(p)
  /\ UNCHANGED <<Guard, Queue, Workers, Objects>>

Reload(p) ==
  /\ At(p, "reload") /\ seen' = seen \cup {p} /\ Go(p, "count")
  /\ UNCHANGED <<Guard, Queue, Workers, progress, public, seenPublic, stored>>

\* summary: the counters, and the articles listed in recent worker documents.
Count(p) ==
  /\ At(p, "count")
  /\ Becomes(p, [proc[p] EXCEPT !.at = "list", !.draft =
       [NoSnapshot EXCEPT !.execution = ExecutionOf[p], !.processed = processed,
                          !.downloading = (active # {} /\ processed < Total)]])
  /\ UNCHANGED <<Guard, Queue, Workers, Objects>>

List(p) ==
  /\ At(p, "list")
  /\ Becomes(p, [proc[p] EXCEPT !.at = "gate", !.then = "write",
                   !.draft.state = AggregateState(ExecutionOf[p], proc[p].draft.processed)])
  /\ UNCHANGED <<Guard, Queue, Workers, Objects>>

\* Faulty variant: a conflict is somebody else's newer snapshot, whatever it says.
GivesUp(p) == Returns(p)
\* A final snapshot must not lose to an older running one: once more from the start.
Conflict(p) ==
  IF proc[p].draft.state \notin Terminal THEN Returns(p)
  ELSE IF proc[p].tries >= MaxConflicts THEN Fails(p)
  ELSE Becomes(p, [proc[p] EXCEPT !.at = "gate", !.then = "reload", !.tries = @ + 1,
                                  !.draft = NoSnapshot])

MayReplace(p) == p \in seen

\* The conditional write; one that is sent again conflicts with itself.
Write(p) ==
  /\ At(p, "write")
  /\ IF MayReplace(p)
     THEN /\ progress' = proc[p].draft /\ seen' = {}
          /\ stored' = stored \cup (IF proc[p].draft.state \in Terminal THEN {ExecutionOf[p]} ELSE {})
          /\ Conflict(p) \/ Go(p, "public")
     ELSE UNCHANGED <<progress, seen, stored>> /\ Conflict(p)
  /\ UNCHANGED <<Guard, Queue, Workers, public, seenPublic>>

ReadPublic(p) ==
  /\ At(p, "public") /\ seenPublic' = seenPublic \cup {p} /\ Go(p, "latest")
  /\ UNCHANGED <<Guard, Queue, Workers, progress, public, seen, stored>>

ReadLatest(p) ==
  /\ At(p, "latest") /\ Becomes(p, [proc[p] EXCEPT !.at = "gate", !.then = "copy", !.latest = progress])
  /\ UNCHANGED <<Guard, Queue, Workers, Objects>>

\* The public write; a conflict is ignored.
Copy(p) ==
  /\ At(p, "copy")
  /\ IF proc[p].latest.execution # ExecutionOf[p]
     THEN Fails(p) /\ UNCHANGED <<public, seenPublic>>
     ELSE /\ Returns(p)
          /\ IF p \in seenPublic THEN public' = proc[p].latest /\ seenPublic' = {}
             ELSE UNCHANGED <<public, seenPublic>>
  /\ UNCHANGED <<Guard, Queue, Workers, progress, seen, stored>>

-----------------------------------------------------------------------------
(* The end of a cohort                                                     *)

\* release_cohort_lease: the guard stays for native retries and running peers.
ListPeers(p) ==
  /\ At(p, "peers")
  /\ IF proc[p].draft.state \in Success /\ AllIn(ExecutionOf[p], Success)
     THEN Go(p, "delete") ELSE Ends(p, "exited")
  /\ UNCHANGED <<Guard, Queue, Workers, Objects>>

Delete(p) ==
  /\ At(p, "delete") /\ Ends(p, "exited")
  /\ owner' = IF owner = ExecutionOf[p] THEN None ELSE owner
  /\ UNCHANGED <<retired, Queue, Workers, Objects>>

\* CohortGuard's handover: the old execution is marked while the guard is
\* reserved, then the next one owns the guard.
HandOver(e) ==
  /\ owner = e /\ Successor[e] # None /\ owner' = Successor[e] /\ retired' = retired \cup {e}
  /\ UNCHANGED <<Queue, proc, Workers, Objects>>

-----------------------------------------------------------------------------
Publishing(p) ==
  \/ Gate(p) \/ Verify(p) \/ Confirm(p) \/ Reload(p) \/ Count(p) \/ List(p) \/ Write(p)
  \/ ReadPublic(p) \/ ReadLatest(p) \/ Copy(p)

Next ==
  \/ \E p \in Process :
       \/ Join(p) \/ Renew(p) \/ Report(p) \/ Age(p) \/ Claim(p) \/ Complete(p) \/ LoseClaim(p)
       \/ Publish(p) \/ (\E goal \in Success : Decide(p, goal)) \/ Drained(p)
       \/ Fail(p) \/ Kill(p) \/ Abort(p) \/ ReportFailure(p)
       \/ Publishing(p) \/ ListPeers(p) \/ Delete(p)
  \/ \E e \in Execution : HandOver(e)

Spec == Init /\ [][Next]_vars

-----------------------------------------------------------------------------
(* Properties                                                              *)

\* Snapshots have their fields; a snapshot that is read or written has a state
\* of a cohort and no more articles than there are.
TypeOK ==
  /\ owner \in Execution \cup {None} /\ retired \subseteq Execution
  /\ processed \in 0..Total /\ busy \subseteq Process
  /\ proc \in [Process -> Local]
  /\ records \in [Process -> Terminal \cup {"starting", "running", "exporting", None}]
  /\ active \subseteq Process /\ seen \subseteq Process /\ seenPublic \subseteq Process
  /\ progress \in Snapshot /\ public \in Snapshot /\ announced \subseteq Process /\ tookOver \subseteq Process
  /\ killed \subseteq Process /\ stored \subseteq Execution

\* d comes after e in the chain of handovers.
Replaces(d, e) ==
  /\ d # e
  /\ \A S \in SUBSET Execution :
       e \in S /\ (\A x \in S : Successor[x] # None => Successor[x] \in S) => d \in S

\* publication_gate before every write: however late its requests arrive, no task
\* replaces the progress of a later cohort, private or public.
NewerCohortKept ==
  [][\A e \in Execution :
       /\ progress'.execution = e => ~Replaces(progress.execution, e)
       /\ public'.execution = e => ~Replaces(public.execution, e)]_vars

\* publish and release_cohort_lease: nobody goes on to delete the guard before a final
\* snapshot of the cohort has been stored, whatever conflicts and whoever deleted it before.
StoredBeforeRelease == \A p \in Process : At(p, "delete") => ExecutionOf[p] \in stored

\* latest_workers: "An old task attempt cannot outrank its replacement's
\* heartbeat."  While the replacement of an attempt that had not finished is at
\* work, a late report of the old attempt does not make the cohort look finished.
ReplacementCounts ==
  progress.state \in Success =>
    \A p \in tookOver :
      ExecutionOf[p] = progress.execution /\ (\A q \in Later(p) : records[q] = None)
        => p \in announced

\* crawler/README.md:304: tasks "stop scheduling new articles, drain active work,
\* flush all checkpoints, and release the global lease".  A task that has
\* finished does not release the guard while another still drains.
DrainedBeforeRelease ==
  [][\A p \in Process :
       At(p, "delete") /\ owner = ExecutionOf[p] /\ owner' = None
         => \A q \in busy : ExecutionOf[q] = ExecutionOf[p] => q \in killed \/ proc[q].at \in {"failed", "dead"}]_vars
=============================================================================
