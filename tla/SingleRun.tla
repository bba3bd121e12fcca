------------------------------ MODULE SingleRun ------------------------------
(***************************************************************************)
(* The run of one process without a shared queue (crawler/worker.py with   *)
(* memory_recovery.py and the buffers of result_store.py): the global      *)
(* lease, the checkpoints, the BigQuery loads and the memory restarts,     *)
(* over task retries and executions that overlap.                          *)
(*                                                                         *)
(* A process is <<execution, attempt>>.  What its only loop thread does to *)
(* the stores is a script of single calls; each of them may fail before or *)
(* after its effect, and the process may be killed or stalled between any  *)
(* two.  An object generation matters only in who holds the present one    *)
(* ("knows").  A result is reduced to its article: a deferred result, and  *)
(* two results of one article, are not distinguished.                      *)
(***************************************************************************)
EXTENDS Integers, Sequences, FiniteSets

CONSTANTS
  Article, Outlet, OutletOf,
  Process,        \* pairs <<execution, task attempt>>
  Workers,        \* config['workers']
  PerOutlet,      \* config['per_outlet_workers']
  CheckpointRows, \* rows of a checkpoint (50)
  EventRows,      \* rows of a load (1000)
  MaxRestarts,    \* MAX_MEMORY_RESTARTS
  Lease,          \* lease time (10 minutes)
  None

RunState == {"running", "failed", "paused_limit", "paused_by_operator", "interrupted", "continuing", "completed",
             "completed_with_deferred", "recovering_memory", "recovery_failed"}

RunAssumption ==
  /\ OutletOf \in [Article -> Outlet] /\ \A p \in Process : p[2] \in Nat
  /\ {Workers, PerOutlet, CheckpointRows, EventRows, Lease} \subseteq Nat \ {0}
  /\ MaxRestarts \in Nat /\ None \notin Process \cup Article \cup RunState

VARIABLES
  lease,      \* control/worker-lease.json: its owner and the time it has left
  knows,      \* processes whose self.lease.generation is the present one
  checkpoint, \* articles in the checkpoint objects
  loaded,     \* articles with a BigQuery event
  progress,   \* the state in progress.json
  restarts,   \* recovery/EXECUTION.json: memory_restarts
  recycled,   \* restarts of the interpreter that took place
  stop,       \* the STOP object
  proc        \* the processes

vars == <<lease, knows, checkpoint, loaded, progress, restarts, recycled, stop, proc>>
stores == <<lease, knows, checkpoint, loaded, progress>>

Execution == {p[1] : p \in Process}
Op == {"cpFull", "cpAll", "cpSome", "bqFull", "bqAll", "bqSome", "record", "queue", "renew", "load", "progress", "event"}
Stage == {"new", "restore", "loop", "result", "periodic", "memory", "final", "except", "release", "ended"}

New == [at |-> "new", state |-> "running", queue |-> {}, active |-> {}, paused |-> {}, done |-> {}, cp |-> {},
        bq |-> {}, script |-> <<>>, item |-> None, failed |-> FALSE, reduced |-> FALSE, reloading |-> FALSE]

\* Earlier executions may have left results.
Init ==
  /\ lease = [owner |-> None, left |-> 0] /\ knows = {}
  /\ checkpoint \in SUBSET Article /\ loaded \in SUBSET checkpoint
  /\ progress \in {None, "continuing"} /\ (progress = None => checkpoint = {}) /\ restarts = [e \in Execution |-> 0]
  /\ recycled = [e \in Execution |-> 0] /\ stop = FALSE /\ proc = [p \in Process |-> New]

Become(p, m) == proc' = [proc EXCEPT ![p] = m]
Head1(m) == IF m.script = <<>> \/ m.reloading THEN "none" ELSE Head(m.script)
Drop(m) == [m EXCEPT !.script = Tail(@)]

(* The scripts ***************************************************************)

Result == <<"cpFull", "record", "bqFull", "queue", "bqFull", "cpFull">>
Periodic == <<"renew", "progress", "cpSome", "bqSome">>
FlushBq == <<"cpAll", "renew", "load">>
\* Faulty variant: the final flush leaves the events to a restart.
CheckpointOnly == <<"cpAll">>
FlushFinal == <<"cpAll", "bqAll">>

Except(m) == [m EXCEPT !.at = "except", !.failed = TRUE, !.item = None, !.script = FlushFinal \o <<"progress">>]
Requeued(m) == {m.item} \ (m.done \cup {None})
\* A failed call: in a result or a periodic update the loop goes on without scheduling; the
\* handler of exceptions skips to its progress report.
Caught(m) ==
  [m EXCEPT !.at = "loop", !.state = "failed", !.failed = TRUE, !.script = <<>>, !.item = None,
            !.queue = @ \cup Requeued(m)]
Fails(m) ==
  CASE m.at \in {"result", "periodic"} -> Caught(m)
    [] m.at = "except" -> [m EXCEPT !.script = IF Head(@) = "progress" THEN <<>> ELSE <<"progress">>]
    [] OTHER -> Except(m)

(* The lease *****************************************************************)

Expired == lease.owner = None \/ lease.left = 0
\* retry_owns_lease: an earlier attempt of the same execution has ended.
RetryOwns(p) == lease.owner # None /\ lease.owner[1] = p[1] /\ lease.owner[2] < p[2]
Taken(p) == /\ lease' = [owner |-> p, left |-> Lease]
            /\ knows' = {p}

\* Run.__init__ and the start of run(): a task attempt starts when its predecessor has failed.
\* Its recovery state decides whether it works on one article at a time.
Start(p) ==
  /\ proc[p].at = "new" /\ \A q \in Process : q[1] = p[1] /\ q[2] < p[2] => proc[q].at = "ended" /\ proc[q].failed
  /\ IF Expired \/ RetryOwns(p)
     THEN /\ Taken(p)
          /\ Become(p, [New EXCEPT !.at = "restore", !.reduced = restarts[p[1]] > 0, !.done = checkpoint,
                                   !.bq = checkpoint, !.script = <<"bqAll">>])
     ELSE /\ Become(p, [New EXCEPT !.at = "ended", !.failed = TRUE]) /\ UNCHANGED <<lease, knows>>
  /\ UNCHANGED <<checkpoint, loaded, progress, restarts, recycled, stop>>

\* lease_update: fenced by the generation; its reload may see another's.
Renew(p) ==
  LET m == proc[p] IN
  /\ Head1(m) = "renew"
  /\ \/ p \in knows /\ Taken(p) /\ Become(p, [Drop(m) EXCEPT !.reloading = TRUE])
     \/ Become(p, Fails(m)) /\ UNCHANGED <<lease, knows>>
     \/ p \in knows /\ Become(p, Fails(m)) /\ lease' = [owner |-> p, left |-> Lease] /\ knows' = {}
  /\ UNCHANGED <<checkpoint, loaded, progress, restarts, recycled, stop>>
Reload(p) ==
  LET m == [proc[p] EXCEPT !.reloading = FALSE] IN
  /\ proc[p].reloading
  /\ IF lease.owner # None
     THEN Become(p, m) /\ knows' = knows \cup {p}
     ELSE Become(p, Fails(m)) /\ UNCHANGED knows
  /\ UNCHANGED <<lease, checkpoint, loaded, progress, restarts, recycled, stop>>

(* The buffers ***************************************************************)

Wanted(op, buffer, rows) == buffer # {} /\ (op \in {"cpFull", "bqFull"} => Cardinality(buffer) >= rows)
May(op) == op \in {"cpSome", "bqSome"}

FlushCheckpoint(p) ==
  LET m == proc[p] IN
  /\ Head1(m) \in {"cpFull", "cpAll", "cpSome"} /\ Wanted(Head1(m), m.cp, CheckpointRows)
  /\ \/ checkpoint' = checkpoint \cup m.cp /\ Become(p, [Drop(m) EXCEPT !.cp = {}])
     \/ checkpoint' \in {checkpoint, checkpoint \cup m.cp} /\ Become(p, Fails(m))
  /\ UNCHANGED <<lease, knows, loaded, progress, restarts, recycled, stop>>
FlushEvents(p) ==
  LET m == proc[p] IN
  /\ Head1(m) \in {"bqFull", "bqAll", "bqSome"} /\ Wanted(Head1(m), m.bq, EventRows)
  /\ Become(p, [m EXCEPT !.script = FlushBq \o Tail(@)])
  /\ UNCHANGED <<stores, restarts, recycled, stop>>
Skip(p) ==
  LET m == proc[p] IN
  /\ \/ Head1(m) \in {"cpFull", "cpAll", "cpSome"} /\ ~Wanted(Head1(m), m.cp, CheckpointRows)
     \/ Head1(m) \in {"bqFull", "bqAll", "bqSome"} /\ ~Wanted(Head1(m), m.bq, EventRows)
     \/ May(Head1(m))
  /\ Become(p, Drop(m))
  /\ UNCHANGED <<stores, restarts, recycled, stop>>

Load(p) ==
  LET m == proc[p] IN
  /\ Head1(m) = "load"
  /\ \/ loaded' = loaded \cup m.bq /\ Become(p, [Drop(m) EXCEPT !.bq = {}])
     \/ loaded' \in {loaded, loaded \cup m.bq} /\ Become(p, Fails(m))
  /\ UNCHANGED <<lease, knows, checkpoint, progress, restarts, recycled, stop>>

Buffer(p) ==
  LET m == proc[p] IN
  /\ \/ Head1(m) = "record" /\ Become(p, [Drop(m) EXCEPT !.cp = @ \cup {m.item}, !.done = @ \cup {m.item}])
     \/ Head1(m) = "queue" /\ Become(p, [Drop(m) EXCEPT !.bq = @ \cup {m.item}])
  /\ UNCHANGED <<stores, restarts, recycled, stop>>

\* Progress is written without asking who holds the lease.
Report(p) ==
  LET m == proc[p]
      written == IF Head1(m) = "event" THEN progress ELSE IF m.at = "except" THEN "failed" ELSE m.state
  IN /\ Head1(m) \in {"progress", "event"}
     /\ \/ progress' = written /\ Become(p, Drop(m))
        \/ progress' \in {progress, written} /\ Become(p, Fails(m))
     /\ UNCHANGED <<lease, knows, checkpoint, loaded, restarts, recycled, stop>>

(* The loop ******************************************************************)

Ready(p, s) == proc[p].at = s /\ proc[p].script = <<>> /\ ~proc[p].reloading
Quiet == UNCHANGED <<stores, restarts, recycled, stop>>

Restored(p) ==
  /\ Ready(p, "restore") /\ Become(p, [proc[p] EXCEPT !.at = "loop", !.queue = Article \ proc[p].done])
  /\ Quiet

Update(p) ==
  /\ Ready(p, "loop") /\ Become(p, [proc[p] EXCEPT !.at = "periodic", !.script = Periodic]) /\ Quiet
\* A spent budget may pause the run, and STOP does.
Updated(p) ==
  /\ Ready(p, "periodic")
  /\ \E s \in {proc[p].state, "paused_limit"} :
       Become(p, [proc[p] EXCEPT !.at = "loop", !.state = IF proc[p].failed THEN @
                                                          ELSE IF stop THEN "paused_by_operator" ELSE s])
  /\ Quiet
\* A signal, or the rotation.
Turn(p) ==
  LET m == proc[p] IN
  /\ Ready(p, "loop") /\ ~m.failed
  /\ \/ Become(p, [m EXCEPT !.state = "interrupted"])
     \/ m.state = "running" /\ m.done # Article /\ Become(p, [m EXCEPT !.state = "continuing"])
  /\ Quiet

InFlight(m, o) == Cardinality({a \in m.active : OutletOf[a] = o})
Eligible(m) ==
  {a \in m.queue : OutletOf[a] \notin m.paused /\ InFlight(m, OutletOf[a]) < PerOutlet
                   /\ Cardinality(m.active) < IF m.reduced THEN 1 ELSE Workers}
Schedule(p) ==
  /\ Ready(p, "loop") /\ proc[p].state = "running"
  /\ \E a \in Eligible(proc[p]) : Become(p, [proc[p] EXCEPT !.queue = @ \ {a}, !.active = @ \cup {a}])
  /\ Quiet
Finish(p) ==
  LET m == proc[p] IN
  /\ Ready(p, "loop")
  /\ \E a \in m.active :
       LET n == [m EXCEPT !.active = @ \ {a}, !.item = a]
       IN Become(p, [n EXCEPT !.at = "result", !.script = Result]) \/ Become(p, Caught(n))
  /\ Quiet
\* A blocked or rate limited outlet is paused for the rest of the process.
Finished(p) ==
  /\ Ready(p, "result")
  /\ \E paused \in {{}, {OutletOf[proc[p].item]}} :
       Become(p, [proc[p] EXCEPT !.at = "loop", !.item = None, !.paused = @ \cup paused])
  /\ Quiet

Pressure(p) ==
  LET m == proc[p] IN
  /\ Ready(p, "loop") /\ m.state = "running" /\ m.active = {} /\ m.queue # {}
  /\ Become(p, [m EXCEPT !.at = "memory", !.script = FlushFinal]) /\ Quiet

MayRestart(e) == restarts[e] < MaxRestarts
Reserved(p) == [restarts EXCEPT ![p[1]] = @ + 1]
\* reserve_restart, when reclaiming did not help.  The run then ends its loop.
Relieve(p) ==
  LET m == proc[p] IN
  /\ Ready(p, "memory") /\ UNCHANGED <<stores, recycled, stop>>
  /\ \/ Become(p, [m EXCEPT !.at = "loop"]) /\ UNCHANGED restarts
     \/ /\ MayRestart(p[1])
        /\ \/ restarts' = Reserved(p)
              /\ Become(p, [m EXCEPT !.at = "final", !.state = "recovering_memory", !.script = FlushFinal \o <<"progress", "event">>])
           \/ restarts' \in {restarts, Reserved(p)} /\ Become(p, Except(m))
     \/ /\ ~MayRestart(p[1]) /\ UNCHANGED restarts
        /\ Become(p, [m EXCEPT !.at = "final", !.state = "recovery_failed", !.script = FlushFinal \o <<"progress", "event">>])

\* The end of the loop, and the second look at a run that would continue.
Over(m) == m.active = {} /\ (m.state # "running" \/ Eligible(m) = {})
Ending(m) ==
  CASE m.state = "running" -> {IF m.queue = {} THEN "completed" ELSE "completed_with_deferred"}
    [] m.state = "continuing" -> {"interrupted"} \cup IF stop THEN {"paused_by_operator"}
                                 ELSE IF m.done = Article THEN {"completed"} ELSE {"paused_limit", "continuing"}
    [] OTHER -> {m.state}
Leave(p) ==
  LET m == proc[p] IN
  /\ Ready(p, "loop") /\ Over(m) /\ Quiet
  /\ IF m.failed THEN Become(p, Except(m))
     ELSE \E s \in Ending(m) : Become(p, [m EXCEPT !.at = "final", !.state = s, !.script = FlushFinal \o <<"progress", "event">>])

ToRelease(p) ==
  /\ Ready(p, "final") \/ Ready(p, "except")
  /\ Become(p, [New EXCEPT !.at = "release", !.state = proc[p].state, !.failed = proc[p].failed,
                            !.done = IF proc[p].failed THEN {} ELSE proc[p].done]) /\ Quiet

\* The process ends, or replaces itself with a fresh interpreter of the same attempt.
Ends(p, ok) ==
  LET m == proc[p] IN
  IF ok /\ ~m.failed /\ m.state = "recovering_memory"
  THEN Become(p, New) /\ recycled' = [recycled EXCEPT ![p[1]] = @ + 1]
  ELSE Become(p, [m EXCEPT !.at = "ended", !.failed = @ \/ ~ok, !.state = "running"]) /\ UNCHANGED recycled
MayDelete(p) == p \in knows
Release(p) ==
  LET m == proc[p]
      handsOver == m.state = "continuing" /\ ~m.failed
  IN /\ Ready(p, "release")
     /\ \/ /\ MayDelete(p) /\ lease' = [owner |-> None, left |-> 0] /\ knows' = {}
           /\ \/ Ends(p, TRUE) /\ UNCHANGED progress
              \/ Ends(p, ~handsOver) /\ progress' \in {progress} \cup IF handsOver THEN {"failed"} ELSE {}
        \/ /\ lease.owner = None /\ Ends(p, TRUE) /\ UNCHANGED <<lease, knows, progress>>
        \/ /\ lease.owner # None /\ UNCHANGED <<lease, knows>>
           /\ Ends(p, ~handsOver)
           /\ progress' \in {progress} \cup IF handsOver THEN {"failed"} ELSE {}
     /\ UNCHANGED <<checkpoint, loaded, restarts, stop>>

(* Surroundings **************************************************************)

Kill(p) ==
  /\ proc[p].at \notin {"new", "ended"} /\ Become(p, [New EXCEPT !.at = "ended", !.failed = TRUE])
  /\ knows' = knows \ {p} /\ UNCHANGED <<lease, checkpoint, loaded, progress, restarts, recycled, stop>>
SetStop == ~stop /\ stop' = TRUE /\ UNCHANGED <<stores, restarts, recycled, proc>>
Tick ==
  /\ lease.left > 0 /\ lease' = [lease EXCEPT !.left = @ - 1]
  /\ UNCHANGED <<knows, checkpoint, loaded, progress, restarts, recycled, stop, proc>>

Step(p) ==
  \/ Start(p) \/ Renew(p) \/ Reload(p) \/ FlushCheckpoint(p) \/ FlushEvents(p) \/ Skip(p) \/ Load(p) \/ Buffer(p)
  \/ Report(p) \/ Restored(p) \/ Update(p) \/ Updated(p) \/ Turn(p) \/ Schedule(p) \/ Finish(p) \/ Finished(p)
  \/ Pressure(p) \/ Relieve(p) \/ Leave(p) \/ ToRelease(p) \/ Release(p) \/ Kill(p)
Next == (\E p \in Process : Step(p)) \/ SetStop \/ Tick
Spec == Init /\ [][Next]_vars

-----------------------------------------------------------------------------
(* Properties                                                              *)

TypeOK ==
  /\ lease \in [owner : Process \cup {None}, left : 0..Lease] /\ knows \subseteq Process
  /\ checkpoint \subseteq Article /\ loaded \subseteq Article /\ stop \in BOOLEAN
  /\ progress \in RunState \cup {None}
  /\ restarts \in [Execution -> 0..MaxRestarts] /\ recycled \in [Execution -> Nat]
  /\ proc \in [Process -> [at : Stage, state : RunState, queue : SUBSET Article, active : SUBSET Article,
                           paused : SUBSET Outlet, done : SUBSET Article, cp : SUBSET Article, bq : SUBSET Article,
                           script : Seq(Op), item : Article \cup {None}, failed : BOOLEAN, reduced : BOOLEAN,
                           reloading : BOOLEAN]]

\* An article that a process counts is not counted twice, and is not fetched again by it.
CountedOnce ==
  \A p \in Process : LET m == proc[p] IN
    m.at = "loop" => /\ m.queue \cap m.active = {} /\ (m.queue \cup m.active) \cap m.done = {}
                     /\ m.queue \cup m.active \cup m.done = Article

\* "Persist evidence first": an event reaches BigQuery only once its checkpoint is stored, so
\* a failed load can always be replayed on restart.
LoadedIsPersisted == loaded \subseteq checkpoint

\* Whatever failed on the way, a process that ends without a failure leaves every result it
\* counted in a checkpoint and in BigQuery, and a snapshot that says "completed" is true.
EndedIsDurable ==
  /\ \A p \in Process : proc[p].at \in {"release", "ended"} /\ ~proc[p].failed => proc[p].done \subseteq loaded
  /\ progress = "completed" => loaded = Article

=============================================================================
