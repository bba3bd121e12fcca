------------------------------ MODULE Working ------------------------------
(***************************************************************************)
(* What processes do with the articles of a run: the tasks of a            *)
(* distributed run with their claims and fetches (DistributedTask), and    *)
(* the single-process run with its checkpoints (SingleRun).  The two share *)
(* no variable, so their steps are not interleaved: part says which of     *)
(* them a behaviour is about.                                              *)
(***************************************************************************)
EXTENDS DistributedTask

CONSTANTS
  Corpus, Outlet, OutletOf, Attempt, Workers, PerOutlet, CheckpointRows, EventRows, MaxRestarts, RunLease

VARIABLES
  part,
  lease, knows, checkpoint, loaded, progress, restarts, recycled, stop, proc  \* SingleRun

Single == INSTANCE SingleRun WITH Article <- Corpus, Process <- Attempt, Lease <- RunLease

ASSUME WorkAssumption == TaskAssumption /\ Single!RunAssumption

taskVars == vars
runVars == <<lease, knows, checkpoint, loaded, progress, restarts, recycled, stop, proc>>

\* What a behaviour is not about stays in one initial state.
WorkInit ==
  /\ part \in {"tasks", "single"}
  /\ Init /\ Single!Init /\ (part # "single" => progress = None)

WorkNext ==
  /\ UNCHANGED part
  /\ \/ part = "tasks" /\ Next /\ UNCHANGED runVars
     \/ part = "single" /\ Single!Next /\ UNCHANGED taskVars
WorkSpec == WorkInit /\ [][WorkNext]_<<part, taskVars, runVars>>

-----------------------------------------------------------------------------
(* Properties                                                              *)

\* Run.run: whatever failed on the way, a process that ends without a failure leaves every
\* result it counted in a checkpoint and in BigQuery, counted once and never loaded before
\* it was stored; a snapshot that says "completed" is true.
EndedIsDurable ==
  Single!TypeOK /\ Single!CountedOnce /\ Single!LoadedIsPersisted /\ Single!EndedIsDurable
=============================================================================
