------------------------------ MODULE Storing ------------------------------
(***************************************************************************)
(* How results get from one store to another: from the queue through its   *)
(* outbox to BigQuery (ExportOutbox), from the checkpoints of a cancelled  *)
(* single-process run to BigQuery and the queue (MigrationRecovery), and   *)
(* from the queue into the public index (DownloadIndex).  They share no    *)
(* variable here, so their steps are not interleaved: part says which of   *)
(* them a behaviour is about.                                              *)
(***************************************************************************)
EXTENDS ExportOutbox

CONSTANTS
  Operator, Manifest, Object, Holds, MaxRuns, MaxCrashes, MayLift, None,
  Text, Reader, Preparer, LastRun, MaxFailed

VARIABLES
  part,
  objects, landed, progress, public, proof, lease, stop, launched, late, op, import, imported,
  runs, crashes, \* MigrationRecovery
  done, published, stored, current, refresh, failed  \* DownloadIndex

Migration == INSTANCE MigrationRecovery WITH Article <- Manifest, events <- landed
Index == INSTANCE DownloadIndex WITH Article <- Text, MaxFailures <- MaxFailed, progress <- published

ASSUME StoreAssumption ==
  OutboxAssumption /\ Migration!MigrationAssumption /\ Index!IndexAssumption

outboxVars == vars
migrationVars == <<objects, landed, progress, public, proof, lease, stop, launched, late, op, import,
                   imported, runs, crashes>>
indexVars == <<done, published, stored, current, refresh, failed>>

\* What a behaviour is not about stays in one initial state.
StoreInit ==
  /\ part \in {"outbox", "migration", "index"}
  /\ Init /\ Migration!Init /\ (part # "migration" => objects = {}) /\ Index!Init

StoreNext ==
  /\ UNCHANGED part
  /\ \/ part = "outbox" /\ Next /\ UNCHANGED <<migrationVars, indexVars>>
     \/ part = "migration" /\ Migration!Next /\ UNCHANGED <<outboxVars, indexVars>>
     \/ part = "index" /\ Index!Next /\ UNCHANGED <<outboxVars, migrationVars>>
StoreSpec == StoreInit /\ [][StoreNext]_<<part, outboxVars, migrationVars, indexVars>>

-----------------------------------------------------------------------------
(* Properties                                                              *)

\* recover and import: an imported article is marked as exported, so whatever lands late,
\* and however operators interleave, its result is in BigQuery already; a finished proof
\* means that its inventory is loaded and the cancelled worker's lease is gone.
ImportedIsExported ==
  Migration!TypeOK /\ Migration!ReadyIsReplayed /\ Migration!ImportedIsExported

\* DownloadIndex.get: a refresh that another has overtaken takes nothing out of the index.
NeverShrinks == Index!NeverShrinks

\* DownloadIndex.get: what an index that is served unchanged misses was not published either.
ServedAsCounted == Index!ServedAsCounted
=============================================================================
