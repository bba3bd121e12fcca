------------------------- MODULE MigrationRecovery -------------------------
(***************************************************************************)
(* Moving a cancelled single-process run into the shared queue:            *)
(* recover and validate_import_proof of                                    *)
(* scripts/recover_crawl_for_migration.py, and the importer                *)
(* scripts/prepare_shared_crawl.py.                                        *)
(*                                                                         *)
(* Operators may run recover at once, and again after a crash or a refusal *)
(* at any step.  Objects that the cancelled worker had under way may still *)
(* land, its last snapshot too; STOP may be lifted too early and a new     *)
(* execution started.  The config and the manifest do not change.          *)
(***************************************************************************)
EXTENDS Integers, FiniteSets

CONSTANTS
  Operator,
  Article, Object, Holds, \* checkpoint objects, and the articles with a result in each
  MaxRuns,                \* bound: starts of recover
  MaxCrashes,             \* bound: crashes and refused calls
  MayLift,                \* STOP may be lifted while the migration is under way
  None

MigrationAssumption ==
  /\ IsFiniteSet(Article) /\ Holds \in [Object -> SUBSET Article] /\ None \notin {"old", "new"}
  /\ MaxRuns \in Nat /\ MaxCrashes \in Nat /\ MayLift \in BOOLEAN

VARIABLES
  objects,  \* checkpoint objects that have landed
  events,   \* objects whose results are in crawl_result_events
  progress, \* progress.json
  public,   \* whose the public copy is
  proof,    \* distributed/migrations/EXECUTION.json
  lease,    \* control/worker-lease.json
  stop,     \* the STOP object
  launched, \* a new execution has started
  late,     \* the cancelled worker's last snapshot is still under way
  op,       \* what each operator's call of recover has read
  import,   \* the importer
  imported, \* articles the queue was seeded with as done
  runs, crashes

vars == <<objects, events, progress, public, proof, lease, stop, launched, late, op, import, imported, runs, crashes>>

ArticlesOf(O) == UNION {Holds[o] : o \in O}
Count(O) == Cardinality(ArticlesOf(O))

NoProof == [state |-> "none", gen |-> 0, inventory |-> {}, processed |-> 0, snapshot |-> 0]
NoCall == [at |-> "idle", progress |-> 0, inventory |-> {}, proof |-> 0, snapshot |-> 0, lease |-> 0]
NoImport == [at |-> "idle", progress |-> 0, processed |-> 0]

Init ==
  /\ objects \in SUBSET Object /\ events \in SUBSET objects
  /\ progress = [state |-> "running", execution |-> "old", gen |-> 1, processed |-> 0] /\ public = "old"
  /\ proof = NoProof /\ lease = [owner |-> "old", gen |-> 1] /\ stop = TRUE /\ launched = FALSE /\ late = TRUE
  /\ op = [o \in Operator |-> NoCall] /\ import = NoImport /\ imported = None /\ runs = 0 /\ crashes = 0

Durable == <<objects, events, progress, public, proof, lease>>
World == <<stop, launched, late>>
Bounds == <<runs, crashes>>
Importing == <<import, imported>>

Go(o, c) == op' = [op EXCEPT ![o] = c]
At(o, s) == op[o].at = s
Goes(o, s) == Go(o, [op[o] EXCEPT !.at = s])
Refuse(o) == Go(o, NoCall)

(* The proof *****************************************************************)

Importable(gen, processed) ==
  /\ stop /\ proof.state = "ready" /\ proof.processed = processed
  /\ progress.gen = gen /\ gen = proof.snapshot /\ objects = proof.inventory

(* recover *******************************************************************)

MayRelease(owner) == owner \in {None, "old"}

\* Everything recover reads before its first write.
Begin(o) ==
  /\ At(o, "idle") /\ runs < MaxRuns /\ runs' = runs + 1
  /\ IF stop /\ MayRelease(lease.owner) /\ progress.execution = "old"
     THEN Go(o, [NoCall EXCEPT !.at = "list", !.progress = progress.gen])
     ELSE Refuse(o)
  /\ UNCHANGED <<Durable, World, Importing, crashes>>
List(o) ==
  /\ At(o, "list") /\ Go(o, [op[o] EXCEPT !.at = "proof", !.inventory = objects])
  /\ UNCHANGED <<Durable, World, Importing, Bounds>>
\* A finished proof is only checked; it is never written again.
ReadProof(o) ==
  /\ At(o, "proof")
  /\ IF proof.state = "ready" THEN Refuse(o) ELSE Go(o, [op[o] EXCEPT !.at = "claim", !.proof = proof.gen])
  /\ UNCHANGED <<Durable, World, Importing, Bounds>>

SameProof(o) == proof.gen = op[o].proof
ClaimProof(o) ==
  /\ At(o, "claim")
  /\ IF SameProof(o)
     THEN /\ proof' = [proof EXCEPT !.state = "replaying", !.gen = @ + 1, !.inventory = op[o].inventory]
          /\ Go(o, [op[o] EXCEPT !.at = "replay", !.proof = proof.gen + 1])
     ELSE Refuse(o) /\ UNCHANGED proof
  /\ UNCHANGED <<objects, events, progress, public, lease, World, Importing, Bounds>>

Replays(o) == {op[o].inventory}
Replay(o) ==
  /\ At(o, "replay") /\ Goes(o, "recheck") /\ \E O \in Replays(o) : events' = events \cup O
  /\ UNCHANGED <<objects, progress, public, proof, lease, World, Importing, Bounds>>
\* A load fails after some others.
ReplayFails(o) ==
  /\ At(o, "replay") /\ crashes < MaxCrashes /\ crashes' = crashes + 1 /\ Refuse(o)
  /\ \E O \in SUBSET op[o].inventory : events' = events \cup O
  /\ UNCHANGED <<objects, progress, public, proof, lease, World, Importing, runs>>

\* No state or lease is changed before the sources are seen unchanged.
Recheck(o) ==
  /\ At(o, "recheck")
  /\ IF stop /\ objects = op[o].inventory THEN Goes(o, "snapshot") ELSE Refuse(o)
  /\ UNCHANGED <<Durable, World, Importing, Bounds>>

Snapshot(o) == [state |-> "stopped", execution |-> "old", gen |-> progress.gen + 1, processed |-> Count(op[o].inventory)]
WriteSnapshot(o) ==
  /\ At(o, "snapshot")
  /\ IF progress.gen = op[o].progress
     THEN progress' = Snapshot(o) /\ Go(o, [op[o] EXCEPT !.at = "public", !.snapshot = progress.gen + 1])
     ELSE Refuse(o) /\ UNCHANGED progress
  /\ UNCHANGED <<objects, events, public, proof, lease, World, Importing, Bounds>>
\* The public copy is checked and written, and the run event loaded.
WritePublic(o) ==
  /\ At(o, "public")
  /\ IF public = "old" THEN Goes(o, "lease") ELSE Refuse(o)
  /\ UNCHANGED <<Durable, World, Importing, Bounds>>

StillRelease(owner) == MayRelease(owner)
ReadLease(o) ==
  /\ At(o, "lease")
  /\ IF ~StillRelease(lease.owner) THEN Refuse(o)
     ELSE Go(o, [op[o] EXCEPT !.at = IF lease.owner = None THEN "finish" ELSE "delete", !.lease = lease.gen])
  /\ UNCHANGED <<Durable, World, Importing, Bounds>>
DeleteLease(o) ==
  /\ At(o, "delete")
  /\ IF lease.gen = op[o].lease /\ lease.owner # None
     THEN lease' = [lease EXCEPT !.owner = None] /\ Goes(o, "finish")
     ELSE Refuse(o) /\ UNCHANGED lease
  /\ UNCHANGED <<objects, events, progress, public, proof, World, Importing, Bounds>>
FinishProof(o) ==
  /\ At(o, "finish") /\ Refuse(o)
  /\ proof' = IF SameProof(o)
              THEN [state |-> "ready", gen |-> proof.gen + 1, inventory |-> op[o].inventory,
                    processed |-> Count(op[o].inventory), snapshot |-> op[o].snapshot]
              ELSE proof
  /\ UNCHANGED <<objects, events, progress, public, lease, World, Importing, Bounds>>
Crash(o) ==
  /\ ~At(o, "idle") /\ crashes < MaxCrashes /\ crashes' = crashes + 1 /\ Refuse(o)
  /\ UNCHANGED <<Durable, World, Importing, runs>>

(* The importer **************************************************************)

ImportBegin ==
  /\ import.at = "idle" /\ imported = None /\ lease.owner = None /\ progress.state = "stopped"
  /\ import' = [at |-> "check", progress |-> progress.gen, processed |-> progress.processed]
  /\ UNCHANGED <<Durable, World, op, imported, Bounds>>
ImportCheck ==
  /\ import.at = "check"
  /\ import' = IF Importable(import.progress, import.processed) THEN [import EXCEPT !.at = "read"] ELSE NoImport
  /\ UNCHANGED <<Durable, World, op, imported, Bounds>>
\* Faulty variant: the counts are not compared.
AnyCount == TRUE
SameCount == Count(objects) = import.processed
ImportRead ==
  /\ import.at = "read" /\ import' = NoImport
  /\ imported' = IF SameCount THEN ArticlesOf(objects) ELSE imported
  /\ UNCHANGED <<Durable, World, op, Bounds>>

(* Surroundings **************************************************************)

\* What the cancelled worker had under way.
LateCheckpoint ==
  /\ \E c \in Object \ objects : objects' = objects \cup {c}
  /\ UNCHANGED <<events, progress, public, proof, lease, World, op, Importing, Bounds>>
LateSnapshot ==
  /\ late /\ late' = FALSE /\ progress' = [state |-> "running", execution |-> "old", gen |-> progress.gen + 1, processed |-> 0]
  /\ UNCHANGED <<objects, events, public, proof, lease, stop, launched, op, Importing, Bounds>>
\* Against the instructions STOP is lifted, and a new execution takes a free or expired lease.
Lift ==
  /\ MayLift /\ stop /\ stop' = FALSE
  /\ UNCHANGED <<Durable, launched, late, op, Importing, Bounds>>
Launch ==
  /\ ~stop /\ ~launched /\ launched' = TRUE /\ lease' = [owner |-> "new", gen |-> lease.gen + 1]
  /\ UNCHANGED <<objects, events, progress, public, proof, stop, late, op, Importing, Bounds>>
NewSnapshot ==
  /\ launched /\ progress.execution # "new"
  /\ progress' = [state |-> "running", execution |-> "new", gen |-> progress.gen + 1, processed |-> 0] /\ public' = "new"
  /\ UNCHANGED <<objects, events, proof, lease, World, op, Importing, Bounds>>

Recover(o) ==
  \/ Begin(o) \/ List(o) \/ ReadProof(o) \/ ClaimProof(o) \/ Replay(o) \/ Recheck(o) \/ WriteSnapshot(o)
  \/ WritePublic(o) \/ ReadLease(o) \/ DeleteLease(o) \/ FinishProof(o)
Import == ImportBegin \/ ImportCheck \/ ImportRead
Next ==
  \/ \E o \in Operator : Recover(o) \/ ReplayFails(o) \/ Crash(o)
  \/ Import \/ LateCheckpoint \/ LateSnapshot \/ Lift \/ Launch \/ NewSnapshot

Spec == Init /\ [][Next]_vars
\* An operator repeats the call until it reports a finished proof.
FairSpec == Spec /\ \A o \in Operator : WF_vars(Recover(o))

-----------------------------------------------------------------------------
(* Properties                                                              *)

TypeOK ==
  /\ objects \subseteq Object /\ events \subseteq objects
  /\ progress \in [state : {"running", "stopped"}, execution : {"old", "new"}, gen : Nat, processed : 0..Cardinality(Article)]
  /\ public \in {"old", "new"} /\ lease \in [owner : {"old", "new", None}, gen : 1..2]
  /\ proof \in [state : {"none", "replaying", "ready"}, gen : Nat, inventory : SUBSET Object,
                processed : 0..Cardinality(Article), snapshot : Nat]
  /\ imported \in {None} \cup SUBSET Article

\* An imported article is marked as exported: whatever lands late, and however the operators
\* interleave, its result must already be in BigQuery, for nothing would load it any more.
ImportedIsExported == imported # None => imported \subseteq ArticlesOf(events)

\* "No state/lease mutation until every durable checkpoint event is replayed": a finished
\* proof means that its inventory is loaded and the cancelled worker's lease is gone.
ReadyIsReplayed == proof.state = "ready" => proof.inventory \subseteq events /\ lease.owner # "old"

=============================================================================
