------------------------------- MODULE Cohort -------------------------------
(***************************************************************************)
(* What the tasks of an execution decide together: who owns the cohort     *)
(* guard (CohortGuard), and what the progress objects say                  *)
(* (CohortPublication, which has the guard's owner only).  The two share   *)
(* no variable here, so their steps are not interleaved: part says which   *)
(* of them a behaviour is about.                                           *)
(***************************************************************************)
EXTENDS CohortGuard

CONSTANTS
  Process, RunsIn, TaskOf, AttemptOf, Total, MaxConflicts, Successor, Goals, Fragile

VARIABLES
  part,
  owner, removed, processed, busy, proc, records, active, progress, public, seen, seenPublic,
  killed, announced, tookOver, stored   \* CohortPublication

Pub == INSTANCE CohortPublication WITH ExecutionOf <- RunsIn, retired <- removed

ASSUME PublicationAssumption == Pub!ProcessAssumption /\ Pub!BoundAssumption

guardVars == vars
publicationVars == <<owner, removed, processed, busy, proc, records, active, progress, public, seen,
                     seenPublic, killed, announced, tookOver, stored>>

\* What a behaviour is not about stays in one initial state.
CohortInit ==
  /\ part \in {"guard", "publication"}
  /\ Init /\ (part # "guard" => ~stop)
  /\ Pub!Init

CohortNext ==
  /\ UNCHANGED part
  /\ \/ part = "guard" /\ Next /\ UNCHANGED publicationVars
     \/ part = "publication" /\ Pub!Next /\ UNCHANGED guardVars
CohortSpec == CohortInit /\ [][CohortNext]_<<part, guardVars, publicationVars>>

-----------------------------------------------------------------------------
(* Properties                                                              *)

\* publish and release_cohort_lease: nobody goes on to delete the guard before a final
\* snapshot of the cohort has been stored, whatever conflicts and whoever deleted it before.
StoredBeforeRelease == Pub!StoredBeforeRelease

\* latest_workers: a late report of a replaced attempt does not make the cohort look
\* finished while its replacement is at work.
ReplacementCounts == Pub!ReplacementCounts

\* publication_gate: however late its requests arrive, no task replaces the progress of a
\* later cohort, private or public.
NewerCohortKept == Pub!NewerCohortKept
=============================================================================
