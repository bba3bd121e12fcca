------------------------- MODULE CoordinatorLaunch -------------------------
(***************************************************************************)
(* Launching the coordinator of a collection run (start in                 *)
(* scripts/deploy_crawl_coordinator.py).  Operators may launch at the same *)
(* time, for one run or for two, and a request may fail after it has taken *)
(* effect, or take effect after its launcher has given up.  Before it      *)
(* creates a workflow execution a launcher replaces the launch record, an  *)
(* object that it wrote at a generation it has checked; only a record that *)
(* names a terminal execution may be replaced.                             *)
(*                                                                         *)
(* A launcher is one call of start, and creates one execution at most,     *)
(* which is named after it here.                                           *)
(***************************************************************************)
EXTENDS Integers, FiniteSets

CONSTANTS
  Launcher,
  RunOf,     \* the run each launcher is for
  Handover,  \* launchers with a handover_id
  MaxGuards, \* bound: changes of the cohort guard
  None

ASSUME LauncherAssumption ==
  /\ Handover \subseteq Launcher /\ None \notin Launcher /\ MaxGuards \in Nat
  /\ None \notin {RunOf[l] : l \in Launcher}

VARIABLES
  at,         \* where each launcher is
  seen,       \* generation of the record it has read or written; 0: there was none
  found,      \* execution that the record named, or the one start returns
  held,       \* generation of its reservation
  record,     \* the launch record
  generation, \* generations used so far
  sent,       \* launchers whose creation request is under way
  workflow,   \* state of each workflow execution
  guard       \* the cohort guard, as far as start looks at it

vars == <<at, seen, found, held, record, generation, sent, workflow, guard>>

NoRecord == [generation |-> 0, by |-> None, execution |-> None]
Ended == {"returned", "refused"}

Init ==
  /\ at = [l \in Launcher |-> "list"] /\ seen = [l \in Launcher |-> 0]
  /\ found = [l \in Launcher |-> None] /\ held = [l \in Launcher |-> 0]
  /\ record = NoRecord /\ generation = 0 /\ sent = {}
  /\ workflow = [l \in Launcher |-> "none"] /\ guard = [kind |-> "none", generation |-> 0]

Active(e) == workflow[e] = "active"
Go(l, to) == at' = [at EXCEPT ![l] = to]
World == <<record, generation, sent, workflow, guard>>

SameRun(l, e) == RunOf[e] = RunOf[l]
\* An execution of its own run is returned, one of another run refused.
Existing(l, e) ==
  /\ Go(l, IF SameRun(l, e) THEN "returned" ELSE "refused")
  /\ found' = [found EXCEPT ![l] = e] /\ UNCHANGED <<seen, held, World>>

\* Active and queued executions.
List(l) ==
  /\ at[l] = "list"
  /\ \/ \E e \in Launcher : Active(e) /\ Existing(l, e)
     \/ (\A e \in Launcher : ~Active(e)) /\ Go(l, "guard") /\ UNCHANGED <<seen, found, held, World>>

\* A handover's own reservation, or no guard at all.
LookAtGuard(l) ==
  /\ at[l] = "guard"
  /\ Go(l, IF guard.kind = (IF l \in Handover THEN "reserved" ELSE "none") THEN "record" ELSE "refused")
  /\ held' = [held EXCEPT ![l] = guard.generation] /\ UNCHANGED <<seen, found, World>>

\* Faulty variant: a launch that was never recorded is taken for a failed one.
Forgiving == "write"
PendingRecord == "refused"
ReadRecord(l) ==
  /\ at[l] = "record"
  /\ seen' = [seen EXCEPT ![l] = record.generation]
  /\ found' = [found EXCEPT ![l] = record.execution]
  /\ Go(l, IF record = NoRecord THEN "write" ELSE IF record.execution = None THEN PendingRecord ELSE "get")
  /\ UNCHANGED <<held, World>>

GetExecution(l) ==
  /\ at[l] = "get"
  /\ IF Active(found[l]) THEN Existing(l, found[l])
     ELSE Go(l, "write") /\ UNCHANGED <<seen, found, held, World>>

Unchanged(l) == record.generation = seen[l]
Write(l, execution) ==
  /\ generation' = generation + 1
  /\ record' = [generation |-> generation + 1, by |-> l, execution |-> execution]
  /\ seen' = [seen EXCEPT ![l] = generation + 1]

Pending(l) == None
Claim(l) ==
  /\ at[l] = "write"
  /\ IF Unchanged(l)
     THEN Write(l, Pending(l)) /\ Go(l, IF l \in Handover THEN "recheck" ELSE "post")
     ELSE Go(l, "refused") /\ UNCHANGED <<seen, record, generation>>
  /\ UNCHANGED <<found, held, sent, workflow, guard>>

\* The record stays when the reservation has changed.
Recheck(l) ==
  /\ at[l] = "recheck"
  /\ Go(l, IF guard = [kind |-> "reserved", generation |-> held[l]] THEN "post" ELSE "refused")
  /\ UNCHANGED <<seen, found, held, World>>

Post(l) ==
  /\ at[l] = "post" /\ Go(l, "await") /\ sent' = sent \cup {l}
  /\ UNCHANGED <<seen, found, held, record, generation, workflow, guard>>

\* The answer names the execution.  The record may be written and start fail even so.
Record(l) ==
  /\ at[l] = "await" /\ workflow[l] # "none"
  /\ IF Unchanged(l)
     THEN Write(l, l) /\ (\E to \in Ended : Go(l, to)) /\ found' = [found EXCEPT ![l] = l]
     ELSE Go(l, "refused") /\ UNCHANGED <<seen, found, record, generation>>
  /\ UNCHANGED <<held, sent, workflow, guard>>

\* Any request may fail, also one that has taken effect: start ends with an exception.
Fail(l) == at[l] \notin Ended /\ Go(l, "refused") /\ UNCHANGED <<seen, found, held, World>>

-----------------------------------------------------------------------------
(* The Workflows service, the workers and the operators                    *)

\* A creation request arrives, or never does.
Create(l) ==
  /\ l \in sent /\ sent' = sent \ {l}
  /\ workflow' \in {workflow, [workflow EXCEPT ![l] = "active"]}
  /\ UNCHANGED <<at, seen, found, held, record, generation, guard>>

End(e) ==
  /\ Active(e) /\ workflow' = [workflow EXCEPT ![e] = "ended"]
  /\ UNCHANGED <<at, seen, found, held, record, generation, sent, guard>>

ChangeGuard ==
  /\ guard.generation < MaxGuards
  /\ \E kind \in {"none", "reserved", "owned"} :
       guard' = [kind |-> kind, generation |-> guard.generation + 1]
  /\ UNCHANGED <<at, seen, found, held, record, generation, sent, workflow>>

\* "Inspect executions before retrying": an operator removes a record that names
\* no execution when its launcher has ended and there is none.
Inspect ==
  /\ record.by # None /\ record.execution = None /\ at[record.by] \in Ended
  /\ record.by \notin sent /\ ~Active(record.by) /\ record' = NoRecord
  /\ UNCHANGED <<at, seen, found, held, generation, sent, workflow, guard>>

Next ==
  \/ \E l \in Launcher :
       \/ List(l) \/ LookAtGuard(l) \/ ReadRecord(l) \/ GetExecution(l) \/ Claim(l) \/ Recheck(l)
       \/ Post(l) \/ Record(l) \/ Fail(l) \/ Create(l) \/ End(l)
  \/ ChangeGuard \/ Inspect

Spec == Init /\ [][Next]_vars

-----------------------------------------------------------------------------
(* Properties                                                              *)

Step == {"list", "guard", "record", "get", "write", "recheck", "post", "await"} \cup Ended

\* It includes that a launch record names only an execution that exists.
TypeOK ==
  /\ at \in [Launcher -> Step] /\ seen \in [Launcher -> Nat]
  /\ found \in [Launcher -> Launcher \cup {None}] /\ held \in [Launcher -> Nat]
  /\ record \in [generation : Nat, by : Launcher \cup {None}, execution : Launcher \cup {None}]
  /\ generation \in Nat /\ sent \subseteq Launcher
  /\ workflow \in [Launcher -> {"none", "active", "ended"}]
  /\ guard \in [kind : {"none", "reserved", "owned"}, generation : Nat]
  /\ record.execution # None => workflow[record.execution] # "none"

\* "An ambiguous request must never be blindly retried": at most one coordinator is
\* active or may still become active, however many operators launch and whatever
\* their requests come to.
OneCoordinator ==
  \A k, l \in Launcher : (k \in sent \/ Active(k)) /\ (l \in sent \/ Active(l)) => k = l

\* start returns an execution of the run it was asked for, and one that exists.
ReturnsOwnRun ==
  \A l \in Launcher :
    at[l] = "returned" => /\ found[l] # None /\ workflow[found[l]] # "none"
                          /\ RunOf[found[l]] = RunOf[l]
=============================================================================
