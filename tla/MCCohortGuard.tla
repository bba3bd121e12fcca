---------------------------- MODULE MCCohortGuard ----------------------------
(* Cohorts whose tasks need not be alike: two tasks of one cohort, without *)
(* handovers; or two such tasks and the cohort that replaces theirs.       *)
EXTENDS CohortGuard, TLC

CONSTANTS e1, e2, t1, t2, t3, h, o1

PeerExecutionOf == [t \in Task |-> IF t = t2 THEN e2 ELSE e1]
PreviousIsFirst == [i \in Handover |-> e1]

\* Nobody is killed or fails, and no operator stops the run.
CalmInit == Init /\ ~stop
CalmNext ==
  /\ Next /\ ~stop'
  /\ \A t \in Task : tasks'[t].pc = "failed" => IsRetired(t)
CalmSpec == CalmInit /\ [][CalmNext]_vars
=============================================================================
