------------------------- MODULE MCCohortPublication -------------------------
(* Two tasks of one cohort, which ends or is continued.                    *)
EXTENDS CohortPublication, TLC

CONSTANTS e1, t1, t2, a0, b0

TasksExecutionOf == [p \in Process |-> e1]
TasksTaskOf == [p \in Process |-> IF p = a0 THEN t1 ELSE t2]
FirstAttemptOf == [p \in Process |-> 0]
NoSuccessor == e1 :> None
=============================================================================
