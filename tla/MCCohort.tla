------------------------------ MODULE MCCohort ------------------------------
(* Cohort on a small instance.  A publication is in one of two scenes:     *)
(* nobody hands over, and one cohort has two tasks, one of them with a     *)
(* second attempt; or a task of one cohort publishes beside one of the     *)
(* next.  In the guard's, each cohort has one task, which lists its peers  *)
(* after a report of its own, so that a failed one is the same as none;    *)
(* and one operator at most means the wrong execution.                     *)
EXTENDS Cohort, TLC, FiniteSets

CONSTANTS e1, e2, e3, t1, t2, o1, o2, h, a0, b0, b1, c0

VARIABLE scene

\* Two cohorts that may come to their end, two operators that repeat one handover, and the
\* scaleover tool.
HandoverExecutionOf == t1 :> e1 @@ t2 :> e2
Replaced == h :> e1
Operators == Permutations({o1, o2})

\* The attempts that publish.
CohortOfAttempt == a0 :> e1 @@ b0 :> e1 @@ b1 :> e1 @@ c0 :> e2
TaskOfAttempt == a0 :> t1 @@ b0 :> t2 @@ b1 :> t2 @@ c0 :> t1
Number == a0 :> 0 @@ b0 :> 0 @@ b1 :> 1 @@ c0 :> 0
Next2 == e1 :> e2 @@ e2 :> None @@ e3 :> None

SceneInit ==
  /\ CohortInit
  /\ scene \in IF part = "guard" THEN {"guard"} ELSE {"one", "two"}
Copies(p) ==
  \/ proc[p].at \in {"public", "latest", "copy"}
  \/ proc[p].at = "gate" /\ proc[p].then = "copy"
SceneNext ==
  /\ UNCHANGED scene /\ CohortNext
  /\ scene = "guard" => /\ \A t \in Task : reports'[t] # "failed"
                        /\ Cardinality({o \in Operator : calls'[o].to = e3}) <= 1
  /\ scene = "one" => /\ removed' = {} /\ busy' = {} /\ Cardinality({p \in Process : Copies(p)'}) <= 1
                      /\ proc'[c0].at = "down" /\ proc'[a0].at \notin {"failed", "dead"} /\ a0 \notin killed'
  /\ scene = "two" => busy' \subseteq {a0} /\ proc'[b0].at = "down" /\ proc'[b1].at = "down"
SceneSpec == SceneInit /\ [][SceneNext]_<<scene, part, guardVars, publicationVars>>
=============================================================================
