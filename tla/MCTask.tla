------------------------------- MODULE MCTask -------------------------------
(* Working on a small instance.  A single-process run is in one of two     *)
(* scenes: one execution has two attempts at two articles, of which one    *)
(* outlet may block; or two executions overlap in the second article, one  *)
(* at a time and without STOP.  No stall falls between the upload of the   *)
(* lease and its reload.                                                   *)
EXTENDS Working, TLC

CONSTANTS b1, b2, e1, e2, g1, g2

VARIABLE scene

Own == b1 :> g1 @@ b2 :> g2
Attempts == {e1, e2} \X {0, 1}

Runs == {p \in Attempt : proc[p].at # "new"}
SceneInit ==
  /\ WorkInit
  /\ scene \in IF part = "tasks" THEN {"tasks"} ELSE {"retried", "overlap"}
  /\ IF scene = "overlap" THEN progress = "continuing" /\ loaded = {b2} /\ checkpoint = {b2}
     ELSE progress = None
SceneNext ==
  /\ UNCHANGED scene /\ WorkNext
  /\ scene = "retried" =>
       /\ \A p, q \in Runs' : p[1] = q[1]
       /\ \A p \in Runs' : proc'[p].paused \subseteq {g1}
  /\ scene = "overlap" =>
       /\ ~stop'
       /\ \A p \in Runs' : /\ p[2] = 0 /\ proc'[p].at # "memory" /\ proc'[p].paused = {}
                           /\ proc'[p].state \notin {"interrupted", "paused_limit"}
  /\ \A p \in Attempt : proc[p].reloading => ~proc'[p].reloading
SceneSpec == SceneInit /\ [][SceneNext]_<<scene, part, taskVars, runVars>>

Symmetry == Permutations(Token) \cup Permutations({e1, e2})
=============================================================================
