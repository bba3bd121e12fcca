------------------------------ MODULE MCLaunch ------------------------------
(* Launching on small instances.                                           *)
EXTENDS Launching, TLC

CONSTANTS l1, l2, l3, t1, t2, i1, i2, i3, a1, a2, s1, s2

\* Two operators launch one run, the second with a handover; a third launches another.
Runs == l1 :> "first" @@ l2 :> "first" @@ l3 :> "second"

\* Three initializers of two articles: the second has read one more checkpoint, the third
\* another manifest.
Sharded == a1 :> s1 @@ a2 :> s2
Done == i1 :> {} @@ i2 :> {a1} @@ i3 :> {}
Manifests == i1 :> "old" @@ i2 :> "old" @@ i3 :> "other"

TaskSymmetry == Permutations(Task)
\* What happens after the coordinator has ended is not of interest.
Coordinated == wf.at \notin {"paused", "raised", "returned", "stuck"}
=============================================================================
