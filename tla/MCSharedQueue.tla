---------------------------- MODULE MCSharedQueue ----------------------------
(* A small instance of SharedQueue for TLC, in two scenes: one article for *)
(* which two processes contend, each with one claim at a time; and two     *)
(* articles that one process claims in batches while time stands still,    *)
(* the run is stopped between its claims only, and one token stays unused. *)
EXTENDS SharedQueue, TLC

CONSTANTS a1, a2, o1, s1, s2

VARIABLE scene

\* Two articles of one outlet counted in different shards.
OneOutletOf == [a \in Article |-> o1]
TwoShardOf == [a \in Article |-> IF a = a1 THEN s1 ELSE s2]

Fails(r) == r = None \/ r.status # "saved"
SceneInit ==
  /\ scene \in {"lease", "batch"} /\ Init
  /\ IF scene = "lease" THEN rows[a2] = ImportedRow("failed", 0)
     ELSE \A a \in Article : Fails(rows[a].verdict)
SceneNext ==
  /\ UNCHANGED scene /\ Next
  /\ IF scene = "lease" THEN \A c, d \in claims' : c.owner = d.owner => c = d
     ELSE /\ ~Tick
          /\ \A c, d \in claims' : c.owner = d.owner /\ Fails(c.result)
          /\ FreshTokens' # {} /\ (control'.stop => claims' = {})
SceneSpec == SceneInit /\ [][SceneNext]_<<scene, vars>>

Symmetry == Permutations(Token) \cup Permutations(Worker)
=============================================================================
