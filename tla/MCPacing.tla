------------------------------ MODULE MCPacing ------------------------------
(* Pacing on small instances.  In one more part the rate is that of a      *)
(* finite pilot.                                                           *)
EXTENDS Pacing, TLC

CONSTANTS a1, a2, a3, h1, h2, Samples

TwoHosts == a1 :> h1 @@ a2 :> h1 @@ a3 :> h2

Pilot == INSTANCE AdaptiveRate WITH
  Requests <- Samples, Ttl <- SampleTtl, cooldown <- ratePause, leases <- rateLeases
ASSUME PilotAssumption == Pilot!PolicyAssumption /\ Pilot!TimeAssumption

MCInit ==
  \/ PacingInit
  \/ /\ part = "pilot" /\ Init /\ host = FreshHost /\ Pilot!Init
     /\ Dispatch!Init /\ Processes!Init
MCNext ==
  \/ PacingNext
  \/ part = "pilot" /\ Pilot!Next /\ UNCHANGED <<part, hostVars, dispatchVars, processVars>>
MCSpec == MCInit /\ [][MCNext]_<<part, hostVars, rateVars, dispatchVars, processVars>>

Symmetry == Permutations(Permit) \cup Permutations({a1, a2})
\* At most one article at a time is remembered as not eligible for the archives.
OneRemembered == Cardinality({a \in Article : cache[a] # "absent"}) <= 1
=============================================================================
