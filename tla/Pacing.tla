------------------------------- MODULE Pacing -------------------------------
(***************************************************************************)
(* What limits the work that is done at once: the permits of a host        *)
(* (SharedHosts), its adaptive rate (AdaptiveRate), the slots of a task    *)
(* (ClaimDispatch) and its extraction processes (Isolation).  The four     *)
(* share no variable here, so their steps are not interleaved: part says   *)
(* which of them a behaviour is about.                                     *)
(***************************************************************************)
EXTENDS SharedHosts

CONSTANTS
  Owner, Requests, MinDelay, InitialDelay, MaxDelay, FallbackDelay, MaxConcurrency,
  DefaultCapacity, Window, ShortPause, LongPause, MaxPause, RetryAfter, SampleTtl, Faults,
  Article, Hostname, HostOf, Workers, ArchiveSlots, PerOutlet,
  Thread, Heavy, Browser

VARIABLES
  part,
  rate, ratePause, rateLeases, probes, faults,           \* AdaptiveRate
  articles, at, slots, selected, seen, services, cache,  \* ClaimDispatch
  task, child, others, watch                             \* Isolation

Rate == INSTANCE AdaptiveRate WITH
  Ttl <- SampleTtl, cooldown <- ratePause, leases <- rateLeases
Dispatch == INSTANCE ClaimDispatch WITH rows <- articles, claims <- slots, ready <- services
Processes == INSTANCE Isolation

ASSUME RateAssumption == Rate!PolicyAssumption /\ Rate!TimeAssumption
ASSUME SlotsAssumption == Dispatch!DispatchAssumption /\ Processes!SlotAssumption

hostVars == vars
rateVars == <<rate, ratePause, rateLeases, probes, faults>>
dispatchVars == <<articles, at, slots, selected, seen, services, cache>>
processVars == <<task, child, others, watch>>

\* What a behaviour is not about stays in one initial state.
PacingInit ==
  /\ part \in {"hosts", "rate", "dispatch", "processes"}
  /\ Init /\ (part # "hosts" => host = FreshHost)
  /\ Rate!Init /\ (part # "rate" => rate = Rate!Fresh /\ ratePause = 0)
  /\ Dispatch!Init /\ Processes!Init

PacingNext ==
  /\ UNCHANGED part
  /\ \/ part = "hosts" /\ Next /\ UNCHANGED <<rateVars, dispatchVars, processVars>>
     \/ part = "rate" /\ Rate!Next /\ UNCHANGED <<hostVars, dispatchVars, processVars>>
     \/ part = "dispatch" /\ Dispatch!Next /\ UNCHANGED <<hostVars, rateVars, processVars>>
     \/ part = "processes" /\ Processes!Next /\ UNCHANGED <<hostVars, rateVars, dispatchVars>>
PacingSpec == PacingInit /\ [][PacingNext]_<<part, hostVars, rateVars, dispatchVars, processVars>>

-----------------------------------------------------------------------------
(* Properties                                                              *)

\* acquire and feedback: after a pause the host sees one probe at a time until it has
\* recovered, whatever was in flight when the pause began; and no sample is counted twice.
ProbesAlone == Rate!TypeOK /\ Rate!ProbesAlone

\* claim_available: whatever mixture of phases comes back to the task, its claims fit its
\* threads, and each phase its pool.
PoolsBounded == Dispatch!TypeOK /\ Dispatch!PoolsBounded

\* run_task: the slots bound the processes that really run, left browsers included.
ProcessesBounded == Processes!TypeOK /\ Processes!ProcessesBounded
=============================================================================
