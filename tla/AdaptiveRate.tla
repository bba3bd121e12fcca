---------------------------- MODULE AdaptiveRate ----------------------------
(***************************************************************************)
(* Adaptive request pacing of one host (crawler/adaptive_rate.py), kept in *)
(* the host's document beside its permits and its cooldown.  Workers are   *)
(* admitted with the adaptive interval and capacity, and report each       *)
(* response once while their permit runs (feedback, through                *)
(* FirestoreHostStore.observe).  A continuous policy (Requests = None)     *)
(* pauses the host after overload and lets single probes through until     *)
(* three of them are healthy; a finite pilot takes Requests samples and    *)
(* ends.                                                                   *)
(*                                                                         *)
(* Every operation is one transaction on the document; how late its clock  *)
(* sample may be, and legacy owners, are SharedHosts' subject.  Times are  *)
(* distances from the present in ticks as long as the shortest pause.  The *)
(* interval between two starts is shorter than a tick; it is computed here *)
(* and enforced in SharedHosts.                                            *)
(***************************************************************************)
EXTENDS Integers, FiniteSets

CONSTANTS
  Owner,            \* permits, each the uuid of one request
  Requests,         \* samples of a finite pilot, or None
  MinDelay, InitialDelay, MaxDelay, \* the policy's intervals
  FallbackDelay,    \* a finite pilot slows down to this at least (10 seconds)
  MaxConcurrency,   \* the policy's capacity
  DefaultCapacity,  \* the capacity without a policy
  Window,           \* responses after which the rate is judged
  ShortPause, LongPause, MaxPause, \* 30, 60 and 300 seconds
  RetryAfter,       \* pauses that servers ask for
  Ttl,              \* ticks a permit lasts
  Faults,           \* bound: unhealthy responses
  None

PolicyAssumption ==
  /\ Requests \in {None} \cup (Nat \ {0})
  /\ MinDelay \in Nat /\ InitialDelay \in Nat /\ MaxDelay \in Nat /\ FallbackDelay \in Nat
  /\ MinDelay <= InitialDelay /\ InitialDelay <= MaxDelay
  /\ MaxConcurrency \in Nat \ {0} /\ DefaultCapacity \in Nat \ {0} /\ Window \in Nat \ {0}
TimeAssumption ==
  /\ ShortPause \in Nat \ {0} /\ LongPause \in Nat /\ MaxPause \in Nat
  /\ ShortPause <= LongPause /\ LongPause <= MaxPause
  /\ RetryAfter \subseteq Nat /\ Ttl \in Nat \ {0} /\ Faults \in Nat

VARIABLES
  rate,    \* the adaptive part of the document
  cooldown, \* ticks until cooldown_until
  leases,  \* ticks each permit lasts; 0: there is none
  probes,  \* history: samples admitted since the last pause
  faults   \* unhealthy responses so far

vars == <<rate, cooldown, leases, probes, faults>>

Continuous == Requests = None
Running == {o \in Owner : leases[o] > 0}
Larger(a, b) == IF a >= b THEN a ELSE b
Smaller(a, b) == IF a <= b THEN a ELSE b

-----------------------------------------------------------------------------
(* The controller's record                                                 *)

Kind == {"healthy", "error", "slow", "neutral"}
NoResults == [k \in Kind |-> 0]
ResultsIn(w) == w["healthy"] + w["error"] + w["slow"] + w["neutral"]

\* unsettled is started - completed - expired_samples; a continuous policy
\* does not depend on the number of samples started.  healthyDelay, recovery and
\* retry are last_healthy_delay, recovery_pause_seconds and recovery_until.
Fresh ==
  [phase |-> IF Continuous THEN "continuous" ELSE "sampling", started |-> 0, unsettled |-> 0,
   delay |-> InitialDelay, capacity |-> MaxConcurrency, window |-> NoResults,
   errors |-> 0, blocks |-> 0, owners |-> {}, mode |-> "normal", passed |-> 0,
   recovery |-> 0, retry |-> 0, healthyDelay |-> InitialDelay]

\* prepared, on the document of an earlier release: a slow host resumes with
\* one probe, after the pause it is in.
Upgraded(d, c) ==
  IF d > InitialDelay
  THEN [Fresh EXCEPT !.capacity = 1, !.mode = "probing", !.retry = c]
  ELSE [Fresh EXCEPT !.delay = d, !.healthyDelay = d, !.retry = c]

Init ==
  /\ cooldown \in RetryAfter \cup {0}
  /\ rate \in {Fresh} \cup (IF Continuous THEN {Upgraded(d, cooldown) : d \in {MinDelay, MaxDelay}} ELSE {})
  /\ leases = [o \in Owner |-> 0] /\ probes = {} /\ faults = 0

\* limits
Adaptive == /\ rate.phase \in {"sampling", "continuous"}
            /\ Continuous \/ rate.started < Requests
Concurrency == IF Adaptive THEN rate.capacity ELSE DefaultCapacity

\* Faulty variant: a pause leaves the capacity alone.
ChangeDelay(r, d, c) ==
  [r EXCEPT !.delay = Smaller(MaxDelay, Larger(MinDelay, d)), !.window = NoResults]
\* change
Change(r, d, c) ==
  [r EXCEPT !.delay = Smaller(MaxDelay, Larger(MinDelay, d)), !.capacity = c, !.window = NoResults]

\* pause: a response that fails after the last pause doubles it, others repeat it.
PauseLength(r, base) ==
  Smaller(MaxPause,
    IF r.mode = "probing" THEN Larger(base, r.recovery * (IF r.retry = 0 THEN 2 ELSE 1)) ELSE base)

CooldownAfter(r, base) == Larger(cooldown, PauseLength(r, base))

Paused(r, base) ==
  [Change(r, InitialDelay, 1) EXCEPT
     !.mode = "probing", !.passed = 0, !.recovery = PauseLength(r, base),
     !.retry = CooldownAfter(r, base), !.errors = 0]

-----------------------------------------------------------------------------
(* What a response says                                                    *)

\* ok: a fast 200, 404 or 410; slow: a late one; denied: 401, 403; limited: 429;
\* unavailable: 503; broken: another 5xx, or a transport error; unreachable: TLS
\* and DNS errors; other: any other status.
Outcome == {"ok", "slow", "denied", "limited", "unavailable", "broken", "unreachable", "other"}
Overload(x) == x \in {"limited", "unavailable"}
Error(x) == x \in {"unavailable", "broken"} \/ (x = "unreachable" /\ ~Continuous)
Neutral(x) == Continuous /\ x \in {"denied", "unreachable"}
KindOf(x) ==
  IF Neutral(x) THEN "neutral" ELSE IF x = "ok" THEN "healthy"
  ELSE IF Error(x) \/ x = "limited" THEN "error" ELSE IF x = "slow" THEN "slow" ELSE "neutral"

\* The sample is closed.
Settle(r, o) == [r EXCEPT !.unsettled = @ - 1, !.owners = @ \ {o}]

\* The order within the window does not matter: a full window is emptied or, during
\* probes, never judged.
Recorded(o, x) ==
  LET r == Settle(rate, o) IN
  [r EXCEPT !.errors = IF Error(x) THEN Smaller(3, @ + 1) ELSE 0,
            !.blocks = IF x = "limited" THEN Smaller(3, @ + 1) ELSE 0,
            !.window[KindOf(x)] = IF ResultsIn(r.window) < Window THEN @ + 1 ELSE @]

FullOf(w) == ResultsIn(w) >= Window
HealthyWindow(w) ==
  LET informative == Window - w["neutral"]
  IN 2 * informative >= Window /\ 20 * w["healthy"] >= 19 * informative
UnhealthyWindow(w) ==
  \/ w["error"] >= 2 /\ 10 * w["error"] >= Window
  \/ w["slow"] >= Window \div 2

\* Faulty variant: the rate is restored, the mode is not.
RateRestored(r) ==
  IF r.passed + 1 >= 3
  THEN [Change(r, r.healthyDelay, MaxConcurrency) EXCEPT !.passed = 0, !.recovery = 0, !.retry = 0]
  ELSE [r EXCEPT !.passed = @ + 1]
\* Three healthy probes end the recovery.
Probed(r) ==
  IF r.passed + 1 >= 3
  THEN [Change(r, r.healthyDelay, MaxConcurrency) EXCEPT
          !.mode = "normal", !.passed = 0, !.recovery = 0, !.retry = 0]
  ELSE [r EXCEPT !.passed = @ + 1]

\* How long a continuous policy pauses after response x; 0: not at all.
PauseAfter(r, x) ==
  IF x = "limited" THEN LongPause
  ELSE IF \/ x = "unavailable"
          \/ r.mode = "probing" /\ (Error(x) \/ x = "slow")
          \/ r.mode = "normal" /\ r.errors >= 3
          \/ r.mode = "normal" /\ FullOf(r.window) /\ ~HealthyWindow(r.window) /\ UnhealthyWindow(r.window)
       THEN ShortPause ELSE 0

\* What else it does.
Learned(r, x) ==
  IF r.mode = "probing" THEN (IF x = "ok" /\ cooldown = 0 THEN Probed(r) ELSE r)
  ELSE IF ~FullOf(r.window) THEN r
  ELSE IF HealthyWindow(r.window)
       THEN LET faster == Change(r, (r.delay * 7) \div 10, MaxConcurrency)
            IN [faster EXCEPT !.healthyDelay = faster.delay]
       ELSE [r EXCEPT !.window = NoResults]

\* A finite pilot slows down instead, and ends itself after three blocks.
Piloted(r, x) ==
  IF r.blocks >= 3 THEN [r EXCEPT !.phase = "aborted"]
  ELSE IF r.phase # "sampling" THEN r
  ELSE IF Overload(x) \/ r.errors >= 3
       THEN [Change(r, Larger(FallbackDelay, 2 * r.delay), 1) EXCEPT !.errors = 0]
  ELSE IF ~FullOf(r.window) THEN r
  ELSE IF HealthyWindow(r.window) THEN Change(r, (r.delay * 7) \div 10, MaxConcurrency)
  ELSE IF UnhealthyWindow(r.window) THEN Change(r, Larger(FallbackDelay, 2 * r.delay), 1)
  ELSE [r EXCEPT !.window = NoResults]
Concluded(r) ==
  IF r.phase = "draining" /\ r.unsettled <= 0 THEN [r EXCEPT !.phase = "completed"] ELSE r

-----------------------------------------------------------------------------
(* Operations                                                              *)

CountExpired(r) ==
  [r EXCEPT !.unsettled = @ - Cardinality(r.owners \ Running), !.owners = @ \cap Running]

\* admitted: one more sample; the last one of a pilot ends the sampling.
Sampled(r, o) ==
  LET kept == CountExpired(r)
      n == IF Continuous THEN 0 ELSE r.started + 1
  IN [kept EXCEPT !.owners = @ \cup {o}, !.unsettled = @ + 1, !.started = n,
                  !.phase = IF ~Continuous /\ n >= Requests THEN "draining" ELSE @]

\* acquire with an adaptive policy.
Acquire(o) ==
  /\ leases[o] = 0 /\ o \notin rate.owners /\ cooldown = 0 /\ Cardinality(Running) < Concurrency
  /\ leases' = [leases EXCEPT ![o] = Ttl]
  /\ IF Adaptive THEN rate' = Sampled(rate, o) /\ probes' = probes \cup {o}
     ELSE UNCHANGED <<rate, probes>>
  /\ UNCHANGED <<cooldown, faults>>

\* observe: the permit runs and its response has not been counted.
Counts(o) == leases[o] > 0 /\ o \in rate.owners

\* feedback
Feedback(o, x) ==
  /\ Counts(o)
  /\ x # "ok" => faults < Faults
  /\ faults' = IF x = "ok" THEN faults ELSE faults + 1
  /\ LET r == Recorded(o, x)
         base == PauseAfter(r, x)
     IN IF ~Continuous
        THEN /\ rate' = Concluded(Piloted(r, x)) /\ UNCHANGED probes
             /\ cooldown' = IF x = "limited" THEN Larger(cooldown, LongPause) ELSE cooldown
        ELSE IF base > 0
        THEN rate' = Paused(r, base) /\ cooldown' = CooldownAfter(r, base) /\ probes' = {}
        ELSE rate' = Learned(r, x) /\ UNCHANGED <<cooldown, probes>>
  /\ UNCHANGED leases

\* A server's Retry-After, under the same permit.
Defer(o, n) ==
  /\ leases[o] > 0 /\ n > cooldown /\ faults < Faults /\ faults' = faults + 1
  /\ cooldown' = n /\ UNCHANGED <<rate, leases, probes>>

\* The permit is returned, after the response or without one.
Release(o) ==
  /\ leases[o] > 0 /\ leases' = [leases EXCEPT ![o] = 0]
  /\ UNCHANGED <<rate, cooldown, probes, faults>>

Tick ==
  /\ leases' = [o \in Owner |-> Larger(0, leases[o] - 1)]
  /\ cooldown' = Larger(0, cooldown - 1) /\ rate' = [rate EXCEPT !.retry = Larger(0, @ - 1)]
  /\ UNCHANGED <<probes, faults>>

Next ==
  \/ \E o \in Owner :
       \/ Acquire(o) \/ Release(o)
       \/ (\E x \in Outcome : Feedback(o, x)) \/ (\E n \in RetryAfter : Defer(o, n))
  \/ Tick

Spec == Init /\ [][Next]_vars

\* Time passes, articles of the host keep coming, and the host keeps answering.
LiveSpec ==
  Spec /\ WF_vars(Tick) /\ SF_vars(\E o \in Owner : Acquire(o))
       /\ SF_vars(\E o \in Owner : Feedback(o, "ok"))

-----------------------------------------------------------------------------
(* Properties                                                              *)

\* The interval stays within the policy, the pause within its bound, and each sample that
\* was started is still open, or was completed or counted as expired once.
TypeOK ==
  /\ rate.unsettled = Cardinality(rate.owners)
  /\ rate.phase = "completed" => rate.owners = {}
  /\ rate.phase \in {"continuous", "sampling", "draining", "completed", "aborted"}
  /\ rate.started \in Nat /\ rate.unsettled \in Nat /\ rate.delay \in MinDelay..MaxDelay
  /\ rate.healthyDelay \in MinDelay..MaxDelay /\ rate.capacity \in {1, MaxConcurrency}
  /\ rate.window \in [Kind -> 0..Window] /\ rate.errors \in 0..3 /\ rate.blocks \in 0..3
  /\ rate.owners \subseteq Owner /\ rate.mode \in {"normal", "probing"} /\ rate.passed \in 0..2
  /\ rate.recovery \in 0..MaxPause /\ rate.retry \in Nat /\ cooldown \in Nat
  /\ leases \in [Owner -> 0..Ttl] /\ probes \subseteq Owner /\ faults \in 0..Faults

\* After a pause the host sees one probe at a time, until it has recovered,
\* whatever was in flight when the pause began.
ProbesAlone == rate.mode = "probing" => Cardinality(probes \cap Running) <= 1

\* A host that answers well again gets its rate back, whatever was lost,
\* reported late, or paused before.
Recovers == []<>(rate.mode = "normal")
=============================================================================
