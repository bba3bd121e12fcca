----------------------------- MODULE SharedHosts -----------------------------
(***************************************************************************)
(* Request pacing of one hostname, crawler/shared_hosts.py: the host's     *)
(* Firestore document, shared by all processes, and the HostLease objects  *)
(* in their memory.  Documents of different hosts never interact.          *)
(*                                                                         *)
(* Every store operation is one transaction.  Its clock is the read time   *)
(* that Firestore assigns, up to Lag ticks before the commit and not       *)
(* before the last write of the document (age).  The process counts its    *)
(* own deadline from before the call (asked), by its own clock, so a call  *)
(* may take any time.  Hosts with an adaptive policy are not covered here. *)
(*                                                                         *)
(* Stored times are distances from the present, as in SharedQueue.         *)
(***************************************************************************)
EXTENDS Integers, FiniteSets

CONSTANTS
  Permit,       \* owners of single permits (uuid4)
  Legacy,       \* permit owners of the release before shared permits
  LateLegacy,   \* whether that release still starts requests
  None,         \* an absent field
  Ttl,          \* ticks a permit lasts (lease_seconds)
  Lag,          \* ticks between a transaction's read and its commit
  Capacity,     \* configured max_concurrency of the processes
  MaxCapacity,  \* the largest of them
  Delay,        \* configured spacings
  Robots,       \* crawl delays that robots.txt files state
  Default,      \* the spacing used before robots rules were recorded (3 s)
  Pause         \* Retry-After values

\* The longest spacing and the longest pause that occur.
LongestDelay == CHOOSE d \in Delay \cup Robots : \A e \in Delay \cup Robots : e <= d
LongestPause == CHOOSE s \in Pause : \A t \in Pause : t <= s

ASSUME TimingAssumption == Ttl \in Nat /\ Lag \in Nat /\ Lag < Ttl
ASSUME CapacityAssumption ==
  MaxCapacity \in Nat /\ Capacity \subseteq 1..MaxCapacity
ASSUME PolicyAssumption ==
  /\ Delay \subseteq Nat /\ Robots \subseteq Nat /\ Pause \subseteq Nat /\ Default \in Nat
  /\ LongestDelay \in Delay \cup Robots /\ \A d \in Delay \cup Robots : d <= LongestDelay
  /\ LongestPause \in Pause /\ \A s \in Pause : s <= LongestPause
ASSUME NoneAssumption ==
  None \notin Int \cup Legacy /\ Permit \cap Legacy = {} /\ LateLegacy \in BOOLEAN

VARIABLES
  host,   \* the host's document
  held,   \* the HostLease (or try_acquire call) of each permit, or None
  old,    \* ticks a legacy process may still use its permit
  age,    \* ticks since the document was written, as far as Lag
  rules   \* history: the longest crawl delay any committed acquire passed

vars == <<host, held, old, age, rules>>

-----------------------------------------------------------------------------
(* The document and the local objects                                      *)

\* leases are the individual permits and when they end; shared tells that
\* the field is there.  owner is a legacy owner or None (nobody, or one of
\* the leases); until is lease_until, the gate a legacy process looks at.
IsLeases(L) == DOMAIN L \subseteq Permit /\ L \in [DOMAIN L -> Int]
Host(L) == [shared : BOOLEAN, leases : {L},
            owner : Legacy \cup {None}, until : Int, cooldown : Int,
            started : Int \cup {None}, delay : Nat, robots : Nat \cup {None}]

\* left is the time to the local deadline, asked the age of a call under way.
HostLease == [state : {"asking", "live", "failed", "closed"}, left : Nat,
              asked : (0..Ttl) \cup {None}]

NoLeases == [p \in {} |-> 0]
FreshHost == [shared |-> FALSE, leases |-> NoLeases, owner |-> None, until |-> -Lag,
              cooldown |-> -Lag, started |-> None, delay |-> 0, robots |-> None]
\* A document as the earlier release left it, its owner still at work.
LegacyHost(o, d) == [FreshHost EXCEPT !.owner = o, !.until = Ttl, !.started = 0, !.delay = d]

Init ==
  /\ \/ host = FreshHost /\ old = [o \in Legacy |-> 0]
     \/ \E o \in Legacy, d \in Delay :
          host = LegacyHost(o, d) /\ old = [x \in Legacy |-> IF x = o THEN Ttl ELSE 0]
  /\ held = [p \in Permit |-> None]
  /\ age = Lag /\ rules = 0

-----------------------------------------------------------------------------
(* Policy of a document (the pure functions of the module)                 *)

Larger(a, b) == IF a >= b THEN a ELSE b

\* Faulty variant: a permit about to end counts as ended.
LastingLeases(lag) == {p \in DOMAIN host.leases : host.leases[p] > lag}
\* The permits that still run at the sampled time.
ActiveLeases(lag) == {p \in DOMAIN host.leases : host.leases[p] > -lag}
RunningLeases(lag) == [p \in ActiveLeases(lag) |-> host.leases[p]]

\* Faulty variant: the gate for legacy readers closes with the first permit.
GateOfFirst(d, L) ==
  [d EXCEPT !.shared = TRUE, !.leases = L, !.owner = None,
            !.until = IF DOMAIN L = {} THEN -Lag
                      ELSE CHOOSE t \in {L[p] : p \in DOMAIN L} :
                             \A p \in DOMAIN L : t <= L[p]]
\* The document d with the permits L, and the gate a legacy reader respects
\* until the last of them ends.
LeaseState(d, L) ==
  [d EXCEPT !.shared = TRUE, !.leases = L, !.owner = None,
            !.until = IF DOMAIN L = {} THEN -Lag
                      ELSE CHOOSE t \in {L[p] : p \in DOMAIN L} :
                             \A p \in DOMAIN L : L[p] <= t]

\* The robots delay a document records; an old document's long delay counts
\* as one.
RecordedRobots ==
  IF host.robots # None THEN host.robots
  ELSE IF host.delay > Default THEN host.delay ELSE 0

\* Faulty variant: a caller's own robots delay replaces the recorded one.
OwnRobots(delay, robots) ==
  IF robots # None THEN robots
  ELSE IF delay > Default THEN Larger(RecordedRobots, delay) ELSE RecordedRobots
\* The robots delay after a caller that knows robots (None: does not know)
\* and uses delay.
KnownRobots(delay, robots) ==
  IF robots # None THEN Larger(RecordedRobots, robots)
  ELSE IF delay > Default THEN Larger(RecordedRobots, delay) ELSE RecordedRobots
\* The spacing such a caller must keep.
Spacing(delay, robots) ==
  LET known == Larger(delay, KnownRobots(delay, robots))
  IN IF robots = None THEN Larger(known, host.delay) ELSE known

\* A permit is free: a legacy owner is alone, the others are counted.
HasPermit(cap, lag) ==
  IF host.owner # None THEN host.until <= -lag
                       ELSE Cardinality(ActiveLeases(lag)) < cap

\* admission_state finds nothing to wait for.
Admits(delay, robots, cap, lag) ==
  /\ host.cooldown <= -lag
  /\ HasPermit(cap, lag)
  /\ host.started # None => host.started + Spacing(delay, robots) <= -lag

\* Faulty variant: the latest pause replaces a longer one.
LatestPause(secs, lag) == secs - lag
\* The end of the cooldown after one more pause.
Cooled(secs, lag) == Larger(host.cooldown, secs - lag)

\* Faulty variant: the deadline is counted from the reply.
LeftFromReply(asked) == Ttl
\* The local deadline is counted from before the call.
LeftFromCall(asked) == Ttl - asked

-----------------------------------------------------------------------------
(* Operations                                                              *)

Usable(p) == held[p] # None /\ held[p].state = "live" /\ held[p].left > 0
Calling(p) == held[p] # None /\ held[p].asked # None
Sampled(lag) == lag <= age
Write(d) == host' = d /\ age' = 0
Keep == UNCHANGED <<host, age>>

\* try_acquire makes a new owner and notes its own clock.
Ask(p) ==
  /\ held[p] = None /\ p \notin DOMAIN host.leases
  /\ held' = [held EXCEPT ![p] = [state |-> "asking", left |-> 0, asked |-> 0]]
  /\ Keep /\ UNCHANGED <<old, rules>>

\* acquire_state grants a permit.  If the reply is lost nobody uses it.
Acquire(p, delay, robots, cap, lag) ==
  /\ Calling(p) /\ held[p].state = "asking"
  /\ Sampled(lag) /\ lag <= held[p].asked
  /\ Admits(delay, robots, cap, lag)
  /\ Write(LeaseState([host EXCEPT !.started = -lag, !.delay = Spacing(delay, robots),
                                   !.robots = KnownRobots(delay, robots)],
                      [q \in ActiveLeases(lag) \cup {p} |->
                         IF q = p THEN Ttl - lag ELSE host.leases[q]]))
  /\ \E delivered \in BOOLEAN :
       held' = [held EXCEPT ![p] = IF delivered
                  THEN [state |-> "live", left |-> LeftFromCall(held[p].asked), asked |-> None]
                  ELSE None]
  /\ rules' = IF robots = None THEN rules ELSE Larger(rules, robots)
  /\ UNCHANGED old

\* acquire_state refuses, but keeps the robots delay it was told.  A policy
\* that differs in nothing modelled here may still be written.
Refuse(p, delay, robots, cap, lag) ==
  /\ Calling(p) /\ held[p].state = "asking"
  /\ Sampled(lag) /\ lag <= held[p].asked
  /\ ~Admits(delay, robots, cap, lag)
  /\ LET told == [host EXCEPT !.delay = Spacing(delay, robots),
                              !.robots = KnownRobots(delay, robots)]
     IN Write(told) \/ (told = host /\ Keep)
  /\ held' = [held EXCEPT ![p] = None]
  /\ rules' = IF robots = None THEN rules ELSE Larger(rules, robots)
  /\ UNCHANGED old

\* The renewal thread of a browser session notes its clock and calls.
StartRenewal(p) ==
  /\ Usable(p) /\ ~Calling(p)
  /\ held' = [held EXCEPT ![p].asked = 0]
  /\ Keep /\ UNCHANGED <<old, rules>>

\* renew: a permit that still runs is extended; a refusal or a lost reply
\* makes the object fail for good.
Renew(p, lag) ==
  /\ Calling(p) /\ held[p].state = "live"
  /\ Sampled(lag) /\ lag <= held[p].asked
  /\ LET owned == p \in ActiveLeases(lag)
     IN /\ IF owned THEN Write(LeaseState(host, [RunningLeases(lag) EXCEPT ![p] = Ttl - lag]))
                    ELSE Keep
        /\ \E replied \in BOOLEAN :
             held' = [held EXCEPT ![p] = IF owned /\ replied
                        THEN [@ EXCEPT !.left = LeftFromCall(held[p].asked), !.asked = None]
                        ELSE [@ EXCEPT !.state = "failed", !.asked = None]]
  /\ UNCHANGED <<old, rules>>

\* defer: a pause told to the holder of a permit, whose check() came before.
Defer(p, secs, lag) ==
  /\ held[p] # None /\ held[p].state \in {"live", "failed"} /\ Sampled(lag)
  /\ IF p \in ActiveLeases(lag)
     THEN Write([host EXCEPT !.cooldown = Cooled(secs, lag)]) /\ UNCHANGED held
     ELSE Keep /\ held' = [held EXCEPT ![p].state = "failed"]
  /\ UNCHANGED <<old, rules>>

\* cooldown: a pause told to a browser, or a failing archive service; no
\* permit is needed.
Cooldown(secs, lag) ==
  /\ Sampled(lag)
  /\ Write([host EXCEPT !.cooldown = Cooled(secs, lag)])
  /\ UNCHANGED <<held, old, rules>>

\* HostLease.release first closes the object, once a renewal has ended ...
Close(p) ==
  /\ held[p] # None /\ held[p].state \in {"live", "failed"} /\ ~Calling(p)
  /\ held' = [held EXCEPT ![p].state = "closed"]
  /\ Keep /\ UNCHANGED <<old, rules>>

\* ... and then the store removes the permit, however late.
Release(p, lag) ==
  /\ held[p] # None /\ held[p].state = "closed" /\ Sampled(lag)
  /\ IF p \in DOMAIN host.leases
     THEN Write(LeaseState(host, [q \in ActiveLeases(lag) \ {p} |-> host.leases[q]]))
     ELSE Keep
  /\ held' = [held EXCEPT ![p] = None]
  /\ UNCHANGED <<old, rules>>

\* The process dies, or gives up a release that failed.
Vanish(p) ==
  /\ held[p] # None
  /\ held' = [held EXCEPT ![p] = None]
  /\ Keep /\ UNCHANGED <<old, rules>>

\* A process of the earlier release acquires: it sees one exclusive owner and
\* keeps the fields it does not know.
LegacyAcquire(o, delay, lag) ==
  /\ LateLegacy /\ old[o] = 0 /\ Sampled(lag)
  /\ host.cooldown <= -lag /\ host.until <= -lag
  /\ host.started # None => host.started + delay <= -lag
  /\ Write([host EXCEPT !.owner = o, !.until = Ttl - lag, !.started = -lag, !.delay = delay])
  /\ old' = [old EXCEPT ![o] = Ttl - lag]
  /\ UNCHANGED <<held, rules>>

\* A legacy process releases the permit while it still owns it.
LegacyRelease(o) ==
  /\ old[o] > 0
  /\ IF host.owner = o THEN Write([host EXCEPT !.owner = None, !.until = -Lag]) ELSE Keep
  /\ old' = [old EXCEPT ![o] = 0]
  /\ UNCHANGED <<held, rules>>

\* One unit of time passes.  No comparison sees beyond the floors.
Tick ==
  LET closer(t, floor) == IF t > floor THEN t - 1 ELSE floor
      later(n) == IF n = None \/ n = Ttl THEN n ELSE n + 1
  IN /\ host' = [host EXCEPT
          !.leases = [p \in DOMAIN host.leases |-> closer(host.leases[p], -Lag)],
          !.until = closer(@, -Lag), !.cooldown = closer(@, -Lag),
          !.started = IF @ = None THEN None ELSE closer(@, -(Lag + LongestDelay))]
     /\ held' = [p \in Permit |-> IF held[p] = None THEN None
                   ELSE [held[p] EXCEPT !.left = closer(@, 0), !.asked = later(@)]]
     /\ old' = [o \in Legacy |-> closer(old[o], 0)]
     /\ age' = IF age < Lag THEN age + 1 ELSE Lag
     /\ UNCHANGED rules

Next ==
  \/ \E p \in Permit : Ask(p) \/ StartRenewal(p) \/ Close(p) \/ Vanish(p)
  \/ \E p \in Permit, delay \in Delay, robots \in Robots \cup {None}, cap \in Capacity,
        lag \in 0..Lag :
       Acquire(p, delay, robots, cap, lag) \/ Refuse(p, delay, robots, cap, lag)
  \/ \E p \in Permit, lag \in 0..Lag : Renew(p, lag) \/ Release(p, lag)
  \/ \E p \in Permit, secs \in Pause, lag \in 0..Lag : Defer(p, secs, lag)
  \/ \E secs \in Pause, lag \in 0..Lag : Cooldown(secs, lag)
  \/ \E o \in Legacy, delay \in Delay, lag \in 0..Lag : LegacyAcquire(o, delay, lag)
  \/ \E o \in Legacy : LegacyRelease(o)
  \/ Tick

Spec == Init /\ [][Next]_vars

-----------------------------------------------------------------------------
(* Properties                                                              *)

\* The document and the local objects keep their shape.
TypeOK ==
  /\ IsLeases(host.leases) /\ host \in Host(host.leases)
  /\ held \in [Permit -> HostLease \cup {None}]
  /\ old \in [Legacy -> Nat]
  /\ age \in 0..Lag /\ rules \in Nat

\* A process stops before its permit can be given to another: while its own
\* check() passes, the document still holds its permit, and at least as long,
\* whatever calls were slow, lost, or repeated.
UsableIsLeased ==
  \A p \in Permit : Usable(p) =>
    p \in DOMAIN host.leases /\ host.leases[p] >= held[p].left

\* No more processes use the host than the largest capacity in use admits.
PermitsBounded == Cardinality({p \in Permit : Usable(p)}) <= MaxCapacity

\* While a process of the earlier release may use its exclusive permit nobody
\* else uses the host; in particular a delayed release of an old permit is
\* harmless to its new owner.
LegacyExclusive ==
  \A o \in Legacy : old[o] > 0 =>
    /\ \A p \in Permit : ~Usable(p)
    /\ \A x \in Legacy \ {o} : old[x] = 0

\* Once any process has learned a crawl delay, two requests never start
\* closer together, not even by processes that know no rule or a shorter one.
RobotsRuleKept ==
  [][\A p \in DOMAIN host'.leases \ DOMAIN host.leases :
       host.started # None => host'.started - host.started >= rules']_vars

\* A pause never becomes shorter but by time, and no request starts in it.
PausesHold ==
  [][Tick \/ /\ host'.cooldown >= host.cooldown
             /\ \A p \in DOMAIN host'.leases \ DOMAIN host.leases :
                  host.cooldown <= host'.started]_vars

\* A process of the earlier release, which cannot see the permits, gets its
\* exclusive one only when no process can use one of them.
LegacyWaits ==
  [][\A o \in Legacy : old[o] = 0 /\ old'[o] > 0 => \A p \in Permit : ~Usable(p)]_vars
=============================================================================
