-------------------------- MODULE SharedHostsProofs --------------------------
(***************************************************************************)
(* Proofs about SharedHosts, for any permits, permit length, transaction   *)
(* delay, capacities, spacings and pauses.                                 *)
(***************************************************************************)
EXTENDS SharedHosts, FiniteSetTheorems, WellFoundedInduction, TLAPS

-----------------------------------------------------------------------------
(* Permits and the gate of a document                                      *)

\* A set of natural numbers has a least member.
LEMMA LeastNatural ==
  ASSUME NEW T, T \subseteq Nat, T # {}
  PROVE  \E x \in T : \A y \in T : x <= y
<1> DEFINE R == OpToRel(<, Nat)
<1>1. IsWellFoundedOn(R, Nat)
  BY NatLessThanWellFounded
<1>2. \A x, y \in Nat : y < x => <<y, x>> \in R
  BY DEF OpToRel
<1> HIDE DEF R
<1>3. PICK x \in T : \A y \in T : ~(<<y, x>> \in R)
  BY <1>1, WFMin
<1>4. ASSUME NEW y \in T
      PROVE  x <= y
  <2>1. x \in Nat /\ y \in Nat
    OBVIOUS
  <2>2. ~(y < x)
    BY <2>1, <1>2, <1>3
  <2>3. QED
    BY <2>1, <2>2
<1>5. QED
  BY <1>4

\* Some permit ends last, when none ends later than b.
LEMMA LastPermit ==
  ASSUME NEW L, L \in [DOMAIN L -> Int], DOMAIN L # {},
         NEW b \in Int, \A p \in DOMAIN L : L[p] <= b
  PROVE  \E t \in {L[p] : p \in DOMAIN L} : \A p \in DOMAIN L : L[p] <= t
<1> DEFINE T == {b - L[p] : p \in DOMAIN L}
<1>1. T \subseteq Nat /\ T # {}
  OBVIOUS
<1>2. PICK x \in T : \A y \in T : x <= y
  BY <1>1, LeastNatural
<1>3. PICK q \in DOMAIN L : x = b - L[q]
  BY <1>2
<1>4. ASSUME NEW p \in DOMAIN L
      PROVE  L[p] <= L[q]
  <2>1. L[p] \in Int /\ L[q] \in Int
    OBVIOUS
  <2>2. b - L[q] <= b - L[p]
    BY <1>2, <1>3
  <2>3. QED
    BY <2>1, <2>2
<1>5. QED
  BY <1>4

\* A document whose permits are replaced by L: all else but the gate stays,
\* and the gate closes no earlier than the last of them.
LEMMA LeaseStateShape ==
  ASSUME NEW M, NEW d \in Host(M), NEW L, IsLeases(L), \A p \in DOMAIN L : L[p] <= Ttl
  PROVE  LET x == LeaseState(d, L)
         IN /\ x \in Host(L) /\ x.leases = L /\ x.owner = None
            /\ \A p \in DOMAIN L : L[p] <= x.until
            /\ x.cooldown = d.cooldown /\ x.started = d.started
<1> DEFINE t == IF DOMAIN L = {} THEN -Lag
                ELSE CHOOSE u \in {L[p] : p \in DOMAIN L} : \A p \in DOMAIN L : L[p] <= u
<1>1. Ttl \in Int /\ -Lag \in Int
  BY TimingAssumption
<1>2. t \in Int /\ \A p \in DOMAIN L : L[p] <= t
  <2>1. CASE DOMAIN L = {}
    BY <1>1, <2>1
  <2>2. CASE DOMAIN L # {}
    <3>1. \E u \in {L[p] : p \in DOMAIN L} : \A p \in DOMAIN L : L[p] <= u
      BY <1>1, <2>2, LastPermit DEF IsLeases
    <3>2. t \in {L[p] : p \in DOMAIN L} /\ \A p \in DOMAIN L : L[p] <= t
      BY <2>2, <3>1
    <3>3. QED
      BY <3>2 DEF IsLeases
  <2>3. QED
    BY <2>1, <2>2
<1>3. LeaseState(d, L)
        = [d EXCEPT !.shared = TRUE, !.leases = L, !.owner = None, !.until = t]
  BY DEF LeaseState
<1> HIDE DEF t
<1>4. QED
  BY <1>2, <1>3 DEF Host

\* The policy functions return natural numbers.
LEMMA PolicyType ==
  ASSUME NEW M, host \in Host(M), NEW delay \in Delay, NEW robots \in Robots \cup {None}
  PROVE  KnownRobots(delay, robots) \in Nat /\ Spacing(delay, robots) \in Nat
<1>1. delay \in Nat /\ robots \in Nat \cup {None} /\ host.delay \in Nat
      /\ host.robots \in Nat \cup {None}
  BY PolicyAssumption DEF Host
<1>2. RecordedRobots \in Nat
  BY <1>1 DEF RecordedRobots
<1>3. KnownRobots(delay, robots) \in Nat
  BY <1>1, <1>2 DEF KnownRobots, Larger
<1>4. QED
  BY <1>1, <1>3 DEF Spacing, Larger

-----------------------------------------------------------------------------
(* The inductive invariant                                                 *)

\* No permit ends later than a whole permit from now.
LeasesBounded ==
  IsFiniteSet(DOMAIN host.leases) /\ \A p \in DOMAIN host.leases : host.leases[p] <= Ttl

Shape == TypeOK /\ LeasesBounded

\* The document a grant writes before its permits are replaced.
Granted(delay, robots, lag) ==
  [host EXCEPT !.started = -lag, !.delay = Spacing(delay, robots),
               !.robots = KnownRobots(delay, robots)]
GrantedLeases(p, lag) ==
  [q \in ActiveLeases(lag) \cup {p} |-> IF q = p THEN Ttl - lag ELSE host.leases[q]]

\* Permits that remain, and permits with one more or one less, have the shape
\* of permits.
LEMMA LeasesShape ==
  ASSUME Shape, NEW p \in Permit, NEW lag \in 0..Lag
  PROVE  /\ ActiveLeases(lag) \subseteq DOMAIN host.leases
         /\ \A L \in {GrantedLeases(p, lag), [RunningLeases(lag) EXCEPT ![p] = Ttl - lag],
                      [q \in ActiveLeases(lag) \ {p} |-> host.leases[q]]} :
              /\ IsLeases(L) /\ IsFiniteSet(DOMAIN L)
              /\ \A q \in DOMAIN L : L[q] <= Ttl
<1> DEFINE A == ActiveLeases(lag)
<1>1. A \subseteq DOMAIN host.leases /\ DOMAIN host.leases \subseteq Permit
      /\ (\A q \in DOMAIN host.leases : host.leases[q] \in Int /\ host.leases[q] <= Ttl)
  BY DEF Shape, TypeOK, IsLeases, LeasesBounded, ActiveLeases
<1>2. IsFiniteSet(A) /\ IsFiniteSet(A \cup {p}) /\ IsFiniteSet(A \ {p})
  BY <1>1, FS_Subset, FS_AddElement, FS_RemoveElement DEF Shape, LeasesBounded
<1>3. Ttl - lag \in Int /\ Ttl - lag <= Ttl
  BY TimingAssumption
<1> HIDE DEF A
<1>4. LET L == GrantedLeases(p, lag)
      IN IsLeases(L) /\ IsFiniteSet(DOMAIN L) /\ \A q \in DOMAIN L : L[q] <= Ttl
  BY <1>1, <1>2, <1>3 DEF GrantedLeases, IsLeases, A
<1>5. LET L == [RunningLeases(lag) EXCEPT ![p] = Ttl - lag]
      IN IsLeases(L) /\ IsFiniteSet(DOMAIN L) /\ \A q \in DOMAIN L : L[q] <= Ttl
  BY <1>1, <1>2, <1>3 DEF RunningLeases, IsLeases, A
<1>6. LET L == [q \in ActiveLeases(lag) \ {p} |-> host.leases[q]]
      IN IsLeases(L) /\ IsFiniteSet(DOMAIN L) /\ \A q \in DOMAIN L : L[q] <= Ttl
  BY <1>1, <1>2 DEF IsLeases, A
<1>7. QED
  BY <1>1, <1>4, <1>5, <1>6 DEF A

\* A write that replaces the permits by L keeps the shape of the document.
LEMMA RewrittenShape ==
  ASSUME Shape, NEW M, NEW d \in Host(M), NEW L, IsLeases(L), IsFiniteSet(DOMAIN L),
         \A p \in DOMAIN L : L[p] <= Ttl, Write(LeaseState(d, L))
  PROVE  /\ IsLeases(host'.leases) /\ host' \in Host(host'.leases) /\ LeasesBounded'
         /\ age' \in 0..Lag
<1>1. host' \in Host(L) /\ host'.leases = L
  BY LeaseStateShape DEF Write
<1>2. age' \in 0..Lag
  BY TimingAssumption DEF Write
<1>3. QED
  BY <1>1, <1>2 DEF LeasesBounded

\* A write of other fields, or none, keeps it too.
LEMMA KeptShape ==
  ASSUME Shape,
         \/ Keep
         \/ host'.leases = host.leases /\ host' \in Host(host.leases) /\ age' = 0
  PROVE  /\ IsLeases(host'.leases) /\ host' \in Host(host'.leases) /\ LeasesBounded'
         /\ age' \in 0..Lag
<1>1. 0 \in 0..Lag
  BY TimingAssumption
<1>2. QED
  BY <1>1 DEF Shape, TypeOK, LeasesBounded, Keep

LEMMA InitShape == Init => Shape
<1> SUFFICES ASSUME Init
             PROVE  Shape
  OBVIOUS
<1>1. -Lag \in Int /\ Lag \in 0..Lag /\ Ttl \in Nat
  BY TimingAssumption
<1>2. IsLeases(NoLeases) /\ DOMAIN NoLeases = {}
  BY DEF IsLeases, NoLeases
<1>3. FreshHost \in Host(NoLeases) /\ FreshHost.leases = NoLeases
  BY <1>1 DEF FreshHost, Host
<1>4. \A o \in Legacy, d \in Delay :
        LegacyHost(o, d) \in Host(NoLeases) /\ LegacyHost(o, d).leases = NoLeases
  <2> TAKE o \in Legacy, d \in Delay
  <2>1. d \in Nat /\ 0 \in Int \cup {None} /\ Ttl \in Int
    BY <1>1, PolicyAssumption
  <2>2. QED
    BY <1>3, <2>1 DEF LegacyHost, Host
<1>5. host \in Host(NoLeases) /\ host.leases = NoLeases
  BY <1>3, <1>4 DEF Init
<1>6. old \in [Legacy -> Nat]
  BY <1>1 DEF Init
<1>7. IsFiniteSet({})
  BY FS_EmptySet
<1>8. QED
  BY <1>1, <1>2, <1>5, <1>6, <1>7 DEF Init, Shape, TypeOK, LeasesBounded

\* A call's age and a deadline stay within the length of a permit.
LEMMA HeldShape ==
  ASSUME Shape, NEW p \in Permit, held[p] # None
  PROVE  /\ held[p] \in HostLease
         /\ held[p].asked # None => LeftFromCall(held[p].asked) \in Nat
<1>1. held[p] \in HostLease
  BY DEF Shape, TypeOK
<1>2. held[p].asked # None => held[p].asked \in 0..Ttl
  BY <1>1 DEF HostLease
<1>3. QED
  BY <1>1, <1>2, TimingAssumption DEF LeftFromCall

\* Every operation keeps the shape of documents and local objects.
LEMMA StepShape == Shape /\ [Next]_vars => Shape'
<1> SUFFICES ASSUME Shape, [Next]_vars
             PROVE  Shape'
  OBVIOUS
<1>0. /\ IsLeases(host.leases) /\ host \in Host(host.leases)
      /\ held \in [Permit -> HostLease \cup {None}] /\ old \in [Legacy -> Nat]
      /\ age \in 0..Lag /\ rules \in Nat /\ LeasesBounded
      /\ Lag \in Nat /\ Ttl \in Nat /\ 0 \in 0..Ttl
  BY TimingAssumption DEF Shape, TypeOK
<1> DEFINE DocumentShape == /\ IsLeases(host'.leases) /\ host' \in Host(host'.leases)
                            /\ LeasesBounded' /\ age' \in 0..Lag
           RestShape == /\ held' \in [Permit -> HostLease \cup {None}]
                        /\ old' \in [Legacy -> Nat] /\ rules' \in Nat
<1>s. SUFFICES DocumentShape /\ RestShape
  BY DEF Shape, TypeOK
<1>1. ASSUME NEW p \in Permit, Ask(p)
      PROVE  DocumentShape /\ RestShape
  <2>1. DocumentShape
    BY <1>1, KeptShape DEF Ask
  <2>2. [state |-> "asking", left |-> 0, asked |-> 0] \in HostLease
    BY <1>0 DEF HostLease
  <2>3. QED
    BY <1>0, <1>1, <2>1, <2>2 DEF Ask
<1>2. ASSUME NEW p \in Permit, NEW delay \in Delay, NEW robots \in Robots \cup {None},
             NEW cap \in Capacity, NEW lag \in 0..Lag, Acquire(p, delay, robots, cap, lag)
      PROVE  DocumentShape /\ RestShape
  <2>1. Granted(delay, robots, lag) \in Host(host.leases)
    <3>1. KnownRobots(delay, robots) \in Nat /\ Spacing(delay, robots) \in Nat
      BY <1>0, PolicyType
    <3>2. -lag \in Int
      BY <1>0
    <3>3. QED
      BY <1>0, <3>1, <3>2 DEF Granted, Host
  <2>2. Write(LeaseState(Granted(delay, robots, lag), GrantedLeases(p, lag)))
    BY <1>2 DEF Acquire, Granted, GrantedLeases
  <2>3. DocumentShape
    BY <2>1, <2>2, LeasesShape, RewrittenShape
  <2>4. LeftFromCall(held[p].asked) \in Nat
    BY <1>2, HeldShape DEF Acquire, Calling
  <2>5. [state |-> "live", left |-> LeftFromCall(held[p].asked), asked |-> None] \in HostLease
    BY <2>4 DEF HostLease
  <2>6. held' \in [Permit -> HostLease \cup {None}]
    BY <1>0, <1>2, <2>5 DEF Acquire
  <2>7. rules' \in Nat
    BY <1>0, <1>2, PolicyAssumption DEF Acquire, Larger
  <2>8. QED
    BY <1>0, <1>2, <2>3, <2>6, <2>7 DEF Acquire
<1>3. ASSUME NEW p \in Permit, NEW delay \in Delay, NEW robots \in Robots \cup {None},
             NEW cap \in Capacity, NEW lag \in 0..Lag, Refuse(p, delay, robots, cap, lag)
      PROVE  DocumentShape /\ RestShape
  <2> DEFINE told == [host EXCEPT !.delay = Spacing(delay, robots),
                                  !.robots = KnownRobots(delay, robots)]
  <2>1. told \in Host(host.leases) /\ told.leases = host.leases
    BY <1>0, PolicyType DEF Host
  <2>2. DocumentShape
    BY <1>3, <2>1, KeptShape DEF Refuse, Write
  <2>3. rules' \in Nat
    BY <1>0, <1>3, PolicyAssumption DEF Refuse, Larger
  <2>4. QED
    BY <1>0, <1>3, <2>2, <2>3 DEF Refuse
<1>4. ASSUME NEW p \in Permit, StartRenewal(p)
      PROVE  DocumentShape /\ RestShape
  <2>1. [held[p] EXCEPT !.asked = 0] \in HostLease
    BY <1>0, <1>4, HeldShape DEF StartRenewal, Usable, HostLease
  <2>2. DocumentShape
    BY <1>4, KeptShape DEF StartRenewal
  <2>3. QED
    BY <1>0, <1>4, <2>1, <2>2 DEF StartRenewal
<1>5. ASSUME NEW p \in Permit, NEW lag \in 0..Lag, Renew(p, lag)
      PROVE  DocumentShape /\ RestShape
  <2>1. DocumentShape
    <3>1. CASE p \in ActiveLeases(lag)
      BY <1>0, <1>5, <3>1, LeasesShape, RewrittenShape DEF Renew
    <3>2. CASE p \notin ActiveLeases(lag)
      BY <1>5, <3>2, KeptShape DEF Renew
    <3>3. QED
      BY <3>1, <3>2
  <2>2. held[p] \in HostLease /\ LeftFromCall(held[p].asked) \in Nat
    BY <1>5, HeldShape DEF Renew, Calling
  <2>3. /\ [held[p] EXCEPT !.left = LeftFromCall(held[p].asked), !.asked = None] \in HostLease
        /\ [held[p] EXCEPT !.state = "failed", !.asked = None] \in HostLease
    BY <2>2 DEF HostLease
  <2>4. QED
    BY <1>0, <1>5, <2>1, <2>3 DEF Renew
<1>6. ASSUME NEW p \in Permit, NEW secs \in Pause, NEW lag \in 0..Lag, Defer(p, secs, lag)
      PROVE  DocumentShape /\ RestShape
  <2>1. Cooled(secs, lag) \in Int
    BY <1>0, PolicyAssumption DEF Cooled, Larger, Host
  <2>2. DocumentShape
    BY <1>0, <1>6, <2>1, KeptShape DEF Defer, Write, Host
  <2>3. [held[p] EXCEPT !.state = "failed"] \in HostLease
    BY <1>6, HeldShape DEF Defer, HostLease
  <2>4. QED
    BY <1>0, <1>6, <2>2, <2>3 DEF Defer
<1>7. ASSUME NEW secs \in Pause, NEW lag \in 0..Lag, Cooldown(secs, lag)
      PROVE  DocumentShape /\ RestShape
  <2>1. Cooled(secs, lag) \in Int
    BY <1>0, PolicyAssumption DEF Cooled, Larger, Host
  <2>2. DocumentShape
    BY <1>0, <1>7, <2>1, KeptShape DEF Cooldown, Write, Host
  <2>3. QED
    BY <1>0, <1>7, <2>2 DEF Cooldown
<1>8. ASSUME NEW p \in Permit, Close(p)
      PROVE  DocumentShape /\ RestShape
  <2>1. [held[p] EXCEPT !.state = "closed"] \in HostLease
    BY <1>8, HeldShape DEF Close, HostLease
  <2>2. DocumentShape
    BY <1>8, KeptShape DEF Close
  <2>3. QED
    BY <1>0, <1>8, <2>1, <2>2 DEF Close
<1>9. ASSUME NEW p \in Permit, NEW lag \in 0..Lag, Release(p, lag)
      PROVE  DocumentShape /\ RestShape
  <2>1. DocumentShape
    <3>1. CASE p \in DOMAIN host.leases
      BY <1>0, <1>9, <3>1, LeasesShape, RewrittenShape DEF Release
    <3>2. CASE p \notin DOMAIN host.leases
      BY <1>9, <3>2, KeptShape DEF Release
    <3>3. QED
      BY <3>1, <3>2
  <2>2. QED
    BY <1>0, <1>9, <2>1 DEF Release
<1>10. ASSUME NEW p \in Permit, Vanish(p)
       PROVE  DocumentShape /\ RestShape
  <2>1. DocumentShape
    BY <1>10, KeptShape DEF Vanish
  <2>2. QED
    BY <1>0, <1>10, <2>1 DEF Vanish
<1>11. ASSUME NEW o \in Legacy, NEW delay \in Delay, NEW lag \in 0..Lag,
              LegacyAcquire(o, delay, lag)
       PROVE  DocumentShape /\ RestShape
  <2> DEFINE d == [host EXCEPT !.owner = o, !.until = Ttl - lag, !.started = -lag,
                               !.delay = delay]
  <2>1. Ttl - lag \in Nat /\ -lag \in Int /\ delay \in Nat
    <3>1. Ttl - lag \in Nat /\ -lag \in Int
      BY TimingAssumption
    <3>2. QED
      BY <3>1, PolicyAssumption
  <2>a. d \in Host(host.leases) /\ d.leases = host.leases
    <3> DEFINE t == Ttl - lag
               s == -lag
    <3>1. t \in Int /\ s \in Int \cup {None} /\ delay \in Nat /\ o \in Legacy \cup {None}
          /\ host \in Host(host.leases)
      BY <1>0, <2>1
    <3>2. d = [host EXCEPT !.owner = o, !.until = t, !.started = s, !.delay = delay]
      OBVIOUS
    <3> HIDE DEF d, t, s
    <3>3. QED
      BY <3>1, <3>2 DEF Host
  <2>b. host' = d /\ age' = 0
    BY <1>11 DEF LegacyAcquire, Write
  <2>2. DocumentShape
    BY <2>a, <2>b, KeptShape
  <2>3. QED
    BY <1>0, <1>11, <2>1, <2>2 DEF LegacyAcquire
<1>12. ASSUME NEW o \in Legacy, LegacyRelease(o)
       PROVE  DocumentShape /\ RestShape
  <2> DEFINE d == [host EXCEPT !.owner = None, !.until = -Lag]
  <2>a. -Lag \in Int
    BY <1>0
  <2>b. d \in Host(host.leases) /\ d.leases = host.leases
    BY <1>0, <2>a DEF Host
  <2>c. Keep \/ (host' = d /\ age' = 0)
    BY <1>12 DEF LegacyRelease, Write
  <2>1. DocumentShape
    BY <2>b, <2>c, KeptShape
  <2>2. QED
    BY <1>0, <1>12, <2>1 DEF LegacyRelease
<1>13. CASE Tick
  <2> DEFINE closer(t, floor) == IF t > floor THEN t - 1 ELSE floor
             later(n) == IF n = None \/ n = Ttl THEN n ELSE n + 1
             L == [p \in DOMAIN host.leases |-> closer(host.leases[p], -Lag)]
  <2>1. \A t \in Int, f \in Int : closer(t, f) \in Int /\ (t >= f => closer(t, f) >= f)
    OBVIOUS
  <2>2. IsLeases(L) /\ DOMAIN L = DOMAIN host.leases
    BY <1>0, <2>1 DEF IsLeases
  <2>3. \A p \in DOMAIN L : L[p] <= Ttl
    BY <1>0 DEF LeasesBounded, IsLeases
  <2>4. -Lag \in Int /\ -(Lag + LongestDelay) \in Int
    BY <1>0, PolicyAssumption
  <2>5. host' \in Host(L) /\ host'.leases = L
    <3>1. host' = [host EXCEPT !.leases = L, !.until = closer(host.until, -Lag),
                    !.cooldown = closer(host.cooldown, -Lag),
                    !.started = IF host.started = None THEN None
                                ELSE closer(host.started, -(Lag + LongestDelay))]
      BY <1>13 DEF Tick
    <3>2. closer(host.until, -Lag) \in Int /\ closer(host.cooldown, -Lag) \in Int
          /\ (host.started # None => closer(host.started, -(Lag + LongestDelay)) \in Int)
      BY <1>0, <2>4 DEF Host
    <3> HIDE DEF closer, L
    <3>3. QED
      BY <1>0, <3>1, <3>2 DEF Host
  <2>6. age' \in 0..Lag
    <3>1. age' = IF age < Lag THEN age + 1 ELSE Lag
      BY <1>13 DEF Tick
    <3>2. QED
      BY <1>0, <3>1
  <2>7. DocumentShape
    BY <1>0, <2>2, <2>3, <2>5, <2>6 DEF LeasesBounded
  <2>8. ASSUME NEW p \in Permit, held[p] # None
        PROVE  [held[p] EXCEPT !.left = closer(@, 0), !.asked = later(@)] \in HostLease
    <3>1. held[p] \in HostLease
      BY <2>8, HeldShape
    <3>2. closer(held[p].left, 0) \in Nat /\ later(held[p].asked) \in (0..Ttl) \cup {None}
      BY <1>0, <3>1 DEF HostLease
    <3> HIDE DEF closer, later
    <3>3. QED
      BY <3>1, <3>2 DEF HostLease
  <2>9. held' = [p \in Permit |-> IF held[p] = None THEN None
                   ELSE [held[p] EXCEPT !.left = closer(@, 0), !.asked = later(@)]]
    BY <1>13 DEF Tick
  <2>10. old' = [o \in Legacy |-> closer(old[o], 0)]
    BY <1>13 DEF Tick
  <2>11. old' \in [Legacy -> Nat]
    BY <1>0, <2>10
  <2>12. held' \in [Permit -> HostLease \cup {None}]
    <3> HIDE DEF closer, later
    <3>1. QED
      BY <2>8, <2>9
  <2>13. QED
    BY <1>0, <1>13, <2>7, <2>11, <2>12 DEF Tick
<1>14. CASE UNCHANGED vars
  BY <1>0, <1>14, KeptShape DEF vars, Keep
<1>15. QED
  BY <1>1, <1>2, <1>3, <1>4, <1>5, <1>6, <1>7, <1>8, <1>9, <1>10, <1>11, <1>12, <1>13,
     <1>14 DEF Next

\* Documents, permits and local objects keep their shape, whatever processes
\* of either release do.
THEOREM TypeCorrect == Spec => []TypeOK
<1>1. Shape => TypeOK
  BY DEF Shape
<1>2. QED
  BY <1>1, InitShape, StepShape, PTL DEF Spec

-----------------------------------------------------------------------------
(* Permits in use                                                          *)

\* The gate stays closed until the last permit ends.  A legacy owner opened
\* it, or left, when all of them had ended.
GateCovers ==
  \A p \in DOMAIN host.leases :
    host.leases[p] <= IF host.owner = None THEN Larger(host.until, 0) ELSE 0

\* When the document was last written, no more permits ran than the largest
\* capacity admits.
FewRunning == Cardinality(ActiveLeases(age)) <= MaxCapacity

PermitInv == UsableIsLeased /\ GateCovers /\ FewRunning

LEMMA InitPermits == Init => PermitInv
<1> SUFFICES ASSUME Init
             PROVE  PermitInv
  OBVIOUS
<1>1. DOMAIN host.leases = {}
  <2>1. FreshHost.leases = NoLeases
    BY DEF FreshHost
  <2>2. \A o \in Legacy, d \in Delay : LegacyHost(o, d).leases = NoLeases
    BY DEF LegacyHost, FreshHost
  <2>3. host.leases = NoLeases
    BY <2>1, <2>2 DEF Init
  <2>4. QED
    BY <2>3 DEF NoLeases
<1>2. ActiveLeases(age) = {}
  BY <1>1 DEF ActiveLeases
<1>3. Cardinality({}) = 0 /\ MaxCapacity \in Nat
  BY FS_EmptySet, CapacityAssumption
<1>4. UsableIsLeased
  BY DEF Init, UsableIsLeased, Usable
<1>5. QED
  BY <1>1, <1>2, <1>3, <1>4 DEF PermitInv, GateCovers, FewRunning

\* Fewer permits run later: what ran at a sampled time ran at the last write.
LEMMA FewerRun ==
  ASSUME Shape, FewRunning, NEW S, S \subseteq ActiveLeases(age)
  PROVE  IsFiniteSet(S) /\ Cardinality(S) <= MaxCapacity
<1>1. ActiveLeases(age) \subseteq DOMAIN host.leases
  BY DEF ActiveLeases
<1>2. IsFiniteSet(ActiveLeases(age))
  BY <1>1, FS_Subset DEF Shape, LeasesBounded
<1>3. IsFiniteSet(S) /\ Cardinality(S) <= Cardinality(ActiveLeases(age))
  BY <1>2, FS_Subset
<1>4. Cardinality(S) \in Nat /\ Cardinality(ActiveLeases(age)) \in Nat /\ MaxCapacity \in Nat
  BY <1>2, <1>3, FS_CardinalityType, CapacityAssumption
<1>5. QED
  BY <1>3, <1>4 DEF FewRunning

LEMMA SampledRun ==
  ASSUME Shape, NEW lag \in 0..Lag, Sampled(lag)
  PROVE  ActiveLeases(lag) \subseteq ActiveLeases(age)
<1>1. age \in Int /\ lag \in Int /\ lag <= age
  BY TimingAssumption DEF Shape, TypeOK, Sampled
<1>2. \A p \in DOMAIN host.leases : host.leases[p] \in Int
  BY DEF Shape, TypeOK, IsLeases
<1>3. QED
  BY <1>1, <1>2 DEF ActiveLeases

\* A step that leaves permits and gate alone and makes nobody's use longer.
LEMMA QuietStep ==
  ASSUME Shape, PermitInv, host'.leases = host.leases, host'.owner = host.owner,
         host'.until = host.until, age' \in {age, 0},
         \A p \in Permit : Usable(p)' => Usable(p) /\ held'[p].left = held[p].left
  PROVE  PermitInv'
<1>1. UsableIsLeased'
  BY DEF PermitInv, UsableIsLeased
<1>2. GateCovers'
  BY DEF PermitInv, GateCovers
<1>3. ActiveLeases(age)' \subseteq ActiveLeases(age)
  BY TimingAssumption DEF Shape, TypeOK, IsLeases, ActiveLeases
<1>4. FewRunning'
  BY <1>3, FewerRun DEF PermitInv, FewRunning
<1>5. QED
  BY <1>1, <1>2, <1>4 DEF PermitInv

\* A write that replaces the permits by L, which covers the uses.
LEMMA RewriteStep ==
  ASSUME NEW M, NEW d \in Host(M), NEW L, IsLeases(L), \A p \in DOMAIN L : L[p] <= Ttl,
         Write(LeaseState(d, L)),
         \A p \in Permit : Usable(p)' => p \in DOMAIN L /\ L[p] >= held'[p].left,
         Cardinality({p \in DOMAIN L : L[p] > 0}) <= MaxCapacity
  PROVE  PermitInv'
<1>1. /\ host'.leases = L /\ host'.owner = None /\ host'.until \in Int
      /\ (\A p \in DOMAIN L : L[p] <= host'.until) /\ age' = 0
  BY LeaseStateShape DEF Write, Host
<1>2. UsableIsLeased'
  BY <1>1 DEF UsableIsLeased
<1>3. GateCovers'
  BY <1>1 DEF GateCovers, Larger, IsLeases
<1>4. ActiveLeases(age)' = {p \in DOMAIN L : L[p] > 0}
  BY <1>1 DEF ActiveLeases
<1>5. QED
  BY <1>2, <1>3, <1>4 DEF PermitInv, FewRunning

\* A grant: the new permit lasts as long as its holder will count, and there
\* was room for it.
LEMMA AcquireStep ==
  ASSUME Shape, PermitInv,
         NEW p \in Permit, NEW delay \in Delay, NEW robots \in Robots \cup {None},
         NEW cap \in Capacity, NEW lag \in 0..Lag, Acquire(p, delay, robots, cap, lag)
  PROVE  PermitInv'
<1> DEFINE L == GrantedLeases(p, lag)
           A == ActiveLeases(lag)
<1>1. /\ IsLeases(L) /\ (\A q \in DOMAIN L : L[q] <= Ttl) /\ DOMAIN L = A \cup {p}
      /\ L[p] = Ttl - lag /\ \A q \in A \ {p} : L[q] = host.leases[q]
  BY LeasesShape DEF GrantedLeases
<1>2. Write(LeaseState(Granted(delay, robots, lag), L))
  BY DEF Acquire, Granted, GrantedLeases
<1>3. Granted(delay, robots, lag) \in Host(host.leases)
  <2>1. KnownRobots(delay, robots) \in Nat /\ Spacing(delay, robots) \in Nat
    BY PolicyType DEF Shape, TypeOK
  <2>2. -lag \in Int
    BY TimingAssumption
  <2>3. QED
    BY <2>1, <2>2 DEF Granted, Host, Shape, TypeOK
<1>4. held[p] \in HostLease /\ held[p].asked \in 0..Ttl /\ lag <= held[p].asked
  BY HeldShape DEF Acquire, Calling, HostLease
<1>5. ASSUME NEW q \in Permit, Usable(q)'
      PROVE  q \in DOMAIN L /\ L[q] >= held'[q].left
  <2>1. CASE q = p
    <3>1. held'[p].left = Ttl - held[p].asked
      <4>1. held'[p] = [state |-> "live", left |-> LeftFromCall(held[p].asked), asked |-> None]
            \/ held'[p] = None
        BY DEF Acquire, Shape, TypeOK
      <4>2. QED
        BY <1>5, <2>1, <4>1 DEF Usable, LeftFromCall
    <3>2. QED
      BY <1>1, <1>4, <2>1, <3>1, TimingAssumption
  <2>2. CASE q # p
    <3>1. held'[q] = held[q]
      BY <2>2 DEF Acquire, Shape, TypeOK
    <3>2. /\ q \in DOMAIN host.leases /\ host.leases[q] >= held[q].left /\ held[q].left > 0
          /\ held[q].left \in Nat /\ host.leases[q] \in Int
      BY <1>5, <3>1, HeldShape
         DEF PermitInv, UsableIsLeased, Usable, HostLease, Shape, TypeOK, IsLeases
    <3>3. q \in A
      BY <3>2, TimingAssumption DEF ActiveLeases
    <3>4. QED
      BY <1>1, <2>2, <3>1, <3>2, <3>3
  <2>3. QED
    BY <2>1, <2>2
<1>6. Cardinality({q \in DOMAIN L : L[q] > 0}) <= MaxCapacity
  <2> DEFINE R == {q \in DOMAIN L : L[q] > 0}
  <2>1. cap \in 1..MaxCapacity /\ MaxCapacity \in Nat
    BY CapacityAssumption
  <2>2. A \subseteq DOMAIN host.leases /\ IsFiniteSet(A)
    BY FS_Subset DEF ActiveLeases, Shape, LeasesBounded
  <2>3. CASE host.owner = None
    <3>1. Cardinality(A) < cap
      BY <2>3 DEF Acquire, Admits, HasPermit
    <3>2. R \subseteq A \cup {p}
      BY <1>1
    <3> HIDE DEF A, R
    <3>3. IsFiniteSet(A \cup {p}) /\ Cardinality(A \cup {p}) <= Cardinality(A) + 1
      <4>1. Cardinality(A) \in Nat
        BY <2>2, FS_CardinalityType
      <4>2. IsFiniteSet(A \cup {p})
            /\ (Cardinality(A \cup {p}) = Cardinality(A)
                \/ Cardinality(A \cup {p}) = Cardinality(A) + 1)
        BY <2>2, FS_AddElement
      <4>3. QED
        BY <4>1, <4>2
    <3>4. Cardinality(R) <= Cardinality(A \cup {p})
      BY <3>2, <3>3, FS_Subset
    <3>5. Cardinality(A) \in Nat /\ Cardinality(A \cup {p}) \in Nat /\ Cardinality(R) \in Nat
      BY <2>2, <3>2, <3>3, FS_Subset, FS_CardinalityType
    <3>6. QED
      BY <2>1, <3>1, <3>3, <3>4, <3>5 DEF R
  <2>4. CASE host.owner # None
    <3>1. R \subseteq {p}
      <4>1. \A q \in A : host.leases[q] <= 0
        BY <2>2, <2>4 DEF PermitInv, GateCovers
      <4>2. \A q \in A \ {p} : L[q] \in Int /\ L[q] <= 0
        BY <1>1, <4>1 DEF IsLeases
      <4>3. \A q \in A \ {p} : ~(L[q] > 0)
        BY <4>2
      <4> HIDE DEF L, A
      <4>4. QED
        BY <1>1, <4>3
    <3>2. IsFiniteSet({p}) /\ Cardinality({p}) = 1
      BY FS_Singleton
    <3> HIDE DEF R
    <3>3. Cardinality(R) <= 1 /\ Cardinality(R) \in Nat
      BY <3>1, <3>2, FS_Subset, FS_CardinalityType
    <3>4. QED
      BY <2>1, <3>3 DEF R
  <2>5. QED
    BY <2>3, <2>4
<1> HIDE DEF L
<1>7. QED
  BY <1>1, <1>2, <1>3, <1>5, <1>6, RewriteStep

\* A use of another permit goes on when the running permits are rewritten.
LEMMA OthersRun ==
  ASSUME Shape, PermitInv, NEW q \in Permit, Usable(q), NEW lag \in 0..Lag
  PROVE  q \in ActiveLeases(lag) /\ host.leases[q] >= held[q].left
<1>1. /\ q \in DOMAIN host.leases /\ host.leases[q] >= held[q].left /\ held[q].left > 0
      /\ held[q].left \in Nat /\ host.leases[q] \in Int
  BY HeldShape DEF PermitInv, UsableIsLeased, Usable, HostLease, Shape, TypeOK, IsLeases
<1>2. QED
  BY <1>1, TimingAssumption DEF ActiveLeases

\* A renewal lasts as long as its caller will count.
LEMMA RenewStep ==
  ASSUME Shape, PermitInv, NEW p \in Permit, NEW lag \in 0..Lag, Renew(p, lag)
  PROVE  PermitInv'
<1> DEFINE L == [RunningLeases(lag) EXCEPT ![p] = Ttl - lag]
<1>1. ASSUME NEW q \in Permit, q # p
      PROVE  held'[q] = held[q]
  BY <1>1 DEF Renew, Shape, TypeOK
<1>2. CASE p \in ActiveLeases(lag)
  <2>1. /\ IsLeases(L) /\ (\A q \in DOMAIN L : L[q] <= Ttl)
        /\ DOMAIN L = ActiveLeases(lag) /\ L[p] = Ttl - lag
        /\ \A q \in ActiveLeases(lag) \ {p} : L[q] = host.leases[q]
    BY <1>2, LeasesShape DEF RunningLeases
  <2>2. Write(LeaseState(host, L)) /\ host \in Host(host.leases)
    BY <1>2 DEF Renew, Shape, TypeOK
  <2>3. held[p] \in HostLease /\ held[p].asked \in 0..Ttl /\ lag <= held[p].asked
    BY HeldShape DEF Renew, Calling, HostLease
  <2>4. Usable(p)' => held'[p].left = Ttl - held[p].asked
    <3>1. \/ held'[p] = [held[p] EXCEPT !.left = LeftFromCall(held[p].asked), !.asked = None]
          \/ held'[p] = [held[p] EXCEPT !.state = "failed", !.asked = None]
      BY DEF Renew, Shape, TypeOK
    <3>2. QED
      BY <2>3, <3>1 DEF Usable, LeftFromCall, HostLease
  <2>5. ASSUME NEW q \in Permit, Usable(q)'
        PROVE  q \in DOMAIN L /\ L[q] >= held'[q].left
    <3>1. CASE q = p
      BY <1>2, <2>1, <2>3, <2>4, <2>5, <3>1, TimingAssumption
    <3>2. CASE q # p
      <4>1. Usable(q)
        BY <1>1, <2>5, <3>2 DEF Usable
      <4>2. QED
        BY <1>1, <2>1, <3>2, <4>1, OthersRun
    <3>3. QED
      BY <3>1, <3>2
  <2>6. ActiveLeases(lag) \subseteq ActiveLeases(age)
    BY SampledRun DEF Renew
  <2>7. Cardinality({q \in DOMAIN L : L[q] > 0}) <= MaxCapacity
    BY <2>1, <2>6, FewerRun DEF PermitInv
  <2> HIDE DEF L
  <2>8. QED
    BY <2>1, <2>2, <2>5, <2>7, RewriteStep
<1>3. CASE p \notin ActiveLeases(lag)
  <2>1. Keep
    BY <1>3 DEF Renew
  <2>2. ~Usable(p)'
    BY <1>3, HeldShape DEF Renew, Calling, Usable, Shape, TypeOK, HostLease
  <2>3. \A q \in Permit : Usable(q)' => Usable(q) /\ held'[q].left = held[q].left
    BY <1>1, <2>2 DEF Usable
  <2>4. QED
    BY <2>1, <2>3, QuietStep DEF Keep
<1>4. QED
  BY <1>2, <1>3

\* A release, however late, leaves every permit in use.
LEMMA ReleaseStep ==
  ASSUME Shape, PermitInv, NEW p \in Permit, NEW lag \in 0..Lag, Release(p, lag)
  PROVE  PermitInv'
<1> DEFINE L == [q \in ActiveLeases(lag) \ {p} |-> host.leases[q]]
<1>1. ~Usable(p)' /\ \A q \in Permit \ {p} : held'[q] = held[q]
  BY DEF Release, Usable, Shape, TypeOK
<1>2. \A q \in Permit : Usable(q)' => q # p /\ Usable(q) /\ held'[q] = held[q]
  BY <1>1 DEF Usable
<1>3. CASE p \in DOMAIN host.leases
  <2>1. IsLeases(L) /\ \A q \in DOMAIN L : L[q] <= Ttl
    BY LeasesShape
  <2>2. Write(LeaseState(host, L)) /\ host \in Host(host.leases)
    BY <1>3 DEF Release, Shape, TypeOK
  <2>3. ASSUME NEW q \in Permit, Usable(q)'
        PROVE  q \in DOMAIN L /\ L[q] >= held'[q].left
    BY <1>2, <2>3, OthersRun
  <2>4. ActiveLeases(lag) \subseteq ActiveLeases(age)
    BY SampledRun DEF Release
  <2>5. Cardinality({q \in DOMAIN L : L[q] > 0}) <= MaxCapacity
    BY <2>4, FewerRun DEF PermitInv
  <2> HIDE DEF L
  <2>6. QED
    BY <2>1, <2>2, <2>3, <2>5, RewriteStep
<1>4. CASE p \notin DOMAIN host.leases
  <2>1. Keep
    BY <1>4 DEF Release
  <2>2. QED
    BY <1>2, <2>1, QuietStep DEF Keep
<1>5. QED
  BY <1>3, <1>4

\* Time brings the end of a use no later than the end of its permit.
LEMMA TickStep ==
  ASSUME Shape, PermitInv, Tick
  PROVE  PermitInv'
<1> DEFINE closer(t, floor) == IF t > floor THEN t - 1 ELSE floor
<1>0. /\ Lag \in Nat /\ age \in 0..Lag /\ host \in Host(host.leases)
      /\ \A p \in DOMAIN host.leases : host.leases[p] \in Int
  BY TimingAssumption DEF Shape, TypeOK, IsLeases
<1>1. /\ host'.leases = [p \in DOMAIN host.leases |-> closer(host.leases[p], -Lag)]
      /\ host'.until = closer(host.until, -Lag) /\ host'.owner = host.owner
      /\ host.until \in Int
  BY <1>0 DEF Tick, Host
<1>2. age' = IF age < Lag THEN age + 1 ELSE Lag
  BY DEF Tick
<1>3. \A p \in Permit : Usable(p)' => Usable(p) /\ held'[p].left = held[p].left - 1
  <2> SUFFICES ASSUME NEW p \in Permit, Usable(p)'
               PROVE  Usable(p) /\ held'[p].left = held[p].left - 1
    OBVIOUS
  <2>1. held[p] # None
    BY DEF Tick, Usable
  <2>2. held[p] \in HostLease
    BY <2>1, HeldShape
  <2>3. held'[p].left = closer(held[p].left, 0) /\ held'[p].state = held[p].state
    BY <2>1, <2>2 DEF Tick, HostLease
  <2>4. held[p].left \in Nat
    BY <2>2 DEF HostLease
  <2>5. QED
    BY <2>1, <2>3, <2>4 DEF Usable
<1>4. UsableIsLeased'
  <2> SUFFICES ASSUME NEW p \in Permit, Usable(p)'
               PROVE  p \in DOMAIN host'.leases /\ host'.leases[p] >= held'[p].left
    BY DEF UsableIsLeased
  <2>1. Usable(p) /\ held'[p].left = held[p].left - 1
    BY <1>3
  <2>2. p \in DOMAIN host.leases /\ host.leases[p] >= held[p].left /\ host.leases[p] \in Int
        /\ held[p].left \in Nat /\ held[p].left > 0
    BY <1>0, <2>1, HeldShape DEF PermitInv, UsableIsLeased, Usable, HostLease
  <2>3. host'.leases[p] = closer(host.leases[p], -Lag) /\ p \in DOMAIN host'.leases
    BY <1>1, <2>2
  <2>4. QED
    BY <1>0, <2>1, <2>2, <2>3
<1>5. GateCovers'
  <2> SUFFICES ASSUME NEW p \in DOMAIN host.leases
               PROVE  closer(host.leases[p], -Lag)
                        <= IF host.owner = None THEN Larger(closer(host.until, -Lag), 0) ELSE 0
    BY <1>1 DEF GateCovers
  <2>1. host.leases[p] <= IF host.owner = None THEN Larger(host.until, 0) ELSE 0
    BY DEF PermitInv, GateCovers
  <2>2. host.leases[p] \in Int /\ host.until \in Int
    BY <1>0, <1>1
  <2>3. QED
    BY <1>0, <2>1, <2>2 DEF Larger
<1>6. FewRunning'
  <2>1. ASSUME NEW p \in ActiveLeases(age)'
        PROVE  p \in ActiveLeases(age)
    <3>1. p \in DOMAIN host.leases /\ closer(host.leases[p], -Lag) > -age'
      BY <1>1, <2>1 DEF ActiveLeases
    <3>2. host.leases[p] > -age
      BY <1>0, <1>2, <3>1
    <3>3. QED
      BY <3>1, <3>2 DEF ActiveLeases
  <2>2. ActiveLeases(age)' \subseteq ActiveLeases(age)
    BY <2>1
  <2>3. QED
    BY <2>2, FewerRun DEF PermitInv, FewRunning
<1>7. QED
  BY <1>4, <1>5, <1>6 DEF PermitInv

\* An earlier-release process acquires only when all permits have ended.
LEMMA LegacyAcquireStep ==
  ASSUME Shape, PermitInv, NEW o \in Legacy, NEW delay \in Delay, NEW lag \in 0..Lag,
         LegacyAcquire(o, delay, lag)
  PROVE  PermitInv'
<1>1. /\ host'.leases = host.leases /\ host'.owner = o /\ host.until <= -lag
      /\ age' = 0 /\ held' = held
  BY DEF LegacyAcquire, Write, Shape, TypeOK, Host
<1>2. /\ host.until \in Int /\ lag \in Nat /\ o # None /\ age \in 0..Lag
      /\ \A p \in DOMAIN host.leases : host.leases[p] \in Int
  BY TimingAssumption, NoneAssumption DEF Shape, TypeOK, Host, IsLeases
<1>3. UsableIsLeased'
  BY <1>1 DEF PermitInv, UsableIsLeased, Usable
<1>4. \A p \in DOMAIN host.leases : host.leases[p] <= 0
  BY <1>1, <1>2 DEF PermitInv, GateCovers, Larger
<1>5. GateCovers'
  BY <1>1, <1>2, <1>4 DEF GateCovers
<1>6. ActiveLeases(age)' \subseteq ActiveLeases(age)
  BY <1>1, <1>2, <1>4 DEF ActiveLeases
<1>7. FewRunning'
  BY <1>6, FewerRun DEF PermitInv, FewRunning
<1>8. QED
  BY <1>3, <1>5, <1>7 DEF PermitInv

\* ... and leaves the permits as they are.
LEMMA LegacyReleaseStep ==
  ASSUME Shape, PermitInv, NEW o \in Legacy, LegacyRelease(o)
  PROVE  PermitInv'
<1>1. CASE host.owner = o
  <2>1. /\ host'.leases = host.leases /\ host'.owner = None /\ host'.until = -Lag
        /\ age' = 0 /\ held' = held
    BY <1>1 DEF LegacyRelease, Write, Shape, TypeOK, Host
  <2>2. /\ o # None /\ age \in 0..Lag /\ Lag \in Nat
        /\ \A p \in DOMAIN host.leases : host.leases[p] \in Int
    BY TimingAssumption, NoneAssumption DEF Shape, TypeOK, IsLeases
  <2>3. UsableIsLeased'
    BY <2>1 DEF PermitInv, UsableIsLeased, Usable
  <2>4. \A p \in DOMAIN host.leases : host.leases[p] <= 0
    BY <1>1, <2>2 DEF PermitInv, GateCovers
  <2>5. GateCovers'
    BY <2>1, <2>2, <2>4 DEF GateCovers, Larger
  <2>6. ActiveLeases(age)' \subseteq ActiveLeases(age)
    BY <2>1, <2>2, <2>4 DEF ActiveLeases
  <2>7. FewRunning'
    BY <2>6, FewerRun DEF PermitInv, FewRunning
  <2>8. QED
    BY <2>3, <2>5, <2>7 DEF PermitInv
<1>2. CASE host.owner # o
  <2>1. Keep /\ held' = held
    BY <1>2 DEF LegacyRelease
  <2>2. QED
    BY <2>1, QuietStep DEF Keep, Usable
<1>3. QED
  BY <1>1, <1>2

\* Every operation keeps the permits in use within their bounds.
LEMMA StepPermits == Shape /\ PermitInv /\ [Next]_vars => PermitInv'
<1> SUFFICES ASSUME Shape, PermitInv, [Next]_vars
             PROVE  PermitInv'
  OBVIOUS
<1>0. held \in [Permit -> HostLease \cup {None}] /\ host \in Host(host.leases)
  BY DEF Shape, TypeOK
<1>1. ASSUME NEW p \in Permit, Ask(p)
      PROVE  PermitInv'
  <2>1. Keep /\ \A q \in Permit : Usable(q)' => Usable(q) /\ held'[q].left = held[q].left
    BY <1>0, <1>1 DEF Ask, Usable
  <2>2. QED
    BY <2>1, QuietStep DEF Keep
<1>2. ASSUME NEW p \in Permit, NEW delay \in Delay, NEW robots \in Robots \cup {None},
             NEW cap \in Capacity, NEW lag \in 0..Lag, Acquire(p, delay, robots, cap, lag)
      PROVE  PermitInv'
  BY <1>2, AcquireStep
<1>3. ASSUME NEW p \in Permit, NEW delay \in Delay, NEW robots \in Robots \cup {None},
             NEW cap \in Capacity, NEW lag \in 0..Lag, Refuse(p, delay, robots, cap, lag)
      PROVE  PermitInv'
  <2>1. \A q \in Permit : Usable(q)' => Usable(q) /\ held'[q].left = held[q].left
    BY <1>0, <1>3 DEF Refuse, Usable
  <2>2. host'.leases = host.leases /\ host'.owner = host.owner /\ host'.until = host.until
        /\ age' \in {age, 0}
    BY <1>0, <1>3 DEF Refuse, Write, Keep, Host
  <2>3. QED
    BY <2>1, <2>2, QuietStep
<1>4. ASSUME NEW p \in Permit, StartRenewal(p)
      PROVE  PermitInv'
  <2>1. held[p] \in HostLease
    BY <1>4, HeldShape DEF StartRenewal, Usable
  <2>2. Keep /\ \A q \in Permit : Usable(q)' => Usable(q) /\ held'[q].left = held[q].left
    BY <1>0, <1>4, <2>1 DEF StartRenewal, Usable, HostLease
  <2>3. QED
    BY <2>2, QuietStep DEF Keep
<1>5. ASSUME NEW p \in Permit, NEW lag \in 0..Lag, Renew(p, lag)
      PROVE  PermitInv'
  BY <1>5, RenewStep
<1>6. ASSUME NEW p \in Permit, NEW secs \in Pause, NEW lag \in 0..Lag, Defer(p, secs, lag)
      PROVE  PermitInv'
  <2>1. held[p] \in HostLease
    BY <1>6, HeldShape DEF Defer
  <2>2. \A q \in Permit : Usable(q)' => Usable(q) /\ held'[q].left = held[q].left
    BY <1>0, <1>6, <2>1 DEF Defer, Usable, HostLease
  <2>3. host'.leases = host.leases /\ host'.owner = host.owner /\ host'.until = host.until
        /\ age' \in {age, 0}
    BY <1>0, <1>6 DEF Defer, Write, Keep, Host
  <2>4. QED
    BY <2>2, <2>3, QuietStep
<1>7. ASSUME NEW secs \in Pause, NEW lag \in 0..Lag, Cooldown(secs, lag)
      PROVE  PermitInv'
  <2>1. host'.leases = host.leases /\ host'.owner = host.owner /\ host'.until = host.until
        /\ age' = 0 /\ held' = held
    BY <1>0, <1>7 DEF Cooldown, Write, Host
  <2>2. QED
    BY <2>1, QuietStep DEF Usable
<1>8. ASSUME NEW p \in Permit, Close(p)
      PROVE  PermitInv'
  <2>1. held[p] \in HostLease
    BY <1>8, HeldShape DEF Close
  <2>2. Keep /\ \A q \in Permit : Usable(q)' => Usable(q) /\ held'[q].left = held[q].left
    BY <1>0, <1>8, <2>1 DEF Close, Usable, HostLease
  <2>3. QED
    BY <2>2, QuietStep DEF Keep
<1>9. ASSUME NEW p \in Permit, NEW lag \in 0..Lag, Release(p, lag)
      PROVE  PermitInv'
  BY <1>9, ReleaseStep
<1>10. ASSUME NEW p \in Permit, Vanish(p)
       PROVE  PermitInv'
  <2>1. Keep /\ \A q \in Permit : Usable(q)' => Usable(q) /\ held'[q].left = held[q].left
    BY <1>0, <1>10 DEF Vanish, Usable
  <2>2. QED
    BY <2>1, QuietStep DEF Keep
<1>11. ASSUME NEW o \in Legacy, NEW delay \in Delay, NEW lag \in 0..Lag,
              LegacyAcquire(o, delay, lag)
       PROVE  PermitInv'
  BY <1>11, LegacyAcquireStep
<1>12. ASSUME NEW o \in Legacy, LegacyRelease(o)
       PROVE  PermitInv'
  BY <1>12, LegacyReleaseStep
<1>13. CASE Tick
  BY <1>13, TickStep
<1>14. CASE UNCHANGED vars
  BY <1>14, QuietStep DEF vars, Usable
<1>15. QED
  BY <1>1, <1>2, <1>3, <1>4, <1>5, <1>6, <1>7, <1>8, <1>9, <1>10, <1>11, <1>12, <1>13,
     <1>14 DEF Next

\* A process stops using a host before its permit can be given away: calls
\* may be slow, lost or repeated, and the store's clock may be sampled late.
THEOREM UseIsLeased == Spec => []UsableIsLeased
<1>1. PermitInv => UsableIsLeased
  BY DEF PermitInv
<1>2. QED
  BY <1>1, InitShape, StepShape, InitPermits, StepPermits, PTL DEF Spec

\* The permits in use are among those that run.
LEMMA UsesRun ==
  Shape /\ PermitInv => PermitsBounded
<1> SUFFICES ASSUME Shape, PermitInv
             PROVE  PermitsBounded
  OBVIOUS
<1>1. {p \in Permit : Usable(p)} \subseteq ActiveLeases(age)
  BY OthersRun, TimingAssumption DEF Shape, TypeOK
<1>2. QED
  BY <1>1, FewerRun DEF PermitInv, PermitsBounded

\* However many processes of whatever configured capacity contend for a
\* host, no more of them use it at once than the largest capacity, also
\* while processes of the earlier release come and go.
THEOREM UseIsBounded == Spec => []PermitsBounded
BY UsesRun, InitShape, StepShape, InitPermits, StepPermits, PTL DEF Spec
-----------------------------------------------------------------------------
(* What a step does to the permits, the pause and the recorded rule         *)

\* A step that grants no permit, records no rule and shortens no pause.
Plain ==
  /\ DOMAIN host'.leases \subseteq DOMAIN host.leases
  /\ host'.robots = host.robots /\ rules' = rules
  /\ host'.cooldown >= host.cooldown

\* Replacing the permits of the document touches neither pause nor rule.
LEMMA RewritePlain ==
  ASSUME Shape, NEW L, DOMAIN L \subseteq DOMAIN host.leases, rules' = rules,
         Write(LeaseState(host, L))
  PROVE  Plain
<1>1. host \in Host(host.leases)
  BY DEF Shape, TypeOK
<1>2. host'.leases = L /\ host'.robots = host.robots /\ host'.cooldown = host.cooldown
  BY <1>1 DEF Write, LeaseState, Host
<1>3. host.cooldown \in Int
  BY <1>1 DEF Host
<1>4. QED
  BY <1>2, <1>3 DEF Plain

\* A pause only extends the pause.
LEMMA PausePlain ==
  ASSUME Shape, NEW secs \in Pause, NEW lag \in 0..Lag, rules' = rules,
         Write([host EXCEPT !.cooldown = Cooled(secs, lag)])
  PROVE  Plain
<1>1. host \in Host(host.leases) /\ secs \in Nat /\ lag \in Nat
  BY PolicyAssumption, TimingAssumption DEF Shape, TypeOK
<1>2. /\ host'.leases = host.leases /\ host'.robots = host.robots
      /\ host'.cooldown = Cooled(secs, lag)
  BY <1>1 DEF Write, Host
<1>3. Cooled(secs, lag) >= host.cooldown
  BY <1>1 DEF Cooled, Larger, Host
<1>4. QED
  BY <1>2, <1>3 DEF Plain

\* Only acquire grants a permit, only acquire records a rule, and only time
\* shortens a pause.
LEMMA HostSteps ==
  ASSUME Shape, [Next]_vars
  PROVE  \/ \E p \in Permit, delay \in Delay, robots \in Robots \cup {None},
               cap \in Capacity, lag \in 0..Lag :
              \/ Acquire(p, delay, robots, cap, lag)
              \/ Refuse(p, delay, robots, cap, lag)
         \/ Tick
         \/ Plain
<1>0. host \in Host(host.leases) /\ host.cooldown \in Int /\ Shape
  BY DEF Shape, TypeOK, Host
<1>1. Keep /\ rules' = rules => Plain
  BY <1>0 DEF Keep, Plain
<1>2. ASSUME NEW p \in Permit, NEW lag \in 0..Lag, Renew(p, lag)
      PROVE  Plain
  <2>1. CASE p \in ActiveLeases(lag)
    <3> DEFINE L == [RunningLeases(lag) EXCEPT ![p] = Ttl - lag]
    <3>1. DOMAIN L \subseteq DOMAIN host.leases
      BY DEF RunningLeases, ActiveLeases
    <3>2. Write(LeaseState(host, L)) /\ rules' = rules
      BY <1>2, <2>1 DEF Renew
    <3> HIDE DEF L
    <3>3. QED
      BY <3>1, <3>2, RewritePlain
  <2>2. CASE p \notin ActiveLeases(lag)
    BY <1>0, <1>2, <2>2 DEF Renew, Keep, Plain
  <2>3. QED
    BY <2>1, <2>2
<1>3. ASSUME NEW p \in Permit, NEW lag \in 0..Lag, Release(p, lag)
      PROVE  Plain
  <2>1. CASE p \in DOMAIN host.leases
    <3> DEFINE L == [q \in ActiveLeases(lag) \ {p} |-> host.leases[q]]
    <3>1. DOMAIN L \subseteq DOMAIN host.leases
      BY DEF ActiveLeases
    <3>2. Write(LeaseState(host, L)) /\ rules' = rules
      BY <1>3, <2>1 DEF Release
    <3> HIDE DEF L
    <3>3. QED
      BY <3>1, <3>2, RewritePlain
  <2>2. CASE p \notin DOMAIN host.leases
    BY <1>0, <1>3, <2>2 DEF Release, Keep, Plain
  <2>3. QED
    BY <2>1, <2>2
<1>4. ASSUME NEW p \in Permit, NEW secs \in Pause, NEW lag \in 0..Lag, Defer(p, secs, lag)
      PROVE  Plain
  <2>1. CASE p \in ActiveLeases(lag)
    BY <1>4, <2>1, PausePlain DEF Defer
  <2>2. CASE p \notin ActiveLeases(lag)
    BY <1>0, <1>4, <2>2 DEF Defer, Keep, Plain
  <2>3. QED
    BY <2>1, <2>2
<1>5. ASSUME NEW secs \in Pause, NEW lag \in 0..Lag, Cooldown(secs, lag)
      PROVE  Plain
  BY <1>5, PausePlain DEF Cooldown
<1>6. ASSUME NEW o \in Legacy, NEW delay \in Delay, NEW lag \in 0..Lag,
             LegacyAcquire(o, delay, lag)
      PROVE  Plain
  BY <1>0, <1>6 DEF LegacyAcquire, Write, Plain, Host
<1>7. ASSUME NEW o \in Legacy, LegacyRelease(o)
      PROVE  Plain
  <2>1. CASE host.owner = o
    <3>1. /\ host'.leases = host.leases /\ host'.robots = host.robots
          /\ host'.cooldown = host.cooldown
      BY <1>0, <1>7, <2>1 DEF LegacyRelease, Write, Host
    <3>2. QED
      BY <1>0, <1>7, <3>1 DEF LegacyRelease, Plain
  <2>2. CASE host.owner # o
    BY <1>1, <1>7, <2>2 DEF LegacyRelease
  <2>3. QED
    BY <2>1, <2>2
<1>8. ASSUME NEW p \in Permit, Ask(p) \/ StartRenewal(p) \/ Close(p) \/ Vanish(p)
      PROVE  Plain
  BY <1>1, <1>8 DEF Ask, StartRenewal, Close, Vanish
<1>9. CASE UNCHANGED vars
  BY <1>1, <1>9 DEF vars, Keep
<1>10. QED
  BY <1>2, <1>3, <1>4, <1>5, <1>6, <1>7, <1>8, <1>9 DEF Next

-----------------------------------------------------------------------------
(* Pauses                                                                  *)

\* What a grant, and a refusal, leave in the document.
LEMMA AskFields ==
  ASSUME Shape, NEW p \in Permit, NEW delay \in Delay, NEW robots \in Robots \cup {None},
         NEW cap \in Capacity, NEW lag \in 0..Lag
  PROVE  /\ Acquire(p, delay, robots, cap, lag) =>
              /\ host'.robots = KnownRobots(delay, robots)
              /\ host'.started = -lag /\ host'.cooldown = host.cooldown
         /\ Refuse(p, delay, robots, cap, lag) =>
              /\ host'.robots = KnownRobots(delay, robots)
              /\ host'.leases = host.leases /\ host'.cooldown = host.cooldown
<1>1. host \in Host(host.leases)
  BY DEF Shape, TypeOK
<1>2. ASSUME Acquire(p, delay, robots, cap, lag)
      PROVE  /\ host'.robots = KnownRobots(delay, robots)
             /\ host'.started = -lag /\ host'.cooldown = host.cooldown
  <2> DEFINE g == Granted(delay, robots, lag)
  <2>1. host' = LeaseState(g, GrantedLeases(p, lag))
    BY <1>2 DEF Acquire, Write, Granted, GrantedLeases
  <2>2. /\ g.robots = KnownRobots(delay, robots) /\ g.started = -lag
        /\ g.cooldown = host.cooldown
        /\ g = [host EXCEPT !.started = -lag, !.delay = Spacing(delay, robots),
                            !.robots = KnownRobots(delay, robots)]
    BY <1>1 DEF Granted, Host
  <2>3. host'.robots = g.robots /\ host'.started = g.started /\ host'.cooldown = g.cooldown
    BY <1>1, <2>1, <2>2 DEF LeaseState, Host
  <2>4. QED
    BY <2>2, <2>3
<1>3. ASSUME Refuse(p, delay, robots, cap, lag)
      PROVE  /\ host'.robots = KnownRobots(delay, robots)
             /\ host'.leases = host.leases /\ host'.cooldown = host.cooldown
  <2>1. host' = [host EXCEPT !.delay = Spacing(delay, robots),
                             !.robots = KnownRobots(delay, robots)]
    BY <1>3 DEF Refuse, Write, Keep
  <2>2. QED
    BY <1>1, <2>1 DEF Host
<1>4. QED
  BY <1>2, <1>3

\* A pause never becomes shorter but by time, and no request starts in it.
THEOREM PausesKept == Spec => PausesHold
<1>1. ASSUME Shape, [Next]_vars
      PROVE  \/ Tick
             \/ /\ host'.cooldown >= host.cooldown
                /\ \A p \in DOMAIN host'.leases \ DOMAIN host.leases :
                     host.cooldown <= host'.started
  <2>1. host.cooldown \in Int
    BY <1>1 DEF Shape, TypeOK, Host
  <2>2. ASSUME NEW p \in Permit, NEW delay \in Delay, NEW robots \in Robots \cup {None},
               NEW cap \in Capacity, NEW lag \in 0..Lag, Acquire(p, delay, robots, cap, lag)
        PROVE  host'.cooldown >= host.cooldown /\ host.cooldown <= host'.started
    <3>1. host'.started = -lag /\ host'.cooldown = host.cooldown
      BY <1>1, <2>2, AskFields
    <3>2. host.cooldown <= -lag
      BY <2>2 DEF Acquire, Admits
    <3>3. QED
      BY <2>1, <3>1, <3>2
  <2>3. ASSUME NEW p \in Permit, NEW delay \in Delay, NEW robots \in Robots \cup {None},
               NEW cap \in Capacity, NEW lag \in 0..Lag, Refuse(p, delay, robots, cap, lag)
        PROVE  host'.cooldown >= host.cooldown /\ host'.leases = host.leases
    BY <1>1, <2>1, <2>3, AskFields
  <2>4. QED
    BY <1>1, <2>2, <2>3, HostSteps DEF Plain
<1>2. QED
  BY <1>1, InitShape, StepShape, PTL DEF Spec, PausesHold

-----------------------------------------------------------------------------
(* Crawl delays                                                            *)

\* The document records at least the longest rule any acquire passed.
RulesRecorded == rules <= IF host.robots # None THEN host.robots ELSE 0

\* A caller's spacing is no shorter than the rule it leaves recorded, which
\* is no shorter than the recorded and the passed one.
LEMMA SpacingKeepsRules ==
  ASSUME Shape, RulesRecorded, NEW delay \in Delay, NEW robots \in Robots \cup {None}
  PROVE  LET most == IF robots = None THEN rules ELSE Larger(rules, robots)
         IN /\ most <= KnownRobots(delay, robots)
            /\ KnownRobots(delay, robots) \in Nat
            /\ Spacing(delay, robots) \in Nat
            /\ most <= Spacing(delay, robots)
<1>1. /\ delay \in Nat /\ robots \in Nat \cup {None} /\ host.delay \in Nat
      /\ host.robots \in Nat \cup {None} /\ rules \in Nat
  BY PolicyAssumption DEF Shape, TypeOK, Host
<1>2. RecordedRobots \in Nat /\ rules <= RecordedRobots
  BY <1>1 DEF RecordedRobots, RulesRecorded
<1>3. /\ KnownRobots(delay, robots) \in Nat /\ rules <= KnownRobots(delay, robots)
      /\ robots # None => robots <= KnownRobots(delay, robots)
  BY <1>1, <1>2 DEF KnownRobots, Larger
<1>4. /\ Spacing(delay, robots) \in Nat
      /\ KnownRobots(delay, robots) <= Spacing(delay, robots)
  BY <1>1, <1>3 DEF Spacing, Larger
<1>5. QED
  BY <1>1, <1>3, <1>4 DEF Larger

LEMMA InitRules == Init => RulesRecorded
<1> SUFFICES ASSUME Init PROVE RulesRecorded
  OBVIOUS
<1>1. host.robots = None
  <2>1. FreshHost.robots = None
    BY DEF FreshHost
  <2>2. \A o \in Legacy, d \in Delay : LegacyHost(o, d).robots = FreshHost.robots
    BY DEF LegacyHost, FreshHost
  <2>3. QED
    BY <2>1, <2>2 DEF Init
<1>2. QED
  BY <1>1 DEF Init, RulesRecorded

\* Neither a refusal nor a process of the earlier release loses a rule.
LEMMA StepRules == Shape /\ RulesRecorded /\ [Next]_vars => RulesRecorded'
<1> SUFFICES ASSUME Shape, RulesRecorded, [Next]_vars PROVE RulesRecorded'
  OBVIOUS
<1>1. ASSUME NEW p \in Permit, NEW delay \in Delay, NEW robots \in Robots \cup {None},
             NEW cap \in Capacity, NEW lag \in 0..Lag,
             \/ Acquire(p, delay, robots, cap, lag)
             \/ Refuse(p, delay, robots, cap, lag)
      PROVE  RulesRecorded'
  <2>1. host'.robots = KnownRobots(delay, robots)
    BY <1>1, AskFields
  <2>2. rules' = IF robots = None THEN rules ELSE Larger(rules, robots)
    BY <1>1 DEF Acquire, Refuse
  <2>3. KnownRobots(delay, robots) # None
    BY SpacingKeepsRules, NoneAssumption
  <2>4. QED
    BY <2>1, <2>2, <2>3, SpacingKeepsRules DEF RulesRecorded
<1>2. CASE Tick
  <2>1. host'.robots = host.robots /\ rules' = rules
    BY <1>2 DEF Tick, Shape, TypeOK, Host
  <2>2. QED
    BY <2>1 DEF RulesRecorded
<1>3. CASE Plain
  BY <1>3 DEF Plain, RulesRecorded
<1>4. QED
  BY <1>1, <1>2, <1>3, HostSteps

\* Once any process has learned a crawl delay, two requests never start
\* closer together, not even by processes that know no rule or a shorter one.
THEOREM RobotsRuleHolds == Spec => RobotsRuleKept
<1>1. ASSUME Shape, RulesRecorded, [Next]_vars
      PROVE  \A q \in DOMAIN host'.leases \ DOMAIN host.leases :
               host.started # None => host'.started - host.started >= rules'
  <2> SUFFICES ASSUME NEW q \in DOMAIN host'.leases \ DOMAIN host.leases,
                      host.started # None
               PROVE  host'.started - host.started >= rules'
    OBVIOUS
  <2>1. ~Plain /\ host'.leases # host.leases /\ DOMAIN host'.leases # DOMAIN host.leases
    BY DEF Plain
  <2>2. ~Tick
    <3> SUFFICES ASSUME Tick PROVE DOMAIN host'.leases = DOMAIN host.leases
      BY <2>1
    <3> DEFINE closer(t, floor) == IF t > floor THEN t - 1 ELSE floor
    <3>1. host \in Host(host.leases)
      BY <1>1 DEF Shape, TypeOK
    <3>2. host'.leases = [p \in DOMAIN host.leases |-> closer(host.leases[p], -Lag)]
      BY <3>1 DEF Tick, Host
    <3>3. QED
      BY <3>2
  <2>3. PICK p \in Permit, delay \in Delay, robots \in Robots \cup {None}, cap \in Capacity,
             lag \in 0..Lag : Acquire(p, delay, robots, cap, lag)
    BY <1>1, <2>1, <2>2, HostSteps, AskFields
  <2>4. host'.started = -lag /\ host.started + Spacing(delay, robots) <= -lag
    <3>1. Admits(delay, robots, cap, lag)
      BY <2>3 DEF Acquire
    <3>2. QED
      BY <1>1, <2>3, <3>1, AskFields DEF Admits
  <2>5. rules' = IF robots = None THEN rules ELSE Larger(rules, robots)
    BY <2>3 DEF Acquire
  <2>6. rules' <= Spacing(delay, robots) /\ Spacing(delay, robots) \in Nat
    BY <1>1, <2>5, SpacingKeepsRules
  <2>7. rules' \in Nat
    BY <1>1, StepShape DEF Shape, TypeOK
  <2>8. host.started \in Int
    BY <1>1 DEF Shape, TypeOK, Host
  <2>9. QED
    BY <2>4, <2>6, <2>7, <2>8
<1>2. Shape /\ RulesRecorded /\ [Next]_vars =>
        [\A p \in DOMAIN host'.leases \ DOMAIN host.leases :
           host.started # None => host'.started - host.started >= rules']_vars
  BY <1>1
<1>3. QED
  BY <1>2, InitShape, StepShape, InitRules, StepRules, PTL DEF Spec, RobotsRuleKept

-----------------------------------------------------------------------------
(* Processes of the earlier release                                        *)

\* A process of the earlier release, which cannot see the permits, gets its
\* exclusive one only when no process can use one of them.
THEOREM LegacyWaitsItsTurn == Spec => LegacyWaits
<1>1. ASSUME Shape, PermitInv, [Next]_vars, NEW o \in Legacy, old[o] = 0, old'[o] > 0
      PROVE  \A p \in Permit : ~Usable(p)
  <2>0. old \in [Legacy -> Nat] /\ old'[o] # old[o]
    BY <1>1 DEF Shape, TypeOK
  <2>1. ~Tick
    <3> SUFFICES ASSUME Tick PROVE old'[o] = 0
      BY <1>1, <2>0
    <3> DEFINE closer(t, floor) == IF t > floor THEN t - 1 ELSE floor
    <3>1. old'[o] = closer(old[o], 0)
      BY DEF Tick
    <3>2. QED
      BY <1>1, <3>1
  <2>2. ~ \E x \in Legacy : LegacyRelease(x)
    BY <1>1, <2>0 DEF LegacyRelease
  <2>3. PICK x \in Legacy, delay \in Delay, lag \in 0..Lag : LegacyAcquire(x, delay, lag)
    <3>1. ASSUME NEW p \in Permit, Ask(p) \/ StartRenewal(p) \/ Close(p) \/ Vanish(p)
          PROVE  old' = old
      BY <3>1 DEF Ask, StartRenewal, Close, Vanish
    <3>2. ASSUME NEW p \in Permit, NEW delay \in Delay, NEW robots \in Robots \cup {None},
                 NEW cap \in Capacity, NEW lag \in 0..Lag,
                 \/ Acquire(p, delay, robots, cap, lag)
                 \/ Refuse(p, delay, robots, cap, lag)
          PROVE  old' = old
      BY <3>2 DEF Acquire, Refuse
    <3>3. ASSUME NEW p \in Permit, NEW lag \in 0..Lag, Renew(p, lag) \/ Release(p, lag)
          PROVE  old' = old
      BY <3>3 DEF Renew, Release
    <3>4. ASSUME NEW p \in Permit, NEW secs \in Pause, NEW lag \in 0..Lag, Defer(p, secs, lag)
          PROVE  old' = old
      BY <3>4 DEF Defer
    <3>5. ASSUME NEW secs \in Pause, NEW lag \in 0..Lag, Cooldown(secs, lag)
          PROVE  old' = old
      BY <3>5 DEF Cooldown
    <3>6. ~ UNCHANGED vars
      BY <2>0 DEF vars
    <3>7. QED
      BY <1>1, <2>0, <2>1, <2>2, <3>1, <3>2, <3>3, <3>4, <3>5, <3>6 DEF Next
  <2>4. host.until <= -lag
    BY <2>3 DEF LegacyAcquire
  <2>5. \A p \in DOMAIN host.leases : host.leases[p] <= 0
    BY <1>1, <2>4, TimingAssumption DEF PermitInv, GateCovers, Larger, Shape, TypeOK, Host, IsLeases
  <2>6. ASSUME NEW p \in Permit, Usable(p)
        PROVE  FALSE
    <3>1. p \in DOMAIN host.leases /\ host.leases[p] >= held[p].left /\ held[p].left > 0
      BY <1>1, <2>6 DEF PermitInv, UsableIsLeased, Usable
    <3>2. held[p].left \in Nat /\ host.leases[p] \in Int
      BY <1>1, <2>6, <3>1, HeldShape DEF Usable, HostLease, Shape, TypeOK, IsLeases
    <3>3. QED
      BY <2>5, <3>1, <3>2
  <2>7. QED
    BY <2>6
<1>2. Shape /\ PermitInv /\ [Next]_vars =>
        [\A o \in Legacy : old[o] = 0 /\ old'[o] > 0 => \A p \in Permit : ~Usable(p)]_vars
  BY <1>1
<1>3. QED
  BY <1>2, InitShape, StepShape, InitPermits, StepPermits, PTL DEF Spec, LegacyWaits
=============================================================================
