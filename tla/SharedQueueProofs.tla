-------------------------- MODULE SharedQueueProofs --------------------------
(***************************************************************************)
(* Proofs about SharedQueue, for any processes, articles, outlets, shards, *)
(* lease length and transaction delay.                                     *)
(***************************************************************************)
EXTENDS SharedQueue, FiniteSetTheorems, TLAPS

-----------------------------------------------------------------------------
(* Shapes of documents                                                     *)

\* Writing one due field keeps a document's shape.
LEMMA WithDueType ==
  ASSUME NEW r \in Row, NEW p \in Phase, NEW t \in Int
  PROVE  WithDue(r, p, t) \in Row
BY DEF WithDue, Row

\* A leased document keeps its shape.
LEMMA LeasedRowType ==
  ASSUME NEW r \in Row, NEW w \in Worker, NEW t \in Token, NEW p \in Phase,
         NEW lag \in 0..Lag
  PROVE  LeasedRow(r, w, t, p, lag) \in Row
<1>1. Lease - lag \in Int
  BY TimingAssumption
<1>2. WithDue(r, p, Lease - lag) \in Row
  BY <1>1, WithDueType
<1>3. QED
  BY <1>2 DEF LeasedRow, Row

\* What leasing and releasing write, field by field.
LEMMA LeasedRowFields ==
  ASSUME NEW r \in Row, NEW w \in Worker, NEW t \in Token, NEW p \in Phase,
         NEW lag \in 0..Lag
  PROVE  LET x == LeasedRow(r, w, t, p, lag)
         IN /\ x.state = "leased" /\ x.owner = w /\ x.token = t
            /\ x.phase = r.phase /\ x.due[p] = Lease - lag
<1> DEFINE y == WithDue(r, p, Lease - lag)
<1>1. Lease - lag \in Int
  BY TimingAssumption
<1>2. y \in Row
  BY <1>1, WithDueType
<1>3. y.phase = r.phase /\ y.due[p] = Lease - lag
  BY DEF WithDue, Row
<1>4. LeasedRow(r, w, t, p, lag)
        = [y EXCEPT !.state = "leased", !.owner = w, !.token = t]
  BY DEF LeasedRow
<1> HIDE DEF y
<1>5. QED
  BY <1>2, <1>3, <1>4 DEF Row

\* A terminal result leaves a well-shaped document.
LEMMA DoneRowType ==
  ASSUME NEW r \in Row, NEW c \in Claim, c.result \in Terminal
  PROVE  DoneRow(r, c) \in Row
<1>1. NeverDue \in [Phase -> Int \cup {None}]
  BY DEF NeverDue
<1>2. [token |-> c.token, status |-> c.result.status,
       attempts |-> c.result.attempts] \in Verdict
  BY DEF Claim, Terminal, Verdict
<1>3. QED
  BY <1>1, <1>2 DEF DoneRow, Row

\* A handed-off document keeps its shape.
LEMMA QueuedRowType ==
  ASSUME NEW r \in Row, NEW c \in Claim, c.result \in Queued, NEW d \in RetryDelay
  PROVE  QueuedRow(r, c, d) \in Row
<1>1. c.result.next \in Phase /\ c.result.attempts \in Attempts
      /\ c.result.service \in Service \cup {None}
  BY DEF Queued, Phase
<1>2. DueOnly(c.result.next, d) \in [Phase -> Int \cup {None}]
  BY <1>1, TimingAssumption DEF DueOnly, NeverDue
<1>3. c.token \in Token
  BY DEF Claim
<1>4. QED
  BY <1>1, <1>2, <1>3 DEF QueuedRow, Row

\* A released document keeps its shape.
LEMMA ReleasedRowType ==
  ASSUME NEW r \in Row, NEW c \in Claim
  PROVE  ReleasedRow(r, c) \in Row
<1>1. c.phase \in Phase /\ -Lag \in Int
  BY TimingAssumption DEF Claim
<1>2. WithDue(r, c.phase, -Lag) \in Row
  BY <1>1, WithDueType
<1>3. QED
  BY <1>2 DEF ReleasedRow, Row

\* Counting a terminal result keeps a shard's shape.
LEMMA IncrementStatsType ==
  ASSUME NEW n \in Counters, NEW o \in Outlet, NEW st \in Status
  PROVE  IncrementStats(n, o, st) \in Counters
<1>1. /\ n.processed + 1 \in Nat
      /\ [n.counts EXCEPT ![st] = @ + 1] \in [Status -> Nat]
      /\ [n.domains EXCEPT ![o].processed = @ + 1]
           \in [Outlet -> [total : Nat, processed : Nat]]
  BY DEF Counters
<1>2. QED
  BY <1>1 DEF IncrementStats, Counters

\* Moving an article between phases keeps a shard's shape.
LEMMA TransitionPhaseType ==
  ASSUME NEW n \in Counters, NEW from, NEW to
  PROVE  TransitionPhase(n, from, to) \in Counters
<1>1. \A p \in RecoveryPhase :
        n.remaining[p] + (IF p = to THEN 1 ELSE 0) - (IF p = from THEN 1 ELSE 0) \in Int
  BY DEF Counters
<1>2. QED
  BY <1>1 DEF TransitionPhase, Counters

\* Adding new attempts keeps a shard's shape.
LEMMA AttemptsAddedType ==
  ASSUME NEW n \in Counters, NEW d \in Int
  PROVE  [n EXCEPT !.attempts = @ + d] \in Counters
BY DEF Counters

\* A recount of well-shaped documents is a well-shaped shard.
LEMMA TallyType ==
  ASSUME rows \in [Article -> Row], NEW s \in Shard
  PROVE  Tally(s) \in Counters
<1> DEFINE mine == {a \in Article : ShardOf[a] = s}
           done == {a \in mine : rows[a].state = "done"}
           of(o, A) == {a \in A : OutletOf[a] = o}
           paid == {e \in mine \X Attempts : e[2] < RowAttempts(rows[e[1]])}
<1>1. IsFiniteSet(mine)
  BY LayoutAssumption, FS_Subset
<1>2. IsFiniteSet(done)
  BY <1>1, FS_Subset
<1>3. \A o \in Outlet : IsFiniteSet(of(o, mine)) /\ IsFiniteSet(of(o, done))
  BY <1>1, <1>2, FS_Subset
<1>4. \A st \in Status : IsFiniteSet({a \in done : rows[a].verdict.status = st})
  BY <1>2, FS_Subset
<1>5. \A p \in RecoveryPhase : IsFiniteSet({a \in mine \ done : rows[a].phase = p})
  BY <1>1, FS_Subset
<1>6. IsFiniteSet(paid)
  <2>1. IsFiniteSet(Attempts)
    BY BoundAssumption, FS_Interval DEF Attempts
  <2>2. IsFiniteSet(mine \X Attempts)
    BY <1>1, <2>1, FS_Product
  <2>3. QED
    BY <2>2, FS_Subset
<1>7. /\ Cardinality(mine) \in Nat /\ Cardinality(done) \in Nat /\ Cardinality(paid) \in Nat
      /\ \A o \in Outlet : Cardinality(of(o, mine)) \in Nat /\ Cardinality(of(o, done)) \in Nat
      /\ \A st \in Status : Cardinality({a \in done : rows[a].verdict.status = st}) \in Nat
      /\ \A p \in RecoveryPhase :
           Cardinality({a \in mine \ done : rows[a].phase = p}) \in Nat
  BY <1>1, <1>2, <1>3, <1>4, <1>5, <1>6, FS_CardinalityType
<1> HIDE DEF mine, done, of, paid
<1>8. Tally(s) =
       [total |-> Cardinality(mine), processed |-> Cardinality(done),
        counts |-> [st \in Status |-> Cardinality({a \in done : rows[a].verdict.status = st})],
        domains |-> [o \in Outlet |-> [total |-> Cardinality(of(o, mine)),
                                       processed |-> Cardinality(of(o, done))]],
        remaining |-> [p \in RecoveryPhase |->
                         Cardinality({a \in mine \ done : rows[a].phase = p})],
        attempts |-> Cardinality(paid)]
  BY DEF Tally, mine, done, of, paid
<1>9. QED
  BY <1>7, <1>8 DEF Counters

-----------------------------------------------------------------------------
(* Type correctness                                                        *)

\* Claims that a batch creates are well-shaped.
LEMMA NewClaimType ==
  ASSUME TypeOK, NEW w \in Worker, NEW a \in Article, NEW t \in Token,
         NEW p \in Phase, NEW lag \in 0..Lag
  PROVE  [owner |-> w, article |-> a, token |-> t, phase |-> p,
          lease |-> LeaseFromSample(lag), base |-> rows[a].accounted,
          result |-> None] \in Claim
<1>1. Lease - lag \in Nat
  BY TimingAssumption
<1>2. rows[a].accounted \in Attempts
  BY DEF TypeOK, Row
<1>3. QED
  BY <1>1, <1>2 DEF Claim, LeaseFromSample

\* Init establishes, and every step preserves, the shape of the state.
LEMMA TypeInit == Init => TypeOK
<1> SUFFICES ASSUME Init PROVE TypeOK
  OBVIOUS
<1>1. SeededRow \in Row
  BY BoundAssumption, TimingAssumption DEF SeededRow, DueOnly, NeverDue, Row, Phase, Attempts
<1>2. \A s \in Status, n \in Attempts : ImportedRow(s, n) \in Row
  <2> SUFFICES ASSUME NEW s \in Status, NEW n \in Attempts PROVE ImportedRow(s, n) \in Row
    OBVIOUS
  <2>1. [token |-> None, status |-> s, attempts |-> n] \in Verdict
    BY DEF Verdict
  <2>2. NeverDue \in [Phase -> Int \cup {None}]
    BY DEF NeverDue
  <2>3. QED
    BY <1>1, <2>1, <2>2 DEF ImportedRow, Row
<1>3. rows \in [Article -> Row]
  BY <1>1, <1>2 DEF Init
<1>4. stats \in [Shard -> Counters]
  BY <1>3, TallyType DEF Init
<1>5. age \in [Article -> 0..Lag]
  BY TimingAssumption DEF Init
<1>6. QED
  BY <1>3, <1>4, <1>5 DEF Init, TypeOK

\* Every operation keeps the shape of the state.
LEMMA TypeStep == TypeOK /\ [Next]_vars => TypeOK'
<1> SUFFICES ASSUME TypeOK, [Next]_vars PROVE TypeOK'
  OBVIOUS
<1> USE TimingAssumption
<1>0. ASSUME NEW A \in SUBSET Article, Written(A) PROVE age' \in [Article -> 0..Lag]
  BY <1>0 DEF Written, TypeOK
<1>1. CASE \E st \in RunState, stop \in BOOLEAN : SetControl(st, stop)
  BY <1>1 DEF SetControl, TypeOK
<1>2. ASSUME NEW w \in Worker, NEW p \in Phase, NEW lag \in 0..Lag,
             NEW F \in Filters(p), ClaimBatch(w, p, F, lag)
      PROVE  TypeOK'
  <2>1. PICK C \in SUBSET {a \in Article : Claimable(a, p, F, lag)} :
          /\ Written(C)
          /\ \E token \in Injection(C, FreshTokens), delivered \in BOOLEAN :
              /\ rows' = [a \in Article |->
                            IF a \in C THEN LeasedRow(rows[a], w, token[a], p, lag)
                                       ELSE rows[a]]
              /\ claims' = claims \cup
                   {[owner |-> w, article |-> a, token |-> token[a], phase |-> p,
                     lease |-> LeaseFromSample(lag), base |-> rows[a].accounted,
                     result |-> None] : a \in IF delivered THEN C ELSE {}}
    BY <1>2 DEF ClaimBatch, Batches
  <2>2. PICK token \in [C -> Token], delivered \in BOOLEAN :
              /\ rows' = [a \in Article |->
                            IF a \in C THEN LeasedRow(rows[a], w, token[a], p, lag)
                                       ELSE rows[a]]
              /\ claims' = claims \cup
                   {[owner |-> w, article |-> a, token |-> token[a], phase |-> p,
                     lease |-> LeaseFromSample(lag), base |-> rows[a].accounted,
                     result |-> None] : a \in IF delivered THEN C ELSE {}}
    BY <2>1 DEF Injection, FreshTokens
  <2>3. rows' \in [Article -> Row]
    <3>1. \A a \in C : LeasedRow(rows[a], w, token[a], p, lag) \in Row
      BY <2>2, LeasedRowType DEF TypeOK
    <3>2. QED
      BY <2>2, <3>1 DEF TypeOK
  <2>4. claims' \subseteq Claim
    <3>1. \A a \in C : [owner |-> w, article |-> a, token |-> token[a], phase |-> p,
             lease |-> LeaseFromSample(lag), base |-> rows[a].accounted,
             result |-> None] \in Claim
      BY <2>2, NewClaimType
    <3>2. QED
      BY <2>2, <3>1 DEF TypeOK
  <2>5. QED
    BY <1>0, <1>2, <2>1, <2>3, <2>4 DEF ClaimBatch, TypeOK
<1>3. ASSUME NEW w \in Worker, NEW lag \in 0..Lag, Heartbeat(w, lag) PROVE TypeOK'
  <2>1. Lease - lag \in Nat
    OBVIOUS
  <2>2. \A a \in Article : WithDue(rows[a], rows[a].phase, Lease - lag) \in Row
    <3>1. \A a \in Article : rows[a] \in Row /\ rows[a].phase \in Phase
      BY DEF TypeOK, Row
    <3>2. QED
      BY <2>1, <3>1, WithDueType
  <2>3. rows' \in [Article -> Row]
    BY <1>3, <2>2 DEF Heartbeat, TypeOK
  <2>4. \A c \in Claim : [c EXCEPT !.lease = Lease - lag] \in Claim
                         /\ [c EXCEPT !.lease = 0] \in Claim
    BY <2>1 DEF Claim
  <2>5. claims' \subseteq Claim
    BY <1>3, <2>4 DEF Heartbeat, LeaseFromSample, TypeOK
  <2>6. {c.article : c \in {d \in Held(w) : Fenced(d, lag)}} \in SUBSET Article
    BY DEF TypeOK, Held, Claim
  <2>7. age' \in [Article -> 0..Lag]
    BY <1>0, <1>3, <2>6 DEF Heartbeat
  <2>8. QED
    BY <1>3, <2>3, <2>5, <2>7 DEF Heartbeat, TypeOK
<1>4. ASSUME NEW c \in claims, NEW r \in Result, Fetch(c, r) PROVE TypeOK'
  <2>1. [c EXCEPT !.result = r] \in Claim
    BY DEF TypeOK, Claim
  <2>2. QED
    BY <1>4, <2>1 DEF Fetch, TypeOK
<1>5. ASSUME NEW c \in claims, NEW lag \in 0..Lag, Complete(c, lag) PROVE TypeOK'
  <2>1. c \in Claim /\ c.article \in Article /\ c.result \in Terminal
    BY <1>5 DEF TypeOK, Claim, Complete, TerminalResult
  <2>2. rows' \in [Article -> Row]
    <3>1. DoneRow(rows[c.article], c) \in Row
      BY <2>1, DoneRowType DEF TypeOK
    <3>2. QED
      BY <1>5, <2>1, <3>1 DEF Complete, TypeOK
  <2>3. stats' \in [Shard -> Counters]
    <3> DEFINE s == ShardOf[c.article]
               m == IncrementStats(stats[s], OutletOf[c.article], c.result.status)
               n == TransitionPhase(m, c.phase, None)
               d == MetricDelta(rows[c.article], c.result.attempts)
    <3>1. s \in Shard /\ OutletOf[c.article] \in Outlet /\ c.result.status \in Status
      BY <2>1, LayoutAssumption DEF Terminal
    <3>2. m \in Counters
      BY <3>1, IncrementStatsType DEF TypeOK
    <3>3. n \in Counters
      BY <3>2, TransitionPhaseType
    <3>4. d \in Int
      BY <2>1, BoundAssumption DEF MetricDelta, TypeOK, Row, Terminal, Attempts
    <3>5. [n EXCEPT !.attempts = @ + d] \in Counters
      BY <3>3, <3>4, AttemptsAddedType
    <3>6. stats' = [stats EXCEPT ![s] = [n EXCEPT !.attempts = @ + d]]
      BY <1>5 DEF Complete
    <3> HIDE DEF s, n, d
    <3>7. QED
      BY <3>1, <3>5, <3>6 DEF TypeOK
  <2>4. QED
    BY <1>0, <1>5, <2>1, <2>2, <2>3 DEF Complete, TypeOK
<1>6. ASSUME NEW c \in claims, NEW delay \in RetryDelay, NEW lag \in 0..Lag,
             Handoff(c, delay, lag)
      PROVE  TypeOK'
  <2>1. c \in Claim /\ c.article \in Article /\ c.result \in Queued
    BY <1>6 DEF TypeOK, Claim, Handoff
  <2>2. rows' \in [Article -> Row]
    <3>1. QueuedRow(rows[c.article], c, delay) \in Row
      BY <2>1, QueuedRowType DEF TypeOK
    <3>2. QED
      BY <1>6, <2>1, <3>1 DEF Handoff, TypeOK
  <2>3. stats' \in [Shard -> Counters]
    <3> DEFINE s == ShardOf[c.article]
               n == TransitionPhase(stats[s], c.phase, c.result.next)
               d == MetricDelta(rows[c.article], c.result.attempts)
    <3>1. s \in Shard
      BY <2>1, LayoutAssumption
    <3>2. n \in Counters
      BY <3>1, TransitionPhaseType DEF TypeOK
    <3>3. d \in Int
      BY <2>1, BoundAssumption DEF MetricDelta, TypeOK, Row, Queued, Attempts
    <3>4. [n EXCEPT !.attempts = @ + d] \in Counters
      BY <3>2, <3>3, AttemptsAddedType
    <3>5. stats' = [stats EXCEPT ![s] = [n EXCEPT !.attempts = @ + d]]
      BY <1>6 DEF Handoff
    <3> HIDE DEF s, n, d
    <3>6. QED
      BY <3>1, <3>4, <3>5 DEF TypeOK
  <2>4. QED
    BY <1>0, <1>6, <2>1, <2>2, <2>3 DEF Handoff, TypeOK
<1>7. ASSUME NEW c \in claims, Release(c) PROVE TypeOK'
  <2>1. c \in Claim /\ c.article \in Article
    BY DEF TypeOK, Claim
  <2>2. ReleasedRow(rows[c.article], c) \in Row
    BY <2>1, ReleasedRowType DEF TypeOK
  <2>3. QED
    BY <1>0, <1>7, <2>1, <2>2 DEF Release, TypeOK
<1>8. ASSUME NEW c \in claims, Forget(c) PROVE TypeOK'
  BY <1>8 DEF Forget, TypeOK
<1>9. ASSUME NEW a \in Article, MarkExported(a, rows[a].verdict) PROVE TypeOK'
  <2>1. [rows[a] EXCEPT !.needs_export = FALSE] \in Row
    BY DEF TypeOK, Row
  <2>2. QED
    BY <1>0, <1>9, <2>1 DEF MarkExported, TypeOK
<1>10. CASE Tick
  <2>1. rows' \in [Article -> Row]
    <3> SUFFICES ASSUME NEW a \in Article PROVE rows'[a] \in Row
      BY <1>10 DEF Tick
    <3>1. rows[a] \in Row
      BY DEF TypeOK
    <3> DEFINE closer(t) == IF t = None \/ t = -Lag THEN t ELSE t - 1
               d == [p \in Phase |-> closer(rows[a].due[p])]
    <3>2. d \in [Phase -> Int \cup {None}]
      BY <3>1 DEF Row
    <3>3. rows'[a] = [rows[a] EXCEPT !.due = d]
      BY <1>10 DEF Tick
    <3> HIDE DEF d
    <3>4. QED
      BY <3>1, <3>2, <3>3 DEF Row
  <2>2. \A c \in Claim : [c EXCEPT !.lease = IF @ > 0 THEN @ - 1 ELSE 0] \in Claim
    BY DEF Claim
  <2>3. claims' \subseteq Claim
    BY <1>10, <2>2 DEF Tick, TypeOK
  <2>4. age' \in [Article -> 0..Lag]
    BY <1>10 DEF Tick, TypeOK
  <2>5. QED
    BY <1>10, <2>1, <2>3, <2>4 DEF Tick, TypeOK
<1>11. CASE UNCHANGED vars
  BY <1>11 DEF vars, TypeOK
<1>12. QED
  BY <1>1, <1>2, <1>3, <1>4, <1>5, <1>6, <1>7, <1>8, <1>9, <1>10, <1>11 DEF Next

\* The documents, counters and claims of the queue keep their shape in every
\* reachable state, whatever the processes do.
THEOREM TypeCorrect == Spec => []TypeOK
BY TypeInit, TypeStep, PTL DEF Spec

-----------------------------------------------------------------------------
(* Fencing                                                                 *)

\* Claim objects are identified by their tokens.
TokensDistinct == \A c, d \in claims : c.token = d.token => c = d

\* A leased article's lease ends at most Lease ticks after its last commit,
\* so that renewing it from a later clock sample never shortens it.
LeasesBounded ==
  \A a \in Article : rows[a].state = "leased" =>
    LET due == rows[a].due[rows[a].phase]
    IN due # None /\ due + age[a] <= Lease

\* The inductive invariant behind exclusive requests.
FenceInv == TypeOK /\ TokensDistinct /\ LeasesBounded /\ RequestsAreFenced

\* Two claims that may both start requests for an article carry its one token.
LEMMA FenceExcludes == FenceInv => ExclusiveRequests
BY DEF FenceInv, TokensDistinct, RequestsAreFenced, ExclusiveRequests, Owned

\* Nothing is claimed at first, so every fence holds.
LEMMA FenceInit == Init => FenceInv
<1> SUFFICES ASSUME Init PROVE FenceInv
  OBVIOUS
<1>1. TypeOK
  BY TypeInit
<1>2. \A a \in Article : rows[a].state # "leased"
  <2>1. SeededRow.state = "ready"
    BY DEF SeededRow
  <2>2. \A s \in Status, n \in Attempts : ImportedRow(s, n).state = "done"
    BY DEF ImportedRow, SeededRow
  <2>3. QED
    BY <2>1, <2>2 DEF Init
<1>3. QED
  BY <1>1, <1>2 DEF Init, FenceInv, TokensDistinct, LeasesBounded, RequestsAreFenced

\* A commit to one article leaves the fences of claims on others alone.
LEMMA FenceOfOthers ==
  ASSUME NEW c, FenceInv, c \in claims, Requesting(c), rows'[c.article] = rows[c.article]
  PROVE  /\ Owned(c)'
         /\ rows'[c.article].due[c.phase] # None
         /\ rows'[c.article].due[c.phase] >= c.lease
BY DEF FenceInv, RequestsAreFenced, Owned

\* A commit that ends claim c (its result is in hand, or it is dropped) leaves
\* every other requesting claim of the same article nothing to lose: there is
\* none.
LEMMA OnlyClaimOfRow ==
  ASSUME FenceInv, NEW c \in claims, NEW d \in claims, Owned(c),
         Requesting(d), d.article = c.article
  PROVE  d = c
BY DEF FenceInv, TokensDistinct, RequestsAreFenced, Owned

\* A batch of fresh tokens and due articles leaves every fence standing.
LEMMA FenceClaim ==
  ASSUME FenceInv, TypeOK', NEW w \in Worker, NEW p \in Phase, NEW lag \in 0..Lag,
         NEW F \in Filters(p), ClaimBatch(w, p, F, lag)
  PROVE  FenceInv'
<1> USE TimingAssumption
<1> DEFINE new(a, t) == [owner |-> w, article |-> a, token |-> t, phase |-> p,
                         lease |-> Lease - lag, base |-> rows[a].accounted,
                         result |-> None]
<1>1. PICK C \in SUBSET {a \in Article : Claimable(a, p, F, lag)} :
          /\ Written(C)
          /\ \E token \in Injection(C, FreshTokens), delivered \in BOOLEAN :
              /\ rows' = [a \in Article |->
                            IF a \in C THEN LeasedRow(rows[a], w, token[a], p, lag)
                                       ELSE rows[a]]
              /\ claims' = claims \cup
                   {new(a, token[a]) : a \in IF delivered THEN C ELSE {}}
  BY DEF ClaimBatch, Batches, LeaseFromSample
<1>2. PICK token \in Injection(C, FreshTokens), delivered \in BOOLEAN :
              /\ rows' = [a \in Article |->
                            IF a \in C THEN LeasedRow(rows[a], w, token[a], p, lag)
                                       ELSE rows[a]]
              /\ claims' = claims \cup
                   {new(a, token[a]) : a \in IF delivered THEN C ELSE {}}
  BY <1>1
<1>3. /\ \A a \in C : token[a] \in FreshTokens
      /\ \A a, b \in C : token[a] = token[b] => a = b
  BY <1>2 DEF Injection, IsInjective
<1>4. \A c \in claims, a \in C : c.token # token[a]
  BY <1>3 DEF FreshTokens
<1>5. \A a \in C : /\ rows'[a].state = "leased" /\ rows'[a].owner = w
                   /\ rows'[a].phase = p /\ rows'[a].token = token[a]
                   /\ rows'[a].due[p] = Lease - lag
                   /\ age'[a] = 0
  <2> SUFFICES ASSUME NEW a \in C
               PROVE  /\ rows'[a].state = "leased" /\ rows'[a].owner = w
                      /\ rows'[a].phase = p /\ rows'[a].token = token[a]
                      /\ rows'[a].due[p] = Lease - lag
                      /\ age'[a] = 0
    OBVIOUS
  <2>1. rows'[a] = LeasedRow(rows[a], w, token[a], p, lag)
    BY <1>2
  <2>2. rows[a] \in Row /\ rows[a].phase = p
    BY DEF FenceInv, TypeOK, Claimable
  <2>3. token[a] \in Token
    BY <1>3 DEF FreshTokens
  <2>4. age'[a] = 0
    BY <1>1 DEF Written
  <2>5. QED
    BY <2>1, <2>2, <2>3, <2>4, LeasedRowFields
<1>6. \A a \in Article \ C : rows'[a] = rows[a] /\ age'[a] = age[a]
  BY <1>1, <1>2 DEF Written
<1>7. TokensDistinct'
  BY <1>2, <1>3, <1>4 DEF FenceInv, TokensDistinct
<1>8. LeasesBounded'
  <2> SUFFICES ASSUME NEW a \in Article, rows'[a].state = "leased"
               PROVE  /\ rows'[a].due[rows'[a].phase] # None
                      /\ rows'[a].due[rows'[a].phase] + age'[a] <= Lease
    BY DEF LeasesBounded
  <2>1. CASE a \in C
    BY <1>5, <2>1, NoneAssumption
  <2>2. CASE a \notin C
    BY <1>6, <2>2 DEF FenceInv, LeasesBounded
  <2>3. QED
    BY <2>1, <2>2
<1>9. RequestsAreFenced'
  <2> SUFFICES ASSUME NEW c \in claims', Requesting(c)
               PROVE  /\ Owned(c)' /\ rows'[c.article].due[c.phase] # None
                      /\ rows'[c.article].due[c.phase] >= c.lease
    BY DEF RequestsAreFenced, Requesting
  <2>1. CASE c \in claims
    <3>1. c.article \notin C
      <4> SUFFICES ASSUME c.article \in C PROVE FALSE
        OBVIOUS
      <4>1. /\ rows[c.article].phase = p /\ rows[c.article].due[p] # None
            /\ rows[c.article].due[p] <= -lag
        BY DEF Claimable
      <4>2. /\ rows[c.article].phase = c.phase
            /\ rows[c.article].due[c.phase] >= c.lease
        BY <2>1 DEF FenceInv, RequestsAreFenced, Owned
      <4>3. c.lease \in Nat /\ c.lease > 0 /\ rows[c.article] \in Row
        BY <2>1 DEF FenceInv, TypeOK, Claim, Requesting
      <4>4. rows[c.article].due[p] \in Int
        BY <4>1, <4>3 DEF Row
      <4>5. QED
        BY <4>1, <4>2, <4>3, <4>4
    <3>2. c.article \in Article
      BY <2>1 DEF FenceInv, TypeOK, Claim
    <3>3. QED
      BY <1>6, <2>1, <3>1, <3>2, FenceOfOthers
  <2>2. CASE c \notin claims
    <3>1. PICK a \in C : c = new(a, token[a])
      BY <1>2, <2>2
    <3>2. QED
      BY <1>5, <3>1, NoneAssumption DEF Owned
  <2>3. QED
    BY <2>1, <2>2
<1>10. QED
  BY <1>7, <1>8, <1>9 DEF FenceInv

\* A renewal, even from an old clock sample or without a reply, never lets a
\* local lease outlive the document's.
LEMMA FenceHeartbeat ==
  ASSUME FenceInv, TypeOK', NEW w \in Worker, NEW lag \in 0..Lag, Heartbeat(w, lag)
  PROVE  FenceInv'
<1> USE TimingAssumption, NoneAssumption
<1> DEFINE renewed == {c \in Held(w) : Fenced(c, lag)}
           told(c) == [c EXCEPT !.lease = IF c \in renewed THEN Lease - lag ELSE 0]
           touched == {c.article : c \in renewed}
<1>1. /\ Sampled({c.article : c \in Held(w)}, lag) /\ Written(touched)
      /\ rows' = [a \in Article |->
                   IF \E c \in renewed : c.article = a
                   THEN WithDue(rows[a], rows[a].phase, Lease - lag) ELSE rows[a]]
      /\ \/ claims' = {IF c \in Held(w) THEN told(c) ELSE c : c \in claims}
         \/ claims' = claims
  BY DEF Heartbeat, LeaseFromSample
<1>2. /\ renewed \subseteq claims /\ touched \subseteq Article
      /\ \A c \in renewed : Owned(c) /\ lag <= age[c.article]
  BY <1>1 DEF Held, FenceInv, TypeOK, Claim, Fenced, Sampled
<1>3. \A a \in Article : rows[a] \in Row /\ rows[a].phase \in Phase /\ age[a] \in 0..Lag
  BY DEF FenceInv, TypeOK, Row
<1>4. \A a \in touched :
        /\ rows'[a].state = rows[a].state /\ rows'[a].owner = rows[a].owner
        /\ rows'[a].token = rows[a].token /\ rows'[a].phase = rows[a].phase
        /\ rows'[a].due[rows[a].phase] = Lease - lag
        /\ age'[a] = 0 /\ lag <= age[a]
  <2> SUFFICES ASSUME NEW a \in touched
               PROVE  /\ rows'[a].state = rows[a].state /\ rows'[a].owner = rows[a].owner
                      /\ rows'[a].token = rows[a].token /\ rows'[a].phase = rows[a].phase
                      /\ rows'[a].due[rows[a].phase] = Lease - lag
                      /\ age'[a] = 0 /\ lag <= age[a]
    OBVIOUS
  <2>1. a \in Article /\ rows'[a] = WithDue(rows[a], rows[a].phase, Lease - lag)
    BY <1>1, <1>2
  <2>2. age'[a] = 0 /\ lag <= age[a]
    BY <1>1, <1>2, <2>1 DEF Written
  <2>3. QED
    BY <1>3, <2>1, <2>2 DEF WithDue, Row
<1>5. \A a \in Article \ touched : rows'[a] = rows[a] /\ age'[a] = age[a]
  BY <1>1 DEF Written
<1>6. \A c \in claims : told(c).token = c.token /\ told(c).article = c.article
                        /\ told(c).owner = c.owner /\ told(c).phase = c.phase
                        /\ told(c).result = c.result
                        /\ told(c).lease = IF c \in renewed THEN Lease - lag ELSE 0
  BY DEF FenceInv, TypeOK, Claim
<1> HIDE DEF told, touched, renewed
\* Every claim after the step comes from one with its identity; if it may
\* start requests, so might that one, with the same lease unless renewed.
<1>7. \A d \in claims' : \E c \in claims :
        /\ d.token = c.token /\ d.article = c.article /\ d.owner = c.owner
        /\ d.phase = c.phase /\ d.result = c.result
        /\ d = c \/ d = told(c)
        /\ d.lease = c.lease \/ (c \in renewed /\ d.lease = Lease - lag) \/ d.lease = 0
  BY <1>1, <1>6
<1>8. TokensDistinct'
  BY <1>1, <1>6, <1>7 DEF FenceInv, TokensDistinct
<1>9. LeasesBounded'
  <2> SUFFICES ASSUME NEW a \in Article, rows'[a].state = "leased"
               PROVE  /\ rows'[a].due[rows'[a].phase] # None
                      /\ rows'[a].due[rows'[a].phase] + age'[a] <= Lease
    BY DEF LeasesBounded
  <2>1. CASE a \in touched
    BY <1>4, <2>1
  <2>2. CASE a \notin touched
    BY <1>5, <2>2 DEF FenceInv, LeasesBounded
  <2>3. QED
    BY <2>1, <2>2
<1>10. RequestsAreFenced'
  <2> SUFFICES ASSUME NEW d \in claims', Requesting(d)
               PROVE  /\ Owned(d)' /\ rows'[d.article].due[d.phase] # None
                      /\ rows'[d.article].due[d.phase] >= d.lease
    BY DEF RequestsAreFenced, Requesting
  <2>1. PICK c \in claims :
          /\ d.token = c.token /\ d.article = c.article /\ d.owner = c.owner
          /\ d.phase = c.phase /\ d.result = c.result
          /\ d.lease = c.lease \/ (c \in renewed /\ d.lease = Lease - lag)
    BY <1>7 DEF Requesting
  <2>2. c \in Claim /\ c.article \in Article
    BY DEF FenceInv, TypeOK, Claim
  <2>3. CASE c \in renewed
    <3>1. c.article \in touched /\ Owned(c) /\ lag <= age[c.article]
      BY <1>2, <2>3 DEF touched
    <3>2. rows[c.article].phase = c.phase /\ rows[c.article].state = "leased"
      BY <3>1 DEF Owned
    <3>3. Owned(d)' /\ rows'[d.article].due[d.phase] = Lease - lag
      BY <1>4, <2>1, <3>1, <3>2 DEF Owned
    <3>4. CASE d.lease = Lease - lag
      BY <3>3, <3>4
    <3>5. CASE d.lease = c.lease
      <4>1. Requesting(c)
        BY <2>1, <3>5 DEF Requesting
      <4>2. rows[c.article].due[c.phase] >= c.lease
        BY <4>1 DEF FenceInv, RequestsAreFenced
      <4>3. /\ rows[c.article].due[c.phase] # None
            /\ rows[c.article].due[c.phase] + age[c.article] <= Lease
        BY <2>2, <3>2 DEF FenceInv, LeasesBounded
      <4>4. rows[c.article].due[c.phase] \in Int /\ age[c.article] \in 0..Lag
            /\ c.lease \in Nat
        BY <1>3, <2>2, <4>3 DEF Row, Claim
      <4>5. QED
        BY <3>1, <3>3, <3>5, <4>2, <4>3, <4>4
    <3>6. QED
      BY <2>1, <3>4, <3>5
  <2>4. CASE c \notin renewed
    <3>1. d.lease = c.lease /\ Requesting(c)
      BY <2>1, <2>4 DEF Requesting
    <3>2. CASE c.article \notin touched
      <4>1. rows'[c.article] = rows[c.article]
        BY <1>5, <2>2, <3>2
      <4>2. QED
        BY <2>1, <3>1, <4>1 DEF FenceInv, RequestsAreFenced, Owned
    <3>3. CASE c.article \in touched
      <4>1. PICK e \in renewed : e.article = c.article
        BY <3>3 DEF touched
      <4>2. e = c
        BY <1>2, <3>1, <4>1, OnlyClaimOfRow
      <4>3. QED
        BY <2>4, <4>2
    <3>4. QED
      BY <3>2, <3>3
  <2>5. QED
    BY <2>3, <2>4
<1>11. QED
  BY <1>8, <1>9, <1>10 DEF FenceInv

\* Whatever ends the loan of one article (claims only shrink, or claim c gets
\* its result) keeps the fences of all other claims.
LEMMA FenceEnds ==
  ASSUME FenceInv, TypeOK', NEW c \in claims, Owned(c), c.result # None \/ c \notin claims',
         rows'[c.article].state # "leased", claims' \subseteq claims,
         \A a \in Article \ {c.article} : rows'[a] = rows[a],
         Written({c.article})
  PROVE  FenceInv'
<1>1. \A d \in claims' : Requesting(d) => d.article \in Article \ {c.article}
  <2> SUFFICES ASSUME NEW d \in claims', Requesting(d), d.article = c.article
               PROVE  FALSE
    BY DEF FenceInv, TypeOK, Claim
  <2>1. d = c
    BY OnlyClaimOfRow
  <2>2. QED
    BY <2>1 DEF Requesting
<1>2. TokensDistinct'
  BY DEF FenceInv, TokensDistinct
<1>3. LeasesBounded'
  BY DEF FenceInv, LeasesBounded, Written
<1>4. RequestsAreFenced'
  BY <1>1 DEF FenceInv, RequestsAreFenced, Requesting, Owned
<1>5. QED
  BY <1>2, <1>3, <1>4 DEF FenceInv

\* The end of a fetch only ends a request.
LEMMA FenceFetch ==
  ASSUME FenceInv, TypeOK', NEW c \in claims, NEW r \in Result, Fetch(c, r)
  PROVE  FenceInv'
<1> DEFINE f == [c EXCEPT !.result = r]
<1>1. /\ claims' = (claims \ {c}) \cup {f}
      /\ rows' = rows /\ age' = age
  BY DEF Fetch
<1>2. f.token = c.token /\ f.result # None
  BY NoneAssumption DEF FenceInv, TypeOK, Claim
<1> HIDE DEF f
<1>3. TokensDistinct'
  BY <1>1, <1>2 DEF FenceInv, TokensDistinct
<1>4. LeasesBounded'
  BY <1>1 DEF FenceInv, LeasesBounded
<1>5. RequestsAreFenced'
  BY <1>1, <1>2 DEF FenceInv, RequestsAreFenced, Requesting, Owned
<1>6. QED
  BY <1>3, <1>4, <1>5 DEF FenceInv

\* Time takes from local and stored leases alike.
LEMMA FenceTick ==
  ASSUME FenceInv, TypeOK', Tick
  PROVE  FenceInv'
<1> USE TimingAssumption, NoneAssumption
<1> DEFINE closer(t) == IF t = None \/ t = -Lag THEN t ELSE t - 1
           nearer(c) == [c EXCEPT !.lease = IF @ > 0 THEN @ - 1 ELSE 0]
<1>1. \A a \in Article : rows[a] \in Row /\ age[a] \in 0..Lag
  BY DEF FenceInv, TypeOK
<1>2. \A a \in Article :
        /\ rows'[a].state = rows[a].state /\ rows'[a].owner = rows[a].owner
        /\ rows'[a].token = rows[a].token /\ rows'[a].phase = rows[a].phase
        /\ \A p \in Phase : rows'[a].due[p] = closer(rows[a].due[p])
        /\ age'[a] = IF age[a] < Lag THEN age[a] + 1 ELSE Lag
  BY <1>1 DEF Tick, Row
<1>3. \A c \in claims : /\ nearer(c).token = c.token /\ nearer(c).article = c.article
                        /\ nearer(c).owner = c.owner /\ nearer(c).phase = c.phase
                        /\ nearer(c).result = c.result
                        /\ nearer(c).lease = IF c.lease > 0 THEN c.lease - 1 ELSE 0
  BY DEF FenceInv, TypeOK, Claim
<1>4. claims' = {nearer(c) : c \in claims}
  BY DEF Tick
<1> HIDE DEF nearer
<1>5. TokensDistinct'
  BY <1>3, <1>4 DEF FenceInv, TokensDistinct
<1>6. LeasesBounded'
  <2> SUFFICES ASSUME NEW a \in Article, rows'[a].state = "leased"
               PROVE  /\ rows'[a].due[rows'[a].phase] # None
                      /\ rows'[a].due[rows'[a].phase] + age'[a] <= Lease
    BY DEF LeasesBounded
  <2> DEFINE due == rows[a].due[rows[a].phase]
  <2>1. due # None /\ due + age[a] <= Lease
    BY <1>2 DEF FenceInv, LeasesBounded
  <2>2. rows[a].phase \in Phase /\ due \in Int
    BY <1>1, <2>1 DEF Row
  <2>3. rows'[a].due[rows'[a].phase] = IF due = -Lag THEN due ELSE due - 1
    BY <1>2, <2>1, <2>2
  <2>4. QED
    BY <1>1, <1>2, <2>1, <2>2, <2>3
<1>7. RequestsAreFenced'
  <2> SUFFICES ASSUME NEW d \in claims', Requesting(d)
               PROVE  /\ Owned(d)' /\ rows'[d.article].due[d.phase] # None
                      /\ rows'[d.article].due[d.phase] >= d.lease
    BY DEF RequestsAreFenced, Requesting
  <2>1. PICK c \in claims : d = nearer(c)
    BY <1>4
  <2>2. c \in Claim /\ c.article \in Article /\ c.phase \in Phase /\ c.lease \in Nat
    BY DEF FenceInv, TypeOK, Claim
  <2>3. Requesting(c) /\ d.lease = c.lease - 1 /\ d.lease > 0
    BY <1>3, <2>1, <2>2 DEF Requesting
  <2>4. /\ Owned(c) /\ rows[c.article].due[c.phase] # None
        /\ rows[c.article].due[c.phase] >= c.lease
    BY <2>3 DEF FenceInv, RequestsAreFenced
  <2>5. Owned(d)'
    BY <1>2, <1>3, <2>1, <2>2, <2>4 DEF Owned
  <2>6. rows[c.article].due[c.phase] \in Int
    BY <1>1, <2>2, <2>4 DEF Row
  <2>7. rows'[c.article].due[c.phase] = rows[c.article].due[c.phase] - 1
    BY <1>2, <2>2, <2>3, <2>4, <2>6
  <2>8. d.article = c.article /\ d.phase = c.phase
    BY <1>3, <2>1
  <2>9. rows[c.article].due[c.phase] - 1 >= d.lease
    BY <2>2, <2>3, <2>4, <2>6
  <2>10. rows'[c.article].due[c.phase] # None
    BY <2>6, <2>7
  <2>11. QED
    BY <2>5, <2>7, <2>8, <2>9, <2>10
<1>8. QED
  BY <1>5, <1>6, <1>7 DEF FenceInv

\* Every operation preserves the inductive invariant.
LEMMA FenceStep == FenceInv /\ [Next]_vars => FenceInv'
<1> SUFFICES ASSUME FenceInv, [Next]_vars PROVE FenceInv'
  OBVIOUS
<1>0. TypeOK'
  BY TypeStep DEF FenceInv
<1>1. CASE \E st \in RunState, stop \in BOOLEAN : SetControl(st, stop)
  BY <1>0, <1>1 DEF SetControl, FenceInv, TokensDistinct, LeasesBounded,
                    RequestsAreFenced, Owned
<1>2. ASSUME NEW w \in Worker, NEW p \in Phase, NEW lag \in 0..Lag,
             NEW F \in Filters(p), ClaimBatch(w, p, F, lag)
      PROVE  FenceInv'
  BY <1>0, <1>2, FenceClaim
<1>3. ASSUME NEW w \in Worker, NEW lag \in 0..Lag, Heartbeat(w, lag) PROVE FenceInv'
  BY <1>0, <1>3, FenceHeartbeat
<1>4. ASSUME NEW c \in claims, NEW r \in Result, Fetch(c, r) PROVE FenceInv'
  BY <1>0, <1>4, FenceFetch
<1> DEFINE others(c) == \A a \in Article \ {c.article} : rows'[a] = rows[a]
<1>5. \A c \in claims : c \in Claim /\ c.article \in Article /\ rows[c.article] \in Row
  BY DEF FenceInv, TypeOK, Claim
<1>6. ASSUME NEW c \in claims, NEW lag \in 0..Lag, Complete(c, lag) PROVE FenceInv'
  <2>1. Owned(c) /\ c.result # None
    BY <1>6, NoneAssumption DEF Complete, Fenced, TerminalResult, Result
  <2>2. rows'[c.article].state = "done"
    <3>1. DoneRow(rows[c.article], c).state = "done"
      BY <1>5 DEF DoneRow, Row
    <3>2. QED
      BY <1>5, <1>6, <3>1 DEF Complete, FenceInv, TypeOK
  <2>3. others(c) /\ claims' = claims /\ Written({c.article})
    BY <1>6 DEF Complete, FenceInv, TypeOK
  <2>4. QED
    BY <1>0, <2>1, <2>2, <2>3, FenceEnds
<1>7. ASSUME NEW c \in claims, NEW delay \in RetryDelay, NEW lag \in 0..Lag,
             Handoff(c, delay, lag)
      PROVE  FenceInv'
  <2>1. Owned(c) /\ c.result # None
    BY <1>7, NoneAssumption DEF Handoff, Fenced, Result
  <2>2. rows'[c.article].state = "ready"
    <3>1. QueuedRow(rows[c.article], c, delay).state = "ready"
      BY <1>5 DEF QueuedRow, Row
    <3>2. QED
      BY <1>5, <1>7, <3>1 DEF Handoff, FenceInv, TypeOK
  <2>3. others(c) /\ claims' = claims /\ Written({c.article})
    BY <1>7 DEF Handoff, FenceInv, TypeOK
  <2>4. QED
    BY <1>0, <2>1, <2>2, <2>3, FenceEnds
<1>8. ASSUME NEW c \in claims, Release(c) PROVE FenceInv'
  <2>1. Owned(c)
    BY <1>8 DEF Release
  <2>2. rows'[c.article].state = "ready"
    <3> DEFINE y == WithDue(rows[c.article], c.phase, -Lag)
    <3>1. y \in Row
      BY <1>5, WithDueType, TimingAssumption DEF Claim
    <3>2. ReleasedRow(rows[c.article], c)
            = [y EXCEPT !.state = "ready", !.owner = None, !.token = None]
      BY DEF ReleasedRow
    <3> HIDE DEF y
    <3>3. ReleasedRow(rows[c.article], c).state = "ready"
      BY <3>1, <3>2 DEF Row
    <3>4. QED
      BY <1>5, <1>8, <3>3 DEF Release, FenceInv, TypeOK
  <2>3. others(c) /\ claims' = claims \ {c} /\ Written({c.article})
    BY <1>8 DEF Release, FenceInv, TypeOK
  <2>4. QED
    BY <1>0, <2>1, <2>2, <2>3, FenceEnds
<1>9. ASSUME NEW c \in claims, Forget(c) PROVE FenceInv'
  BY <1>0, <1>9 DEF Forget, FenceInv, TokensDistinct, LeasesBounded,
                    RequestsAreFenced, Requesting, Owned
<1>10. ASSUME NEW a \in Article, MarkExported(a, rows[a].verdict) PROVE FenceInv'
  <2>1. /\ rows[a].state = "done" /\ rows'[a].state = "done" /\ claims' = claims
        /\ \A b \in Article \ {a} : rows'[b] = rows[b] /\ age'[b] = age[b]
    BY <1>10 DEF MarkExported, Written, FenceInv, TypeOK, Row
  <2>2. \A c \in claims : Requesting(c) => c.article # a
    BY <2>1 DEF FenceInv, RequestsAreFenced, Owned
  <2>3. TokensDistinct'
    BY <2>1 DEF FenceInv, TokensDistinct
  <2>4. LeasesBounded'
    BY <2>1 DEF FenceInv, LeasesBounded
  <2>5. RequestsAreFenced'
    BY <1>5, <2>1, <2>2 DEF FenceInv, RequestsAreFenced, Requesting, Owned
  <2>6. QED
    BY <1>0, <2>3, <2>4, <2>5 DEF FenceInv
<1>11. CASE Tick
  BY <1>0, <1>11, FenceTick
<1>12. CASE UNCHANGED vars
  BY <1>0, <1>12 DEF vars, FenceInv, TokensDistinct, LeasesBounded,
                     RequestsAreFenced, Owned
<1>13. QED
  BY <1>1, <1>2, <1>3, <1>4, <1>6, <1>7, <1>8, <1>9, <1>10, <1>11, <1>12 DEF Next

\* A process entitled to start requests for an article is the one whose report
\* the queue accepts: the document carries its claim at least as long.
THEOREM FencedRequests == Spec => []RequestsAreFenced
<1>1. FenceInv => RequestsAreFenced
  BY DEF FenceInv
<1>2. QED
  BY <1>1, FenceInit, FenceStep, PTL DEF Spec

\* Two processes are never entitled to start requests for the same article.
THEOREM RequestsExclusive == Spec => []ExclusiveRequests
BY FenceInit, FenceStep, FenceExcludes, PTL DEF Spec
-----------------------------------------------------------------------------
(* What each operation writes, as accounting and the ledger see it          *)

\* The fields of a document that reports and counters depend on stay.
KeepsReport(r, q) ==
  /\ q.state = r.state /\ q.phase = r.phase /\ q.owner = r.owner /\ q.token = r.token
  /\ q.verdict = r.verdict /\ q.accounted = r.accounted
AllKept == \A a \in Article : KeepsReport(rows[a], rows'[a])

\* Every claim object is one that was there before, with its identity.
SameClaim(c, d) ==
  d.owner = c.owner /\ d.article = c.article /\ d.token = c.token /\ d.phase = c.phase
NoNewClaim == \A d \in claims' : \E c \in claims : SameClaim(c, d)

\* A quiet step changes at most leases, results in memory and export marks.
Quiet == AllKept /\ NoNewClaim /\ stats' = stats

\* The operations that report nothing to the ledger are quiet.
LEMMA HeartbeatQuiet ==
  ASSUME TypeOK, NEW w \in Worker, NEW lag \in 0..Lag, Heartbeat(w, lag)
  PROVE  Quiet
<1>1. AllKept
  <2> SUFFICES ASSUME NEW a \in Article PROVE KeepsReport(rows[a], rows'[a])
    BY DEF AllKept
  <2>1. rows[a] \in Row
    BY DEF TypeOK
  <2>2. \/ rows'[a] = WithDue(rows[a], rows[a].phase, Lease - lag)
        \/ rows'[a] = rows[a]
    BY DEF Heartbeat
  <2>3. QED
    BY <2>1, <2>2 DEF KeepsReport, WithDue, Row
<1>2. NoNewClaim
  <2> SUFFICES ASSUME NEW d \in claims' PROVE \E c \in claims : SameClaim(c, d)
    BY DEF NoNewClaim
  <2>1. PICK c \in claims :
          \/ d = c \/ d = [c EXCEPT !.lease = 0] \/ d = [c EXCEPT !.lease = LeaseFromSample(lag)]
    BY DEF Heartbeat
  <2>2. c \in Claim
    BY DEF TypeOK
  <2>3. SameClaim(c, d)
    BY <2>1, <2>2 DEF SameClaim, Claim
  <2>4. QED
    BY <2>3
<1>3. QED
  BY <1>1, <1>2 DEF Heartbeat, Quiet

LEMMA FetchQuiet ==
  ASSUME TypeOK, NEW c \in claims, NEW r \in Result, Fetch(c, r)
  PROVE  Quiet
<1>1. AllKept
  BY DEF Fetch, AllKept, KeepsReport
<1>2. SameClaim(c, [c EXCEPT !.result = r])
  BY DEF TypeOK, Claim, SameClaim
<1>3. NoNewClaim
  BY <1>2 DEF Fetch, NoNewClaim, SameClaim
<1>4. QED
  BY <1>1, <1>3 DEF Fetch, Quiet

LEMMA TickQuiet ==
  ASSUME TypeOK, Tick
  PROVE  Quiet
<1>1. AllKept
  <2> SUFFICES ASSUME NEW a \in Article PROVE KeepsReport(rows[a], rows'[a])
    BY DEF AllKept
  <2>1. rows[a] \in Row
    BY DEF TypeOK
  <2> DEFINE d == [p \in Phase |-> IF rows[a].due[p] = None \/ rows[a].due[p] = -Lag
                                   THEN rows[a].due[p] ELSE rows[a].due[p] - 1]
  <2>2. rows'[a] = [rows[a] EXCEPT !.due = d]
    BY DEF Tick
  <2> HIDE DEF d
  <2>3. QED
    BY <2>1, <2>2 DEF KeepsReport, Row
<1>2. NoNewClaim
  <2>1. \A c \in claims : SameClaim(c, [c EXCEPT !.lease = IF @ > 0 THEN @ - 1 ELSE 0])
    BY DEF TypeOK, Claim, SameClaim
  <2>2. QED
    BY <2>1 DEF Tick, NoNewClaim
<1>3. QED
  BY <1>1, <1>2 DEF Tick, Quiet

LEMMA MarkQuiet ==
  ASSUME TypeOK, NEW a \in Article, MarkExported(a, rows[a].verdict)
  PROVE  Quiet
<1>1. rows[a] \in Row /\ rows' = [rows EXCEPT ![a].needs_export = FALSE]
  BY DEF TypeOK, MarkExported
<1>2. KeepsReport(rows[a], [rows[a] EXCEPT !.needs_export = FALSE])
  BY <1>1 DEF KeepsReport, Row
<1>3. AllKept
  BY <1>1, <1>2 DEF AllKept, KeepsReport, TypeOK
<1>4. QED
  BY <1>3 DEF MarkExported, Quiet, NoNewClaim, SameClaim

\* Operator's writes, forgotten claims and stuttering.
LEMMA OthersQuiet ==
  ASSUME \/ \E st \in RunState, stop \in BOOLEAN : SetControl(st, stop)
         \/ \E c \in claims : Forget(c)
         \/ UNCHANGED vars
  PROVE  Quiet
BY DEF SetControl, Forget, vars, Quiet, AllKept, NoNewClaim, KeepsReport, SameClaim

\* What a completion leaves in the article's document.
LEMMA CompleteFields ==
  ASSUME TypeOK, NEW c \in claims, NEW lag \in 0..Lag, Complete(c, lag)
  PROVE  LET a == c.article  r == rows[a]  q == rows'[a]
         IN /\ a \in Article /\ Owned(c) /\ c.result \in Terminal
            /\ q.state = "done" /\ q.phase = r.phase /\ q.owner = r.owner /\ q.token = r.token
            /\ q.accounted = r.accounted
            /\ q.verdict = [token |-> c.token, status |-> c.result.status,
                            attempts |-> c.result.attempts]
            /\ \A b \in Article \ {a} : rows'[b] = rows[b]
<1>1. c \in Claim /\ c.article \in Article /\ rows[c.article] \in Row
  BY DEF TypeOK, Claim
<1>2. rows'[c.article] = DoneRow(rows[c.article], c)
  BY <1>1 DEF Complete, TypeOK
<1>3. QED
  BY <1>1, <1>2 DEF Complete, Fenced, TerminalResult, DoneRow, Row, TypeOK

\* What a handoff leaves.
LEMMA HandoffFields ==
  ASSUME TypeOK, NEW c \in claims, NEW delay \in RetryDelay, NEW lag \in 0..Lag,
         Handoff(c, delay, lag)
  PROVE  LET a == c.article  r == rows[a]  q == rows'[a]
         IN /\ a \in Article /\ Owned(c) /\ c.result \in Queued
            /\ q.state = "ready" /\ q.phase = c.result.next /\ q.owner = None
            /\ q.token = None /\ q.accounted = c.result.attempts /\ q.verdict = r.verdict
            /\ \A b \in Article \ {a} : rows'[b] = rows[b]
<1>1. c \in Claim /\ c.article \in Article /\ rows[c.article] \in Row
  BY DEF TypeOK, Claim
<1>2. rows'[c.article] = QueuedRow(rows[c.article], c, delay)
  BY <1>1 DEF Handoff, TypeOK
<1>3. QED
  BY <1>1, <1>2 DEF Handoff, Fenced, QueuedRow, Row, TypeOK

\* What a release leaves.
LEMMA ReleaseFields ==
  ASSUME TypeOK, NEW c \in claims, Release(c)
  PROVE  LET a == c.article  r == rows[a]  q == rows'[a]
         IN /\ a \in Article /\ Owned(c)
            /\ q.state = "ready" /\ q.phase = r.phase /\ q.owner = None /\ q.token = None
            /\ q.accounted = r.accounted /\ q.verdict = r.verdict
            /\ \A b \in Article \ {a} : rows'[b] = rows[b]
<1>1. c \in Claim /\ c.article \in Article /\ rows[c.article] \in Row /\ c.phase \in Phase
  BY DEF TypeOK, Claim
<1> DEFINE y == WithDue(rows[c.article], c.phase, -Lag)
<1>2. y \in Row
  BY <1>1, WithDueType, TimingAssumption
<1>3. /\ y.phase = rows[c.article].phase /\ y.accounted = rows[c.article].accounted
      /\ y.verdict = rows[c.article].verdict
  BY <1>1 DEF WithDue, Row
<1>4. rows'[c.article] = [y EXCEPT !.state = "ready", !.owner = None, !.token = None]
  BY <1>1 DEF Release, ReleasedRow, TypeOK
<1> HIDE DEF y
<1>5. /\ rows'[c.article].state = "ready" /\ rows'[c.article].phase = y.phase
      /\ rows'[c.article].owner = None /\ rows'[c.article].token = None
      /\ rows'[c.article].accounted = y.accounted /\ rows'[c.article].verdict = y.verdict
  BY <1>2, <1>4 DEF Row
<1>6. QED
  BY <1>1, <1>3, <1>5 DEF Release, TypeOK

\* A batch: the articles C are leased to w under fresh tokens of their own.
Batch(w, p, C, token) ==
  /\ \A a \in C : /\ a \in Article /\ token[a] \in FreshTokens
                  /\ rows[a].state # "done" /\ rows[a].phase = p
                  /\ rows'[a].state = "leased" /\ rows'[a].phase = p
                  /\ rows'[a].owner = w /\ rows'[a].token = token[a]
                  /\ rows'[a].verdict = rows[a].verdict
                  /\ rows'[a].accounted = rows[a].accounted
  /\ \A a, b \in C : token[a] = token[b] => a = b
  /\ \A a \in Article \ C : rows'[a] = rows[a]

\* The claim object a batch creates for article a.
NewClaim(w, p, lag, a, t) ==
  [owner |-> w, article |-> a, token |-> t, phase |-> p, lease |-> LeaseFromSample(lag),
   base |-> rows[a].accounted, result |-> None]

LEMMA ClaimFields ==
  ASSUME TypeOK, NEW w \in Worker, NEW p \in Phase, NEW lag \in 0..Lag,
         NEW F \in Filters(p), ClaimBatch(w, p, F, lag)
  PROVE  \E C \in SUBSET Article : \E token \in [C -> Token], D \in {C, {}} :
           /\ Batch(w, p, C, token)
           /\ claims' = claims \cup {NewClaim(w, p, lag, a, token[a]) : a \in D}
<1>1. PICK C \in SUBSET {a \in Article : Claimable(a, p, F, lag)} :
        \E token \in Injection(C, FreshTokens), delivered \in BOOLEAN :
             /\ rows' = [a \in Article |->
                           IF a \in C THEN LeasedRow(rows[a], w, token[a], p, lag)
                                      ELSE rows[a]]
             /\ claims' = claims \cup
                  {NewClaim(w, p, lag, a, token[a]) : a \in IF delivered THEN C ELSE {}}
  BY DEF ClaimBatch, Batches, NewClaim
<1>2. PICK token \in Injection(C, FreshTokens), delivered \in BOOLEAN :
             /\ rows' = [a \in Article |->
                           IF a \in C THEN LeasedRow(rows[a], w, token[a], p, lag)
                                      ELSE rows[a]]
             /\ claims' = claims \cup
                  {NewClaim(w, p, lag, a, token[a]) : a \in IF delivered THEN C ELSE {}}
  BY <1>1
<1>3. /\ token \in [C -> Token] /\ \A a \in C : token[a] \in FreshTokens
      /\ \A a, b \in C : token[a] = token[b] => a = b
  BY <1>2 DEF Injection, IsInjective, FreshTokens
<1>4. ASSUME NEW a \in C
      PROVE  /\ rows[a].state # "done" /\ rows[a].phase = p
             /\ rows'[a].state = "leased" /\ rows'[a].phase = p
             /\ rows'[a].owner = w /\ rows'[a].token = token[a]
             /\ rows'[a].verdict = rows[a].verdict /\ rows'[a].accounted = rows[a].accounted
  <2>1. a \in Article /\ rows[a] \in Row /\ rows[a].state # "done" /\ rows[a].phase = p
    BY <1>4 DEF TypeOK, Claimable
  <2> DEFINE y == WithDue(rows[a], p, Lease - lag)
  <2>2. y \in Row
    BY <2>1, WithDueType, TimingAssumption
  <2>3. y.phase = rows[a].phase /\ y.accounted = rows[a].accounted /\ y.verdict = rows[a].verdict
    BY <2>1 DEF WithDue, Row
  <2>4. rows'[a] = [y EXCEPT !.state = "leased", !.owner = w, !.token = token[a]]
    BY <1>2, <1>4, <2>1 DEF LeasedRow
  <2> HIDE DEF y
  <2>5. /\ rows'[a].state = "leased" /\ rows'[a].phase = y.phase
        /\ rows'[a].owner = w /\ rows'[a].token = token[a]
        /\ rows'[a].accounted = y.accounted /\ rows'[a].verdict = y.verdict
    BY <2>2, <2>4 DEF Row
  <2>6. QED
    BY <2>1, <2>3, <2>5
<1>5. Batch(w, p, C, token)
  BY <1>2, <1>3, <1>4 DEF Batch
<1>6. QED
  BY <1>1, <1>2, <1>3, <1>5
-----------------------------------------------------------------------------
(* Reports                                                                 *)

\* An article is closed exactly when its document has a verdict ...
DoneHasVerdict ==
  \A a \in Article : rows[a].state = "done" <=> rows[a].verdict # None

\* ... and a closed document keeps the token of the claim that closed it.
VerdictIsRows ==
  \A a \in Article : rows[a].state = "done" => rows[a].verdict.token = rows[a].token

\* Whoever holds the claim whose token a document carries is its owner, in
\* its phase.
TokenNamesClaim ==
  \A c \in claims : rows[c.article].token = c.token =>
    rows[c.article].owner = c.owner /\ rows[c.article].phase = c.phase

\* The inductive invariant behind reports.
ReportInv == FenceInv /\ DoneHasVerdict /\ VerdictIsRows /\ TokenNamesClaim

\* Imported articles have a verdict without a token, all others have none.
LEMMA ReportInit == Init => ReportInv
<1> SUFFICES ASSUME Init PROVE ReportInv
  OBVIOUS
<1>1. SeededRow.state = "ready" /\ SeededRow.verdict = None /\ SeededRow.token = None
  BY DEF SeededRow
<1>2. \A s \in Status, n \in Attempts :
        /\ ImportedRow(s, n).state = "done" /\ ImportedRow(s, n).verdict # None
        /\ ImportedRow(s, n).verdict.token = None /\ ImportedRow(s, n).token = None
  <2> SUFFICES ASSUME NEW s \in Status, NEW n \in Attempts
               PROVE  /\ ImportedRow(s, n).state = "done" /\ ImportedRow(s, n).verdict # None
                      /\ ImportedRow(s, n).verdict.token = None /\ ImportedRow(s, n).token = None
    OBVIOUS
  <2>1. /\ ImportedRow(s, n).state = "done" /\ ImportedRow(s, n).token = None
        /\ ImportedRow(s, n).verdict = [token |-> None, status |-> s, attempts |-> n]
    BY DEF ImportedRow, SeededRow
  <2>2. [token |-> None, status |-> s, attempts |-> n] # None
    BY NoneAssumption DEF Verdict
  <2>3. QED
    BY <2>1, <2>2
<1>3. \A a \in Article : rows[a] = SeededRow
                         \/ \E s \in Status, n \in Attempts : rows[a] = ImportedRow(s, n)
  BY DEF Init
<1>4. DoneHasVerdict /\ VerdictIsRows
  BY <1>1, <1>2, <1>3 DEF DoneHasVerdict, VerdictIsRows
<1>5. TokenNamesClaim
  BY DEF Init, TokenNamesClaim
<1>6. QED
  BY <1>4, <1>5, FenceInit DEF ReportInv

\* A quiet step keeps every document's report and every claim's identity.
LEMMA ReportQuiet ==
  ASSUME ReportInv, FenceInv', Quiet
  PROVE  ReportInv'
<1>1. \A c \in claims : c.article \in Article
  BY DEF ReportInv, FenceInv, TypeOK, Claim
<1>2. DoneHasVerdict' /\ VerdictIsRows'
  BY DEF ReportInv, DoneHasVerdict, VerdictIsRows, Quiet, AllKept, KeepsReport
<1>3. TokenNamesClaim'
  <2> SUFFICES ASSUME NEW d \in claims', rows'[d.article].token = d.token
               PROVE  rows'[d.article].owner = d.owner /\ rows'[d.article].phase = d.phase
    BY DEF TokenNamesClaim
  <2>1. PICK c \in claims : SameClaim(c, d)
    BY DEF Quiet, NoNewClaim
  <2>2. KeepsReport(rows[d.article], rows'[d.article])
    BY <1>1, <2>1 DEF Quiet, AllKept, SameClaim
  <2>3. QED
    BY <2>1, <2>2 DEF ReportInv, TokenNamesClaim, KeepsReport, SameClaim
<1>4. QED
  BY <1>2, <1>3 DEF ReportInv

\* Fresh tokens belong to no claim that exists.
LEMMA ReportClaim ==
  ASSUME ReportInv, FenceInv', NEW w \in Worker, NEW p \in Phase, NEW lag \in 0..Lag,
         NEW F \in Filters(p), ClaimBatch(w, p, F, lag)
  PROVE  ReportInv'
<1>0. TypeOK
  BY DEF ReportInv, FenceInv
<1>1a. PICK C \in SUBSET Article : \E token \in [C -> Token], D \in {C, {}} :
        /\ Batch(w, p, C, token)
        /\ claims' = claims \cup {NewClaim(w, p, lag, a, token[a]) : a \in D}
  BY <1>0, ClaimFields
<1>1. PICK token \in [C -> Token], D \in {C, {}} :
        /\ Batch(w, p, C, token)
        /\ claims' = claims \cup {NewClaim(w, p, lag, a, token[a]) : a \in D}
  BY <1>1a
<1>2. DoneHasVerdict' /\ VerdictIsRows'
  BY <1>1 DEF ReportInv, DoneHasVerdict, VerdictIsRows, Batch
<1>3. TokenNamesClaim'
  <2> SUFFICES ASSUME NEW d \in claims', rows'[d.article].token = d.token
               PROVE  rows'[d.article].owner = d.owner /\ rows'[d.article].phase = d.phase
    BY DEF TokenNamesClaim
  <2>1. CASE d \in claims
    <3>1. d.article \in Article /\ d.token \notin FreshTokens
      BY <1>0, <2>1 DEF TypeOK, Claim, FreshTokens
    <3>2. d.article \notin C
      BY <1>1, <3>1 DEF Batch
    <3>3. QED
      BY <1>1, <2>1, <3>1, <3>2 DEF ReportInv, TokenNamesClaim, Batch
  <2>2. CASE d \notin claims
    <3>1. PICK a \in C : d = NewClaim(w, p, lag, a, token[a])
      BY <1>1, <2>2
    <3>2. d.article = a /\ d.owner = w /\ d.phase = p
      BY <3>1 DEF NewClaim
    <3>3. QED
      BY <1>1, <3>1, <3>2 DEF Batch
  <2>3. QED
    BY <2>1, <2>2
<1>4. QED
  BY <1>2, <1>3 DEF ReportInv

\* The accepted claim is the one the document names.
LEMMA ReportComplete ==
  ASSUME ReportInv, FenceInv', NEW c \in claims, NEW lag \in 0..Lag, Complete(c, lag)
  PROVE  ReportInv'
<1> DEFINE v == [token |-> c.token, status |-> c.result.status, attempts |-> c.result.attempts]
<1>1. TypeOK /\ c \in Claim /\ claims' = claims
  BY DEF ReportInv, FenceInv, TypeOK, Complete
<1>2. /\ c.article \in Article /\ Owned(c) /\ c.result \in Terminal
      /\ rows'[c.article].state = "done" /\ rows'[c.article].phase = rows[c.article].phase
      /\ rows'[c.article].owner = rows[c.article].owner
      /\ rows'[c.article].token = rows[c.article].token
      /\ rows'[c.article].verdict = v
      /\ \A b \in Article \ {c.article} : rows'[b] = rows[b]
  BY <1>1, CompleteFields
<1>3. v # None /\ v.token = c.token
  BY <1>1, <1>2, NoneAssumption DEF Claim, Terminal, Verdict
<1> HIDE DEF v
<1>4. DoneHasVerdict'
  BY <1>2, <1>3 DEF ReportInv, DoneHasVerdict
<1>5. VerdictIsRows'
  BY <1>2, <1>3 DEF ReportInv, VerdictIsRows, Owned
<1>6. TokenNamesClaim'
  BY <1>1, <1>2 DEF ReportInv, TokenNamesClaim, TypeOK, Claim
<1>7. QED
  BY <1>4, <1>5, <1>6 DEF ReportInv

\* A handoff or release takes the token from the document.
LEMMA ReportReturn ==
  ASSUME ReportInv, FenceInv', NEW c \in claims,
         \/ \E delay \in RetryDelay, lag \in 0..Lag : Handoff(c, delay, lag)
         \/ Release(c)
  PROVE  ReportInv'
<1>1. TypeOK /\ claims' \subseteq claims /\ claims \subseteq Claim
  BY DEF ReportInv, FenceInv, TypeOK, Handoff, Release
<1>2. /\ c.article \in Article /\ Owned(c)
      /\ rows'[c.article].state = "ready" /\ rows'[c.article].token = None
      /\ rows'[c.article].verdict = rows[c.article].verdict
      /\ \A b \in Article \ {c.article} : rows'[b] = rows[b]
  <2>1. CASE \E delay \in RetryDelay, lag \in 0..Lag : Handoff(c, delay, lag)
    BY <1>1, <2>1, HandoffFields
  <2>2. CASE Release(c)
    BY <1>1, <2>2, ReleaseFields
  <2>3. QED
    BY <2>1, <2>2
<1>3. rows[c.article].state = "leased"
  BY <1>2 DEF Owned
<1>4. DoneHasVerdict' /\ VerdictIsRows'
  BY <1>2, <1>3 DEF ReportInv, DoneHasVerdict, VerdictIsRows
<1>5. \A d \in claims : d.token # None /\ d.article \in Article
  BY <1>1, NoneAssumption DEF Claim
<1>6. TokenNamesClaim'
  BY <1>1, <1>2, <1>5 DEF ReportInv, TokenNamesClaim
<1>7. QED
  BY <1>4, <1>6 DEF ReportInv

\* Which of the five kinds of step a step is.
LEMMA StepKinds ==
  ASSUME TypeOK, [Next]_vars
  PROVE  \/ Quiet
         \/ \E w \in Worker, p \in Phase, lag \in 0..Lag :
              \E F \in Filters(p) : ClaimBatch(w, p, F, lag)
         \/ \E c \in claims, lag \in 0..Lag : Complete(c, lag)
         \/ \E c \in claims, delay \in RetryDelay, lag \in 0..Lag : Handoff(c, delay, lag)
         \/ \E c \in claims : Release(c)
<1>1. CASE \/ \E st \in RunState, stop \in BOOLEAN : SetControl(st, stop)
           \/ \E c \in claims : Forget(c)
           \/ UNCHANGED vars
  BY <1>1, OthersQuiet
<1>2. CASE \E w \in Worker, lag \in 0..Lag : Heartbeat(w, lag)
  BY <1>2, HeartbeatQuiet
<1>3. CASE \E c \in claims : \E r \in Result : Fetch(c, r)
  BY <1>3, FetchQuiet
<1>4. CASE \E a \in Article : MarkExported(a, rows[a].verdict)
  BY <1>4, MarkQuiet
<1>5. CASE Tick
  BY <1>5, TickQuiet
<1>6. QED
  BY <1>1, <1>2, <1>3, <1>4, <1>5 DEF Next

\* Every operation preserves the report invariant.
LEMMA ReportStep == ReportInv /\ [Next]_vars => ReportInv'
<1> SUFFICES ASSUME ReportInv, [Next]_vars PROVE ReportInv'
  OBVIOUS
<1>1. FenceInv' /\ TypeOK
  BY FenceStep DEF ReportInv, FenceInv
<1>2. CASE Quiet
  BY <1>1, <1>2, ReportQuiet
<1>3. CASE \E w \in Worker, p \in Phase, lag \in 0..Lag :
             \E F \in Filters(p) : ClaimBatch(w, p, F, lag)
  BY <1>1, <1>3, ReportClaim
<1>4. CASE \E c \in claims, lag \in 0..Lag : Complete(c, lag)
  BY <1>1, <1>4, ReportComplete
<1>5. CASE \E c \in claims, delay \in RetryDelay, lag \in 0..Lag : Handoff(c, delay, lag)
  BY <1>1, <1>5, ReportReturn
<1>6. CASE \E c \in claims : Release(c)
  BY <1>1, <1>6, ReportReturn
<1>7. QED
  BY <1>1, <1>2, <1>3, <1>4, <1>5, <1>6, StepKinds

\* Whatever happened since, the process whose completion was accepted gets
\* TRUE when it repeats the call, and no other claim of that article does.
THEOREM RepetitionAgrees == Spec => []RepeatedCompletionAgrees
<1>1. ReportInv => RepeatedCompletionAgrees
  BY DEF ReportInv, VerdictIsRows, TokenNamesClaim, RepeatedCompletionAgrees,
         CompleteReply, FenceInv, TypeOK, Claim
<1>2. QED
  BY <1>1, ReportInit, ReportStep, PTL DEF Spec
-----------------------------------------------------------------------------
(* What reports do to a counter shard                                      *)

\* A shard with d more attempts booked.
Booked(n, d) == [n EXCEPT !.attempts = @ + d]

\* A completion from phase from, with d new attempts.
LEMMA ClosedShard ==
  ASSUME NEW n \in Counters, NEW o \in Outlet, NEW st \in Status, NEW from \in Phase,
         NEW d \in Int
  PROVE  LET x == Booked(TransitionPhase(IncrementStats(n, o, st), from, None), d)
         IN /\ x \in Counters
            /\ x.total = n.total /\ x.processed = n.processed + 1
            /\ x.counts = [n.counts EXCEPT ![st] = @ + 1]
            /\ \A q \in Outlet : /\ x.domains[q].total = n.domains[q].total
                                 /\ x.domains[q].processed
                                      = n.domains[q].processed + (IF q = o THEN 1 ELSE 0)
            /\ \A q \in RecoveryPhase :
                 x.remaining[q] = n.remaining[q] - (IF q = from THEN 1 ELSE 0)
            /\ x.attempts = n.attempts + d
<1> DEFINE m == IncrementStats(n, o, st)
           y == TransitionPhase(m, from, None)
<1>1. m \in Counters
  BY IncrementStatsType
<1>2. y \in Counters
  BY <1>1, TransitionPhaseType
<1>3. /\ m.total = n.total /\ m.processed = n.processed + 1
      /\ m.counts = [n.counts EXCEPT ![st] = @ + 1]
      /\ m.domains = [n.domains EXCEPT ![o].processed = @ + 1]
      /\ m.remaining = n.remaining /\ m.attempts = n.attempts
  BY DEF IncrementStats, Counters
<1>4. \A q \in Outlet : /\ m.domains[q].total = n.domains[q].total
                        /\ m.domains[q].processed
                             = n.domains[q].processed + (IF q = o THEN 1 ELSE 0)
  <2>1. n.domains \in [Outlet -> [total : Nat, processed : Nat]]
    BY DEF Counters
  <2>2. QED
    BY <1>3, <2>1
<1>5. /\ y.total = m.total /\ y.processed = m.processed /\ y.counts = m.counts
      /\ y.domains = m.domains /\ y.attempts = m.attempts
      /\ y.remaining = [q \in RecoveryPhase |->
           m.remaining[q] + (IF q = None THEN 1 ELSE 0) - (IF q = from THEN 1 ELSE 0)]
  <2> HIDE DEF m
  <2>1. QED
    BY <1>1 DEF TransitionPhase, Counters
<1>6. \A q \in RecoveryPhase : q # None
  BY NoneAssumption DEF RecoveryPhase, Phase
<1>7. \A q \in RecoveryPhase : n.remaining[q] \in Int
  BY DEF Counters
<1> HIDE DEF m, y
<1>8. \A q \in RecoveryPhase :
        y.remaining[q] = n.remaining[q] - (IF q = from THEN 1 ELSE 0)
  BY <1>3, <1>5, <1>6, <1>7
<1>9. QED
  BY <1>2, <1>3, <1>4, <1>5, <1>8 DEF Counters, Booked, m, y

\* A handoff from one phase to another, with d new attempts.
LEMMA MovedShard ==
  ASSUME NEW n \in Counters, NEW from \in Phase, NEW to \in Phase, NEW d \in Int
  PROVE  LET x == Booked(TransitionPhase(n, from, to), d)
         IN /\ x \in Counters
            /\ x.total = n.total /\ x.processed = n.processed
            /\ x.counts = n.counts /\ x.domains = n.domains
            /\ \A q \in RecoveryPhase :
                 x.remaining[q] = n.remaining[q] + (IF q = to THEN 1 ELSE 0)
                                                 - (IF q = from THEN 1 ELSE 0)
            /\ x.attempts = n.attempts + d
<1> DEFINE y == TransitionPhase(n, from, to)
<1>1. y \in Counters
  BY TransitionPhaseType
<1>2. /\ y.total = n.total /\ y.processed = n.processed /\ y.counts = n.counts
      /\ y.domains = n.domains /\ y.attempts = n.attempts
      /\ y.remaining = [q \in RecoveryPhase |->
           n.remaining[q] + (IF q = to THEN 1 ELSE 0) - (IF q = from THEN 1 ELSE 0)]
  BY DEF TransitionPhase, Counters
<1> HIDE DEF y
<1>3. QED
  BY <1>1, <1>2 DEF Counters, Booked, y

-----------------------------------------------------------------------------
(* Refinement of the ledger                                                *)

\* The abstract ledger's variables in terms of the documents.
LedgerHolder == [a \in Article |-> IF rows[a].state = "leased" THEN rows[a].token ELSE None]
LedgerVerdict ==
  [a \in Article |->
     IF rows[a].verdict = None THEN None
     ELSE [token |-> rows[a].verdict.token, status |-> rows[a].verdict.status]]
LedgerSpent == [a \in Article |-> RowAttempts(rows[a])]
LedgerBooks == [s \in Shard |-> [closed |-> stats[s].counts, attempts |-> stats[s].attempts]]

\* The attempts that the documents of a shard stand for are finitely many.
LEMMA TallyAttemptsType ==
  ASSUME NEW s \in Shard
  PROVE  Tally(s).attempts \in Nat
<1> DEFINE mine == {a \in Article : ShardOf[a] = s}
           paid == {e \in mine \X Attempts : e[2] < RowAttempts(rows[e[1]])}
<1>1. IsFiniteSet(mine) /\ IsFiniteSet(Attempts)
  BY LayoutAssumption, BoundAssumption, FS_Subset, FS_Interval DEF Attempts
<1>2. IsFiniteSet(mine \X Attempts)
  BY <1>1, FS_Product
<1>3. Cardinality(paid) \in Nat
  BY <1>2, FS_Subset, FS_CardinalityType
<1>4. Tally(s).attempts = Cardinality(paid)
  BY DEF Tally
<1>5. QED
  BY <1>3, <1>4

\* A document's cumulative attempts are a bounded number.
LEMMA RowAttemptsType ==
  ASSUME TypeOK, DoneHasVerdict, NEW a \in Article
  PROVE  RowAttempts(rows[a]) \in Attempts
<1>1. rows[a] \in Row
  BY DEF TypeOK
<1>2. CASE rows[a].state = "done"
  <2>1. rows[a].verdict \in Verdict
    BY <1>1, <1>2 DEF DoneHasVerdict, Row
  <2>2. QED
    BY <1>2, <2>1 DEF RowAttempts, Verdict
<1>3. CASE rows[a].state # "done"
  BY <1>1, <1>3 DEF RowAttempts, Row
<1>4. QED
  BY <1>2, <1>3

\* The initial documents are an initial ledger.
LEMMA LedgerInit == Init => Ledger!Init
<1> SUFFICES ASSUME Init PROVE Ledger!Init
  OBVIOUS
<1>1. ReportInv /\ TypeOK
  BY ReportInit DEF ReportInv, FenceInv
<1>2. \A a \in Article : rows[a] = SeededRow
                         \/ \E s \in Status, n \in Attempts : rows[a] = ImportedRow(s, n)
  BY DEF Init
<1>3. LedgerHolder = [a \in Article |-> None]
  <2>1. SeededRow.state = "ready"
    BY DEF SeededRow
  <2>2. \A s \in Status, n \in Attempts : ImportedRow(s, n).state = "done"
    BY DEF ImportedRow, SeededRow
  <2>3. QED
    BY <1>2, <2>1, <2>2 DEF LedgerHolder
<1>4. LedgerVerdict \in [Article -> [token : {None}, status : Status] \cup {None}]
  <2> SUFFICES ASSUME NEW a \in Article
               PROVE  LedgerVerdict[a] \in [token : {None}, status : Status] \cup {None}
    BY DEF LedgerVerdict
  <2>1. CASE rows[a] = SeededRow
    BY <2>1 DEF SeededRow, LedgerVerdict
  <2>2. CASE \E s \in Status, n \in Attempts : rows[a] = ImportedRow(s, n)
    <3>1. PICK s \in Status, n \in Attempts : rows[a] = ImportedRow(s, n)
      BY <2>2
    <3>2. rows[a].verdict = [token |-> None, status |-> s, attempts |-> n]
      BY <3>1 DEF ImportedRow, SeededRow
    <3>3. QED
      BY <3>2 DEF LedgerVerdict
  <2>3. QED
    BY <1>2, <2>1, <2>2
<1>5. LedgerSpent \in [Article -> Nat]
  BY <1>1, RowAttemptsType, BoundAssumption DEF LedgerSpent, ReportInv, Attempts
<1>6. LedgerBooks \in [Shard -> [closed : [Status -> Nat], attempts : Nat]]
  <2>1. \A s \in Shard : stats[s] \in Counters /\ stats[s].attempts \in Nat
    BY <1>1, TallyAttemptsType DEF Init, TypeOK
  <2>2. QED
    BY <2>1 DEF LedgerBooks, Counters
<1>7. QED
  BY <1>3, <1>4, <1>5, <1>6
     DEF Ledger!Init, LedgerHolder, LedgerVerdict, LedgerSpent, LedgerBooks

\* Quiet steps leave the ledger alone.
LEMMA LedgerQuiet ==
  ASSUME Quiet
  PROVE  UNCHANGED <<LedgerHolder, LedgerVerdict, LedgerSpent, LedgerBooks>>
BY DEF Quiet, AllKept, KeepsReport, LedgerHolder, LedgerVerdict, LedgerSpent, LedgerBooks,
       RowAttempts

\* A batch lends its articles.
LEMMA LedgerLend ==
  ASSUME ReportInv, NEW w \in Worker, NEW p \in Phase, NEW lag \in 0..Lag,
         NEW F \in Filters(p), ClaimBatch(w, p, F, lag)
  PROVE  \E A \in SUBSET Article : \E loan \in [A -> Token] : Ledger!Lend(A, loan)
<1>0. TypeOK
  BY DEF ReportInv, FenceInv
<1>1. PICK C \in SUBSET Article : \E token \in [C -> Token] : Batch(w, p, C, token)
  BY <1>0, ClaimFields
<1>2. PICK token \in [C -> Token] : Batch(w, p, C, token)
  BY <1>1
<1>3. \A a \in C : LedgerVerdict[a] = None
  BY <1>2 DEF Batch, ReportInv, DoneHasVerdict, LedgerVerdict
<1>4. \A a \in C, b \in Article : LedgerHolder[b] # token[a]
  BY <1>2, NoneAssumption DEF Batch, FreshTokens, LedgerHolder
<1>5. LedgerHolder' = [a \in Article |-> IF a \in C THEN token[a] ELSE LedgerHolder[a]]
  BY <1>2 DEF Batch, LedgerHolder
<1>6. LedgerVerdict' = LedgerVerdict
  BY <1>2 DEF Batch, LedgerVerdict
<1>7. LedgerSpent' = LedgerSpent
  BY <1>2 DEF Batch, LedgerSpent, RowAttempts
<1>8. LedgerBooks' = LedgerBooks
  BY DEF ClaimBatch, LedgerBooks
<1>9. Ledger!Lend(C, token)
  BY <1>2, <1>3, <1>4, <1>5, <1>6, <1>7, <1>8
     DEF Ledger!Lend, Batch, LedgerHolder, LedgerVerdict, LedgerSpent, LedgerBooks
<1>10. QED
  BY <1>9

\* A completion closes the article under the present loan.
LEMMA LedgerClose ==
  ASSUME ReportInv, NEW c \in claims, NEW lag \in 0..Lag, Complete(c, lag)
  PROVE  \E a \in Article, s \in Status : \E n \in Attempts : Ledger!Close(a, s, n)
<1> DEFINE a == c.article
           st == c.result.status
           k == c.result.attempts
           s == ShardOf[a]
           d == MetricDelta(rows[a], k)
<1>0. TypeOK /\ c \in Claim
  BY DEF ReportInv, FenceInv, TypeOK
<1>1. /\ a \in Article /\ Owned(c) /\ c.result \in Terminal
      /\ rows'[a].state = "done" /\ rows'[a].accounted = rows[a].accounted
      /\ rows'[a].verdict = [token |-> c.token, status |-> st, attempts |-> k]
      /\ \A b \in Article \ {a} : rows'[b] = rows[b]
  BY <1>0, CompleteFields
<1>2. /\ st \in Status /\ k \in Attempts /\ c.token \in Token /\ c.phase \in Phase
      /\ s \in Shard /\ OutletOf[a] \in Outlet
  BY <1>0, <1>1, LayoutAssumption DEF Terminal, Claim
<1>3. rows[a].state = "leased" /\ rows[a].token = c.token /\ rows[a] \in Row
  BY <1>0, <1>1 DEF Owned, TypeOK
<1>4. d = k - LedgerSpent[a] /\ k >= LedgerSpent[a] /\ LedgerSpent[a] \in Int
  <2>1. LedgerSpent[a] = rows[a].accounted
    BY <1>1, <1>3 DEF LedgerSpent, RowAttempts
  <2>2. d >= 0
    BY DEF Complete
  <2>3. rows[a].accounted \in Int /\ k \in Int
    BY <1>2, <1>3, BoundAssumption DEF Row, Attempts
  <2>4. QED
    BY <2>1, <2>2, <2>3 DEF MetricDelta
<1>5. LedgerHolder[a] = c.token /\ c.token # None /\ LedgerVerdict[a] = None
  BY <1>1, <1>2, <1>3, NoneAssumption DEF LedgerHolder, LedgerVerdict, ReportInv, DoneHasVerdict
<1>6. LedgerHolder' = [LedgerHolder EXCEPT ![a] = None]
  BY <1>1 DEF LedgerHolder
<1>7. LedgerVerdict' = [LedgerVerdict EXCEPT ![a] = [token |-> LedgerHolder[a], status |-> st]]
  <2>1. rows'[a].verdict # None
    BY <1>1, <1>2, NoneAssumption DEF Verdict
  <2>2. LedgerVerdict'[a] = [token |-> c.token, status |-> st]
    BY <1>1, <2>1 DEF LedgerVerdict
  <2>3. \A b \in Article \ {a} : LedgerVerdict'[b] = LedgerVerdict[b]
    BY <1>1 DEF LedgerVerdict
  <2>4. QED
    BY <1>1, <1>5, <2>2, <2>3 DEF LedgerVerdict
<1>8. LedgerSpent' = [LedgerSpent EXCEPT ![a] = k]
  <2>1. LedgerSpent'[a] = k
    BY <1>1 DEF LedgerSpent, RowAttempts
  <2>2. \A b \in Article \ {a} : LedgerSpent'[b] = LedgerSpent[b]
    BY <1>1 DEF LedgerSpent
  <2>3. QED
    BY <1>1, <2>1, <2>2 DEF LedgerSpent
<1>9. LedgerBooks' = [LedgerBooks EXCEPT ![s].attempts = @ + (k - LedgerSpent[a]),
                                        ![s].closed[st] = @ + 1]
  <2> DEFINE x == Booked(TransitionPhase(IncrementStats(stats[s], OutletOf[a], st),
                                         c.phase, None), d)
  <2>1. stats \in [Shard -> Counters] /\ d \in Int
    BY <1>0, <1>2, <1>4, BoundAssumption DEF TypeOK, Attempts
  <2>2. stats' = [stats EXCEPT ![s] = x]
    BY DEF Complete, Booked
  <2>3. x.counts = [stats[s].counts EXCEPT ![st] = @ + 1] /\ x.attempts = stats[s].attempts + d
    <3> HIDE DEF d, s, st
    <3>1. stats[s] \in Counters
      BY <1>2, <2>1
    <3>2. QED
      BY <1>2, <2>1, <3>1, ClosedShard
  <2> HIDE DEF x, d, s
  <2>4. \A q \in Shard : LedgerBooks'[q] = IF q = s THEN [closed |-> x.counts, attempts |-> x.attempts]
                                                    ELSE LedgerBooks[q]
    BY <1>2, <2>1, <2>2 DEF LedgerBooks
  <2>5. LedgerBooks[s] = [closed |-> stats[s].counts, attempts |-> stats[s].attempts]
    BY <1>2 DEF LedgerBooks
  <2>6. [LedgerBooks EXCEPT ![s].attempts = @ + (k - LedgerSpent[a]), ![s].closed[st] = @ + 1]
          = [q \in Shard |-> IF q = s THEN [closed |-> x.counts, attempts |-> x.attempts]
                                      ELSE LedgerBooks[q]]
    <3> DEFINE b == [LedgerBooks EXCEPT ![s].attempts = @ + (k - LedgerSpent[a])]
    <3>1. LedgerBooks \in [Shard -> [closed : [Status -> Nat], attempts : Int]]
      BY <2>1 DEF LedgerBooks, Counters
    <3>2. /\ b[s] = [closed |-> stats[s].counts, attempts |-> x.attempts]
          /\ b = [q \in Shard |-> IF q = s THEN b[s] ELSE LedgerBooks[q]]
      <4> DEFINE e == k - LedgerSpent[a]
      <4>1. x.attempts = stats[s].attempts + e
        BY <1>4, <2>3
      <4> HIDE DEF e
      <4>2. [LedgerBooks[s] EXCEPT !.attempts = @ + e]
              = [closed |-> stats[s].counts, attempts |-> x.attempts]
        BY <2>5, <4>1
      <4>3. b = [q \in Shard |-> IF q = s THEN [LedgerBooks[s] EXCEPT !.attempts = @ + e]
                                          ELSE LedgerBooks[q]]
        BY <1>2, <3>1 DEF e
      <4>4. QED
        BY <1>2, <4>2, <4>3
    <3>3. [b[s] EXCEPT !.closed[st] = @ + 1] = [closed |-> x.counts, attempts |-> x.attempts]
      BY <2>3, <3>2
    <3> HIDE DEF b
    <3>4. [b EXCEPT ![s].closed[st] = @ + 1]
            = [q \in Shard |-> IF q = s THEN [b[s] EXCEPT !.closed[st] = @ + 1] ELSE LedgerBooks[q]]
      BY <1>2, <3>2
    <3>5. QED
      BY <3>3, <3>4 DEF b
  <2>7. QED
    BY <2>4, <2>6 DEF LedgerBooks
<1>10. Ledger!Close(a, st, k)
  BY <1>4, <1>5, <1>6, <1>7, <1>8, <1>9
     DEF Ledger!Close, LedgerHolder, LedgerVerdict, LedgerSpent, LedgerBooks
<1>11. QED
  BY <1>1, <1>2, <1>10

\* A handoff reports progress under the present loan.
LEMMA LedgerProgress ==
  ASSUME ReportInv, NEW c \in claims, NEW delay \in RetryDelay, NEW lag \in 0..Lag,
         Handoff(c, delay, lag)
  PROVE  \E a \in Article : \E n \in Attempts : Ledger!Progress(a, n)
<1> DEFINE a == c.article
           k == c.result.attempts
           s == ShardOf[a]
           d == MetricDelta(rows[a], k)
<1>0. TypeOK /\ c \in Claim
  BY DEF ReportInv, FenceInv, TypeOK
<1>1. /\ a \in Article /\ Owned(c) /\ c.result \in Queued
      /\ rows'[a].state = "ready" /\ rows'[a].accounted = k
      /\ rows'[a].verdict = rows[a].verdict
      /\ \A b \in Article \ {a} : rows'[b] = rows[b]
  BY <1>0, HandoffFields
<1>2. /\ k \in Attempts /\ c.token \in Token /\ c.phase \in Phase /\ c.result.next \in Phase
      /\ s \in Shard
  BY <1>0, <1>1, LayoutAssumption DEF Queued, Claim, Phase
<1>3. rows[a].state = "leased" /\ rows[a].token = c.token /\ rows[a] \in Row
  BY <1>0, <1>1 DEF Owned, TypeOK
<1>4. d = k - LedgerSpent[a] /\ k >= LedgerSpent[a] /\ LedgerSpent[a] \in Int
  <2>1. LedgerSpent[a] = rows[a].accounted
    BY <1>1, <1>3 DEF LedgerSpent, RowAttempts
  <2>2. d >= 0
    BY DEF Handoff
  <2>3. rows[a].accounted \in Int /\ k \in Int
    BY <1>2, <1>3, BoundAssumption DEF Row, Attempts
  <2>4. QED
    BY <2>1, <2>2, <2>3 DEF MetricDelta
<1>5. LedgerHolder[a] = c.token /\ c.token # None
  BY <1>1, <1>2, <1>3, NoneAssumption DEF LedgerHolder
<1>6. LedgerHolder' = [LedgerHolder EXCEPT ![a] = None]
  BY <1>1 DEF LedgerHolder
<1>7. LedgerVerdict' = LedgerVerdict
  BY <1>1 DEF LedgerVerdict
<1>8. LedgerSpent' = [LedgerSpent EXCEPT ![a] = k]
  BY <1>1 DEF LedgerSpent, RowAttempts
<1>9. LedgerBooks' = [LedgerBooks EXCEPT ![s].attempts = @ + (k - LedgerSpent[a])]
  <2> DEFINE x == Booked(TransitionPhase(stats[s], c.phase, c.result.next), d)
  <2>1. stats \in [Shard -> Counters] /\ d \in Int
    BY <1>0, <1>2, <1>4, BoundAssumption DEF TypeOK, Attempts
  <2>2. stats' = [stats EXCEPT ![s] = x]
    BY DEF Handoff, Booked
  <2>3. x.counts = stats[s].counts /\ x.attempts = stats[s].attempts + d
    <3> HIDE DEF d, s
    <3>1. stats[s] \in Counters
      BY <1>2, <2>1
    <3>2. QED
      BY <1>2, <2>1, <3>1, MovedShard
  <2> HIDE DEF x, d, s
  <2>4. QED
    BY <1>2, <1>4, <2>1, <2>2, <2>3 DEF LedgerBooks
<1>10. Ledger!Progress(a, k)
  BY <1>4, <1>5, <1>6, <1>7, <1>8, <1>9
     DEF Ledger!Progress, LedgerHolder, LedgerVerdict, LedgerSpent, LedgerBooks
<1>11. QED
  BY <1>1, <1>2, <1>10

\* A release returns the loan.
LEMMA LedgerReturn ==
  ASSUME ReportInv, NEW c \in claims, Release(c)
  PROVE  \E a \in Article : Ledger!Return(a)
<1> DEFINE a == c.article
<1>0. TypeOK /\ c \in Claim /\ stats' = stats
  BY DEF ReportInv, FenceInv, TypeOK, Release
<1>1. /\ a \in Article /\ Owned(c)
      /\ rows'[a].state = "ready" /\ rows'[a].accounted = rows[a].accounted
      /\ rows'[a].verdict = rows[a].verdict
      /\ \A b \in Article \ {a} : rows'[b] = rows[b]
  BY <1>0, ReleaseFields
<1>2. rows[a].state = "leased" /\ LedgerHolder[a] # None
  BY <1>0, <1>1, NoneAssumption DEF Owned, LedgerHolder, Claim
<1>3. LedgerHolder' = [LedgerHolder EXCEPT ![a] = None]
  BY <1>1 DEF LedgerHolder
<1>4. LedgerVerdict' = LedgerVerdict /\ LedgerSpent' = LedgerSpent /\ LedgerBooks' = LedgerBooks
  BY <1>0, <1>1, <1>2 DEF LedgerVerdict, LedgerSpent, LedgerBooks, RowAttempts
<1>5. Ledger!Return(a)
  BY <1>2, <1>3, <1>4
     DEF Ledger!Return, LedgerHolder, LedgerVerdict, LedgerSpent, LedgerBooks
<1>6. QED
  BY <1>1, <1>5

\* Every step of the queue is a step of the ledger, or none.
LEMMA LedgerStep == ReportInv /\ [Next]_vars => [Ledger!Next]_(Ledger!ledgerVars)
<1> SUFFICES ASSUME ReportInv, [Next]_vars PROVE [Ledger!Next]_(Ledger!ledgerVars)
  OBVIOUS
<1>1. TypeOK
  BY DEF ReportInv, FenceInv
<1>2. CASE Quiet
  BY <1>2, LedgerQuiet
     DEF Ledger!ledgerVars, LedgerHolder, LedgerVerdict, LedgerSpent, LedgerBooks
<1>3. CASE \E w \in Worker, p \in Phase, lag \in 0..Lag :
             \E F \in Filters(p) : ClaimBatch(w, p, F, lag)
  BY <1>3, LedgerLend DEF Ledger!Next
<1>4. CASE \E c \in claims, lag \in 0..Lag : Complete(c, lag)
  BY <1>4, LedgerClose DEF Ledger!Next
<1>5. CASE \E c \in claims, delay \in RetryDelay, lag \in 0..Lag : Handoff(c, delay, lag)
  BY <1>5, LedgerProgress DEF Ledger!Next
<1>6. CASE \E c \in claims : Release(c)
  BY <1>6, LedgerReturn DEF Ledger!Next
<1>7. QED
  BY <1>1, <1>2, <1>3, <1>4, <1>5, <1>6, StepKinds

\* The queue implements the ledger: reports come from the present loan only,
\* an article is closed once, and each report is booked once.
THEOREM LedgerImplemented == Spec => ImplementsLedger
BY LedgerInit, LedgerStep, ReportInit, ReportStep, PTL DEF Spec, ImplementsLedger, Ledger!Spec
-----------------------------------------------------------------------------
(* Counting                                                                *)

\* One element more, one element less.
LEMMA OneMore ==
  ASSUME NEW S, IsFiniteSet(S), NEW x, x \notin S, NEW T, T = S \cup {x}
  PROVE  Cardinality(T) = Cardinality(S) + 1
BY FS_AddElement

LEMMA OneLess ==
  ASSUME NEW S, IsFiniteSet(S), NEW x, x \in S, NEW T, T = S \ {x}
  PROVE  Cardinality(T) = Cardinality(S) - 1
BY FS_RemoveElement

\* Raising the attempts of one article from m to n adds n - m paid ordinals.
LEMMA PaidGrows ==
  ASSUME NEW M, IsFiniteSet(M), NEW a \in M,
         NEW f \in [M -> Attempts], NEW g \in [M -> Attempts],
         \A b \in M \ {a} : g[b] = f[b], f[a] <= g[a]
  PROVE  Cardinality({e \in M \X Attempts : e[2] < g[e[1]]})
           = Cardinality({e \in M \X Attempts : e[2] < f[e[1]]}) + (g[a] - f[a])
<1> DEFINE old == {e \in M \X Attempts : e[2] < f[e[1]]}
           new == {e \in M \X Attempts : e[2] < g[e[1]]}
           more == {a} \X (f[a]..(g[a] - 1))
<1>1. f[a] \in Nat /\ g[a] \in Nat /\ f[a] <= MaxAttempts /\ g[a] <= MaxAttempts
      /\ MaxAttempts \in Nat
  BY BoundAssumption DEF Attempts
<1>2. IsFiniteSet(M \X Attempts)
  <2>1. IsFiniteSet(Attempts)
    BY FS_Interval, BoundAssumption DEF Attempts
  <2>2. QED
    BY <2>1, FS_Product
<1>3. IsFiniteSet(old)
  BY <1>2, FS_Subset
<1>4. /\ IsFiniteSet(f[a]..(g[a] - 1))
      /\ Cardinality(f[a]..(g[a] - 1)) = g[a] - f[a]
  <2>1. f[a] \in Int /\ g[a] - 1 \in Int
    BY <1>1
  <2>2. /\ IsFiniteSet(f[a]..(g[a] - 1))
        /\ Cardinality(f[a]..(g[a] - 1))
             = IF f[a] > g[a] - 1 THEN 0 ELSE (g[a] - 1) - f[a] + 1
    BY <2>1, FS_Interval
  <2>3. QED
    BY <1>1, <2>2
<1>5. IsFiniteSet(more) /\ Cardinality(more) = g[a] - f[a]
  <2>1. IsFiniteSet({a}) /\ Cardinality({a}) = 1
    BY FS_Singleton
  <2>2. /\ IsFiniteSet(more)
        /\ Cardinality(more) = Cardinality({a}) * Cardinality(f[a]..(g[a] - 1))
    BY <1>4, <2>1, FS_Product
  <2>3. QED
    BY <1>1, <1>4, <2>1, <2>2
<1>6. new = old \cup more
  <2>1. ASSUME NEW e \in new PROVE e \in old \cup more
    <3>1. e \in M \X Attempts /\ e[2] < g[e[1]] /\ e = <<e[1], e[2]>>
      BY <2>1
    <3>2. CASE e[1] = a /\ ~(e[2] < f[a])
      <4>1. e[2] \in f[a]..(g[a] - 1)
        BY <1>1, <3>1, <3>2 DEF Attempts
      <4>2. QED
        BY <3>1, <3>2, <4>1
    <3>3. CASE e[1] = a /\ e[2] < f[a]
      BY <3>1, <3>3
    <3>4. CASE e[1] # a
      BY <3>1, <3>4
    <3>5. QED
      BY <3>2, <3>3, <3>4
  <2>2. ASSUME NEW e \in old PROVE e \in new
    <3>1. e \in M \X Attempts /\ e[2] < f[e[1]]
      BY <2>2
    <3>2. CASE e[1] = a
      BY <1>1, <3>1, <3>2 DEF Attempts
    <3>3. CASE e[1] # a
      BY <3>1, <3>3
    <3>4. QED
      BY <3>2, <3>3
  <2>3. ASSUME NEW e \in more PROVE e \in new
    BY <1>1, <2>3 DEF Attempts
  <2>4. QED
    BY <2>1, <2>2, <2>3
<1>7. old \cap more = {}
  BY <1>1
<1> HIDE DEF old, new, more
<1>8. Cardinality(new) = Cardinality(old) + Cardinality(more) - Cardinality({})
  BY <1>3, <1>5, <1>6, <1>7, FS_Union
<1>9. Cardinality(old) \in Nat
  BY <1>3, FS_CardinalityType
<1>10. QED
  BY <1>1, <1>5, <1>8, <1>9, FS_EmptySet DEF old, new

-----------------------------------------------------------------------------
(* Counters                                                                *)

\* The sets a recount of shard s counts.
Mine(s) == {a \in Article : ShardOf[a] = s}
Closed(s) == {a \in Mine(s) : rows[a].state = "done"}
ClosedAs(s, st) == {a \in Closed(s) : rows[a].verdict.status = st}
Waiting(s, p) == {a \in Mine(s) \ Closed(s) : rows[a].phase = p}
Paid(s) == {e \in Mine(s) \X Attempts : e[2] < RowAttempts(rows[e[1]])}
From(o, A) == {a \in A : OutletOf[a] = o}

\* The fields of a recount ...
LEMMA TallyFields ==
  ASSUME NEW s \in Shard
  PROVE  /\ Tally(s).total = Cardinality(Mine(s))
         /\ Tally(s).processed = Cardinality(Closed(s))
         /\ \A st \in Status : Tally(s).counts[st] = Cardinality(ClosedAs(s, st))
         /\ \A o \in Outlet : /\ Tally(s).domains[o].total = Cardinality(From(o, Mine(s)))
                              /\ Tally(s).domains[o].processed = Cardinality(From(o, Closed(s)))
         /\ \A p \in RecoveryPhase : Tally(s).remaining[p] = Cardinality(Waiting(s, p))
         /\ Tally(s).attempts = Cardinality(Paid(s))
BY DEF Tally, Mine, Closed, ClosedAs, Waiting, Paid, From

\* ... and the counters that equal the recount after a step.
LEMMA TallyNext ==
  ASSUME NEW s \in Shard, NEW x \in Counters,
         x.total = Cardinality(Mine(s)), x.processed = Cardinality(Closed(s)'),
         \A st \in Status : x.counts[st] = Cardinality(ClosedAs(s, st)'),
         \A o \in Outlet : /\ x.domains[o].total = Cardinality(From(o, Mine(s)))
                           /\ x.domains[o].processed = Cardinality(From(o, Closed(s)')),
         \A p \in RecoveryPhase : x.remaining[p] = Cardinality(Waiting(s, p)'),
         x.attempts = Cardinality(Paid(s)')
  PROVE  Tally(s)' = x
<1> DEFINE counts == [st \in Status |-> Cardinality(ClosedAs(s, st)')]
           domains == [o \in Outlet |-> [total |-> Cardinality(From(o, Mine(s))),
                                         processed |-> Cardinality(From(o, Closed(s)'))]]
           remaining == [p \in RecoveryPhase |-> Cardinality(Waiting(s, p)')]
<1>1. Tally(s)' = [total |-> Cardinality(Mine(s)), processed |-> Cardinality(Closed(s)'),
                   counts |-> counts, domains |-> domains, remaining |-> remaining,
                   attempts |-> Cardinality(Paid(s)')]
  BY DEF Tally, Mine, Closed, ClosedAs, Waiting, Paid, From
<1>2. x.counts = counts
  BY DEF Counters
<1>3. x.domains = domains
  <2>1. x.domains \in [Outlet -> [total : Nat, processed : Nat]]
    BY DEF Counters
  <2>2. \A o \in Outlet : x.domains[o] = [total |-> x.domains[o].total,
                                          processed |-> x.domains[o].processed]
    BY <2>1
  <2>3. QED
    BY <2>1, <2>2
<1>4. x.remaining = remaining
  BY DEF Counters
<1>5. x = [total |-> x.total, processed |-> x.processed, counts |-> x.counts,
           domains |-> x.domains, remaining |-> x.remaining, attempts |-> x.attempts]
  BY DEF Counters
<1> HIDE DEF counts, domains, remaining
<1>6. QED
  BY <1>1, <1>2, <1>3, <1>4, <1>5

\* Everything a recount counts is finite.
LEMMA FiniteShard ==
  ASSUME NEW s \in Shard
  PROVE  /\ IsFiniteSet(Mine(s)) /\ IsFiniteSet(Closed(s))
         /\ \A st \in Status : IsFiniteSet(ClosedAs(s, st))
         /\ \A p \in RecoveryPhase : IsFiniteSet(Waiting(s, p))
         /\ \A o \in Outlet : IsFiniteSet(From(o, Closed(s)))
<1>1. IsFiniteSet(Mine(s))
  BY LayoutAssumption, FS_Subset DEF Mine
<1>2. IsFiniteSet(Closed(s))
  BY <1>1, FS_Subset DEF Closed
<1>3. \A st \in Status : IsFiniteSet(ClosedAs(s, st))
  BY <1>2, FS_Subset DEF ClosedAs
<1>4. \A p \in RecoveryPhase : IsFiniteSet(Waiting(s, p))
  BY <1>1, FS_Subset DEF Waiting
<1>5. \A o \in Outlet : IsFiniteSet(From(o, Closed(s)))
  BY <1>2, FS_Subset DEF From
<1>6. QED
  BY <1>1, <1>2, <1>3, <1>4, <1>5

\* A step that keeps what a recount sees of a shard's documents keeps it.
LEMMA TallyKept ==
  ASSUME NEW s \in Shard,
         \A a \in Mine(s) :
           /\ rows'[a].state = "done" <=> rows[a].state = "done"
           /\ rows'[a].verdict = rows[a].verdict
           /\ rows[a].state # "done" => rows'[a].phase = rows[a].phase
           /\ RowAttempts(rows'[a]) = RowAttempts(rows[a])
  PROVE  Tally(s)' = Tally(s)
<1>1. Closed(s)' = Closed(s)
  BY DEF Closed, Mine
<1>2. \A st \in Status : ClosedAs(s, st)' = ClosedAs(s, st)
  BY <1>1 DEF ClosedAs, Closed
<1>3. \A p \in RecoveryPhase : Waiting(s, p)' = Waiting(s, p)
  BY <1>1 DEF Waiting, Closed, Mine
<1>4. Paid(s)' = Paid(s)
  BY DEF Paid, Mine
<1>5. \A t : Tally(t) = [total |-> Cardinality(Mine(t)), processed |-> Cardinality(Closed(t)),
          counts |-> [st \in Status |-> Cardinality(ClosedAs(t, st))],
          domains |-> [o \in Outlet |-> [total |-> Cardinality(From(o, Mine(t))),
                                         processed |-> Cardinality(From(o, Closed(t)))]],
          remaining |-> [p \in RecoveryPhase |-> Cardinality(Waiting(t, p))],
          attempts |-> Cardinality(Paid(t))]
  BY DEF Tally, Mine, Closed, ClosedAs, Waiting, Paid, From
<1>6. Tally(s)' = [total |-> Cardinality(Mine(s)), processed |-> Cardinality(Closed(s)'),
          counts |-> [st \in Status |-> Cardinality(ClosedAs(s, st)')],
          domains |-> [o \in Outlet |-> [total |-> Cardinality(From(o, Mine(s))),
                                         processed |-> Cardinality(From(o, Closed(s)'))]],
          remaining |-> [p \in RecoveryPhase |-> Cardinality(Waiting(s, p)')],
          attempts |-> Cardinality(Paid(s)')]
  BY DEF Tally, Mine, Closed, ClosedAs, Waiting, Paid, From
<1>7. QED
  BY <1>1, <1>2, <1>3, <1>4, <1>5, <1>6

\* One article's report changes the paid attempts of its shard by their increase.
LEMMA PaidNext ==
  ASSUME TypeOK, DoneHasVerdict, TypeOK', DoneHasVerdict', NEW a \in Article, NEW s \in Shard,
         s = ShardOf[a], RowAttempts(rows[a]) <= RowAttempts(rows'[a]),
         \A b \in Article \ {a} : rows'[b] = rows[b]
  PROVE  Cardinality(Paid(s)') = Cardinality(Paid(s))
                                   + (RowAttempts(rows'[a]) - RowAttempts(rows[a]))
<1> DEFINE f == [b \in Mine(s) |-> RowAttempts(rows[b])]
           g == [b \in Mine(s) |-> RowAttempts(rows'[b])]
<1>1. \A b \in Article : RowAttempts(rows[b]) \in Attempts
  BY RowAttemptsType
<1>2. \A b \in Article : RowAttempts(rows'[b]) \in Attempts
  <2> SUFFICES ASSUME NEW b \in Article PROVE RowAttempts(rows'[b]) \in Attempts
    OBVIOUS
  <2>1. rows'[b] \in Row
    BY DEF TypeOK
  <2>2. CASE rows'[b].state = "done"
    <3>1. rows'[b].verdict \in Verdict
      BY <2>1, <2>2 DEF DoneHasVerdict, Row
    <3>2. QED
      BY <2>2, <3>1 DEF RowAttempts, Verdict
  <2>3. CASE rows'[b].state # "done"
    BY <2>1, <2>3 DEF RowAttempts, Row
  <2>4. QED
    BY <2>2, <2>3
<1>3. a \in Mine(s) /\ Mine(s) \subseteq Article /\ IsFiniteSet(Mine(s))
  BY FiniteShard DEF Mine
<1>4. /\ f \in [Mine(s) -> Attempts] /\ g \in [Mine(s) -> Attempts]
      /\ \A b \in Mine(s) \ {a} : g[b] = f[b]
      /\ f[a] = RowAttempts(rows[a]) /\ g[a] = RowAttempts(rows'[a])
  BY <1>1, <1>2, <1>3
<1>5. Paid(s) = {e \in Mine(s) \X Attempts : e[2] < f[e[1]]}
  BY DEF Paid
<1>6. Paid(s)' = {e \in Mine(s) \X Attempts : e[2] < g[e[1]]}
  BY DEF Paid, Mine
<1> HIDE DEF f, g
<1>7. Cardinality({e \in Mine(s) \X Attempts : e[2] < g[e[1]]})
        = Cardinality({e \in Mine(s) \X Attempts : e[2] < f[e[1]]}) + (g[a] - f[a])
  BY <1>3, <1>4, PaidGrows
<1>8. QED
  BY <1>4, <1>5, <1>6, <1>7
\* The inductive invariant behind the counters.
CountInv == ReportInv /\ CountersMatchRows

\* Steps that change no report, and loans that start or are returned.
LEMMA CountKept ==
  ASSUME CountInv, stats' = stats,
         \A a \in Article :
           /\ rows'[a].state = "done" <=> rows[a].state = "done"
           /\ rows'[a].verdict = rows[a].verdict
           /\ rows[a].state # "done" => rows'[a].phase = rows[a].phase
           /\ RowAttempts(rows'[a]) = RowAttempts(rows[a])
  PROVE  CountersMatchRows'
<1> SUFFICES ASSUME NEW s \in Shard PROVE stats'[s] = Tally(s)'
  BY DEF CountersMatchRows
<1>1. Tally(s)' = Tally(s)
  BY TallyKept DEF Mine
<1>2. QED
  BY <1>1 DEF CountInv, CountersMatchRows

\* A completion is counted once: in the total, under its status, under its
\* outlet, out of its phase, and with its new attempts.
LEMMA CountComplete ==
  ASSUME CountInv, ReportInv', NEW c \in claims, NEW lag \in 0..Lag, Complete(c, lag)
  PROVE  CountersMatchRows'
<1> DEFINE a == c.article
           st == c.result.status
           k == c.result.attempts
           t == ShardOf[a]
           o == OutletOf[a]
           d == MetricDelta(rows[a], k)
           n == stats[t]
           x == Booked(TransitionPhase(IncrementStats(n, o, st), c.phase, None), d)
<1>0. TypeOK /\ TypeOK' /\ c \in Claim /\ DoneHasVerdict /\ DoneHasVerdict'
  BY DEF CountInv, ReportInv, FenceInv, TypeOK
<1>1. /\ a \in Article /\ Owned(c) /\ c.result \in Terminal
      /\ rows'[a].state = "done"
      /\ rows'[a].verdict = [token |-> c.token, status |-> st, attempts |-> k]
      /\ \A b \in Article \ {a} : rows'[b] = rows[b]
  BY <1>0, CompleteFields
<1>2. /\ st \in Status /\ k \in Attempts /\ c.phase \in Phase /\ t \in Shard /\ o \in Outlet
      /\ n \in Counters
  BY <1>0, <1>1, LayoutAssumption DEF Terminal, Claim, TypeOK
<1>3. rows[a].state = "leased" /\ rows[a].phase = c.phase /\ rows[a] \in Row
  BY <1>0, <1>1 DEF Owned, TypeOK
<1>4. /\ RowAttempts(rows[a]) = rows[a].accounted /\ RowAttempts(rows'[a]) = k
      /\ rows'[a].verdict.status = st
  BY <1>1, <1>3 DEF RowAttempts
<1>5. d \in Int /\ d = RowAttempts(rows'[a]) - RowAttempts(rows[a])
      /\ RowAttempts(rows[a]) <= RowAttempts(rows'[a])
  <2>1. rows[a].accounted \in Int /\ k \in Int
    BY <1>2, <1>3, BoundAssumption DEF Row, Attempts
  <2>2. d >= 0
    BY DEF Complete
  <2>3. QED
    BY <1>4, <2>1, <2>2 DEF MetricDelta
<1>6. stats' = [stats EXCEPT ![t] = x]
  BY DEF Complete, Booked
<1>7. n = Tally(t)
  BY <1>2 DEF CountInv, CountersMatchRows
<1> HIDE DEF d, n, st, k, t, o
<1>8. /\ x \in Counters
      /\ x.total = n.total /\ x.processed = n.processed + 1
      /\ x.counts = [n.counts EXCEPT ![st] = @ + 1]
      /\ \A q \in Outlet : /\ x.domains[q].total = n.domains[q].total
                           /\ x.domains[q].processed
                                = n.domains[q].processed + (IF q = o THEN 1 ELSE 0)
      /\ \A q \in RecoveryPhase :
           x.remaining[q] = n.remaining[q] - (IF q = c.phase THEN 1 ELSE 0)
      /\ x.attempts = n.attempts + d
  BY <1>2, <1>5, ClosedShard
<1> HIDE DEF x
<1>9. a \in Mine(t) /\ a \notin Closed(t) /\ Closed(t)' = Closed(t) \cup {a}
  BY <1>1, <1>3 DEF Mine, Closed, t
<1>10. Cardinality(Closed(t)') = Cardinality(Closed(t)) + 1
  BY <1>2, <1>9, FiniteShard, OneMore
<1>11. ASSUME NEW q \in Status
       PROVE  x.counts[q] = Cardinality(ClosedAs(t, q)')
  <2>1. x.counts[q] = Cardinality(ClosedAs(t, q)) + (IF q = st THEN 1 ELSE 0)
    <3>1. n.counts[q] = Cardinality(ClosedAs(t, q)) /\ n.counts \in [Status -> Nat]
      BY <1>2, <1>7, TallyFields DEF Counters
    <3>2. QED
      BY <1>2, <1>8, <3>1
  <2>2. CASE q = st
    <3>1. a \notin ClosedAs(t, q) /\ ClosedAs(t, q)' = ClosedAs(t, q) \cup {a}
      BY <1>1, <1>4, <1>9, <2>2 DEF ClosedAs, Closed, Mine
    <3>2. QED
      BY <1>2, <2>1, <2>2, <3>1, FiniteShard, OneMore
  <2>3. CASE q # st
    <3>1. ClosedAs(t, q)' = ClosedAs(t, q)
      BY <1>1, <1>4, <1>9, <2>3 DEF ClosedAs, Closed, Mine
    <3>2. Cardinality(ClosedAs(t, q)) \in Nat
      BY <1>2, FiniteShard, FS_CardinalityType
    <3>3. QED
      BY <2>1, <2>3, <3>1, <3>2
  <2>4. QED
    BY <2>2, <2>3
<1>12. ASSUME NEW q \in Outlet
       PROVE  /\ x.domains[q].total = Cardinality(From(q, Mine(t)))
              /\ x.domains[q].processed = Cardinality(From(q, Closed(t)'))
  <2>1. /\ n.domains[q].total = Cardinality(From(q, Mine(t)))
        /\ n.domains[q].processed = Cardinality(From(q, Closed(t)))
    BY <1>2, <1>7, TallyFields
  <2>2. IsFiniteSet(From(q, Closed(t))) /\ Cardinality(From(q, Closed(t))) \in Nat
    BY <1>2, FiniteShard, FS_CardinalityType
  <2>3. CASE q = o
    <3>1. /\ a \notin From(q, Closed(t))
          /\ From(q, Closed(t)') = From(q, Closed(t)) \cup {a}
      BY <1>9, <2>3 DEF From, o
    <3>2. Cardinality(From(q, Closed(t)')) = Cardinality(From(q, Closed(t))) + 1
      BY <2>2, <3>1, OneMore
    <3>3. QED
      BY <1>8, <2>1, <2>3, <3>2
  <2>4. CASE q # o
    <3>1. From(q, Closed(t)') = From(q, Closed(t))
      BY <1>9, <2>4 DEF From, o
    <3>2. QED
      BY <1>8, <2>1, <2>2, <2>4, <3>1
  <2>5. QED
    BY <2>3, <2>4
<1>13. ASSUME NEW q \in RecoveryPhase
       PROVE  x.remaining[q] = Cardinality(Waiting(t, q)')
  <2>1. n.remaining[q] = Cardinality(Waiting(t, q))
    BY <1>2, <1>7, TallyFields
  <2>2. IsFiniteSet(Waiting(t, q)) /\ Cardinality(Waiting(t, q)) \in Nat
    BY <1>2, FiniteShard, FS_CardinalityType
  <2>3. CASE q = c.phase
    <3>1. a \in Waiting(t, q) /\ Waiting(t, q)' = Waiting(t, q) \ {a}
      BY <1>1, <1>3, <1>9, <2>3 DEF Waiting, Closed, Mine
    <3>2. Cardinality(Waiting(t, q)') = Cardinality(Waiting(t, q)) - 1
      BY <2>2, <3>1, OneLess
    <3>3. QED
      BY <1>8, <2>1, <2>3, <3>2
  <2>4. CASE q # c.phase
    <3>1. Waiting(t, q)' = Waiting(t, q)
      BY <1>1, <1>3, <1>9, <2>4 DEF Waiting, Closed, Mine
    <3>2. QED
      BY <1>8, <2>1, <2>2, <2>4, <3>1
  <2>5. QED
    BY <2>3, <2>4
<1>14. x.attempts = Cardinality(Paid(t)')
  <2>1. Cardinality(Paid(t)') = Cardinality(Paid(t))
                                  + (RowAttempts(rows'[a]) - RowAttempts(rows[a]))
    BY <1>0, <1>1, <1>2, <1>5, PaidNext DEF t
  <2>2. QED
    BY <1>2, <1>5, <1>7, <1>8, <2>1, TallyFields
<1>15. Tally(t)' = x
  <2>1. x.total = Cardinality(Mine(t)) /\ x.processed = Cardinality(Closed(t)')
    BY <1>2, <1>7, <1>8, <1>10, TallyFields
  <2>2. QED
    BY <1>2, <1>8, <1>11, <1>12, <1>13, <1>14, <2>1, TallyNext
<1>16. ASSUME NEW s \in Shard PROVE stats'[s] = Tally(s)'
  <2>1. CASE s = t
    BY <1>0, <1>2, <1>6, <1>15, <2>1 DEF TypeOK
  <2>2. CASE s # t
    <3>1. \A b \in Mine(s) : rows'[b] = rows[b]
      BY <1>1, <2>2 DEF Mine, t
    <3>2. Tally(s)' = Tally(s)
      BY <3>1, TallyKept
    <3>3. QED
      BY <1>0, <1>6, <2>2, <3>2 DEF TypeOK, CountInv, CountersMatchRows
  <2>3. QED
    BY <2>1, <2>2
<1>17. QED
  BY <1>16 DEF CountersMatchRows

\* A handoff moves the article from one phase to another and books its new
\* attempts; nothing else in the counters changes.
LEMMA CountHandoff ==
  ASSUME CountInv, ReportInv', NEW c \in claims, NEW delay \in RetryDelay, NEW lag \in 0..Lag,
         Handoff(c, delay, lag)
  PROVE  CountersMatchRows'
<1> DEFINE a == c.article
           to == c.result.next
           k == c.result.attempts
           t == ShardOf[a]
           d == MetricDelta(rows[a], k)
           n == stats[t]
           x == Booked(TransitionPhase(n, c.phase, to), d)
<1>0. TypeOK /\ TypeOK' /\ c \in Claim /\ DoneHasVerdict /\ DoneHasVerdict'
  BY DEF CountInv, ReportInv, FenceInv, TypeOK
<1>1. /\ a \in Article /\ Owned(c) /\ c.result \in Queued
      /\ rows'[a].state = "ready" /\ rows'[a].phase = to /\ rows'[a].accounted = k
      /\ \A b \in Article \ {a} : rows'[b] = rows[b]
  BY <1>0, HandoffFields
<1>2. /\ k \in Attempts /\ c.phase \in Phase /\ to \in Phase /\ t \in Shard /\ n \in Counters
  BY <1>0, <1>1, LayoutAssumption DEF Queued, Claim, Phase, TypeOK
<1>3. rows[a].state = "leased" /\ rows[a].phase = c.phase /\ rows[a] \in Row
  BY <1>0, <1>1 DEF Owned, TypeOK
<1>4. RowAttempts(rows[a]) = rows[a].accounted /\ RowAttempts(rows'[a]) = k
  BY <1>1, <1>3 DEF RowAttempts
<1>5. d \in Int /\ d = RowAttempts(rows'[a]) - RowAttempts(rows[a])
      /\ RowAttempts(rows[a]) <= RowAttempts(rows'[a])
  <2>1. rows[a].accounted \in Int /\ k \in Int
    BY <1>2, <1>3, BoundAssumption DEF Row, Attempts
  <2>2. d >= 0
    BY DEF Handoff
  <2>3. QED
    BY <1>4, <2>1, <2>2 DEF MetricDelta
<1>6. stats' = [stats EXCEPT ![t] = x]
  BY DEF Handoff, Booked
<1>7. n = Tally(t)
  BY <1>2 DEF CountInv, CountersMatchRows
<1> HIDE DEF d, n, k, t, to
<1>8. /\ x \in Counters
      /\ x.total = n.total /\ x.processed = n.processed
      /\ x.counts = n.counts /\ x.domains = n.domains
      /\ \A q \in RecoveryPhase :
           x.remaining[q] = n.remaining[q] + (IF q = to THEN 1 ELSE 0)
                                           - (IF q = c.phase THEN 1 ELSE 0)
      /\ x.attempts = n.attempts + d
  <2> DEFINE f == c.phase
  <2>1. f \in Phase /\ d \in Int
    BY <1>2, <1>5
  <2> HIDE DEF f
  <2>2. LET y == Booked(TransitionPhase(n, f, to), d)
        IN /\ y \in Counters
           /\ y.total = n.total /\ y.processed = n.processed
           /\ y.counts = n.counts /\ y.domains = n.domains
           /\ \A q \in RecoveryPhase :
                y.remaining[q] = n.remaining[q] + (IF q = to THEN 1 ELSE 0)
                                                - (IF q = f THEN 1 ELSE 0)
           /\ y.attempts = n.attempts + d
    BY <1>2, <2>1, MovedShard
  <2>3. QED
    BY <2>2 DEF f
<1> HIDE DEF x
<1>9. a \in Mine(t) /\ a \notin Closed(t) /\ Closed(t)' = Closed(t)
  BY <1>1, <1>3 DEF Mine, Closed, t
<1>10. \A q \in Status : ClosedAs(t, q)' = ClosedAs(t, q)
  BY <1>1, <1>9 DEF ClosedAs, Closed, Mine
<1>11. ASSUME NEW q \in RecoveryPhase
       PROVE  x.remaining[q] = Cardinality(Waiting(t, q)')
  <2>1. n.remaining[q] = Cardinality(Waiting(t, q))
    BY <1>2, <1>7, TallyFields
  <2>2. IsFiniteSet(Waiting(t, q)) /\ Cardinality(Waiting(t, q)) \in Nat
    BY <1>2, FiniteShard, FS_CardinalityType
  <2>3. CASE q = c.phase /\ q # to
    <3>1. a \in Waiting(t, q) /\ Waiting(t, q)' = Waiting(t, q) \ {a}
      BY <1>1, <1>3, <1>9, <2>3 DEF Waiting, Closed, Mine
    <3>2. Cardinality(Waiting(t, q)') = Cardinality(Waiting(t, q)) - 1
      BY <2>2, <3>1, OneLess
    <3>3. QED
      BY <1>8, <2>1, <2>2, <2>3, <3>2
  <2>4. CASE q # c.phase /\ q = to
    <3>1. a \notin Waiting(t, q) /\ Waiting(t, q)' = Waiting(t, q) \cup {a}
      BY <1>1, <1>3, <1>9, <2>4 DEF Waiting, Closed, Mine
    <3>2. Cardinality(Waiting(t, q)') = Cardinality(Waiting(t, q)) + 1
      BY <2>2, <3>1, OneMore
    <3>3. QED
      BY <1>8, <2>1, <2>2, <2>4, <3>2
  <2>5. CASE q = c.phase <=> q = to
    <3>1. Waiting(t, q)' = Waiting(t, q)
      BY <1>1, <1>3, <1>9, <2>5 DEF Waiting, Closed, Mine
    <3>2. QED
      BY <1>8, <2>1, <2>2, <2>5, <3>1
  <2>6. QED
    BY <2>3, <2>4, <2>5
<1>12. x.attempts = Cardinality(Paid(t)')
  <2>1. Cardinality(Paid(t)') = Cardinality(Paid(t))
                                  + (RowAttempts(rows'[a]) - RowAttempts(rows[a]))
    BY <1>0, <1>1, <1>2, <1>5, PaidNext DEF t
  <2>2. QED
    BY <1>2, <1>5, <1>7, <1>8, <2>1, TallyFields
<1>13. Tally(t)' = x
  <2>1. /\ x.total = Cardinality(Mine(t)) /\ x.processed = Cardinality(Closed(t)')
        /\ \A q \in Status : x.counts[q] = Cardinality(ClosedAs(t, q)')
        /\ \A q \in Outlet : /\ x.domains[q].total = Cardinality(From(q, Mine(t)))
                             /\ x.domains[q].processed = Cardinality(From(q, Closed(t)'))
    BY <1>2, <1>7, <1>8, <1>9, <1>10, TallyFields
  <2>2. QED
    BY <1>2, <1>8, <1>11, <1>12, <2>1, TallyNext
<1>14. ASSUME NEW s \in Shard PROVE stats'[s] = Tally(s)'
  <2>1. CASE s = t
    BY <1>0, <1>2, <1>6, <1>13, <2>1 DEF TypeOK
  <2>2. CASE s # t
    <3>1. \A b \in Mine(s) : rows'[b] = rows[b]
      BY <1>1, <2>2 DEF Mine, t
    <3>2. Tally(s)' = Tally(s)
      BY <3>1, TallyKept
    <3>3. QED
      BY <1>0, <1>6, <2>2, <3>2 DEF TypeOK, CountInv, CountersMatchRows
  <2>3. QED
    BY <2>1, <2>2
<1>15. QED
  BY <1>14 DEF CountersMatchRows

\* Every operation preserves the count.
LEMMA CountStep == CountInv /\ [Next]_vars => CountInv'
<1> SUFFICES ASSUME CountInv, [Next]_vars PROVE CountInv'
  OBVIOUS
<1>1. ReportInv' /\ ReportInv /\ TypeOK /\ DoneHasVerdict
  BY ReportStep DEF CountInv, ReportInv, FenceInv
<1>2. CASE Quiet
  <2>1. CountersMatchRows'
    BY <1>2, CountKept DEF Quiet, AllKept, KeepsReport, RowAttempts
  <2>2. QED
    BY <1>1, <2>1 DEF CountInv
<1>3. CASE \E w \in Worker, p \in Phase, lag \in 0..Lag :
             \E F \in Filters(p) : ClaimBatch(w, p, F, lag)
  <2>1. PICK w \in Worker, p \in Phase, lag \in 0..Lag :
          \E F \in Filters(p) : ClaimBatch(w, p, F, lag)
    BY <1>3
  <2>2. PICK C \in SUBSET Article : \E token \in [C -> Token] : Batch(w, p, C, token)
    BY <1>1, <2>1, ClaimFields
  <2>3. stats' = stats
    BY <2>1 DEF ClaimBatch
  <2>4. CountersMatchRows'
    BY <2>2, <2>3, CountKept DEF Batch, RowAttempts
  <2>5. QED
    BY <1>1, <2>4 DEF CountInv
<1>4. CASE \E c \in claims, lag \in 0..Lag : Complete(c, lag)
  BY <1>1, <1>4, CountComplete DEF CountInv
<1>5. CASE \E c \in claims, delay \in RetryDelay, lag \in 0..Lag : Handoff(c, delay, lag)
  BY <1>1, <1>5, CountHandoff DEF CountInv
<1>6. CASE \E c \in claims : Release(c)
  <2>1. PICK c \in claims : Release(c)
    BY <1>6
  <2>2. /\ c.article \in Article /\ Owned(c)
        /\ rows'[c.article].state = "ready"
        /\ rows'[c.article].phase = rows[c.article].phase
        /\ rows'[c.article].accounted = rows[c.article].accounted
        /\ rows'[c.article].verdict = rows[c.article].verdict
        /\ \A b \in Article \ {c.article} : rows'[b] = rows[b]
    BY <1>1, <2>1, ReleaseFields
  <2>3. rows[c.article].state = "leased" /\ stats' = stats
    BY <2>1, <2>2 DEF Owned, Release
  <2>4. CountersMatchRows'
    BY <2>2, <2>3, CountKept DEF RowAttempts
  <2>5. QED
    BY <1>1, <2>4 DEF CountInv
<1>7. QED
  BY <1>1, <1>2, <1>3, <1>4, <1>5, <1>6, StepKinds

\* The counter shards always equal a recount of the documents: every
\* completion once under its status and outlet, every article in the phase it
\* waits in, every HTTP attempt once across phases.
THEOREM CountersAgree == Spec => []CountersMatchRows
<1>1. Init => CountInv
  BY ReportInit DEF Init, CountInv, CountersMatchRows
<1>2. CountInv => CountersMatchRows
  BY DEF CountInv
<1>3. QED
  BY <1>1, <1>2, CountStep, PTL DEF Spec
=============================================================================
