----------------------------- MODULE SharedQueue -----------------------------
(***************************************************************************)
(* The durable article queue of crawler/shared_queue.py: Firestore article *)
(* documents, counter shards and the control document, together with the   *)
(* Claim objects the crawler processes hold in memory.                     *)
(*                                                                         *)
(* Every operation of SharedQueue that changes a document is one action.   *)
(* It runs in a Firestore transaction, so its reads and writes are one     *)
(* step, but the clock it compares leases with was sampled up to Lag       *)
(* ticks before the commit, though after its reads and so not before the   *)
(* last commit to an article it read (age).  Processes are the most        *)
(* general clients: they stall, die, repeat a call whose reply was lost,   *)
(* and call with claims that were reassigned long ago.                     *)
(*                                                                         *)
(* Time.  The code stores absolute epoch seconds.  Here every stored time  *)
(* is its distance from the present: a positive number lies ahead, and     *)
(* Tick brings all of them closer, down to the floor -Lag, below which no  *)
(* comparison in the code can tell them apart.                             *)
(***************************************************************************)
EXTENDS Integers, FiniteSets, Functions

CONSTANTS
  Worker,       \* crawler processes (SharedQueue.owner)
  Article,      \* the input manifest
  Token,        \* claim tokens (uuid4)
  Outlet,       \* newspapers
  OutletOf,     \* the outlet of an article
  Shard,        \* counter shards
  ShardOf,      \* the shard of an article
  Service,      \* archive services an archive-phase article waits for
  Status,       \* terminal outcomes of an article
  RunState,     \* states the control document takes
  None,         \* an absent field
  Lease,        \* ticks a claim lasts
  Lag,          \* ticks between a transaction's clock sample and its commit
  RetryDelay,   \* ticks from a handoff to its retry_at
  PerOutlet,    \* caps on one outlet's articles that callers pass (per_outlet)
  MaxClaims,    \* claims one process holds (its article slots)
  MaxAttempts   \* bound on the HTTP attempts of one article

Phase == {"publisher", "browser", "archive"}
RecoveryPhase == {"browser", "archive"}
ActiveRunState == {"ready", "running", "continuing"}

ASSUME TimingAssumption ==
  /\ Lease \in Nat /\ Lag \in Nat
  /\ Lag < Lease              \* a transaction is shorter than a lease
  /\ RetryDelay \subseteq Nat
ASSUME LayoutAssumption ==
  /\ IsFiniteSet(Article)
  /\ OutletOf \in [Article -> Outlet]
  /\ ShardOf \in [Article -> Shard]
ASSUME BoundAssumption ==
  /\ PerOutlet \subseteq Nat /\ MaxClaims \in Nat /\ MaxAttempts \in Nat

VARIABLES
  control,      \* the control document
  rows,         \* the article documents
  stats,        \* the counter shards
  claims,       \* the Claim objects alive in some process
  age           \* ticks since the last commit to an article, as far as Lag

vars == <<control, rows, stats, claims, age>>

-----------------------------------------------------------------------------
(* Documents and objects                                                   *)

Attempts == 0..MaxAttempts

\* What a fetch leaves to be persisted: a terminal outcome, or the queued
\* status with the phase (and archive service) that should continue.
Terminal == [status : Status, attempts : Attempts, next : {None}, service : {None}]
Queued == [status : {"queued"}, attempts : Attempts,
           next : {"publisher", "browser"}, service : {None}]
          \cup [status : {"queued"}, attempts : Attempts,
                next : {"archive"}, service : Service]
Result == Terminal \cup Queued

\* due holds each phase's due field, None when it is absent; checkpoint the
\* token whose handoff wrote checkpoint_uri and last_handoff, accounted its
\* accounted_metrics; verdict is the accepted evidence.
Verdict == [token : Token \cup {None}, status : Status, attempts : Attempts]
Row == [state : {"ready", "leased", "done"}, phase : Phase, due : [Phase -> Int \cup {None}],
        owner : Worker \cup {None}, token : Token \cup {None},
        checkpoint : Token \cup {None}, accounted : Attempts,
        service : Service \cup {None}, verdict : Verdict \cup {None},
        needs_export : BOOLEAN]

ASSUME NoneAssumption ==
  /\ None \notin Worker \cup Token \cup Service \cup Result \cup Verdict \cup Phase
  /\ None \notin Int
  /\ "queued" \notin Status

\* base is the cumulative attempts in the claim's checkpoint; result is None
\* until the fetch has ended; lease is the local lease_until.
Claim == [owner : Worker, article : Article, token : Token, phase : Phase,
          lease : Nat, base : Attempts, result : Result \cup {None}]

Counters == [total : Nat, processed : Nat, counts : [Status -> Nat],
             domains : [Outlet -> [total : Nat, processed : Nat]],
             remaining : [RecoveryPhase -> Int], attempts : Int]

-----------------------------------------------------------------------------
(* Initial documents: what initialize leaves behind, with any part of the  *)
(* manifest imported as already done.                                      *)

NeverDue == [p \in Phase |-> None]
DueOnly(p, t) == [NeverDue EXCEPT ![p] = t]

SeededRow ==
  [state |-> "ready", phase |-> "publisher", due |-> DueOnly("publisher", -Lag),
   owner |-> None, token |-> None, checkpoint |-> None, accounted |-> 0,
   service |-> None, verdict |-> None, needs_export |-> FALSE]

ImportedRow(s, n) ==
  [SeededRow EXCEPT !.state = "done", !.due = NeverDue,
                    !.verdict = [token |-> None, status |-> s, attempts |-> n]]

\* The cumulative attempts an article's document stands for.
RowAttempts(r) == IF r.state = "done" THEN r.verdict.attempts ELSE r.accounted

\* The counters a shard must hold for the documents assigned to it; every
\* attempt is one pair of an article and an ordinal below its attempts.
Tally(s) ==
  LET mine == {a \in Article : ShardOf[a] = s}
      done == {a \in mine : rows[a].state = "done"}
      of(o, A) == Cardinality({a \in A : OutletOf[a] = o})
  IN [total |-> Cardinality(mine), processed |-> Cardinality(done),
      counts |-> [st \in Status |->
                    Cardinality({a \in done : rows[a].verdict.status = st})],
      domains |-> [o \in Outlet |-> [total |-> of(o, mine), processed |-> of(o, done)]],
      remaining |-> [p \in RecoveryPhase |->
                       Cardinality({a \in mine \ done : rows[a].phase = p})],
      attempts |-> Cardinality({e \in mine \X Attempts : e[2] < RowAttempts(rows[e[1]])})]

Init ==
  /\ control = [state |-> "ready", stop |-> FALSE]
  /\ rows \in [Article -> {SeededRow}
                \cup {ImportedRow(s, n) : s \in Status, n \in Attempts}]
  /\ stats = [s \in Shard |-> Tally(s)]
  /\ claims = {}
  /\ age = [a \in Article |-> Lag]

-----------------------------------------------------------------------------
(* Helpers of the operations                                               *)

Held(w) == {c \in claims : c.owner = w}

\* uuid4: a fresh token differs from every token still stored or in use.
FreshTokens ==
  Token \ ({rows[a].token : a \in Article} \cup {rows[a].checkpoint : a \in Article}
           \cup {rows[a].verdict.token : a \in {b \in Article : rows[b].verdict # None}}
           \cup {c.token : c \in claims})

\* A transaction that read the articles A may have sampled the clock lag
\* ticks ago; what it writes in A is then fresh.
Sampled(A, lag) == \A a \in A : lag <= age[a]
Written(A) == age' = [a \in Article |-> IF a \in A THEN 0 ELSE age[a]]

\* The control document lets articles be claimed.
CrawlActive == ~control.stop /\ control.state \in ActiveRunState

\* The claims C fit beside those that the caller counts as in flight.
FitsOutlets(C, inflight, cap) ==
  \A o \in {OutletOf[a] : a \in C} :
    Cardinality({a \in C : OutletOf[a] = o})
      + Cardinality({c \in inflight : OutletOf[c.article] = o}) <= cap

\* Which of its claims a process counts as in flight, and under which cap, is its own
\* choice: those of the phase in an ordinary refill, those of the archive pool for a
\* handoff.
Batches(w, A) ==
  {C \in SUBSET A :
     \E inflight \in SUBSET Held(w), cap \in PerOutlet : FitsOutlets(C, inflight, cap)}

\* The re-check of a candidate inside the claim transaction.
Claimable(a, p, F, lag) ==
  LET r == rows[a]
  IN /\ r.state # "done" /\ r.phase = p
     /\ r.due[p] # None /\ r.due[p] <= -lag
     /\ r.service \in F

\* Faulty variant: neither owner nor token is compared.
LeasedToAnyone(c) ==
  LET r == rows[c.article] IN r.state = "leased" /\ r.phase = c.phase
\* The row is leased under exactly this claim.
Owned(c) ==
  LET r == rows[c.article]
  IN /\ r.state = "leased" /\ r.owner = c.owner
     /\ r.phase = c.phase /\ r.token = c.token

\* The fence every report must pass: besides, the claim had not expired when
\* the transaction looked at the clock.
Fenced(c, lag) ==
  LET r == rows[c.article]
  IN Owned(c) /\ r.due[c.phase] # None /\ r.due[c.phase] > -lag

\* Faulty variant: the lease is counted from the arrival of the reply.
LeaseFromReply(lag) == Lease
\* The local lease a reply sets: counted from the transaction's clock sample,
\* which is what the document says too.
LeaseFromSample(lag) == Lease - lag

\* New attempts of a cumulative result; the code refuses a negative delta.
MetricDelta(r, n) == n - r.accounted

\* A terminal result enters the shard's totals and its outlet's totals.
IncrementStats(s, o, st) ==
  [s EXCEPT !.processed = @ + 1, !.counts[st] = @ + 1, !.domains[o].processed = @ + 1]

\* Faulty variant: the phase that is left keeps its count.
EnteringOnly(s, from, to) ==
  [s EXCEPT !.remaining = [p \in RecoveryPhase |-> @[p] + (IF p = to THEN 1 ELSE 0)]]
\* An article leaves phase from and enters phase to (None when it is done).
TransitionPhase(s, from, to) ==
  [s EXCEPT !.remaining = [p \in RecoveryPhase |->
      @[p] + (IF p = to THEN 1 ELSE 0) - (IF p = from THEN 1 ELSE 0)]]

\* Writing one phase's due field leaves the others as they are.
WithDue(r, p, t) == [r EXCEPT !.due[p] = t]

LeasedRow(r, w, t, p, lag) ==
  [WithDue(r, p, Lease - lag) EXCEPT !.state = "leased", !.owner = w, !.token = t]

DoneRow(r, c) ==
  [r EXCEPT !.state = "done", !.due = NeverDue, !.needs_export = TRUE,
            !.verdict = [token |-> c.token, status |-> c.result.status,
                         attempts |-> c.result.attempts]]

QueuedRow(r, c, delay) ==
  [r EXCEPT !.state = "ready", !.phase = c.result.next,
            !.due = DueOnly(c.result.next, delay),
            !.owner = None, !.token = None, !.checkpoint = c.token,
            !.accounted = c.result.attempts, !.service = c.result.service,
            !.needs_export = FALSE]

ReleasedRow(r, c) ==
  [WithDue(r, c.phase, -Lag) EXCEPT !.state = "ready", !.owner = None, !.token = None]

-----------------------------------------------------------------------------
(* Operations                                                              *)

\* The operator writes the control document.
SetControl(st, stop) ==
  /\ control' = [state |-> st, stop |-> stop]
  /\ UNCHANGED <<rows, stats, claims, age>>

\* claim and _claim_batch: the candidates of an advisory query that pass the
\* re-check are leased together.  F is the archive-service filter (None is
\* the absent field).  When the reply of a committed transaction is lost the
\* documents are leased and no process knows of it.
ClaimBatch(w, p, F, lag) ==
  /\ CrawlActive
  /\ \E C \in Batches(w, {a \in Article : Claimable(a, p, F, lag)}) :
       /\ C # {} /\ Sampled(C, lag) /\ Written(C)
       /\ Cardinality(C) + Cardinality(Held(w)) <= MaxClaims
       /\ \E token \in Injection(C, FreshTokens), delivered \in BOOLEAN :
            /\ rows' = [a \in Article |->
                          IF a \in C THEN LeasedRow(rows[a], w, token[a], p, lag)
                                     ELSE rows[a]]
            /\ claims' = claims \cup
                 {[owner |-> w, article |-> a, token |-> token[a], phase |-> p,
                   lease |-> LeaseFromSample(lag), base |-> rows[a].accounted,
                   result |-> None] : a \in IF delivered THEN C ELSE {}}
  /\ UNCHANGED <<control, stats>>

\* heartbeat: all claims of a process are renewed in one transaction; a lost
\* claim's local lease becomes 0.  Without a reply the local leases stay.
Heartbeat(w, lag) ==
  LET renewed == {c \in Held(w) : Fenced(c, lag)}
      told(c) == [c EXCEPT !.lease = IF c \in renewed THEN LeaseFromSample(lag) ELSE 0]
      read == {c.article : c \in Held(w)}
  IN /\ Held(w) # {}
     /\ Sampled(read, lag) /\ Written({c.article : c \in renewed})
     /\ rows' = [a \in Article |->
                   IF \E c \in renewed : c.article = a
                   THEN WithDue(rows[a], rows[a].phase, Lease - lag) ELSE rows[a]]
     /\ \E replied \in BOOLEAN :
          claims' = IF replied THEN {IF c \in Held(w) THEN told(c) ELSE c : c \in claims}
                               ELSE claims
     /\ UNCHANGED <<control, stats>>

\* A process may start requests for a claim: nothing fetched yet and the
\* local lease still runs (owns).
Requesting(c) == c.result = None /\ c.lease > 0

\* A fetch ends with a result that contains the checkpoint's attempts.  Only
\* a saved article may come back after the local lease ran out.
Fetch(c, r) ==
  /\ c.result = None
  /\ Requesting(c) \/ r.status = "saved"
  /\ r.attempts >= c.base
  /\ claims' = (claims \ {c}) \cup {[c EXCEPT !.result = r]}
  /\ UNCHANGED <<control, rows, stats, age>>

\* Only terminal results complete a claim (queued, deferred and retrying do
\* not).
TerminalResult(c) == c.result \in Terminal

\* complete: the accepted result and its accounting are one transaction.  A
\* call that is refused, or that repeats an accepted completion, writes
\* nothing (CompleteReply); the claim stays for a possible repetition.
Complete(c, lag) ==
  LET r == rows[c.article]
      s == ShardOf[c.article]
      n == TransitionPhase(IncrementStats(stats[s], OutletOf[c.article], c.result.status),
                           c.phase, None)
  IN /\ TerminalResult(c)
     /\ Sampled({c.article}, lag) /\ Fenced(c, lag)
     /\ MetricDelta(r, c.result.attempts) >= 0
     /\ \A p \in RecoveryPhase : n.remaining[p] >= 0
     /\ rows' = [rows EXCEPT ![c.article] = DoneRow(r, c)]
     /\ stats' = [stats EXCEPT ![s] =
                    [n EXCEPT !.attempts = @ + MetricDelta(r, c.result.attempts)]]
     /\ Written({c.article})
     /\ UNCHANGED <<control, claims>>

\* Faulty variant: a repeated completion is judged by the lease.
ReplyOfFence(c, lag) == Fenced(c, lag)
\* What complete answers: for a done article, whether it is this completion.
CompleteReply(c, lag) ==
  LET r == rows[c.article]
  IN IF r.state = "done"
     THEN /\ r.owner = c.owner /\ r.token = c.token /\ r.phase = c.phase
          /\ r.verdict.token = c.token
     ELSE Fenced(c, lag)

\* handoff: the article goes on in another phase, with the attempts of this
\* one accounted.
Handoff(c, delay, lag) ==
  LET r == rows[c.article]
      s == ShardOf[c.article]
      n == TransitionPhase(stats[s], c.phase, c.result.next)
  IN /\ c.result \in Queued
     /\ r.checkpoint # c.token         \* the same handoff is not repeated
     /\ Sampled({c.article}, lag) /\ Fenced(c, lag)
     /\ MetricDelta(r, c.result.attempts) >= 0
     /\ \A p \in RecoveryPhase : n.remaining[p] >= 0
     /\ rows' = [rows EXCEPT ![c.article] = QueuedRow(r, c, delay)]
     /\ stats' = [stats EXCEPT ![s] =
                    [n EXCEPT !.attempts = @ + MetricDelta(r, c.result.attempts)]]
     /\ Written({c.article})
     /\ UNCHANGED <<control, claims>>

\* release: the claim's article is due at once; an expired claim may still be
\* released while nobody has taken the article.  release_claim forgets it.
Release(c) ==
  LET r == rows[c.article]
  IN /\ Owned(c)
     /\ rows' = [rows EXCEPT ![c.article] = ReleasedRow(r, c)]
     /\ claims' = claims \ {c}
     /\ Written({c.article})
     /\ UNCHANGED <<control, stats>>

\* forget_claim, and what a crash does to each claim of a process.
Forget(c) ==
  /\ claims' = claims \ {c}
  /\ UNCHANGED <<control, rows, stats, age>>

\* mark_exported acknowledges exactly the result a load contained.
MarkExported(a, evidence) ==
  LET r == rows[a]
  IN /\ r.state = "done" /\ r.verdict = evidence /\ r.needs_export
     /\ rows' = [rows EXCEPT ![a].needs_export = FALSE]
     /\ Written({a})
     /\ UNCHANGED <<control, stats, claims>>

\* One unit of time passes.
Tick ==
  LET closer(t) == IF t = None \/ t = -Lag THEN t ELSE t - 1
  IN /\ rows' = [a \in Article |->
                   [rows[a] EXCEPT !.due = [p \in Phase |-> closer(@[p])]]]
     /\ age' = [a \in Article |-> IF age[a] < Lag THEN age[a] + 1 ELSE Lag]
     /\ claims' = {[c EXCEPT !.lease = IF @ > 0 THEN @ - 1 ELSE 0] : c \in claims}
     /\ UNCHANGED <<control, stats>>

Filters(p) == IF p = "archive" THEN (SUBSET Service \ {{}}) \cup {Service \cup {None}}
                               ELSE {Service \cup {None}}

Next ==
  \/ \E st \in RunState, stop \in BOOLEAN : SetControl(st, stop)
  \/ \E w \in Worker, p \in Phase, lag \in 0..Lag :
       \E F \in Filters(p) : ClaimBatch(w, p, F, lag)
  \/ \E w \in Worker, lag \in 0..Lag : Heartbeat(w, lag)
  \/ \E c \in claims : \E r \in Result : Fetch(c, r)
  \/ \E c \in claims, lag \in 0..Lag : Complete(c, lag)
  \/ \E c \in claims, delay \in RetryDelay, lag \in 0..Lag : Handoff(c, delay, lag)
  \/ \E c \in claims : Release(c) \/ Forget(c)
  \/ \E a \in Article : MarkExported(a, rows[a].verdict)
  \/ Tick

Spec == Init /\ [][Next]_vars

-----------------------------------------------------------------------------
(* Properties                                                              *)

\* Documents, counters and claim objects keep their shape.
TypeOK ==
  /\ control \in [state : RunState \cup {"ready"}, stop : BOOLEAN]
  /\ rows \in [Article -> Row]
  /\ stats \in [Shard -> Counters]
  /\ claims \subseteq Claim
  /\ age \in [Article -> 0..Lag]

\* At most one process at a time is entitled to start requests for an
\* article, although leases are renewed, expire, are released and handed on,
\* replies get lost, and every transaction uses a clock sample of its own.
ExclusiveRequests ==
  \A c, d \in claims :
    c.article = d.article /\ Requesting(c) /\ Requesting(d) => c = d

\* A process that may start requests is the one whose report the queue would
\* accept: the document still carries its claim and outlives its local lease.
RequestsAreFenced ==
  \A c \in claims : Requesting(c) =>
    LET due == rows[c.article].due[c.phase]
    IN Owned(c) /\ due # None /\ due >= c.lease

\* The counter shards always equal a recount of the article documents: every
\* completion once under its status and outlet, every article in the phase
\* it waits in, every HTTP attempt once across phases.
CountersMatchRows == \A s \in Shard : stats[s] = Tally(s)

\* Whatever happened since, the process whose completion was accepted gets
\* TRUE when it repeats the call, and no other claim of that article does.
RepeatedCompletionAgrees ==
  \A c \in claims : rows[c.article].state = "done" =>
    (CompleteReply(c, 0) <=> rows[c.article].verdict.token = c.token)

-----------------------------------------------------------------------------
(* The abstract ledger this queue implements.                              *)

Ledger == INSTANCE ArticleLedger WITH
  Page <- Shard, PageOf <- ShardOf, Attempt <- Attempts,
  holder <- [a \in Article |->
               IF rows[a].state = "leased" THEN rows[a].token ELSE None],
  verdict <- [a \in Article |->
                IF rows[a].verdict = None THEN None
                ELSE [token |-> rows[a].verdict.token, status |-> rows[a].verdict.status]],
  spent <- [a \in Article |-> RowAttempts(rows[a])],
  books <- [s \in Shard |-> [closed |-> stats[s].counts, attempts |-> stats[s].attempts]]

\* The queue implements the ledger: reports come from the present loan only,
\* an article is closed once, and each report is booked once.
ImplementsLedger == Ledger!Spec
=============================================================================
