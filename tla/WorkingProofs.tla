--------------------------- MODULE WorkingProofs ---------------------------
(***************************************************************************)
(* Proofs about Working.                                                   *)
(*                                                                         *)
(* Its tasks, for any processes, articles and tokens, any lease, margin    *)
(* and request time that keep TaskAssumption, and any number of slots.     *)
(*                                                                         *)
(* Its single-process run, for any articles, attempts, buffers, restarts   *)
(* and leases: what a process has counted is in a checkpoint or about to   *)
(* be, and in BigQuery or in its buffer (Stored).  What a script still has *)
(* to do, and in which order, is said of positions in it (Shape).          *)
(***************************************************************************)
EXTENDS Working, Sequences, TLAPS

-----------------------------------------------------------------------------
(* The inductive invariant                                                 *)

\* While a thread's deadline runs, the document carries the claim and its
\* lease outlasts the deadline by the margin.
DeadlinesAreLeased ==
  \A p \in Process, a \in Article : deadline[p][a] > 0 =>
    /\ claims[p][a] # None /\ rows[a].state = "leased" /\ rows[a].token = claims[p][a]
    /\ rows[a].due >= deadline[p][a] + Margin

\* A request under a claim still held is over before the document's lease.
RequestsAreLeased ==
  \A f \in fetches : f.stage = "requesting" /\ Current(f) =>
    /\ rows[f.article].state = "leased" /\ rows[f.article].token = f.token
    /\ rows[f.article].due > f.left

\* Every claim has one thread.
FetchesDistinct == \A f, g \in fetches : f.token = g.token => f = g
ClaimsAreFetched ==
  \A p \in Process, a \in Article : claims[p][a] # None =>
    \E f \in fetches : f.process = p /\ f.article = a /\ f.token = claims[p][a]

\* What a process that has not failed still owns in the queue, it works on.
OwnedIsLeased == \A a \in Article : rows[a].owner # None => rows[a].state = "leased"
OwnedIsFetched ==
  \A p \in Process, a \in Article : at[p] \in {"loop", "finished"} /\ rows[a].owner = p =>
    \E f \in Of(p) : f.article = a /\ f.token = rows[a].token
FinishedIsIdle == \A p \in Process : at[p] = "finished" => Of(p) = {}

Leasing == DeadlinesAreLeased /\ RequestsAreLeased
Fetching == FetchesDistinct /\ ClaimsAreFetched
Owning == OwnedIsLeased /\ OwnedIsFetched /\ FinishedIsIdle
IInv == TypeOK /\ Leasing /\ Fetching /\ Owning

-----------------------------------------------------------------------------
(* Kinds of steps                                                          *)

\* Documents, claims, deadlines and threads stay, and a task finishes only
\* with no thread left.
Stays ==
  /\ UNCHANGED <<rows, claims, deadline, fetches>> /\ TypeOK'
  /\ \A p \in Process :
       /\ at'[p] = "loop" => at[p] = "loop"
       /\ at'[p] = "finished" => at[p] = "finished" \/ (at[p] = "loop" /\ Of(p) = {})

\* The thread f goes on as g; it starts a request only under its guard.
Goes(f, g) ==
  /\ UNCHANGED <<rows, at, claims, deadline>> /\ TypeOK' /\ Becomes(f, g)
  /\ g.process = f.process /\ g.article = f.article /\ g.token = f.token
  /\ g.stage = "requesting" => RequestGuard(f) /\ g.left = RequestTime

\* The thread f and its claim are gone.  The document changes at most if it
\* still carries the claim, and then it has no owner; if it keeps its owner
\* the task does not end well.
Drops(f) ==
  /\ TypeOK' /\ fetches' = fetches \ {f} /\ Forget(f.process, f.article)
  /\ rows'[f.article] # rows[f.article] => Holds(f) /\ rows'[f.article].owner = None
  /\ \A a \in Article \ {f.article} : rows'[a] = rows[a]
  /\ \A p \in Process : at'[p] # at[p] => at'[p] = "draining"
  /\ \/ at'[f.process] = "draining"
     \/ Holds(f) => rows'[f.article].owner = None

\* What a release, and an accepted report, make of the document.
LEMMA RowKinds ==
  ASSUME TypeOK, TaskAssumption, NEW f \in fetches
  PROVE  /\ f \in Fetch /\ f.process \in Process /\ f.article \in Article /\ f.token \in Token
         /\ ReleaseRow(f) \in [Article -> Row] /\ Accepted(f) \in [Article -> Row]
         /\ \A R \in {ReleaseRow(f), Accepted(f)} :
              \A a \in Article \ {f.article} : R[a] = rows[a]
         /\ IF Holds(f) THEN ReleaseRow(f)[f.article].owner = None
                        ELSE ReleaseRow(f)[f.article] = rows[f.article]
         /\ Accepted(f)[f.article].owner = None
<1>1. /\ f \in Fetch /\ f.process \in Process /\ f.article \in Article /\ f.token \in Token
      /\ rows \in [Article -> Row] /\ rows[f.article] \in Row /\ 0 \in 0..Lease
  BY DEF TypeOK, Fetch, TaskAssumption
<1>2. Released(f.article) \in Row /\ Released(f.article).owner = None
  BY <1>1 DEF Released, Row
<1>3. /\ [Released(f.article) EXCEPT !.checkpoint = f.token] \in Row
      /\ [Released(f.article) EXCEPT !.checkpoint = f.token].owner = None
  BY <1>1, <1>2 DEF Row
<1>4. LET d == [rows[f.article] EXCEPT !.state = "done", !.owner = None, !.due = 0]
      IN d \in Row /\ d.owner = None
  BY <1>1 DEF Row
<1>5. /\ Accepted(f) \in [Article -> Row] /\ Accepted(f)[f.article].owner = None
      /\ \A a \in Article \ {f.article} : Accepted(f)[a] = rows[a]
  BY <1>1, <1>3, <1>4 DEF Accepted
<1>6. /\ ReleaseRow(f) \in [Article -> Row]
      /\ \A a \in Article \ {f.article} : ReleaseRow(f)[a] = rows[a]
      /\ IF Holds(f) THEN ReleaseRow(f)[f.article].owner = None
                     ELSE ReleaseRow(f)[f.article] = rows[f.article]
  BY <1>1, <1>2 DEF ReleaseRow
<1>7. QED
  BY <1>1, <1>5, <1>6

\* Forgetting a claim keeps the shape of claims and deadlines.
LEMMA ForgetType ==
  ASSUME TypeOK, TaskAssumption, NEW p \in Process, NEW a \in Article, Forget(p, a)
  PROVE  /\ claims' \in [Process -> [Article -> Token \cup {None}]]
         /\ deadline' \in [Process -> [Article -> 0..(Lease - Margin)]]
         /\ claims'[p][a] = None /\ deadline'[p][a] = 0
         /\ \A q \in Process, b \in Article :
              q # p \/ b # a => claims'[q][b] = claims[q][b] /\ deadline'[q][b] = deadline[q][b]
<1>1. 0 \in 0..(Lease - Margin)
  BY DEF TaskAssumption
<1>2. QED
  BY <1>1 DEF TypeOK, Forget
-----------------------------------------------------------------------------
(* Each kind preserves the invariant                                       *)

LEMMA StaysInv ==
  ASSUME IInv, Stays
  PROVE  IInv'
<1>1. Leasing'
  BY DEF IInv, Stays, Leasing, DeadlinesAreLeased, RequestsAreLeased, Current
<1>2. Fetching'
  BY DEF IInv, Stays, Fetching, FetchesDistinct, ClaimsAreFetched
<1>3. \A p \in Process : Of(p)' = Of(p)
  BY DEF Stays, Of
<1>4. Owning'
  <2>1. OwnedIsLeased'
    BY DEF IInv, Stays, Owning, OwnedIsLeased
  <2>2. OwnedIsFetched'
    BY <1>3 DEF IInv, Stays, Owning, OwnedIsFetched
  <2>3. FinishedIsIdle'
    BY <1>3 DEF IInv, Stays, Owning, FinishedIsIdle
  <2>4. QED
    BY <2>1, <2>2, <2>3 DEF Owning
<1>5. QED
  BY <1>1, <1>2, <1>4 DEF IInv, Stays

\* A request that starts under its guard has the margin before it.
LEMMA GoesInv ==
  ASSUME TaskAssumption, IInv, NEW f \in fetches, NEW g, Goes(f, g)
  PROVE  IInv'
<1>1. /\ fetches' = (fetches \ {f}) \cup {g} /\ g.process = f.process
      /\ g.article = f.article /\ g.token = f.token
      /\ rows' = rows /\ at' = at /\ claims' = claims /\ deadline' = deadline
  BY DEF Goes, Becomes
<1>2. /\ f.process \in Process /\ f.article \in Article
      /\ deadline[f.process][f.article] \in 0..(Lease - Margin)
      /\ rows[f.article].due \in 0..Lease
  BY DEF IInv, TypeOK, Fetch, Row
<1>3. RequestsAreLeased'
  <2> SUFFICES ASSUME NEW h \in fetches', h.stage = "requesting", Current(h)'
               PROVE  /\ rows[h.article].state = "leased" /\ rows[h.article].token = h.token
                      /\ rows[h.article].due > h.left
    BY <1>1 DEF RequestsAreLeased
  <2>1. CASE h = g
    <3>1. deadline[f.process][f.article] > 0 /\ h.left = RequestTime
      BY <2>1 DEF Goes, RequestGuard
    <3>2. claims[f.process][f.article] = f.token
      BY <1>1, <2>1 DEF Current
    <3>3. /\ rows[f.article].state = "leased" /\ rows[f.article].token = f.token
          /\ rows[f.article].due >= deadline[f.process][f.article] + Margin
      BY <1>2, <3>1, <3>2 DEF IInv, Leasing, DeadlinesAreLeased
    <3>4. QED
      BY <1>1, <1>2, <2>1, <3>1, <3>3 DEF TaskAssumption
  <2>2. CASE h # g
    BY <1>1, <2>2 DEF IInv, Leasing, RequestsAreLeased, Current
  <2>3. QED
    BY <2>1, <2>2
<1>4. DeadlinesAreLeased'
  BY <1>1 DEF IInv, Leasing, DeadlinesAreLeased
<1>5. FetchesDistinct'
  BY <1>1 DEF IInv, Fetching, FetchesDistinct
<1>6. ClaimsAreFetched'
  BY <1>1 DEF IInv, Fetching, ClaimsAreFetched
<1>7. OwnedIsLeased' /\ OwnedIsFetched'
  BY <1>1 DEF IInv, Owning, OwnedIsLeased, OwnedIsFetched, Of
<1>8. FinishedIsIdle'
  BY <1>1 DEF IInv, Owning, FinishedIsIdle, Of
<1>9. QED
  BY <1>3, <1>4, <1>5, <1>6, <1>7, <1>8 DEF IInv, Goes, Leasing, Fetching, Owning

\* Giving up one claim disturbs no other.
LEMMA DropsInv ==
  ASSUME TaskAssumption, IInv, NEW f \in fetches, Drops(f)
  PROVE  IInv'
<1> DEFINE p == f.process
           a == f.article
<1>1. /\ f \in Fetch /\ p \in Process /\ a \in Article /\ f.token \in Token /\ TypeOK /\ None \notin Token
      /\ None \notin Process
  BY DEF IInv, TypeOK, Fetch, TaskAssumption
<1>2. /\ claims'[p][a] = None /\ deadline'[p][a] = 0
      /\ \A q \in Process, b \in Article :
           q # p \/ b # a => claims'[q][b] = claims[q][b] /\ deadline'[q][b] = deadline[q][b]
  BY <1>1, ForgetType DEF Drops
<1>3. /\ fetches' = fetches \ {f}
      /\ rows'[a] # rows[a] => Holds(f) /\ rows'[a].owner = None
      /\ \A b \in Article \ {a} : rows'[b] = rows[b]
      /\ \A q \in Process : at'[q] # at[q] => at'[q] = "draining"
      /\ at'[p] = "draining" \/ (Holds(f) => rows'[a].owner = None)
  BY DEF Drops
<1>4. ASSUME NEW q \in Process, NEW b \in Article, claims[q][b] # None, rows[b].token = claims[q][b],
             rows'[b] # rows[b]
      PROVE  q = p /\ b = a
  <2>1. b = a /\ rows[a].token = f.token
    BY <1>3, <1>4 DEF Holds
  <2>2. PICK g \in fetches : g.process = q /\ g.article = b /\ g.token = claims[q][b]
    BY <1>4 DEF IInv, Fetching, ClaimsAreFetched
  <2>3. g = f
    BY <1>4, <2>1, <2>2 DEF IInv, Fetching, FetchesDistinct
  <2>4. QED
    BY <2>1, <2>2, <2>3
<1>5. DeadlinesAreLeased'
  <2> SUFFICES ASSUME NEW q \in Process, NEW b \in Article, deadline'[q][b] > 0
               PROVE  /\ claims'[q][b] # None /\ rows'[b].state = "leased"
                      /\ rows'[b].token = claims'[q][b]
                      /\ rows'[b].due >= deadline'[q][b] + Margin
    BY DEF DeadlinesAreLeased
  <2>1. q # p \/ b # a
    BY <1>2
  <2>2. claims'[q][b] = claims[q][b] /\ deadline'[q][b] = deadline[q][b]
    BY <1>2, <2>1
  <2>3. /\ claims[q][b] # None /\ rows[b].state = "leased" /\ rows[b].token = claims[q][b]
        /\ rows[b].due >= deadline[q][b] + Margin
    BY <2>2 DEF IInv, Leasing, DeadlinesAreLeased
  <2>4. rows'[b] = rows[b]
    BY <1>4, <2>1, <2>3
  <2>5. QED
    BY <2>2, <2>3, <2>4
<1>6. RequestsAreLeased'
  <2> SUFFICES ASSUME NEW g \in fetches', g.stage = "requesting", Current(g)'
               PROVE  /\ rows'[g.article].state = "leased" /\ rows'[g.article].token = g.token
                      /\ rows'[g.article].due > g.left
    BY DEF RequestsAreLeased
  <2>1. g \in fetches /\ g # f /\ g.process \in Process /\ g.article \in Article /\ g.token \in Token
    BY <1>1, <1>3 DEF TypeOK, Fetch
  <2>2. claims'[g.process][g.article] = g.token
    BY DEF Current
  <2>3. g.process # p \/ g.article # a
    BY <1>1, <1>2, <2>1, <2>2
  <2>4. claims[g.process][g.article] = g.token
    BY <1>2, <2>1, <2>2, <2>3
  <2>5. /\ rows[g.article].state = "leased" /\ rows[g.article].token = g.token
        /\ rows[g.article].due > g.left
    BY <2>1, <2>4 DEF IInv, Leasing, RequestsAreLeased, Current
  <2>6. rows'[g.article] = rows[g.article]
    BY <1>1, <1>4, <2>1, <2>3, <2>4, <2>5
  <2>7. QED
    BY <2>5, <2>6
<1>7. FetchesDistinct'
  BY <1>3 DEF IInv, Fetching, FetchesDistinct
<1>8. ClaimsAreFetched'
  <2> SUFFICES ASSUME NEW q \in Process, NEW b \in Article, claims'[q][b] # None
               PROVE  \E g \in fetches' : g.process = q /\ g.article = b /\ g.token = claims'[q][b]
    BY DEF ClaimsAreFetched
  <2>1. (q # p \/ b # a) /\ claims'[q][b] = claims[q][b]
    BY <1>2
  <2>2. PICK g \in fetches : g.process = q /\ g.article = b /\ g.token = claims[q][b]
    BY <2>1 DEF IInv, Fetching, ClaimsAreFetched
  <2>3. QED
    BY <1>3, <2>1, <2>2
<1>9. OwnedIsLeased'
  BY <1>3 DEF IInv, Owning, OwnedIsLeased
<1>10. OwnedIsFetched'
  <2> SUFFICES ASSUME NEW q \in Process, NEW b \in Article, at'[q] \in {"loop", "finished"},
                      rows'[b].owner = q
               PROVE  \E g \in fetches' : g.process = q /\ g.article = b /\ g.token = rows'[b].token
    BY DEF OwnedIsFetched, Of
  <2>1. rows'[b] = rows[b]
    BY <1>1, <1>3
  <2>2. at[q] \in {"loop", "finished"}
    BY <1>3
  <2>3. PICK g \in fetches : g.process = q /\ g.article = b /\ g.token = rows[b].token
    BY <2>1, <2>2 DEF IInv, Owning, OwnedIsFetched, Of
  <2>4. rows[b].state = "leased"
    BY <1>1, <2>1 DEF IInv, Owning, OwnedIsLeased
  <2>5. g # f
    <3> SUFFICES ASSUME g = f PROVE FALSE
      OBVIOUS
    <3>1. Holds(f) /\ q = p /\ b = a
      BY <2>3, <2>4 DEF Holds
    <3>2. QED
      BY <1>1, <1>3, <3>1
  <2>6. QED
    BY <1>3, <2>1, <2>3, <2>5
<1>11. FinishedIsIdle'
  BY <1>3 DEF IInv, Owning, FinishedIsIdle, Of
<1>12. QED
  BY <1>5, <1>6, <1>7, <1>8, <1>9, <1>10, <1>11 DEF IInv, Drops, Leasing, Fetching, Owning
\* A renewal never brings the end of a lease closer.
LEMMA HeartbeatInv ==
  ASSUME TaskAssumption, IInv, NEW p \in Process, Heartbeat(p)
  PROVE  IInv'
<1> DEFINE mine == {a \in Article : claims[p][a] # None}
           renewed == {a \in mine : Renewable(p, a)}
<1>1. /\ Lease \in Nat /\ Margin \in Nat /\ Margin < Lease /\ TypeOK
      /\ SafeTime(Lease) = Lease - Margin /\ Lease - Margin \in 0..(Lease - Margin)
      /\ Lease \in 0..Lease
  BY DEF TaskAssumption, IInv, SafeTime
<1>2. /\ rows' = [a \in Article |-> IF a \in renewed THEN [rows[a] EXCEPT !.due = Lease] ELSE rows[a]]
      /\ \/ /\ renewed = mine /\ at' = at /\ abort' = abort
            /\ deadline' = [deadline EXCEPT ![p] =
                              [a \in Article |-> IF a \in mine THEN SafeTime(Lease) ELSE @[a]]]
         \/ /\ at' = [at EXCEPT ![p] = "draining"] /\ abort' = [abort EXCEPT ![p] = TRUE]
            /\ deadline' = deadline
      /\ UNCHANGED <<evidence, stopping, claims, fetches>>
  BY DEF Heartbeat
<1>3. \A a \in Article :
        /\ rows[a] \in Row /\ rows'[a] \in Row
        /\ rows'[a].state = rows[a].state /\ rows'[a].owner = rows[a].owner
        /\ rows'[a].token = rows[a].token /\ rows'[a].due >= rows[a].due
        /\ a \in renewed => rows'[a].due = Lease
  <2> SUFFICES ASSUME NEW a \in Article
               PROVE  /\ rows[a] \in Row /\ rows'[a] \in Row
                      /\ rows'[a].state = rows[a].state /\ rows'[a].owner = rows[a].owner
                      /\ rows'[a].token = rows[a].token /\ rows'[a].due >= rows[a].due
                      /\ a \in renewed => rows'[a].due = Lease
    OBVIOUS
  <2> HIDE DEF renewed
  <2>1. rows[a] \in Row /\ rows[a].due \in 0..Lease
    BY <1>1 DEF TypeOK, Row
  <2>2. CASE a \in renewed
    <3>1. rows'[a] = [rows[a] EXCEPT !.due = Lease]
      BY <1>2, <2>2
    <3>2. QED
      BY <1>1, <2>1, <3>1 DEF Row
  <2>3. CASE a \notin renewed
    <3>1. rows'[a] = rows[a]
      BY <1>2, <2>3
    <3>2. QED
      BY <1>1, <2>1, <2>3, <3>1
  <2>4. QED
    BY <2>2, <2>3
<1>4. TypeOK'
  <2>1. rows' \in [Article -> Row]
    BY <1>2, <1>3
  <2>2. deadline' \in [Process -> [Article -> 0..(Lease - Margin)]]
    <3> DEFINE moved == [a \in Article |-> IF a \in mine THEN SafeTime(Lease) ELSE deadline[p][a]]
    <3>1. deadline \in [Process -> [Article -> 0..(Lease - Margin)]]
      BY <1>1 DEF TypeOK
    <3>2. moved \in [Article -> 0..(Lease - Margin)]
      BY <1>1, <3>1
    <3>3. deadline' = deadline \/ deadline' = [deadline EXCEPT ![p] = moved]
      BY <1>2, <3>1
    <3> HIDE DEF moved
    <3>4. QED
      BY <3>1, <3>2, <3>3
  <2>3. QED
    BY <1>1, <1>2, <2>1, <2>2 DEF TypeOK
<1>5. DeadlinesAreLeased'
  <2> SUFFICES ASSUME NEW q \in Process, NEW a \in Article, deadline'[q][a] > 0
               PROVE  /\ claims[q][a] # None /\ rows'[a].state = "leased"
                      /\ rows'[a].token = claims[q][a]
                      /\ rows'[a].due >= deadline'[q][a] + Margin
    BY <1>2 DEF DeadlinesAreLeased
  <2>1. CASE deadline'[q][a] = deadline[q][a]
    <3>1. /\ claims[q][a] # None /\ rows[a].state = "leased" /\ rows[a].token = claims[q][a]
          /\ rows[a].due >= deadline[q][a] + Margin
      BY <2>1 DEF IInv, Leasing, DeadlinesAreLeased
    <3>2. rows[a].due \in Nat /\ rows'[a].due \in Nat /\ deadline[q][a] \in Nat
      BY <1>1, <1>3 DEF Row, TypeOK
    <3>3. QED
      BY <1>1, <1>3, <2>1, <3>1, <3>2
  <2>2. CASE deadline'[q][a] # deadline[q][a]
    <3>1. q = p /\ a \in mine /\ renewed = mine /\ deadline'[q][a] = Lease - Margin
      BY <1>1, <1>2, <2>2 DEF TypeOK
    <3>2. Renewable(p, a) /\ claims[p][a] # None
      BY <3>1
    <3>3. rows[a].state = "leased" /\ rows[a].token = claims[p][a]
      BY <3>2 DEF Renewable
    <3>4. rows'[a].due = Lease
      BY <1>3, <3>1
    <3>5. QED
      BY <1>1, <1>3, <3>1, <3>2, <3>3, <3>4
  <2>3. QED
    BY <2>1, <2>2
<1>6. RequestsAreLeased'
  <2> SUFFICES ASSUME NEW f \in fetches, f.stage = "requesting", Current(f)
               PROVE  /\ rows'[f.article].state = "leased" /\ rows'[f.article].token = f.token
                      /\ rows'[f.article].due > f.left
    BY <1>2 DEF RequestsAreLeased, Current
  <2>1. /\ rows[f.article].state = "leased" /\ rows[f.article].token = f.token
        /\ rows[f.article].due > f.left
    BY DEF IInv, Leasing, RequestsAreLeased
  <2>2. f.article \in Article /\ f.left \in 0..RequestTime /\ RequestTime \in Nat
    BY <1>1 DEF TypeOK, Fetch, TaskAssumption
  <2>3. rows[f.article].due \in Nat /\ rows'[f.article].due \in Nat
    BY <1>1, <1>3, <2>2 DEF Row
  <2>4. QED
    BY <1>3, <2>1, <2>2, <2>3
<1>7. Fetching'
  BY <1>2 DEF IInv, Fetching, FetchesDistinct, ClaimsAreFetched
<1>8. \A q \in Process : Of(q)' = Of(q) /\ (at'[q] # at[q] => at'[q] = "draining")
  BY <1>1, <1>2 DEF Of, TypeOK
<1>9. OwnedIsLeased'
  BY <1>3 DEF IInv, Owning, OwnedIsLeased
<1>10. OwnedIsFetched'
  BY <1>3, <1>8 DEF IInv, Owning, OwnedIsFetched
<1>11. FinishedIsIdle'
  BY <1>8 DEF IInv, Owning, FinishedIsIdle
<1>12. QED
  BY <1>4, <1>5, <1>6, <1>7, <1>9, <1>10, <1>11 DEF IInv, Leasing, Owning

\* A claim takes an article whose lease is over, so that no deadline runs
\* and no request goes on for it; its token is new.
LEMMA ClaimInv ==
  ASSUME TaskAssumption, IInv, NEW p \in Process, NEW a \in Article, NEW t \in Token, Claim(p, a, t)
  PROVE  IInv'
<1> DEFINE new == [process |-> p, article |-> a, token |-> t, stage |-> "thinking",
                   left |-> 0, result |-> None]
           won == /\ claims' = [claims EXCEPT ![p][a] = t]
                  /\ deadline' = [deadline EXCEPT ![p][a] = SafeTime(Lease)]
                  /\ fetches' = fetches \cup {new} /\ at' = at /\ abort' = abort
           lost == /\ at' = [at EXCEPT ![p] = "draining"] /\ abort' = [abort EXCEPT ![p] = TRUE]
                   /\ claims' = claims /\ deadline' = deadline /\ fetches' = fetches
<1>1. /\ Lease \in Nat /\ Margin \in Nat /\ Margin < Lease /\ TypeOK /\ RequestTime \in Nat
      /\ SafeTime(Lease) = Lease - Margin /\ Lease - Margin \in 0..(Lease - Margin)
      /\ Lease \in 0..Lease /\ None \notin Token /\ None \notin Process
  BY DEF TaskAssumption, IInv, SafeTime
<1>2. /\ at[p] = "loop" /\ t \in Unused
      /\ rows[a].state = "ready" \/ (rows[a].state = "leased" /\ rows[a].due = 0)
      /\ rows' = [rows EXCEPT ![a] =
                    [@ EXCEPT !.state = "leased", !.owner = p, !.token = t, !.due = Lease]]
      /\ won \/ lost
      /\ evidence' = evidence /\ stopping' = stopping
  BY DEF Claim
<1>3. \A f \in fetches : f.token # t
  BY <1>2 DEF Unused
<1>4. /\ rows[a] \in Row /\ rows'[a] \in Row /\ rows' \in [Article -> Row]
      /\ rows'[a].state = "leased" /\ rows'[a].owner = p /\ rows'[a].token = t
      /\ rows'[a].due = Lease
      /\ \A b \in Article \ {a} : rows'[b] = rows[b]
  <2> DEFINE r == [rows[a] EXCEPT !.state = "leased", !.owner = p, !.token = t, !.due = Lease]
  <2>1. rows \in [Article -> Row] /\ rows[a] \in Row
    BY <1>1 DEF TypeOK
  <2>2. /\ r \in Row /\ r.state = "leased" /\ r.owner = p /\ r.token = t /\ r.due = Lease
    BY <1>1, <2>1 DEF Row
  <2>3. rows' = [rows EXCEPT ![a] = r]
    BY <1>2, <2>1
  <2> HIDE DEF r
  <2>4. QED
    BY <2>1, <2>2, <2>3
<1>5. new \in Fetch
  BY <1>1 DEF Fetch, Stage
<1> HIDE DEF new
<1>6. TypeOK'
  <2>1. CASE won
    <3>1. claims' \in [Process -> [Article -> Token \cup {None}]]
      BY <1>1, <2>1 DEF TypeOK
    <3>2. deadline' \in [Process -> [Article -> 0..(Lease - Margin)]]
      BY <1>1, <2>1 DEF TypeOK
    <3>3. QED
      BY <1>1, <1>2, <1>4, <1>5, <2>1, <3>1, <3>2 DEF TypeOK
  <2>2. CASE lost
    BY <1>1, <1>2, <1>4, <2>2 DEF TypeOK
  <2>3. QED
    BY <1>2, <2>1, <2>2
<1>7. \A q \in Process : ~(deadline[q][a] > 0)
  <2> SUFFICES ASSUME NEW q \in Process, deadline[q][a] > 0 PROVE FALSE
    OBVIOUS
  <2>1. rows[a].state = "leased" /\ rows[a].due >= deadline[q][a] + Margin
    BY DEF IInv, Leasing, DeadlinesAreLeased
  <2>2. rows[a].due \in Nat /\ deadline[q][a] \in Nat
    BY <1>1, <1>4 DEF Row, TypeOK
  <2>3. QED
    BY <1>1, <1>2, <2>1, <2>2
<1>8. \A q \in Process, b \in Article :
        \/ claims'[q][b] = claims[q][b] /\ deadline'[q][b] = deadline[q][b]
        \/ q = p /\ b = a /\ won /\ claims'[q][b] = t /\ deadline'[q][b] = Lease - Margin
  BY <1>1, <1>2 DEF TypeOK
<1>9. DeadlinesAreLeased'
  <2> SUFFICES ASSUME NEW q \in Process, NEW b \in Article, deadline'[q][b] > 0
               PROVE  /\ claims'[q][b] # None /\ rows'[b].state = "leased"
                      /\ rows'[b].token = claims'[q][b]
                      /\ rows'[b].due >= deadline'[q][b] + Margin
    BY DEF DeadlinesAreLeased
  <2>1. CASE claims'[q][b] = claims[q][b] /\ deadline'[q][b] = deadline[q][b]
    <3>1. b # a
      BY <1>7, <2>1
    <3>2. QED
      BY <1>4, <2>1, <3>1 DEF IInv, Leasing, DeadlinesAreLeased
  <2>2. CASE q = p /\ b = a /\ claims'[q][b] = t /\ deadline'[q][b] = Lease - Margin
    BY <1>1, <1>4, <2>2
  <2>3. QED
    BY <1>8, <2>1, <2>2
<1>10. \A f \in fetches' : f \in fetches \/ (won /\ f = new)
  BY <1>2
<1>11. new.process = p /\ new.article = a /\ new.token = t /\ new.stage = "thinking"
  BY DEF new
<1>12. RequestsAreLeased'
  <2> SUFFICES ASSUME NEW f \in fetches', f.stage = "requesting", Current(f)'
               PROVE  /\ rows'[f.article].state = "leased" /\ rows'[f.article].token = f.token
                      /\ rows'[f.article].due > f.left
    BY DEF RequestsAreLeased
  <2>1. f \in fetches
    BY <1>10, <1>11
  <2>2. /\ f.process \in Process /\ f.article \in Article /\ f.token # t
        /\ f.left \in Nat /\ claims'[f.process][f.article] = f.token
    BY <1>1, <1>3, <2>1 DEF TypeOK, Fetch, Current
  <2>3. claims[f.process][f.article] = f.token
    BY <1>8, <2>2
  <2>4. /\ rows[f.article].state = "leased" /\ rows[f.article].token = f.token
        /\ rows[f.article].due > f.left
    BY <2>1, <2>3 DEF IInv, Leasing, RequestsAreLeased, Current
  <2>5. f.article # a
    BY <1>2, <2>2, <2>4
  <2>6. QED
    BY <1>4, <2>2, <2>4, <2>5
<1>13. FetchesDistinct'
  BY <1>3, <1>10, <1>11 DEF IInv, Fetching, FetchesDistinct
<1>14. fetches \subseteq fetches' /\ (won => new \in fetches')
  BY <1>2
<1>15. ClaimsAreFetched'
  BY <1>8, <1>11, <1>14 DEF IInv, Fetching, ClaimsAreFetched
<1>16. OwnedIsLeased'
  BY <1>4 DEF IInv, Owning, OwnedIsLeased
<1>17. \A q \in Process : at'[q] # at[q] => q = p /\ lost /\ at'[q] = "draining"
  BY <1>1, <1>2 DEF TypeOK
<1>18. OwnedIsFetched'
  <2> SUFFICES ASSUME NEW q \in Process, NEW b \in Article, at'[q] \in {"loop", "finished"},
                      rows'[b].owner = q
               PROVE  \E g \in fetches' : g.process = q /\ g.article = b /\ g.token = rows'[b].token
    BY DEF OwnedIsFetched, Of
  <2>1. at'[q] = at[q]
    BY <1>17
  <2>2. CASE b = a
    <3>1. q = p /\ at'[p] = "loop"
      BY <1>2, <1>4, <2>1, <2>2
    <3>2. won
      BY <1>1, <1>2, <3>1 DEF TypeOK
    <3>3. QED
      BY <1>4, <1>11, <1>14, <2>2, <3>1, <3>2
  <2>3. CASE b # a
    <3>1. rows'[b] = rows[b]
      BY <1>4, <2>3
    <3>2. PICK g \in fetches : g.process = q /\ g.article = b /\ g.token = rows[b].token
      BY <2>1, <3>1 DEF IInv, Owning, OwnedIsFetched, Of
    <3>3. QED
      BY <1>14, <3>1, <3>2
  <2>4. QED
    BY <2>2, <2>3
<1>19. FinishedIsIdle'
  <2> SUFFICES ASSUME NEW q \in Process, at'[q] = "finished"
               PROVE  Of(q)' = {}
    BY DEF FinishedIsIdle
  <2>1. at[q] = "finished" /\ q # p
    BY <1>2, <1>17
  <2>2. Of(q) = {}
    BY <2>1 DEF IInv, Owning, FinishedIsIdle
  <2>3. QED
    BY <1>10, <1>11, <2>1, <2>2 DEF Of
<1>20. QED
  BY <1>6, <1>9, <1>12, <1>13, <1>15, <1>16, <1>18, <1>19 DEF IInv, Leasing, Fetching, Owning
\* A killed process's threads, claims and deadlines are gone with it.
LEMMA KillInv ==
  ASSUME TaskAssumption, IInv, NEW p \in Process, Kill(p)
  PROVE  IInv'
<1>1. /\ TypeOK /\ 0 \in 0..(Lease - Margin) /\ None \notin Token /\ None \notin Process
      /\ rows' = rows /\ evidence' = evidence /\ stopping' = stopping /\ abort' = abort
      /\ fetches' = fetches \ Of(p)
      /\ claims' = [claims EXCEPT ![p] = [a \in Article |-> None]]
      /\ deadline' = [deadline EXCEPT ![p] = [a \in Article |-> 0]]
      /\ at' = [at EXCEPT ![p] = "killed"]
  BY DEF IInv, TaskAssumption, Kill
<1>2. /\ \A a \in Article : claims'[p][a] = None /\ deadline'[p][a] = 0
      /\ \A q \in Process \ {p} : claims'[q] = claims[q] /\ deadline'[q] = deadline[q]
      /\ at'[p] = "killed" /\ \A q \in Process \ {p} : at'[q] = at[q]
  BY <1>1 DEF TypeOK
<1>3. TypeOK'
  BY <1>1 DEF TypeOK
<1>4. DeadlinesAreLeased'
  BY <1>1, <1>2 DEF IInv, Leasing, DeadlinesAreLeased
<1>5. RequestsAreLeased'
  <2> SUFFICES ASSUME NEW f \in fetches', f.stage = "requesting", Current(f)'
               PROVE  /\ rows[f.article].state = "leased" /\ rows[f.article].token = f.token
                      /\ rows[f.article].due > f.left
    BY <1>1 DEF RequestsAreLeased
  <2>1. f \in fetches /\ f.process \in Process \ {p} /\ f.article \in Article
    BY <1>1 DEF Of, TypeOK, Fetch
  <2>2. Current(f)
    BY <1>2, <2>1 DEF Current
  <2>3. QED
    BY <2>1, <2>2 DEF IInv, Leasing, RequestsAreLeased
<1>6. FetchesDistinct'
  BY <1>1 DEF IInv, Fetching, FetchesDistinct
<1>7. ClaimsAreFetched'
  BY <1>1, <1>2 DEF IInv, Fetching, ClaimsAreFetched, Of
<1>8. OwnedIsLeased'
  BY <1>1 DEF IInv, Owning, OwnedIsLeased
<1>9. OwnedIsFetched'
  <2> SUFFICES ASSUME NEW q \in Process, NEW b \in Article, at'[q] \in {"loop", "finished"},
                      rows[b].owner = q
               PROVE  \E g \in fetches' : g.process = q /\ g.article = b /\ g.token = rows[b].token
    BY <1>1 DEF OwnedIsFetched, Of
  <2>1. q # p /\ at[q] \in {"loop", "finished"}
    BY <1>2
  <2>2. PICK g \in fetches : g.process = q /\ g.article = b /\ g.token = rows[b].token
    BY <2>1 DEF IInv, Owning, OwnedIsFetched, Of
  <2>3. QED
    BY <1>1, <2>1, <2>2 DEF Of
<1>10. FinishedIsIdle'
  BY <1>1, <1>2 DEF IInv, Owning, FinishedIsIdle, Of
<1>11. QED
  BY <1>3, <1>4, <1>5, <1>6, <1>7, <1>8, <1>9, <1>10 DEF IInv, Leasing, Fetching, Owning

\* Time shortens leases, deadlines and requests alike.
LEMMA TickInv ==
  ASSUME TaskAssumption, IInv, Tick
  PROVE  IInv'
<1> DEFINE later(f) == [f EXCEPT !.left = Down(@)]
<1>1. /\ TypeOK /\ Lease \in Nat /\ Margin \in Nat /\ Margin < Lease /\ RequestTime \in Nat
      /\ None \notin Process
      /\ \A f \in fetches : f.stage = "requesting" => f.left > 0
      /\ rows' = [a \in Article |-> [rows[a] EXCEPT !.due = Down(@)]]
      /\ deadline' = [p \in Process |-> [a \in Article |-> Down(deadline[p][a])]]
      /\ fetches' = {later(f) : f \in fetches}
      /\ UNCHANGED <<evidence, at, stopping, abort, claims>>
  BY DEF IInv, TaskAssumption, Tick
<1>2. \A a \in Article :
        /\ rows[a] \in Row /\ rows[a].due \in 0..Lease /\ rows'[a] \in Row
        /\ rows'[a].state = rows[a].state /\ rows'[a].owner = rows[a].owner
        /\ rows'[a].token = rows[a].token /\ rows'[a].due = Down(rows[a].due)
  <2> TAKE a \in Article
  <2>1. rows[a] \in Row /\ rows[a].due \in 0..Lease
    BY <1>1 DEF TypeOK, Row
  <2>2. Down(rows[a].due) \in 0..Lease
    BY <1>1, <2>1 DEF Down
  <2>3. rows'[a] = [rows[a] EXCEPT !.due = Down(rows[a].due)]
    BY <1>1
  <2>4. QED
    BY <2>1, <2>2, <2>3 DEF Row
<1>3. \A p \in Process, a \in Article :
        /\ deadline[p][a] \in 0..(Lease - Margin)
        /\ deadline'[p][a] = Down(deadline[p][a]) /\ deadline'[p][a] \in 0..(Lease - Margin)
  BY <1>1 DEF TypeOK, Down
<1>4. \A f \in fetches :
        /\ f \in Fetch /\ later(f) \in Fetch /\ f.left \in 0..RequestTime
        /\ later(f).process = f.process /\ later(f).article = f.article
        /\ later(f).token = f.token /\ later(f).stage = f.stage /\ later(f).left = Down(f.left)
  <2> TAKE f \in fetches
  <2>1. f \in Fetch /\ f.left \in 0..RequestTime
    BY <1>1 DEF TypeOK, Fetch
  <2>2. Down(f.left) \in 0..RequestTime
    BY <1>1, <2>1 DEF Down
  <2>3. later(f) = [f EXCEPT !.left = Down(f.left)]
    OBVIOUS
  <2>4. QED
    BY <2>1, <2>2, <2>3 DEF Fetch
<1> HIDE DEF later
<1>5. TypeOK'
  <2>1. rows' \in [Article -> Row] /\ fetches' \subseteq Fetch
    BY <1>1, <1>2, <1>4
  <2>2. deadline' \in [Process -> [Article -> 0..(Lease - Margin)]]
    BY <1>1, <1>3
  <2>3. QED
    BY <1>1, <2>1, <2>2 DEF TypeOK
<1>6. DeadlinesAreLeased'
  <2> SUFFICES ASSUME NEW p \in Process, NEW a \in Article, deadline'[p][a] > 0
               PROVE  /\ claims[p][a] # None /\ rows'[a].state = "leased"
                      /\ rows'[a].token = claims[p][a]
                      /\ rows'[a].due >= deadline'[p][a] + Margin
    BY <1>1 DEF DeadlinesAreLeased
  <2>1. deadline[p][a] > 0 /\ deadline'[p][a] = deadline[p][a] - 1
    BY <1>3 DEF Down
  <2>2. /\ claims[p][a] # None /\ rows[a].state = "leased" /\ rows[a].token = claims[p][a]
        /\ rows[a].due >= deadline[p][a] + Margin
    BY <2>1 DEF IInv, Leasing, DeadlinesAreLeased
  <2>3. rows'[a].due = rows[a].due - 1
    BY <1>1, <1>2, <1>3, <2>1, <2>2 DEF Down
  <2>4. QED
    BY <1>1, <1>2, <1>3, <2>1, <2>2, <2>3
<1>7. RequestsAreLeased'
  <2> SUFFICES ASSUME NEW f \in fetches, later(f).stage = "requesting", Current(later(f))'
               PROVE  /\ rows'[f.article].state = "leased" /\ rows'[f.article].token = f.token
                      /\ rows'[f.article].due > Down(f.left)
    BY <1>1, <1>4 DEF RequestsAreLeased
  <2>1. f.stage = "requesting" /\ Current(f) /\ f.article \in Article
    BY <1>1, <1>4 DEF Current, Fetch
  <2>2. /\ rows[f.article].state = "leased" /\ rows[f.article].token = f.token
        /\ rows[f.article].due > f.left
    BY <2>1 DEF IInv, Leasing, RequestsAreLeased
  <2>3. f.left > 0 /\ f.left \in Nat
    BY <1>1, <1>4, <2>1
  <2>4. QED
    BY <1>2, <2>1, <2>2, <2>3 DEF Down
<1>8. FetchesDistinct'
  BY <1>1, <1>4 DEF IInv, Fetching, FetchesDistinct
<1>9. ClaimsAreFetched'
  BY <1>1, <1>4 DEF IInv, Fetching, ClaimsAreFetched
<1>10. OwnedIsLeased'
  BY <1>2 DEF IInv, Owning, OwnedIsLeased
<1>11. OwnedIsFetched'
  <2> SUFFICES ASSUME NEW p \in Process, NEW a \in Article, at'[p] \in {"loop", "finished"},
                      rows'[a].owner = p
               PROVE  \E g \in fetches' : g.process = p /\ g.article = a /\ g.token = rows'[a].token
    BY DEF OwnedIsFetched, Of
  <2>1. PICK f \in fetches : f.process = p /\ f.article = a /\ f.token = rows[a].token
    BY <1>1, <1>2 DEF IInv, Owning, OwnedIsFetched, Of
  <2>2. later(f) \in fetches'
    BY <1>1
  <2>3. QED
    BY <1>2, <1>4, <2>1, <2>2
<1>12. FinishedIsIdle'
  BY <1>1, <1>4 DEF IInv, Owning, FinishedIsIdle, Of
<1>13. QED
  BY <1>5, <1>6, <1>7, <1>8, <1>9, <1>10, <1>11, <1>12 DEF IInv, Leasing, Fetching, Owning

-----------------------------------------------------------------------------
(* Every operation is of one of these kinds                                *)

\* A task that has ended has no threads, hence no claims and no deadlines.
LEMMA ExitStays ==
  ASSUME TaskAssumption, IInv, NEW p \in Process, Exit(p)
  PROVE  Stays
<1>1. TypeOK /\ Of(p) = {}
  BY DEF IInv, Exit
<1>2. \A a \in Article : claims[p][a] = None
  BY <1>1 DEF IInv, Fetching, ClaimsAreFetched, Of
<1>3. \A a \in Article : deadline[p][a] = 0
  BY <1>1, <1>2 DEF IInv, Leasing, DeadlinesAreLeased, TypeOK
<1>4. rows' = rows
  <2>1. \A a \in Article : rows'[a] = rows[a]
    BY <1>2 DEF Exit, ReleaseClaims
  <2>2. rows' = [a \in Article |-> rows'[a]] /\ rows = [a \in Article |-> rows[a]]
    BY <1>1 DEF Exit, ReleaseClaims, TypeOK
  <2>3. QED
    BY <2>1, <2>2
<1>5. claims' = claims
  <2>1. claims[p] = [a \in Article |-> None]
    BY <1>1, <1>2 DEF TypeOK
  <2>2. QED
    BY <1>1, <2>1 DEF Exit, TypeOK
<1>6. deadline' = deadline
  <2>1. deadline[p] = [a \in Article |-> 0]
    BY <1>1, <1>3 DEF TypeOK
  <2>2. QED
    BY <1>1, <2>1 DEF Exit, TypeOK
<1>7. fetches' = fetches /\ at' = [at EXCEPT ![p] = "failed"]
  BY DEF Exit
<1>8. TypeOK'
  BY <1>1, <1>4, <1>5, <1>6, <1>7 DEF TypeOK, Exit
<1>9. QED
  BY <1>1, <1>4, <1>5, <1>6, <1>7, <1>8 DEF Stays, TypeOK

LEMMA LoopStays ==
  ASSUME IInv, NEW p \in Process, LoopFails(p) \/ StopClaiming(p) \/ Leave(p)
  PROVE  Stays
<1>1. TypeOK
  BY DEF IInv
<1>2. CASE LoopFails(p)
  BY <1>1, <1>2 DEF LoopFails, TypeOK, Stays
<1>3. CASE StopClaiming(p)
  BY <1>1, <1>3 DEF StopClaiming, TypeOK, Stays
<1>4. CASE Leave(p)
  <2>1. /\ at' = [at EXCEPT ![p] = IF stopping[p] = "failed" THEN "draining" ELSE "finished"]
        /\ abort' \in [Process -> BOOLEAN] /\ at[p] = "loop" /\ Of(p) = {}
        /\ UNCHANGED <<rows, evidence, stopping, claims, deadline, fetches>>
    BY <1>1, <1>4 DEF Leave, TypeOK
  <2>2. QED
    BY <1>1, <2>1 DEF TypeOK, Stays
<1>5. QED
  BY <1>2, <1>3, <1>4

\* The thread's own steps, and the upload that precedes a report.
LEMMA ThreadGoes ==
  ASSUME TaskAssumption, IInv, NEW f \in fetches, Request(f) \/ Respond(f) \/ End(f)
  PROVE  \E g : Goes(f, g)
<1>1. TypeOK /\ f \in Fetch /\ RequestTime \in 0..RequestTime /\ 0 \in 0..RequestTime
  BY DEF IInv, TypeOK, TaskAssumption
<1>2. CASE Request(f)
  <2> DEFINE g == [f EXCEPT !.stage = "requesting", !.left = RequestTime]
  <2>1. /\ g \in Fetch /\ g.process = f.process /\ g.article = f.article /\ g.token = f.token
        /\ g.left = RequestTime
    BY <1>1 DEF Fetch, Stage
  <2>2. Becomes(f, g) /\ RequestGuard(f) /\ UNCHANGED <<rows, evidence, Local>>
    BY <1>2 DEF Request
  <2> HIDE DEF g
  <2>3. TypeOK'
    BY <1>1, <2>1, <2>2 DEF TypeOK, Becomes, Local
  <2>4. QED
    BY <2>1, <2>2, <2>3 DEF Goes, Local
<1>3. CASE Respond(f)
  <2> DEFINE g == [f EXCEPT !.stage = "thinking", !.left = 0]
  <2>1. /\ g \in Fetch /\ g.process = f.process /\ g.article = f.article /\ g.token = f.token
        /\ g.stage # "requesting"
    BY <1>1 DEF Fetch, Stage
  <2>2. Becomes(f, g) /\ UNCHANGED <<rows, evidence, Local>>
    BY <1>3 DEF Respond
  <2> HIDE DEF g
  <2>3. TypeOK'
    BY <1>1, <2>1, <2>2 DEF TypeOK, Becomes, Local
  <2>4. QED
    BY <2>1, <2>2, <2>3 DEF Goes, Local
<1>4. CASE End(f)
  <2>1. PICK r \in Result : Becomes(f, [f EXCEPT !.stage = "ended", !.result = r])
    BY <1>4 DEF End
  <2> DEFINE g == [f EXCEPT !.stage = "ended", !.result = r]
  <2>2. /\ g \in Fetch /\ g.process = f.process /\ g.article = f.article /\ g.token = f.token
        /\ g.stage # "requesting"
    BY <1>1 DEF Fetch, Stage
  <2>3. Becomes(f, g) /\ UNCHANGED <<rows, evidence, Local>>
    BY <1>4, <2>1 DEF End
  <2> HIDE DEF g
  <2>4. TypeOK'
    BY <1>1, <2>2, <2>3 DEF TypeOK, Becomes, Local
  <2>5. QED
    BY <2>2, <2>3, <2>4 DEF Goes, Local
<1>5. QED
  BY <1>2, <1>3, <1>4

\* A claim is given up by a release or after an accepted report; when that
\* fails the task does not end well.
LEMMA GivenUp ==
  ASSUME TaskAssumption, IInv, NEW f \in fetches,
         fetches' = fetches \ {f}, Forget(f.process, f.article),
         rows' \in {rows, ReleaseRow(f)} \/ (Holds(f) /\ rows' = Accepted(f)),
         \/ at' = [at EXCEPT ![f.process] = "draining"]
         \/ at' = at /\ (rows' \in {ReleaseRow(f), Accepted(f)} \/ at[f.process] = "draining"),
         evidence' \subseteq Token, stopping' \in {stopping, [stopping EXCEPT ![f.process] = "failed"]},
         abort' \in {abort, [abort EXCEPT ![f.process] = TRUE]}
  PROVE  Drops(f)
<1>1. TypeOK /\ f.process \in Process
  BY RowKinds DEF IInv
<1>2. TypeOK'
  <2>1. /\ claims' \in [Process -> [Article -> Token \cup {None}]]
        /\ deadline' \in [Process -> [Article -> 0..(Lease - Margin)]]
    BY <1>1, RowKinds, ForgetType
  <2>2. rows' \in [Article -> Row]
    BY <1>1, RowKinds DEF TypeOK
  <2>3. at' \in [Process -> {"loop", "draining", "finished", "failed", "killed"}]
    BY <1>1 DEF TypeOK
  <2>4. stopping' \in [Process -> {"no", "stopped", "failed"}] /\ abort' \in [Process -> BOOLEAN]
    BY <1>1 DEF TypeOK
  <2>5. fetches' \subseteq Fetch
    BY <1>1 DEF TypeOK
  <2>6. QED
    BY <2>1, <2>2, <2>3, <2>4, <2>5 DEF TypeOK
<1>3. /\ rows'[f.article] # rows[f.article] => Holds(f) /\ rows'[f.article].owner = None
      /\ \A a \in Article \ {f.article} : rows'[a] = rows[a]
      /\ rows' \in {ReleaseRow(f), Accepted(f)} /\ Holds(f) => rows'[f.article].owner = None
  BY <1>1, RowKinds
<1>4. \A p \in Process : at'[p] # at[p] => at'[p] = "draining"
  BY <1>1 DEF TypeOK
<1>5. at'[f.process] = "draining" \/ (Holds(f) => rows'[f.article].owner = None)
  BY <1>1, <1>3 DEF TypeOK
<1>6. QED
  BY <1>2, <1>3, <1>4, <1>5 DEF Drops
\* Persisting what a thread brought back either uploads it or gives up the
\* claim.
LEMMA PersistKinds ==
  ASSUME TaskAssumption, IInv, NEW f \in fetches, Persist(f)
  PROVE  Drops(f) \/ \E g : Goes(f, g)
<1>1. /\ TypeOK /\ f \in Fetch /\ f.token \in Token /\ evidence \subseteq Token
      /\ rows \in [Article -> Row]
  BY RowKinds DEF IInv, TypeOK
<1>2. CASE Abandon(f)
  <2>1. /\ fetches' = fetches \ {f} /\ Forget(f.process, f.article)
        /\ rows' \in {rows, ReleaseRow(f)}
        /\ \/ at' = at /\ abort' = abort /\ rows' = ReleaseRow(f)
           \/ /\ at' = [at EXCEPT ![f.process] = "draining"]
              /\ abort' = [abort EXCEPT ![f.process] = TRUE]
        /\ evidence' = evidence /\ stopping' = stopping
    BY <1>2 DEF Abandon, ReleaseClaim
  <2>2. QED
    BY <1>1, <2>1, GivenUp
<1>3. ASSUME PersistFails(f), evidence' \subseteq Token
      PROVE  Drops(f)
  <2>1. /\ fetches' = fetches \ {f} /\ Forget(f.process, f.article)
        /\ stopping' = [stopping EXCEPT ![f.process] = "failed"]
        /\ abort' = [abort EXCEPT ![f.process] = TRUE]
        /\ rows' \in {rows, ReleaseRow(f)}
        /\ \/ at' = at /\ rows' = ReleaseRow(f)
           \/ at' = [at EXCEPT ![f.process] = "draining"]
    BY <1>3 DEF PersistFails, Failing
  <2>2. QED
    BY <1>3, <2>1, GivenUp
<1>4. CASE Failed(f)
  BY <1>1, <1>3, <1>4 DEF Failed
<1>5. CASE Reject(f)
  BY <1>1, <1>3, <1>5 DEF Reject
<1>6. CASE Commit(f)
  BY <1>1, <1>6, GivenUp DEF Commit, Failing, Accepts
<1>7. CASE Upload(f)
  <2>1. evidence' \subseteq Token
    BY <1>1, <1>7 DEF Upload
  <2>2. CASE PersistFails(f)
    BY <1>3, <2>1, <2>2
  <2>3. CASE Becomes(f, [f EXCEPT !.stage = "uploaded"]) /\ UNCHANGED <<rows, Local>>
    <3> DEFINE g == [f EXCEPT !.stage = "uploaded"]
    <3>1. /\ g \in Fetch /\ g.process = f.process /\ g.article = f.article /\ g.token = f.token
          /\ g.stage # "requesting"
      BY <1>1 DEF Fetch, Stage
    <3>2. Becomes(f, g) /\ UNCHANGED <<rows, Local>>
      BY <2>3
    <3> HIDE DEF g
    <3>3. TypeOK'
      BY <1>1, <2>1, <3>1, <3>2 DEF TypeOK, Becomes, Local
    <3>4. QED
      BY <3>1, <3>2, <3>3 DEF Goes, Local
  <2>4. QED
    BY <1>7, <2>2, <2>3 DEF Upload
<1>8. QED
  BY <1>2, <1>4, <1>5, <1>6, <1>7 DEF Persist
\* Cleaning up after a failure gives up one claim after another.
LEMMA CleanDrops ==
  ASSUME TaskAssumption, IInv, NEW p \in Process, CleanOne(p)
  PROVE  \E f \in fetches : Drops(f)
<1>1. PICK f \in Of(p) :
        /\ fetches' = fetches \ {f}
        /\ \/ /\ evidence' = evidence \cup {f.token}
              /\ \/ Accepts(f) /\ rows' = Accepted(f) /\ Forget(p, f.article)
                 \/ rows' \in {rows, ReleaseRow(f)} /\ Forget(p, f.article)
           \/ rows' \in {rows, ReleaseRow(f)} /\ Forget(p, f.article) /\ evidence' = evidence
  BY DEF CleanOne
<1>2. f \in fetches /\ f.process = p
  BY DEF Of
<1>3. TypeOK /\ f.token \in Token /\ evidence \subseteq Token
  BY <1>2, RowKinds DEF IInv, TypeOK
<1>4. evidence' \subseteq Token /\ Forget(f.process, f.article)
  BY <1>1, <1>2, <1>3
<1>5. rows' \in {rows, ReleaseRow(f)} \/ (Holds(f) /\ rows' = Accepted(f))
  BY <1>1 DEF Accepts
<1>6. at[f.process] = "draining" /\ at' = at /\ stopping' = stopping /\ abort' = abort
  BY <1>2 DEF CleanOne, Settled
<1>7. Drops(f)
  BY <1>1, <1>2, <1>4, <1>5, <1>6, GivenUp
<1>8. QED
  BY <1>2, <1>7

-----------------------------------------------------------------------------
(* The theorems                                                            *)

LEMMA Initially ==
  ASSUME TaskAssumption
  PROVE  Init => IInv
<1> SUFFICES ASSUME Init PROVE IInv
  OBVIOUS
<1>1. 0 \in 0..Lease /\ 0 \in 0..(Lease - Margin) /\ None \notin Process
  BY DEF TaskAssumption
<1>2. /\ rows = [a \in Article |-> [state |-> "ready", owner |-> None, token |-> None,
                                    due |-> 0, checkpoint |-> None]]
      /\ at = [p \in Process |-> "loop"] /\ fetches = {}
      /\ claims = [p \in Process |-> [a \in Article |-> None]]
      /\ deadline = [p \in Process |-> [a \in Article |-> 0]]
  BY DEF Init
<1>3. TypeOK
  <2>1. rows \in [Article -> Row]
    BY <1>1, <1>2 DEF Row
  <2>2. QED
    BY <1>1, <1>2, <2>1 DEF Init, TypeOK
<1>4. Leasing
  BY <1>2 DEF Leasing, DeadlinesAreLeased, RequestsAreLeased
<1>5. Fetching
  BY <1>2 DEF Fetching, FetchesDistinct, ClaimsAreFetched
<1>6. OwnedIsLeased
  BY <1>2 DEF OwnedIsLeased
<1>7. OwnedIsFetched
  BY <1>1, <1>2 DEF OwnedIsFetched
<1>8. FinishedIsIdle
  BY <1>2 DEF FinishedIsIdle
<1>9. QED
  BY <1>3, <1>4, <1>5, <1>6, <1>7, <1>8 DEF IInv, Owning

LEMMA Inductive ==
  ASSUME TaskAssumption
  PROVE  IInv /\ [Next]_vars => IInv'
<1> SUFFICES ASSUME IInv, [Next]_vars PROVE IInv'
  OBVIOUS
<1>1. ASSUME NEW p \in Process, LoopFails(p) \/ StopClaiming(p) \/ Leave(p)
      PROVE  IInv'
  BY <1>1, LoopStays, StaysInv
<1>2. ASSUME NEW p \in Process, Heartbeat(p)
      PROVE  IInv'
  BY <1>2, HeartbeatInv
<1>3. ASSUME NEW p \in Process, CleanOne(p)
      PROVE  IInv'
  BY <1>3, CleanDrops, DropsInv
<1>4. ASSUME NEW p \in Process, Exit(p)
      PROVE  IInv'
  BY <1>4, ExitStays, StaysInv
<1>5. ASSUME NEW p \in Process, Kill(p)
      PROVE  IInv'
  BY <1>5, KillInv
<1>6. ASSUME NEW p \in Process, NEW a \in Article, NEW t \in Token, Claim(p, a, t)
      PROVE  IInv'
  BY <1>6, ClaimInv
<1>7. ASSUME NEW f \in fetches, Request(f) \/ Respond(f) \/ End(f)
      PROVE  IInv'
  BY <1>7, ThreadGoes, GoesInv
<1>8. ASSUME NEW f \in fetches, Persist(f)
      PROVE  IInv'
  BY <1>8, PersistKinds, DropsInv, GoesInv
<1>9. CASE Tick
  BY <1>9, TickInv
<1>10. CASE UNCHANGED vars
  <2>1. TypeOK'
    BY <1>10 DEF IInv, vars, TypeOK
  <2>2. Stays
    BY <1>10, <2>1 DEF vars, Stays
  <2>3. QED
    BY <2>2, StaysInv
<1>11. QED
  BY <1>1, <1>2, <1>3, <1>4, <1>5, <1>6, <1>7, <1>8, <1>9, <1>10 DEF Next, Loop

\* Documents, claims and threads keep their shape; in particular a thread's
\* deadline never eats into the margin of a granted lease.
THEOREM TypeCorrect ==
  ASSUME TaskAssumption
  PROVE  Spec => []TypeOK
<1>1. IInv => TypeOK
  BY DEF IInv
<1>2. QED
  BY <1>1, Initially, Inductive, PTL DEF Spec

\* Requests for one article that two processes make, each under the claim it
\* still holds, never overlap, however slow heartbeats, requests and clocks.
THEOREM RequestsExclusive ==
  ASSUME TaskAssumption
  PROVE  Spec => []ExclusiveRequests
<1>1. IInv => ExclusiveRequests
  BY DEF IInv, Leasing, RequestsAreLeased, Fetching, FetchesDistinct, ExclusiveRequests
<1>2. QED
  BY <1>1, Initially, Inductive, PTL DEF Spec

\* A task that ends its loop without a failure leaves nothing leased.
THEOREM CleanEnd ==
  ASSUME TaskAssumption
  PROVE  Spec => []CleanEndHoldsNothing
<1>1. IInv => CleanEndHoldsNothing
  BY DEF IInv, Owning, OwnedIsFetched, FinishedIsIdle, CleanEndHoldsNothing
<1>2. QED
  BY <1>1, Initially, Inductive, PTL DEF Spec

-----------------------------------------------------------------------------
(* The single-process run: its inductive invariant                         *)

Flushing == {"bqFull", "bqAll", "bqSome"}
Busy == {"restore", "loop", "result", "periodic", "memory", "final", "except"}
Collecting == {"loop", "result", "periodic", "memory"}
Ops(s) == {s[i] : i \in 1..Len(s)}

\* Between the flush of the checkpoint and the load of the events only the lease is renewed.
LoadsFlushed(s, cp) ==
  \A i \in 1..Len(s) : s[i] = "load" =>
    \/ i = 1 /\ cp = {}
    \/ i = 2 /\ cp = {} /\ s[1] = "renew"
    \/ i = 3 /\ s[1] = "cpAll" /\ s[2] = "renew"
\* A result is recorded in the checkpoint before its event is queued, and not without.
RecordsQueued(s) ==
  \A i \in 1..Len(s) : s[i] = "record" =>
    /\ \E j \in 1..Len(s) : s[j] = "queue"
    /\ \A j \in 1..Len(s) : s[j] = "queue" => i < j
\* The final report comes after the events are loaded.
FlushesLast(s, bq) ==
  /\ \A i \in 1..Len(s) : s[i] \in {"progress", "event"} => i >= Len(s) - 1
  /\ bq # {} => Len(s) >= 3 /\ s[Len(s) - 2] \in {"bqAll", "load"}
Shape(s, at1, cp, bq) ==
  /\ LoadsFlushed(s, cp) /\ RecordsQueued(s)
  /\ at1 # "result" => \A i \in 1..Len(s) : s[i] \notin {"record", "queue"}
  /\ at1 = "final" => FlushesLast(s, bq)

\* The result that is counted and has still to be queued for BigQuery.
Owed(m) == IF \E i \in 1..Len(m.script) : m.script[i] = "queue" THEN {m.item} ELSE {}
\* What a process has counted is stored, or in its buffers.
Stored(m) ==
  /\ m.bq \subseteq m.done /\ m.done \subseteq checkpoint \cup m.cp
  /\ ~m.failed => m.done \subseteq loaded \cup m.bq \cup Owed(m)
\* Each article is in one place.
Split(m) ==
  /\ m.queue \cap m.active = {} /\ (m.queue \cup m.active) \cap m.done = {}
  /\ m.item \notin m.queue \cup m.active /\ Corpus \subseteq m.queue \cup m.active \cup m.done \cup {m.item}
  /\ IF m.at = "result"
     THEN m.item # None /\ ((\E i \in 1..Len(m.script) : m.script[i] = "record") \/ m.item \in m.done)
     ELSE m.item = None
\* What a failure, and the end of the work, leave in the state.
Tells(m) ==
  /\ m.at \in {"restore", "memory", "final"} => ~m.failed
  /\ m.at \in Collecting /\ m.failed => m.state = "failed"
  /\ m.at = "except" => m.failed
  /\ m.at = "restore" => m.active = {} /\ m.item = None
  /\ m.state = "completed" => m.at \in {"final", "except", "release"}
  /\ m.at = "final" /\ m.state = "completed" => m.done = Corpus
Fit(m) ==
  /\ Tells(m)
  /\ m.at \in Busy => Shape(m.script, m.at, m.cp, m.bq) /\ Stored(m)
  /\ m.at \in Collecting => Split(m)
  /\ m.at \notin Busy \ {"loop"} => m.script = <<>> /\ ~m.reloading
  /\ m.at \in {"release", "ended"} /\ ~m.failed => m.done \subseteq loaded

Machine ==
  [at : Single!Stage, state : Single!RunState, queue : SUBSET Corpus, active : SUBSET Corpus,
   paused : SUBSET Outlet, done : SUBSET Corpus, cp : SUBSET Corpus, bq : SUBSET Corpus,
   script : Seq(Single!Op), item : Corpus \cup {None}, failed : BOOLEAN, reduced : BOOLEAN,
   reloading : BOOLEAN]
Stores ==
  /\ lease \in [owner : Attempt \cup {None}, left : 0..RunLease] /\ knows \subseteq Attempt
  /\ checkpoint \subseteq Corpus /\ loaded \subseteq checkpoint /\ stop \in BOOLEAN
  /\ progress \in Single!RunState \cup {None} /\ (progress = "completed" => loaded = Corpus)
  /\ restarts \in [Single!Execution -> 0..MaxRestarts] /\ recycled \in [Single!Execution -> Nat]
RunInv == Stores /\ proc \in [Attempt -> Machine] /\ \A p \in Attempt : Fit(proc[p])

-----------------------------------------------------------------------------
(* Scripts                                                                 *)

LEMMA TailShape ==
  ASSUME NEW s \in Seq(Single!Op), s # <<>>
  PROVE  /\ Tail(s) \in Seq(Single!Op) /\ Len(Tail(s)) = Len(s) - 1 /\ Len(s) \in Nat \ {0}
         /\ \A i \in 1..(Len(s) - 1) : Tail(s)[i] = s[i + 1]
         /\ Head(s) = s[1] /\ Head(s) \in Single!Op
OBVIOUS

LEMMA FlushShape ==
  ASSUME NEW s \in Seq(Single!Op), s # <<>>
  PROVE  /\ Single!FlushBq \o Tail(s) \in Seq(Single!Op) /\ Len(Single!FlushBq \o Tail(s)) = Len(s) + 2
         /\ (Single!FlushBq \o Tail(s))[1] = "cpAll" /\ (Single!FlushBq \o Tail(s))[2] = "renew"
         /\ (Single!FlushBq \o Tail(s))[3] = "load"
         /\ \A i \in 4..(Len(s) + 2) : (Single!FlushBq \o Tail(s))[i] = s[i - 2]
BY TailShape DEF Single!FlushBq, Single!Op

LEMMA FinalScripts ==
  /\ LET s == Single!FlushFinal \o <<"progress">>
     IN s \in Seq(Single!Op) /\ Len(s) = 3 /\ s[1] = "cpAll" /\ s[2] = "bqAll" /\ s[3] = "progress"
  /\ LET s == Single!FlushFinal \o <<"progress", "event">>
     IN s \in Seq(Single!Op) /\ Len(s) = 4 /\ s[1] = "cpAll" /\ s[2] = "bqAll" /\ s[3] = "progress" /\ s[4] = "event"
BY DEF Single!FlushFinal, Single!Op

\* The head of a script has been done: a flush of the checkpoint has emptied its buffer, and
\* one of the events theirs.
LEMMA DropKeepsShape ==
  ASSUME NEW s \in Seq(Single!Op), s # <<>>, NEW cp, NEW bq, NEW cpn, NEW bqn, NEW where,
         Shape(s, where, cp, bq), s[1] = "cpAll" => cpn = {}, s[1] = "renew" => cpn = cp,
         bq = {} => bqn = {} \/ where # "final", s[1] \in {"bqAll", "load"} => bqn = {}
  PROVE  Shape(Tail(s), where, cpn, bqn)
<1> DEFINE t == Tail(s)
<1>1. /\ t \in Seq(Single!Op) /\ Len(t) = Len(s) - 1 /\ Len(s) \in Nat \ {0}
      /\ \A i \in 1..(Len(s) - 1) : t[i] = s[i + 1]
  BY TailShape
<1> HIDE DEF t
<1>2. ASSUME NEW i \in 1..Len(t), t[i] = "load"
      PROVE  \/ i = 1 /\ cpn = {}
             \/ i = 2 /\ cpn = {} /\ t[1] = "renew"
             \/ i = 3 /\ t[1] = "cpAll" /\ t[2] = "renew"
  <2>1. i + 1 \in 1..Len(s) /\ s[i + 1] = "load" /\ i + 1 # 1
    BY <1>1, <1>2
  <2>2. \/ i + 1 = 2 /\ cp = {} /\ s[1] = "renew"
        \/ i + 1 = 3 /\ s[1] = "cpAll" /\ s[2] = "renew"
    BY <2>1 DEF Shape, LoadsFlushed
  <2> QED BY <1>1, <2>1, <2>2
<1>3. LoadsFlushed(t, cpn)
  BY <1>2 DEF LoadsFlushed
<1>4. RecordsQueued(t)
  <2> SUFFICES ASSUME NEW i \in 1..Len(t), t[i] = "record"
               PROVE  /\ \E j \in 1..Len(t) : t[j] = "queue"
                      /\ \A j \in 1..Len(t) : t[j] = "queue" => i < j
    BY DEF RecordsQueued
  <2>1. i + 1 \in 1..Len(s) /\ s[i + 1] = "record"
    BY <1>1
  <2>2. PICK k \in 1..Len(s) : s[k] = "queue" /\ i + 1 < k
    BY <2>1 DEF Shape, RecordsQueued
  <2>3. k - 1 \in 1..Len(t) /\ t[k - 1] = "queue"
    BY <1>1, <2>2
  <2>4. ASSUME NEW j \in 1..Len(t), t[j] = "queue" PROVE i < j
    <3>1. j + 1 \in 1..Len(s) /\ s[j + 1] = "queue"
      BY <1>1, <2>4
    <3>2. i + 1 < j + 1
      BY <2>1, <3>1 DEF Shape, RecordsQueued
    <3> QED BY <3>2
  <2> QED BY <2>3, <2>4
<1>5. where # "result" => \A i \in 1..Len(t) : t[i] \notin {"record", "queue"}
  BY <1>1 DEF Shape
<1>6. where = "final" => FlushesLast(t, bqn)
  <2> SUFFICES ASSUME where = "final" PROVE FlushesLast(t, bqn)
    OBVIOUS
  <2>1. \A i \in 1..Len(t) : t[i] \in {"progress", "event"} => i >= Len(t) - 1
    BY <1>1 DEF Shape, FlushesLast
  <2>2. ASSUME bqn # {} PROVE Len(t) >= 3 /\ t[Len(t) - 2] \in {"bqAll", "load"}
    <3>1. Len(s) >= 3 /\ s[Len(s) - 2] \in {"bqAll", "load"} /\ s[1] \notin {"bqAll", "load"}
      BY <2>2 DEF Shape, FlushesLast
    <3>2. ASSUME Len(s) = 3 PROVE FALSE
      <4>1. Len(s) - 2 = 1
        BY <3>2
      <4> QED BY <3>1, <4>1
    <3> QED BY <1>1, <3>1, <3>2
  <2> QED BY <2>1, <2>2 DEF FlushesLast
<1> QED BY <1>3, <1>4, <1>5, <1>6 DEF Shape, t

\* A flush of the events is to be done: it begins with one of the checkpoint.
LEMMA FlushKeepsShape ==
  ASSUME NEW s \in Seq(Single!Op), s # <<>>, NEW cp, NEW bq, NEW where,
         Shape(s, where, cp, bq), s[1] \in Flushing
  PROVE  Shape(Single!FlushBq \o Tail(s), where, cp, bq)
<1> DEFINE t == Single!FlushBq \o Tail(s)
<1>1. /\ t \in Seq(Single!Op) /\ Len(t) = Len(s) + 2 /\ Len(s) \in Nat \ {0}
      /\ t[1] = "cpAll" /\ t[2] = "renew" /\ t[3] = "load"
      /\ \A i \in 4..(Len(s) + 2) : t[i] = s[i - 2]
  BY FlushShape, TailShape
<1> HIDE DEF t
<1>2. \A i \in 1..Len(t) : t[i] = "load" => i = 3
  <2> SUFFICES ASSUME NEW i \in 1..Len(t), t[i] = "load", i > 3 PROVE FALSE
    BY <1>1
  <2>1. i - 2 \in 1..Len(s) /\ s[i - 2] = "load"
    BY <1>1
  <2> QED BY <2>1 DEF Shape, LoadsFlushed, Flushing
<1>3. LoadsFlushed(t, cp)
  BY <1>1, <1>2 DEF LoadsFlushed
<1>4. RecordsQueued(t)
  <2> SUFFICES ASSUME NEW i \in 1..Len(t), t[i] = "record"
               PROVE  /\ \E j \in 1..Len(t) : t[j] = "queue"
                      /\ \A j \in 1..Len(t) : t[j] = "queue" => i < j
    BY DEF RecordsQueued
  <2>1. i > 3 /\ i - 2 \in 1..Len(s) /\ s[i - 2] = "record"
    BY <1>1
  <2>2. PICK k \in 1..Len(s) : s[k] = "queue" /\ i - 2 < k
    BY <2>1 DEF Shape, RecordsQueued
  <2>3. k + 2 \in 1..Len(t) /\ t[k + 2] = "queue"
    BY <1>1, <2>1, <2>2
  <2>4. ASSUME NEW j \in 1..Len(t), t[j] = "queue" PROVE i < j
    <3>1. j > 3 /\ j - 2 \in 1..Len(s) /\ s[j - 2] = "queue"
      BY <1>1, <2>4
    <3>2. i - 2 < j - 2
      BY <2>1, <3>1 DEF Shape, RecordsQueued
    <3> QED BY <3>1, <3>2
  <2> QED BY <2>3, <2>4
<1>5. where # "result" => \A i \in 1..Len(t) : t[i] \notin {"record", "queue"}
  <2> SUFFICES ASSUME where # "result", NEW i \in 1..Len(t) PROVE t[i] \notin {"record", "queue"}
    OBVIOUS
  <2>1. CASE i \in 1..3
    BY <1>1, <2>1
  <2>2. CASE i > 3
    BY <1>1, <2>2 DEF Shape
  <2> QED BY <2>1, <2>2
<1>6. where = "final" => FlushesLast(t, bq)
  <2> SUFFICES ASSUME where = "final" PROVE FlushesLast(t, bq)
    OBVIOUS
  <2>1. ASSUME NEW i \in 1..Len(t), t[i] \in {"progress", "event"} PROVE i >= Len(t) - 1
    <3>1. i > 3 /\ i - 2 \in 1..Len(s) /\ s[i - 2] \in {"progress", "event"}
      BY <1>1, <2>1
    <3>2. i - 2 >= Len(s) - 1
      BY <3>1 DEF Shape, FlushesLast
    <3> QED BY <1>1, <3>2
  <2>2. ASSUME bq # {} PROVE Len(t) >= 3 /\ t[Len(t) - 2] \in {"bqAll", "load"}
    <3>1. Len(s) >= 3 /\ s[Len(s) - 2] \in {"bqAll", "load"}
      BY <2>2 DEF Shape, FlushesLast
    <3> QED BY <1>1, <3>1
  <2> QED BY <2>1, <2>2 DEF FlushesLast
<1> QED BY <1>3, <1>4, <1>5, <1>6 DEF Shape, t

\* The scripts that are begun.
LEMMA NewShapes ==
  ASSUME NEW cp, NEW bq
  PROVE  /\ \A where : where # "final" => Shape(<<>>, where, cp, bq)
         /\ Shape(<<"bqAll">>, "restore", cp, bq)
         /\ Shape(Single!Result, "result", cp, bq)
         /\ Shape(Single!Periodic, "periodic", cp, bq)
         /\ Shape(Single!FlushFinal, "memory", cp, bq)
         /\ Shape(Single!FlushFinal \o <<"progress">>, "except", cp, bq)
         /\ Shape(<<"progress">>, "except", cp, bq)
         /\ Shape(Single!FlushFinal \o <<"progress", "event">>, "final", cp, bq)
<1> USE DEF Shape, LoadsFlushed, RecordsQueued, FlushesLast
<1>1. \A where : where # "final" => Shape(<<>>, where, cp, bq)
  OBVIOUS
<1>2. Shape(<<"bqAll">>, "restore", cp, bq) /\ Shape(<<"progress">>, "except", cp, bq)
  OBVIOUS
<1>3. Shape(Single!Result, "result", cp, bq)
  BY DEF Single!Result
<1>4. Shape(Single!Periodic, "periodic", cp, bq)
  BY DEF Single!Periodic
<1>5. Shape(Single!FlushFinal, "memory", cp, bq)
  BY DEF Single!FlushFinal
<1>6. Shape(Single!FlushFinal \o <<"progress">>, "except", cp, bq)
  BY FinalScripts
<1>7. Shape(Single!FlushFinal \o <<"progress", "event">>, "final", cp, bq)
  BY FinalScripts
<1> QED BY <1>1, <1>2, <1>3, <1>4, <1>5, <1>6, <1>7

-----------------------------------------------------------------------------
(* Steps of a process                                                      *)

LEMMA RunAssumed ==
  /\ None \notin Corpus /\ None \notin Attempt /\ None \notin Single!RunState /\ RunLease \in Nat \ {0} /\ MaxRestarts \in Nat
  /\ OutletOf \in [Corpus -> Outlet]
BY WorkAssumption DEF Single!RunAssumption

\* Checkpoints and loads only add.
LEMMA FitGrows ==
  ASSUME NEW m, Fit(m), checkpoint \subseteq checkpoint', loaded \subseteq loaded'
  PROVE  Fit(m)'
BY DEF Fit, Stored, Owed, Tells, Split, Shape, LoadsFlushed, RecordsQueued, FlushesLast

LEMMA OneProcess ==
  ASSUME RunInv, NEW p \in Attempt, NEW m \in Machine, Single!Become(p, m), Stores',
         checkpoint \subseteq checkpoint', loaded \subseteq loaded', Fit(m)'
  PROVE  RunInv'
<1>1. proc' \in [Attempt -> Machine] /\ proc'[p] = m /\ \A q \in Attempt \ {p} : proc'[q] = proc[q]
  BY DEF RunInv, Single!Become
<1>2. ASSUME NEW q \in Attempt PROVE Fit(proc[q])'
  <2>1. CASE q = p
    <3>1. Fit(m)' /\ proc'[q] = m
      BY <1>1, <2>1
    <3> QED BY <3>1 DEF Fit, Stored, Owed, Tells, Split
  <2>2. CASE q # p
    <3> DEFINE r == proc[q]
    <3>1. Fit(r) /\ proc'[q] = r
      BY <1>1, <2>2 DEF RunInv
    <3> HIDE DEF r
    <3>2. \A k : Fit(k) => Fit(k)'
      BY FitGrows
    <3> QED BY <3>1, <3>2 DEF Fit, Stored, Owed, Tells, Split
  <2> QED BY <2>1, <2>2
<1> QED BY <1>1, <1>2 DEF RunInv

\* A step that leaves the stores alone.
LEMMA QuietStep ==
  ASSUME RunInv, NEW p \in Attempt, NEW m \in Machine, Single!Become(p, m), Fit(m), Single!Quiet
  PROVE  RunInv'
<1>1. Stores' /\ checkpoint' = checkpoint /\ loaded' = loaded
  BY DEF RunInv, Stores, Single!Quiet, Single!stores
<1>2. Fit(m)'
  BY <1>1, FitGrows
<1> QED BY <1>1, <1>2, OneProcess

\* An exception in the loop is caught: nothing of what is counted is lost, and the article
\* goes back to the queue unless it is counted.
LEMMA CaughtFits ==
  ASSUME NEW m \in Machine, m.bq \subseteq m.done, m.done \subseteq checkpoint \cup m.cp,
         m.queue \cap m.active = {}, (m.queue \cup m.active) \cap m.done = {},
         m.item \notin m.queue \cup m.active, Corpus \subseteq m.queue \cup m.active \cup m.done \cup {m.item},
         ~m.reloading
  PROVE  Single!Caught(m) \in Machine /\ Fit(Single!Caught(m))
<1> DEFINE n == Single!Caught(m)
           q == m.queue \cup ({m.item} \ (m.done \cup {None}))
<1>1. /\ n \in Machine /\ n.at = "loop" /\ n.state = "failed" /\ n.failed /\ n.script = <<>> /\ n.item = None
      /\ n.queue = q /\ n.active = m.active /\ n.done = m.done /\ n.bq = m.bq /\ n.cp = m.cp /\ ~n.reloading
  <2>1. n = [m EXCEPT !.at = "loop", !.state = "failed", !.failed = TRUE, !.script = <<>>, !.item = None, !.queue = q]
    BY DEF Single!Caught, Single!Requeued, Machine
  <2>2. "loop" \in Single!Stage /\ "failed" \in Single!RunState /\ <<>> \in Seq(Single!Op)
    BY DEF Single!Stage, Single!RunState
  <2>3. q \subseteq Corpus
    BY DEF Machine
  <2> HIDE DEF n, q
  <2> QED BY <2>1, <2>2, <2>3 DEF Machine
<1> HIDE DEF n
<1>2. Split(n)
  BY <1>1, RunAssumed DEF Split, Machine
<1>3. Stored(n)
  BY <1>1 DEF Stored
<1>4. Shape(n.script, n.at, n.cp, n.bq)
  <2>1. Shape(<<>>, "loop", n.cp, n.bq)
    BY NewShapes
  <2> QED BY <1>1, <2>1
<1>5. Tells(n)
  BY <1>1 DEF Tells
<1> QED BY <1>1, <1>2, <1>3, <1>4, <1>5 DEF Fit, n

\* The handler of the exceptions that end the loop.
LEMMA ExceptFits ==
  ASSUME NEW m \in Machine, m.bq \subseteq m.done, m.done \subseteq checkpoint \cup m.cp
  PROVE  Single!Except(m) \in Machine /\ Fit(Single!Except(m))
<1> DEFINE n == Single!Except(m)
<1>1. /\ n \in Machine /\ n.at = "except" /\ n.failed /\ n.bq = m.bq /\ n.cp = m.cp /\ n.done = m.done
      /\ n.script = Single!FlushFinal \o <<"progress">>
  BY FinalScripts DEF Single!Except, Machine, Single!Stage
<1> HIDE DEF n
<1>2. Shape(n.script, n.at, n.cp, n.bq)
  BY <1>1, NewShapes
<1> QED BY <1>1, <1>2 DEF Fit, Tells, Stored, Busy, Collecting, n

LEMMA FailsFits ==
  ASSUME NEW m \in Machine, Fit(m), m.at \in Busy \ {"loop"}, ~m.reloading
  PROVE  Single!Fails(m) \in Machine /\ Fit(Single!Fails(m))
<1>1. m.bq \subseteq m.done /\ m.done \subseteq checkpoint \cup m.cp
  BY DEF Fit, Stored
<1>2. CASE m.at \in {"result", "periodic"}
  <2>1. Split(m)
    BY <1>2 DEF Fit, Collecting
  <2>2. Single!Fails(m) = Single!Caught(m)
    BY <1>2 DEF Single!Fails
  <2> QED BY <1>1, <2>1, <2>2, CaughtFits DEF Split
<1>3. CASE m.at = "except"
  <2> DEFINE n == Single!Fails(m)
  <2>1. /\ n = [m EXCEPT !.script = n.script] /\ n.script \in {<<>>, <<"progress">>}
    BY <1>3 DEF Single!Fails, Machine
  <2>2. /\ n \in Machine /\ n.at = "except" /\ n.failed /\ n.bq = m.bq /\ n.cp = m.cp /\ n.done = m.done
    <3>1. <<>> \in Seq(Single!Op) /\ <<"progress">> \in Seq(Single!Op) /\ m.failed
      BY <1>3 DEF Fit, Tells, Single!Op
    <3> HIDE DEF n
    <3> QED BY <1>3, <2>1, <3>1 DEF Machine
  <2> HIDE DEF n
  <2>3. Shape(n.script, n.at, n.cp, n.bq)
    <3>1. Shape(<<>>, "except", n.cp, n.bq) /\ Shape(<<"progress">>, "except", n.cp, n.bq)
      BY NewShapes
    <3> QED BY <2>1, <2>2, <3>1
  <2>4. Fit(n)
    BY <1>1, <2>2, <2>3 DEF Fit, Tells, Stored, Busy, Collecting
  <2> QED BY <2>2, <2>4 DEF n
<1>4. CASE m.at \in {"restore", "memory", "final"}
  <2>1. Single!Fails(m) = Single!Except(m)
    BY <1>4 DEF Single!Fails
  <2> QED BY <1>1, <2>1, ExceptFits
<1> QED BY <1>2, <1>3, <1>4 DEF Busy

\* Who has a call to make is at work.
LEMMA AtWork ==
  ASSUME RunInv, NEW p \in Attempt
  PROVE  /\ proc[p] \in Machine /\ Fit(proc[p])
         /\ proc[p].script # <<>> \/ proc[p].reloading => proc[p].at \in Busy \ {"loop"}
BY DEF RunInv, Fit

LEMMA FailStep ==
  ASSUME RunInv, NEW p \in Attempt, NEW m \in Machine, Fit(m), m.at \in Busy \ {"loop"}, ~m.reloading,
         Single!Become(p, Single!Fails(m)), Stores', checkpoint \subseteq checkpoint', loaded \subseteq loaded'
  PROVE  RunInv'
<1> DEFINE n == Single!Fails(m)
<1>1. n \in Machine /\ Fit(n) /\ Single!Become(p, n)
  BY FailsFits
<1> HIDE DEF n
<1> QED BY <1>1, FitGrows, OneProcess

\* A call is done: a flush moves what a buffer holds to the store.
LEMMA CallFits ==
  ASSUME NEW m \in Machine, Fit(m), m.at \in Busy \ {"loop"}, m.script # <<>>,
         NEW n \in Machine, n.script = Tail(m.script), m.script[1] \notin {"record", "queue"},
         \A f \in {"at", "state", "queue", "active", "done", "item", "failed"} : n[f] = m[f],
         n.bq \subseteq m.bq,
         m.script[1] = "cpAll" => n.cp = {}, m.script[1] = "renew" => n.cp = m.cp,
         m.script[1] \in {"bqAll", "load"} => n.bq = {},
         checkpoint \subseteq checkpoint', loaded \subseteq loaded',
         m.cp \subseteq n.cp \cup checkpoint', m.bq \subseteq n.bq \cup loaded'
  PROVE  Fit(n)'
<1> DEFINE s == m.script
           t == n.script
<1>1. /\ s \in Seq(Single!Op) /\ Len(t) = Len(s) - 1 /\ Len(s) \in Nat \ {0}
      /\ \A i \in 1..(Len(s) - 1) : t[i] = s[i + 1]
  BY TailShape DEF Machine
<1>2. /\ n.at = m.at /\ n.state = m.state /\ n.queue = m.queue /\ n.active = m.active /\ n.done = m.done
      /\ n.item = m.item /\ n.failed = m.failed
  OBVIOUS
<1>3. Shape(t, n.at, n.cp, n.bq)
  BY <1>1, <1>2, DropKeepsShape DEF Fit
<1>4. \A x \in {"record", "queue"} : (\E i \in 1..Len(s) : s[i] = x) <=> \E i \in 1..Len(t) : t[i] = x
  <2> SUFFICES ASSUME NEW x \in {"record", "queue"}
               PROVE  (\E i \in 1..Len(s) : s[i] = x) <=> \E i \in 1..Len(t) : t[i] = x
    OBVIOUS
  <2>1. ASSUME NEW i \in 1..Len(s), s[i] = x PROVE \E j \in 1..Len(t) : t[j] = x
    <3>1. i # 1
      BY <2>1
    <3>2. i - 1 \in 1..Len(t) /\ t[i - 1] = x
      BY <1>1, <2>1, <3>1
    <3> QED BY <3>2
  <2>2. ASSUME NEW j \in 1..Len(t), t[j] = x PROVE \E i \in 1..Len(s) : s[i] = x
    <3>1. j + 1 \in 1..Len(s) /\ s[j + 1] = x
      BY <1>1, <2>2
    <3> QED BY <3>1
  <2> QED BY <2>1, <2>2
<1>5. Owed(n) = Owed(m)
  BY <1>2, <1>4 DEF Owed
<1>6. Stored(n)'
  <2>1. m.bq \subseteq m.done /\ m.done \subseteq checkpoint \cup m.cp
        /\ (~m.failed => m.done \subseteq loaded \cup m.bq \cup Owed(m))
    BY DEF Fit, Stored
  <2>2. Owed(n)' = Owed(n)
    BY DEF Owed
  <2> QED BY <1>2, <1>5, <2>1, <2>2 DEF Stored
<1>7. m.at \in Collecting => Split(n)
  <2> HAVE m.at \in Collecting
  <2>1. Split(m)
    BY DEF Fit
  <2> QED BY <1>2, <1>4, <2>1 DEF Split
<1>8. Tells(n)
  BY <1>2 DEF Fit, Tells
<1> QED BY <1>2, <1>3, <1>6, <1>7, <1>8 DEF Fit, Busy, Shape, LoadsFlushed, RecordsQueued, FlushesLast, Split, Tells

\* Where a step begins with a call.
LEMMA Calling ==
  ASSUME NEW m \in Machine, Fit(m), Single!Head1(m) # "none"
  PROVE  /\ m.script # <<>> /\ ~m.reloading /\ m.at \in Busy \ {"loop"}
         /\ Single!Head1(m) = m.script[1] /\ Single!Drop(m) \in Machine
         /\ Single!Drop(m) = [m EXCEPT !.script = Tail(m.script)]
<1>1. m.script # <<>> /\ ~m.reloading /\ Single!Head1(m) = Head(m.script)
  BY DEF Single!Head1
<1>2. Single!Drop(m) = [m EXCEPT !.script = Tail(m.script)] /\ Head(m.script) = m.script[1]
      /\ Tail(m.script) \in Seq(Single!Op)
  BY <1>1, TailShape DEF Single!Drop, Machine
<1>3. Single!Drop(m) \in Machine
  BY <1>2 DEF Machine
<1>4. m.at \in Busy \ {"loop"}
  BY <1>1 DEF Fit
<1> QED BY <1>1, <1>2, <1>3, <1>4

LEMMA StoresStay ==
  ASSUME Stores, UNCHANGED <<Single!stores, restarts, recycled, stop>>
  PROVE  Stores' /\ checkpoint' = checkpoint /\ loaded' = loaded
BY DEF Stores, Single!stores

LEMMA SkipInv ==
  ASSUME RunInv, NEW p \in Attempt, NEW m \in Machine, m = proc[p], Single!Skip(p)
  PROVE  RunInv'
<1> DEFINE n == Single!Drop(m)
<1>0. Fit(m)
  BY AtWork
<1>1. Single!Head1(m) \in {"cpFull", "cpAll", "cpSome", "bqFull", "bqAll", "bqSome"} /\ Single!Become(p, n)
  BY DEF Single!Skip, Single!May
<1>2. /\ m.script # <<>> /\ Single!Head1(m) = m.script[1] /\ n \in Machine /\ m.at \in Busy \ {"loop"}
      /\ n = [m EXCEPT !.script = Tail(m.script)]
  BY <1>0, <1>1, Calling
<1>3. (m.script[1] = "cpAll" => m.cp = {}) /\ (m.script[1] = "bqAll" => m.bq = {})
  BY <1>2 DEF Single!Skip, Single!May, Single!Wanted
<1>4. /\ n.script = Tail(m.script) /\ n.bq = m.bq /\ n.cp = m.cp
      /\ \A f \in {"at", "state", "queue", "active", "done", "item", "failed"} : n[f] = m[f]
  BY <1>2 DEF Machine
<1> HIDE DEF n
<1>5. Stores' /\ checkpoint' = checkpoint /\ loaded' = loaded
  BY StoresStay DEF Single!Skip, RunInv
<1>6. Fit(n)'
  BY <1>0, <1>1, <1>2, <1>3, <1>4, <1>5, CallFits
<1> QED BY <1>1, <1>2, <1>5, <1>6, OneProcess

LEMMA CheckpointInv ==
  ASSUME RunInv, NEW p \in Attempt, NEW m \in Machine, m = proc[p], Single!FlushCheckpoint(p)
  PROVE  RunInv'
<1> DEFINE n == [Single!Drop(m) EXCEPT !.cp = {}]
<1>0. Fit(m)
  BY AtWork
<1>1. Single!Head1(m) \in {"cpFull", "cpAll", "cpSome"}
  BY DEF Single!FlushCheckpoint
<1>2. /\ m.script # <<>> /\ ~m.reloading /\ Single!Head1(m) = m.script[1] /\ m.at \in Busy \ {"loop"}
      /\ Single!Drop(m) \in Machine /\ Single!Drop(m) = [m EXCEPT !.script = Tail(m.script)]
  BY <1>0, <1>1, Calling
<1>3. /\ n \in Machine /\ n.script = Tail(m.script) /\ n.bq = m.bq /\ n.cp = {}
      /\ \A f \in {"at", "state", "queue", "active", "done", "item", "failed"} : n[f] = m[f]
  BY <1>2 DEF Machine
<1>4. m.cp \subseteq Corpus
  BY DEF Machine
<1>5. checkpoint' \in {checkpoint, checkpoint \cup m.cp} /\ UNCHANGED <<lease, knows, loaded, progress, restarts, recycled, stop>>
  BY DEF Single!FlushCheckpoint
<1>6. Stores' /\ checkpoint \subseteq checkpoint' /\ loaded' = loaded
  BY <1>4, <1>5 DEF RunInv, Stores
<1>7. CASE checkpoint' = checkpoint \cup m.cp /\ Single!Become(p, n)
  <2> HIDE DEF n
  <2>1. Fit(n)'
    BY <1>0, <1>1, <1>2, <1>3, <1>6, <1>7, CallFits
  <2> QED BY <1>3, <1>6, <1>7, <2>1, OneProcess
<1>8. CASE Single!Become(p, Single!Fails(m))
  BY <1>0, <1>2, <1>6, <1>8, FailStep
<1> QED BY <1>7, <1>8 DEF Single!FlushCheckpoint

LEMMA LoadInv ==
  ASSUME RunInv, NEW p \in Attempt, NEW m \in Machine, m = proc[p], Single!Load(p)
  PROVE  RunInv'
<1> DEFINE n == [Single!Drop(m) EXCEPT !.bq = {}]
<1>0. Fit(m)
  BY AtWork
<1>1. Single!Head1(m) = "load"
  BY DEF Single!Load
<1>2. /\ m.script # <<>> /\ ~m.reloading /\ Single!Head1(m) = m.script[1] /\ m.at \in Busy \ {"loop"}
      /\ Single!Drop(m) \in Machine /\ Single!Drop(m) = [m EXCEPT !.script = Tail(m.script)]
  BY <1>0, <1>1, Calling
<1>3. /\ n \in Machine /\ n.script = Tail(m.script) /\ n.bq = {} /\ n.cp = m.cp
      /\ \A f \in {"at", "state", "queue", "active", "done", "item", "failed"} : n[f] = m[f]
  BY <1>2 DEF Machine
\* An event is loaded only once its checkpoint is stored.
<1>4. m.bq \subseteq checkpoint
  <2>1. m.bq \subseteq m.done /\ m.done \subseteq checkpoint \cup m.cp /\ LoadsFlushed(m.script, m.cp)
    BY <1>0, <1>2 DEF Fit, Stored, Shape
  <2>2. m.cp = {}
    <3>1. 1 \in 1..Len(m.script) /\ m.script[1] = "load"
      BY <1>1, <1>2, TailShape DEF Machine
    <3> QED BY <2>1, <3>1 DEF LoadsFlushed
  <2> QED BY <2>1, <2>2
<1>5. loaded' \in {loaded, loaded \cup m.bq} /\ UNCHANGED <<lease, knows, checkpoint, progress, restarts, recycled, stop>>
  BY DEF Single!Load
<1>6. Stores' /\ loaded \subseteq loaded' /\ checkpoint' = checkpoint
  BY <1>4, <1>5 DEF RunInv, Stores
<1>7. CASE loaded' = loaded \cup m.bq /\ Single!Become(p, n)
  <2> HIDE DEF n
  <2>1. Fit(n)'
    BY <1>0, <1>1, <1>2, <1>3, <1>6, <1>7, CallFits
  <2> QED BY <1>3, <1>6, <1>7, <2>1, OneProcess
<1>8. CASE Single!Become(p, Single!Fails(m))
  BY <1>0, <1>2, <1>6, <1>8, FailStep
<1> QED BY <1>7, <1>8 DEF Single!Load

LEMMA RenewInv ==
  ASSUME RunInv, NEW p \in Attempt, NEW m \in Machine, m = proc[p], Single!Renew(p)
  PROVE  RunInv'
<1> DEFINE n == [Single!Drop(m) EXCEPT !.reloading = TRUE]
<1>0. Fit(m)
  BY AtWork
<1>1. /\ Single!Head1(m) = "renew" /\ UNCHANGED <<checkpoint, loaded, progress, restarts, recycled, stop>>
      /\ Single!Become(p, n) \/ Single!Become(p, Single!Fails(m))
  BY DEF Single!Renew
<1>2. /\ m.script # <<>> /\ ~m.reloading /\ Single!Head1(m) = m.script[1] /\ m.at \in Busy \ {"loop"}
      /\ Single!Drop(m) \in Machine /\ Single!Drop(m) = [m EXCEPT !.script = Tail(m.script)]
  BY <1>0, <1>1, Calling
<1>3. /\ n \in Machine /\ n.script = Tail(m.script) /\ n.bq = m.bq /\ n.cp = m.cp
      /\ \A f \in {"at", "state", "queue", "active", "done", "item", "failed"} : n[f] = m[f]
  BY <1>2 DEF Machine
<1>4. lease' \in [owner : Attempt \cup {None}, left : 0..RunLease] /\ knows' \subseteq Attempt
  BY RunAssumed DEF Single!Renew, Single!Taken, RunInv, Stores
<1>5. Stores'
  BY <1>1, <1>4 DEF RunInv, Stores
<1>6. CASE Single!Become(p, n)
  <2> HIDE DEF n
  <2>1. Fit(n)'
    BY <1>0, <1>1, <1>2, <1>3, CallFits
  <2> QED BY <1>1, <1>3, <1>5, <1>6, <2>1, OneProcess
<1>7. CASE Single!Become(p, Single!Fails(m))
  BY <1>0, <1>1, <1>2, <1>5, <1>7, FailStep
<1> QED BY <1>1, <1>6, <1>7

LEMMA ReloadInv ==
  ASSUME RunInv, NEW p \in Attempt, NEW m \in Machine, m = proc[p], Single!Reload(p)
  PROVE  RunInv'
<1> DEFINE n == [m EXCEPT !.reloading = FALSE]
<1>0. Fit(m) /\ m.at \in Busy \ {"loop"}
  BY AtWork DEF Single!Reload
<1>1. /\ n \in Machine /\ ~n.reloading
      /\ \A f \in {"at", "state", "queue", "active", "paused", "done", "cp", "bq", "script", "item", "failed"} : n[f] = m[f]
  BY DEF Machine
<1>2. /\ Single!Become(p, n) \/ Single!Become(p, Single!Fails(n))
      /\ knows' \in {knows, knows \cup {p}} /\ UNCHANGED <<lease, checkpoint, loaded, progress, restarts, recycled, stop>>
  BY DEF Single!Reload
<1> HIDE DEF n
<1>3. Fit(n)
  BY <1>0, <1>1 DEF Fit, Tells, Stored, Owed, Split
<1>4. Stores'
  BY <1>2 DEF RunInv, Stores
<1>5. CASE Single!Become(p, n)
  <2>1. Fit(n)'
    BY <1>2, <1>3, FitGrows
  <2> QED BY <1>1, <1>2, <1>4, <1>5, <2>1, OneProcess
<1>6. CASE Single!Become(p, Single!Fails(n))
  BY <1>0, <1>1, <1>2, <1>3, <1>4, <1>6, FailStep
<1> QED BY <1>2, <1>5, <1>6

LEMMA EventsInv ==
  ASSUME RunInv, NEW p \in Attempt, NEW m \in Machine, m = proc[p], Single!FlushEvents(p)
  PROVE  RunInv'
<1> DEFINE s == m.script
           t == Single!FlushBq \o Tail(m.script)
           n == [m EXCEPT !.script = t]
<1>0. Fit(m) /\ Single!Head1(m) \in Flushing
  BY AtWork DEF Single!FlushEvents, Flushing
<1>1. /\ s # <<>> /\ s \in Seq(Single!Op) /\ s[1] \in Flushing /\ m.at \in Busy \ {"loop"}
  BY <1>0, Calling DEF Machine, Flushing
<1>2. Single!Become(p, n) /\ Single!Quiet
  BY DEF Single!FlushEvents, Single!Quiet
<1>3. /\ t \in Seq(Single!Op) /\ Len(t) = Len(s) + 2 /\ t[1] = "cpAll" /\ t[2] = "renew" /\ t[3] = "load"
      /\ \A i \in 4..(Len(s) + 2) : t[i] = s[i - 2]
  BY <1>1, FlushShape
<1>4. /\ n \in Machine /\ n.script = t
      /\ \A f \in {"at", "state", "queue", "active", "paused", "done", "cp", "bq", "item", "failed", "reloading"} : n[f] = m[f]
  BY <1>3 DEF Machine
<1>5. Shape(t, m.at, m.cp, m.bq)
  BY <1>0, <1>1, FlushKeepsShape DEF Fit
<1> HIDE DEF n, t
<1>6. \A x \in {"record", "queue"} : (\E i \in 1..Len(s) : s[i] = x) <=> \E i \in 1..Len(t) : t[i] = x
  <2> SUFFICES ASSUME NEW x \in {"record", "queue"}
               PROVE  (\E i \in 1..Len(s) : s[i] = x) <=> \E i \in 1..Len(t) : t[i] = x
    OBVIOUS
  <2>0. Len(s) \in Nat
    BY <1>1
  <2>1. ASSUME NEW i \in 1..Len(s), s[i] = x PROVE \E j \in 1..Len(t) : t[j] = x
    <3>1. i # 1
      BY <1>1, <2>1 DEF Flushing
    <3>2. i + 2 \in 1..Len(t) /\ t[i + 2] = x
      BY <1>3, <2>0, <2>1, <3>1
    <3> QED BY <3>2
  <2>2. ASSUME NEW j \in 1..Len(t), t[j] = x PROVE \E i \in 1..Len(s) : s[i] = x
    <3>1. j > 3
      BY <1>3, <2>0, <2>2
    <3>2. j - 2 \in 1..Len(s) /\ s[j - 2] = x
      BY <1>3, <2>0, <2>2, <3>1
    <3> QED BY <3>2
  <2> QED BY <2>1, <2>2
<1>7. Owed(n) = Owed(m)
  BY <1>4, <1>6 DEF Owed
<1>8. m.at \in Collecting => Split(n)
  <2> HAVE m.at \in Collecting
  <2>1. Split(m)
    BY <1>0 DEF Fit
  <2> QED BY <1>4, <1>6, <2>1 DEF Split
<1>9. Fit(n)
  BY <1>0, <1>1, <1>4, <1>5, <1>7, <1>8 DEF Fit, Tells, Stored, Busy
<1> QED BY <1>2, <1>4, <1>9, QuietStep

\* A result is counted in the checkpoint's buffer before its event is queued.
LEMMA BufferInv ==
  ASSUME RunInv, NEW p \in Attempt, NEW m \in Machine, m = proc[p], Single!Buffer(p)
  PROVE  RunInv'
<1> DEFINE s == m.script
           t == Tail(m.script)
<1>0. Fit(m) /\ Single!Head1(m) \in {"record", "queue"} /\ Single!Quiet
  BY AtWork DEF Single!Buffer, Single!Quiet
<1>1. /\ s # <<>> /\ ~m.reloading /\ s[1] = Single!Head1(m) /\ m.at \in Busy \ {"loop"}
      /\ Single!Drop(m) \in Machine /\ Single!Drop(m) = [m EXCEPT !.script = t]
  BY <1>0, Calling
<1>2. /\ s \in Seq(Single!Op) /\ Len(t) = Len(s) - 1 /\ Len(s) \in Nat \ {0}
      /\ \A i \in 1..(Len(s) - 1) : t[i] = s[i + 1]
  BY <1>1, TailShape DEF Machine
<1>3. m.at = "result" /\ Split(m) /\ m.item \in Corpus
  <2>1. m.at = "result"
    BY <1>0, <1>1, <1>2 DEF Fit, Shape
  <2> QED BY <1>0, <2>1 DEF Fit, Collecting, Split, Machine
<1>4. ASSUME NEW cpn, NEW bqn PROVE Shape(t, "result", cpn, bqn)
  <2>1. Shape(s, "result", m.cp, m.bq) /\ s[1] \in {"record", "queue"} /\ s # <<>> /\ s \in Seq(Single!Op)
    BY <1>0, <1>1, <1>2, <1>3 DEF Fit
  <2> QED BY <2>1, DropKeepsShape, SMTT(30)
<1> HIDE DEF t
<1>5. CASE s[1] = "record" /\ Single!Become(p, [Single!Drop(m) EXCEPT !.cp = @ \cup {m.item}, !.done = @ \cup {m.item}])
  <2> DEFINE n == [Single!Drop(m) EXCEPT !.cp = @ \cup {m.item}, !.done = @ \cup {m.item}]
  <2>1. /\ n \in Machine /\ n.script = t /\ n.cp = m.cp \cup {m.item} /\ n.done = m.done \cup {m.item}
        /\ \A f \in {"at", "state", "queue", "active", "bq", "item", "failed"} : n[f] = m[f]
    BY <1>1, <1>3 DEF Machine
  <2> HIDE DEF n
  <2>2. \E j \in 1..Len(t) : t[j] = "queue"
    <3>1. 1 \in 1..Len(s)
      BY <1>2
    <3>2. PICK k \in 1..Len(s) : s[k] = "queue"
      BY <1>0, <1>1, <1>5, <3>1 DEF Fit, Shape, RecordsQueued
    <3>3. k # 1
      BY <1>5, <3>2
    <3>4. k - 1 \in 1..Len(t) /\ t[k - 1] = "queue"
      BY <1>2, <3>2, <3>3
    <3> QED BY <3>4
  <2>3. Owed(n) = {m.item}
    BY <2>1, <2>2 DEF Owed
  <2>4. Stored(n)
    <3>1. Stored(m) /\ Owed(m) \subseteq {m.item}
      BY <1>0, <1>1 DEF Fit, Owed
    <3> QED BY <2>1, <2>3, <3>1 DEF Stored
  <2>5. Split(n)
    BY <1>3, <2>1 DEF Split
  <2>6. Fit(n)
    BY <1>0, <1>1, <1>3, <1>4, <1>5, <2>1, <2>4, <2>5 DEF Fit, Tells, Busy, Collecting
  <2> QED BY <1>0, <1>5, <2>1, <2>6, QuietStep DEF n
<1>6. CASE s[1] = "queue" /\ Single!Become(p, [Single!Drop(m) EXCEPT !.bq = @ \cup {m.item}])
  <2> DEFINE n == [Single!Drop(m) EXCEPT !.bq = @ \cup {m.item}]
  <2>1. /\ n \in Machine /\ n.script = t /\ n.bq = m.bq \cup {m.item}
        /\ \A f \in {"at", "state", "queue", "active", "cp", "done", "item", "failed"} : n[f] = m[f]
    BY <1>1, <1>3 DEF Machine
  <2> HIDE DEF n
  <2>2. \A i \in 1..Len(s) : s[i] # "record"
    <3>1. 1 \in 1..Len(s)
      BY <1>2
    <3> QED BY <1>0, <1>1, <1>6, <3>1 DEF Fit, Shape, RecordsQueued
  <2>3. m.item \in m.done
    BY <1>3, <2>2 DEF Split
  <2>4. Stored(n)
    <3>1. Stored(m) /\ Owed(m) \subseteq {m.item}
      BY <1>0, <1>1 DEF Fit, Owed
    <3> QED BY <2>1, <2>3, <3>1 DEF Stored
  <2>5. Split(n)
    BY <1>3, <2>1, <2>3 DEF Split
  <2>6. Fit(n)
    BY <1>0, <1>1, <1>3, <1>4, <1>6, <2>1, <2>4, <2>5 DEF Fit, Tells, Busy, Collecting
  <2> QED BY <1>0, <1>6, <2>1, <2>6, QuietStep DEF n
<1> QED BY <1>1, <1>5, <1>6 DEF Single!Buffer

\* A completed run is reported once its events are loaded.
LEMMA ReportInv ==
  ASSUME RunInv, NEW p \in Attempt, NEW m \in Machine, m = proc[p], Single!Report(p)
  PROVE  RunInv'
<1> DEFINE n == Single!Drop(m)
<1>0. Fit(m)
  BY AtWork
<1>1. /\ Single!Head1(m) \in {"progress", "event"}
      /\ Single!Become(p, n) \/ Single!Become(p, Single!Fails(m))
      /\ UNCHANGED <<lease, knows, checkpoint, loaded, restarts, recycled, stop>>
      /\ \/ progress' \in {progress, "failed"}
         \/ Single!Head1(m) = "progress" /\ m.at # "except" /\ progress' = m.state
  BY DEF Single!Report
<1>2. /\ m.script # <<>> /\ ~m.reloading /\ Single!Head1(m) = m.script[1] /\ n \in Machine /\ m.at \in Busy \ {"loop"}
      /\ n = [m EXCEPT !.script = Tail(m.script)]
  BY <1>0, <1>1, Calling
<1>3. /\ n.script = Tail(m.script) /\ n.bq = m.bq /\ n.cp = m.cp
      /\ \A f \in {"at", "state", "queue", "active", "done", "item", "failed"} : n[f] = m[f]
  BY <1>2 DEF Machine
<1>4. m.script[1] = "progress" /\ m.at # "except" /\ m.state = "completed" => loaded = Corpus
  <2> SUFFICES ASSUME m.script[1] = "progress", m.at # "except", m.state = "completed" PROVE loaded = Corpus
    OBVIOUS
  <2>1. m.at = "final" /\ ~m.failed /\ m.done = Corpus
    BY <1>0, <1>2 DEF Fit, Tells, Busy
  <2>2. Len(m.script) \in Nat /\ 1 \in 1..Len(m.script)
    BY <1>2, TailShape DEF Machine
  <2>3. m.bq = {}
    BY <1>0, <1>2, <2>1, <2>2 DEF Fit, Shape, FlushesLast
  <2>4. Owed(m) = {}
    BY <1>0, <1>2, <2>1 DEF Fit, Shape, Owed
  <2>5. Corpus \subseteq loaded
    BY <1>0, <1>2, <2>1, <2>3, <2>4 DEF Fit, Stored
  <2> QED BY <2>5 DEF RunInv, Stores
<1>5. Stores'
  <2>1. m.state \in Single!RunState /\ "failed" \in Single!RunState
    BY DEF Machine, Single!RunState
  <2>2. progress' \in Single!RunState \cup {None} /\ (progress' = "completed" => loaded = Corpus)
    BY <1>1, <1>2, <1>4, <2>1 DEF RunInv, Stores
  <2> QED BY <1>1, <2>2 DEF RunInv, Stores
<1> HIDE DEF n
<1>6. CASE Single!Become(p, n)
  <2>1. Fit(n)'
    BY <1>0, <1>1, <1>2, <1>3, CallFits
  <2> QED BY <1>1, <1>2, <1>5, <1>6, <2>1, OneProcess
<1>7. CASE Single!Become(p, Single!Fails(m))
  BY <1>0, <1>1, <1>2, <1>5, <1>7, FailStep
<1> QED BY <1>1, <1>6, <1>7

-----------------------------------------------------------------------------
(* Steps of the loop                                                       *)

\* Between two scripts.
LEMMA Between ==
  ASSUME NEW m \in Machine, Fit(m), m.script = <<>>
  PROVE  /\ m.at \in Busy => m.bq \subseteq m.done /\ m.done \subseteq checkpoint \cup m.cp
         /\ m.at \in Busy /\ ~m.failed => m.done \subseteq loaded \cup m.bq
         /\ m.at = "result" => m.item \in m.done
BY DEF Fit, Stored, Owed, Split, Collecting

LEMMA RestoredInv ==
  ASSUME RunInv, NEW p \in Attempt, NEW m \in Machine, m = proc[p], Single!Restored(p)
  PROVE  RunInv'
<1> DEFINE n == [m EXCEPT !.at = "loop", !.queue = Corpus \ m.done]
<1>0. /\ Fit(m) /\ m.at = "restore" /\ m.script = <<>> /\ ~m.reloading /\ Single!Quiet /\ Single!Become(p, n)
  BY AtWork DEF Single!Restored, Single!Ready
<1>1. /\ n \in Machine /\ n.at = "loop" /\ n.queue = Corpus \ m.done
      /\ \A f \in {"state", "active", "done", "cp", "bq", "script", "item", "failed", "reloading"} : n[f] = m[f]
  BY DEF Machine, Single!Stage
<1> HIDE DEF n
<1>2. m.active = {} /\ m.item = None /\ ~m.failed /\ m.state # "completed"
  BY <1>0 DEF Fit, Tells
<1>3. Shape(n.script, "loop", n.cp, n.bq)
  <2>1. Shape(<<>>, "loop", n.cp, n.bq) /\ n.script = m.script
    BY <1>1, NewShapes
  <2> QED BY <1>0, <2>1
<1>4. Split(n)
  BY <1>1, <1>2, RunAssumed DEF Split
<1>5. Stored(n)
  BY <1>0, <1>1, Between DEF Stored, Busy
<1>6. Fit(n)
  BY <1>0, <1>1, <1>2, <1>3, <1>4, <1>5 DEF Fit, Tells, Busy, Collecting
<1> QED BY <1>0, <1>1, <1>6, QuietStep

LEMMA UpdateInv ==
  ASSUME RunInv, NEW p \in Attempt, NEW m \in Machine, m = proc[p], Single!Update(p)
  PROVE  RunInv'
<1> DEFINE n == [m EXCEPT !.at = "periodic", !.script = Single!Periodic]
<1>0. /\ Fit(m) /\ m.at = "loop" /\ m.script = <<>> /\ Single!Quiet /\ Single!Become(p, n)
  BY AtWork DEF Single!Update, Single!Ready
<1>1. /\ n \in Machine /\ n.at = "periodic" /\ n.script = Single!Periodic
      /\ \A f \in {"state", "queue", "active", "done", "cp", "bq", "item", "failed", "reloading"} : n[f] = m[f]
  <2>1. Single!Periodic \in Seq(Single!Op) /\ "periodic" \in Single!Stage
    BY DEF Single!Periodic, Single!Op, Single!Stage
  <2> QED BY <2>1 DEF Machine
<1> HIDE DEF n
<1>2. Split(m)
  BY <1>0 DEF Fit, Collecting
<1>3. Shape(n.script, "periodic", n.cp, n.bq)
  BY <1>1, NewShapes
<1>4. Split(n)
  BY <1>0, <1>1, <1>2 DEF Split
<1>5. Stored(n)
  BY <1>0, <1>1, Between DEF Stored, Busy
<1>6. Fit(n)
  BY <1>0, <1>1, <1>3, <1>4, <1>5 DEF Fit, Tells, Busy, Collecting
<1> QED BY <1>0, <1>1, <1>6, QuietStep

\* The state changes and the place perhaps, back in the loop.
LEMMA StateStep ==
  ASSUME RunInv, NEW p \in Attempt, NEW m \in Machine, Fit(m), m.at \in {"loop", "periodic", "memory"}, m.script = <<>>,
         ~m.reloading, NEW st \in Single!RunState, st # "completed", m.failed => st = "failed",
         Single!Become(p, [m EXCEPT !.at = "loop", !.state = st]), Single!Quiet
  PROVE  RunInv'
<1> DEFINE n == [m EXCEPT !.at = "loop", !.state = st]
<1>1. /\ n \in Machine /\ n.at = "loop" /\ n.state = st
      /\ \A f \in {"queue", "active", "done", "cp", "bq", "script", "item", "failed", "reloading"} : n[f] = m[f]
  BY DEF Machine, Single!Stage
<1>0. Single!Become(p, n)
  OBVIOUS
<1> HIDE DEF n
<1>2. Split(m)
  BY DEF Fit, Collecting
<1>3. Shape(n.script, "loop", n.cp, n.bq)
  BY <1>1, NewShapes
<1>4. Split(n)
  BY <1>1, <1>2 DEF Split
<1>5. Stored(n)
  BY <1>1, Between DEF Stored, Busy
<1>6. Fit(n)
  BY <1>1, <1>3, <1>4, <1>5 DEF Fit, Tells, Busy, Collecting
<1> QED BY <1>0, <1>1, <1>6, QuietStep

LEMMA TurnInv ==
  ASSUME RunInv, NEW p \in Attempt, NEW m \in Machine, m = proc[p], Single!Turn(p) \/ Single!Updated(p)
  PROVE  RunInv'
<1>0. Fit(m) /\ (m.at \in {"loop", "periodic"} => m.state # "completed" /\ (m.failed => m.state = "failed"))
  BY AtWork DEF Fit, Tells, Collecting
<1>1. {"interrupted", "continuing", "paused_limit", "paused_by_operator"} \subseteq Single!RunState /\ m.state \in Single!RunState
  BY DEF Single!RunState, Machine
<1>2. CASE Single!Turn(p)
  <2>1. /\ m.at = "loop" /\ m.script = <<>> /\ ~m.reloading /\ ~m.failed /\ Single!Quiet
        /\ \E st \in {"interrupted", "continuing"} : Single!Become(p, [m EXCEPT !.state = st])
    BY <1>2 DEF Single!Turn, Single!Ready
  <2>2. PICK st \in {"interrupted", "continuing"} : Single!Become(p, [m EXCEPT !.state = st])
    BY <2>1
  <2>3. [m EXCEPT !.state = st] = [m EXCEPT !.at = "loop", !.state = st]
    BY <2>1 DEF Machine
  <2>4. Single!Become(p, [m EXCEPT !.at = "loop", !.state = st])
    BY <2>2, <2>3
  <2> QED BY <1>0, <1>1, <2>1, <2>4, StateStep
<1>3. CASE Single!Updated(p)
  <2>1. /\ m.at = "periodic" /\ m.script = <<>> /\ ~m.reloading /\ Single!Quiet
    BY <1>3 DEF Single!Updated, Single!Ready
  <2>2. \E st \in {m.state, "paused_limit", "paused_by_operator"} :
          /\ m.failed => st = m.state
          /\ Single!Become(p, [m EXCEPT !.at = "loop", !.state = st])
    BY <1>3 DEF Single!Updated, Machine
  <2>3. PICK st \in {m.state, "paused_limit", "paused_by_operator"} :
          /\ m.failed => st = m.state
          /\ Single!Become(p, [m EXCEPT !.at = "loop", !.state = st])
    BY <2>2
  <2> QED BY <1>0, <1>1, <2>1, <2>3, StateStep
<1> QED BY <1>2, <1>3

LEMMA ScheduleInv ==
  ASSUME RunInv, NEW p \in Attempt, NEW m \in Machine, m = proc[p], Single!Schedule(p)
  PROVE  RunInv'
<1>0. /\ Fit(m) /\ m.at = "loop" /\ m.script = <<>> /\ ~m.reloading /\ Single!Quiet
      /\ \E a \in m.queue : Single!Become(p, [m EXCEPT !.queue = @ \ {a}, !.active = @ \cup {a}])
  BY AtWork DEF Single!Schedule, Single!Ready, Single!Eligible
<1>1. PICK a \in m.queue : Single!Become(p, [m EXCEPT !.queue = @ \ {a}, !.active = @ \cup {a}])
  BY <1>0
<1> DEFINE n == [m EXCEPT !.queue = @ \ {a}, !.active = @ \cup {a}]
<1>2. /\ n \in Machine /\ n.queue = m.queue \ {a} /\ n.active = m.active \cup {a}
      /\ \A f \in {"at", "state", "done", "cp", "bq", "script", "item", "failed", "reloading"} : n[f] = m[f]
  BY DEF Machine
<1>3. Single!Become(p, n)
  BY <1>1
<1> HIDE DEF n
<1>4. Split(n)
  <2>1. Split(m)
    BY <1>0 DEF Fit, Collecting
  <2> QED BY <1>0, <1>2, <2>1 DEF Split
<1>5. Stored(n)
  BY <1>0, <1>2, Between DEF Stored, Busy
<1>6. Fit(n)
  BY <1>0, <1>2, <1>4, <1>5 DEF Fit, Tells, Busy, Collecting
<1> QED BY <1>0, <1>2, <1>3, <1>6, QuietStep

LEMMA FinishInv ==
  ASSUME RunInv, NEW p \in Attempt, NEW m \in Machine, m = proc[p], Single!Finish(p)
  PROVE  RunInv'
<1>0. /\ Fit(m) /\ m.at = "loop" /\ m.script = <<>> /\ ~m.reloading /\ Single!Quiet
      /\ \E a \in m.active : LET k == [m EXCEPT !.active = @ \ {a}, !.item = a]
                              IN \/ Single!Become(p, [k EXCEPT !.at = "result", !.script = Single!Result])
                                 \/ Single!Become(p, Single!Caught(k))
  BY AtWork DEF Single!Finish, Single!Ready
<1>1. PICK a \in m.active : LET k == [m EXCEPT !.active = @ \ {a}, !.item = a]
                              IN \/ Single!Become(p, [k EXCEPT !.at = "result", !.script = Single!Result])
                                 \/ Single!Become(p, Single!Caught(k))
  BY <1>0
<1> DEFINE k == [m EXCEPT !.active = @ \ {a}, !.item = a]
           n == [k EXCEPT !.at = "result", !.script = Single!Result]
<1>2. /\ k \in Machine /\ k.active = m.active \ {a} /\ k.item = a
      /\ \A f \in {"at", "state", "queue", "done", "cp", "bq", "script", "failed", "reloading"} : k[f] = m[f]
  BY DEF Machine
<1>3. Single!Become(p, n) \/ Single!Become(p, Single!Caught(k))
  BY <1>1
<1>4. /\ n \in Machine /\ n.at = "result" /\ n.script = Single!Result
      /\ \A f \in {"state", "queue", "active", "done", "cp", "bq", "item", "failed", "reloading"} : n[f] = k[f]
  <2>1. Single!Result \in Seq(Single!Op) /\ "result" \in Single!Stage
    BY DEF Single!Result, Single!Op, Single!Stage
  <2> HIDE DEF k
  <2> QED BY <1>2, <2>1 DEF Machine
<1> HIDE DEF n, k
<1>5. Split(m) /\ a \in Corpus
  BY <1>0 DEF Fit, Collecting, Machine
<1>6. m.bq \subseteq m.done /\ m.done \subseteq checkpoint \cup m.cp /\ (~m.failed => m.done \subseteq loaded \cup m.bq)
  BY <1>0, Between DEF Busy
<1>7. CASE Single!Become(p, n)
  <2>1. Shape(n.script, "result", n.cp, n.bq)
    BY <1>4, NewShapes
  <2>2. \E i \in 1..Len(n.script) : n.script[i] = "record"
    <3>1. 2 \in 1..Len(Single!Result) /\ Single!Result[2] = "record"
      BY DEF Single!Result
    <3> QED BY <1>4, <3>1
  <2>3. Split(n)
    BY <1>0, <1>2, <1>4, <1>5, <2>2, RunAssumed DEF Split
  <2>4. Stored(n)
    BY <1>2, <1>4, <1>6 DEF Stored
  <2>5. Fit(n)
    BY <1>0, <1>2, <1>4, <2>1, <2>3, <2>4 DEF Fit, Tells, Busy, Collecting
  <2> QED BY <1>0, <1>4, <1>7, <2>5, QuietStep
<1>8. CASE Single!Become(p, Single!Caught(k))
  <2>1. Single!Caught(k) \in Machine /\ Fit(Single!Caught(k))
    <3>1. k.queue \cap k.active = {} /\ (k.queue \cup k.active) \cap k.done = {} /\ k.item \notin k.queue \cup k.active
          /\ Corpus \subseteq k.queue \cup k.active \cup k.done \cup {k.item} /\ ~k.reloading
      BY <1>0, <1>2, <1>5, RunAssumed DEF Split
    <3>2. k.bq \subseteq k.done /\ k.done \subseteq checkpoint \cup k.cp
      BY <1>2, <1>6
    <3> QED BY <1>2, <3>1, <3>2, CaughtFits
  <2> QED BY <1>0, <1>8, <2>1, QuietStep
<1> QED BY <1>3, <1>7, <1>8

LEMMA FinishedInv ==
  ASSUME RunInv, NEW p \in Attempt, NEW m \in Machine, m = proc[p], Single!Finished(p)
  PROVE  RunInv'
<1>0. /\ Fit(m) /\ m.at = "result" /\ m.script = <<>> /\ ~m.reloading /\ Single!Quiet
      /\ \E paused \in {{}, {OutletOf[m.item]}} :
           Single!Become(p, [m EXCEPT !.at = "loop", !.item = None, !.paused = @ \cup paused])
  BY AtWork DEF Single!Finished, Single!Ready
<1>1. PICK paused \in {{}, {OutletOf[m.item]}} :
        Single!Become(p, [m EXCEPT !.at = "loop", !.item = None, !.paused = @ \cup paused])
  BY <1>0
<1> DEFINE n == [m EXCEPT !.at = "loop", !.item = None, !.paused = @ \cup paused]
<1>2. Split(m) /\ m.item \in Corpus /\ OutletOf[m.item] \in Outlet
  BY <1>0, RunAssumed DEF Fit, Collecting, Split, Machine
<1>3. /\ n \in Machine /\ n.at = "loop" /\ n.item = None
      /\ \A f \in {"state", "queue", "active", "done", "cp", "bq", "script", "failed", "reloading"} : n[f] = m[f]
  BY <1>2 DEF Machine, Single!Stage
<1>4. Single!Become(p, n)
  BY <1>1
<1> HIDE DEF n
<1>5. Shape(n.script, "loop", n.cp, n.bq)
  <2>1. Shape(<<>>, "loop", n.cp, n.bq) /\ n.script = m.script
    BY <1>3, NewShapes
  <2> QED BY <1>0, <2>1
<1>6. Split(n)
  <2>1. m.item \in m.done
    BY <1>0, Between
  <2>2. n.queue \subseteq Corpus /\ n.active \subseteq Corpus
    BY <1>3 DEF Machine
  <2> QED BY <1>2, <1>3, <2>1, <2>2, RunAssumed DEF Split
<1>7. Stored(n)
  BY <1>0, <1>3, Between DEF Stored, Busy
<1>8. Fit(n)
  BY <1>0, <1>3, <1>5, <1>6, <1>7 DEF Fit, Tells, Busy, Collecting
<1> QED BY <1>0, <1>3, <1>4, <1>8, QuietStep

LEMMA PressureInv ==
  ASSUME RunInv, NEW p \in Attempt, NEW m \in Machine, m = proc[p], Single!Pressure(p)
  PROVE  RunInv'
<1> DEFINE n == [m EXCEPT !.at = "memory", !.script = Single!FlushFinal]
<1>0. /\ Fit(m) /\ m.at = "loop" /\ m.script = <<>> /\ m.state = "running" /\ Single!Quiet /\ Single!Become(p, n)
  BY AtWork DEF Single!Pressure, Single!Ready
<1>1. /\ n \in Machine /\ n.at = "memory" /\ n.script = Single!FlushFinal
      /\ \A f \in {"state", "queue", "active", "done", "cp", "bq", "item", "failed", "reloading"} : n[f] = m[f]
  <2>1. Single!FlushFinal \in Seq(Single!Op) /\ "memory" \in Single!Stage
    BY DEF Single!FlushFinal, Single!Op, Single!Stage
  <2> QED BY <2>1 DEF Machine
<1> HIDE DEF n
<1>2. Split(m)
  BY <1>0 DEF Fit, Collecting
<1>3. Shape(n.script, "memory", n.cp, n.bq)
  BY <1>1, NewShapes
<1>4. Split(n)
  BY <1>0, <1>1, <1>2 DEF Split
<1>5. Stored(n)
  BY <1>0, <1>1, Between DEF Stored, Busy
<1>6. Fit(n)
  BY <1>0, <1>1, <1>3, <1>4, <1>5 DEF Fit, Tells, Busy, Collecting
<1> QED BY <1>0, <1>1, <1>6, QuietStep

\* The work ends without a failure: the final flush is to be done.
LEMMA FinalFits ==
  ASSUME NEW m \in Machine, Fit(m), m.at \in {"loop", "memory"}, m.script = <<>>, ~m.failed,
         NEW st \in Single!RunState, st = "completed" => m.done = Corpus
  PROVE  LET n == [m EXCEPT !.at = "final", !.state = st, !.script = Single!FlushFinal \o <<"progress", "event">>]
         IN n \in Machine /\ Fit(n)
<1> DEFINE s == Single!FlushFinal \o <<"progress", "event">>
           n == [m EXCEPT !.at = "final", !.state = st, !.script = s]
<1>1. /\ n \in Machine /\ n.at = "final" /\ n.state = st /\ n.script = s
      /\ \A f \in {"done", "cp", "bq", "failed"} : n[f] = m[f]
  <2>1. s \in Seq(Single!Op) /\ "final" \in Single!Stage
    BY FinalScripts DEF Single!Stage
  <2> HIDE DEF s
  <2> QED BY <2>1 DEF Machine
<1>2. Shape(s, "final", n.cp, n.bq)
  BY NewShapes
<1> HIDE DEF n, s
<1>3. Stored(n)
  BY <1>1, Between DEF Stored, Busy
<1>4. Fit(n)
  BY <1>1, <1>2, <1>3 DEF Fit, Tells, Busy, Collecting
<1> QED BY <1>1, <1>4 DEF n, s

LEMMA RelieveInv ==
  ASSUME RunInv, NEW p \in Attempt, NEW m \in Machine, m = proc[p], Single!Relieve(p)
  PROVE  RunInv'
<1> DEFINE Final(st) == [m EXCEPT !.at = "final", !.state = st, !.script = Single!FlushFinal \o <<"progress", "event">>]
<1>0. /\ Fit(m) /\ m.at = "memory" /\ m.script = <<>> /\ ~m.reloading
      /\ UNCHANGED <<lease, knows, checkpoint, loaded, progress, recycled, stop>>
  BY AtWork DEF Single!Relieve, Single!Ready, Single!stores
<1>1. ~m.failed /\ m.state # "completed" /\ m.state \in Single!RunState
      /\ {"recovering_memory", "recovery_failed"} \subseteq Single!RunState
  BY <1>0 DEF Fit, Tells, Machine, Single!RunState
<1>2. ASSUME restarts' \in {restarts, Single!Reserved(p)}, restarts' # restarts => Single!MayRestart(p[1])
      PROVE  Stores'
  <2>1. restarts' \in [Single!Execution -> 0..MaxRestarts]
    <3>1. p[1] \in Single!Execution
      BY DEF Single!Execution
    <3> QED BY <1>2, <3>1, RunAssumed DEF Single!Reserved, Single!MayRestart, RunInv, Stores
  <2> QED BY <1>0, <2>1 DEF RunInv, Stores
<1>3. CASE Single!Become(p, [m EXCEPT !.at = "loop"]) /\ UNCHANGED restarts
  <2>1. [m EXCEPT !.at = "loop"] = [m EXCEPT !.at = "loop", !.state = m.state]
    BY DEF Machine
  <2>2. Single!Become(p, [m EXCEPT !.at = "loop", !.state = m.state])
    BY <1>3, <2>1
  <2>3. Single!Quiet
    BY <1>0, <1>3 DEF Single!Quiet, Single!stores
  <2> QED BY <1>0, <1>1, <2>2, <2>3, StateStep
<1>4. CASE /\ restarts' \in {restarts, Single!Reserved(p)}
           /\ restarts' # restarts => Single!MayRestart(p[1])
           /\ \E st \in {"recovering_memory", "recovery_failed"} : Single!Become(p, Final(st))
  <2>1. PICK st \in {"recovering_memory", "recovery_failed"} : Single!Become(p, Final(st))
    BY <1>4
  <2>2. Final(st) \in Machine /\ Fit(Final(st))
    BY <1>0, <1>1, FinalFits
  <2> DEFINE n == Final(st)
  <2>3. n \in Machine /\ Fit(n) /\ Single!Become(p, n)
    BY <2>1, <2>2
  <2> HIDE DEF n
  <2>4. Fit(n)'
    BY <1>0, <2>3, FitGrows
  <2> QED BY <1>0, <1>2, <1>4, <2>3, <2>4, OneProcess
<1>5. CASE /\ restarts' \in {restarts, Single!Reserved(p)} /\ Single!MayRestart(p[1])
           /\ Single!Become(p, Single!Except(m))
  <2> DEFINE n == Single!Except(m)
  <2>1. n \in Machine /\ Fit(n) /\ Single!Become(p, n)
    BY <1>0, <1>5, Between, ExceptFits DEF Busy
  <2> HIDE DEF n
  <2>2. Fit(n)'
    BY <1>0, <2>1, FitGrows
  <2> QED BY <1>0, <1>2, <1>5, <2>1, <2>2, OneProcess
<1>6. \/ Single!Become(p, [m EXCEPT !.at = "loop"]) /\ UNCHANGED restarts
      \/ Single!MayRestart(p[1]) /\ restarts' = Single!Reserved(p) /\ Single!Become(p, Final("recovering_memory"))
      \/ Single!MayRestart(p[1]) /\ restarts' \in {restarts, Single!Reserved(p)} /\ Single!Become(p, Single!Except(m))
      \/ UNCHANGED restarts /\ Single!Become(p, Final("recovery_failed"))
  BY DEF Single!Relieve
<1> HIDE DEF Final
<1> QED BY <1>3, <1>4, <1>5, <1>6

LEMMA LeaveInv ==
  ASSUME RunInv, NEW p \in Attempt, NEW m \in Machine, m = proc[p], Single!Leave(p)
  PROVE  RunInv'
<1> DEFINE Final(st) == [m EXCEPT !.at = "final", !.state = st, !.script = Single!FlushFinal \o <<"progress", "event">>]
<1>0. /\ Fit(m) /\ m.at = "loop" /\ m.script = <<>> /\ ~m.reloading /\ m.active = {} /\ Single!Quiet
  BY AtWork DEF Single!Leave, Single!Ready, Single!Over
<1>1. CASE m.failed
  <2>1. Single!Become(p, Single!Except(m))
    BY <1>1 DEF Single!Leave
  <2>2. Single!Except(m) \in Machine /\ Fit(Single!Except(m))
    BY <1>0, Between, ExceptFits DEF Busy
  <2> QED BY <1>0, <2>1, <2>2, QuietStep
<1>2. CASE ~m.failed
  <2>1. PICK st \in Single!Ending(m) : Single!Become(p, Final(st))
    BY <1>2 DEF Single!Leave
  <2>2. m.state # "completed" /\ m.state \in Single!RunState
    BY <1>0 DEF Fit, Tells, Machine
  <2>3. st \in Single!RunState /\ (st = "completed" => m.queue = {} \/ m.done = Corpus)
    BY <2>2 DEF Single!Ending, Single!RunState
  <2>4. m.queue = {} => m.done = Corpus
    <3>1. Split(m) /\ m.done \subseteq Corpus
      BY <1>0 DEF Fit, Collecting, Machine
    <3>2. Corpus \subseteq m.queue \cup m.active \cup m.done \cup {None}
      BY <1>0, <3>1 DEF Split
    <3> QED BY <1>0, <3>1, <3>2, RunAssumed
  <2>5. Final(st) \in Machine /\ Fit(Final(st))
    BY <1>0, <1>2, <2>3, <2>4, FinalFits
  <2> HIDE DEF Final
  <2> QED BY <1>0, <2>1, <2>5, QuietStep
<1> QED BY <1>1, <1>2

LEMMA ToReleaseInv ==
  ASSUME RunInv, NEW p \in Attempt, NEW m \in Machine, m = proc[p], Single!ToRelease(p)
  PROVE  RunInv'
<1> DEFINE n == [Single!New EXCEPT !.at = "release", !.state = m.state, !.failed = m.failed,
                                   !.done = IF m.failed THEN {} ELSE m.done]
<1>0. /\ Fit(m) /\ m.at \in {"final", "except"} /\ m.script = <<>> /\ Single!Quiet /\ Single!Become(p, n)
  BY AtWork DEF Single!ToRelease, Single!Ready
<1>1. /\ n \in Machine /\ n.at = "release" /\ n.failed = m.failed /\ n.done = (IF m.failed THEN {} ELSE m.done)
      /\ n.script = <<>> /\ ~n.reloading
  <2>1. <<>> \in Seq(Single!Op)
    OBVIOUS
  <2> QED BY <2>1, RunAssumed DEF Machine, Single!New, Single!Stage
<1> HIDE DEF n
<1>2. ~m.failed => m.done \subseteq loaded
  <2> SUFFICES ASSUME ~m.failed PROVE m.done \subseteq loaded
    OBVIOUS
  <2>1. m.at = "final"
    BY <1>0 DEF Fit, Tells
  <2>2. m.bq = {}
    BY <1>0, <2>1 DEF Fit, Busy, Shape, FlushesLast
  <2> QED BY <1>0, <2>1, <2>2, Between DEF Busy
<1>3. Fit(n)
  BY <1>1, <1>2 DEF Fit, Tells, Busy, Collecting
<1> QED BY <1>0, <1>1, <1>3, QuietStep

LEMMA ReleaseInv ==
  ASSUME RunInv, NEW p \in Attempt, NEW m \in Machine, m = proc[p], Single!Release(p)
  PROVE  RunInv'
<1>0. /\ Fit(m) /\ m.at = "release" /\ UNCHANGED <<checkpoint, loaded, restarts, stop>>
      /\ \E ok \in BOOLEAN : Single!Ends(p, ok)
      /\ progress' \in {progress, "failed"}
      /\ \/ UNCHANGED <<lease, knows>>
         \/ lease' = [owner |-> None, left |-> 0] /\ knows' = {}
  BY AtWork DEF Single!Release, Single!Ready
<1>1. PICK ok \in BOOLEAN : Single!Ends(p, ok)
  BY <1>0
<1> DEFINE n == [m EXCEPT !.at = "ended", !.failed = @ \/ ~ok, !.state = "running"]
<1>2. /\ n \in Machine /\ n.at = "ended" /\ n.state = "running" /\ n.done = m.done
      /\ n.script = m.script /\ n.reloading = m.reloading /\ (~n.failed => ~m.failed)
  BY DEF Machine, Single!Stage, Single!RunState
<1>3. Fit(n)
  BY <1>0, <1>2 DEF Fit, Tells, Busy, Collecting
<1>4. Single!New \in Machine /\ Fit(Single!New)
  <2>1. <<>> \in Seq(Single!Op)
    OBVIOUS
  <2> QED BY <2>1 DEF Machine, Single!New, Single!Stage, Single!RunState, Fit, Tells, Busy, Collecting
<1>5. /\ \/ Single!Become(p, Single!New)
         \/ Single!Become(p, n)
      /\ recycled' \in [Single!Execution -> Nat]
  BY <1>1 DEF Single!Ends, RunInv, Stores
<1> HIDE DEF n
<1>6. Stores'
  BY <1>0, <1>5, RunAssumed DEF RunInv, Stores, Single!RunState
<1>7. Fit(n)' /\ Fit(Single!New)'
  BY <1>0, <1>3, <1>4, FitGrows
<1>8. CASE Single!Become(p, Single!New)
  BY <1>0, <1>4, <1>6, <1>7, <1>8, OneProcess
<1>9. CASE Single!Become(p, n)
  BY <1>0, <1>2, <1>6, <1>7, <1>9, OneProcess
<1> QED BY <1>5, <1>8, <1>9

LEMMA ProcessKilledInv ==
  ASSUME RunInv, NEW p \in Attempt, Single!Kill(p)
  PROVE  RunInv'
<1> DEFINE n == [Single!New EXCEPT !.at = "ended", !.failed = TRUE]
<1>1. /\ n \in Machine /\ n.at = "ended" /\ n.state = "running" /\ n.failed /\ n.script = <<>> /\ ~n.reloading
  <2>1. <<>> \in Seq(Single!Op)
    OBVIOUS
  <2> QED BY <2>1 DEF Machine, Single!New, Single!Stage, Single!RunState
<1>2. /\ Single!Become(p, n) /\ knows' = knows \ {p}
      /\ UNCHANGED <<lease, checkpoint, loaded, progress, restarts, recycled, stop>>
  BY DEF Single!Kill
<1> HIDE DEF n
<1>3. Fit(n)
  BY <1>1 DEF Fit, Tells, Busy, Collecting
<1>4. Stores'
  BY <1>2 DEF RunInv, Stores
<1>5. Fit(n)'
  BY <1>2, <1>3, FitGrows
<1> QED BY <1>1, <1>2, <1>4, <1>5, OneProcess

LEMMA StartInv ==
  ASSUME RunInv, NEW p \in Attempt, Single!Start(p)
  PROVE  RunInv'
<1>1. PICK c : c = checkpoint
  OBVIOUS
<1>2. PICK r : r = (restarts[p[1]] > 0) /\ r \in BOOLEAN
  <2>1. restarts[p[1]] \in Int
    BY RunAssumed DEF RunInv, Stores, Single!Execution
  <2>2. (restarts[p[1]] > 0) \in BOOLEAN
    BY <2>1
  <2> QED BY <2>2
<1> DEFINE n == [Single!New EXCEPT !.at = "restore", !.reduced = r, !.done = c, !.bq = c, !.script = <<"bqAll">>]
           k == [Single!New EXCEPT !.at = "ended", !.failed = TRUE]
<1>3. c \subseteq Corpus
  BY <1>1 DEF RunInv, Stores
<1>4. /\ n \in Machine /\ n.at = "restore" /\ n.state = "running" /\ n.done = c /\ n.bq = c /\ n.cp = {} /\ ~n.failed
      /\ n.script = <<"bqAll">> /\ n.active = {} /\ n.item = None
  <2>1. <<>> \in Seq(Single!Op) /\ <<"bqAll">> \in Seq(Single!Op)
    BY DEF Single!Op
  <2> QED BY <1>2, <1>3, <2>1 DEF Machine, Single!New, Single!Stage, Single!RunState
<1>5. k \in Machine /\ k.at = "ended" /\ k.state = "running" /\ k.failed /\ k.script = <<>> /\ ~k.reloading
  <2>1. <<>> \in Seq(Single!Op)
    OBVIOUS
  <2> QED BY <2>1 DEF Machine, Single!New, Single!Stage, Single!RunState
<1>6. /\ Single!Become(p, n) \/ Single!Become(p, k)
      /\ \/ UNCHANGED <<lease, knows>>
         \/ lease' = [owner |-> p, left |-> RunLease] /\ knows' = {p}
      /\ UNCHANGED <<checkpoint, loaded, progress, restarts, recycled, stop>>
  BY <1>1, <1>2 DEF Single!Start, Single!Taken
<1> HIDE DEF n, k
<1>7. Fit(n)
  <2>1. Shape(n.script, "restore", n.cp, n.bq)
    BY <1>4, NewShapes
  <2> QED BY <1>1, <1>4, <2>1 DEF Fit, Tells, Stored, Busy, Collecting
<1>8. Fit(k)
  BY <1>5 DEF Fit, Tells, Busy, Collecting
<1>9. Stores' /\ Fit(n)' /\ Fit(k)'
  BY <1>6, <1>7, <1>8, FitGrows, RunAssumed DEF RunInv, Stores
<1> QED BY <1>4, <1>5, <1>6, <1>9, OneProcess

\* The STOP object, and time.
LEMMA SurroundingsInv ==
  ASSUME RunInv, Single!SetStop \/ Single!Tick \/ UNCHANGED runVars
  PROVE  RunInv'
<1>1. /\ UNCHANGED <<knows, checkpoint, loaded, progress, restarts, recycled, proc>>
      /\ stop' \in {stop, TRUE}
      /\ \/ lease' = lease
         \/ lease.left > 0 /\ lease' = [lease EXCEPT !.left = @ - 1]
  BY DEF Single!SetStop, Single!Tick, Single!stores, runVars
<1>2. lease' \in [owner : Attempt \cup {None}, left : 0..RunLease]
  BY <1>1, RunAssumed DEF RunInv, Stores
<1>3. Stores'
  BY <1>1, <1>2 DEF RunInv, Stores
<1>4. ASSUME NEW q \in Attempt PROVE Fit(proc[q])'
  <2>1. PICK r : r = proc[q]
    OBVIOUS
  <2>2. Fit(r)' /\ proc'[q] = r
    BY <1>1, <2>1, FitGrows DEF RunInv
  <2> QED BY <2>2 DEF Fit, Stored, Owed, Tells, Split
<1> QED BY <1>1, <1>3, <1>4 DEF RunInv

-----------------------------------------------------------------------------
(* What ends is durable                                                    *)

LEMMA RunInitially == Single!Init => RunInv
<1> SUFFICES ASSUME Single!Init PROVE RunInv
  OBVIOUS
<1>1. Single!New \in Machine /\ Fit(Single!New)
  <2>1. <<>> \in Seq(Single!Op)
    OBVIOUS
  <2> QED BY <2>1 DEF Machine, Single!New, Single!Stage, Single!RunState, Fit, Tells, Busy, Collecting
<1>2. proc \in [Attempt -> Machine] /\ \A p \in Attempt : proc[p] = Single!New
  BY <1>1 DEF Single!Init
<1>3. Stores
  <2>1. lease \in [owner : Attempt \cup {None}, left : 0..RunLease] /\ knows \subseteq Attempt /\ stop \in BOOLEAN
    <3>1. lease = [owner |-> None, left |-> 0] /\ knows = {} /\ stop = FALSE
      BY DEF Single!Init
    <3>2. 0 \in 0..RunLease
      BY RunAssumed
    <3>3. lease \in [owner : Attempt \cup {None}, left : 0..RunLease]
      BY <3>1, <3>2
    <3> QED BY <3>1, <3>3
  <2>2. checkpoint \subseteq Corpus /\ loaded \subseteq checkpoint /\ progress \in {None, "continuing"}
    BY DEF Single!Init
  <2>3. progress \in Single!RunState \cup {None} /\ (progress = "completed" => loaded = Corpus)
    BY <2>2, RunAssumed DEF Single!RunState
  <2>4. restarts \in [Single!Execution -> 0..MaxRestarts] /\ recycled \in [Single!Execution -> Nat]
    BY RunAssumed DEF Single!Init
  <2> QED BY <2>1, <2>2, <2>3, <2>4 DEF Stores
<1>4. ASSUME NEW p \in Attempt PROVE Fit(proc[p])
  BY <1>1, <1>2 DEF Fit, Stored, Owed, Tells, Split, Busy, Collecting, Single!New
<1> QED BY <1>2, <1>3, <1>4 DEF RunInv

LEMMA RunStepInv ==
  ASSUME RunInv, NEW p \in Attempt, Single!Step(p)
  PROVE  RunInv'
<1>1. PICK m \in Machine : m = proc[p]
  BY AtWork
<1> QED BY <1>1, StartInv, RenewInv, ReloadInv, CheckpointInv, EventsInv, SkipInv, LoadInv, BufferInv, ReportInv,
           RestoredInv, UpdateInv, TurnInv, ScheduleInv, FinishInv, FinishedInv, PressureInv, RelieveInv, LeaveInv,
           ToReleaseInv, ReleaseInv, ProcessKilledInv DEF Single!Step

LEMMA RunInductive == RunInv /\ [WorkNext]_<<part, taskVars, runVars>> => RunInv'
<1> SUFFICES ASSUME RunInv, [WorkNext]_<<part, taskVars, runVars>> PROVE RunInv'
  OBVIOUS
<1>1. CASE Single!Next
  BY <1>1, RunStepInv, SurroundingsInv DEF Single!Next
<1>2. CASE UNCHANGED runVars
  BY <1>2, SurroundingsInv
<1> QED BY <1>1, <1>2 DEF WorkNext

LEMMA DurableWhileInv == RunInv => EndedIsDurable
<1> SUFFICES ASSUME RunInv PROVE EndedIsDurable
  OBVIOUS
<1>1. Single!TypeOK
  BY DEF RunInv, Stores, Machine, Single!TypeOK
<1>2. Single!CountedOnce
  <2> SUFFICES ASSUME NEW p \in Attempt, proc[p].at = "loop"
               PROVE  /\ proc[p].queue \cap proc[p].active = {}
                      /\ (proc[p].queue \cup proc[p].active) \cap proc[p].done = {}
                      /\ proc[p].queue \cup proc[p].active \cup proc[p].done = Corpus
    BY DEF Single!CountedOnce
  <2>1. PICK m \in Machine : m = proc[p] /\ Split(m) /\ m.item = None
    BY AtWork DEF Fit, Collecting, Split
  <2>2. m.queue \subseteq Corpus /\ m.active \subseteq Corpus /\ m.done \subseteq Corpus
    BY DEF Machine
  <2> QED BY <2>1, <2>2, RunAssumed DEF Split
<1>3. Single!LoadedIsPersisted
  BY DEF RunInv, Stores, Single!LoadedIsPersisted
<1>4. Single!EndedIsDurable
  BY DEF RunInv, Stores, Fit, Single!EndedIsDurable
<1> QED BY <1>1, <1>2, <1>3, <1>4 DEF EndedIsDurable

\* Run.run and result_store.py: whatever calls fail, whatever process is killed and however
\* executions overlap, a process that ends without a failure leaves every result it counted
\* in a checkpoint and in BigQuery, counts an article once, loads no event before its result
\* is stored, and a snapshot that says "completed" is true.
THEOREM RunIsDurable == WorkSpec => []EndedIsDurable
<1>1. WorkInit => RunInv
  BY RunInitially DEF WorkInit
<1> QED BY <1>1, RunInductive, DurableWhileInv, PTL DEF WorkSpec

=============================================================================
