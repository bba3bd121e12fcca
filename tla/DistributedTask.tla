--------------------------- MODULE DistributedTask ---------------------------
(***************************************************************************)
(* One task attempt of the cohort (DistributedRun.run, fetch_claim,        *)
(* heartbeat and persist_result in crawler/distributed_worker.py) between  *)
(* its main loop, its fetch threads and the article queue.                 *)
(*                                                                         *)
(* The loop claims, renews, persists and releases; the threads send        *)
(* requests under deadlines that the loop moves, 120 seconds before the    *)
(* document's lease.  The loop may be slow anywhere: nothing bounds the    *)
(* time between two of its steps.  A call may fail before or after its     *)
(* effect, and a process may be killed at any step.  The queue is reduced  *)
(* to what SharedQueue shows of it: one phase, and its fenced transitions. *)
(* What the task does after its last article is modelled in ExportOutbox   *)
(* and CohortPublication.                                                  *)
(*                                                                         *)
(* Times are distances from the present, as in SharedQueue.                *)
(***************************************************************************)
EXTENDS Integers, FiniteSets

CONSTANTS
  Process, Article, Token,
  Lease,       \* article lease (600 seconds)
  Margin,      \* requests stop that long before its end (120 seconds)
  RequestTime, \* longest request: connect, response and body timeouts (75 seconds)
  Slots,       \* config['workers']
  None

TaskAssumption ==
  /\ Lease \in Nat /\ Margin \in Nat /\ RequestTime \in Nat /\ Slots \in Nat \ {0}
  /\ RequestTime <= Margin /\ Margin < Lease /\ None \notin Token \cup Process

VARIABLES
  rows,     \* the article documents
  evidence, \* tokens whose result or checkpoint object has been uploaded
  at,       \* the main loop: running, draining after an exception, or over
  stopping, \* state # 'running': what ended the claiming
  abort,    \* fetcher.abort_event
  claims,   \* self.claims
  deadline, \* self.deadlines, as the time that is left
  fetches   \* the futures and what they do

vars == <<rows, evidence, at, stopping, abort, claims, deadline, fetches>>

Row == [state : {"ready", "leased", "done"}, owner : Process \cup {None}, token : Token \cup {None},
        due : 0..Lease, checkpoint : Token \cup {None}]
Result == {"saved", "terminal", "queued", "cooldown", "error"}
Stage == {"thinking", "requesting", "ended", "uploaded"}
Fetch == [process : Process, article : Article, token : Token, stage : Stage, left : 0..RequestTime,
          result : Result \cup {None}]

Init ==
  /\ rows = [a \in Article |-> [state |-> "ready", owner |-> None, token |-> None, due |-> 0, checkpoint |-> None]]
  /\ evidence = {} /\ at = [p \in Process |-> "loop"] /\ stopping = [p \in Process |-> "no"]
  /\ abort = [p \in Process |-> FALSE] /\ claims = [p \in Process |-> [a \in Article |-> None]]
  /\ deadline = [p \in Process |-> [a \in Article |-> 0]] /\ fetches = {}

Of(p) == {f \in fetches : f.process = p}
Local == <<at, stopping, abort, claims, deadline>>
Unused == Token \ ({rows[a].token : a \in Article} \cup {rows[a].checkpoint : a \in Article} \cup evidence
                   \cup {f.token : f \in fetches})

\* Faulty variant: requests may use the whole lease.
WholeLease(left) == left
SafeTime(left) == IF left > Margin THEN left - Margin ELSE 0

(* The queue's transitions ***************************************************)

Holds(f) == rows[f.article].state = "leased" /\ rows[f.article].token = f.token
Released(a) == [rows[a] EXCEPT !.state = "ready", !.owner = None, !.token = None, !.due = 0]
\* Faulty variant: the claim is only forgotten.
ForgetOnly(f) == rows
ReleaseRow(f) == [rows EXCEPT ![f.article] = IF Holds(f) THEN Released(f.article) ELSE @]
Accepts(f) == Holds(f) /\ rows[f.article].due > 0
Accepted(f) ==
  [rows EXCEPT ![f.article] =
     IF f.result = "queued" THEN [Released(f.article) EXCEPT !.checkpoint = f.token]
                            ELSE [@ EXCEPT !.state = "done", !.owner = None, !.due = 0]]

(* The main loop *************************************************************)

Forget(p, a) ==
  /\ claims' = [claims EXCEPT ![p][a] = None] /\ deadline' = [deadline EXCEPT ![p][a] = 0]

\* An exception that leaves the loop: requests are aborted, the threads drained.
LoopFails(p) ==
  /\ at[p] = "loop" /\ at' = [at EXCEPT ![p] = "draining"] /\ abort' = [abort EXCEPT ![p] = TRUE]
  /\ UNCHANGED <<rows, evidence, stopping, claims, deadline, fetches>>

\* A signal, STOP, a budget, the rotation, or the last article.
StopClaiming(p) ==
  /\ at[p] = "loop" /\ stopping[p] = "no" /\ stopping' = [stopping EXCEPT ![p] = "stopped"]
  /\ UNCHANGED <<rows, evidence, at, abort, claims, deadline, fetches>>

\* queue.claim: also an article whose lease has run out, be it this process's own.  If the
\* answer is lost the exception leaves the loop.
Claim(p, a, t) ==
  /\ at[p] = "loop" /\ stopping[p] = "no" /\ Cardinality(Of(p)) < Slots /\ t \in Unused
  /\ rows[a].state = "ready" \/ (rows[a].state = "leased" /\ rows[a].due = 0)
  /\ rows' = [rows EXCEPT ![a] = [@ EXCEPT !.state = "leased", !.owner = p, !.token = t, !.due = Lease]]
  /\ \/ /\ claims' = [claims EXCEPT ![p][a] = t]
        /\ deadline' = [deadline EXCEPT ![p][a] = SafeTime(Lease)]
        /\ fetches' = fetches \cup {[process |-> p, article |-> a, token |-> t, stage |-> "thinking",
                                     left |-> 0, result |-> None]}
        /\ UNCHANGED <<at, abort>>
     \/ /\ at' = [at EXCEPT ![p] = "draining"] /\ abort' = [abort EXCEPT ![p] = TRUE]
        /\ UNCHANGED <<claims, deadline, fetches>>
  /\ UNCHANGED <<evidence, stopping>>

\* heartbeat: every claim in self.claims is renewed, unless one is lost.
Renewable(p, a) ==
  claims[p][a] = rows[a].token /\ rows[a].state = "leased" /\ rows[a].due > 0
Heartbeat(p) ==
  LET mine == {a \in Article : claims[p][a] # None}
      renewed == {a \in mine : Renewable(p, a)}
  IN /\ at[p] = "loop"
     /\ rows' = [a \in Article |-> IF a \in renewed THEN [rows[a] EXCEPT !.due = Lease] ELSE rows[a]]
     /\ IF renewed = mine
        THEN /\ deadline' = [deadline EXCEPT ![p] = [a \in Article |-> IF a \in mine THEN SafeTime(Lease) ELSE @[a]]]
             /\ UNCHANGED <<at, abort>>
        ELSE /\ at' = [at EXCEPT ![p] = "draining"] /\ abort' = [abort EXCEPT ![p] = TRUE] /\ UNCHANGED deadline
     /\ UNCHANGED <<evidence, stopping, claims, fetches>>

(* The fetch threads *********************************************************)

RequestGuard(f) == ~abort[f.process] /\ deadline[f.process][f.article] > 0

Becomes(f, g) == fetches' = (fetches \ {f}) \cup {g}
Request(f) ==
  /\ f.stage = "thinking" /\ RequestGuard(f)
  /\ Becomes(f, [f EXCEPT !.stage = "requesting", !.left = RequestTime])
  /\ UNCHANGED <<rows, evidence, Local>>
Respond(f) ==
  /\ f.stage = "requesting" /\ Becomes(f, [f EXCEPT !.stage = "thinking", !.left = 0])
  /\ UNCHANGED <<rows, evidence, Local>>
\* Only a preserved article may be reported when the guard no longer holds.
End(f) ==
  /\ f.stage = "thinking"
  /\ \E r \in Result :
       /\ r \in {"terminal", "queued", "cooldown"} => RequestGuard(f)
       /\ Becomes(f, [f EXCEPT !.stage = "ended", !.result = r])
  /\ UNCHANGED <<rows, evidence, Local>>

(* Persisting what has ended *************************************************)

Idle(p) == \A f \in Of(p) : f.stage # "uploaded"
Finished(f) == at[f.process] = "loop" /\ f.stage = "ended" /\ Idle(f.process)
MustAbandon(f) == f.result = "error" \/ (abort[f.process] /\ f.result # "saved")
NeedsGuard(f) == f.result \in {"cooldown", "queued"}

\* release_claim: the claim is forgotten, whatever becomes of the release itself.
ReleaseClaim(f) ==
  /\ Forget(f.process, f.article) /\ fetches' = fetches \ {f}
  /\ \/ rows' = ReleaseRow(f) /\ UNCHANGED <<at, abort>>
     \/ /\ rows' \in {rows, ReleaseRow(f)}
        /\ at' = [at EXCEPT ![f.process] = "draining"] /\ abort' = [abort EXCEPT ![f.process] = TRUE]

\* A deferred publisher, or work given up because the task is aborting.
Abandon(f) ==
  /\ Finished(f) /\ f.result # "error"
  /\ MustAbandon(f) \/ (f.result = "cooldown" /\ RequestGuard(f))
  /\ ReleaseClaim(f)
  /\ UNCHANGED <<evidence, stopping>>

Failing(p) == stopping' = [stopping EXCEPT ![p] = "failed"]

\* The except clause of the loop: abort, and release this claim.
PersistFails(f) ==
  /\ at[f.process] = "loop" /\ Failing(f.process)
  /\ Forget(f.process, f.article) /\ fetches' = fetches \ {f}
  /\ abort' = [abort EXCEPT ![f.process] = TRUE]
  /\ \/ rows' = ReleaseRow(f) /\ UNCHANGED at
     \/ rows' \in {rows, ReleaseRow(f)} /\ at' = [at EXCEPT ![f.process] = "draining"]

Failed(f) ==
  /\ Finished(f) /\ PersistFails(f)
  /\ f.result = "error" \/ (NeedsGuard(f) /\ ~MustAbandon(f) /\ ~RequestGuard(f))
  /\ UNCHANGED evidence

MayCommit(f) == at[f.process] = "loop" /\ f.stage = "uploaded"

\* The immutable result or checkpoint object, before the queue hears of it.
Upload(f) ==
  /\ Finished(f) /\ ~MustAbandon(f) /\ f.result # "cooldown" /\ (NeedsGuard(f) => RequestGuard(f))
  /\ evidence' = evidence \cup {f.token}
  /\ \/ Becomes(f, [f EXCEPT !.stage = "uploaded"]) /\ UNCHANGED <<rows, Local>>
     \/ PersistFails(f)

\* complete or handoff.  A rejection and a lost answer both fail the task.
Commit(f) ==
  /\ MayCommit(f) /\ Accepts(f)
  /\ rows' = Accepted(f) /\ fetches' = fetches \ {f} /\ Forget(f.process, f.article)
  /\ \/ UNCHANGED <<at, stopping, abort>>
     \/ Failing(f.process) /\ abort' = [abort EXCEPT ![f.process] = TRUE] /\ UNCHANGED at
  /\ UNCHANGED evidence
Reject(f) ==
  /\ MayCommit(f) /\ PersistFails(f) /\ UNCHANGED evidence

(* The end *******************************************************************)

\* The threads have ended: preserved articles may still commit, the rest is released; both
\* may fail.  Then whatever self.claims still holds is released.
Settled(p) == at[p] = "draining" /\ \A f \in Of(p) : f.stage \in {"ended", "uploaded"}
CleanOne(p) ==
  /\ Settled(p)
  /\ \E f \in Of(p) :
       /\ fetches' = fetches \ {f}
       /\ \/ /\ f.result = "saved" /\ evidence' = evidence \cup {f.token}
             /\ \/ Accepts(f) /\ rows' = Accepted(f) /\ Forget(p, f.article)
                \/ rows' \in {rows, ReleaseRow(f)} /\ Forget(p, f.article)
          \/ rows' \in {rows, ReleaseRow(f)} /\ Forget(p, f.article) /\ UNCHANGED evidence
  /\ UNCHANGED <<at, stopping, abort>>

ReleaseClaims(p) ==
  \E A \in SUBSET {a \in Article : claims[p][a] # None} :
    rows' = [a \in Article |-> IF a \in A /\ rows[a].state = "leased" /\ rows[a].token = claims[p][a]
                               THEN Released(a) ELSE rows[a]]
Exit(p) ==
  /\ Settled(p) /\ Of(p) = {} /\ at' = [at EXCEPT ![p] = "failed"]
  /\ ReleaseClaims(p) /\ claims' = [claims EXCEPT ![p] = [a \in Article |-> None]]
  /\ deadline' = [deadline EXCEPT ![p] = [a \in Article |-> 0]]
  /\ UNCHANGED <<evidence, stopping, abort, fetches>>

\* The loop ends when nothing is active; a failure is raised, otherwise the task goes on to
\* export and to report its state.
Leave(p) ==
  /\ at[p] = "loop" /\ stopping[p] # "no" /\ Of(p) = {}
  /\ at' = [at EXCEPT ![p] = IF stopping[p] = "failed" THEN "draining" ELSE "finished"]
  /\ abort' = [abort EXCEPT ![p] = @ \/ stopping[p] = "failed"]
  /\ UNCHANGED <<rows, evidence, stopping, claims, deadline, fetches>>

Kill(p) ==
  /\ at[p] \in {"loop", "draining"} /\ at' = [at EXCEPT ![p] = "killed"]
  /\ fetches' = fetches \ Of(p)
  /\ claims' = [claims EXCEPT ![p] = [a \in Article |-> None]]
  /\ deadline' = [deadline EXCEPT ![p] = [a \in Article |-> 0]]
  /\ UNCHANGED <<rows, evidence, stopping, abort>>

Down(n) == IF n > 0 THEN n - 1 ELSE 0
Tick ==
  /\ \A f \in fetches : f.stage = "requesting" => f.left > 0
  /\ rows' = [a \in Article |-> [rows[a] EXCEPT !.due = Down(@)]]
  /\ deadline' = [p \in Process |-> [a \in Article |-> Down(deadline[p][a])]]
  /\ fetches' = {[f EXCEPT !.left = Down(@)] : f \in fetches}
  /\ UNCHANGED <<evidence, at, stopping, abort, claims>>

Loop(p) ==
  \/ LoopFails(p) \/ StopClaiming(p) \/ Heartbeat(p) \/ CleanOne(p) \/ Exit(p) \/ Leave(p) \/ Kill(p)
  \/ \E a \in Article, t \in Token : Claim(p, a, t)
Persist(f) == Abandon(f) \/ Failed(f) \/ Upload(f) \/ Commit(f) \/ Reject(f)
Next ==
  \/ \E p \in Process : Loop(p)
  \/ \E f \in fetches : Request(f) \/ Respond(f) \/ End(f) \/ Persist(f)
  \/ Tick

\* Requests time out and fetches end; a loop that has left its main part goes on.
Fairness ==
  /\ \A p \in Process : WF_vars(CleanOne(p)) /\ WF_vars(Exit(p)) /\ WF_vars(Leave(p))
  /\ \A p \in Process : WF_vars(\E f \in Of(p) : Respond(f)) /\ WF_vars(\E f \in Of(p) : End(f))
                        /\ WF_vars(\E f \in Of(p) : Persist(f))
Spec == Init /\ [][Next]_vars
FairSpec == Spec /\ Fairness

-----------------------------------------------------------------------------
(* Properties                                                              *)

Current(f) == claims[f.process][f.article] = f.token

\* The type invariant: a thread's deadline never eats into the margin of a granted lease.
TypeOK ==
  /\ rows \in [Article -> Row] /\ evidence \subseteq Token
  /\ at \in [Process -> {"loop", "draining", "finished", "failed", "killed"}]
  /\ stopping \in [Process -> {"no", "stopped", "failed"}] /\ abort \in [Process -> BOOLEAN]
  /\ claims \in [Process -> [Article -> Token \cup {None}]]
  /\ deadline \in [Process -> [Article -> 0..(Lease - Margin)]] /\ fetches \subseteq Fetch

\* Requests for one article that two processes make, each under the claim it still holds,
\* never overlap: however slow a heartbeat is, a request is over before the lease is.
ExclusiveRequests ==
  \A f, g \in fetches :
    f.article = g.article /\ f.stage = "requesting" /\ g.stage = "requesting" /\ Current(f) /\ Current(g)
      => f.process = g.process

\* A task that ends its loop without a failure leaves nothing leased: its replacement, and
\* the continuation, need not wait for leases.
CleanEndHoldsNothing ==
  \A p \in Process : at[p] = "finished" => \A a \in Article : rows[a].owner # p

=============================================================================
