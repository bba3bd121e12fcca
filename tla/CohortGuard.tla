----------------------------- MODULE CohortGuard -----------------------------
(***************************************************************************)
(* The cohort guard: one cloud storage object that says which execution    *)
(* may crawl.  Tasks of that execution join and renew it (lease_update in  *)
(* crawler/distributed_worker.py) and the last of them deletes it          *)
(* (release_cohort_lease); operators hand it to the next execution         *)
(* (scripts/crawl_handover.py), or delete it for a terminated one          *)
(* (scripts/release_distributed_crawl_for_scaleover.py).                   *)
(*                                                                         *)
(* Nobody locks the object.  A client reads it with its generation, and    *)
(* its write is accepted only if the generation has not changed; between   *)
(* any two requests of a client anything can happen.  The generation       *)
(* number itself is not modelled: current is the set of clients whose last *)
(* read is still the present generation.  A client that saw no object asks *)
(* for generation 0, which only says that there is none again.             *)
(*                                                                         *)
(* expires_at is a distance from the present; all machines read one clock. *)
(* All executions belong to one collection.                                *)
(***************************************************************************)
EXTENDS Integers

CONSTANTS
  Execution,       \* Cloud Run executions of the crawler
  Task,            \* their tasks
  ExecutionOf,     \* the execution of a task
  Operator,        \* callers of crawl_handover
  Handover,        \* handover IDs
  PreviousOf,      \* the execution that a handover replaces
  Scaleover,       \* the scaleover tool, or nobody
  None,            \* an absent field
  GuardTtl,        \* ticks a cohort's guard lasts (10 minutes)
  ReservationTtl,  \* ticks a reservation lasts (30 minutes)
  Renewal          \* a guard that lasts longer is left alone (5 minutes)

ASSUME LayoutAssumption ==
  /\ ExecutionOf \in [Task -> Execution] /\ PreviousOf \in [Handover -> Execution]
  /\ Execution \cap Handover = {} /\ None \notin Execution \cup Handover
ASSUME ClientAssumption ==
  Task \cap Operator = {} /\ Scaleover \notin Task \cup Operator
ASSUME TimeAssumption ==
  /\ GuardTtl \in Nat \ {0} /\ ReservationTtl \in Nat \ {0} /\ Renewal \in Nat

VARIABLES
  guard,     \* the object, or NoGuard
  current,   \* clients whose read is still the present generation
  tasks,     \* the running attempt of each task
  reports,   \* the state that the latest attempt of each task reported
  calls,     \* the request of crawl_handover each operator is in
  scaling,   \* the execution whose guard the scaleover tool deletes
  stop,      \* the STOP object, or the queue's stop flag
  retired,   \* executions with a retirement marker
  replaced,  \* history: executions whose guard was reserved
  assigned   \* history: executions that received the guard since a handover was last reserved

vars == <<guard, current, tasks, reports, calls, scaling, stop, retired, replaced, assigned>>

-----------------------------------------------------------------------------
(* The object and its clients                                              *)

NoGuard == [owner |-> None, left |-> 0, handover |-> None, previous |-> None]
\* What lease_update writes; it keeps no handover fields.
CohortOf(e) == [owner |-> e, left |-> GuardTtl, handover |-> None, previous |-> None]
\* What reserve writes ...
Reservation(h) ==
  [owner |-> h, left |-> ReservationTtl, handover |-> h, previous |-> PreviousOf[h]]
\* ... and transfer.
Assignment(h, e) ==
  [owner |-> e, left |-> GuardTtl, handover |-> h, previous |-> guard.previous]

Clients == Task \cup Operator \cup {Scaleover}
Guard == {NoGuard}
  \cup [owner : Execution, left : 0..GuardTtl, handover : Handover \cup {None},
        previous : Execution \cup {None}]
  \cup [owner : Handover, left : 0..ReservationTtl, handover : Handover, previous : Execution]

\* initial: the call joins; beaten: an earlier heartbeat has succeeded;
\* absent: no object was there.
Attempt == [pc : {"down", "check", "read", "recheck", "write", "up", "beat", "peers", "find",
                  "delete", "failed", "ended"},
            initial : BOOLEAN, beaten : BOOLEAN, absent : BOOLEAN]
Down == [pc |-> "down", initial |-> FALSE, beaten |-> FALSE, absent |-> FALSE]

\* An operator between the read and the write of reserve or transfer.
NoCall == [to |-> None, id |-> None]
Call == {NoCall} \cup [to : Execution \cup {None}, id : Handover]

Init ==
  /\ guard = NoGuard /\ current = {}
  /\ tasks = [t \in Task |-> Down] /\ reports = [t \in Task |-> None]
  /\ calls = [o \in Operator |-> NoCall] /\ scaling = None
  /\ stop \in BOOLEAN /\ retired = {} /\ replaced = {}
  /\ assigned = [h \in Handover |-> {}]

Live == guard.left > 0
Reserved == guard.owner \in Handover

Sees(c) == current' = current \cup {c} /\ UNCHANGED guard
Put(g) == guard' = g /\ current' = {}
Look == UNCHANGED <<guard, current>>

\* Faulty variant: a write without if_generation_match.
AlwaysAccepted(c) == TRUE
\* The store accepts a write of what c has read.
Accepted(c) == c \in current

-----------------------------------------------------------------------------
(* lease_update                                                            *)

At(t, pc) == tasks[t].pc = pc
Go(t, pc) == tasks' = [tasks EXCEPT ![t].pc = pc]
Fails(t) == Go(t, "failed") /\ UNCHANGED reports
Others == UNCHANGED <<calls, scaling, stop, retired, replaced, assigned>>

\* A new attempt finds no STOP and no marker (startup_state) and joins.
Start(t) ==
  /\ At(t, "down") /\ ~stop /\ ExecutionOf[t] \notin retired
  /\ tasks' = [tasks EXCEPT ![t] = [Down EXCEPT !.pc = "check", !.initial = TRUE]]
  /\ Look /\ UNCHANGED reports /\ Others

\* The main loop renews before each heartbeat.
Heartbeat(t) ==
  /\ At(t, "up")
  /\ tasks' = [tasks EXCEPT ![t].pc = "check", ![t].initial = FALSE]
  /\ Look /\ UNCHANGED reports /\ Others

\* Faulty variant: the marker is looked for only once.
RetiredAtFirst(t) == At(t, "check") /\ ExecutionOf[t] \in retired
IsRetired(t) == ExecutionOf[t] \in retired

\* require_not_retired, and STOP for a joining task.
Check(t) ==
  /\ At(t, "check")
  /\ IF IsRetired(t) \/ (tasks[t].initial /\ stop)
     THEN Fails(t) ELSE Go(t, "read") /\ UNCHANGED reports
  /\ Look /\ Others

\* lease_update returns: the task has joined, or goes on with its heartbeat.
Returns(t) == Go(t, IF tasks[t].initial THEN "up" ELSE "beat") /\ UNCHANGED reports

\* Faulty variant: a live guard of another cohort is a conflict, to be tried again.
RetryAll(t) == TRUE
\* Who waits on a reservation: a joining task.
MayWait(t) == tasks[t].initial

\* Faulty variant: a reservation is a guard like any other.
NotFree(t) == IF tasks[t].initial THEN Live ELSE TRUE
\* The guard of another owner bars a task, an expired one only those that
\* had joined; a reservation of the collection is never taken.
Bars(t) == Live \/ ~tasks[t].initial \/ Reserved

\* The guard is read: nothing there, a reservation to wait for, the guard of
\* another cohort, a fresh guard of the own cohort, or one to be written.
Read(t) ==
  /\ At(t, "read") /\ Others
  /\ LET absent == guard = NoGuard
         same == guard.owner = ExecutionOf[t]
     IN \/ /\ absent /\ ~tasks[t].initial /\ tasks[t].beaten
           /\ Fails(t) /\ Look
        \/ /\ ~absent /\ ~same /\ Reserved /\ Live /\ MayWait(t)
           /\ Go(t, "check") /\ Look /\ UNCHANGED reports
        \/ /\ ~absent /\ ~same /\ Bars(t)
           /\ Fails(t) /\ Look
        \/ /\ same /\ guard.left > Renewal
           /\ Returns(t) /\ Look
        \/ /\ \/ absent /\ (tasks[t].initial \/ ~tasks[t].beaten)
              \/ same /\ guard.left <= Renewal
              \/ ~absent /\ ~same /\ ~Bars(t)
           /\ tasks' = [tasks EXCEPT ![t].pc = "recheck", ![t].absent = absent]
           /\ Sees(t) /\ UNCHANGED reports

\* require_not_retired again.
Recheck(t) ==
  /\ At(t, "recheck")
  /\ IF IsRetired(t) THEN Fails(t) ELSE Go(t, "write") /\ UNCHANGED reports
  /\ Look /\ Others

\* The conditional write; a conflict starts the loop again, also the conflict of
\* a request that was sent twice with its own first copy.
WriteGuard(t) ==
  /\ At(t, "write") /\ Others
  /\ IF (IF tasks[t].absent THEN guard = NoGuard ELSE Accepted(t))
     THEN Put(CohortOf(ExecutionOf[t])) /\ (Returns(t) \/ (Go(t, "check") /\ UNCHANGED reports))
     ELSE Go(t, "check") /\ Look /\ UNCHANGED reports

-----------------------------------------------------------------------------
(* The rest of a task                                                      *)

\* The heartbeat reaches the queue.  A task whose loop is to end reports its final
\* state from then on, also while it drains.  When it has drained it reports once
\* more, publishes, and goes on to release_cohort_lease.
Report(t) ==
  /\ At(t, "beat")
  /\ \/ /\ tasks' = [tasks EXCEPT ![t].pc = "up", ![t].beaten = TRUE]
        /\ \E state \in {"active", "finished"} : reports' = [reports EXCEPT ![t] = state]
     \/ /\ tasks[t].beaten
        /\ Go(t, "peers") /\ reports' = [reports EXCEPT ![t] = "finished"]
  /\ Look /\ Others

\* Any other error: a request failed, its reply was lost, a lost claim, too
\* many conflicts, or a reservation that lasted longer than three minutes.
Running(t) == tasks[t].pc \notin {"down", "failed", "ended"}
Fail(t) == Running(t) /\ Fails(t) /\ Look /\ Others

\* The task has drained and reports its failure if its cohort may publish.
\* Cloud Run then starts the next attempt.
Abort(t) ==
  /\ At(t, "failed")
  /\ tasks' = [tasks EXCEPT ![t] = Down]
  /\ \/ UNCHANGED reports
     \/ /\ ExecutionOf[t] \notin retired /\ Live /\ guard.owner = ExecutionOf[t]
        /\ reports' = [reports EXCEPT ![t] = "failed"]
  /\ Look /\ Others

\* The process is killed; its last report stays.
Crash(t) ==
  /\ Running(t) \/ At(t, "failed")
  /\ tasks' = [tasks EXCEPT ![t] = Down] /\ UNCHANGED reports /\ Look /\ Others

\* No attempt is left, or the execution was cancelled.
GiveUp(t) == At(t, "down") /\ Go(t, "ended") /\ UNCHANGED reports /\ Look /\ Others

-----------------------------------------------------------------------------
(* release_cohort_lease                                                    *)

Peers(t) == {u \in Task : ExecutionOf[u] = ExecutionOf[t]}

\* list_workers: the guard stays unless the latest attempt of every task is done.
ListPeers(t) ==
  /\ At(t, "peers")
  /\ Go(t, IF \A u \in Peers(t) : reports[u] = "finished" THEN "find" ELSE "ended")
  /\ UNCHANGED reports /\ Look /\ Others

Find(t) ==
  /\ At(t, "find")
  /\ IF guard.owner = ExecutionOf[t] THEN Sees(t) /\ Go(t, "delete") ELSE Look /\ Go(t, "ended")
  /\ UNCHANGED reports /\ Others

Delete(t) ==
  /\ At(t, "delete")
  /\ IF Accepted(t) THEN Put(NoGuard) /\ Go(t, "ended") ELSE Look /\ Go(t, "peers")
  /\ UNCHANGED reports /\ Others

-----------------------------------------------------------------------------
(* crawl_handover                                                          *)

Calls(o, c) == calls' = [calls EXCEPT ![o] = c]
OperatorOnly == UNCHANGED <<tasks, reports, scaling, stop, retired>>

\* reserve: a guard that is reserved already is reported as it is; any other
\* must belong to the execution named, live or not.
ReserveRead(o, h) ==
  /\ calls[o] = NoCall /\ guard.owner = PreviousOf[h]
  /\ Calls(o, [to |-> None, id |-> h]) /\ Sees(o)
  /\ OperatorOnly /\ UNCHANGED <<replaced, assigned>>

ReserveWrite(o) ==
  /\ calls[o].id # None /\ calls[o].to = None /\ Calls(o, NoCall)
  /\ IF Accepted(o)
     THEN /\ Put(Reservation(calls[o].id)) /\ replaced' = replaced \cup {PreviousOf[calls[o].id]}
          /\ assigned' = [assigned EXCEPT ![calls[o].id] = {}]
     ELSE Look /\ UNCHANGED <<replaced, assigned>>
  /\ OperatorOnly

\* The operator's own marker; the documented handover puts it between the two.
Retire(e) ==
  /\ Reserved /\ guard.previous = e /\ retired' = retired \cup {e}
  /\ Look /\ UNCHANGED <<tasks, reports, calls, scaling, stop, replaced, assigned>>

\* transfer: a cohort that owns the guard already is reported as it is; any
\* other guard must be the live reservation, and the old cohort gets nothing.
\* It is called after the old cohort is marked, for an execution that is not.
TransferRead(o, h, e) ==
  /\ calls[o] = NoCall /\ guard.owner = h /\ Live /\ guard.previous # e
  /\ PreviousOf[h] \in retired /\ e \notin retired
  /\ Calls(o, [to |-> e, id |-> h]) /\ Sees(o)
  /\ OperatorOnly /\ UNCHANGED <<replaced, assigned>>

TransferWrite(o) ==
  /\ calls[o].to # None /\ Calls(o, NoCall)
  /\ IF Accepted(o)
     THEN /\ Put(Assignment(calls[o].id, calls[o].to))
          /\ assigned' = [assigned EXCEPT ![calls[o].id] = @ \cup {calls[o].to}]
     ELSE Look /\ UNCHANGED assigned
  /\ OperatorOnly /\ UNCHANGED replaced

\* STOP is set and cleared by operators.
ChangeStop ==
  /\ stop' = ~stop /\ Look
  /\ UNCHANGED <<tasks, reports, calls, scaling, retired, replaced, assigned>>

-----------------------------------------------------------------------------
(* release_distributed_crawl_for_scaleover, and time                       *)

\* The collection is paused and the execution terminated.
ScaleRead(e) ==
  /\ Scaleover # None /\ scaling = None /\ stop /\ guard.owner = e
  /\ \A t \in Task : ExecutionOf[t] = e => At(t, "ended")
  /\ scaling' = e /\ Sees(Scaleover)
  /\ UNCHANGED <<tasks, reports, calls, stop, retired, replaced, assigned>>

ScaleDelete ==
  /\ scaling # None /\ scaling' = None
  /\ IF Accepted(Scaleover) THEN Put(NoGuard) ELSE Look
  /\ UNCHANGED <<tasks, reports, calls, stop, retired, replaced, assigned>>

Tick ==
  /\ Live /\ guard' = [guard EXCEPT !.left = @ - 1]
  /\ UNCHANGED <<current, tasks, reports, calls, scaling, stop, retired, replaced, assigned>>

-----------------------------------------------------------------------------
TaskStep(t) ==
  \/ Heartbeat(t) \/ Check(t) \/ Read(t) \/ Recheck(t) \/ WriteGuard(t) \/ Report(t)

Next ==
  \/ \E t \in Task :
       \/ Start(t) \/ TaskStep(t) \/ Fail(t) \/ Abort(t) \/ Crash(t) \/ GiveUp(t)
       \/ ListPeers(t) \/ Find(t) \/ Delete(t)
  \/ \E o \in Operator :
       \/ ReserveWrite(o) \/ TransferWrite(o)
       \/ \E h \in Handover :
            ReserveRead(o, h) \/ \E e \in Execution : TransferRead(o, h, e)
  \/ \E e \in Execution : Retire(e) \/ ScaleRead(e)
  \/ ScaleDelete \/ ChangeStop \/ Tick

Spec == Init /\ [][Next]_vars

\* The main loop never waits for longer than a request's timeout, so a task
\* that is not killed takes its next step.
LiveSpec == Spec /\ \A t \in Task : WF_vars(TaskStep(t))

-----------------------------------------------------------------------------
(* Properties                                                              *)

\* The object is absent, a cohort's guard, or a reservation that names the
\* cohort it replaces; a client's request has the parts its step needs.
TypeOK ==
  /\ guard \in Guard /\ current \subseteq Clients
  /\ tasks \in [Task -> Attempt] /\ reports \in [Task -> {None, "active", "finished", "failed"}]
  /\ calls \in [Operator -> Call] /\ scaling \in Execution \cup {None}
  /\ stop \in BOOLEAN /\ retired \subseteq Execution /\ replaced \subseteq Execution
  /\ assigned \in [Handover -> SUBSET Execution]

\* lease_update, crawl_handover.reserve, release_cohort_lease: a cohort whose
\* guard is live loses it only to a reservation that names it, to its own
\* last task, or to the scaleover tool, however the readings before the
\* write were delayed.
LiveGuardKept ==
  [][Live /\ guard.owner \in Execution /\ guard'.owner # guard.owner
       => \/ \E h \in Handover : PreviousOf[h] = guard.owner /\ guard' = Reservation(h)
          \/ /\ guard' = NoGuard
             /\ \/ scaling = guard.owner
                \/ \E t \in Task : At(t, "delete") /\ ExecutionOf[t] = guard.owner]_vars

\* crawl_handover: a reservation goes to the cohort of its own transfer and
\* to nobody else, even after it expired; the guard is never unowned between
\* the old and the new cohort.
HandoverKeepsOwner ==
  [][Reserved /\ guard'.owner # guard.owner
       => guard'.owner \in Execution /\ guard'.handover = guard.owner]_vars

\* require_not_retired before every read and again before every write, and the
\* generation: a cohort that was handed over never takes the guard from another
\* owner, live or expired, and never renews it.  It can only create the guard where
\* there is none, by a request held back since before it was marked.
FencedOut ==
  [][\A e \in replaced : guard'.owner = e
       => guard = NoGuard \/ (guard.owner = e /\ guard'.left <= guard.left)]_vars


\* transfer may be called again by several operators after a lost reply: however
\* guards expire or are deleted, what was reserved is given to one execution only.
OneAssignee ==
  \A h \in Handover : \A d \in assigned[h], e \in assigned[h] : d = e

\* release_cohort_lease: "A newer native attempt may have started since this
\* summary was published. Never delete its guard based on stale terminal
\* peers."  No task deletes the guard under an attempt whose heartbeat is
\* recorded.
NeverUnderNewerAttempt ==
  [][guard' = NoGuard /\ guard # NoGuard
       => \A t \in Task : At(t, "up") /\ reports[t] = "active" => ExecutionOf[t] # guard.owner]_vars

\* A running task whose cohort has lost the guard stops, or its cohort has
\* the guard again.
LostStops ==
  \A t \in Task :
    (Running(t) /\ tasks[t].beaten /\ guard.owner # ExecutionOf[t])
      ~> (~Running(t) \/ tasks[t].pc \in {"peers", "find", "delete"} \/ guard.owner = ExecutionOf[t])
=============================================================================
