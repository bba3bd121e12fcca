----------------------------- MODULE CohortProofs -----------------------------
(***************************************************************************)
(* Proofs about Cohort: the guard, for any executions, tasks, operators,   *)
(* handovers and durations; and what is published, for any tasks, attempts,*)
(* articles, chain of handovers and number of conflicts.                   *)
(***************************************************************************)
EXTENDS Cohort, FiniteSetTheorems, TLAPS


-----------------------------------------------------------------------------
(* Types                                                                   *)

LEMMA GuardTypes ==
  /\ NoGuard \in Guard
  /\ \A e \in Execution : CohortOf(e) \in Guard
  /\ \A i \in Handover : Reservation(i) \in Guard
  /\ guard \in Guard => \A i \in Handover, e \in Execution : Assignment(i, e) \in Guard
  /\ guard \in Guard /\ Live => [guard EXCEPT !.left = @ - 1] \in Guard
<1>1. NoGuard \in Guard
  BY DEF Guard
<1>2. \A e \in Execution : CohortOf(e) \in Guard
  BY TimeAssumption DEF Guard, CohortOf
<1>3. \A i \in Handover : Reservation(i) \in Guard
  BY TimeAssumption, LayoutAssumption DEF Guard, Reservation
<1>4. ASSUME guard \in Guard, NEW i \in Handover, NEW e \in Execution
      PROVE  Assignment(i, e) \in Guard
  <2>1. guard.previous \in Execution \cup {None}
    BY <1>4 DEF Guard, NoGuard
  <2>2. QED
    BY <2>1, TimeAssumption DEF Guard, Assignment
<1>5. ASSUME guard \in Guard, Live
      PROVE  [guard EXCEPT !.left = @ - 1] \in Guard
  <2>1. guard # NoGuard
    BY <1>5 DEF Live, NoGuard
  <2>2. CASE guard \in [owner : Execution, left : 0..GuardTtl, handover : Handover \cup {None},
                        previous : Execution \cup {None}]
    <3>1. guard.left - 1 \in 0..GuardTtl
      BY <1>5, <2>2, TimeAssumption DEF Live
    <3>2. QED
      BY <2>2, <3>1 DEF Guard
  <2>3. CASE guard \in [owner : Handover, left : 0..ReservationTtl, handover : Handover,
                        previous : Execution]
    <3>1. guard.left - 1 \in 0..ReservationTtl
      BY <1>5, <2>3, TimeAssumption DEF Live
    <3>2. QED
      BY <2>3, <3>1 DEF Guard
  <2>4. QED
    BY <1>5, <2>1, <2>2, <2>3 DEF Guard
<1>6. QED
  BY <1>1, <1>2, <1>3, <1>4, <1>5

LEMMA InitTypes == Init => TypeOK
<1>1. NoGuard \in Guard
  BY GuardTypes
<1>2. QED
  BY <1>1 DEF Init, TypeOK, Attempt, Down, Call, NoCall

\* A step of a task keeps the types of its own record.
LEMMA TaskTypes ==
  ASSUME TypeOK, NEW t \in Task
  PROVE  /\ \A pc \in {"down", "check", "read", "recheck", "write", "up", "beat", "peers", "find",
                       "delete", "failed", "ended"} : Go(t, pc) => tasks' \in [Task -> Attempt]
         /\ tasks[t] \in Attempt
         /\ ExecutionOf[t] \in Execution
<1>1. tasks[t] \in Attempt /\ ExecutionOf[t] \in Execution
  BY LayoutAssumption DEF TypeOK
<1>2. ASSUME NEW pc \in {"down", "check", "read", "recheck", "write", "up", "beat", "peers", "find",
                         "delete", "failed", "ended"}, Go(t, pc)
      PROVE  tasks' \in [Task -> Attempt]
  <2>1. [tasks[t] EXCEPT !.pc = pc] \in Attempt
    BY <1>1 DEF Attempt
  <2>2. QED
    BY <1>2, <2>1 DEF TypeOK, Go
<1>3. QED
  BY <1>1, <1>2

LEMMA StepTypes == TypeOK /\ [Next]_vars => TypeOK'
<1> SUFFICES ASSUME TypeOK, [Next]_vars
             PROVE  TypeOK'
  OBVIOUS
<1> USE DEF TypeOK
<1>1. ASSUME NEW t \in Task, Start(t) \/ Heartbeat(t)
      PROVE  TypeOK'
  <2>1. [Down EXCEPT !.pc = "check", !.initial = TRUE] \in Attempt
    BY DEF Down, Attempt
  <2>2. [tasks[t] EXCEPT !.pc = "check", !.initial = FALSE] \in Attempt
    BY TaskTypes DEF Attempt
  <2>3. CASE Start(t)
    BY <2>1, <2>3 DEF Start, Look, Others
  <2>4. CASE Heartbeat(t)
    BY <2>2, <2>4 DEF Heartbeat, Look, Others
  <2>5. QED
    BY <1>1, <2>3, <2>4
<1>2. ASSUME NEW t \in Task, Check(t) \/ Recheck(t) \/ Fail(t) \/ GiveUp(t) \/ ListPeers(t)
      PROVE  TypeOK'
  <2>1. tasks' \in [Task -> Attempt]
    BY <1>2, TaskTypes DEF Check, Recheck, Fail, Fails, GiveUp, ListPeers
  <2>2. QED
    BY <1>2, <2>1 DEF Check, Recheck, Fail, Fails, GiveUp, ListPeers, Look, Others
<1>3. ASSUME NEW t \in Task, Read(t)
      PROVE  TypeOK'
  <2>1. tasks' \in [Task -> Attempt] /\ UNCHANGED reports
    <3>1. CASE \E pc \in {"failed", "check", "up", "beat"} : Go(t, pc) /\ UNCHANGED reports
      BY <3>1, TaskTypes
    <3>2. CASE tasks' = [tasks EXCEPT ![t].pc = "recheck", ![t].absent = (guard = NoGuard)]
      <4>1. [tasks[t] EXCEPT !.pc = "recheck", !.absent = (guard = NoGuard)] \in Attempt
        BY TaskTypes DEF Attempt
      <4>2. UNCHANGED reports
        BY <1>3 DEF Read, Fails, Returns
      <4>3. QED
        BY <3>2, <4>1, <4>2
    <3>3. QED
      BY <1>3, <3>1, <3>2 DEF Read, Fails, Returns
  <2>2. guard' = guard /\ current' \subseteq Clients
    BY <1>3 DEF Read, Look, Sees, Clients
  <2>3. QED
    BY <1>3, <2>1, <2>2 DEF Read, Others
<1>4. ASSUME NEW t \in Task, WriteGuard(t)
      PROVE  TypeOK'
  <2>1. tasks' \in [Task -> Attempt] /\ UNCHANGED reports
    BY <1>4, TaskTypes DEF WriteGuard, Returns
  <2>2. guard' \in Guard /\ current' \subseteq Clients
    BY <1>4, GuardTypes, TaskTypes DEF WriteGuard, Put, Look
  <2>3. QED
    BY <1>4, <2>1, <2>2 DEF WriteGuard, Others
<1>5. ASSUME NEW t \in Task, Report(t) \/ Abort(t) \/ Crash(t)
      PROVE  TypeOK'
  <2>1. tasks' \in [Task -> Attempt]
    <3>1. [tasks[t] EXCEPT !.pc = "up", !.beaten = TRUE] \in Attempt /\ Down \in Attempt
      BY TaskTypes DEF Attempt, Down
    <3>2. CASE Report(t)
      BY <3>1, <3>2, TaskTypes DEF Report
    <3>3. CASE Abort(t) \/ Crash(t)
      BY <3>1, <3>3 DEF Abort, Crash
    <3>4. QED
      BY <1>5, <3>2, <3>3
  <2>2. reports' \in [Task -> {None, "active", "finished", "failed"}]
    BY <1>5 DEF Report, Abort, Crash
  <2>3. QED
    BY <1>5, <2>1, <2>2 DEF Report, Abort, Crash, Look, Others
<1>6. ASSUME NEW t \in Task, Find(t) \/ Delete(t)
      PROVE  TypeOK'
  <2>1. tasks' \in [Task -> Attempt] /\ UNCHANGED reports
    BY <1>6, TaskTypes DEF Find, Delete
  <2>2. guard' \in Guard /\ current' \subseteq Clients
    BY <1>6, GuardTypes DEF Find, Delete, Put, Look, Sees, Clients
  <2>3. QED
    BY <1>6, <2>1, <2>2 DEF Find, Delete, Others
<1>7. ASSUME NEW o \in Operator, NEW i \in Handover,
             ReserveRead(o, i) \/ \E e \in Execution : TransferRead(o, i, e)
      PROVE  TypeOK'
  <2>1. calls' \in [Operator -> Call]
    BY <1>7 DEF ReserveRead, TransferRead, Calls, Call
  <2>2. QED
    BY <1>7, <2>1 DEF ReserveRead, TransferRead, Sees, OperatorOnly, Clients
<1>8. ASSUME NEW o \in Operator, ReserveWrite(o) \/ TransferWrite(o)
      PROVE  TypeOK'
  <2>1. calls' \in [Operator -> Call] /\ calls[o] \in Call
    BY <1>8 DEF ReserveWrite, TransferWrite, Calls, Call, NoCall
  <2>2. CASE ReserveWrite(o)
    <3>1. calls[o].id \in Handover
      BY <2>1, <2>2 DEF ReserveWrite, Call, NoCall
    <3>2. PreviousOf[calls[o].id] \in Execution
      BY <3>1, LayoutAssumption
    <3>3. QED
      BY <2>1, <2>2, <3>1, <3>2, GuardTypes DEF ReserveWrite, Put, Look, OperatorOnly
  <2>3. CASE TransferWrite(o)
    <3>1. calls[o].id \in Handover /\ calls[o].to \in Execution
      BY <2>1, <2>3 DEF TransferWrite, Call, NoCall
    <3>2. QED
      BY <2>1, <2>3, <3>1, GuardTypes DEF TransferWrite, Put, Look, OperatorOnly
  <2>4. QED
    BY <1>8, <2>2, <2>3
<1>9. ASSUME NEW e \in Execution, Retire(e) \/ ScaleRead(e)
      PROVE  TypeOK'
  BY <1>9 DEF Retire, ScaleRead, Sees, Look, Clients
<1>10. CASE ScaleDelete
  BY <1>10, GuardTypes DEF ScaleDelete, Put, Look
<1>11. CASE ChangeStop
  BY <1>11 DEF ChangeStop, Look
<1>12. CASE Tick
  BY <1>12, GuardTypes DEF Tick
<1>13. CASE UNCHANGED vars
  BY <1>13 DEF vars
<1>14. QED
  BY <1>1, <1>2, <1>3, <1>4, <1>5, <1>6, <1>7, <1>8, <1>9, <1>10, <1>11, <1>12, <1>13
     DEF Next, TaskStep

\* The object, the tasks and the requests keep their shape.
THEOREM TypeCorrect == Spec => []TypeOK
<1>1. QED
  BY InitTypes, StepTypes, PTL DEF Spec

-----------------------------------------------------------------------------
(* What the readers of the present generation know                         *)

\* A reservation names itself and the cohort it replaces.
ReservationNames ==
  Reserved => guard.handover = guard.owner /\ guard.previous = PreviousOf[guard.owner]

\* A task about to write, or to delete, a generation that is still present.
TasksSaw ==
  \A t \in Task : t \in current =>
    /\ tasks[t].pc \in {"recheck", "write"} /\ ~tasks[t].absent
         => guard.owner \in Execution /\ (guard.owner = ExecutionOf[t] \/ ~Live)
    /\ tasks[t].pc = "delete" => guard.owner = ExecutionOf[t]

\* An operator in the middle of reserve or transfer.
OperatorsSaw ==
  \A o \in Operator : o \in current /\ calls[o] # NoCall =>
    IF calls[o].to = None THEN guard.owner = PreviousOf[calls[o].id]
    ELSE guard.owner = calls[o].id /\ guard.previous # calls[o].to

ScaleoverSaw == Scaleover \in current /\ scaling # None => guard.owner = scaling

ReadInv == TypeOK /\ ReservationNames /\ TasksSaw /\ OperatorsSaw /\ ScaleoverSaw

LEMMA InitReads == Init => ReadInv
<1> SUFFICES ASSUME Init
             PROVE  ReadInv
  OBVIOUS
<1>1. TypeOK
  BY InitTypes
<1>2. ReservationNames
  BY LayoutAssumption DEF Init, ReservationNames, Reserved, NoGuard
<1>3. TasksSaw /\ OperatorsSaw /\ ScaleoverSaw
  BY DEF Init, TasksSaw, OperatorsSaw, ScaleoverSaw
<1>4. QED
  BY <1>1, <1>2, <1>3 DEF ReadInv

\* Nobody has read what was just written.
LEMMA FreshReads ==
  ASSUME TypeOK', current' = {}, ReservationNames'
  PROVE  ReadInv'
BY DEF ReadInv, TasksSaw, OperatorsSaw, ScaleoverSaw

\* What is no reservation names nobody.
LEMMA CohortNames ==
  ASSUME guard'.owner \notin Handover
  PROVE  ReservationNames'
BY DEF ReservationNames, Reserved

LEMMA GoesOn ==
  ASSUME TypeOK, NEW t \in Task, NEW pc, Go(t, pc)
  PROVE  /\ tasks'[t].pc = pc /\ tasks'[t].absent = tasks[t].absent
         /\ \A u \in Task : u # t => tasks'[u] = tasks[u]
<1>1. tasks[t] \in Attempt
  BY TaskTypes
<1>2. tasks'[t] = [tasks[t] EXCEPT !.pc = pc] /\ \A u \in Task : u # t => tasks'[u] = tasks[u]
  BY DEF TypeOK, Go
<1>3. QED
  BY <1>1, <1>2 DEF Attempt

\* A step that changes only what its task knows, and this only to forget it or
\* to go on from the second look at the marker to the write.
LEMMA TaskReads ==
  ASSUME ReadInv, TypeOK', NEW t \in Task, Look, Others,
         \A u \in Task : u # t => tasks'[u] = tasks[u],
         \/ tasks'[t].pc \notin {"recheck", "write", "delete"}
         \/ tasks[t].pc = "recheck" /\ tasks'[t].pc = "write" /\ tasks'[t].absent = tasks[t].absent
  PROVE  ReadInv'
<1>1. ReservationNames' /\ OperatorsSaw' /\ ScaleoverSaw'
  BY DEF ReadInv, Look, Others, ReservationNames, Reserved, OperatorsSaw, ScaleoverSaw
<1>2. TasksSaw'
  <2>1. ASSUME NEW u \in Task, u # t, u \in current'
        PROVE  /\ tasks'[u].pc \in {"recheck", "write"} /\ ~tasks'[u].absent
                    => guard'.owner \in Execution /\ (guard'.owner = ExecutionOf[u] \/ ~Live')
               /\ tasks'[u].pc = "delete" => guard'.owner = ExecutionOf[u]
    BY <2>1 DEF ReadInv, TasksSaw, Look, Live
  <2>2. ASSUME t \in current'
        PROVE  /\ tasks'[t].pc \in {"recheck", "write"} /\ ~tasks'[t].absent
                    => guard'.owner \in Execution /\ (guard'.owner = ExecutionOf[t] \/ ~Live')
               /\ tasks'[t].pc = "delete" => guard'.owner = ExecutionOf[t]
    BY <2>2 DEF ReadInv, TasksSaw, Look, Live
  <2>3. QED
    BY <2>1, <2>2 DEF TasksSaw, Look
<1>3. QED
  BY <1>1, <1>2 DEF ReadInv

\* A step that adds one reader, and tells what it knows.
LEMMA NewReader ==
  ASSUME ReadInv, TypeOK', NEW c \in Clients, Sees(c),
         \A t \in Task : t # c => tasks'[t] = tasks[t],
         \A o \in Operator : o # c => calls'[o] = calls[o],
         c # Scaleover => scaling' = scaling,
         c \in Task =>
           /\ tasks'[c].pc \in {"recheck", "write"} /\ ~tasks'[c].absent
                => guard.owner \in Execution /\ (guard.owner = ExecutionOf[c] \/ ~Live)
           /\ tasks'[c].pc = "delete" => guard.owner = ExecutionOf[c],
         c \in Operator /\ calls'[c] # NoCall =>
           IF calls'[c].to = None THEN guard.owner = PreviousOf[calls'[c].id]
           ELSE guard.owner = calls'[c].id /\ guard.previous # calls'[c].to,
         c = Scaleover => guard.owner = scaling'
  PROVE  ReadInv'
<1>1. guard' = guard /\ current' = current \cup {c}
  BY DEF Sees
<1>2. ReservationNames'
  BY <1>1 DEF ReadInv, ReservationNames, Reserved
<1>3. TasksSaw'
  BY <1>1 DEF ReadInv, TasksSaw, Live
<1>4. OperatorsSaw'
  BY <1>1 DEF ReadInv, OperatorsSaw
<1>5. ScaleoverSaw'
  BY <1>1 DEF ReadInv, ScaleoverSaw
<1>6. QED
  BY <1>2, <1>3, <1>4, <1>5 DEF ReadInv

\* The steps of a task that do not touch the object.
Quiet(t) ==
  \/ Start(t) \/ Heartbeat(t) \/ Check(t) \/ Recheck(t) \/ Report(t) \/ Fail(t)
  \/ Abort(t) \/ Crash(t) \/ GiveUp(t) \/ ListPeers(t)

LEMMA QuietSteps ==
  ASSUME TypeOK, NEW t \in Task, Quiet(t)
  PROVE  /\ Look /\ Others /\ \A u \in Task : u # t => tasks'[u] = tasks[u]
         /\ \/ tasks'[t].pc \notin {"recheck", "write", "delete"}
            \/ /\ tasks[t].pc = "recheck" /\ tasks'[t].pc = "write" /\ ~IsRetired(t)
               /\ tasks'[t].absent = tasks[t].absent
<1>1. Look /\ Others
  BY DEF Quiet, Start, Heartbeat, Check, Recheck, Report, Fail, Abort, Crash, GiveUp, ListPeers
<1>2. \A u \in Task : u # t => tasks'[u] = tasks[u]
  BY DEF Quiet, Start, Heartbeat, Check, Recheck, Report, Fail, Abort, Crash, GiveUp, ListPeers,
     Go, Fails, TypeOK
<1>3. tasks[t] \in Attempt
  BY TaskTypes
<1>4. CASE Start(t) \/ Heartbeat(t)
  <2>1. tasks'[t] = [Down EXCEPT !.pc = "check", !.initial = TRUE]
        \/ tasks'[t] = [tasks[t] EXCEPT !.pc = "check", !.initial = FALSE]
    BY <1>4 DEF Start, Heartbeat, TypeOK
  <2>2. tasks'[t].pc = "check"
    BY <1>3, <2>1 DEF Down, Attempt
  <2>3. QED
    BY <1>1, <1>2, <2>2
<1>5. CASE Check(t) \/ Fail(t) \/ GiveUp(t)
  <2>1. \E pc \in {"failed", "read", "ended"} : Go(t, pc)
    BY <1>5 DEF Check, Fail, GiveUp, Fails
  <2>2. QED
    BY <1>1, <1>2, <2>1, GoesOn
<1>6. CASE ListPeers(t)
  <2>1. tasks[t].pc = "peers" /\ \E pc \in {"ended", "find"} : Go(t, pc)
    BY <1>6 DEF ListPeers, At
  <2>2. QED
    BY <1>1, <1>2, <2>1, GoesOn
<1>7. CASE Recheck(t)
  <2>1. CASE IsRetired(t)
    BY <1>1, <1>2, <1>7, <2>1, GoesOn DEF Recheck, Fails
  <2>2. CASE ~IsRetired(t)
    BY <1>1, <1>2, <1>7, <2>2, GoesOn DEF Recheck, At
  <2>3. QED
    BY <2>1, <2>2
<1>8. CASE Report(t)
  <2>1. CASE Go(t, "peers")
    BY <1>1, <1>2, <2>1, GoesOn
  <2>2. CASE tasks' = [tasks EXCEPT ![t].pc = "up", ![t].beaten = TRUE]
    <3>1. tasks'[t].pc = "up"
      BY <1>3, <2>2 DEF TypeOK, Attempt
    <3>2. QED
      BY <1>1, <1>2, <3>1
  <2>3. QED
    BY <1>8, <2>1, <2>2 DEF Report
<1>9. CASE Abort(t) \/ Crash(t)
  <2>1. tasks'[t].pc = "down"
    BY <1>9 DEF Abort, Crash, TypeOK, Down
  <2>2. QED
    BY <1>1, <1>2, <2>1
<1>10. QED
  BY <1>4, <1>5, <1>6, <1>7, <1>8, <1>9 DEF Quiet

LEMMA StepReads == ReadInv /\ [Next]_vars => ReadInv'
<1> SUFFICES ASSUME ReadInv, [Next]_vars
             PROVE  ReadInv'
  OBVIOUS
<1>0. TypeOK /\ TypeOK'
  BY StepTypes DEF ReadInv
<1>1. ASSUME NEW t \in Task, Quiet(t)
      PROVE  ReadInv'
  BY <1>0, <1>1, QuietSteps, TaskReads
<1>2. ASSUME NEW t \in Task, Read(t)
      PROVE  ReadInv'
  <2>0. UNCHANGED <<calls, scaling>> /\ \A u \in Task : u # t => tasks'[u] = tasks[u]
    BY <1>0, <1>2 DEF Read, Others, Go, Fails, Returns, TypeOK
  <2>1. CASE Look /\ \E pc \in {"failed", "check", "up", "beat"} : Go(t, pc)
    <3>1. tasks'[t].pc \notin {"recheck", "write", "delete"}
      BY <1>0, <2>1, GoesOn
    <3>2. Others
      BY <1>2 DEF Read
    <3>3. QED
      BY <1>0, <2>0, <2>1, <3>1, <3>2, TaskReads
  <2>2. CASE /\ Sees(t) /\ tasks' = [tasks EXCEPT ![t].pc = "recheck", ![t].absent = (guard = NoGuard)]
             /\ guard = NoGuard \/ guard.owner = ExecutionOf[t] \/ ~Bars(t)
    <3>1. tasks'[t].pc = "recheck" /\ tasks'[t].absent = (guard = NoGuard)
      BY <1>0, <2>2, TaskTypes DEF TypeOK, Attempt
    <3>2. guard # NoGuard => guard.owner \in Execution /\ (guard.owner = ExecutionOf[t] \/ ~Live)
      BY <1>0, <2>2, TaskTypes DEF TypeOK, Bars, Reserved, Guard
    <3>3. t \in Clients /\ t \notin Operator /\ t # Scaleover
      BY ClientAssumption DEF Clients
    <3>4. QED
      BY <1>0, <2>0, <2>2, <3>1, <3>2, <3>3, NewReader
  <2>3. QED
    BY <1>2, <2>1, <2>2 DEF Read, Fails, Returns
<1>3. ASSUME NEW t \in Task, WriteGuard(t)
      PROVE  ReadInv'
  <2>1. CASE Put(CohortOf(ExecutionOf[t]))
    <3>1. guard'.owner \notin Handover
      BY <1>0, <2>1, TaskTypes, LayoutAssumption DEF Put, CohortOf
    <3>2. QED
      BY <1>0, <2>1, <3>1, CohortNames, FreshReads DEF Put
  <2>2. CASE Look /\ Go(t, "check")
    <3>1. tasks'[t].pc = "check" /\ \A u \in Task : u # t => tasks'[u] = tasks[u]
      BY <1>0, <2>2, TaskTypes DEF Go, TypeOK, Attempt
    <3>2. QED
      BY <1>0, <1>3, <2>2, <3>1, TaskReads DEF WriteGuard
  <2>3. QED
    BY <1>3, <2>1, <2>2 DEF WriteGuard
<1>4. ASSUME NEW t \in Task, Find(t)
      PROVE  ReadInv'
  <2>0. UNCHANGED <<calls, scaling>> /\ \A u \in Task : u # t => tasks'[u] = tasks[u]
    BY <1>0, <1>4 DEF Find, Others, Go, TypeOK
  <2>1. CASE guard.owner = ExecutionOf[t] /\ Sees(t) /\ Go(t, "delete")
    <3>1. tasks'[t].pc = "delete"
      BY <1>0, <2>1, TaskTypes DEF Go, TypeOK, Attempt
    <3>2. t \in Clients /\ t \notin Operator /\ t # Scaleover
      BY ClientAssumption DEF Clients
    <3>3. QED
      BY <1>0, <2>0, <2>1, <3>1, <3>2, NewReader
  <2>2. CASE Look /\ Go(t, "ended")
    <3>1. tasks'[t].pc = "ended"
      BY <1>0, <2>2, TaskTypes DEF Go, TypeOK, Attempt
    <3>2. QED
      BY <1>0, <1>4, <2>0, <2>2, <3>1, TaskReads DEF Find
  <2>3. QED
    BY <1>4, <2>1, <2>2 DEF Find
<1>5. ASSUME NEW t \in Task, Delete(t)
      PROVE  ReadInv'
  <2>1. CASE Put(NoGuard)
    <3>1. guard'.owner \notin Handover
      BY <2>1, LayoutAssumption DEF Put, NoGuard
    <3>2. QED
      BY <1>0, <2>1, <3>1, CohortNames, FreshReads DEF Put
  <2>2. CASE Look /\ Go(t, "peers")
    <3>1. tasks'[t].pc = "peers" /\ \A u \in Task : u # t => tasks'[u] = tasks[u]
      BY <1>0, <2>2, TaskTypes DEF Go, TypeOK, Attempt
    <3>2. QED
      BY <1>0, <1>5, <2>2, <3>1, TaskReads DEF Delete
  <2>3. QED
    BY <1>5, <2>1, <2>2 DEF Delete
<1>6. ASSUME NEW o \in Operator, NEW i \in Handover,
             ReserveRead(o, i) \/ \E e \in Execution : TransferRead(o, i, e)
      PROVE  ReadInv'
  <2>1. Sees(o) /\ UNCHANGED <<tasks, scaling>> /\ \A p \in Operator : p # o => calls'[p] = calls[p]
    BY <1>0, <1>6 DEF ReserveRead, TransferRead, OperatorOnly, Calls, TypeOK
  <2>2. IF calls'[o].to = None THEN guard.owner = PreviousOf[calls'[o].id]
        ELSE guard.owner = calls'[o].id /\ guard.previous # calls'[o].to
    BY <1>0, <1>6, LayoutAssumption DEF ReserveRead, TransferRead, Calls, TypeOK
  <2>3. o \in Clients /\ o \notin Task /\ o # Scaleover
    BY ClientAssumption DEF Clients
  <2>4. QED
    BY <1>0, <2>1, <2>2, <2>3, NewReader
<1>7. ASSUME NEW o \in Operator, ReserveWrite(o) \/ TransferWrite(o)
      PROVE  ReadInv'
  <2>1. calls[o] # NoCall /\ calls[o].id \in Handover
    BY <1>0, <1>7 DEF ReserveWrite, TransferWrite, TypeOK, Call, NoCall
  <2>2. CASE Put(Reservation(calls[o].id))
    <3>1. ReservationNames'
      BY <2>2 DEF Put, Reservation, ReservationNames, Reserved
    <3>2. QED
      BY <1>0, <2>2, <3>1, FreshReads DEF Put
  <2>3. CASE TransferWrite(o) /\ Put(Assignment(calls[o].id, calls[o].to))
    <3>1. calls[o].to \in Execution
      BY <1>0, <2>3 DEF TransferWrite, TypeOK, Call, NoCall
    <3>2. guard'.owner \notin Handover
      BY <2>3, <3>1, LayoutAssumption DEF Put, Assignment
    <3>3. QED
      BY <1>0, <2>3, <3>2, CohortNames, FreshReads DEF Put
  <2>4. CASE Look
    <3>1. UNCHANGED <<tasks, scaling>> /\ calls'[o] = NoCall
          /\ \A p \in Operator : p # o => calls'[p] = calls[p]
      BY <1>0, <1>7 DEF ReserveWrite, TransferWrite, OperatorOnly, Calls, TypeOK
    <3>2. ReservationNames' /\ TasksSaw' /\ ScaleoverSaw'
      BY <2>4, <3>1 DEF ReadInv, Look, ReservationNames, Reserved, TasksSaw, ScaleoverSaw, Live
    <3>3. OperatorsSaw'
      BY <2>4, <3>1 DEF ReadInv, Look, OperatorsSaw
    <3>4. QED
      BY <1>0, <3>2, <3>3 DEF ReadInv
  <2>5. QED
    BY <1>7, <2>2, <2>3, <2>4 DEF ReserveWrite, TransferWrite
<1>8. ASSUME NEW e \in Execution, Retire(e)
      PROVE  ReadInv'
  BY <1>0, <1>8 DEF Retire, Look, ReadInv, ReservationNames, Reserved, TasksSaw, OperatorsSaw,
     ScaleoverSaw, Live
<1>9. ASSUME NEW e \in Execution, ScaleRead(e)
      PROVE  ReadInv'
  <2>1. Sees(Scaleover) /\ UNCHANGED <<tasks, calls>> /\ guard.owner = scaling'
    BY <1>9 DEF ScaleRead
  <2>2. Scaleover \in Clients /\ Scaleover \notin Task /\ Scaleover \notin Operator
    BY ClientAssumption DEF Clients
  <2>3. QED
    BY <1>0, <2>1, <2>2, NewReader
<1>10. CASE ScaleDelete
  <2>1. CASE Put(NoGuard)
    <3>1. guard'.owner \notin Handover
      BY <2>1, LayoutAssumption DEF Put, NoGuard
    <3>2. QED
      BY <1>0, <2>1, <3>1, CohortNames, FreshReads DEF Put
  <2>2. CASE Look
    BY <1>0, <1>10, <2>2 DEF ScaleDelete, Look, ReadInv, ReservationNames, Reserved, TasksSaw,
       OperatorsSaw, ScaleoverSaw, Live
  <2>3. QED
    BY <1>10, <2>1, <2>2 DEF ScaleDelete
<1>11. CASE ChangeStop
  BY <1>0, <1>11 DEF ChangeStop, Look, ReadInv, ReservationNames, Reserved, TasksSaw, OperatorsSaw,
     ScaleoverSaw, Live
<1>12. CASE Tick
  <2>1. /\ guard'.owner = guard.owner /\ guard'.previous = guard.previous
        /\ guard'.handover = guard.handover /\ (~Live => ~Live')
    BY <1>0, <1>12 DEF Tick, TypeOK, Guard, NoGuard, Live
  <2>2. QED
    BY <1>0, <1>12, <2>1 DEF Tick, ReadInv, ReservationNames, Reserved, TasksSaw, OperatorsSaw,
       ScaleoverSaw
<1>13. CASE UNCHANGED vars
  BY <1>0, <1>13 DEF vars, ReadInv, ReservationNames, Reserved, TasksSaw, OperatorsSaw,
       ScaleoverSaw,
     Live
<1>14. QED
  BY <1>1, <1>2, <1>3, <1>4, <1>5, <1>6, <1>7, <1>8, <1>9, <1>10, <1>11, <1>12, <1>13
     DEF Next, TaskStep, Quiet

-----------------------------------------------------------------------------
(* Who changes the owner                                                   *)

TaskWrites(t) ==
  /\ tasks[t].pc = "write" /\ IF tasks[t].absent THEN guard = NoGuard ELSE t \in current
  /\ guard' = CohortOf(ExecutionOf[t])
TaskDeletes(t) == At(t, "delete") /\ t \in current /\ guard' = NoGuard
Reserves(o) ==
  /\ calls[o] # NoCall /\ calls[o].id \in Handover /\ calls[o].to = None /\ o \in current
  /\ guard' = Reservation(calls[o].id) /\ replaced' = replaced \cup {PreviousOf[calls[o].id]}
  /\ assigned' = [assigned EXCEPT ![calls[o].id] = {}]
  /\ UNCHANGED retired
Transfers(o) ==
  /\ calls[o] # NoCall /\ calls[o].id \in Handover /\ calls[o].to \in Execution /\ o \in current
  /\ guard' = Assignment(calls[o].id, calls[o].to)
  /\ assigned' = [assigned EXCEPT ![calls[o].id] = @ \cup {calls[o].to}]
  /\ UNCHANGED <<retired, replaced>>
ToolDeletes == scaling # None /\ Scaleover \in current /\ guard' = NoGuard

LEMMA Changes ==
  ASSUME TypeOK, [Next]_vars, guard' # guard
  PROVE  \/ \E t \in Task : TaskWrites(t) \/ TaskDeletes(t)
         \/ \E o \in Operator : Reserves(o) \/ Transfers(o)
         \/ ToolDeletes
         \/ Tick
<1>1. ASSUME NEW t \in Task, Quiet(t) \/ Read(t) \/ Find(t)
      PROVE  FALSE
  BY <1>1, QuietSteps DEF Read, Find, Look, Sees
<1>2. ASSUME NEW t \in Task, WriteGuard(t) \/ Delete(t)
      PROVE  TaskWrites(t) \/ TaskDeletes(t)
  BY <1>2 DEF WriteGuard, Delete, Put, Look, Accepted, At, TaskWrites, TaskDeletes
<1>3. ASSUME NEW o \in Operator, NEW i \in Handover,
             ReserveRead(o, i) \/ \E e \in Execution : TransferRead(o, i, e)
      PROVE  FALSE
  BY <1>3 DEF ReserveRead, TransferRead, Sees
<1>4. ASSUME NEW o \in Operator, ReserveWrite(o)
      PROVE  Reserves(o)
  <2>1. calls[o] # NoCall /\ calls[o].id \in Handover
    BY <1>4 DEF ReserveWrite, TypeOK, Call, NoCall
  <2>2. QED
    BY <1>4, <2>1 DEF ReserveWrite, Put, Look, Accepted, OperatorOnly, Reserves
<1>5. ASSUME NEW o \in Operator, TransferWrite(o)
      PROVE  Transfers(o)
  <2>1. calls[o] # NoCall /\ calls[o].id \in Handover /\ calls[o].to \in Execution
    BY <1>5 DEF TransferWrite, TypeOK, Call, NoCall
  <2>2. QED
    BY <1>5, <2>1 DEF TransferWrite, Put, Look, Accepted, OperatorOnly, Transfers
<1>6. ASSUME NEW e \in Execution, Retire(e) \/ ScaleRead(e)
      PROVE  FALSE
  BY <1>6 DEF Retire, ScaleRead, Look, Sees
<1>7. CASE ScaleDelete
  BY <1>7 DEF ScaleDelete, Put, Look, Accepted, ToolDeletes
<1>8. ~ChangeStop /\ ~UNCHANGED vars
  BY DEF ChangeStop, Look, vars
<1>9. QED
  BY <1>1, <1>2, <1>3, <1>4, <1>5, <1>6, <1>7, <1>8 DEF Next, TaskStep, Quiet

LEMMA Writers ==
  ASSUME TypeOK, [Next]_vars, guard'.owner # guard.owner
  PROVE  \/ \E t \in Task : TaskWrites(t) \/ TaskDeletes(t)
         \/ \E o \in Operator : Reserves(o) \/ Transfers(o)
         \/ ToolDeletes
<1>1. ~Tick
  BY DEF Tick, TypeOK, Guard, NoGuard
<1>2. QED
  BY <1>1, Changes

\* A live guard leaves its cohort only by a reservation that names the cohort,
\* by its last task, or by the scaleover tool.
THEOREM LiveGuardStays == Spec => LiveGuardKept
<1>1. ASSUME ReadInv, [Next]_vars, Live, guard.owner \in Execution, guard'.owner # guard.owner
      PROVE  \/ \E h \in Handover : PreviousOf[h] = guard.owner /\ guard' = Reservation(h)
             \/ /\ guard' = NoGuard
                /\ \/ scaling = guard.owner
                   \/ \E t \in Task : At(t, "delete") /\ ExecutionOf[t] = guard.owner
  <2>1. TypeOK /\ guard # NoGuard
    BY <1>1 DEF ReadInv, Live, NoGuard
  <2>2. ASSUME NEW t \in Task, TaskWrites(t)
        PROVE  FALSE
    BY <1>1, <2>1, <2>2 DEF TaskWrites, ReadInv, TasksSaw, CohortOf
  <2>3. ASSUME NEW t \in Task, TaskDeletes(t)
        PROVE  guard' = NoGuard /\ At(t, "delete") /\ ExecutionOf[t] = guard.owner
    BY <1>1, <2>3 DEF TaskDeletes, ReadInv, TasksSaw, At
  <2>4. ASSUME NEW o \in Operator, Reserves(o)
        PROVE  PreviousOf[calls[o].id] = guard.owner /\ guard' = Reservation(calls[o].id)
    BY <1>1, <2>4 DEF Reserves, ReadInv, OperatorsSaw
  <2>5. ASSUME NEW o \in Operator, Transfers(o)
        PROVE  FALSE
    BY <1>1, <2>5, LayoutAssumption DEF Transfers, ReadInv, OperatorsSaw
  <2>6. ToolDeletes => guard' = NoGuard /\ scaling = guard.owner
    BY <1>1 DEF ToolDeletes, ReadInv, ScaleoverSaw
  <2>7. QED
    BY <1>1, <2>1, <2>2, <2>3, <2>4, <2>5, <2>6, Writers DEF Reserves
<1>2. ReadInv /\ [Next]_vars
        => [Live /\ guard.owner \in Execution /\ guard'.owner # guard.owner
              => \/ \E h \in Handover : PreviousOf[h] = guard.owner /\ guard' = Reservation(h)
                 \/ /\ guard' = NoGuard
                    /\ \/ scaling = guard.owner
                       \/ \E t \in Task : At(t, "delete") /\ ExecutionOf[t] = guard.owner]_vars
  BY <1>1
<1>3. QED
  BY <1>2, InitReads, StepReads, PTL DEF Spec, LiveGuardKept

\* A reservation leaves its handover only by the transfer of that handover.
THEOREM HandoverStays == Spec => HandoverKeepsOwner
<1>1. ASSUME ReadInv, [Next]_vars, Reserved, guard'.owner # guard.owner
      PROVE  guard'.owner \in Execution /\ guard'.handover = guard.owner
  <2>1. TypeOK /\ guard # NoGuard /\ guard.owner \notin Execution
    BY <1>1, LayoutAssumption DEF ReadInv, Reserved, NoGuard
  <2>2. ASSUME NEW t \in Task, TaskWrites(t) \/ TaskDeletes(t)
        PROVE  FALSE
    <3>1. ExecutionOf[t] \in Execution
      BY LayoutAssumption
    <3>2. QED
      BY <1>1, <2>1, <2>2, <3>1 DEF TaskWrites, TaskDeletes, ReadInv, TasksSaw, At
  <2>3. ASSUME NEW o \in Operator, Reserves(o)
        PROVE  FALSE
    BY <1>1, <2>1, <2>3, LayoutAssumption DEF Reserves, ReadInv, OperatorsSaw
  <2>4. ASSUME NEW o \in Operator, Transfers(o)
        PROVE  guard'.owner \in Execution /\ guard'.handover = guard.owner
    BY <1>1, <2>4, LayoutAssumption DEF Transfers, ReadInv, OperatorsSaw, Assignment
  <2>5. ~ToolDeletes
    BY <1>1, <2>1 DEF ToolDeletes, ReadInv, ScaleoverSaw, TypeOK
  <2>6. QED
    BY <1>1, <2>1, <2>2, <2>3, <2>4, <2>5, Writers
<1>2. ReadInv /\ [Next]_vars
        => [Reserved /\ guard'.owner # guard.owner
              => guard'.owner \in Execution /\ guard'.handover = guard.owner]_vars
  BY <1>1
<1>3. QED
  BY <1>2, InitReads, StepReads, PTL DEF Spec, HandoverKeepsOwner

-----------------------------------------------------------------------------
(* Replaced cohorts and their handovers                                    *)

\* A task that may still write passed its second look at the marker.
WritersUnmarked ==
  \A t \in Task :
    t \in current /\ tasks[t].pc = "write" /\ ~tasks[t].absent => ExecutionOf[t] \notin retired

\* A transfer that may still succeed goes from a marked cohort to an unmarked one.
TransfersFenced ==
  \A o \in Operator : o \in current /\ calls[o] # NoCall /\ calls[o].to # None =>
    PreviousOf[calls[o].id] \in retired /\ calls[o].to \notin retired

ClientInv == WritersUnmarked /\ TransfersFenced

\* A replaced cohort is marked, or is the one the present reservation replaces.
ReplacedMarked == \A e \in replaced : e \in retired \/ (Reserved /\ guard.previous = e)

\* A handover that was transferred is over until it is reserved again.
AssignedOver == \A i \in Handover : assigned[i] # {} => guard.owner # i

OwnerInv == ReplacedMarked /\ AssignedOver /\ OneAssignee

FenceInv == ReadInv /\ ClientInv /\ OwnerInv

LEMMA InitFence == Init => FenceInv
<1> SUFFICES ASSUME Init
             PROVE  FenceInv
  OBVIOUS
<1>1. ReadInv
  BY InitReads
<1>2. ClientInv
  BY DEF Init, ClientInv, WritersUnmarked, TransfersFenced
<1>3. OwnerInv
  BY DEF Init, OwnerInv, ReplacedMarked, AssignedOver, OneAssignee
<1>4. QED
  BY <1>1, <1>2, <1>3 DEF FenceInv

\* Markers are placed for the cohort that the present reservation replaces.
LEMMA Markers ==
  ASSUME TypeOK, [Next]_vars
  PROVE  \/ UNCHANGED <<retired, replaced, assigned>>
         \/ /\ UNCHANGED <<guard, current, tasks, calls, replaced, assigned>> /\ Reserved
            /\ retired' = retired \cup {guard.previous}
         \/ \E o \in Operator : Reserves(o) \/ Transfers(o)
<1>1. ASSUME NEW t \in Task,
             Quiet(t) \/ Read(t) \/ WriteGuard(t) \/ Find(t) \/ Delete(t)
      PROVE  UNCHANGED <<retired, replaced, assigned>>
  BY <1>1, QuietSteps DEF Read, WriteGuard, Find, Delete, Others
<1>2. ASSUME NEW o \in Operator, NEW i \in Handover,
             ReserveRead(o, i) \/ \E e \in Execution : TransferRead(o, i, e)
      PROVE  UNCHANGED <<retired, replaced, assigned>>
  BY <1>2 DEF ReserveRead, TransferRead, OperatorOnly
<1>3. ASSUME NEW o \in Operator, ReserveWrite(o)
      PROVE  UNCHANGED <<retired, replaced, assigned>> \/ Reserves(o)
  <2>1. calls[o] # NoCall /\ calls[o].id \in Handover
    BY <1>3 DEF ReserveWrite, TypeOK, Call, NoCall
  <2>2. QED
    BY <1>3, <2>1 DEF ReserveWrite, Put, Accepted, OperatorOnly, Reserves
<1>4. ASSUME NEW o \in Operator, TransferWrite(o)
      PROVE  UNCHANGED <<retired, replaced, assigned>> \/ Transfers(o)
  <2>1. calls[o] # NoCall /\ calls[o].id \in Handover /\ calls[o].to \in Execution
    BY <1>4 DEF TransferWrite, TypeOK, Call, NoCall
  <2>2. QED
    BY <1>4, <2>1 DEF TransferWrite, Put, Accepted, OperatorOnly, Transfers
<1>5. ASSUME NEW e \in Execution, Retire(e)
      PROVE  /\ UNCHANGED <<guard, current, tasks, calls, replaced, assigned>> /\ Reserved
             /\ retired' = retired \cup {guard.previous}
  BY <1>5 DEF Retire, Look
<1>6. ASSUME (\E e \in Execution : ScaleRead(e)) \/ ScaleDelete \/ ChangeStop \/ Tick \/ UNCHANGED vars
      PROVE  UNCHANGED <<retired, replaced, assigned>>
  BY <1>6 DEF ScaleRead, ScaleDelete, ChangeStop, Tick, vars
<1>7. QED
  BY <1>1, <1>2, <1>3, <1>4, <1>5, <1>6 DEF Next, TaskStep, Quiet

\* A task that takes a guard which is there is of a cohort that was never replaced.
LEMMA WriterNotReplaced ==
  ASSUME FenceInv, NEW t \in Task, TaskWrites(t), guard # NoGuard
  PROVE  ExecutionOf[t] \notin replaced
<1>1. CASE tasks[t].absent
  BY <1>1 DEF TaskWrites
<1>2. CASE ~tasks[t].absent
  <2>1. guard.owner \in Execution /\ ExecutionOf[t] \notin retired
    BY <1>2 DEF TaskWrites, FenceInv, ReadInv, TasksSaw, ClientInv, WritersUnmarked
  <2>2. ~Reserved
    BY <2>1, LayoutAssumption DEF Reserved
  <2>3. QED
    BY <2>1, <2>2 DEF FenceInv, OwnerInv, ReplacedMarked
<1>3. QED
  BY <1>1, <1>2

\* The guard goes to a cohort that was never replaced, from a marked one.
LEMMA TransferGoesOn ==
  ASSUME FenceInv, NEW o \in Operator, Transfers(o)
  PROVE  /\ guard.owner = calls[o].id /\ guard.previous \in retired
         /\ calls[o].to \notin replaced
<1>1. guard.owner = calls[o].id /\ guard.previous # calls[o].to /\ Reserved
  BY LayoutAssumption DEF Transfers, FenceInv, ReadInv, OperatorsSaw, Reserved
<1>2. guard.previous = PreviousOf[calls[o].id]
  BY <1>1 DEF FenceInv, ReadInv, ReservationNames
<1>3. PreviousOf[calls[o].id] \in retired /\ calls[o].to \notin retired
  BY LayoutAssumption DEF Transfers, FenceInv, ClientInv, TransfersFenced
<1>4. QED
  BY <1>1, <1>2, <1>3 DEF FenceInv, OwnerInv, ReplacedMarked

LEMMA StepOwner ==
  ASSUME FenceInv, ReadInv', [Next]_vars
  PROVE  OwnerInv'
<1>0. TypeOK /\ TypeOK' /\ ReservationNames /\ ReservationNames' /\ OwnerInv
  BY DEF FenceInv, ReadInv
<1>1. ASSUME NEW o \in Operator, Reserves(o)
      PROVE  OwnerInv'
  <2> DEFINE i == calls[o].id
  <2>1. i \in Handover /\ guard.owner = PreviousOf[i] /\ guard.owner \in Execution
    BY <1>1, LayoutAssumption DEF Reserves, FenceInv, ReadInv, OperatorsSaw
  <2>2. guard'.owner = i /\ guard'.previous = PreviousOf[i] /\ Reserved'
    BY <1>1, <2>1 DEF Reserves, Reservation, Reserved
  <2>3. replaced' = replaced \cup {PreviousOf[i]} /\ UNCHANGED retired
    BY <1>1 DEF Reserves
  <2>4. replaced \subseteq retired
    BY <1>0, <2>1, LayoutAssumption DEF OwnerInv, ReplacedMarked, Reserved
  <2>5. assigned'[i] = {} /\ \A j \in Handover : j # i => assigned'[j] = assigned[j]
    BY <1>0, <1>1, <2>1 DEF Reserves, TypeOK
  <2>6. AssignedOver' /\ OneAssignee'
    BY <1>0, <2>2, <2>5 DEF OwnerInv, AssignedOver, OneAssignee
  <2>7. ReplacedMarked'
    BY <2>2, <2>3, <2>4 DEF ReplacedMarked
  <2>8. QED
    BY <2>6, <2>7 DEF OwnerInv
<1>2. ASSUME NEW o \in Operator, Transfers(o)
      PROVE  OwnerInv'
  <2> DEFINE i == calls[o].id
             e == calls[o].to
  <2>1. i \in Handover /\ e \in Execution /\ guard.owner = i /\ guard.previous \in retired
    BY <1>2, TransferGoesOn DEF Transfers
  <2>2. guard'.owner = e /\ UNCHANGED <<retired, replaced>>
    BY <1>2 DEF Transfers, Assignment
  <2>3. assigned[i] = {}
    BY <1>0, <2>1 DEF OwnerInv, AssignedOver
  <2>4. assigned'[i] = {e} /\ \A j \in Handover : j # i => assigned'[j] = assigned[j]
    BY <1>0, <1>2, <2>1, <2>3 DEF Transfers, TypeOK
  <2>5. AssignedOver'
    BY <2>1, <2>2, LayoutAssumption DEF AssignedOver
  <2>6. OneAssignee'
    BY <1>0, <2>4 DEF OwnerInv, OneAssignee
  <2>7. ReplacedMarked'
    BY <1>0, <2>1, <2>2 DEF OwnerInv, ReplacedMarked
  <2>8. QED
    BY <2>5, <2>6, <2>7 DEF OwnerInv
<1>3. CASE \A o \in Operator : ~Reserves(o) /\ ~Transfers(o)
  <2>1. UNCHANGED <<replaced, assigned>> /\ retired \subseteq retired'
    BY <1>0, <1>3, Markers
  <2>2. guard'.owner = guard.owner \/ guard'.owner \notin Handover
    <3>1. ASSUME NEW t \in Task, TaskWrites(t) \/ TaskDeletes(t)
          PROVE  guard'.owner \notin Handover
      BY <3>1, LayoutAssumption DEF TaskWrites, TaskDeletes, CohortOf, NoGuard
    <3>2. ToolDeletes => guard'.owner \notin Handover
      BY LayoutAssumption DEF ToolDeletes, NoGuard
    <3>3. QED
      BY <1>0, <1>3, <3>1, <3>2, Writers
  <2>3. AssignedOver' /\ OneAssignee'
    BY <1>0, <2>1, <2>2 DEF OwnerInv, AssignedOver, OneAssignee
  <2>4. Reserved => guard'.owner = guard.owner /\ guard'.previous = guard.previous
    <3>1. ASSUME Reserved, guard'.owner # guard.owner
          PROVE  FALSE
      <4>1. guard # NoGuard /\ guard.owner \notin Execution
        BY <3>1, LayoutAssumption DEF Reserved, NoGuard
      <4>2. \A t \in Task : ~TaskWrites(t) /\ ~TaskDeletes(t)
        BY <4>1, LayoutAssumption DEF TaskWrites, TaskDeletes, FenceInv, ReadInv, TasksSaw, At
      <4>3. ~ToolDeletes
        BY <1>0, <4>1 DEF ToolDeletes, FenceInv, ReadInv, ScaleoverSaw, TypeOK
      <4>4. QED
        BY <1>0, <1>3, <3>1, <4>2, <4>3, Writers
    <3>2. QED
      BY <1>0, <3>1 DEF ReservationNames, Reserved
  <2>5. ReplacedMarked'
    BY <1>0, <2>1, <2>4 DEF OwnerInv, ReplacedMarked, Reserved
  <2>6. QED
    BY <2>3, <2>5 DEF OwnerInv
<1>4. QED
  BY <1>1, <1>2, <1>3

LEMMA StepClients ==
  ASSUME FenceInv, ReadInv', [Next]_vars
  PROVE  ClientInv'
<1>0. TypeOK /\ TypeOK' /\ WritersUnmarked /\ TransfersFenced /\ TasksSaw /\ OperatorsSaw
  BY DEF FenceInv, ReadInv, ClientInv
<1>1. ASSUME NEW t \in Task, Quiet(t)
      PROVE  ClientInv'
  <2>1. /\ Look /\ Others /\ \A u \in Task : u # t => tasks'[u] = tasks[u]
        /\ tasks'[t].pc = "write" => ~IsRetired(t)
    BY <1>0, <1>1, QuietSteps
  <2>2. TransfersFenced'
    BY <1>0, <2>1 DEF Look, Others, TransfersFenced
  <2>3. WritersUnmarked'
    BY <1>0, <2>1 DEF Look, Others, WritersUnmarked, IsRetired
  <2>4. QED
    BY <2>2, <2>3 DEF ClientInv
<1>2. ASSUME NEW t \in Task, Read(t) \/ WriteGuard(t) \/ Find(t) \/ Delete(t)
      PROVE  ClientInv'
  <2>1. Others /\ \A c : c # t => (c \in current' => c \in current)
    BY <1>2 DEF Read, WriteGuard, Find, Delete, Look, Sees, Put
  <2>2. /\ tasks'[t].pc # "write"
        /\ \A u \in Task : u # t => tasks'[u] = tasks[u]
    <3>1. CASE \E pc \in {"failed", "check", "up", "beat", "delete", "ended", "peers"} : Go(t, pc)
      BY <1>0, <3>1, GoesOn
    <3>2. CASE tasks' = [tasks EXCEPT ![t].pc = "recheck", ![t].absent = (guard = NoGuard)]
      BY <1>0, <3>2, TaskTypes DEF TypeOK, Attempt
    <3>3. QED
      BY <1>2, <3>1, <3>2 DEF Read, WriteGuard, Find, Delete, Fails, Returns
  <2>3. WritersUnmarked'
    BY <1>0, <2>1, <2>2 DEF Others, WritersUnmarked
  <2>4. \A o \in Operator : o # t
    BY ClientAssumption
  <2>5. TransfersFenced'
    BY <1>0, <2>1, <2>4 DEF Others, TransfersFenced
  <2>6. QED
    BY <2>3, <2>5 DEF ClientInv
<1>3. ASSUME NEW o \in Operator, NEW i \in Handover,
             ReserveRead(o, i) \/ \E e \in Execution : TransferRead(o, i, e)
      PROVE  ClientInv'
  <2>1. /\ UNCHANGED <<tasks, retired>> /\ current' = current \cup {o} /\ o \notin Task
        /\ \A p \in Operator : p # o => calls'[p] = calls[p]
    BY <1>0, <1>3, ClientAssumption DEF ReserveRead, TransferRead, OperatorOnly, Sees, Calls, TypeOK
  <2>2. calls'[o].to # None => PreviousOf[calls'[o].id] \in retired /\ calls'[o].to \notin retired
    BY <1>0, <1>3 DEF ReserveRead, TransferRead, Calls, TypeOK
  <2>3. WritersUnmarked'
    BY <1>0, <2>1 DEF WritersUnmarked
  <2>4. TransfersFenced'
    BY <1>0, <2>1, <2>2 DEF TransfersFenced
  <2>5. QED
    BY <2>3, <2>4 DEF ClientInv
<1>4. ASSUME NEW o \in Operator, ReserveWrite(o) \/ TransferWrite(o)
      PROVE  ClientInv'
  <2>1. /\ UNCHANGED <<tasks, retired>> /\ current' \subseteq current
        /\ calls'[o] = NoCall /\ \A p \in Operator : p # o => calls'[p] = calls[p]
    BY <1>0, <1>4 DEF ReserveWrite, TransferWrite, OperatorOnly, Put, Look, Calls, TypeOK
  <2>2. WritersUnmarked'
    BY <1>0, <2>1 DEF WritersUnmarked
  <2>3. TransfersFenced'
    BY <1>0, <2>1 DEF TransfersFenced
  <2>4. QED
    BY <2>2, <2>3 DEF ClientInv
<1>5. ASSUME NEW e \in Execution, Retire(e)
      PROVE  ClientInv'
  <2>1. /\ UNCHANGED <<guard, current, tasks, calls>> /\ retired' = retired \cup {e}
        /\ Reserved /\ guard.owner \notin Execution /\ guard.previous = e
    BY <1>5, LayoutAssumption DEF Retire, Look, Reserved
  <2>2. WritersUnmarked'
    BY <1>0, <2>1 DEF WritersUnmarked, TasksSaw
  <2>3. TransfersFenced'
    BY <1>0, <2>1 DEF TransfersFenced, OperatorsSaw
  <2>4. QED
    BY <2>2, <2>3 DEF ClientInv
<1>6. CASE (\E e \in Execution : ScaleRead(e)) \/ ScaleDelete
  <2>1. UNCHANGED <<tasks, calls, retired>> /\ current' \subseteq current \cup {Scaleover}
    BY <1>6 DEF ScaleRead, ScaleDelete, Sees, Put, Look
  <2>2. Scaleover \notin Task /\ Scaleover \notin Operator
    BY ClientAssumption
  <2>3. QED
    BY <1>0, <2>1, <2>2 DEF ClientInv, WritersUnmarked, TransfersFenced
<1>7. CASE ChangeStop \/ Tick \/ UNCHANGED vars
  BY <1>0, <1>7 DEF ChangeStop, Look, Tick, vars, ClientInv, WritersUnmarked, TransfersFenced
<1>8. QED
  BY <1>1, <1>2, <1>3, <1>4, <1>5, <1>6, <1>7 DEF Next, TaskStep, Quiet

LEMMA StepFence == FenceInv /\ [Next]_vars => FenceInv'
<1> SUFFICES ASSUME FenceInv, [Next]_vars
             PROVE  FenceInv'
  OBVIOUS
<1>1. ReadInv'
  BY StepReads DEF FenceInv
<1>2. QED
  BY <1>1, StepClients, StepOwner DEF FenceInv

\* A cohort that was handed over neither takes the guard from anybody nor renews it,
\* however long its tasks stall and whatever expires or is deleted.
THEOREM ReplacedStaysOut == Spec => FencedOut
<1>1. ASSUME FenceInv, [Next]_vars, NEW e \in replaced, guard'.owner = e, guard # NoGuard
      PROVE  guard.owner = e /\ guard'.left <= guard.left
  <2>1. TypeOK /\ e \in Execution /\ e \notin Handover /\ e # None
    BY <1>1, LayoutAssumption DEF FenceInv, ReadInv, TypeOK
  <2>2. \A t \in Task : ~TaskWrites(t)
    BY <1>1, WriterNotReplaced DEF TaskWrites, CohortOf
  <2>3. (\A t \in Task : ~TaskDeletes(t)) /\ ~ToolDeletes
    BY <1>1, <2>1 DEF TaskDeletes, ToolDeletes, NoGuard
  <2>4. \A o \in Operator : ~Reserves(o)
    BY <1>1, <2>1 DEF Reserves, Reservation
  <2>5. \A o \in Operator : ~Transfers(o)
    BY <1>1, TransferGoesOn DEF Transfers, Assignment
  <2>6. guard.left \in Int
    BY <2>1, TimeAssumption DEF TypeOK, Guard, NoGuard
  <2>7. CASE guard' = guard
    BY <1>1, <2>6, <2>7
  <2>8. CASE Tick
    <3>1. guard'.owner = guard.owner /\ guard'.left = guard.left - 1
      BY <2>1, <2>8 DEF Tick, TypeOK, Guard, NoGuard
    <3>2. QED
      BY <1>1, <2>6, <3>1
  <2>9. QED
    BY <1>1, <2>1, <2>2, <2>3, <2>4, <2>5, <2>7, <2>8, Changes
<1>2. FenceInv /\ [Next]_vars
        => [\A e \in replaced : guard'.owner = e
              => guard = NoGuard \/ (guard.owner = e /\ guard'.left <= guard.left)]_vars
  BY <1>1
<1>3. QED
  BY <1>2, InitFence, StepFence, PTL DEF Spec, FencedOut

\* What was reserved for a handover is given to one execution at most, until the handover
\* is reserved again.
THEOREM OneTransfer == Spec => []OneAssignee
<1>1. FenceInv => OneAssignee
  BY DEF FenceInv, OwnerInv
<1>2. QED
  BY <1>1, InitFence, StepFence, PTL DEF Spec

-----------------------------------------------------------------------------
(* The two parts                                                           *)

\* A behaviour of Cohort is one of the guard and one of the publication: one of them
\* takes the steps, the other stutters.
THEOREM BothParts == CohortSpec => Spec /\ Pub!Spec
<1>1. CohortInit => Init /\ Pub!Init
  BY DEF CohortInit
<1>2. [CohortNext]_<<part, guardVars, publicationVars>> => [Next]_vars /\ [Pub!Next]_(Pub!vars)
  BY DEF CohortNext, guardVars, publicationVars, Pub!vars
<1>3. QED
  BY <1>1, <1>2, PTL DEF CohortSpec, Spec, Pub!Spec

-----------------------------------------------------------------------------
(* Types of the publication                                                *)

\* Sets are counted the same way in both parts.
LEMMA SameCount ==
  /\ \A S : Pub!Cardinality(S) = Cardinality(S)
  /\ \A S : Pub!IsFiniteSet(S) <=> IsFiniteSet(S)
<1>1. \A S : Pub!Cardinality(S) = Cardinality(S)
  BY DEF Pub!Cardinality, Cardinality
<1>2. \A S : Pub!IsFiniteSet(S) <=> IsFiniteSet(S)
  BY DEF Pub!IsFiniteSet, IsFiniteSet
<1>3. QED
  BY <1>1, <1>2

\* An article that is held is not done yet.
Counted == IsFiniteSet(busy) /\ processed + Cardinality(busy) <= Total
TInv == Pub!TypeOK /\ Counted

\* Where a process writes or copies.
Writing(p) == Pub!At(p, "write") \/ (Pub!At(p, "gate") /\ proc[p].then = "write")
Copying(p) ==
  proc[p].at \in {"public", "latest", "copy"} \/ (Pub!At(p, "gate") /\ proc[p].then = "copy")

\* What a process composes and writes is a summary of its own cohort.
Drafted ==
  \A p \in Process : Pub!At(p, "list") \/ Writing(p) => proc[p].draft.execution = RunsIn[p]

\* Whoever has seen a final summary through, or was let through without a guard, is of a
\* cohort whose final snapshot has been stored.
FinalStored ==
  /\ progress.state \in Pub!Terminal => progress.execution \in stored
  /\ \A p \in Process :
       /\ (Copying(p) \/ Pub!At(p, "peers")) /\ proc[p].draft.state \in Pub!Terminal => RunsIn[p] \in stored
       /\ proc[p].at \in {"confirm", "delete"} => RunsIn[p] \in stored

\* What the histories have to do with the documents.
Reported ==
  /\ \A p \in Process : records[p] \in Pub!Success => p \in announced
  /\ \A p \in tookOver : records[p] # None

\* No attempt of e without a later one is at work: it has announced its end, or it has not
\* reported, and when it does it takes over from one that has announced its own.
Finished(e) ==
  \A p \in Process :
    RunsIn[p] = e /\ (\A q \in Pub!Later(p) : records[q] = None)
      => \/ p \in announced
         \/ p \notin tookOver /\ (records[p] = None => \E q \in Pub!Earlier(p) : q \in announced)

\* A snapshot that says success is of a cohort that has finished.
Earned ==
  /\ progress.state \in Pub!Success => Finished(progress.execution)
  /\ \A p \in Process : proc[p].draft.state \in Pub!Success => Finished(proc[p].draft.execution)

\* The chain of handovers has come to e; it only comes to an execution when all it
\* replaces are marked, and the owner is not.
Reached(e) == owner = e \/ e \in removed \/ \E p \in Process : RunsIn[p] = e /\ Pub!Started(p)
InOrder ==
  /\ owner \notin removed
  /\ \A d, e \in Execution : Successor[d] = e /\ Reached(e) => d \in removed
\* The objects are of executions that the chain has come to.
Known ==
  /\ progress.execution # None => Reached(progress.execution)
  /\ public.execution # None => Reached(public.execution)
\* Who is about to write, and has read the present generation, does not replace a later
\* cohort's.
MayWrite ==
  \A p \in Process :
    /\ Pub!At(p, "write") /\ p \in seen => ~Pub!Replaces(progress.execution, RunsIn[p])
    /\ Pub!At(p, "copy") /\ p \in seenPublic => ~Pub!Replaces(public.execution, RunsIn[p])

SInv == TInv /\ Drafted /\ FinalStored
EInv == TInv /\ Drafted /\ Reported /\ Earned
NInv == TInv /\ Drafted /\ InOrder /\ Known /\ MayWrite

Dead == [Pub!Down EXCEPT !.at = "dead"]

LEMMA RecordTypes ==
  /\ Pub!NoSnapshot \in Pub!Snapshot /\ Pub!Down \in Pub!Local /\ Dead \in Pub!Local
  /\ \A at \in Pub!Location : [Pub!Down EXCEPT !.at = at] \in Pub!Local
<1>1. Pub!NoSnapshot \in Pub!Snapshot
  BY PublicationAssumption DEF Pub!BoundAssumption, Pub!NoSnapshot, Pub!Snapshot
<1>2. \A at \in Pub!Location : [Pub!Down EXCEPT !.at = at] \in Pub!Local
  <2>1. 0 \in 0..MaxConflicts
    BY PublicationAssumption DEF Pub!BoundAssumption
  <2>2. QED
    BY <1>1, <2>1 DEF Pub!Down, Pub!Local
<1>3. Pub!Down.at \in Pub!Location /\ [Pub!Down EXCEPT !.at = Pub!Down.at] = Pub!Down /\ "dead" \in Pub!Location
  BY DEF Pub!Down, Pub!Location
<1>4. QED
  BY <1>1, <1>2, <1>3 DEF Dead

\* A step of a process leaves the others where they are.
LEMMA Becoming ==
  ASSUME Pub!TypeOK, NEW p \in Process, NEW r, Pub!Becomes(p, r)
  PROVE  /\ \A q \in Process : q # p => proc'[q] = proc[q]
         /\ p \in killed => proc'[p] = Dead
         /\ p \notin killed => proc'[p] = r
         /\ proc'[p] \in {r, Dead}
         /\ r \in Pub!Local => proc' \in [Process -> Pub!Local]
BY RecordTypes DEF Pub!TypeOK, Pub!Becomes, Dead

LEMMA Fields ==
  ASSUME Pub!TypeOK, NEW p \in Process
  PROVE  /\ proc[p] \in Pub!Local /\ proc[p].draft \in Pub!Snapshot /\ proc[p].latest \in Pub!Snapshot
         /\ \A at \in Pub!Location : [proc[p] EXCEPT !.at = at] \in Pub!Local
         /\ proc[p].goal \in Pub!Success \cup {"starting", "running", "failed"}
BY DEF Pub!TypeOK, Pub!Local

\* The places a step goes to.
LEMMA Places ==
  /\ {"up", "export", "last", "beat", "gate", "verify", "confirm", "reload", "count"} \subseteq Pub!Location
  /\ {"list", "write", "public", "latest", "copy", "peers", "delete"} \subseteq Pub!Location
  /\ {"failed", "report", "exited", "dead"} \subseteq Pub!Location
BY DEF Pub!Location

LEMMA Going ==
  ASSUME Pub!TypeOK, NEW p \in Process, NEW at \in Pub!Location, Pub!Go(p, at)
  PROVE  /\ proc' \in [Process -> Pub!Local] /\ \A q \in Process : q # p => proc'[q] = proc[q]
         /\ proc'[p] = Dead \/ (/\ proc'[p].at = at /\ proc'[p].then = proc[p].then
                                /\ proc'[p].draft = proc[p].draft /\ proc'[p].latest = proc[p].latest)
<1>1. [proc[p] EXCEPT !.at = at] \in Pub!Local
  BY Fields
<1>2. proc'[p] \in {[proc[p] EXCEPT !.at = at], Dead}
  BY Becoming DEF Pub!Go
<1>3. QED
  BY <1>1, <1>2, Becoming, Fields DEF Pub!Go, Pub!Local

LEMMA Gating ==
  ASSUME Pub!TypeOK, NEW p \in Process, NEW then \in {"reload", "report"}, Pub!GateTo(p, then)
  PROVE  /\ proc' \in [Process -> Pub!Local] /\ \A q \in Process : q # p => proc'[q] = proc[q]
         /\ proc'[p] = Dead \/ (/\ proc'[p].at = "gate" /\ proc'[p].then = then
                                /\ proc'[p].draft = proc[p].draft)
<1>1. [proc[p] EXCEPT !.at = "gate", !.then = then] \in Pub!Local
  BY Fields, Places DEF Pub!Local
<1>2. proc'[p] \in {[proc[p] EXCEPT !.at = "gate", !.then = then], Dead}
  BY Becoming DEF Pub!GateTo
<1>3. QED
  BY <1>1, <1>2, Becoming, Fields DEF Pub!GateTo, Pub!Local

LEMMA Ending ==
  ASSUME Pub!TypeOK, NEW p \in Process, NEW at \in Pub!Location, Pub!Ends(p, at)
  PROVE  /\ proc' \in [Process -> Pub!Local] /\ \A q \in Process : q # p => proc'[q] = proc[q]
         /\ proc'[p].at \in {at, "dead"} /\ proc'[p].draft = Pub!NoSnapshot
<1>1. [Pub!Down EXCEPT !.at = at] \in Pub!Local
  BY RecordTypes
<1>2. proc'[p] \in {[Pub!Down EXCEPT !.at = at], Dead}
  BY Becoming DEF Pub!Ends
<1>3. QED
  BY <1>1, <1>2, Becoming DEF Pub!Ends, Pub!Down, Dead

LEMMA Failing ==
  ASSUME Pub!TypeOK, NEW p \in Process, Pub!Fails(p)
  PROVE  /\ proc' \in [Process -> Pub!Local] /\ \A q \in Process : q # p => proc'[q] = proc[q]
         /\ proc'[p].at \in {"failed", "dead"} /\ proc'[p].draft = Pub!NoSnapshot
BY Ending DEF Pub!Fails, Pub!Location

LEMMA Returning ==
  ASSUME Pub!TypeOK, NEW p \in Process, Pub!Returns(p)
  PROVE  /\ proc' \in [Process -> Pub!Local] /\ \A q \in Process : q # p => proc'[q] = proc[q]
         /\ \/ proc'[p].at \in {"dead", "up"} /\ proc'[p].draft = Pub!NoSnapshot
            \/ proc'[p].at = "peers" /\ proc'[p].draft = proc[p].draft
<1>1. CASE proc[p].goal = "failed"
  BY <1>1, Ending DEF Pub!Returns, Pub!Location
<1>2. CASE proc[p].goal # "failed" /\ proc[p].last
  <2>1. [proc[p] EXCEPT !.at = "peers", !.latest = Pub!NoSnapshot] \in Pub!Local
    <3> DEFINE r == [proc[p] EXCEPT !.at = "peers"]
    <3>1. r \in Pub!Local
      BY Fields, Places
    <3>2. [r EXCEPT !.latest = Pub!NoSnapshot] \in Pub!Local
      BY <3>1, RecordTypes DEF Pub!Local
    <3>3. QED
      BY <3>2, Fields DEF Pub!Local
  <2>2. proc'[p] \in {[proc[p] EXCEPT !.at = "peers", !.latest = Pub!NoSnapshot], Dead}
    BY <1>2, Becoming DEF Pub!Returns
  <2>3. QED
    BY <1>2, <2>1, <2>2, Becoming, Fields DEF Pub!Returns, Pub!Local, Pub!Down, Dead
<1>3. CASE proc[p].goal # "failed" /\ ~proc[p].last
  <2> DEFINE r == [Pub!Down EXCEPT !.at = "up",
                     !.goal = IF proc[p].goal = "starting" THEN "running" ELSE proc[p].goal]
  <2>1. r \in Pub!Local
    <3> DEFINE goal == IF proc[p].goal = "starting" THEN "running" ELSE proc[p].goal
    <3>1. /\ [Pub!Down EXCEPT !.at = "up"] \in Pub!Local
          /\ r = [[Pub!Down EXCEPT !.at = "up"] EXCEPT !.goal = goal]
      BY RecordTypes, Places DEF Pub!Down
    <3>2. goal \in Pub!Success \cup {"starting", "running", "failed"}
      BY Fields
    <3>3. QED
      BY <3>1, <3>2 DEF Pub!Local
  <2>2. Pub!Becomes(p, r)
    BY <1>3 DEF Pub!Returns
  <2>3. r.at = "up" /\ r.draft = Pub!NoSnapshot
    BY DEF Pub!Down
  <2> HIDE DEF r
  <2>4. QED
    BY <2>1, <2>2, <2>3, Becoming DEF Pub!Down, Dead
<1>4. QED
  BY <1>1, <1>2, <1>3

LEMMA Conflicting ==
  ASSUME Pub!TypeOK, NEW p \in Process, Pub!Conflict(p)
  PROVE  /\ proc' \in [Process -> Pub!Local] /\ \A q \in Process : q # p => proc'[q] = proc[q]
         /\ \/ proc'[p].at \in {"dead", "up", "failed"} /\ proc'[p].draft = Pub!NoSnapshot
            \/ proc'[p].at = "gate" /\ proc'[p].then = "reload" /\ proc'[p].draft = Pub!NoSnapshot
            \/ /\ proc'[p].at = "peers" /\ proc'[p].draft = proc[p].draft
               /\ proc[p].draft.state \notin Pub!Terminal
<1>1. CASE proc[p].draft.state \notin Pub!Terminal
  BY <1>1, Returning DEF Pub!Conflict
<1>2. CASE proc[p].draft.state \in Pub!Terminal /\ proc[p].tries >= MaxConflicts
  BY <1>2, Failing DEF Pub!Conflict
<1>3. CASE proc[p].draft.state \in Pub!Terminal /\ ~(proc[p].tries >= MaxConflicts)
  <2> DEFINE r == [proc[p] EXCEPT !.at = "gate", !.then = "reload", !.tries = @ + 1, !.draft = Pub!NoSnapshot]
  <2>1. proc[p] \in Pub!Local /\ proc[p].tries \in 0..MaxConflicts
    BY Fields DEF Pub!Local
  <2>2. proc[p].tries + 1 \in 0..MaxConflicts
    BY <1>3, <2>1, PublicationAssumption DEF Pub!BoundAssumption
  <2>3. r \in Pub!Local
    BY <2>1, <2>2, RecordTypes, Places DEF Pub!Local
  <2>4. Pub!Becomes(p, r)
    BY <1>3 DEF Pub!Conflict
  <2>5. r.at = "gate" /\ r.then = "reload" /\ r.draft = Pub!NoSnapshot
    BY <2>1 DEF Pub!Local
  <2> HIDE DEF r
  <2>6. QED
    BY <2>3, <2>4, <2>5, Becoming DEF Pub!Down, Dead
<1>4. QED
  BY <1>1, <1>2, <1>3

-----------------------------------------------------------------------------
(* Steps                                                                   *)

LEMMA InitPublication == Pub!Init => TInv
<1>1. Pub!NoSnapshot \in Pub!Snapshot /\ Pub!Down \in Pub!Local
  BY RecordTypes
<1>2. IsFiniteSet({}) /\ Cardinality({}) = 0
  BY FS_EmptySet
<1>3. QED
  BY <1>1, <1>2, PublicationAssumption DEF Pub!BoundAssumption, Pub!Init, TInv, Pub!TypeOK,
       Counted

\* No more articles are held and done than there are.
LEMMA Counting == TInv /\ Pub!Next => Counted' /\ processed' \in 0..Total /\ busy' \subseteq Process
<1> SUFFICES ASSUME TInv, Pub!Next
             PROVE  Counted' /\ processed' \in 0..Total /\ busy' \subseteq Process
  OBVIOUS
<1>1. /\ IsFiniteSet(busy) /\ Cardinality(busy) \in Nat /\ processed \in Nat /\ Total \in Nat
      /\ processed + Cardinality(busy) <= Total /\ busy \subseteq Process
  BY PublicationAssumption, FS_CardinalityType DEF TInv, Pub!TypeOK, Counted, Pub!BoundAssumption
<1>2. ASSUME NEW p \in Process, Pub!Claim(p)
      PROVE  Counted' /\ processed' \in 0..Total /\ busy' \subseteq Process
  <2>1. IsFiniteSet(busy') /\ Cardinality(busy') = Cardinality(busy) + 1 /\ processed' = processed
    BY <1>1, <1>2, FS_AddElement DEF Pub!Claim
  <2>2. processed + Cardinality(busy) < Total /\ busy' \subseteq Process
    BY <1>1, <1>2, SameCount DEF Pub!Claim
  <2>3. QED
    BY <1>1, <2>1, <2>2 DEF Counted
<1>3. ASSUME NEW p \in Process, Pub!Complete(p)
      PROVE  Counted' /\ processed' \in 0..Total /\ busy' \subseteq Process
  <2>1. /\ IsFiniteSet(busy') /\ Cardinality(busy') = Cardinality(busy) - 1 /\ Cardinality(busy') \in Nat
        /\ processed' = processed + 1
    BY <1>1, <1>3, FS_RemoveElement, FS_CardinalityType DEF Pub!Complete
  <2>2. busy' \subseteq Process
    BY <1>1, <1>3 DEF Pub!Complete
  <2>3. QED
    BY <1>1, <2>1, <2>2 DEF Counted
<1>4. ASSUME NEW p \in Process, busy' = busy \ {p}, processed' = processed
      PROVE  Counted' /\ processed' \in 0..Total /\ busy' \subseteq Process
  <2>1. IsFiniteSet(busy \ {p}) /\ Cardinality(busy \ {p}) <= Cardinality(busy)
    BY <1>1, FS_RemoveElement
  <2>2. /\ IsFiniteSet(busy') /\ Cardinality(busy') \in Nat /\ Cardinality(busy') <= Cardinality(busy)
    BY <1>4, <2>1, FS_CardinalityType
  <2>3. QED
    BY <1>1, <1>4, <2>2 DEF Counted
<1>5. ASSUME UNCHANGED <<processed, busy>>
      PROVE  Counted' /\ processed' \in 0..Total /\ busy' \subseteq Process
  BY <1>1, <1>5 DEF Counted
<1>6. ASSUME NEW p \in Process, Pub!LoseClaim(p) \/ Pub!Abort(p)
      PROVE  busy' = busy \ {p} /\ processed' = processed
  BY <1>6 DEF Pub!LoseClaim, Pub!Abort
<1>7. ASSUME NEW p \in Process,
             \/ Pub!Join(p) \/ Pub!Renew(p) \/ Pub!Report(p) \/ Pub!Age(p) \/ Pub!Publish(p)
             \/ (\E goal \in Pub!Success : Pub!Decide(p, goal)) \/ Pub!Drained(p) \/ Pub!Fail(p) \/ Pub!Kill(p)
             \/ Pub!ReportFailure(p) \/ Pub!ListPeers(p) \/ Pub!Delete(p)
      PROVE  UNCHANGED <<processed, busy>>
  BY <1>7 DEF Pub!Join, Pub!Renew, Pub!Report, Pub!Age, Pub!Publish, Pub!Decide, Pub!Drained,
       Pub!Fail, Pub!Kill, Pub!ReportFailure, Pub!ListPeers, Pub!Delete, Pub!Queue
<1>8. ASSUME NEW p \in Process, Pub!Publishing(p)
      PROVE  UNCHANGED <<processed, busy>>
  BY <1>8 DEF Pub!Publishing, Pub!Gate, Pub!Verify, Pub!Confirm, Pub!Reload, Pub!Count, Pub!List,
       Pub!Write, Pub!ReadPublic, Pub!ReadLatest, Pub!Copy, Pub!Queue
<1>9. ASSUME NEW e \in Execution, Pub!HandOver(e)
      PROVE  UNCHANGED <<processed, busy>>
  BY <1>9 DEF Pub!HandOver, Pub!Queue
<1>10. QED
  BY <1>2, <1>3, <1>4, <1>5, <1>6, <1>7, <1>8, <1>9 DEF Pub!Next

\* Steps of a process that neither read nor write what is published.
Aside(p) ==
  \/ Pub!Renew(p) \/ Pub!Age(p) \/ Pub!Claim(p) \/ Pub!Complete(p) \/ Pub!LoseClaim(p) \/ Pub!Publish(p)
  \/ (\E goal \in Pub!Success : Pub!Decide(p, goal)) \/ Pub!Drained(p) \/ Pub!Fail(p)
  \/ Pub!Kill(p) \/ Pub!Abort(p)

Apart(p) ==
  /\ proc'[p].at \in {"up", "export", "beat", "gate", "failed", "dead"}
  /\ proc'[p].at = "gate" => proc'[p].then \in {"reload", "report"}
  /\ proc'[p].draft \in {proc[p].draft, Pub!NoSnapshot}

LEMMA AsideSteps ==
  ASSUME Pub!TypeOK, NEW p \in Process, Aside(p)
  PROVE  /\ proc' \in [Process -> Pub!Local] /\ \A q \in Process : q # p => proc'[q] = proc[q]
         /\ proc'[p] = proc[p] \/ (Pub!Started(p) /\ Apart(p))
         /\ active' \subseteq Process /\ killed' \subseteq Process
         /\ UNCHANGED <<owner, removed, records, announced, tookOver, progress, public,
                        seen, seenPublic, stored>>
<1>1. /\ active' \subseteq Process /\ killed' \subseteq Process
      /\ UNCHANGED <<owner, removed, records, announced, tookOver, progress, public, seen, seenPublic, stored>>
  BY DEF Aside, Pub!TypeOK, Pub!Renew, Pub!Age, Pub!Claim, Pub!Complete, Pub!LoseClaim,
       Pub!Publish, Pub!Decide, Pub!Drained, Pub!Fail, Pub!Kill, Pub!Abort, Pub!Guard,
       Pub!Workers, Pub!Objects
<1>2. CASE Pub!Age(p) \/ Pub!Claim(p) \/ Pub!Complete(p) \/ Pub!LoseClaim(p) \/ (Pub!Kill(p) /\ UNCHANGED proc)
  <2>1. UNCHANGED proc
    BY <1>2 DEF Pub!Age, Pub!Claim, Pub!Complete, Pub!LoseClaim
  <2>2. QED
    BY <1>1, <2>1 DEF Pub!TypeOK
<1>3. CASE Pub!Fails(p) /\ Pub!Started(p)
  BY <1>1, <1>3, Failing DEF Apart
<1>4. CASE Pub!Publish(p)
  <2>1. Pub!GateTo(p, "reload") /\ Pub!Started(p)
    BY <1>4 DEF Pub!Publish, Pub!At, Pub!Started
  <2>2. QED
    BY <1>1, <2>1, Gating DEF Apart, Dead, Pub!Down
<1>5. CASE Pub!Kill(p) /\ proc' # proc
  <2>1. Pub!Ends(p, "dead") /\ Pub!Started(p)
    BY <1>5 DEF Pub!Kill, Pub!Started
  <2>2. QED
    BY <1>1, <2>1, Ending, Places DEF Apart
<1>6. CASE Pub!Renew(p) /\ ~Pub!Fails(p)
  <2> DEFINE r == [proc[p] EXCEPT !.at = "beat", !.then = proc[p].at]
  <2>1. Pub!Becomes(p, r) /\ proc[p].at \in {"up", "export", "last"} /\ Pub!Started(p)
    BY <1>6 DEF Pub!Renew, Pub!Started
  <2>2. r \in Pub!Local /\ r.at = "beat" /\ r.draft = proc[p].draft
    BY <2>1, Fields, Places DEF Pub!Local
  <2> HIDE DEF r
  <2>3. QED
    BY <1>1, <2>1, <2>2, Becoming DEF Apart, Dead, Pub!Down
<1>7. CASE Pub!Abort(p)
  <2> DEFINE r == [Pub!Down EXCEPT !.at = "gate", !.then = "report", !.goal = "failed"]
  <2>1. Pub!Becomes(p, r) /\ Pub!Started(p)
    BY <1>7 DEF Pub!Abort, Pub!Started, Pub!At
  <2>2. r \in Pub!Local
    BY RecordTypes, Places DEF Pub!Local
  <2>3. r.at = "gate" /\ r.then = "report" /\ r.draft = Pub!NoSnapshot
    BY DEF Pub!Down
  <2> HIDE DEF r
  <2>4. QED
    BY <1>1, <2>1, <2>2, <2>3, Becoming DEF Apart, Dead, Pub!Down
<1>8. ASSUME NEW goal \in Pub!Success, Pub!Becomes(p, [proc[p] EXCEPT !.goal = goal]), Pub!At(p, "up")
      PROVE  proc' \in [Process -> Pub!Local] /\ (\A q \in Process : q # p => proc'[q] = proc[q])
             /\ Pub!Started(p) /\ Apart(p)
  <2> DEFINE r == [proc[p] EXCEPT !.goal = goal]
  <2>1. r \in Pub!Local /\ r.at = "up" /\ r.draft = proc[p].draft
    BY <1>8, Fields DEF Pub!Local, Pub!At
  <2> HIDE DEF r
  <2>2. Pub!Becomes(p, r)
    BY <1>8 DEF r
  <2>3. QED
    BY <1>8, <2>1, <2>2, Becoming DEF Apart, Dead, Pub!Down, Pub!Started, Pub!At
<1>9. ASSUME NEW goal \in Pub!Success, Pub!Ended(p, goal), Pub!At(p, "up")
      PROVE  proc' \in [Process -> Pub!Local] /\ (\A q \in Process : q # p => proc'[q] = proc[q])
             /\ Pub!Started(p) /\ Apart(p)
  <2>1. PICK final \in Pub!Success : Pub!Becomes(p, [proc[p] EXCEPT !.at = "export", !.goal = final])
    BY <1>9, PublicationAssumption DEF Pub!Ended, Pub!BoundAssumption
  <2> DEFINE r == [proc[p] EXCEPT !.at = "export", !.goal = final]
  <2>2. r \in Pub!Local /\ r.at = "export" /\ r.draft = proc[p].draft
    BY Fields, Places DEF Pub!Local
  <2> HIDE DEF r
  <2>3. Pub!Becomes(p, r)
    BY <2>1 DEF r
  <2>4. QED
    BY <1>9, <2>2, <2>3, Becoming DEF Apart, Dead, Pub!Down, Pub!Started, Pub!At
<1>10. CASE (\E goal \in Pub!Success : Pub!Decide(p, goal)) \/ Pub!Drained(p)
  <2>1. /\ Pub!At(p, "up")
        /\ \E goal \in Pub!Success : Pub!Ended(p, goal) \/ Pub!Becomes(p, [proc[p] EXCEPT !.goal = goal])
    BY <1>10 DEF Pub!Decide, Pub!Drained
  <2>2. QED
    BY <1>1, <2>1, <1>8, <1>9
<1>11. Pub!Renew(p) \/ Pub!Fail(p) => Pub!Started(p)
  BY DEF Pub!Renew, Pub!Fail, Pub!Started
<1>12. Pub!Fail(p) => Pub!Fails(p)
  BY DEF Pub!Fail
<1>13. QED
  BY <1>2, <1>3, <1>4, <1>5, <1>6, <1>7, <1>10, <1>11, <1>12 DEF Aside

\* What a step does to its process when it looks at the guard, or composes or sends
\* a snapshot.
LEMMA Gates ==
  ASSUME Pub!TypeOK, NEW p \in Process, Pub!Gate(p)
  PROVE  /\ proc' \in [Process -> Pub!Local] /\ \A q \in Process : q # p => proc'[q] = proc[q]
         /\ Pub!At(p, "gate") /\ proc'[p].at # "down"
         /\ \/ proc'[p].at \in {"failed", "dead"} /\ proc'[p].draft = Pub!NoSnapshot
            \/ proc'[p].at = "verify" /\ proc'[p].draft = proc[p].draft
            \/ /\ owner = RunsIn[p] /\ proc'[p].at = proc[p].then /\ proc'[p].draft = proc[p].draft
               /\ proc'[p].at \in {"up", "export", "last", "reload", "report", "write", "copy"}
<1>1. /\ proc[p].then \in Pub!Location
      /\ proc[p].then \in {"up", "export", "last", "reload", "report", "write", "copy"}
  <2>1. proc[p].then \in {"up", "export", "last", "reload", "report", "write", "copy"}
    BY Fields DEF Pub!Local
  <2>2. QED
    BY <2>1, Places
<1>2. CASE owner = RunsIn[p]
  <2>1. Pub!Go(p, proc[p].then) /\ Pub!At(p, "gate")
    BY <1>2 DEF Pub!Gate
  <2> DEFINE to == proc[p].then
  <2>2. to \in Pub!Location /\ Pub!Go(p, to)
    BY <1>1, <2>1
  <2> HIDE DEF to
  <2>3. /\ proc' \in [Process -> Pub!Local] /\ \A q \in Process : q # p => proc'[q] = proc[q]
        /\ proc'[p] = Dead \/ (proc'[p].at = to /\ proc'[p].draft = proc[p].draft)
    BY <2>2, Going
  <2>4. QED
    BY <1>1, <1>2, <2>1, <2>3 DEF to, Dead, Pub!Down
<1>3. CASE owner # RunsIn[p] /\ Pub!Go(p, "verify")
  <2>1. Pub!At(p, "gate")
    BY DEF Pub!Gate
  <2>2. QED
    BY <1>3, <2>1, Going, Places DEF Dead, Pub!Down
<1>4. CASE owner # RunsIn[p] /\ Pub!Fails(p)
  <2>1. Pub!At(p, "gate")
    BY DEF Pub!Gate
  <2>2. QED
    BY <1>4, <2>1, Failing
<1>5. QED
  BY <1>2, <1>3, <1>4 DEF Pub!Gate

LEMMA Verifies ==
  ASSUME Pub!TypeOK, NEW p \in Process, Pub!Verify(p)
  PROVE  /\ proc' \in [Process -> Pub!Local] /\ \A q \in Process : q # p => proc'[q] = proc[q]
         /\ Pub!At(p, "verify")
         /\ \/ proc'[p].at \in {"failed", "dead"} /\ proc'[p].draft = Pub!NoSnapshot
            \/ /\ progress.execution = RunsIn[p] /\ progress.state \in Pub!Terminal
               /\ proc'[p].at = "confirm" /\ proc'[p].draft = progress
<1> DEFINE r == [proc[p] EXCEPT !.at = "confirm", !.draft = progress]
<1>1. /\ Pub!At(p, "verify")
      /\ \/ Pub!Fails(p)
         \/ progress.execution = RunsIn[p] /\ progress.state \in Pub!Terminal /\ Pub!Becomes(p, r)
  BY DEF Pub!Verify
<1>2. r \in Pub!Local /\ r.at = "confirm" /\ r.draft = progress
  <2>1. progress \in Pub!Snapshot
    BY DEF Pub!TypeOK
  <2>2. QED
    BY <2>1, Fields, Places DEF Pub!Local
<1> HIDE DEF r
<1>3. CASE Pub!Fails(p)
  BY <1>1, <1>3, Failing
<1>4. CASE ~Pub!Fails(p)
  BY <1>1, <1>2, <1>4, Becoming DEF Dead, Pub!Down
<1>5. QED
  BY <1>3, <1>4

LEMMA Counts ==
  ASSUME TInv, NEW p \in Process, Pub!Count(p)
  PROVE  /\ proc' \in [Process -> Pub!Local] /\ \A q \in Process : q # p => proc'[q] = proc[q]
         /\ Pub!At(p, "count")
         /\ \/ proc'[p] = Dead
            \/ /\ proc'[p].at = "list" /\ proc'[p].draft.execution = RunsIn[p]
               /\ proc'[p].draft.state = "none"
<1> DEFINE s == [Pub!NoSnapshot EXCEPT !.execution = RunsIn[p], !.processed = processed,
                                   !.downloading = (active # {} /\ processed < Total)]
           r == [proc[p] EXCEPT !.at = "list", !.draft = s]
<1>1. RunsIn[p] \in Execution /\ processed \in 0..Total
  BY PublicationAssumption DEF Pub!ProcessAssumption, TInv, Pub!TypeOK
<1>2. s \in Pub!Snapshot /\ s.execution = RunsIn[p] /\ s.state = "none"
  BY <1>1 DEF Pub!Snapshot, Pub!NoSnapshot
<1>3. Pub!At(p, "count") /\ Pub!Becomes(p, r)
  BY DEF Pub!Count
<1> HIDE DEF s
<1>4. r \in Pub!Local /\ r.at = "list" /\ r.draft = s
  BY <1>2, Fields, Places DEF Pub!Local, TInv
<1> HIDE DEF r
<1>5. QED
  BY <1>2, <1>3, <1>4, Becoming DEF TInv

LEMMA States == \A e, done : Pub!AggregateState(e, done) \in Pub!Terminal \cup {"running"}
BY DEF Pub!AggregateState, Pub!Terminal, Pub!Success

LEMMA Lists ==
  ASSUME Pub!TypeOK, NEW p \in Process, Pub!List(p)
  PROVE  /\ proc' \in [Process -> Pub!Local] /\ \A q \in Process : q # p => proc'[q] = proc[q]
         /\ Pub!At(p, "list")
         /\ \/ proc'[p] = Dead
            \/ /\ proc'[p].at = "gate" /\ proc'[p].then = "write"
               /\ proc'[p].draft.execution = proc[p].draft.execution
               /\ proc'[p].draft.state = Pub!AggregateState(RunsIn[p], proc[p].draft.processed)
<1> DEFINE state == Pub!AggregateState(RunsIn[p], proc[p].draft.processed)
           s == [proc[p].draft EXCEPT !.state = state]
           r == [proc[p] EXCEPT !.at = "gate", !.then = "write", !.draft = s]
<1>1. /\ Pub!At(p, "list")
      /\ Pub!Becomes(p, [proc[p] EXCEPT !.at = "gate", !.then = "write", !.draft.state = state])
  BY DEF Pub!List
<1>2. [proc[p] EXCEPT !.at = "gate", !.then = "write", !.draft.state = state] = r
  BY Fields DEF Pub!Local
<1>3. Pub!Becomes(p, r)
  BY <1>1, <1>2
<1>4. state \in Pub!Terminal \cup {"running"}
  BY States
<1> HIDE DEF state
<1>5. s \in Pub!Snapshot /\ s.execution = proc[p].draft.execution /\ s.state = state
  BY <1>4, Fields DEF Pub!Snapshot
<1> HIDE DEF s
<1>6. r \in Pub!Local /\ r.at = "gate" /\ r.then = "write" /\ r.draft = s
  BY <1>5, Fields, Places DEF Pub!Local
<1> HIDE DEF r
<1>7. QED
  BY <1>1, <1>3, <1>5, <1>6, Becoming DEF state

LEMMA Writes ==
  ASSUME Pub!TypeOK, NEW p \in Process, Pub!Write(p)
  PROVE  /\ proc' \in [Process -> Pub!Local] /\ \A q \in Process : q # p => proc'[q] = proc[q]
         /\ Pub!At(p, "write") /\ UNCHANGED <<public, seenPublic>>
         /\ \/ p \notin seen /\ Pub!Conflict(p) /\ UNCHANGED <<progress, seen, stored>>
            \/ /\ p \in seen /\ progress' = proc[p].draft /\ seen' = {} /\ stored' \subseteq Execution
               /\ stored \subseteq stored' /\ (proc[p].draft.state \in Pub!Terminal => RunsIn[p] \in stored')
         /\ proc'[p].at \in {"dead", "up", "failed", "gate", "peers", "public"}
         /\ proc'[p].at = "gate" => proc'[p].then = "reload"
         /\ proc'[p].draft \in {proc[p].draft, Pub!NoSnapshot}
<1> DEFINE Goes ==
      /\ proc' \in [Process -> Pub!Local] /\ \A q \in Process : q # p => proc'[q] = proc[q]
      /\ proc'[p].at \in {"dead", "up", "failed", "gate", "peers", "public"}
      /\ proc'[p].at = "gate" => proc'[p].then = "reload"
      /\ proc'[p].draft \in {proc[p].draft, Pub!NoSnapshot}
<1>1. Pub!At(p, "write") /\ (Pub!Conflict(p) \/ Pub!Returns(p) \/ Pub!Go(p, "public"))
  BY DEF Pub!Write
<1>2. Pub!Conflict(p) => Goes
  BY Conflicting
<1>3. Pub!Returns(p) => Goes
  BY Returning
<1>4. Pub!Go(p, "public") => Goes
  BY Going, Places DEF Dead, Pub!Down
<1>5. /\ UNCHANGED <<public, seenPublic>>
      /\ \/ p \notin seen /\ Pub!Conflict(p) /\ UNCHANGED <<progress, seen, stored>>
         \/ /\ p \in seen /\ progress' = proc[p].draft /\ seen' = {}
            /\ stored' = stored \cup (IF proc[p].draft.state \in Pub!Terminal THEN {RunsIn[p]} ELSE {})
  BY DEF Pub!Write, Pub!MayReplace
<1>6. RunsIn[p] \in Execution /\ stored \subseteq Execution
  BY PublicationAssumption DEF Pub!ProcessAssumption, Pub!TypeOK
<1>7. \/ p \notin seen /\ Pub!Conflict(p) /\ UNCHANGED <<progress, seen, stored>>
      \/ /\ p \in seen /\ progress' = proc[p].draft /\ seen' = {} /\ stored' \subseteq Execution
         /\ stored \subseteq stored' /\ (proc[p].draft.state \in Pub!Terminal => RunsIn[p] \in stored')
  BY <1>5, <1>6
<1>8. QED
  BY <1>1, <1>2, <1>3, <1>4, <1>5, <1>7

LEMMA Reads ==
  ASSUME Pub!TypeOK, NEW p \in Process, Pub!Reload(p) \/ Pub!ReadPublic(p) \/ Pub!ReadLatest(p)
  PROVE  /\ proc' \in [Process -> Pub!Local] /\ \A q \in Process : q # p => proc'[q] = proc[q]
         /\ proc[p].at \in {"reload", "public", "latest"}
         /\ seen' \subseteq seen \cup {p} /\ seenPublic' \subseteq seenPublic \cup {p}
         /\ proc'[p] = Dead \/ (/\ proc'[p].at \in {"count", "latest", "gate"}
                                /\ proc'[p].at # "count" => proc[p].at \in {"public", "latest"}
                                /\ proc'[p].at = "gate" => proc'[p].then = "copy"
                                /\ proc'[p].draft = proc[p].draft)
<1>1. seen' \subseteq seen \cup {p} /\ seenPublic' \subseteq seenPublic \cup {p}
  BY DEF Pub!Reload, Pub!ReadPublic, Pub!ReadLatest, Pub!Objects
<1>2. CASE Pub!Reload(p)
  <2>1. Pub!At(p, "reload") /\ Pub!Go(p, "count")
    BY <1>2 DEF Pub!Reload
  <2>2. QED
    BY <1>1, <2>1, Going, Places DEF Pub!At
<1>3. CASE Pub!ReadPublic(p)
  <2>1. Pub!At(p, "public") /\ Pub!Go(p, "latest")
    BY <1>3 DEF Pub!ReadPublic
  <2>2. QED
    BY <1>1, <2>1, Going, Places DEF Pub!At
<1>4. CASE Pub!ReadLatest(p)
  <2> DEFINE r == [proc[p] EXCEPT !.at = "gate", !.then = "copy", !.latest = progress]
  <2>1. Pub!At(p, "latest") /\ Pub!Becomes(p, r)
    BY <1>4 DEF Pub!ReadLatest
  <2>2. r \in Pub!Local /\ r.at = "gate" /\ r.then = "copy" /\ r.draft = proc[p].draft
    <3>1. progress \in Pub!Snapshot
      BY DEF Pub!TypeOK
    <3>2. QED
      BY <3>1, Fields, Places DEF Pub!Local
  <2> HIDE DEF r
  <2>3. QED
    BY <1>1, <2>1, <2>2, Becoming DEF Pub!At
<1>5. QED
  BY <1>2, <1>3, <1>4

LEMMA Copies ==
  ASSUME Pub!TypeOK, NEW p \in Process, Pub!Copy(p)
  PROVE  /\ proc' \in [Process -> Pub!Local] /\ \A q \in Process : q # p => proc'[q] = proc[q]
         /\ Pub!At(p, "copy")
         /\ \/ UNCHANGED <<public, seenPublic>>
            \/ /\ p \in seenPublic /\ seenPublic' = {} /\ public' = proc[p].latest
               /\ public'.execution = RunsIn[p]
         /\ \/ proc'[p].at \in {"dead", "up", "failed"} /\ proc'[p].draft = Pub!NoSnapshot
            \/ proc'[p].at = "peers" /\ proc'[p].draft = proc[p].draft
<1>1. /\ Pub!At(p, "copy")
      /\ \/ UNCHANGED <<public, seenPublic>>
         \/ /\ p \in seenPublic /\ seenPublic' = {} /\ public' = proc[p].latest
            /\ public'.execution = RunsIn[p]
      /\ Pub!Fails(p) \/ Pub!Returns(p)
  BY DEF Pub!Copy
<1>2. CASE Pub!Fails(p)
  BY <1>1, <1>2, Failing
<1>3. CASE Pub!Returns(p)
  BY <1>1, <1>3, Returning
<1>4. QED
  BY <1>1, <1>2, <1>3

LEMMA Rest ==
  ASSUME Pub!TypeOK, NEW p \in Process, Pub!Confirm(p) \/ Pub!ListPeers(p) \/ Pub!Delete(p)
  PROVE  /\ proc' \in [Process -> Pub!Local] /\ \A q \in Process : q # p => proc'[q] = proc[q]
         /\ proc[p].at \in {"confirm", "peers", "delete"}
         /\ \/ proc'[p].at \in {"dead", "up", "failed", "exited"} /\ proc'[p].draft = Pub!NoSnapshot
            \/ Pub!At(p, "confirm") /\ proc'[p].at = "peers" /\ proc'[p].draft = proc[p].draft
            \/ /\ Pub!At(p, "peers") /\ proc[p].draft.state \in Pub!Success
               /\ proc'[p].at = "delete" /\ proc'[p].draft = proc[p].draft
<1>1. CASE Pub!Confirm(p)
  <2>1. Pub!At(p, "confirm") /\ (Pub!Returns(p) \/ Pub!Fails(p))
    BY <1>1 DEF Pub!Confirm
  <2>2. QED
    BY <2>1, Returning, Failing DEF Pub!At
<1>2. CASE Pub!ListPeers(p) \/ Pub!Delete(p)
  <2>1. \/ proc[p].at \in {"peers", "delete"} /\ Pub!Ends(p, "exited")
        \/ Pub!At(p, "peers") /\ proc[p].draft.state \in Pub!Success /\ Pub!Go(p, "delete")
    BY <1>2 DEF Pub!ListPeers, Pub!Delete, Pub!At
  <2>2. CASE proc[p].at \in {"peers", "delete"} /\ Pub!Ends(p, "exited")
    BY <2>2, Ending, Places
  <2>3. CASE Pub!At(p, "peers") /\ proc[p].draft.state \in Pub!Success /\ Pub!Go(p, "delete")
    <3>1. proc'[p] = Dead => proc'[p].at = "dead" /\ proc'[p].draft = Pub!NoSnapshot
      BY DEF Dead, Pub!Down
    <3>2. QED
      BY <2>3, <3>1, Going, Places DEF Pub!At
  <2>4. QED
    BY <2>1, <2>2, <2>3
<1>3. QED
  BY <1>1, <1>2

LEMMA Starts ==
  ASSUME Pub!TypeOK, NEW p \in Process, Pub!Join(p) \/ Pub!Report(p) \/ Pub!ReportFailure(p)
  PROVE  /\ proc' \in [Process -> Pub!Local] /\ \A q \in Process : q # p => proc'[q] = proc[q]
         /\ proc'[p].at \in {"beat", "last", "gate", "up", "dead"}
         /\ proc'[p].at = "gate" => proc'[p].then = "reload"
         /\ proc'[p].draft \in {proc[p].draft, Pub!NoSnapshot}
         /\ proc'[p].at = "beat" => Pub!Join(p)
<1>1. CASE Pub!Join(p)
  <2>1. Pub!Go(p, "beat")
    BY <1>1 DEF Pub!Join
  <2>2. proc'[p] = Dead => proc'[p].at = "dead" /\ proc'[p].draft = Pub!NoSnapshot
    BY DEF Dead, Pub!Down
  <2>3. QED
    BY <1>1, <2>1, <2>2, Going, Places
<1>2. CASE Pub!Go(p, "last") \/ Pub!Go(p, "up")
  <2>1. proc'[p] = Dead => proc'[p].at = "dead" /\ proc'[p].draft = Pub!NoSnapshot
    BY DEF Dead, Pub!Down
  <2>2. QED
    BY <1>2, <2>1, Going, Places
<1>3. CASE Pub!GateTo(p, "reload")
  <2>1. proc'[p] = Dead => proc'[p].at = "dead" /\ proc'[p].draft = Pub!NoSnapshot
    BY DEF Dead, Pub!Down
  <2>2. QED
    BY <1>3, <2>1, Gating
<1>4. CASE Pub!Becomes(p, [proc[p] EXCEPT !.at = "gate", !.then = "reload", !.last = TRUE])
  <2> DEFINE r == [proc[p] EXCEPT !.at = "gate", !.then = "reload", !.last = TRUE]
  <2>1. r \in Pub!Local /\ r.at = "gate" /\ r.then = "reload" /\ r.draft = proc[p].draft
    BY Fields, Places DEF Pub!Local
  <2> HIDE DEF r
  <2>2. Pub!Becomes(p, r)
    BY <1>4 DEF r
  <2>3. QED
    BY <2>1, <2>2, Becoming DEF Dead, Pub!Down
<1>5. QED
  BY <1>1, <1>2, <1>3, <1>4 DEF Pub!Report, Pub!ReportFailure

LEMMA Steps ==
  ASSUME Pub!Next
  PROVE  \/ \E p \in Process :
              \/ Aside(p) \/ Pub!Join(p) \/ Pub!Report(p) \/ Pub!ReportFailure(p) \/ Pub!Gate(p)
              \/ Pub!Verify(p) \/ Pub!Confirm(p) \/ Pub!ListPeers(p) \/ Pub!Delete(p) \/ Pub!Reload(p)
              \/ Pub!ReadPublic(p) \/ Pub!ReadLatest(p)
              \/ Pub!Count(p) \/ Pub!List(p) \/ Pub!Write(p) \/ Pub!Copy(p)
         \/ \E e \in Execution : Pub!HandOver(e)
<1> HIDE DEF Pub!Join, Pub!Renew, Pub!Report, Pub!Age, Pub!Claim, Pub!Complete, Pub!LoseClaim,
         Pub!Publish, Pub!Decide, Pub!Drained, Pub!Fail, Pub!Kill, Pub!Abort, Pub!ReportFailure,
         Pub!ListPeers, Pub!Delete, Pub!HandOver
<1> QED
  BY DEF Pub!Next, Pub!Publishing, Aside

LEMMA StepPublication == TInv /\ [Pub!Next]_(Pub!vars) => TInv'
<1> SUFFICES ASSUME TInv, [Pub!Next]_(Pub!vars)
             PROVE  TInv'
  OBVIOUS
<1>1. CASE UNCHANGED Pub!vars
  BY <1>1 DEF Pub!vars, TInv, Pub!TypeOK, Counted
<1>2. CASE Pub!Next
  <2>1. Counted' /\ processed' \in 0..Total /\ busy' \subseteq Process
    BY <1>2, Counting
  <2>2. Pub!TypeOK
    BY DEF TInv
  <2>3. ASSUME NEW p \in Process, Aside(p)
        PROVE  Pub!TypeOK'
    BY <2>1, <2>2, <2>3, AsideSteps DEF Pub!TypeOK
  <2>4. ASSUME NEW p \in Process, Pub!Join(p) \/ Pub!Report(p) \/ Pub!ReportFailure(p)
        PROVE  Pub!TypeOK'
    <3>1. proc' \in [Process -> Pub!Local]
      BY <2>2, <2>4, Starts
    <3>2. owner' \in Execution \cup {None} /\ removed' = removed
      BY <2>2, <2>4, PublicationAssumption DEF Pub!TypeOK, Pub!ProcessAssumption, Pub!Join,
           Pub!Report, Pub!ReportFailure, Pub!Guard
    <3>3. records' \in [Process -> Pub!Terminal \cup {"starting", "running", "exporting", None}]
      <4>1. proc[p].goal \in Pub!Terminal \cup {"starting", "running", "exporting", None}
        BY <2>2, Fields DEF Pub!Terminal
      <4>2. "failed" \in Pub!Terminal
        BY DEF Pub!Terminal
      <4>3. QED
        BY <2>2, <2>4, <4>1, <4>2 DEF Pub!TypeOK, Pub!Join, Pub!Report, Pub!ReportFailure,
             Pub!Workers
    <3>4. /\ active' \subseteq Process /\ announced' \subseteq Process /\ tookOver' \subseteq Process
          /\ killed' = killed /\ UNCHANGED Pub!Objects
      BY <2>2, <2>4 DEF Pub!TypeOK, Pub!Join, Pub!Report, Pub!ReportFailure, Pub!Workers
    <3>5. QED
      BY <2>1, <2>2, <3>1, <3>2, <3>3, <3>4 DEF Pub!TypeOK, Pub!Objects
  <2>5. ASSUME NEW p \in Process, Pub!Gate(p) \/ Pub!Verify(p) \/ Pub!Count(p) \/ Pub!List(p)
        PROVE  Pub!TypeOK'
    <3>1. proc' \in [Process -> Pub!Local]
      BY <2>2, <2>5, Gates, Verifies, Counts, Lists
    <3>2. UNCHANGED <<Pub!Guard, Pub!Workers, Pub!Objects>>
      BY <2>5 DEF Pub!Gate, Pub!Verify, Pub!Count, Pub!List
    <3>3. QED
      BY <2>1, <2>2, <3>1, <3>2 DEF Pub!TypeOK, Pub!Guard, Pub!Workers, Pub!Objects
  <2>6. ASSUME NEW p \in Process, Pub!Confirm(p) \/ Pub!ListPeers(p) \/ Pub!Delete(p)
        PROVE  Pub!TypeOK'
    <3>1. proc' \in [Process -> Pub!Local]
      BY <2>2, <2>6, Rest
    <3>2. UNCHANGED <<removed, Pub!Workers, Pub!Objects>> /\ owner' \in {owner, None}
      BY <2>6 DEF Pub!Confirm, Pub!ListPeers, Pub!Delete, Pub!Guard
    <3>3. QED
      BY <2>1, <2>2, <3>1, <3>2 DEF Pub!TypeOK, Pub!Workers, Pub!Objects
  <2>7. ASSUME NEW p \in Process, Pub!Reload(p) \/ Pub!ReadPublic(p) \/ Pub!ReadLatest(p)
        PROVE  Pub!TypeOK'
    <3>1. proc' \in [Process -> Pub!Local] /\ seen' \subseteq Process /\ seenPublic' \subseteq Process
      BY <2>2, <2>7, Reads DEF Pub!TypeOK
    <3>2. UNCHANGED <<Pub!Guard, Pub!Workers, progress, public, stored>>
      BY <2>7 DEF Pub!Reload, Pub!ReadPublic, Pub!ReadLatest, Pub!Objects
    <3>3. QED
      BY <2>1, <2>2, <3>1, <3>2 DEF Pub!TypeOK, Pub!Guard, Pub!Workers
  <2>8. ASSUME NEW p \in Process, Pub!Write(p)
        PROVE  Pub!TypeOK'
    <3>1. proc' \in [Process -> Pub!Local] /\ UNCHANGED <<Pub!Guard, Pub!Workers, public, seenPublic>>
      BY <2>2, <2>8, Writes DEF Pub!Write
    <3>2. progress' \in Pub!Snapshot /\ seen' \subseteq Process /\ stored' \subseteq Execution
      <4>1. progress \in Pub!Snapshot /\ seen \subseteq Process /\ stored \subseteq Execution
        BY <2>2 DEF Pub!TypeOK
      <4>2. QED
        BY <2>2, <2>8, <4>1, Writes, Fields
    <3>3. QED
      BY <2>1, <2>2, <3>1, <3>2 DEF Pub!TypeOK, Pub!Guard, Pub!Workers
  <2>9. ASSUME NEW p \in Process, Pub!Copy(p)
        PROVE  Pub!TypeOK'
    <3>1. proc' \in [Process -> Pub!Local] /\ UNCHANGED <<Pub!Guard, Pub!Workers, progress, seen, stored>>
      BY <2>2, <2>9, Copies DEF Pub!Copy
    <3>2. public' \in Pub!Snapshot /\ seenPublic' \subseteq Process
      <4>1. public \in Pub!Snapshot /\ seenPublic \subseteq Process
        BY <2>2 DEF Pub!TypeOK
      <4>2. QED
        BY <2>2, <2>9, <4>1, Copies, Fields
    <3>3. QED
      BY <2>1, <2>2, <3>1, <3>2 DEF Pub!TypeOK, Pub!Guard, Pub!Workers
  <2>10. ASSUME NEW e \in Execution, Pub!HandOver(e)
         PROVE  Pub!TypeOK'
    <3>1. owner' \in Execution /\ removed' \subseteq Execution /\ UNCHANGED <<proc, Pub!Workers, Pub!Objects>>
      BY <2>2, <2>10, PublicationAssumption DEF Pub!ProcessAssumption, Pub!HandOver, Pub!TypeOK
    <3>2. QED
      BY <2>1, <2>2, <3>1 DEF Pub!TypeOK, Pub!Workers, Pub!Objects
  <2>11. Pub!TypeOK'
    BY <1>2, <2>3, <2>4, <2>5, <2>6, <2>7, <2>8, <2>9, <2>10, Steps
  <2>12. QED
    BY <2>1, <2>11 DEF TInv
<1>3. QED
  BY <1>1, <1>2

\* A snapshot that is read or written has the fields of one, and no more articles than there are.
THEOREM PublicationTypes == CohortSpec => []Pub!TypeOK
<1>1. TInv => Pub!TypeOK
  BY DEF TInv
<1>2. QED
  BY <1>1, InitPublication, StepPublication, BothParts, PTL DEF Pub!Spec

-----------------------------------------------------------------------------
(* The release of the guard                                                *)

LEMMA InitSafe == Pub!Init => SInv /\ EInv /\ NInv
<1> SUFFICES ASSUME Pub!Init
             PROVE  SInv /\ EInv /\ NInv
  OBVIOUS
<1>1. TInv
  BY InitPublication
<1>2. /\ \A p \in Process : proc[p] = Pub!Down /\ records[p] = None
      /\ progress = Pub!NoSnapshot /\ public = Pub!NoSnapshot /\ seen = {} /\ seenPublic = {} /\ tookOver = {}
      /\ owner = None /\ removed = {}
  BY DEF Pub!Init
<1>3. /\ Pub!Down.at = "down" /\ Pub!Down.draft = Pub!NoSnapshot /\ Pub!NoSnapshot.execution = None
      /\ Pub!NoSnapshot.state \notin Pub!Terminal /\ Pub!NoSnapshot.state \notin Pub!Success
  BY DEF Pub!Down, Pub!NoSnapshot, Pub!Terminal, Pub!Success
<1>4. Drafted
  BY <1>2, <1>3 DEF Drafted, Pub!At, Writing
<1>5. FinalStored
  BY <1>2, <1>3 DEF FinalStored, Pub!At, Copying
<1>6. Reported /\ Earned
  BY <1>2, <1>3, PublicationAssumption DEF Reported, Earned, Pub!ProcessAssumption
<1>7. InOrder /\ Known /\ MayWrite
  BY <1>2, <1>3, PublicationAssumption DEF InOrder, Known, MayWrite, Reached, Pub!Started,
       Pub!ProcessAssumption
<1>8. QED
  BY <1>1, <1>4, <1>5, <1>6, <1>7 DEF SInv, EInv, NInv

\* A summary is the own cohort's until it is written.
LEMMA StepDrafted == TInv /\ Drafted /\ [Pub!Next]_(Pub!vars) => Drafted'
<1> SUFFICES ASSUME TInv, Drafted, [Pub!Next]_(Pub!vars)
             PROVE  Drafted'
  OBVIOUS
<1> DEFINE D(p) == Pub!At(p, "list") \/ Writing(p) => proc[p].draft.execution = RunsIn[p]
<1>1. Pub!TypeOK
  BY DEF TInv
<1>2. CASE UNCHANGED Pub!vars
  BY <1>2 DEF Pub!vars, Drafted, Pub!At, Writing
<1>3. ASSUME NEW e \in Execution, Pub!HandOver(e)
      PROVE  Drafted'
  BY <1>3 DEF Pub!HandOver, Drafted, Pub!At, Writing
<1>4. ASSUME NEW p \in Process, \A q \in Process : q # p => proc'[q] = proc[q],
             \/ proc'[p] = proc[p]
             \/ proc'[p].at \notin {"list", "write", "gate"}
             \/ proc'[p].at = "gate" /\ proc'[p].then # "write"
             \/ proc'[p].draft.execution = RunsIn[p]
             \/ Writing(p) /\ proc'[p].draft = proc[p].draft
      PROVE  Drafted'
  BY <1>4 DEF Drafted, Pub!At, Writing
<1>5. ASSUME NEW p \in Process, Aside(p)
      PROVE  Drafted'
  <2>1. proc'[p] = proc[p] \/ Apart(p)
    BY <1>1, <1>5, AsideSteps
  <2>2. QED
    BY <1>1, <1>4, <1>5, <2>1, AsideSteps DEF Apart
<1>6. ASSUME NEW p \in Process, Pub!Join(p) \/ Pub!Report(p) \/ Pub!ReportFailure(p)
      PROVE  Drafted'
  BY <1>1, <1>4, <1>6, Starts
<1>7. ASSUME NEW p \in Process, Pub!Gate(p)
      PROVE  Drafted'
  BY <1>1, <1>4, <1>7, Gates DEF Writing, Pub!At
<1>8. ASSUME NEW p \in Process, Pub!Verify(p)
      PROVE  Drafted'
  BY <1>1, <1>4, <1>8, Verifies
<1>9. ASSUME NEW p \in Process, Pub!Confirm(p) \/ Pub!ListPeers(p) \/ Pub!Delete(p)
      PROVE  Drafted'
  BY <1>1, <1>4, <1>9, Rest
<1>10. Dead.at = "dead"
  BY DEF Dead, Pub!Down
<1>11. ASSUME NEW p \in Process, Pub!Reload(p) \/ Pub!ReadPublic(p) \/ Pub!ReadLatest(p)
       PROVE  Drafted'
  BY <1>1, <1>4, <1>10, <1>11, Reads
<1>12. ASSUME NEW p \in Process, Pub!Count(p)
       PROVE  Drafted'
  BY <1>4, <1>10, <1>12, Counts
<1>13. ASSUME NEW p \in Process, Pub!List(p)
       PROVE  Drafted'
  BY <1>1, <1>4, <1>10, <1>13, Lists DEF Drafted
<1>14. ASSUME NEW p \in Process, Pub!Write(p)
       PROVE  Drafted'
  BY <1>1, <1>4, <1>14, Writes
<1>15. ASSUME NEW p \in Process, Pub!Copy(p)
       PROVE  Drafted'
  BY <1>1, <1>4, <1>15, Copies
<1>16. QED
  BY <1>2, <1>3, <1>5, <1>6, <1>7, <1>8, <1>9, <1>11, <1>12, <1>13, <1>14, <1>15, Steps

LEMMA StepStored == SInv /\ [Pub!Next]_(Pub!vars) => SInv'
<1> SUFFICES ASSUME SInv, [Pub!Next]_(Pub!vars)
             PROVE  SInv'
  OBVIOUS
<1>1. Pub!TypeOK /\ TInv' /\ Drafted' /\ Drafted /\ FinalStored
  BY StepPublication, StepDrafted DEF SInv, TInv
<1> DEFINE Sound(p) ==
      /\ (Copying(p) \/ Pub!At(p, "peers")) /\ proc[p].draft.state \in Pub!Terminal => RunsIn[p] \in stored
      /\ proc[p].at \in {"confirm", "delete"} => RunsIn[p] \in stored
<1>2. CASE UNCHANGED Pub!vars
  <2>1. FinalStored'
    BY <1>1, <1>2 DEF Pub!vars, FinalStored, Copying, Pub!At
  <2>2. QED
    BY <1>1, <2>1 DEF SInv
<1>3. ASSUME NEW e \in Execution, Pub!HandOver(e)
      PROVE  FinalStored'
  BY <1>1, <1>3 DEF Pub!HandOver, Pub!Objects, FinalStored, Copying, Pub!At
<1>4. ASSUME NEW p \in Process, \A q \in Process : q # p => proc'[q] = proc[q],
             progress'.state \in Pub!Terminal => progress'.execution \in stored', stored \subseteq stored',
             proc'[p] = proc[p] \/ Sound(p)'
      PROVE  FinalStored'
  <2>1. \A q \in Process : proc'[q] = proc[q] => Sound(q)'
    BY <1>1, <1>4 DEF FinalStored, Copying, Pub!At
  <2>2. \A q \in Process : Sound(q)'
    BY <1>4, <2>1
  <2>3. QED
    BY <1>4, <2>2 DEF FinalStored
<1>5. ASSUME UNCHANGED <<progress, stored>>
      PROVE  (progress'.state \in Pub!Terminal => progress'.execution \in stored') /\ stored \subseteq stored'
  BY <1>1, <1>5 DEF FinalStored
<1>6. Pub!NoSnapshot.state \notin Pub!Terminal
  BY DEF Pub!NoSnapshot, Pub!Terminal, Pub!Success
<1>7. ASSUME NEW p \in Process,
             proc'[p].draft = Pub!NoSnapshot, proc'[p].at \notin {"confirm", "delete"}
      PROVE  Sound(p)'
  BY <1>6, <1>7 DEF Copying, Pub!At
<1>8. ASSUME NEW p \in Process,
             \/ proc'[p].at \notin {"confirm", "delete", "public", "latest", "copy", "peers", "gate"}
             \/ proc'[p].at = "gate" /\ proc'[p].then # "copy"
      PROVE  Sound(p)'
  BY <1>8 DEF Copying, Pub!At
<1>9. Dead.at = "dead" /\ Dead.draft = Pub!NoSnapshot
  BY DEF Dead, Pub!Down
<1>10. ASSUME NEW p \in Process, Aside(p)
       PROVE  FinalStored'
  <2>1. proc'[p] = proc[p] \/ Sound(p)'
    BY <1>1, <1>8, <1>10, AsideSteps DEF Apart
  <2>2. QED
    BY <1>1, <1>4, <1>5, <1>10, <2>1, AsideSteps
<1>11. ASSUME NEW p \in Process, Pub!Join(p) \/ Pub!Report(p) \/ Pub!ReportFailure(p)
       PROVE  FinalStored'
  <2>1. UNCHANGED <<progress, stored>>
    BY <1>11 DEF Pub!Join, Pub!Report, Pub!ReportFailure, Pub!Objects
  <2>2. Sound(p)'
    BY <1>1, <1>8, <1>11, Starts
  <2>3. QED
    BY <1>1, <1>4, <1>5, <1>11, <2>1, <2>2, Starts
<1>12. ASSUME NEW p \in Process, Pub!Gate(p)
       PROVE  FinalStored'
  <2>1. UNCHANGED <<progress, stored>>
    BY <1>12 DEF Pub!Gate, Pub!Objects
  <2> DEFINE Passes ==
        Pub!At(p, "gate") /\ proc[p].then = "copy" /\ proc'[p].at = "copy" /\ proc'[p].draft = proc[p].draft
  <2>2. CASE Passes
    <3>1. Sound(p)'
      BY <1>1, <2>1, <2>2 DEF FinalStored, Copying, Pub!At
    <3>2. QED
      BY <1>1, <1>4, <1>5, <1>12, <2>1, <3>1, Gates
  <2>3. CASE ~Passes
    <3>1. proc'[p].at \notin {"confirm", "delete", "public", "latest", "copy", "peers", "gate"}
      BY <1>1, <1>12, <2>3, Gates
    <3>2. QED
      BY <1>1, <1>4, <1>5, <1>8, <1>12, <2>1, <3>1, Gates
  <2>4. QED
    BY <2>2, <2>3
<1>13. ASSUME NEW p \in Process, Pub!Verify(p)
       PROVE  FinalStored'
  <2>1. UNCHANGED <<progress, stored>>
    BY <1>13 DEF Pub!Verify, Pub!Objects
  <2>2. Sound(p)'
    BY <1>1, <1>7, <1>13, <2>1, Verifies DEF FinalStored, Copying, Pub!At
  <2>3. QED
    BY <1>1, <1>4, <1>5, <1>13, <2>1, <2>2, Verifies
<1>14. ASSUME NEW p \in Process, Pub!Confirm(p) \/ Pub!ListPeers(p) \/ Pub!Delete(p)
       PROVE  FinalStored'
  <2>1. UNCHANGED <<progress, stored>>
    BY <1>14 DEF Pub!Confirm, Pub!ListPeers, Pub!Delete, Pub!Objects
  <2>2. Sound(p)'
    BY <1>1, <1>7, <1>14, <2>1, Rest DEF FinalStored, Copying, Pub!At, Pub!Terminal
  <2>3. QED
    BY <1>1, <1>4, <1>5, <1>14, <2>1, <2>2, Rest
<1>15. ASSUME NEW p \in Process, Pub!Reload(p) \/ Pub!ReadPublic(p) \/ Pub!ReadLatest(p)
       PROVE  FinalStored'
  <2>1. UNCHANGED <<progress, stored>>
    BY <1>15 DEF Pub!Reload, Pub!ReadPublic, Pub!ReadLatest, Pub!Objects
  <2>2. Sound(p)'
    <3>1. CASE proc'[p] = Dead \/ proc'[p].at = "count"
      BY <1>8, <1>9, <3>1
    <3>2. CASE /\ proc[p].at \in {"public", "latest"} /\ proc'[p].at \in {"latest", "gate"}
               /\ proc'[p].draft = proc[p].draft
      BY <1>1, <2>1, <3>2 DEF FinalStored, Copying, Pub!At
    <3>3. QED
      BY <1>1, <1>15, <3>1, <3>2, Reads
  <2>3. QED
    BY <1>1, <1>4, <1>5, <1>15, <2>1, <2>2, Reads
<1>16. ASSUME NEW p \in Process, Pub!Count(p) \/ Pub!List(p)
       PROVE  FinalStored'
  <2>1. UNCHANGED <<progress, stored>>
    BY <1>16 DEF Pub!Count, Pub!List, Pub!Objects
  <2>2. Sound(p)'
    BY <1>1, <1>8, <1>9, <1>16, Counts, Lists DEF SInv
  <2>3. QED
    BY <1>1, <1>4, <1>5, <1>16, <2>1, <2>2, Counts, Lists DEF SInv
<1>17. ASSUME NEW p \in Process, Pub!Write(p)
       PROVE  FinalStored'
  <2>1. proc[p].draft.execution = RunsIn[p]
    BY <1>1, <1>17, Writes DEF Drafted, Writing
  <2>2. (progress'.state \in Pub!Terminal => progress'.execution \in stored') /\ stored \subseteq stored'
    BY <1>1, <1>5, <1>17, <2>1, Writes
  <2>3. Sound(p)'
    <3>1. CASE p \in seen
      BY <1>1, <1>7, <1>17, <3>1, Writes
    <3>2. CASE p \notin seen
      BY <1>1, <1>7, <1>17, <3>2, Writes, Conflicting
    <3>3. QED
      BY <3>1, <3>2
  <2>4. QED
    BY <1>1, <1>4, <1>17, <2>2, <2>3, Writes
<1>18. ASSUME NEW p \in Process, Pub!Copy(p)
       PROVE  FinalStored'
  <2>1. UNCHANGED <<progress, stored>>
    BY <1>18 DEF Pub!Copy
  <2>2. Sound(p)'
    BY <1>1, <1>7, <1>18, <2>1, Copies DEF FinalStored, Copying, Pub!At
  <2>3. QED
    BY <1>1, <1>4, <1>5, <1>18, <2>1, <2>2, Copies
<1>19. CASE Pub!Next
  <2>1. FinalStored'
    BY <1>19, <1>3, <1>10, <1>11, <1>12, <1>13, <1>14, <1>15, <1>16, <1>17, <1>18, Steps
  <2>2. QED
    BY <1>1, <2>1 DEF SInv
<1>20. QED
  BY <1>2, <1>19

\* publish, publication_gate, release_cohort_lease: a process that may delete the guard has
\* stored a final snapshot of its cohort, or has found one.
THEOREM ReleaseFollowsStore == CohortSpec => []StoredBeforeRelease
<1>1. Pub!Init => SInv
  BY InitSafe
<1>2. SInv => StoredBeforeRelease
  BY DEF SInv, FinalStored, StoredBeforeRelease, Pub!StoredBeforeRelease, Pub!At
<1>3. QED
  BY <1>1, <1>2, StepStored, BothParts, PTL DEF Pub!Spec

-----------------------------------------------------------------------------
(* Replaced attempts                                                       *)

LEMMA Attempts ==
  /\ RunsIn \in [Process -> Execution] /\ TaskOf \in [Process -> Task]
  /\ \A p \in Process : AttemptOf[p] \in Nat
  /\ \A p \in Process, q \in Process :
       RunsIn[p] = RunsIn[q] /\ TaskOf[p] = TaskOf[q] /\ p # q
         => q \in Pub!Later(p) \/ (q \in Pub!Earlier(p) /\ p \in Pub!Later(q))
  /\ None \notin Pub!Terminal \cup {"starting", "running", "exporting"}
BY PublicationAssumption DEF Pub!ProcessAssumption, Pub!Later, Pub!Earlier, Pub!Peers,
     Pub!Terminal

\* If a cohort has as many latest documents as tasks, each task has one.
LEMMA EveryTaskReports ==
  ASSUME NEW e \in Execution, NEW t \in Task,
         Cardinality(Pub!LatestWorkers(e)) = Cardinality(Task)
  PROVE  \E p \in Pub!LatestWorkers(e) : TaskOf[p] = t
<1> DEFINE W == Pub!LatestWorkers(e)
           f == [p \in W |-> TaskOf[p]]
<1>1. W \subseteq Process /\ \A p \in W : RunsIn[p] = e /\ records[p] # None
                                         /\ \A q \in Pub!Later(p) : records[q] = None
  BY DEF Pub!LatestWorkers
<1>2. \A p, q \in W : TaskOf[p] = TaskOf[q] => p = q
  BY <1>1, Attempts
<1>3. f \in Injection(W, Task)
  BY <1>1, <1>2, Attempts DEF Injection, IsInjective
<1>4. IsFiniteSet(Task)
  BY PublicationAssumption, SameCount DEF Pub!ProcessAssumption
<1>5. f \in Surjection(W, Task)
  <2> HIDE DEF f, W
  <2>1. Cardinality(W) = Cardinality(Task)
    BY DEF W
  <2>2. QED
    BY <1>3, <1>4, <2>1, FS_Injection
<1>6. QED
  BY <1>5 DEF Surjection

\* A summary that says success says so of the latest attempt of every task.
LEMMA SuccessIsEarned ==
  ASSUME Reported, NEW e \in Execution, NEW done, Pub!AggregateState(e, done) \in Pub!Success
  PROVE  Finished(e)
<1>1. Pub!AllIn(e, Pub!Terminal) /\ ~Pub!AnyIs(e, "failed")
  BY DEF Pub!AggregateState, Pub!Success
<1>2. \A p \in Pub!LatestWorkers(e) : p \in announced
  BY <1>1 DEF Pub!AllIn, Pub!AnyIs, Pub!Terminal, Reported, Pub!LatestWorkers
<1> SUFFICES ASSUME NEW p \in Process, RunsIn[p] = e, \A q \in Pub!Later(p) : records[q] = None
             PROVE  \/ p \in announced
                    \/ p \notin tookOver /\ (records[p] = None => \E q \in Pub!Earlier(p) : q \in announced)
  BY DEF Finished
<1>3. CASE records[p] # None
  BY <1>2, <1>3 DEF Pub!LatestWorkers
<1>4. CASE records[p] = None
  <2>1. p \notin tookOver
    BY <1>4 DEF Reported
  <2>2. PICK w \in Pub!LatestWorkers(e) : TaskOf[w] = TaskOf[p]
    BY <1>1, EveryTaskReports, Attempts, SameCount DEF Pub!AllIn
  <2>3. w \in Process /\ RunsIn[w] = e /\ records[w] # None
    BY <2>2 DEF Pub!LatestWorkers
  <2>4. w \in Pub!Earlier(p)
    BY <1>4, <2>2, <2>3, Attempts
  <2>5. QED
    BY <1>2, <2>1, <2>2, <2>4
<1>5. QED
  BY <1>3, <1>4

\* A report does not undo what a cohort has finished.
LEMMA ReportKeeps ==
  ASSUME Pub!TypeOK, NEW p \in Process, Pub!Report(p) \/ Pub!ReportFailure(p), NEW e, Finished(e)
  PROVE  Finished(e)'
<1> SUFFICES ASSUME NEW q \in Process, RunsIn[q] = e, \A r \in Pub!Later(q) : records'[r] = None
             PROVE  \/ q \in announced'
                    \/ /\ q \notin tookOver'
                       /\ records'[q] = None => \E r \in Pub!Earlier(q) : r \in announced'
  BY DEF Finished, Pub!Later, Pub!Earlier, Pub!Peers
<1>1. /\ \A r \in Process : r # p => records'[r] = records[r]
      /\ records'[p] # None
  <2>1. proc[p].goal # None /\ None \notin {"exporting", "failed"}
    BY Fields, Attempts DEF Pub!Terminal
  <2>2. QED
    BY <2>1 DEF Pub!TypeOK, Pub!Report, Pub!ReportFailure
<1>2. announced \subseteq announced' /\ tookOver' \subseteq tookOver \cup {p}
  BY DEF Pub!Report, Pub!ReportFailure
<1>3. p \in tookOver' => p \in tookOver \/ (records[p] = None /\ Pub!Earlier(p) \cap announced = {})
  BY DEF Pub!Report, Pub!ReportFailure
<1>4. \A r \in Pub!Later(q) : records[r] = None
  BY <1>1 DEF Pub!Later, Pub!Peers
<1>5. \/ q \in announced
      \/ q \notin tookOver /\ (records[q] = None => \E r \in Pub!Earlier(q) : r \in announced)
  BY <1>4 DEF Finished
<1>6. QED
  BY <1>1, <1>2, <1>3, <1>5

LEMMA StepEarned == EInv /\ [Pub!Next]_(Pub!vars) => EInv'
<1> SUFFICES ASSUME EInv, [Pub!Next]_(Pub!vars)
             PROVE  EInv'
  OBVIOUS
<1>1. Pub!TypeOK /\ TInv /\ TInv' /\ Drafted' /\ Drafted /\ Reported /\ Earned
  BY StepPublication, StepDrafted DEF EInv, TInv
<1>2. ASSUME UNCHANGED <<records, announced, tookOver>>
      PROVE  Reported' /\ \A e : Finished(e) => Finished(e)'
  BY <1>1, <1>2 DEF Reported, Finished, Pub!Later, Pub!Earlier, Pub!Peers
<1>3. CASE UNCHANGED Pub!vars
  <2>1. Earned'
    BY <1>1, <1>2, <1>3 DEF Pub!vars, Earned
  <2>2. QED
    BY <1>1, <1>2, <1>3, <2>1 DEF Pub!vars, EInv
<1>4. ASSUME NEW e \in Execution, Pub!HandOver(e)
      PROVE  Reported' /\ Earned'
  BY <1>1, <1>2, <1>4 DEF Pub!HandOver, Pub!Workers, Pub!Objects, Earned
<1>5. Pub!NoSnapshot.state \notin Pub!Success
  BY DEF Pub!NoSnapshot, Pub!Success
<1>6. ASSUME NEW p \in Process, \A q \in Process : q # p => proc'[q] = proc[q],
             \A e : Finished(e) => Finished(e)',
             progress' \in {progress, proc[p].draft},
             \/ proc'[p].draft \in {proc[p].draft, Pub!NoSnapshot, progress}
             \/ proc'[p].draft.state \notin Pub!Success
             \/ Finished(proc'[p].draft.execution)
      PROVE  Earned'
  <2>1. \A e : progress.state \in Pub!Success /\ e = progress.execution => Finished(e)'
    BY <1>1, <1>6 DEF Earned
  <2>2. \A q \in Process : \A e : proc[q].draft.state \in Pub!Success /\ e = proc[q].draft.execution => Finished(e)'
    BY <1>1, <1>6 DEF Earned
  <2>3. \A e : progress'.state \in Pub!Success /\ e = progress'.execution => Finished(e)'
    BY <1>6, <2>1, <2>2
  <2>4. \A e : proc'[p].draft.state \in Pub!Success /\ e = proc'[p].draft.execution => Finished(e)'
    BY <1>5, <1>6, <2>1, <2>2
  <2>5. \A q \in Process : \A e :
          proc'[q].draft.state \in Pub!Success /\ e = proc'[q].draft.execution => Finished(e)'
    BY <1>6, <2>2, <2>4
  <2>6. QED
    BY <2>3, <2>5 DEF Earned, Finished, Pub!Later, Pub!Earlier, Pub!Peers
<1>7. ASSUME NEW p \in Process, \A q \in Process : q # p => proc'[q] = proc[q],
             UNCHANGED <<records, announced, tookOver>>, progress' \in {progress, proc[p].draft},
             \/ proc'[p].draft \in {proc[p].draft, Pub!NoSnapshot, progress}
             \/ proc'[p].draft.state \notin Pub!Success
             \/ Finished(proc'[p].draft.execution)
      PROVE  Reported' /\ Earned'
  BY <1>2, <1>6, <1>7
<1>8. Dead.draft = Pub!NoSnapshot
  BY DEF Dead, Pub!Down
<1>9. ASSUME NEW p \in Process, Aside(p)
      PROVE  Reported' /\ Earned'
  BY <1>1, <1>7, <1>9, AsideSteps DEF Apart
<1>10. ASSUME NEW p \in Process, Pub!Report(p) \/ Pub!ReportFailure(p)
       PROVE  Reported' /\ Earned'
  <2>1. Earned'
    <3>1. progress' = progress
      BY <1>10 DEF Pub!Report, Pub!ReportFailure, Pub!Objects
    <3>2. QED
      BY <1>1, <1>6, <1>10, <3>1, ReportKeeps, Starts
  <2>2. Reported'
    <3>1. records' = [records EXCEPT ![p] = records'[p]] /\ records'[p] # None
      <4>1. proc[p].goal # None /\ None \notin {"exporting", "failed"}
        BY <1>1, Fields, Attempts DEF Pub!Terminal
      <4>2. QED
        BY <1>1, <1>10, <4>1 DEF Pub!TypeOK, Pub!Report, Pub!ReportFailure
    <3>2. announced \subseteq announced' /\ tookOver' \subseteq tookOver \cup {p}
      BY <1>10 DEF Pub!Report, Pub!ReportFailure
    <3>3. records'[p] \in Pub!Success => p \in announced'
      <4>1. CASE Pub!Report(p)
        BY <4>1 DEF Pub!Report
      <4>2. CASE Pub!ReportFailure(p)
        BY <1>1, <4>2 DEF Pub!ReportFailure, Pub!TypeOK, Pub!Success
      <4>3. QED
        BY <1>10, <4>1, <4>2
    <3>4. QED
      BY <1>1, <3>1, <3>2, <3>3 DEF Reported, Pub!TypeOK
  <2>3. QED
    BY <2>1, <2>2
<1>11. ASSUME NEW p \in Process, Pub!Join(p)
       PROVE  Reported' /\ Earned'
  <2>1. UNCHANGED <<records, announced, tookOver, progress>>
    BY <1>11 DEF Pub!Join, Pub!Workers, Pub!Objects
  <2>2. QED
    BY <1>1, <1>7, <1>11, <2>1, Starts
<1>12. ASSUME NEW p \in Process, Pub!Gate(p) \/ Pub!Verify(p)
       PROVE  Reported' /\ Earned'
  <2>1. UNCHANGED <<records, announced, tookOver, progress>>
    BY <1>12 DEF Pub!Gate, Pub!Verify, Pub!Workers, Pub!Objects
  <2>2. /\ proc'[p].draft \in {proc[p].draft, Pub!NoSnapshot, progress}
        /\ \A q \in Process : q # p => proc'[q] = proc[q]
    BY <1>1, <1>12, Gates, Verifies
  <2>3. QED
    BY <1>7, <2>1, <2>2
<1>13. ASSUME NEW p \in Process, Pub!Confirm(p) \/ Pub!ListPeers(p) \/ Pub!Delete(p)
       PROVE  Reported' /\ Earned'
  <2>1. UNCHANGED <<records, announced, tookOver, progress>>
    BY <1>13 DEF Pub!Confirm, Pub!ListPeers, Pub!Delete, Pub!Workers, Pub!Objects
  <2>2. QED
    BY <1>1, <1>7, <1>13, <2>1, Rest
<1>14. ASSUME NEW p \in Process, Pub!Reload(p) \/ Pub!ReadPublic(p) \/ Pub!ReadLatest(p)
       PROVE  Reported' /\ Earned'
  <2>1. UNCHANGED <<records, announced, tookOver, progress>>
    BY <1>14 DEF Pub!Reload, Pub!ReadPublic, Pub!ReadLatest, Pub!Workers, Pub!Objects
  <2>2. QED
    BY <1>1, <1>7, <1>8, <1>14, <2>1, Reads
<1>15. ASSUME NEW p \in Process, Pub!Count(p)
       PROVE  Reported' /\ Earned'
  <2>1. UNCHANGED <<records, announced, tookOver, progress>>
    BY <1>15 DEF Pub!Count, Pub!Workers, Pub!Objects
  <2>2. proc'[p].draft.state \notin Pub!Success
    BY <1>1, <1>5, <1>8, <1>15, Counts DEF Pub!Success
  <2>3. QED
    BY <1>1, <1>7, <1>15, <2>1, <2>2, Counts
<1>16. ASSUME NEW p \in Process, Pub!List(p)
       PROVE  Reported' /\ Earned'
  <2>1. UNCHANGED <<records, announced, tookOver, progress>>
    BY <1>16 DEF Pub!List, Pub!Workers, Pub!Objects
  <2>2. proc'[p].draft = Pub!NoSnapshot \/ proc'[p].draft.state \notin Pub!Success
        \/ Finished(proc'[p].draft.execution)
    <3>1. CASE proc'[p] = Dead
      BY <1>8, <3>1
    <3>2. CASE proc'[p] # Dead
      <4>1. proc'[p].draft.execution = RunsIn[p]
            /\ proc'[p].draft.state = Pub!AggregateState(RunsIn[p], proc[p].draft.processed)
        BY <1>1, <1>16, <3>2, Lists DEF Drafted
      <4>2. QED
        BY <1>1, <4>1, SuccessIsEarned, Attempts
    <3>3. QED
      BY <3>1, <3>2
  <2>3. QED
    BY <1>1, <1>7, <1>16, <2>1, <2>2, Lists
<1>17. ASSUME NEW p \in Process, Pub!Write(p)
       PROVE  Reported' /\ Earned'
  <2>1. UNCHANGED <<records, announced, tookOver>> /\ progress' \in {progress, proc[p].draft}
    BY <1>17 DEF Pub!Write, Pub!Workers
  <2>2. QED
    BY <1>1, <1>7, <1>17, <2>1, Writes
<1>18. ASSUME NEW p \in Process, Pub!Copy(p)
       PROVE  Reported' /\ Earned'
  <2>1. UNCHANGED <<records, announced, tookOver, progress>>
    BY <1>18 DEF Pub!Copy, Pub!Workers
  <2>2. QED
    BY <1>1, <1>7, <1>18, <2>1, Copies
<1>19. CASE Pub!Next
  <2>1. Reported' /\ Earned'
    BY <1>19, <1>4, <1>9, <1>10, <1>11, <1>12, <1>13, <1>14, <1>15, <1>16, <1>17, <1>18, Steps
  <2>2. QED
    BY <1>1, <2>1 DEF EInv
<1>20. QED
  BY <1>3, <1>19

\* latest_workers, aggregate_state: a summary that says success says so of the latest attempt
\* of every task, and no later report of an attempt that was replaced makes it wrong.
THEOREM ReplacementsCount == CohortSpec => []ReplacementCounts
<1>1. Pub!Init => EInv
  BY InitSafe
<1>2. ASSUME EInv
      PROVE  ReplacementCounts
  <2> SUFFICES ASSUME progress.state \in Pub!Success, NEW p \in tookOver,
                      RunsIn[p] = progress.execution, \A q \in Pub!Later(p) : records[q] = None
               PROVE  p \in announced
    BY DEF ReplacementCounts, Pub!ReplacementCounts
  <2>1. p \in Process
    BY <1>2 DEF EInv, TInv, Pub!TypeOK
  <2>2. Finished(progress.execution)
    BY <1>2 DEF EInv, Earned
  <2>3. QED
    BY <2>1, <2>2 DEF Finished
<1>3. QED
  BY <1>1, <1>2, StepEarned, BothParts, PTL DEF Pub!Spec

-----------------------------------------------------------------------------
(* Later cohorts                                                           *)

\* While a cohort owns the guard none that replaces it has been reached.
LEMMA OwnerIsLast ==
  ASSUME InOrder, NEW e \in Execution, owner = e, NEW d, d = None \/ Reached(d)
  PROVE  ~Pub!Replaces(d, e)
<1> SUFFICES ASSUME Pub!Replaces(d, e)
             PROVE  FALSE
  OBVIOUS
<1>1. Successor \in [Execution -> Execution \cup {None}] /\ None \notin Execution
  BY PublicationAssumption DEF Pub!ProcessAssumption
<1> DEFINE S == {e} \cup {x \in Execution : ~Reached(x)}
<1>2. \A x \in S : Successor[x] # None => Successor[x] \in S
  <2> SUFFICES ASSUME NEW x \in S, Successor[x] # None, Reached(Successor[x])
               PROVE  FALSE
    BY <1>1
  <2>1. x \in removed
    BY <1>1 DEF InOrder
  <2>2. x \notin removed
    BY DEF InOrder, Reached
  <2>3. QED
    BY <2>1, <2>2
<1>3. d \in S /\ d # e
  BY <1>2 DEF Pub!Replaces
<1>4. QED
  BY <1>1, <1>3

LEMMA NeverItself == \A e : ~Pub!Replaces(e, e)
BY DEF Pub!Replaces

\* A step of a process that has started and does not make the guard somebody else's.
LEMMA GuardStays ==
  ASSUME Pub!TypeOK, InOrder, NEW p \in Process, \A q \in Process : q # p => proc'[q] = proc[q],
         Pub!Started(p), Pub!Started(p)', removed' = removed,
         owner' = owner \/ (owner = RunsIn[p] /\ owner' = None)
  PROVE  InOrder' /\ \A e \in Execution : Reached(e) => Reached(e)'
<1>1. \A q \in Process : Pub!Started(q)' <=> Pub!Started(q)
  BY DEF Pub!Started
<1>2. None \notin removed /\ None \notin Execution
  BY PublicationAssumption DEF Pub!TypeOK, Pub!ProcessAssumption
<1>3. \A e \in Execution : Reached(e)' <=> Reached(e)
  <2> SUFFICES ASSUME NEW e \in Execution
               PROVE  Reached(e)' <=> Reached(e)
    OBVIOUS
  <2>1. (\E q \in Process : RunsIn[q] = e /\ Pub!Started(q)')
          <=> \E q \in Process : RunsIn[q] = e /\ Pub!Started(q)
    BY <1>1
  <2>2. CASE owner' = owner
    BY <2>1, <2>2 DEF Reached
  <2>3. CASE owner = RunsIn[p] /\ owner' = None
    BY <1>2, <2>1, <2>3 DEF Reached
  <2>4. QED
    BY <2>2, <2>3
<1>4. owner' \notin removed'
  BY <1>2 DEF InOrder
<1>5. QED
  BY <1>3, <1>4 DEF InOrder

LEMMA JoinsInOrder ==
  ASSUME Pub!TypeOK, InOrder, NEW p \in Process, Pub!Join(p)
  PROVE  InOrder' /\ \A e \in Execution : Reached(e) => Reached(e)'
<1>1. RunsIn[p] \in Execution /\ None \notin Execution
  BY PublicationAssumption DEF Pub!ProcessAssumption
<1>2. /\ owner' = RunsIn[p] /\ owner \in {None, RunsIn[p]} /\ RunsIn[p] \notin removed
      /\ removed' = removed /\ \A d \in Execution : Successor[d] = RunsIn[p] => d \in removed
  BY DEF Pub!Join
<1>3. \A q \in Process : q # p => proc'[q] = proc[q]
  BY Starts
<1>4. \A q \in Process : Pub!Started(q) => Pub!Started(q)'
  <2>1. ~Pub!Started(p)
    BY DEF Pub!Join, Pub!At, Pub!Started
  <2>2. QED
    BY <1>3, <2>1 DEF Pub!Started
<1>5. \A e \in Execution : Reached(e)' => e = RunsIn[p] \/ Reached(e)
  BY <1>1, <1>2, <1>3 DEF Reached, Pub!Started
<1>6. \A e \in Execution : Reached(e) => Reached(e)'
  BY <1>1, <1>2, <1>4 DEF Reached
<1>7. QED
  BY <1>2, <1>5, <1>6 DEF InOrder

LEMMA HandsOverInOrder ==
  ASSUME Pub!TypeOK, InOrder, NEW e \in Execution, Pub!HandOver(e)
  PROVE  InOrder' /\ \A d \in Execution : Reached(d) => Reached(d)'
<1>1. /\ Successor[e] \in Execution /\ None \notin Execution
      /\ \A d \in Execution : Successor[d] = Successor[e] => d = e
  BY PublicationAssumption DEF Pub!ProcessAssumption, Pub!HandOver
<1>2. owner = e /\ owner' = Successor[e] /\ removed' = removed \cup {e} /\ proc' = proc
  BY DEF Pub!HandOver
<1>3. \A d \in Execution : Successor[d] = e => d \in removed
  BY <1>2 DEF InOrder, Reached
<1>4. Successor[e] \notin removed'
  BY <1>1, <1>2, <1>3 DEF InOrder, Reached
<1>5. \A d \in Execution : Reached(d)' => d = Successor[e] \/ Reached(d)
  BY <1>2 DEF Reached, Pub!Started
<1>6. \A d \in Execution : Reached(d) => Reached(d)'
  BY <1>2 DEF Reached, Pub!Started
<1>7. QED
  BY <1>1, <1>2, <1>4, <1>5, <1>6 DEF InOrder

LEMMA StepNewer == NInv /\ [Pub!Next]_(Pub!vars) => NInv'
<1> SUFFICES ASSUME NInv, [Pub!Next]_(Pub!vars)
             PROVE  NInv'
  OBVIOUS
<1>1. Pub!TypeOK /\ TInv /\ TInv' /\ Drafted' /\ Drafted /\ InOrder /\ Known /\ MayWrite
  BY StepPublication, StepDrafted DEF NInv, TInv
<1>2. progress.execution \in Execution \cup {None} /\ public.execution \in Execution \cup {None}
  BY <1>1 DEF Pub!TypeOK, Pub!Snapshot
<1> DEFINE Rightly(p) ==
      /\ Pub!At(p, "write") /\ p \in seen => ~Pub!Replaces(progress.execution, RunsIn[p])
      /\ Pub!At(p, "copy") /\ p \in seenPublic => ~Pub!Replaces(public.execution, RunsIn[p])
           Kept == InOrder' /\ Known' /\ MayWrite'
<1>3. CASE UNCHANGED Pub!vars
  <2>1. UNCHANGED <<owner, removed, proc, progress, public, seen, seenPublic>>
    BY <1>3 DEF Pub!vars
  <2>2. Kept
    BY <1>1, <2>1 DEF InOrder, Known, MayWrite, Reached, Pub!Started, Pub!At, Pub!Replaces
  <2>3. QED
    BY <1>1, <2>2 DEF NInv
<1>4. ASSUME NEW e \in Execution, Pub!HandOver(e)
      PROVE  Kept
  <2>1. UNCHANGED <<proc, progress, public, seen, seenPublic>>
    BY <1>4 DEF Pub!HandOver, Pub!Objects
  <2>2. InOrder' /\ Known'
    BY <1>1, <1>2, <1>4, <2>1, HandsOverInOrder DEF Known
  <2>3. QED
    BY <1>1, <2>1, <2>2 DEF MayWrite, Pub!At, Pub!Replaces
<1>5. ASSUME NEW p \in Process, \A q \in Process : q # p => proc'[q] = proc[q],
             InOrder', \A e \in Execution : Reached(e) => Reached(e)',
             UNCHANGED <<progress, public>>,
             seen' \subseteq seen \cup {p}, seenPublic' \subseteq seenPublic \cup {p},
             \/ proc'[p].at \notin {"write", "copy"}
             \/ proc'[p] = proc[p] /\ UNCHANGED <<seen, seenPublic>>
             \/ owner = RunsIn[p]
      PROVE  Kept
  <2>1. Known'
    BY <1>1, <1>2, <1>5 DEF Known
  <2>2. \A q \in Process : q # p => Rightly(q)'
    BY <1>1, <1>5 DEF MayWrite, Pub!At, Pub!Replaces
  <2>3. Rightly(p)'
    <3>1. CASE proc'[p].at \notin {"write", "copy"}
      BY <3>1 DEF Pub!At
    <3>2. CASE proc'[p] = proc[p] /\ UNCHANGED <<seen, seenPublic>>
      BY <1>1, <1>5, <3>2 DEF MayWrite, Pub!At, Pub!Replaces
    <3>3. CASE owner = RunsIn[p]
      <4>1. RunsIn[p] \in Execution
        BY Attempts
      <4>2. ~Pub!Replaces(progress.execution, RunsIn[p]) /\ ~Pub!Replaces(public.execution, RunsIn[p])
        BY <1>1, <3>3, <4>1, OwnerIsLast DEF Known
      <4>3. QED
        BY <1>5, <4>2 DEF Pub!Replaces
    <3>4. QED
      BY <1>5, <3>1, <3>2, <3>3
  <2>4. QED
    BY <1>5, <2>1, <2>2, <2>3 DEF MayWrite
<1>6. ASSUME NEW p \in Process, \A q \in Process : q # p => proc'[q] = proc[q],
             Pub!Started(p), Pub!Started(p)', UNCHANGED <<owner, removed, progress, public>>,
             seen' \subseteq seen \cup {p}, seenPublic' \subseteq seenPublic \cup {p},
             \/ proc'[p].at \notin {"write", "copy"}
             \/ proc'[p] = proc[p] /\ UNCHANGED <<seen, seenPublic>>
             \/ owner = RunsIn[p]
      PROVE  Kept
  BY <1>1, <1>5, <1>6, GuardStays
<1>7. ASSUME NEW p \in Process, Aside(p)
      PROVE  Kept
  <2>1. UNCHANGED <<owner, removed, progress, public, seen, seenPublic>>
    BY <1>1, <1>7, AsideSteps
  <2>2. CASE proc'[p] = proc[p]
    <3>1. UNCHANGED <<owner, removed, proc, progress, public, seen, seenPublic>>
      BY <1>1, <1>7, <2>1, <2>2, AsideSteps DEF Pub!TypeOK
    <3>2. QED
      BY <1>1, <3>1 DEF InOrder, Known, MayWrite, Reached, Pub!Started, Pub!At, Pub!Replaces
  <2>3. CASE Pub!Started(p) /\ Apart(p)
    <3>1. Pub!Started(p)' /\ proc'[p].at \notin {"write", "copy"}
      BY <2>3 DEF Apart, Pub!Started
    <3>2. QED
      BY <1>1, <1>6, <1>7, <2>1, <2>3, <3>1, AsideSteps
  <2>4. QED
    BY <1>1, <1>7, <2>2, <2>3, AsideSteps
<1>8. ASSUME NEW p \in Process, Pub!Join(p)
      PROVE  Kept
  <2>1. UNCHANGED <<progress, public, seen, seenPublic>>
    BY <1>8 DEF Pub!Join, Pub!Objects
  <2>2. proc'[p].at \notin {"write", "copy"} /\ \A q \in Process : q # p => proc'[q] = proc[q]
    BY <1>1, <1>8, Starts
  <2>3. QED
    BY <1>1, <1>5, <1>8, <2>1, <2>2, JoinsInOrder
<1>9. ASSUME NEW p \in Process, Pub!Report(p) \/ Pub!ReportFailure(p)
      PROVE  Kept
  <2>1. UNCHANGED <<owner, removed, progress, public, seen, seenPublic>> /\ Pub!Started(p)
    BY <1>9 DEF Pub!Report, Pub!ReportFailure, Pub!Guard, Pub!Objects, Pub!At, Pub!Started
  <2>2. /\ proc'[p].at \notin {"write", "copy"} /\ Pub!Started(p)'
        /\ \A q \in Process : q # p => proc'[q] = proc[q]
    BY <1>1, <1>9, Starts DEF Pub!Started
  <2>3. QED
    BY <1>6, <2>1, <2>2
<1>10. ASSUME NEW p \in Process, Pub!Gate(p)
       PROVE  Kept
  <2>1. UNCHANGED <<owner, removed, progress, public, seen, seenPublic>>
    BY <1>10 DEF Pub!Gate, Pub!Guard, Pub!Objects
  <2>2. /\ Pub!Started(p) /\ Pub!Started(p)' /\ \A q \in Process : q # p => proc'[q] = proc[q]
        /\ proc'[p].at \notin {"write", "copy"} \/ owner = RunsIn[p]
    BY <1>1, <1>10, Gates DEF Pub!Started, Pub!At
  <2>3. QED
    BY <1>6, <2>1, <2>2
<1>11. ASSUME NEW p \in Process, Pub!Verify(p)
       PROVE  Kept
  <2>1. UNCHANGED <<owner, removed, progress, public, seen, seenPublic>>
    BY <1>11 DEF Pub!Verify, Pub!Guard, Pub!Objects
  <2>2. /\ Pub!Started(p) /\ Pub!Started(p)' /\ \A q \in Process : q # p => proc'[q] = proc[q]
        /\ proc'[p].at \notin {"write", "copy"}
    BY <1>1, <1>11, Verifies DEF Pub!Started, Pub!At
  <2>3. QED
    BY <1>6, <2>1, <2>2
<1>12. ASSUME NEW p \in Process, Pub!Confirm(p) \/ Pub!ListPeers(p) \/ Pub!Delete(p)
       PROVE  Kept
  <2>1. UNCHANGED <<removed, progress, public, seen, seenPublic>>
        /\ (owner' = owner \/ (owner = RunsIn[p] /\ owner' = None))
    BY <1>12 DEF Pub!Confirm, Pub!ListPeers, Pub!Delete, Pub!Guard, Pub!Objects
  <2>2. /\ Pub!Started(p) /\ Pub!Started(p)' /\ \A q \in Process : q # p => proc'[q] = proc[q]
        /\ proc'[p].at \notin {"write", "copy"}
    BY <1>1, <1>12, Rest DEF Pub!Started, Pub!At
  <2>3. QED
    BY <1>1, <1>5, <2>1, <2>2, GuardStays
<1>13. Dead.at = "dead"
  BY DEF Dead, Pub!Down
<1>14. ASSUME NEW p \in Process, Pub!Reload(p) \/ Pub!ReadPublic(p) \/ Pub!ReadLatest(p)
       PROVE  Kept
  <2>1. UNCHANGED <<owner, removed, progress, public>>
    BY <1>14 DEF Pub!Reload, Pub!ReadPublic, Pub!ReadLatest, Pub!Guard, Pub!Objects
  <2>2. /\ Pub!Started(p) /\ Pub!Started(p)' /\ \A q \in Process : q # p => proc'[q] = proc[q]
        /\ proc'[p].at \notin {"write", "copy"}
        /\ seen' \subseteq seen \cup {p} /\ seenPublic' \subseteq seenPublic \cup {p}
    BY <1>1, <1>13, <1>14, Reads DEF Pub!Started
  <2>3. QED
    BY <1>6, <2>1, <2>2
<1>15. ASSUME NEW p \in Process, Pub!Count(p) \/ Pub!List(p)
       PROVE  Kept
  <2>1. UNCHANGED <<owner, removed, progress, public, seen, seenPublic>>
    BY <1>15 DEF Pub!Count, Pub!List, Pub!Guard, Pub!Objects
  <2>2. /\ Pub!Started(p) /\ Pub!Started(p)' /\ \A q \in Process : q # p => proc'[q] = proc[q]
        /\ proc'[p].at \notin {"write", "copy"}
    BY <1>1, <1>13, <1>15, Counts, Lists DEF Pub!Started, Pub!At
  <2>3. QED
    BY <1>6, <2>1, <2>2
\* A write or a copy: nobody else has read the new generation.
<1>16. ASSUME NEW p \in Process, \A q \in Process : q # p => proc'[q] = proc[q],
              Pub!Started(p), Pub!Started(p)', UNCHANGED <<owner, removed>>,
              proc'[p].at \notin {"write", "copy"},
              UNCHANGED <<progress, seen>> \/ (seen' = {} /\ progress'.execution = RunsIn[p]),
              UNCHANGED <<public, seenPublic>> \/ (seenPublic' = {} /\ public'.execution = RunsIn[p])
       PROVE  Kept
  <2>1. InOrder' /\ \A e \in Execution : Reached(e) => Reached(e)'
    BY <1>1, <1>16, GuardStays
  <2>2. RunsIn[p] \in Execution /\ Reached(RunsIn[p])'
    BY <1>16, <2>1, Attempts DEF Reached
  <2>3. Known'
    <3>1. \A e : e = progress'.execution /\ e # None => Reached(e)'
      BY <1>1, <1>2, <1>16, <2>1, <2>2 DEF Known
    <3>2. \A e : e = public'.execution /\ e # None => Reached(e)'
      BY <1>1, <1>2, <1>16, <2>1, <2>2 DEF Known
    <3>3. QED
      BY <3>1, <3>2 DEF Known, Reached
  <2>4. MayWrite'
    <3> SUFFICES ASSUME NEW q \in Process
                 PROVE  Rightly(q)'
      BY DEF MayWrite
    <3>1. CASE q = p
      BY <1>16, <3>1 DEF Pub!At
    <3>2. CASE q # p
      BY <1>1, <1>16, <3>2 DEF MayWrite, Pub!At, Pub!Replaces
    <3>3. QED
      BY <3>1, <3>2
  <2>5. QED
    BY <2>1, <2>3, <2>4
<1>17. ASSUME NEW p \in Process, Pub!Write(p)
       PROVE  Kept
  <2>1. proc[p].draft.execution = RunsIn[p]
    BY <1>1, <1>17, Writes DEF Drafted, Writing
  <2>2. UNCHANGED <<owner, removed>>
    BY <1>17 DEF Pub!Write, Pub!Guard
  <2>3. /\ Pub!Started(p) /\ Pub!Started(p)' /\ \A q \in Process : q # p => proc'[q] = proc[q]
        /\ proc'[p].at \notin {"write", "copy"} /\ UNCHANGED <<public, seenPublic>>
        /\ UNCHANGED <<progress, seen>> \/ (seen' = {} /\ progress'.execution = RunsIn[p])
    BY <1>1, <1>17, <2>1, Writes DEF Pub!Started, Pub!At
  <2>4. QED
    BY <1>16, <2>2, <2>3
<1>18. ASSUME NEW p \in Process, Pub!Copy(p)
       PROVE  Kept
  <2>1. UNCHANGED <<owner, removed, progress, seen>>
    BY <1>18 DEF Pub!Copy, Pub!Guard
  <2>2. /\ Pub!Started(p) /\ Pub!Started(p)' /\ \A q \in Process : q # p => proc'[q] = proc[q]
        /\ proc'[p].at \notin {"write", "copy"}
        /\ UNCHANGED <<public, seenPublic>> \/ (seenPublic' = {} /\ public'.execution = RunsIn[p])
    BY <1>1, <1>18, Copies DEF Pub!Started, Pub!At
  <2>3. QED
    BY <1>16, <2>1, <2>2
<1>19. CASE Pub!Next
  <2>1. Kept
    BY <1>19, <1>4, <1>7, <1>8, <1>9, <1>10, <1>11, <1>12, <1>14, <1>15, <1>17, <1>18, Steps
  <2>2. QED
    BY <1>1, <2>1 DEF NInv
<1>20. QED
  BY <1>3, <1>19

LEMMA NewerStep ==
  ASSUME NInv, [Pub!Next]_(Pub!vars)
  PROVE  \A e \in Execution :
           /\ progress'.execution = e => ~Pub!Replaces(progress.execution, e)
           /\ public'.execution = e => ~Pub!Replaces(public.execution, e)
<1>1. Pub!TypeOK /\ Drafted /\ MayWrite
  BY DEF NInv, TInv
<1>2. CASE UNCHANGED <<progress, public>>
  BY <1>2, NeverItself
<1>3. ASSUME NEW p \in Process, Pub!Write(p)
      PROVE  UNCHANGED public
             /\ \/ UNCHANGED progress
                \/ \A e \in Execution :
                     progress'.execution = e => ~Pub!Replaces(progress.execution, e)
  BY <1>1, <1>3, Writes DEF Drafted, Writing, MayWrite, Pub!At
<1>4. ASSUME NEW p \in Process, Pub!Copy(p)
      PROVE  UNCHANGED progress
             /\ \/ UNCHANGED public
                \/ \A e \in Execution :
                     public'.execution = e => ~Pub!Replaces(public.execution, e)
  BY <1>1, <1>4, Copies DEF Pub!Copy, MayWrite, Pub!At
<1>5. ASSUME NEW p \in Process,
             \/ Aside(p) \/ Pub!Join(p) \/ Pub!Report(p) \/ Pub!ReportFailure(p) \/ Pub!Gate(p)
             \/ Pub!Verify(p) \/ Pub!Confirm(p) \/ Pub!ListPeers(p) \/ Pub!Delete(p) \/ Pub!Reload(p)
             \/ Pub!ReadPublic(p) \/ Pub!ReadLatest(p)
             \/ Pub!Count(p) \/ Pub!List(p)
      PROVE  UNCHANGED <<progress, public>>
  BY <1>1, <1>5, AsideSteps DEF Pub!Join, Pub!Report, Pub!ReportFailure, Pub!Gate, Pub!Verify,
       Pub!Confirm, Pub!ListPeers, Pub!Delete, Pub!Reload, Pub!ReadPublic, Pub!ReadLatest,
       Pub!Count, Pub!List, Pub!Objects
<1>6. ASSUME NEW e \in Execution, Pub!HandOver(e)
      PROVE  UNCHANGED <<progress, public>>
  BY <1>6 DEF Pub!HandOver, Pub!Objects
<1>7. CASE Pub!Next
  <2>1. \/ UNCHANGED <<progress, public>>
        \/ \E p \in Process : Pub!Write(p) \/ Pub!Copy(p)
    BY <1>5, <1>6, <1>7, Steps
  <2>2. QED
    BY <1>2, <1>3, <1>4, <2>1, NeverItself
<1>8. QED
  BY <1>2, <1>7 DEF Pub!vars

\* publication_gate, before every write: a cohort that owns the guard is the last that was
\* reached, and whoever reached the object since has made the write fail.
THEOREM NewerStays == CohortSpec => NewerCohortKept
<1>1. Pub!Init => NInv
  BY InitSafe
<1>2. NInv /\ [Pub!Next]_(Pub!vars) =>
        [\A e \in Execution :
           /\ progress'.execution = e => ~Pub!Replaces(progress.execution, e)
           /\ public'.execution = e => ~Pub!Replaces(public.execution, e)]_(Pub!vars)
  BY NewerStep
<1>3. QED
  BY <1>1, <1>2, StepNewer, BothParts, PTL DEF Pub!Spec, NewerCohortKept, Pub!NewerCohortKept
=============================================================================
