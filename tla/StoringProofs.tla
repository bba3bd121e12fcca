--------------------------- MODULE StoringProofs ---------------------------
(***************************************************************************)
(* Storing, for every set of articles, cohorts, tasks, operators and       *)
(* objects, every batch size, and all readers of the public index.         *)
(*                                                                         *)
(* The outbox: its types, that nothing is acknowledged which was not       *)
(* loaded, and that a cohort whose tasks have all ended has left nothing   *)
(* there.  The last needs no count of who exported what.  A task ends only *)
(* when it sees an empty outbox, and a task that has ended accepts         *)
(* nothing, so a result that waits has a task of its own cohort that has   *)
(* not ended (WaitingHasTask); when none is left, nothing waits.           *)
(*                                                                         *)
(* The migration: an operator goes on only after the objects it listed     *)
(* are loaded (Good), so a finished proof is true (Proved).  What the      *)
(* importer saw there is loaded, and equal counts of growing sets mean     *)
(* that nothing was added since (Compared, NothingAdded).                  *)
(*                                                                         *)
(* The index: while the object is what a refresh has read, the refresh     *)
(* will write no less than is there (Based), and every index lists         *)
(* accepted articles only (Accurate).                                      *)
(***************************************************************************)
EXTENDS Storing, FiniteSetTheorems, TLAPS

\* A result has an accepting cohort exactly when it has been accepted.
AcceptedBySome == \A a \in Article : row[a] = "open" <=> by[a] = Nobody

\* A call of export_results that has ended leaves nothing behind.
IdleIsNoJob == \A p \in Process : job[p].at = "idle" => job[p] = NoJob

\* What a task is about to acknowledge has been loaded.
LoadedFirst ==
  \A p \in Process : job[p].at \in {"recheck", "acknowledge"} => job[p].accepted \subseteq events

\* A result that waits has a task of its cohort that has not ended.
WaitingHasTask ==
  \A a \in Article : row[a] = "pending" => \E t \in Task : at[<<by[a], t>>] # "finished"

Jobs == IdleIsNoJob /\ LoadedFirst
Rows == AcceptedBySome /\ AcknowledgedIsLoaded /\ WaitingHasTask
IInv == TypeOK /\ Jobs /\ Rows

-----------------------------------------------------------------------------
(* How the pieces of the state change                                      *)

Places == {"off", "work", "drain", "finished"}

\* No job is a job, and it is idle.
LEMMA NoJobType == NoJob \in Job /\ NoJob.at = "idle"
BY DEF NoJob, Job

\* Set changes the job of one task.
LEMMA SetOne ==
  ASSUME job \in [Process -> Job], NEW p \in Process, NEW j \in Job, Set(p, j)
  PROVE  job' \in [Process -> Job] /\ job'[p] = j /\ \A q \in Process \ {p} : job'[q] = job[q]
BY DEF Set

\* Moves changes the place of one task.
LEMMA MoveOne ==
  ASSUME at \in [Process -> Places], NEW p \in Process, NEW to \in Places, Moves(p, to)
  PROVE  at' \in [Process -> Places] /\ at'[p] = to /\ \A q \in Process \ {p} : at'[q] = at[q]
BY DEF Moves

\* A task that fails is off and has no job; it was not off before, or nothing was lost.
LEMMA FailOne ==
  ASSUME at \in [Process -> Places], job \in [Process -> Job], NEW p \in Process, FailTask(p)
  PROVE  /\ at' \in [Process -> Places] /\ at'[p] = "off" /\ \A q \in Process \ {p} : at'[q] = at[q]
         /\ job' \in [Process -> Job] /\ job'[p] = NoJob /\ \A q \in Process \ {p} : job'[q] = job[q]
<1>1. "off" \in Places
  BY DEF Places
<1>2. Moves(p, "off") /\ Set(p, NoJob)
  BY DEF FailTask
<1> QED BY <1>1, <1>2, NoJobType, MoveOne, SetOne

-----------------------------------------------------------------------------
(* The initial state                                                       *)

LEMMA InitInvariant == OutboxAssumption /\ Init => IInv
<1> SUFFICES ASSUME OutboxAssumption, Init PROVE IInv
  OBVIOUS
<1>1. \A p \in Process : at[p] = "off" /\ job[p] = NoJob
  BY DEF Init
<1>2. TypeOK
  <2>1. guard \in Cohort
    BY DEF Init
  <2>2. failures \in 0..MaxFailures
    BY DEF Init, OutboxAssumption
  <2>3. job \in [Process -> Job] /\ at \in [Process -> {"off", "work", "drain", "finished"}]
    BY NoJobType DEF Init
  <2> QED BY <1>1, <2>1, <2>2, <2>3 DEF Init, TypeOK
<1>3. Jobs
  BY <1>1 DEF Jobs, IdleIsNoJob, LoadedFirst, NoJob
<1>4. Rows
  BY DEF Rows, AcceptedBySome, AcknowledgedIsLoaded, WaitingHasTask, Init
<1> QED BY <1>2, <1>3, <1>4 DEF IInv

-----------------------------------------------------------------------------
(* Steps: what every step of one task does to it, and to the others        *)

\* A task goes on at a place with a job, and where it is off or finished it has none.
Stands(p, to, j) == to \in Places /\ j \in Job /\ (to \in {"off", "finished"} => j = NoJob)
                    /\ (j.at = "idle" => j = NoJob)
\* The rest of what a task's step keeps typed.
Counted == failures' \in 0..MaxFailures /\ guard' = guard

\* Where a task stands is typed, and nobody else moves.
LEMMA OneStands ==
  ASSUME TypeOK, NEW p \in Process, NEW to, NEW j, Stands(p, to, j),
         Moves(p, to) \/ (at[p] = to /\ at' = at), Set(p, j) \/ (job[p] = j /\ job' = job)
  PROVE  /\ at' \in [Process -> Places] /\ at'[p] = to /\ \A q \in Process \ {p} : at'[q] = at[q]
         /\ job' \in [Process -> Job] /\ job'[p] = j /\ \A q \in Process \ {p} : job'[q] = job[q]
<1>1. at \in [Process -> Places] /\ job \in [Process -> Job]
  BY DEF TypeOK, Places
<1>2. to \in Places /\ j \in Job
  BY DEF Stands
<1>3. at' \in [Process -> Places] /\ at'[p] = to /\ \A q \in Process \ {p} : at'[q] = at[q]
  <2>1. CASE Moves(p, to)
    BY <1>1, <1>2, <2>1, MoveOne
  <2>2. CASE at[p] = to /\ at' = at
    BY <1>1, <2>2
  <2> QED BY <2>1, <2>2
<1>4. job' \in [Process -> Job] /\ job'[p] = j /\ \A q \in Process \ {p} : job'[q] = job[q]
  <2>1. CASE Set(p, j)
    BY <1>1, <1>2, <2>1, SetOne
  <2>2. CASE job[p] = j /\ job' = job
    BY <1>1, <2>2
  <2> QED BY <2>1, <2>2
<1> QED BY <1>3, <1>4
\* What a step of task p does to it: it stays well formed, acknowledges loaded results only,
\* and ends only beside an empty outbox.
Went(p) ==
  /\ at' \in [Process -> Places] /\ job' \in [Process -> Job]
  /\ \A q \in Process \ {p} : at'[q] = at[q] /\ job'[q] = job[q]
  /\ at'[p] \in {"off", "finished"} => job'[p] = NoJob
  /\ job'[p].at = "idle" => job'[p] = NoJob
  /\ job'[p].at \in {"recheck", "acknowledge"} => job'[p].accepted \subseteq events'
  /\ at'[p] = "finished" => at[p] = "finished" \/ Pending = {}
  /\ failures' \in 0..MaxFailures /\ guard' \in Cohort
  /\ events \subseteq events' /\ events' \subseteq Article

\* What it does to the articles: nothing, an acknowledgement, or one more result.
Acknowledges == by' = by /\ \E A \in SUBSET events : Mark(A)
Accepts(p) ==
  \E a \in Article : /\ row[a] = "open" /\ row' = [row EXCEPT ![a] = "pending"]
                     /\ by' = [by EXCEPT ![a] = p[1]] /\ at'[p] # "finished"
Treats(p) == (row' = row /\ by' = by) \/ Acknowledges \/ Accepts(p)

\* A task that stands well, with rows, events and guard as they were, has made such a step.
LEMMA StandsWent ==
  ASSUME IInv, NEW p \in Process, NEW to, NEW j, Stands(p, to, j),
         Moves(p, to) \/ (at[p] = to /\ at' = at), Set(p, j) \/ (job[p] = j /\ job' = job),
         j.at \in {"recheck", "acknowledge"} => j.accepted \subseteq events',
         to = "finished" => at[p] = "finished" \/ Pending = {},
         failures' \in 0..MaxFailures, guard' = guard, events \subseteq events', events' \subseteq Article
  PROVE  Went(p)
<1>1. TypeOK /\ guard \in Cohort
  BY DEF IInv, TypeOK
<1>2. /\ at' \in [Process -> Places] /\ at'[p] = to /\ \A q \in Process \ {p} : at'[q] = at[q]
      /\ job' \in [Process -> Job] /\ job'[p] = j /\ \A q \in Process \ {p} : job'[q] = job[q]
  BY <1>1, OneStands
<1>3. (to \in {"off", "finished"} => j = NoJob) /\ (j.at = "idle" => j = NoJob)
  BY DEF Stands
<1> QED BY <1>1, <1>2, <1>3 DEF Went

\* A task that fails, with what it has loaded.
LEMMA FailWent ==
  ASSUME IInv, NEW p \in Process, FailTask(p), failures' \in 0..MaxFailures, guard' = guard,
         events \subseteq events', events' \subseteq Article
  PROVE  Went(p)
<1>1. Moves(p, "off") /\ Set(p, NoJob)
  BY DEF FailTask
<1>2. Stands(p, "off", NoJob)
  BY NoJobType DEF Stands, Places
<1>3. NoJob.at \notin {"recheck", "acknowledge"}
  BY NoJobType
<1> QED BY <1>1, <1>2, <1>3, StandsWent

\* What the invariant says of one task, and that a failure is counted.
LEMMA AtOne ==
  ASSUME IInv, NEW p \in Process
  PROVE  /\ at[p] \in Places /\ job[p] \in Job /\ Stands(p, at[p], job[p])
         /\ job[p].at \in {"recheck", "acknowledge"} => job[p].accepted \subseteq events
         /\ failures \in 0..MaxFailures /\ events \subseteq Article
BY DEF IInv, TypeOK, Jobs, IdleIsNoJob, LoadedFirst, Stands, Places

LEMMA FailingCounts ==
  ASSUME OutboxAssumption, IInv, NEW p \in Process, Failing(p)
  PROVE  FailTask(p) /\ failures' \in 0..MaxFailures
BY DEF OutboxAssumption, IInv, TypeOK, Failing
-----------------------------------------------------------------------------
(* The actions                                                             *)

LEMMA StartWent ==
  ASSUME IInv, NEW p \in Process, Start(p) PROVE Went(p) /\ Treats(p)
<1>1. /\ at[p] = "off" /\ job[p] \in Job /\ Stands(p, at[p], job[p])
      /\ job[p].at \in {"recheck", "acknowledge"} => job[p].accepted \subseteq events
      /\ failures \in 0..MaxFailures /\ events \subseteq Article
  BY AtOne DEF Start
<1>2. Stands(p, "work", job[p])
  BY <1>1 DEF Stands, Places
<1>3. Moves(p, "work") /\ job' = job /\ failures' = failures /\ guard' = guard /\ events' = events
  BY DEF Start
<1>4. Went(p)
  BY <1>1, <1>2, <1>3, StandsWent
<1> QED BY <1>4 DEF Start, Treats

LEMMA FailActionWent ==
  ASSUME OutboxAssumption, IInv, NEW p \in Process, Fail(p) PROVE Went(p) /\ Treats(p)
<1>1. Failing(p) /\ row' = row /\ by' = by /\ events' = events /\ guard' = guard
  BY DEF Fail
<1>2. FailTask(p) /\ failures' \in 0..MaxFailures
  BY <1>1, FailingCounts
<1>3. events \subseteq Article
  BY AtOne
<1>4. Went(p)
  BY <1>1, <1>2, <1>3, FailWent
<1> QED BY <1>1, <1>4 DEF Treats

LEMMA AcceptWent ==
  ASSUME IInv, NEW p \in Process, NEW a \in Article, Accept(p, a) PROVE Went(p) /\ Treats(p)
<1>1. /\ at[p] = "work" /\ job[p] \in Job /\ Stands(p, at[p], job[p])
      /\ job[p].at \in {"recheck", "acknowledge"} => job[p].accepted \subseteq events
      /\ failures \in 0..MaxFailures /\ events \subseteq Article
  BY AtOne DEF Accept
<1>2. at' = at /\ job' = job /\ failures' = failures /\ guard' = guard /\ events' = events
  BY DEF Accept
<1>3. Went(p)
  BY <1>1, <1>2, StandsWent
<1>4. Accepts(p)
  BY <1>1 DEF Accept, Accepts
<1> QED BY <1>3, <1>4 DEF Treats

\* What export_pending reads is a job.
LEMMA ReadJob ==
  ASSUME NEW p \in Process, NEW renew \in BOOLEAN, Read(p, renew)
  PROVE  \E j \in Job : Set(p, j) /\ j.at = "read"
<1>1. PICK records \in SUBSET Pending \ {{}} : \E accepted \in SUBSET records \ {{}} :
        Set(p, [at |-> "read", read |-> records, accepted |-> accepted, renew |-> renew])
  BY DEF Read
<1>2. PICK accepted \in SUBSET records \ {{}} :
        Set(p, [at |-> "read", read |-> records, accepted |-> accepted, renew |-> renew])
  BY <1>1
<1>3. records \subseteq Article /\ accepted \subseteq Article
  BY DEF Pending
<1>4. [at |-> "read", read |-> records, accepted |-> accepted, renew |-> renew] \in Job
  BY <1>3 DEF Job
<1> QED BY <1>2, <1>4

\* A task that reads the outbox stays where it is.
LEMMA ReadWent ==
  ASSUME IInv, NEW p \in Process, NEW renew \in BOOLEAN, Read(p, renew), at[p] \in {"work", "drain"},
         UNCHANGED <<row, by, events, guard, at, failures>>
  PROVE  Went(p) /\ Treats(p)
<1>1. failures \in 0..MaxFailures /\ events \subseteq Article
  BY AtOne
<1>2. PICK j \in Job : Set(p, j) /\ j.at = "read"
  BY ReadJob
<1>3. Stands(p, at[p], j) /\ j.at \notin {"recheck", "acknowledge"} /\ at[p] # "finished"
  BY <1>2 DEF Stands, Places
<1>4. Went(p)
  BY <1>1, <1>2, <1>3, StandsWent
<1> QED BY <1>4 DEF Treats

LEMMA BackgroundWent ==
  ASSUME IInv, NEW p \in Process, Background(p) PROVE Went(p) /\ Treats(p)
<1>1. Read(p, FALSE) /\ at[p] = "work" /\ UNCHANGED <<row, by, events, guard, at, failures>>
  BY DEF Background
<1>2. FALSE \in BOOLEAN
  OBVIOUS
<1> QED BY <1>1, <1>2, ReadWent

LEMMA ExportLastWent ==
  ASSUME IInv, NEW p \in Process, ExportLast(p) PROVE Went(p) /\ Treats(p)
<1>1. Read(p, TRUE) /\ at[p] = "drain" /\ UNCHANGED <<row, by, events, guard, at, failures>>
  BY DEF ExportLast
<1>2. TRUE \in BOOLEAN
  OBVIOUS
<1> QED BY <1>1, <1>2, ReadWent

\* A job that goes on is a job, with what it has accepted.
LEMMA NextStage ==
  ASSUME IInv, NEW p \in Process, job[p].at # "idle", NEW to \in {"load", "recheck", "acknowledge"}
  PROVE  LET j == [job[p] EXCEPT !.at = to]
         IN Stands(p, at[p], j) /\ j.at = to /\ j.accepted = job[p].accepted /\ at[p] # "finished"
<1>1. at[p] \in Places /\ job[p] \in Job /\ Stands(p, at[p], job[p])
  BY AtOne
<1>2. at[p] \notin {"off", "finished"}
  BY <1>1, NoJobType DEF Stands
<1>3. [job[p] EXCEPT !.at = to] \in Job /\ [job[p] EXCEPT !.at = to].at = to
      /\ [job[p] EXCEPT !.at = to].accepted = job[p].accepted
  BY <1>1 DEF Job
<1> QED BY <1>1, <1>2, <1>3 DEF Stands
LEMMA CheckWent ==
  ASSUME IInv, NEW p \in Process, Check(p) PROVE Went(p) /\ Treats(p)
<1> DEFINE j == [job[p] EXCEPT !.at = "load"]
<1>1. failures \in 0..MaxFailures /\ events \subseteq Article
  BY AtOne
<1>2. job[p].at = "read" /\ UNCHANGED <<row, by, events, guard, failures>>
  BY DEF Check
<1>3. Stands(p, at[p], j) /\ j.at = "load" /\ at[p] # "finished"
  BY <1>2, NextStage
<1> HIDE DEF j
<1>4. Went(p)
  <2>1. CASE Set(p, j) /\ at' = at
    BY <1>1, <1>2, <1>3, <2>1, StandsWent
  <2>2. CASE FailTask(p)
    BY <1>1, <1>2, <2>2, FailWent
  <2> QED BY <2>1, <2>2 DEF Check, j
<1> QED BY <1>2, <1>4 DEF Treats

LEMMA RecheckWent ==
  ASSUME IInv, NEW p \in Process, Recheck(p) PROVE Went(p) /\ Treats(p)
<1> DEFINE j == [job[p] EXCEPT !.at = "acknowledge"]
<1>1. /\ failures \in 0..MaxFailures /\ events \subseteq Article
      /\ job[p].at \in {"recheck", "acknowledge"} => job[p].accepted \subseteq events
  BY AtOne
<1>2. job[p].at = "recheck" /\ UNCHANGED <<row, by, events, guard, failures>>
  BY DEF Recheck
<1>3. Stands(p, at[p], j) /\ j.at = "acknowledge" /\ j.accepted = job[p].accepted /\ at[p] # "finished"
  BY <1>2, NextStage
<1> HIDE DEF j
<1>4. Went(p)
  <2>1. CASE Set(p, j) /\ at' = at
    BY <1>1, <1>2, <1>3, <2>1, StandsWent
  <2>2. CASE FailTask(p)
    BY <1>1, <1>2, <2>2, FailWent
  <2> QED BY <2>1, <2>2 DEF Recheck, j
<1> QED BY <1>2, <1>4 DEF Treats

\* A load that succeeds is remembered with the job; one that fails ends the task, done or not.
LEMMA LoadWent ==
  ASSUME OutboxAssumption, IInv, NEW p \in Process, Load(p) PROVE Went(p) /\ Treats(p)
<1> DEFINE to == IF job[p].renew THEN "acknowledge" ELSE "recheck"
           j == [job[p] EXCEPT !.at = to]
<1>1. failures \in 0..MaxFailures /\ events \subseteq Article /\ job[p] \in Job
  BY AtOne
<1>2. job[p].accepted \subseteq Article
  BY <1>1 DEF Job
<1>3. job[p].at = "load" /\ row' = row /\ by' = by /\ guard' = guard
  BY DEF Load
<1>4. to \in {"load", "recheck", "acknowledge"}
  OBVIOUS
<1> HIDE DEF to
<1>5. Stands(p, at[p], j) /\ j.at = to /\ j.accepted = job[p].accepted /\ at[p] # "finished"
  BY <1>3, <1>4, NextStage
<1> HIDE DEF j
<1>6. Went(p)
  <2>1. CASE events' = events \cup job[p].accepted /\ Set(p, j) /\ at' = at /\ failures' = failures
    <3>1. events \subseteq events' /\ events' \subseteq Article /\ j.accepted \subseteq events'
      BY <1>1, <1>2, <1>5, <2>1
    <3> QED BY <1>1, <1>3, <1>5, <2>1, <3>1, StandsWent
  <2>2. CASE events' \in {events, events \cup job[p].accepted} /\ Failing(p)
    <3>1. events \subseteq events' /\ events' \subseteq Article
      BY <1>1, <1>2, <2>2
    <3>2. FailTask(p) /\ failures' \in 0..MaxFailures
      BY <2>2, FailingCounts
    <3> QED BY <1>3, <3>1, <3>2, FailWent
  <2> QED BY <2>1, <2>2 DEF Load, j, to
<1> QED BY <1>3, <1>6 DEF Treats

\* Whether it succeeds or fails midway, an acknowledgement concerns loaded results.
LEMMA AcknowledgeWent ==
  ASSUME OutboxAssumption, IInv, NEW p \in Process, Acknowledge(p) PROVE Went(p) /\ Treats(p)
<1>1. /\ failures \in 0..MaxFailures /\ events \subseteq Article /\ at[p] \in Places
      /\ Stands(p, at[p], job[p]) /\ job[p].accepted \subseteq events
  BY AtOne DEF Acknowledge
<1>2. job[p].at = "acknowledge" /\ by' = by /\ events' = events /\ guard' = guard
  BY DEF Acknowledge
<1>3. at[p] \notin {"off", "finished"}
  BY <1>1, <1>2, NoJobType DEF Stands
<1>4. CASE Mark(job[p].accepted) /\ Set(p, NoJob) /\ at' = at /\ failures' = failures
  <2>1. Stands(p, at[p], NoJob) /\ NoJob.at \notin {"recheck", "acknowledge"}
    BY <1>1, NoJobType DEF Stands
  <2>2. Went(p)
    BY <1>1, <1>2, <1>3, <1>4, <2>1, StandsWent
  <2>3. Acknowledges
    BY <1>1, <1>2, <1>4 DEF Acknowledges
  <2> QED BY <2>2, <2>3 DEF Treats
<1>5. CASE \E A \in SUBSET job[p].accepted : Mark(A) /\ Failing(p)
  <2>1. FailTask(p) /\ failures' \in 0..MaxFailures
    BY <1>5, FailingCounts
  <2>2. Went(p)
    BY <1>1, <1>2, <2>1, FailWent
  <2>3. Acknowledges
    BY <1>1, <1>2, <1>5 DEF Acknowledges
  <2> QED BY <2>2, <2>3 DEF Treats
<1> QED BY <1>4, <1>5 DEF Acknowledge, Acknowledged

\* A task that moves while it has no job, or fails.
LEMMA LeaveWent ==
  ASSUME IInv, NEW p \in Process, job[p].at = "idle", NEW to \in Places,
         (Moves(p, to) /\ UNCHANGED job) \/ FailTask(p), to = "finished" => Pending = {},
         UNCHANGED <<row, by, events, guard, failures>>
  PROVE  Went(p) /\ Treats(p)
<1>1. /\ failures \in 0..MaxFailures /\ events \subseteq Article /\ job[p] \in Job
      /\ Stands(p, at[p], job[p])
  BY AtOne
<1>2. Stands(p, to, job[p])
  BY <1>1 DEF Stands
<1>3. Went(p)
  <2>1. CASE Moves(p, to) /\ job' = job
    BY <1>1, <1>2, <2>1, StandsWent
  <2>2. CASE FailTask(p)
    BY <1>1, <2>2, FailWent
  <2> QED BY <2>1, <2>2
<1> QED BY <1>3 DEF Treats

LEMMA DrainWent ==
  ASSUME IInv, NEW p \in Process, Drain(p) PROVE Went(p) /\ Treats(p)
<1>1. "drain" \in Places
  BY DEF Places
<1>2. /\ job[p].at = "idle" /\ UNCHANGED <<row, by, events, guard, failures>>
      /\ (Moves(p, "drain") /\ UNCHANGED job) \/ FailTask(p)
  BY DEF Drain
<1> QED BY <1>1, <1>2, LeaveWent

LEMMA FinishWent ==
  ASSUME IInv, NEW p \in Process, Finish(p) PROVE Went(p) /\ Treats(p)
<1>1. "finished" \in Places
  BY DEF Places
<1>2. /\ job[p].at = "idle" /\ Pending = {} /\ UNCHANGED <<row, by, events, guard, failures>>
      /\ (Moves(p, "finished") /\ UNCHANGED job) \/ FailTask(p)
  BY DEF Finish, Emptied
<1> QED BY <1>1, <1>2, LeaveWent

-----------------------------------------------------------------------------
(* The invariant                                                           *)

LEMMA WentTyped ==
  ASSUME IInv, NEW p \in Process, Went(p), Treats(p), OutboxAssumption PROVE TypeOK'
<1>1. TypeOK
  BY DEF IInv
<1>2. p[1] \in Cohort
  BY DEF Process
<1>3. row' \in [Article -> {"open", "pending", "exported"}] /\ by' \in [Article -> Cohort \cup {Nobody}]
  <2>1. CASE row' = row /\ by' = by
    BY <1>1, <2>1 DEF TypeOK
  <2>2. CASE Acknowledges
    BY <1>1, <2>2 DEF TypeOK, Acknowledges, Mark
  <2>3. CASE Accepts(p)
    BY <1>1, <1>2, <2>3 DEF TypeOK, Accepts
  <2> QED BY <2>1, <2>2, <2>3 DEF Treats
<1>4. \A q \in Process : at'[q] \in {"off", "finished"} => job'[q] = NoJob
  BY <1>1 DEF TypeOK, Went
<1> QED BY <1>3, <1>4 DEF TypeOK, Went, Places

LEMMA WentJobs ==
  ASSUME IInv, NEW p \in Process, Went(p) PROVE Jobs'
<1>1. Jobs
  BY DEF IInv
<1>2. \A q \in Process : job'[q].at = "idle" => job'[q] = NoJob
  BY <1>1 DEF Jobs, IdleIsNoJob, Went
<1>3. \A q \in Process : job'[q].at \in {"recheck", "acknowledge"} => job'[q].accepted \subseteq events'
  BY <1>1 DEF Jobs, LoadedFirst, Went
<1>4. IdleIsNoJob'
  BY <1>2 DEF IdleIsNoJob, Process, NoJob
<1>5. LoadedFirst'
  BY <1>3 DEF LoadedFirst, Process
<1> QED BY <1>4, <1>5 DEF Jobs

\* Nobody ends beside a result that waits.
LEMMA WentWaiting ==
  ASSUME IInv, NEW p \in Process, Went(p), Treats(p) PROVE WaitingHasTask'
<1> SUFFICES ASSUME NEW a \in Article, row'[a] = "pending"
             PROVE  \E t \in Task : at'[<<by'[a], t>>] # "finished"
  BY DEF WaitingHasTask
<1>1. TypeOK /\ Rows
  BY DEF IInv
<1>2. CASE row[a] = "pending" /\ by'[a] = by[a]
  <2>1. PICK t \in Task : at[<<by[a], t>>] # "finished"
    BY <1>1, <1>2 DEF Rows, WaitingHasTask
  <2>2. Pending # {}
    BY <1>2 DEF Pending
  <2>3. by[a] \in Cohort
    BY <1>1, <1>2 DEF TypeOK, Rows, AcceptedBySome
  <2>4. <<by[a], t>> \in Process
    BY <2>3 DEF Process
  <2>5. at'[<<by[a], t>>] # "finished"
    BY <2>1, <2>2, <2>4 DEF Went
  <2> QED BY <1>2, <2>5
<1>3. CASE by'[a] = p[1] /\ at'[p] # "finished"
  <2>1. PICK t \in Task : p = <<p[1], t>>
    BY DEF Process
  <2> QED BY <1>3, <2>1
<1>4. (row[a] = "pending" /\ by'[a] = by[a]) \/ (by'[a] = p[1] /\ at'[p] # "finished")
  <2>1. CASE row' = row /\ by' = by
    BY <2>1
  <2>2. CASE Acknowledges
    BY <2>2 DEF Acknowledges, Mark
  <2>3. CASE Accepts(p)
    BY <1>1, <2>3 DEF Accepts, TypeOK
  <2> QED BY <2>1, <2>2, <2>3 DEF Treats
<1> QED BY <1>2, <1>3, <1>4

LEMMA WentRows ==
  ASSUME OutboxAssumption, IInv, NEW p \in Process, Went(p), Treats(p) PROVE Rows'
<1>1. TypeOK /\ AcceptedBySome /\ AcknowledgedIsLoaded
  BY DEF IInv, Rows
<1>2. p[1] \in Cohort /\ p[1] # Nobody /\ events \subseteq events'
  BY DEF Process, OutboxAssumption, Went
<1>3. AcceptedBySome'
  <2>1. CASE row' = row /\ by' = by
    BY <1>1, <2>1 DEF AcceptedBySome
  <2>2. CASE Acknowledges
    BY <1>1, <2>2 DEF AcceptedBySome, Acknowledges, Mark
  <2>3. CASE Accepts(p)
    BY <1>1, <1>2, <2>3 DEF AcceptedBySome, Accepts, TypeOK
  <2> QED BY <2>1, <2>2, <2>3 DEF Treats
<1>4. AcknowledgedIsLoaded'
  <2>1. CASE row' = row /\ by' = by
    BY <1>1, <1>2, <2>1 DEF AcknowledgedIsLoaded
  <2>2. CASE Acknowledges
    BY <1>1, <1>2, <2>2 DEF AcknowledgedIsLoaded, Acknowledges, Mark
  <2>3. CASE Accepts(p)
    BY <1>1, <1>2, <2>3 DEF AcknowledgedIsLoaded, Accepts, TypeOK
  <2> QED BY <2>1, <2>2, <2>3 DEF Treats
<1>5. WaitingHasTask'
  BY WentWaiting
<1> QED BY <1>3, <1>4, <1>5 DEF Rows

LEMMA WentKeeps ==
  ASSUME OutboxAssumption, IInv, NEW p \in Process, Went(p) /\ Treats(p) PROVE IInv'
BY WentTyped, WentJobs, WentRows DEF IInv

LEMMA HandoverKeeps == ASSUME IInv, Handover PROVE IInv'
<1>1. guard' \in Cohort /\ UNCHANGED <<row, by, events, at, job, failures>>
  BY DEF Handover
<1>2. TypeOK'
  BY <1>1 DEF IInv, TypeOK
<1>3. Jobs'
  BY <1>1 DEF IInv, Jobs, IdleIsNoJob, LoadedFirst, Process
<1>4. Rows'
  BY <1>1 DEF IInv, Rows, AcceptedBySome, AcknowledgedIsLoaded, WaitingHasTask
<1> QED BY <1>2, <1>3, <1>4 DEF IInv

LEMMA StutterKeeps == ASSUME IInv, UNCHANGED vars PROVE IInv'
<1>1. TypeOK'
  BY DEF IInv, TypeOK, vars
<1>2. Jobs'
  BY DEF IInv, Jobs, IdleIsNoJob, LoadedFirst, Process, vars
<1>3. Rows'
  BY DEF IInv, Rows, AcceptedBySome, AcknowledgedIsLoaded, WaitingHasTask, vars
<1> QED BY <1>1, <1>2, <1>3 DEF IInv

LEMMA StepInvariant == ASSUME OutboxAssumption, IInv, [Next]_vars PROVE IInv'
<1>1. CASE \E p \in Process : Start(p)
  BY <1>1, StartWent, WentKeeps
<1>2. CASE \E p \in Process : Fail(p)
  BY <1>2, FailActionWent, WentKeeps
<1>3. CASE \E p \in Process : Background(p)
  BY <1>3, BackgroundWent, WentKeeps
<1>4. CASE \E p \in Process : Check(p)
  BY <1>4, CheckWent, WentKeeps
<1>5. CASE \E p \in Process : Load(p)
  BY <1>5, LoadWent, WentKeeps
<1>6. CASE \E p \in Process : Recheck(p)
  BY <1>6, RecheckWent, WentKeeps
<1>7. CASE \E p \in Process : Acknowledge(p)
  BY <1>7, AcknowledgeWent, WentKeeps
<1>8. CASE \E p \in Process : Drain(p)
  BY <1>8, DrainWent, WentKeeps
<1>9. CASE \E p \in Process : ExportLast(p)
  BY <1>9, ExportLastWent, WentKeeps
<1>10. CASE \E p \in Process : Finish(p)
  BY <1>10, FinishWent, WentKeeps
<1>11. CASE \E p \in Process, a \in Article : Accept(p, a)
  BY <1>11, AcceptWent, WentKeeps
<1>12. CASE Handover
  BY <1>12, HandoverKeeps
<1>13. CASE UNCHANGED vars
  BY <1>13, StutterKeeps
<1> QED BY <1>1, <1>2, <1>3, <1>4, <1>5, <1>6, <1>7, <1>8, <1>9, <1>10, <1>11, <1>12, <1>13 DEF Next, Export

LEMMA Invariant == ASSUME OutboxAssumption PROVE Spec => []IInv
<1>1. Init => IInv
  BY InitInvariant
<1>2. IInv /\ [Next]_vars => IInv'
  BY StepInvariant
<1> QED BY <1>1, <1>2, PTL DEF Spec

-----------------------------------------------------------------------------
(* The theorems                                                            *)

\* export_results: the types; an export thread never outlives its task.
THEOREM TypeCorrect == ASSUME OutboxAssumption PROVE Spec => []TypeOK
<1>1. IInv => TypeOK
  BY DEF IInv
<1> QED BY <1>1, Invariant, PTL

\* export_results: a result is acknowledged only after it has been loaded, whoever loads it,
\* fails or repeats.
THEOREM LoadedBeforeAcknowledged == ASSUME OutboxAssumption PROVE Spec => []AcknowledgedIsLoaded
<1>1. IInv => AcknowledgedIsLoaded
  BY DEF IInv, Rows
<1> QED BY <1>1, Invariant, PTL

\* run: when all tasks of a cohort have ended without a failure, every result the cohort
\* accepted is acknowledged, although each task looks at the outbox on its own.
THEOREM NothingLeftBehind == ASSUME OutboxAssumption PROVE Spec => []FinishedMeansExported
<1>1. ASSUME IInv, OutboxAssumption PROVE FinishedMeansExported
  <2> SUFFICES ASSUME NEW c \in Cohort, \A t \in Task : at[<<c, t>>] = "finished",
                      NEW a \in Article, by[a] = c
               PROVE  row[a] = "exported"
    BY DEF FinishedMeansExported
  <2>1. row[a] \in {"open", "pending", "exported"}
    BY <1>1 DEF IInv, TypeOK
  <2>2. row[a] # "open"
    BY <1>1 DEF IInv, Rows, AcceptedBySome, OutboxAssumption
  <2>3. row[a] # "pending"
    BY <1>1 DEF IInv, Rows, WaitingHasTask
  <2> QED BY <2>1, <2>2, <2>3
<1>2. IInv => FinishedMeansExported
  BY <1>1
<1> QED BY <1>2, Invariant, PTL
-----------------------------------------------------------------------------
(* The migration                                                           *)

Steps == {"idle", "list", "proof", "claim", "replay", "recheck", "snapshot", "public", "lease", "delete",
          "finish"}
Call == [at : Steps, progress : Nat, inventory : SUBSET Object, proof : Nat, snapshot : Nat, lease : Nat]
Import == [at : {"idle", "check", "read"}, progress : Nat, processed : Nat]

MTypes ==
  /\ Migration!TypeOK /\ op \in [Operator -> Call] /\ import \in Import
  /\ launched \in BOOLEAN /\ lease.gen = IF launched THEN 2 ELSE 1

\* A call of recover has listed objects that stay, has loaded them before it goes on, and
\* finishes when the old lease is gone.
Loaded == {"recheck", "snapshot", "public", "lease", "delete", "finish"}
Good(c) ==
  /\ c.inventory \subseteq objects /\ (c.at \in Loaded => c.inventory \subseteq landed)
  /\ c.at = "finish" => lease.owner # "old"
Calls == \A o \in Operator : Good(op[o])

\* A finished proof is true, and counts the articles of its inventory.
Proved ==
  /\ Migration!ReadyIsReplayed
  /\ proof.state = "ready" => proof.processed = Migration!Count(proof.inventory)

\* What the importer compares its count with has been loaded.
Compared ==
  import.at = "read" => \E O \in SUBSET landed : Migration!Count(O) = import.processed

MInv == MTypes /\ Calls /\ Proved /\ Compared /\ Migration!ImportedIsExported

\* What the instance counts is what this module counts.
LEMMA CountsAgree ==
  \A S : Migration!Cardinality(S) = Cardinality(S) /\ (Migration!IsFiniteSet(S) <=> IsFiniteSet(S))
BY DEF Migration!Cardinality, Cardinality, Migration!IsFiniteSet, IsFiniteSet

LEMMA ManifestFinite == IsFiniteSet(Manifest) /\ Holds \in [Object -> SUBSET Manifest]
<1>1. Migration!IsFiniteSet(Manifest) /\ Holds \in [Object -> SUBSET Manifest]
  BY StoreAssumption DEF Migration!MigrationAssumption
<1>2. IsFiniteSet(Manifest)
  BY <1>1 DEF Migration!IsFiniteSet, IsFiniteSet
<1> QED BY <1>1, <1>2

\* The articles of some objects are counted in full, and equal counts of growing sets mean
\* that nothing was added.
LEMMA CountTypes ==
  ASSUME NEW O \in SUBSET Object
  PROVE  /\ Migration!Count(O) \in 0..Cardinality(Manifest)
         /\ Migration!ArticlesOf(O) \subseteq Manifest
<1>1. IsFiniteSet(Manifest) /\ Holds \in [Object -> SUBSET Manifest]
  BY ManifestFinite
<1>2. Migration!ArticlesOf(O) \subseteq Manifest
  BY <1>1 DEF Migration!ArticlesOf
<1>3. /\ Cardinality(Migration!ArticlesOf(O)) \in Nat /\ Cardinality(Manifest) \in Nat
      /\ Cardinality(Migration!ArticlesOf(O)) <= Cardinality(Manifest)
  BY <1>1, <1>2, FS_Subset, FS_CardinalityType
<1>4. Migration!Count(O) = Cardinality(Migration!ArticlesOf(O))
  BY CountsAgree DEF Migration!Count
<1> QED BY <1>2, <1>3, <1>4

LEMMA NothingAdded ==
  ASSUME NEW P \in SUBSET Object, NEW O \in SUBSET P, Migration!Count(O) = Migration!Count(P)
  PROVE  Migration!ArticlesOf(P) = Migration!ArticlesOf(O)
<1>1. Migration!ArticlesOf(O) \subseteq Migration!ArticlesOf(P)
  BY DEF Migration!ArticlesOf
<1>2. IsFiniteSet(Manifest) /\ Migration!ArticlesOf(P) \subseteq Manifest
  BY CountTypes, ManifestFinite
<1>3. IsFiniteSet(Migration!ArticlesOf(P))
  BY <1>2, FS_Subset
<1>4. Cardinality(Migration!ArticlesOf(O)) = Cardinality(Migration!ArticlesOf(P))
  BY CountsAgree DEF Migration!Count
<1> QED BY <1>1, <1>3, <1>4, FS_Subset

LEMMA NoneIsNew == None # "old"
BY StoreAssumption DEF Migration!MigrationAssumption

LEMMA MigrationInitially == Migration!Init => MInv
<1> SUFFICES ASSUME Migration!Init PROVE MInv
  OBVIOUS
<1> USE DEF Migration!Init, Migration!NoCall, Migration!NoImport, Migration!NoProof
<1>1. Cardinality(Manifest) \in Nat
  BY ManifestFinite, FS_CardinalityType
<1>2. Migration!TypeOK
  <2>1. progress = [state |-> "running", execution |-> "old", gen |-> 1, processed |-> 0]
    OBVIOUS
  <2>2. proof = [state |-> "none", gen |-> 0, inventory |-> {}, processed |-> 0, snapshot |-> 0]
    OBVIOUS
  <2>3. lease = [owner |-> "old", gen |-> 1]
    OBVIOUS
  <2>4. 0 \in 0..Cardinality(Manifest)
    BY <1>1
  <2> QED BY <2>1, <2>2, <2>3, <2>4, CountsAgree DEF Migration!TypeOK
<1>3. MTypes
  BY <1>2 DEF MTypes, Call, Import, Steps
<1> QED BY <1>3 DEF MInv, Calls, Good, Loaded, Proved, Compared, Migration!ReadyIsReplayed, Migration!ImportedIsExported

\* Objects and loads are only added, and the old lease does not come back.
Grows ==
  /\ objects \subseteq objects' /\ landed \subseteq landed'
  /\ lease.owner # "old" => lease'.owner # "old"

\* One call goes on.
LEMMA CallsGoOn ==
  ASSUME MInv, Grows, NEW o \in Operator, NEW c \in Call, op' = [op EXCEPT ![o] = c],
         c.inventory \subseteq objects', c.at \in Loaded => c.inventory \subseteq landed',
         c.at = "finish" => lease'.owner # "old"
  PROVE  op' \in [Operator -> Call] /\ Calls'
<1>1. op \in [Operator -> Call]
  BY DEF MInv, MTypes
<1>2. op'[o] = c /\ op' \in [Operator -> Call] /\ \A p \in Operator \ {o} : op'[p] = op[p]
  BY <1>1
<1>3. ASSUME NEW p \in Operator PROVE Good(op[p])'
  <2>1. CASE p = o
    BY <2>1, <1>2 DEF Good
  <2>2. CASE p # o
    BY <2>2, <1>2 DEF MInv, Calls, Good, Grows
  <2> QED BY <2>1, <2>2
<1> QED BY <1>2, <1>3 DEF Calls

\* No call goes on.
LEMMA CallsStay ==
  ASSUME MInv, Grows, UNCHANGED op
  PROVE  op' \in [Operator -> Call] /\ Calls'
BY DEF MInv, MTypes, Calls, Good, Grows

LEMMA Idle == Migration!NoCall \in Call /\ Migration!NoCall.inventory = {} /\ Migration!NoCall.at = "idle"
BY DEF Migration!NoCall, Call, Steps

\* A step of one call that writes nothing.
LEMMA CallWrites ==
  ASSUME MInv, NEW o \in Operator, NEW c \in Call, op' = [op EXCEPT ![o] = c],
         UNCHANGED <<objects, landed, progress, public, proof, lease, launched, import, imported>>,
         Good(c)
  PROVE  MInv'
<1>1. Grows
  BY DEF Grows
<1>2. op' \in [Operator -> Call] /\ Calls'
  BY <1>1, CallsGoOn DEF Good
<1>3. MTypes'
  BY <1>2 DEF MInv, MTypes, Migration!TypeOK
<1> QED BY <1>2, <1>3 DEF MInv, Proved, Compared, Migration!ReadyIsReplayed, Migration!ImportedIsExported

LEMMA ReadingKeeps ==
  ASSUME MInv, NEW o \in Operator,
         \/ Migration!Begin(o) \/ Migration!List(o) \/ Migration!ReadProof(o) \/ Migration!Recheck(o)
         \/ Migration!WritePublic(o) \/ Migration!ReadLease(o) \/ Migration!Crash(o)
  PROVE  MInv'
<1> USE DEF Migration!Go, Migration!At, Migration!Goes, Migration!Refuse, Migration!Durable,
        Migration!Importing
<1>1. op[o] \in Call /\ Good(op[o]) /\ Migration!TypeOK
  BY DEF MInv, MTypes, Calls
<1>2. progress.gen \in Nat /\ proof.gen \in Nat /\ lease.gen \in Nat /\ objects \subseteq Object
  BY <1>1 DEF Migration!TypeOK
<1>3. UNCHANGED <<objects, landed, progress, public, proof, lease, launched, import, imported>>
  BY DEF Migration!Begin, Migration!List, Migration!ReadProof, Migration!Recheck,
         Migration!WritePublic, Migration!ReadLease, Migration!Crash, Migration!World
<1>4. Good(Migration!NoCall)
  BY Idle DEF Good, Loaded
<1>5. \E c \in Call : op' = [op EXCEPT ![o] = c] /\ Good(c)
  <2>1. CASE Migration!Begin(o)
    <3> DEFINE c == [Migration!NoCall EXCEPT !.at = "list", !.progress = progress.gen]
    <3>1. c \in Call /\ c.inventory = {} /\ c.at = "list"
      BY <1>2, Idle DEF Migration!NoCall, Call, Steps
    <3>2. Good(c)
      BY <3>1 DEF Good, Loaded
    <3> HIDE DEF c
    <3>3. op' = [op EXCEPT ![o] = c] \/ op' = [op EXCEPT ![o] = Migration!NoCall]
      BY <2>1 DEF Migration!Begin, c
    <3> QED BY <3>1, <3>2, <3>3, <1>4, Idle
  <2>2. CASE Migration!List(o)
    <3> DEFINE c == [op[o] EXCEPT !.at = "proof", !.inventory = objects]
    <3>1. c \in Call /\ c.inventory = objects /\ c.at = "proof"
      BY <1>1, <1>2 DEF Call, Steps
    <3>2. Good(c)
      BY <3>1 DEF Good, Loaded
    <3> QED BY <2>2, <3>1, <3>2 DEF Migration!List
  <2>3. CASE Migration!ReadProof(o)
    <3> DEFINE c == [op[o] EXCEPT !.at = "claim", !.proof = proof.gen]
    <3>1. c \in Call /\ c.inventory = op[o].inventory /\ c.at = "claim"
      BY <1>1, <1>2 DEF Call, Steps
    <3>2. Good(c)
      BY <3>1, <1>1 DEF Good, Loaded
    <3> HIDE DEF c
    <3>3. op' = [op EXCEPT ![o] = c] \/ op' = [op EXCEPT ![o] = Migration!NoCall]
      BY <2>3 DEF Migration!ReadProof, c
    <3> QED BY <3>1, <3>2, <3>3, <1>4, Idle
  <2>4. CASE Migration!Recheck(o)
    <3> DEFINE c == [op[o] EXCEPT !.at = "snapshot"]
    <3>1. c \in Call /\ c.inventory = op[o].inventory /\ c.at = "snapshot"
      BY <1>1 DEF Call, Steps
    <3>2. op[o].at = "recheck"
      BY <2>4 DEF Migration!Recheck
    <3>3. Good(c)
      BY <3>1, <3>2, <1>1 DEF Good, Loaded
    <3> HIDE DEF c
    <3>4. op' = [op EXCEPT ![o] = c] \/ op' = [op EXCEPT ![o] = Migration!NoCall]
      BY <2>4 DEF Migration!Recheck, c
    <3> QED BY <3>1, <3>3, <3>4, <1>4, Idle
  <2>5. CASE Migration!WritePublic(o)
    <3> DEFINE c == [op[o] EXCEPT !.at = "lease"]
    <3>1. c \in Call /\ c.inventory = op[o].inventory /\ c.at = "lease"
      BY <1>1 DEF Call, Steps
    <3>2. op[o].at = "public"
      BY <2>5 DEF Migration!WritePublic
    <3>3. Good(c)
      BY <3>1, <3>2, <1>1 DEF Good, Loaded
    <3> HIDE DEF c
    <3>4. op' = [op EXCEPT ![o] = c] \/ op' = [op EXCEPT ![o] = Migration!NoCall]
      BY <2>5 DEF Migration!WritePublic, c
    <3> QED BY <3>1, <3>3, <3>4, <1>4, Idle
  <2>6. CASE Migration!ReadLease(o)
    <3> DEFINE c(to) == [op[o] EXCEPT !.at = to, !.lease = lease.gen]
    <3>1. \A to \in {"finish", "delete"} : c(to) \in Call /\ c(to).inventory = op[o].inventory /\ c(to).at = to
      BY <1>1, <1>2 DEF Call, Steps
    <3>2. op[o].at = "lease"
      BY <2>6 DEF Migration!ReadLease
    <3>3. Good(c("delete")) /\ (lease.owner = None => Good(c("finish")))
      BY <3>1, <3>2, <1>1, NoneIsNew DEF Good, Loaded
    <3>4. \/ op' = [op EXCEPT ![o] = c("delete")] \/ op' = [op EXCEPT ![o] = Migration!NoCall]
          \/ op' = [op EXCEPT ![o] = c("finish")] /\ lease.owner = None
      BY <2>6 DEF Migration!ReadLease
    <3> HIDE DEF c
    <3> QED BY <3>1, <3>3, <3>4, <1>4, Idle
  <2>7. CASE Migration!Crash(o)
    BY <2>7, <1>4, Idle DEF Migration!Crash
  <2> QED BY <2>1, <2>2, <2>3, <2>4, <2>5, <2>6, <2>7
<1> QED BY <1>3, <1>5, CallWrites

LEMMA WritingKeeps ==
  ASSUME MInv, NEW o \in Operator,
         \/ Migration!Replay(o) \/ Migration!ReplayFails(o) \/ Migration!WriteSnapshot(o)
         \/ Migration!DeleteLease(o)
  PROVE  MInv'
<1> USE DEF Migration!Go, Migration!At, Migration!Goes, Migration!Refuse, Migration!Importing
<1>1. op[o] \in Call /\ Good(op[o]) /\ Migration!TypeOK
  BY DEF MInv, MTypes, Calls
<1>2. UNCHANGED <<objects, public, proof, launched, import, imported>>
  BY DEF Migration!Replay, Migration!ReplayFails, Migration!WriteSnapshot, Migration!DeleteLease,
         Migration!World
<1>3. Good(Migration!NoCall)
  BY Idle DEF Good, Loaded
\* The loads of some more objects are kept by all parts.
<1>4. ASSUME NEW O \in SUBSET op[o].inventory, landed' = landed \cup O, UNCHANGED <<progress, lease>>,
             NEW c \in Call, op' = [op EXCEPT ![o] = c], c.inventory \subseteq objects',
             c.at \in Loaded => c.inventory \subseteq landed', c.at # "finish"
      PROVE  MInv'
  <2>1. Grows
    BY <1>2, <1>4 DEF Grows
  <2>2. op' \in [Operator -> Call] /\ Calls'
    BY <1>4, <2>1, CallsGoOn
  <2>3. landed \subseteq landed' /\ landed' \subseteq objects'
    BY <1>1, <1>2, <1>4 DEF Good, Migration!TypeOK
  <2>4. MTypes'
    BY <1>2, <1>4, <2>2, <2>3 DEF MInv, MTypes, Migration!TypeOK
  <2>5. Proved' /\ Compared'
    BY <1>2, <1>4, <2>3 DEF MInv, Proved, Compared, Migration!ReadyIsReplayed, Migration!Count,
       Migration!ArticlesOf
  <2>6. Migration!ImportedIsExported'
    BY <1>2, <2>3 DEF MInv, Migration!ImportedIsExported, Migration!ArticlesOf
  <2> QED BY <2>2, <2>4, <2>5, <2>6 DEF MInv
<1>5. CASE Migration!Replay(o)
  <2> DEFINE c == [op[o] EXCEPT !.at = "recheck"]
  <2>1. c \in Call /\ c.inventory = op[o].inventory /\ c.at = "recheck"
    BY <1>1 DEF Call, Steps
  <2>2. op' = [op EXCEPT ![o] = c] /\ landed' = landed \cup op[o].inventory /\ UNCHANGED <<progress, lease>>
    BY <1>5 DEF Migration!Replay, Migration!Replays
  <2> HIDE DEF c
  <2>3. c.inventory \subseteq objects' /\ c.inventory \subseteq landed'
    BY <2>1, <2>2, <1>1, <1>2 DEF Good
  <2> QED BY <2>1, <2>2, <2>3, <1>4
<1>6. CASE Migration!ReplayFails(o)
  <2>1. /\ op' = [op EXCEPT ![o] = Migration!NoCall] /\ UNCHANGED <<progress, lease>>
        /\ \E O \in SUBSET op[o].inventory : landed' = landed \cup O
    BY <1>6 DEF Migration!ReplayFails
  <2> QED BY <2>1, <1>4, Idle
<1>7. CASE Migration!WriteSnapshot(o)
  <2>1. UNCHANGED <<landed, lease>> /\ Grows
    BY <1>2, <1>7 DEF Migration!WriteSnapshot, Grows
  <2> DEFINE c == [op[o] EXCEPT !.at = "public", !.snapshot = progress.gen + 1]
  <2>2. c \in Call /\ c.inventory = op[o].inventory /\ c.at = "public"
    <3>1. progress.gen + 1 \in Nat
      BY <1>1 DEF Migration!TypeOK
    <3>2. \A n \in Nat : LET d == [op[o] EXCEPT !.at = "public", !.snapshot = n]
                         IN  d \in Call /\ d.inventory = op[o].inventory /\ d.at = "public"
      BY <1>1 DEF Call, Steps
    <3> QED BY <3>1, <3>2
  <2>3. op[o].at = "snapshot"
    BY <1>7 DEF Migration!WriteSnapshot
  <2>4. Good(c)
    BY <2>2, <2>3, <1>1 DEF Good, Loaded
  <2>5. \/ op' = [op EXCEPT ![o] = c] /\ progress' = Migration!Snapshot(o)
        \/ op' = [op EXCEPT ![o] = Migration!NoCall] /\ progress' = progress
    BY <1>7 DEF Migration!WriteSnapshot
  <2> HIDE DEF c
  <2>6. op' \in [Operator -> Call] /\ Calls'
    BY <2>1, <2>2, <2>4, <2>5, <1>2, <1>3, CallsGoOn, Idle DEF Good
  <2> DEFINE Progresses == [state : {"running", "stopped"}, execution : {"old", "new"}, gen : Nat,
                            processed : 0..Cardinality(Manifest)]
  <2>7. Migration!Snapshot(o) \in Progresses
    <3>1. Migration!Count(op[o].inventory) \in 0..Cardinality(Manifest)
      BY <1>1, CountTypes DEF Call
    <3>2. progress.gen + 1 \in Nat
      BY <1>1 DEF Migration!TypeOK
    <3> QED BY <3>1, <3>2 DEF Migration!Snapshot
  <2>8. progress \in Progresses
    BY <1>1, CountsAgree DEF Migration!TypeOK
  <2>9. progress' \in Progresses
    BY <2>5, <2>7, <2>8
  <2>10. Migration!TypeOK'
    BY <1>1, <1>2, <2>1, <2>9, CountsAgree DEF Migration!TypeOK
  <2>11. MTypes'
    BY <1>2, <2>1, <2>6, <2>10 DEF MInv, MTypes
  <2> QED BY <1>2, <2>1, <2>6, <2>11 DEF MInv, Proved, Compared, Migration!ReadyIsReplayed, Migration!ImportedIsExported
<1>8. CASE Migration!DeleteLease(o)
  <2>1. UNCHANGED <<landed, progress>>
    BY <1>8 DEF Migration!DeleteLease
  <2> DEFINE c == [op[o] EXCEPT !.at = "finish"]
  <2>2. c \in Call /\ c.inventory = op[o].inventory /\ c.at = "finish"
    BY <1>1 DEF Call, Steps
  <2>3. op[o].at = "delete"
    BY <1>8 DEF Migration!DeleteLease
  <2>4. c.inventory \subseteq objects /\ c.inventory \subseteq landed
    BY <2>2, <2>3, <1>1 DEF Good, Loaded
  <2>5. \/ op' = [op EXCEPT ![o] = c] /\ lease' = [lease EXCEPT !.owner = None]
        \/ op' = [op EXCEPT ![o] = Migration!NoCall] /\ lease' = lease
    BY <1>8 DEF Migration!DeleteLease
  <2> HIDE DEF c
  <2>6. /\ lease' \in [owner : {"old", "new", None}, gen : 1..2] /\ lease'.gen = lease.gen
        /\ lease' = lease \/ lease'.owner = None
    BY <1>1, <2>5 DEF Migration!TypeOK
  <2>7. Grows
    BY <1>2, <2>1, <2>6, NoneIsNew DEF Grows
  <2>8. CASE op' = [op EXCEPT ![o] = c] /\ lease'.owner = None
    <3>1. op' \in [Operator -> Call] /\ Calls'
      BY <2>8, <2>1, <2>2, <2>4, <2>7, <1>2, NoneIsNew, CallsGoOn
    <3>2. MTypes'
      BY <1>1, <1>2, <2>1, <2>6, <3>1 DEF MInv, MTypes, Migration!TypeOK
    <3> QED BY <1>2, <2>1, <2>8, <3>1, <3>2, NoneIsNew DEF MInv, Proved, Compared, Migration!ReadyIsReplayed, Migration!ImportedIsExported
  <2>9. CASE op' = [op EXCEPT ![o] = Migration!NoCall] /\ lease' = lease
    BY <2>9, <1>2, <1>3, <2>1, Idle, CallWrites
  <2>10. op' = [op EXCEPT ![o] = c] => lease'.owner = None \/ lease' = lease
    BY <2>6
  <2> QED
    <3>1. lease' = [lease EXCEPT !.owner = None] => lease'.owner = None
      BY <1>1 DEF Migration!TypeOK
    <3> QED BY <2>5, <2>8, <2>9, <3>1
<1> QED BY <1>5, <1>6, <1>7, <1>8

LEMMA ProofKeeps ==
  ASSUME MInv, NEW o \in Operator, Migration!ClaimProof(o) \/ Migration!FinishProof(o)
  PROVE  MInv'
<1> USE DEF Migration!Go, Migration!At, Migration!Goes, Migration!Refuse, Migration!Importing
<1>1. op[o] \in Call /\ Good(op[o]) /\ Migration!TypeOK
  BY DEF MInv, MTypes, Calls
<1>2. UNCHANGED <<objects, landed, progress, public, lease, launched, import, imported>> /\ Grows
  BY DEF Migration!ClaimProof, Migration!FinishProof, Migration!World, Grows
<1>3. Good(Migration!NoCall)
  BY Idle DEF Good, Loaded
<1> DEFINE Proofs == [state : {"none", "replaying", "ready"}, gen : Nat, inventory : SUBSET Object,
                      processed : 0..Cardinality(Manifest), snapshot : Nat]
<1>4. proof \in Proofs
  BY <1>1, CountsAgree DEF Migration!TypeOK
<1>5. \E c \in Call : op' = [op EXCEPT ![o] = c] /\ Good(c)
  <2>1. CASE Migration!ClaimProof(o)
    <3> DEFINE c == [op[o] EXCEPT !.at = "replay", !.proof = proof.gen + 1]
    <3>0. \A n \in Nat : LET d == [op[o] EXCEPT !.at = "replay", !.proof = n]
                         IN  d \in Call /\ d.inventory = op[o].inventory /\ d.at = "replay"
      BY <1>1 DEF Call, Steps
    <3>1. c \in Call /\ c.inventory = op[o].inventory /\ c.at = "replay"
      <4>1. proof.gen + 1 \in Nat
        BY <1>4
      <4> QED BY <4>1, <3>0
    <3>2. Good(c)
      BY <3>1, <1>1 DEF Good, Loaded
    <3> HIDE DEF c
    <3>3. op' = [op EXCEPT ![o] = c] \/ op' = [op EXCEPT ![o] = Migration!NoCall]
      BY <2>1 DEF Migration!ClaimProof, c
    <3> QED BY <3>1, <3>2, <3>3, <1>3, Idle
  <2>2. CASE Migration!FinishProof(o)
    BY <2>2, <1>3, Idle DEF Migration!FinishProof
  <2> QED BY <2>1, <2>2
<1>6. op' \in [Operator -> Call] /\ Calls'
  BY <1>2, <1>5, CallsGoOn DEF Good
<1>7. proof' \in Proofs /\ Proved'
  <2>1. CASE proof' = proof
    BY <2>1, <1>2, <1>4 DEF MInv, Proved, Migration!ReadyIsReplayed
  <2>2. CASE Migration!ClaimProof(o) /\ proof' # proof
    <3>1. proof' = [proof EXCEPT !.state = "replaying", !.gen = @ + 1, !.inventory = op[o].inventory]
      BY <2>2 DEF Migration!ClaimProof
    <3>2. proof' \in Proofs /\ proof'.state = "replaying"
      <4>1. op[o].inventory \in SUBSET Object /\ proof.gen + 1 \in Nat
        BY <1>1, <1>4 DEF Call
      <4>2. \A n \in Nat, O \in SUBSET Object :
              LET d == [proof EXCEPT !.state = "replaying", !.gen = n, !.inventory = O]
              IN  d \in Proofs /\ d.state = "replaying"
        BY <1>4
      <4>3. proof' = [proof EXCEPT !.state = "replaying", !.gen = proof.gen + 1, !.inventory = op[o].inventory]
        BY <3>1
      <4> QED BY <4>1, <4>2, <4>3
    <3> QED BY <3>2 DEF Proved, Migration!ReadyIsReplayed
  <2>3. CASE Migration!FinishProof(o) /\ proof' # proof
    <3>1. /\ proof' = [state |-> "ready", gen |-> proof.gen + 1, inventory |-> op[o].inventory,
                       processed |-> Migration!Count(op[o].inventory), snapshot |-> op[o].snapshot]
          /\ op[o].at = "finish"
      BY <2>3 DEF Migration!FinishProof
    <3>2. Migration!Count(op[o].inventory) \in 0..Cardinality(Manifest)
      BY <1>1, CountTypes DEF Call
    <3>3. proof' \in Proofs
      BY <3>1, <3>2, <1>1, <1>4 DEF Call
    <3>4. proof'.inventory = op[o].inventory /\ proof'.processed = Migration!Count(op[o].inventory)
      BY <3>1
    <3>5. op[o].inventory \subseteq landed /\ lease.owner # "old"
      BY <3>1, <1>1 DEF Good, Loaded
    <3>6. proof'.inventory \subseteq landed' /\ lease'.owner # "old"
      BY <3>4, <3>5, <1>2
    <3>7. Migration!Count(proof.inventory)' = Migration!Count(op[o].inventory)
      BY <3>4 DEF Migration!Count, Migration!ArticlesOf
    <3> QED BY <3>3, <3>4, <3>6, <3>7 DEF Proved, Migration!ReadyIsReplayed
  <2> QED BY <2>1, <2>2, <2>3
<1>8. Migration!TypeOK'
  BY <1>1, <1>2, <1>7, CountsAgree DEF Migration!TypeOK
<1>9. MTypes' /\ Compared' /\ Migration!ImportedIsExported'
  BY <1>2, <1>6, <1>8 DEF MInv, MTypes, Compared, Migration!ImportedIsExported
<1> QED BY <1>6, <1>7, <1>9 DEF MInv

LEMMA ImportKeeps ==
  ASSUME MInv, Migration!Import
  PROVE  MInv'
<1>1. UNCHANGED <<objects, landed, progress, public, proof, lease, launched, op>> /\ Grows
  BY DEF Migration!Import, Migration!ImportBegin, Migration!ImportCheck, Migration!ImportRead,
         Migration!Durable, Migration!World, Grows
<1>2. op' \in [Operator -> Call] /\ Calls' /\ Proved'
  BY <1>1, CallsStay DEF MInv, Proved, Migration!ReadyIsReplayed
<1>3. Migration!TypeOK /\ import \in Import
  BY DEF MInv, MTypes
<1>4. Migration!NoImport \in Import /\ Migration!NoImport.at = "idle"
  BY DEF Migration!NoImport, Import
<1>5. import' \in Import /\ Compared'
  <2>1. CASE Migration!ImportBegin
    <3>1. progress.gen \in Nat /\ progress.processed \in 0..Cardinality(Manifest) /\ Cardinality(Manifest) \in Nat
      BY <1>3, CountsAgree, ManifestFinite, FS_CardinalityType DEF Migration!TypeOK
    <3>2. import' = [at |-> "check", progress |-> progress.gen, processed |-> progress.processed]
      BY <2>1 DEF Migration!ImportBegin
    <3> QED BY <3>1, <3>2 DEF Import, Compared
  <2>2. CASE Migration!ImportCheck
    <3>1. CASE Migration!Importable(import.progress, import.processed)
      <4>1. import' = [import EXCEPT !.at = "read"]
        BY <2>2, <3>1 DEF Migration!ImportCheck
      <4>2. import' \in Import /\ import'.processed = import.processed
        BY <4>1, <1>3 DEF Import
      <4>3. proof.inventory \in SUBSET landed /\ Migration!Count(proof.inventory) = import.processed
        BY <3>1 DEF Migration!Importable, MInv, Proved, Migration!ReadyIsReplayed
      <4>4. Compared'
        <5>1. \E O \in SUBSET landed : Migration!Count(O) = import.processed
          BY <4>3
        <5>2. PICK O \in SUBSET landed : Migration!Count(O) = import.processed
          BY <5>1
        <5>3. O \in SUBSET landed' /\ Migration!Count(O)' = import'.processed
          BY <5>2, <4>2, <1>1 DEF Migration!Count, Migration!ArticlesOf
        <5> QED BY <5>3 DEF Compared
      <4> QED BY <4>2, <4>4
    <3>2. CASE ~Migration!Importable(import.progress, import.processed)
      BY <2>2, <3>2, <1>4 DEF Migration!ImportCheck, Compared
    <3> QED BY <3>1, <3>2
  <2>3. CASE Migration!ImportRead
    BY <2>3, <1>4 DEF Migration!ImportRead, Compared
  <2> QED BY <2>1, <2>2, <2>3 DEF Migration!Import
<1>6. imported' \in {None} \cup SUBSET Manifest /\ Migration!ImportedIsExported'
  <2>1. CASE imported' = imported
    BY <2>1, <1>1, <1>3 DEF MInv, Migration!TypeOK, Migration!ImportedIsExported, Migration!ArticlesOf
  <2>2. CASE Migration!ImportRead /\ imported' # imported
    <3>1. imported' = Migration!ArticlesOf(objects) /\ Migration!Count(objects) = import.processed
          /\ import.at = "read"
      BY <2>2 DEF Migration!ImportRead, Migration!SameCount
    <3>2. PICK O \in SUBSET landed : Migration!Count(O) = import.processed
      BY <3>1 DEF MInv, Compared
    <3>3. objects \in SUBSET Object /\ landed \in SUBSET objects
      BY <1>3 DEF Migration!TypeOK
    <3>4. Migration!ArticlesOf(objects) = Migration!ArticlesOf(O)
      BY <3>1, <3>2, <3>3, NothingAdded
    <3>5. Migration!ArticlesOf(O) \subseteq Migration!ArticlesOf(landed)
      BY <3>2 DEF Migration!ArticlesOf
    <3>6. imported' \subseteq Migration!ArticlesOf(landed)
      BY <3>1, <3>4, <3>5
    <3>7. imported' \subseteq Manifest
      BY <3>1, <3>3, CountTypes
    <3> QED BY <3>6, <3>7, <1>1 DEF Migration!ImportedIsExported, Migration!ArticlesOf
  <2> QED BY <2>1, <2>2 DEF Migration!Import, Migration!ImportBegin, Migration!ImportCheck
<1>7. Migration!TypeOK'
  BY <1>1, <1>3, <1>6 DEF Migration!TypeOK
<1>8. MTypes'
  BY <1>1, <1>2, <1>5, <1>7 DEF MInv, MTypes
<1> QED BY <1>2, <1>5, <1>6, <1>8 DEF MInv

LEMMA WorldKeeps ==
  ASSUME MInv,
         \/ Migration!LateCheckpoint \/ Migration!LateSnapshot \/ Migration!Lift \/ Migration!Launch
         \/ Migration!NewSnapshot
  PROVE  MInv'
<1>1. UNCHANGED <<landed, proof, op, import, imported>>
  BY DEF Migration!LateCheckpoint, Migration!LateSnapshot, Migration!Lift, Migration!Launch,
         Migration!NewSnapshot, Migration!Durable, Migration!World, Migration!Importing
<1>2. Migration!TypeOK /\ launched \in BOOLEAN /\ lease.gen = IF launched THEN 2 ELSE 1
  BY DEF MInv, MTypes
<1>3. objects \subseteq objects' /\ objects' \subseteq Object
  BY <1>2 DEF Migration!LateCheckpoint, Migration!LateSnapshot, Migration!Lift, Migration!Launch,
         Migration!NewSnapshot, Migration!Durable, Migration!World, Migration!TypeOK
<1>4. /\ lease' \in [owner : {"old", "new", None}, gen : 1..2] /\ launched' \in BOOLEAN
      /\ lease'.gen = IF launched' THEN 2 ELSE 1
      /\ lease.owner # "old" => lease'.owner # "old"
  <2>1. CASE Migration!Launch
    <3>1. lease' = [owner |-> "new", gen |-> 2] /\ launched' = TRUE
      BY <2>1, <1>2 DEF Migration!Launch
    <3> QED BY <3>1
  <2>2. CASE ~Migration!Launch
    <3>1. UNCHANGED <<lease, launched>>
      BY <2>2 DEF Migration!LateCheckpoint, Migration!LateSnapshot, Migration!Lift,
         Migration!NewSnapshot, Migration!Durable, Migration!World
    <3> QED BY <3>1, <1>2 DEF Migration!TypeOK
  <2> QED BY <2>1, <2>2
<1>5. Grows
  BY <1>1, <1>3, <1>4 DEF Grows
<1> DEFINE Progresses == [state : {"running", "stopped"}, execution : {"old", "new"}, gen : Nat,
                          processed : 0..Cardinality(Manifest)]
<1>6. progress' \in Progresses /\ public' \in {"old", "new"}
  <2>1. progress \in Progresses /\ public \in {"old", "new"} /\ progress.gen + 1 \in Nat
    BY <1>2, CountsAgree DEF Migration!TypeOK
  <2>2. 0 \in 0..Cardinality(Manifest)
    BY ManifestFinite, FS_CardinalityType
  <2>3. CASE Migration!LateSnapshot
    BY <2>1, <2>2, <2>3 DEF Migration!LateSnapshot
  <2>4. CASE Migration!NewSnapshot
    BY <2>1, <2>2, <2>4 DEF Migration!NewSnapshot
  <2>5. CASE ~Migration!LateSnapshot /\ ~Migration!NewSnapshot
    BY <2>1, <2>5 DEF Migration!LateCheckpoint, Migration!Lift, Migration!Launch, Migration!Durable
  <2> QED BY <2>3, <2>4, <2>5
<1>7. Migration!TypeOK'
  BY <1>1, <1>2, <1>3, <1>4, <1>6, CountsAgree DEF Migration!TypeOK
<1>8. MTypes' /\ Calls'
  BY <1>1, <1>4, <1>5, <1>7, CallsStay DEF MInv, MTypes
<1>9. Proved' /\ Compared' /\ Migration!ImportedIsExported'
  BY <1>1, <1>4 DEF MInv, Proved, Compared, Migration!ReadyIsReplayed, Migration!ImportedIsExported
<1> QED BY <1>8, <1>9 DEF MInv

LEMMA MigrationStep == MInv /\ [Migration!Next]_migrationVars => MInv'
<1> SUFFICES ASSUME MInv, [Migration!Next]_migrationVars PROVE MInv'
  OBVIOUS
<1>1. CASE \E o \in Operator : Migration!Recover(o) \/ Migration!ReplayFails(o) \/ Migration!Crash(o)
  BY <1>1, ReadingKeeps, WritingKeeps, ProofKeeps DEF Migration!Recover
<1>2. CASE Migration!Import
  BY <1>2, ImportKeeps
<1>3. CASE \/ Migration!LateCheckpoint \/ Migration!LateSnapshot \/ Migration!Lift \/ Migration!Launch
           \/ Migration!NewSnapshot
  BY <1>3, WorldKeeps
<1>4. CASE UNCHANGED migrationVars
  BY <1>4 DEF migrationVars, MInv, MTypes, Calls, Good, Proved, Compared, Migration!TypeOK,
     Migration!ReadyIsReplayed, Migration!ImportedIsExported
<1> QED BY <1>1, <1>2, <1>3, <1>4 DEF Migration!Next

\* recover and import: an imported article's result is in BigQuery, whatever lands late and
\* however operators interleave; a finished proof's inventory is loaded, and the cancelled
\* worker's lease gone.
THEOREM ImportIsExported == StoreSpec => []ImportedIsExported
<1>1. StoreInit => MInv
  BY MigrationInitially DEF StoreInit
<1>2. MInv /\ [StoreNext]_<<part, outboxVars, migrationVars, indexVars>> => MInv'
  <2>1. MInv /\ StoreNext => [Migration!Next]_migrationVars
    BY DEF StoreNext
  <2> QED BY <2>1, MigrationStep
<1>3. MInv => ImportedIsExported
  BY DEF MInv, MTypes, Proved, ImportedIsExported
<1> QED BY <1>1, <1>2, <1>3, PTL DEF StoreSpec

-----------------------------------------------------------------------------
(* The public index                                                        *)

Snap == [run : 1..LastRun, count : Nat]
Refresh == [at : {"idle", "look", "query", "upload"}, snapshot : Snap \cup {None},
            index : Index!IndexObject \cup {None}]
XTypes ==
  /\ done \in [1..LastRun -> SUBSET Text] /\ published \in [run : 0..LastRun, count : Nat]
  /\ stored \in Index!IndexObject \cup {None}
  /\ current \subseteq Reader /\ refresh \in [Reader -> Refresh]

\* An index lists accepted articles of its collection only.
Accurate(index) == index # None => index.entries \subseteq done[index.run]

\* What a refresh has read, or is about to write, is of the collection in its snapshot.
Asked(r) ==
  /\ Accurate(r.index)
  /\ r.at # "idle" => r.snapshot \in Snap
  /\ r.at = "query" /\ r.index # None => r.index.run = r.snapshot.run
  /\ r.at = "upload" => r.index # None

\* The object is still what a refresh that may write has read, and its new index has all of it.
Based(r) ==
  /\ r.at = "query" /\ r.index = None => stored = None \/ stored.run # r.snapshot.run
  /\ r.at = "query" /\ r.index # None =>
       stored # None /\ stored.run = r.index.run /\ stored.entries = r.index.entries
  /\ r.at = "upload" /\ stored # None /\ stored.run = r.index.run => stored.entries \subseteq r.index.entries

XInv ==
  /\ XTypes /\ Accurate(stored)
  /\ \A i \in Reader : Asked(refresh[i]) /\ (i \in current => Based(refresh[i]))

LEMMA IndexFacts ==
  /\ LastRun \in Nat \ {0} /\ Cardinality(Text) \in Nat /\ Index!Cardinality(Text) = Cardinality(Text)
  /\ None \notin Index!IndexObject
<1>1. \A S : Index!Cardinality(S) = Cardinality(S) /\ (Index!IsFiniteSet(S) <=> IsFiniteSet(S))
  BY DEF Index!Cardinality, Cardinality, Index!IsFiniteSet, IsFiniteSet
<1>2. Index!IndexAssumption
  BY StoreAssumption
<1> QED BY <1>1, <1>2, FS_CardinalityType DEF Index!IndexAssumption

LEMMA IndexInitially == Index!Init => XInv
<1> SUFFICES ASSUME Index!Init PROVE XInv
  OBVIOUS
<1>1. XTypes
  BY IndexFacts DEF Index!Init, Index!Idle, XTypes, Refresh
<1>2. Accurate(stored) /\ current = {}
  BY DEF Index!Init, Accurate
<1>3. \A i \in Reader : Asked(refresh[i])
  BY DEF Index!Init, Index!Idle, Asked, Accurate
<1> QED BY <1>1, <1>2, <1>3 DEF XInv

\* A commit hides an article at most, and takes nothing away.
LEMMA HideKeeps ==
  ASSUME XTypes, NEW index \in Index!IndexObject \cup {None}, NEW a \in Text
  PROVE  /\ Index!Hide(index, a) \in Index!IndexObject \cup {None}
         /\ Index!Hide(index, a) = None <=> index = None
         /\ index # None => /\ Index!Hide(index, a).run = index.run
                            /\ Index!Hide(index, a).entries = index.entries
BY IndexFacts DEF Index!Hide, Index!IndexObject

LEMMA FinishKeepsIndex ==
  ASSUME XInv, NEW a \in Text, NEW missed \in BOOLEAN, Index!Finish(a, missed)
  PROVE  XInv'
<1>1. XTypes /\ Accurate(stored) /\ published.run \in 1..LastRun
  BY DEF XInv, XTypes, Index!Finish
<1>2. /\ done' \in [1..LastRun -> SUBSET Text] /\ \A r \in 1..LastRun : done[r] \subseteq done'[r]
  BY <1>1 DEF XTypes, Index!Finish
<1>3. /\ stored' \in Index!IndexObject \cup {None} /\ (stored' = None <=> stored = None)
      /\ stored # None => stored'.run = stored.run /\ stored'.entries = stored.entries
  BY <1>1, HideKeeps DEF XTypes, Index!Finish
<1>4. ASSUME NEW i \in Reader
      PROVE  /\ refresh'[i] \in Refresh /\ refresh'[i].at = refresh[i].at
             /\ refresh'[i].snapshot = refresh[i].snapshot
             /\ refresh'[i].index = None <=> refresh[i].index = None
             /\ refresh[i].index # None => /\ refresh'[i].index.run = refresh[i].index.run
                                           /\ refresh'[i].index.entries = refresh[i].index.entries
  <2>1. refresh[i] \in Refresh
    BY <1>1 DEF XTypes
  <2>2. refresh'[i] = IF missed THEN [refresh[i] EXCEPT !.index = Index!Hide(refresh[i].index, a)] ELSE refresh[i]
    BY DEF Index!Finish
  <2> QED BY <1>1, <2>1, <2>2, HideKeeps DEF Refresh
<1>5. refresh' \in [Reader -> Refresh]
  BY <1>4 DEF Index!Finish
<1>6. XTypes' /\ Accurate(stored)'
  BY <1>1, <1>2, <1>3, <1>5 DEF XTypes, Accurate, Index!Finish, Index!IndexObject
<1>7. ASSUME NEW i \in Reader PROVE Asked(refresh[i])' /\ (i \in current' => Based(refresh[i])')
  <2>1. Asked(refresh[i]) /\ (i \in current => Based(refresh[i])) /\ refresh[i] \in Refresh /\ current' = current
    BY <1>1 DEF XInv, XTypes, Index!Finish
  <2>2. Accurate(refresh[i].index)'
    BY <1>2, <1>4, <2>1 DEF Asked, Accurate, Refresh, Index!IndexObject
  <2>3. Asked(refresh[i])'
    BY <1>4, <2>1, <2>2 DEF Asked
  <2>4. i \in current' => Based(refresh[i])'
    BY <1>3, <1>4, <2>1 DEF Based, Asked
  <2> QED BY <2>3, <2>4
<1> QED BY <1>6, <1>7 DEF XInv

\* The collection is published or renewed: no index is touched.
LEMMA PublishKeepsIndex ==
  ASSUME XInv, (\E n \in 1..Index!Cardinality(Text) : Index!Publish(n)) \/ Index!NextRun
  PROVE  XInv'
<1>1. published' \in [run : 0..LastRun, count : Nat]
  BY IndexFacts DEF XInv, XTypes, Index!Publish, Index!NextRun
<1>2. UNCHANGED <<done, stored, current, refresh>>
  BY DEF Index!Publish, Index!NextRun
<1> QED BY <1>1, <1>2 DEF XInv, XTypes, Accurate, Asked, Based

\* A step of one reader that leaves the object alone.
LEMMA OneReader ==
  ASSUME XInv, NEW i \in Reader, NEW r \in Refresh, refresh' = [refresh EXCEPT ![i] = r],
         current' \in {current, current \cup {i}}, UNCHANGED <<done, published, stored>>,
         Asked(r), Based(r)
  PROVE  XInv'
<1>1. refresh \in [Reader -> Refresh] /\ current \subseteq Reader
  BY DEF XInv, XTypes
<1>2. refresh' \in [Reader -> Refresh] /\ refresh'[i] = r /\ current' \subseteq Reader
  BY <1>1
<1>3. \A j \in Reader : j # i => refresh'[j] = refresh[j] /\ (j \in current' <=> j \in current)
  BY <1>1
<1>4. \A j \in Reader : Asked(refresh'[j]) /\ (j \in current' => Based(refresh'[j]))
  BY <1>2, <1>3 DEF XInv
<1> QED BY <1>2, <1>4 DEF XInv, XTypes, Accurate, Asked, Based

LEMMA IdleAsks == Index!Idle \in Refresh /\ Asked(Index!Idle) /\ Based(Index!Idle)
BY DEF Index!Idle, Refresh, Asked, Accurate, Based

LEMMA SnapshotKeepsIndex == ASSUME XInv, NEW i \in Reader, Index!Snapshot(i) PROVE XInv'
<1> DEFINE r == [Index!Idle EXCEPT !.at = "look", !.snapshot = published]
<1>1. published \in Snap
  BY IndexFacts DEF XInv, XTypes, Index!Snapshot, Snap
<1>2. r \in Refresh /\ Asked(r) /\ Based(r)
  BY <1>1 DEF Index!Idle, Refresh, Asked, Accurate, Based
<1> QED BY <1>2, OneReader DEF Index!Snapshot

LEMMA LookKeepsIndex == ASSUME XInv, NEW i \in Reader, Index!Look(i) PROVE XInv'
<1> DEFINE snapshot == refresh[i].snapshot
           previous == IF stored # None /\ stored.run = snapshot.run THEN stored ELSE None
           r == [refresh[i] EXCEPT !.at = "query", !.index = previous]
<1>1. /\ refresh[i] \in Refresh /\ snapshot \in Snap /\ stored \in Index!IndexObject \cup {None}
      /\ Accurate(stored)
  BY DEF XInv, XTypes, Asked, Index!Look
<1>2. r \in Refresh /\ r.at = "query" /\ r.snapshot = snapshot /\ r.index = previous
  BY <1>1 DEF Refresh
<1>3. Asked(r) /\ Based(r)
  BY <1>1, <1>2 DEF Asked, Accurate, Based
<1>4. refresh' = [refresh EXCEPT ![i] = Index!Idle] \/ refresh' = [refresh EXCEPT ![i] = r]
  BY DEF Index!Look
<1> QED BY <1>2, <1>3, <1>4, IdleAsks, OneReader DEF Index!Look

LEMMA QueryKeepsIndex == ASSUME XInv, NEW i \in Reader, Index!Query(i) PROVE XInv'
<1> DEFINE run == refresh[i].snapshot.run
           previous == refresh[i].index
           entries == IF Index!FullQuery(i, previous) THEN done[run]
                      ELSE previous.entries \cup (done[run] \ previous.hidden)
           index == [run |-> run, counted |-> refresh[i].snapshot.count, entries |-> entries,
                     hidden |-> done[run] \ entries]
           r == [refresh[i] EXCEPT !.at = "upload", !.index = index]
<1>1. /\ refresh[i] \in Refresh /\ refresh[i].snapshot \in Snap /\ Asked(refresh[i]) /\ Accurate(stored)
      /\ stored \in Index!IndexObject \cup {None} /\ done \in [1..LastRun -> SUBSET Text]
      /\ (i \in current => Based(refresh[i])) /\ refresh[i].at = "query"
  BY DEF XInv, XTypes, Asked, Index!Query
<1>2. ~Index!FullQuery(i, previous) => previous # None
  BY DEF Index!FullQuery
<1>3. run \in 1..LastRun /\ entries \subseteq done[run] /\ done[run] \subseteq Text
  BY <1>1, <1>2 DEF Asked, Accurate, Refresh, Snap, Index!IndexObject
<1>4. index \in Index!IndexObject /\ index # None /\ index.run = run /\ index.entries = entries
  BY <1>1, <1>3, IndexFacts DEF Index!IndexObject, Snap
<1>5. r \in Refresh /\ r.at = "upload" /\ r.snapshot = refresh[i].snapshot /\ r.index = index
  BY <1>1, <1>4 DEF Refresh
<1>6. Asked(r)
  BY <1>1, <1>3, <1>4, <1>5 DEF Asked, Accurate
<1>7. i \in current => Based(r)
  <2>1. ASSUME i \in current, stored # None, stored.run = run PROVE stored.entries \subseteq entries
    BY <1>1, <1>2, <2>1 DEF Based, Asked, Accurate
  <2> QED BY <1>4, <1>5, <2>1 DEF Based
<1>8. refresh' = [refresh EXCEPT ![i] = r] /\ UNCHANGED <<done, published, stored, current>>
  BY DEF Index!Query
<1>9. refresh' \in [Reader -> Refresh] /\ refresh'[i] = r /\ \A j \in Reader : j # i => refresh'[j] = refresh[j]
  BY <1>5, <1>8 DEF XInv, XTypes
<1>10. \A j \in Reader : Asked(refresh'[j]) /\ (j \in current' => Based(refresh'[j]))
  BY <1>6, <1>7, <1>8, <1>9 DEF XInv
<1> QED BY <1>8, <1>9, <1>10 DEF XInv, XTypes, Accurate, Asked, Based

\* An upload that is refused changes nothing; one that is accepted stores an accurate index,
\* and makes everybody else's reading void.
LEMMA UploadKeepsIndex == ASSUME XInv, NEW i \in Reader, Index!Upload(i) PROVE XInv'
<1>1. CASE ~Index!Accepted(i)
  BY <1>1, IdleAsks, OneReader DEF Index!Upload
<1>2. CASE Index!Accepted(i)
  <2>1. /\ refresh[i] \in Refresh /\ Asked(refresh[i]) /\ refresh[i].at = "upload"
        /\ stored' = refresh[i].index /\ current' = {} /\ UNCHANGED <<done, published>>
        /\ refresh' = [refresh EXCEPT ![i] = Index!Idle]
    BY <1>2 DEF XInv, XTypes, Index!Upload
  <2>2. stored' \in Index!IndexObject \cup {None} /\ Accurate(stored)'
    BY <2>1 DEF Refresh, Asked, Accurate
  <2>3. refresh' \in [Reader -> Refresh] /\ \A j \in Reader : refresh'[j] \in {refresh[j], Index!Idle}
    BY <2>1, IdleAsks DEF XInv, XTypes
  <2>4. \A j \in Reader : Asked(refresh'[j])
    BY <2>3, IdleAsks DEF XInv
  <2> QED BY <2>1, <2>2, <2>3, <2>4 DEF XInv, XTypes, Asked, Accurate
<1> QED BY <1>1, <1>2

LEMMA IndexStep == XInv /\ [Index!Next]_indexVars => XInv'
<1> SUFFICES ASSUME XInv, [Index!Next]_indexVars PROVE XInv'
  OBVIOUS
<1>1. CASE \E a \in Text, missed \in BOOLEAN : Index!Finish(a, missed)
  BY <1>1, FinishKeepsIndex
<1>2. CASE (\E n \in 1..Index!Cardinality(Text) : Index!Publish(n)) \/ Index!NextRun
  BY <1>2, PublishKeepsIndex
<1>3. CASE \E i \in Reader : Index!Snapshot(i)
  BY <1>3, SnapshotKeepsIndex
<1>4. CASE \E i \in Reader : Index!Look(i)
  BY <1>4, LookKeepsIndex
<1>5. CASE \E i \in Reader : Index!Query(i)
  BY <1>5, QueryKeepsIndex
<1>6. CASE \E i \in Reader : Index!Upload(i)
  BY <1>6, UploadKeepsIndex
<1>7. CASE \E i \in Reader : Index!Fail(i)
  BY <1>7, IdleAsks, OneReader DEF Index!Fail
<1>8. CASE UNCHANGED indexVars
  BY <1>8 DEF indexVars, XInv, XTypes, Accurate, Asked, Based
<1> QED BY <1>1, <1>2, <1>3, <1>4, <1>5, <1>6, <1>7, <1>8 DEF Index!Next

\* DownloadIndex.get: however refreshes race with each other, with commits that are stamped
\* late and with new collections, no article of a collection leaves its index.
THEOREM IndexNeverShrinks == StoreSpec => NeverShrinks
<1>1. StoreInit => XInv
  BY IndexInitially DEF StoreInit
<1>2. [StoreNext]_<<part, outboxVars, migrationVars, indexVars>> => [Index!Next]_indexVars
  BY DEF StoreNext
<1>3. XInv /\ [StoreNext]_<<part, outboxVars, migrationVars, indexVars>> => XInv'
  BY <1>2, IndexStep
<1>4. ASSUME XInv, Index!Next, stored # None, stored'.run = stored.run
      PROVE  stored.entries \subseteq stored'.entries
  <2>1. CASE \E a \in Text, missed \in BOOLEAN : Index!Finish(a, missed)
    BY <1>4, <2>1, HideKeeps DEF XInv, XTypes, Index!Finish
  <2>2. CASE \E i \in Reader : Index!Upload(i)
    BY <1>4, <2>2 DEF XInv, XTypes, Asked, Based, Index!Upload, Index!Accepted
  <2> QED BY <1>4, <2>1, <2>2 DEF Index!Next, Index!Publish, Index!NextRun, Index!Snapshot, Index!Look,
             Index!Query, Index!Fail
<1>5. XInv /\ [StoreNext]_<<part, outboxVars, migrationVars, indexVars>>
        => [stored # None /\ stored'.run = stored.run => stored.entries \subseteq stored'.entries]_(Index!vars)
  BY <1>2, <1>4 DEF indexVars, Index!vars
<1> QED BY <1>1, <1>3, <1>5, PTL DEF StoreSpec, NeverShrinks, Index!NeverShrinks

LEMMA SameSize == \A S : Index!Cardinality(S) = Cardinality(S)
BY DEF Index!Cardinality, Cardinality, Index!IsFiniteSet, IsFiniteSet

\* The reader is about to serve the stored index as it is.
Serves(i) ==
  /\ refresh[i].at = "look" /\ stored # None /\ stored.run = refresh[i].snapshot.run
  /\ Index!Unchanged(stored, refresh[i].snapshot)
AcceptedFor(i) == done[refresh[i].snapshot.run]
WholeOnceCounted ==
  \A i \in Reader :
    Serves(i) /\ refresh[i].snapshot.count = Cardinality(AcceptedFor(i)) => stored.entries = AcceptedFor(i)

\* DownloadIndex.get: the index invents nothing, so an index that agrees with the published
\* count misses as many of the accepted articles as that count lags behind them, and none
\* once it has caught up.
THEOREM ServedIndexIsCounted == StoreSpec => [](ServedAsCounted /\ WholeOnceCounted)
<1>1. StoreInit => XInv
  BY IndexInitially DEF StoreInit
<1>2. XInv /\ [StoreNext]_<<part, outboxVars, migrationVars, indexVars>> => XInv'
  BY IndexStep DEF StoreNext
<1>3. ASSUME XInv, NEW i \in Reader, Serves(i)
      PROVE  /\ stored.entries \subseteq AcceptedFor(i)
             /\ Cardinality(AcceptedFor(i) \ stored.entries)
                  = Cardinality(AcceptedFor(i)) - refresh[i].snapshot.count
             /\ refresh[i].snapshot.count = Cardinality(AcceptedFor(i)) => stored.entries = AcceptedFor(i)
  <2> DEFINE accepted == AcceptedFor(i)
  <2>1. stored.entries \subseteq accepted /\ accepted \subseteq Text
    BY <1>3 DEF XInv, XTypes, Accurate, Index!IndexObject, Serves, AcceptedFor
  <2>2. IsFiniteSet(accepted) /\ IsFiniteSet(stored.entries)
    <3>1. Index!IndexAssumption
      BY StoreAssumption
    <3>2. IsFiniteSet(Text)
      BY <3>1 DEF Index!IndexAssumption, Index!IsFiniteSet, IsFiniteSet
    <3> QED BY <2>1, <3>2, FS_Subset
  <2>3. Cardinality(stored.entries) = refresh[i].snapshot.count
    BY <1>3, SameSize DEF Serves, Index!Unchanged
  <2>4. accepted \cap stored.entries = stored.entries
    BY <2>1
  <2>5. Cardinality(accepted \ stored.entries) = Cardinality(accepted) - Cardinality(stored.entries)
    BY <2>2, <2>4, FS_Difference
  <2>6. refresh[i].snapshot.count = Cardinality(accepted) => stored.entries = accepted
    BY <2>1, <2>2, <2>3, FS_Subset
  <2> QED BY <2>1, <2>3, <2>5, <2>6
<1>4. XInv => WholeOnceCounted
  BY <1>3 DEF WholeOnceCounted
<1>5. XInv => ServedAsCounted
  <2>1. ASSUME XInv, NEW i \in Reader, Serves(i)
        PROVE  /\ stored.entries \subseteq AcceptedFor(i)
               /\ Index!Cardinality(AcceptedFor(i) \ stored.entries)
                    = Index!Cardinality(AcceptedFor(i)) - refresh[i].snapshot.count
    BY <1>3, <2>1, SameSize
  <2> QED BY <2>1 DEF ServedAsCounted, Index!ServedAsCounted, Serves, AcceptedFor
<1> QED BY <1>1, <1>2, <1>4, <1>5, PTL DEF StoreSpec
=============================================================================
