-------------------------- MODULE LaunchingProofs --------------------------
(***************************************************************************)
(* Launching for every set of operators, tasks, initializers and articles, *)
(* and every number of retries and recoveries.                             *)
(*                                                                         *)
(* The launch of the coordinator: whoever has claimed the record, or has   *)
(* an execution that is or may become active, is the one that wrote the    *)
(* record last (Claimed).  A launcher replaces only the very record that   *)
(* it has read (Fresh), and only when that record was absent or named an   *)
(* execution that has ended (Superseded).                                  *)
(*                                                                         *)
(* The queue: a batch that is under way and still finds the version it     *)
(* depends on is the owner's (Current), so that whoever owns the control   *)
(* document has written all that it has put behind it (Seeded, Counted).   *)
(*                                                                         *)
(* The executions: from its confirmation on an execution is over, and      *)
(* stays so (Confirmed); a marked report is that of an attempt which has   *)
(* ended so or has been followed by another (Marked), so that the marker   *)
(* of a last attempt tells how it ended.                                   *)
(***************************************************************************)
EXTENDS Launching, TLAPS

-----------------------------------------------------------------------------
(* The coordinator is launched                                             *)

Before == {"list", "guard", "record", "get", "write", "recheck", "post"}
Claiming(l) == at[l] \in {"recheck", "post", "await"}
Open(l) == Claiming(l) \/ l \in sent \/ Active(l)

\* An execution exists only after its launcher has asked for it, once.
Once ==
  /\ \A l \in Launcher : at[l] \in Before => l \notin sent /\ workflow[l] = "none"
  /\ \A l \in sent : workflow[l] = "none"

Generations ==
  /\ record.generation <= generation /\ (\A l \in Launcher : seen[l] <= generation)
  /\ record.by = None <=> record.generation = 0
  /\ record.by = None => record = NoRecord

\* The record names the execution of the launcher that wrote it, which has ended its call.
Recorded ==
  record.execution # None =>
    /\ record.by = record.execution /\ record.execution \notin sent
    /\ at[record.execution] \in Ended

Claimed == \A l \in Launcher : Open(l) => record.by = l

Fresh ==
  /\ \A l \in Launcher : Claiming(l) => seen[l] = record.generation /\ record.execution = None
  /\ \A l \in Launcher :
       at[l] \in {"get", "write"} /\ seen[l] = record.generation /\ seen[l] # 0
         => record.execution = found[l]

Superseded ==
  /\ \A l \in Launcher : at[l] = "get" => found[l] # None /\ workflow[found[l]] # "none"
  /\ \A l \in Launcher :
       at[l] = "write" /\ seen[l] # 0 => found[l] # None /\ workflow[found[l]] = "ended"

IInv ==
  /\ TypeOK /\ Once /\ Generations /\ Recorded /\ Claimed /\ Fresh /\ Superseded
  /\ ReturnsOwnRun

USE LauncherAssumption DEF NoRecord, Ended, Before, Step, Active, Claiming, Open, World, Go

-----------------------------------------------------------------------------
(* The invariant                                                           *)

LEMMA Initially == Init => IInv
  BY DEF Init, IInv, TypeOK, Once, Generations, Recorded, Claimed, Fresh, Superseded, ReturnsOwnRun

\* A launcher that may replace the record finds nobody who has claimed it or whose
\* execution is or may become active.
LEMMA Free ==
  ASSUME IInv, NEW l \in Launcher, at[l] = "write", Unchanged(l)
  PROVE  \A m \in Launcher : ~Open(m)
<1>1. CASE seen[l] = 0
  BY <1>1 DEF IInv, TypeOK, Unchanged, Generations, Claimed
<1>2. CASE seen[l] # 0
  <2>1. record.execution = found[l] /\ found[l] \in Launcher /\ workflow[found[l]] = "ended"
    BY <1>2 DEF IInv, TypeOK, Unchanged, Fresh, Superseded
  <2>2. ~Open(found[l]) /\ record.by = found[l]
    BY <2>1 DEF IInv, Recorded
  <2> QED  BY <2>2 DEF IInv, Claimed
<1> QED  BY <1>1, <1>2

LEMMA Preserved ==
  ASSUME IInv, [Next]_vars
  PROVE  IInv'
<1> USE DEF IInv, TypeOK, Once, Generations, Recorded, Claimed, Fresh, Superseded, ReturnsOwnRun
<1>1. ASSUME NEW l \in Launcher, List(l) PROVE IInv'
  BY <1>1 DEF List, Existing, SameRun
<1>2. ASSUME NEW l \in Launcher, LookAtGuard(l) PROVE IInv'
  BY <1>2 DEF LookAtGuard
<1>3. ASSUME NEW l \in Launcher, ReadRecord(l) PROVE IInv'
  BY <1>3 DEF ReadRecord, PendingRecord
<1>4. ASSUME NEW l \in Launcher, GetExecution(l) PROVE IInv'
  BY <1>4 DEF GetExecution, Existing, SameRun
<1>5. ASSUME NEW l \in Launcher, Claim(l) PROVE IInv'
  <2>1. CASE Unchanged(l)
    <3>1. \A m \in Launcher : ~Open(m)
      BY <1>5, <2>1, Free DEF Claim
    <3>2. /\ record' = [generation |-> generation + 1, by |-> l, execution |-> None]
          /\ seen' = [seen EXCEPT ![l] = generation + 1] /\ generation' = generation + 1
          /\ at' = [at EXCEPT ![l] = IF l \in Handover THEN "recheck" ELSE "post"]
          /\ at[l] = "write" /\ UNCHANGED <<found, held, sent, workflow, guard>>
      BY <1>5, <2>1 DEF Claim, Write, Pending
    <3>3. (TypeOK /\ Once /\ Generations /\ Recorded)'
      BY <3>2
    <3>4. (Claimed /\ Fresh)'
      BY <3>1, <3>2
    <3> QED  BY <3>2, <3>3, <3>4
  <2>2. CASE ~Unchanged(l)
    BY <1>5, <2>2 DEF Claim
  <2> QED  BY <2>1, <2>2
<1>6. ASSUME NEW l \in Launcher, Recheck(l) PROVE IInv'
  BY <1>6 DEF Recheck
<1>7. ASSUME NEW l \in Launcher, Post(l) PROVE IInv'
  BY <1>7 DEF Post
<1>8. ASSUME NEW l \in Launcher, Record(l) PROVE IInv'
  BY <1>8 DEF Record, Unchanged, Write
<1>9. ASSUME NEW l \in Launcher, Fail(l) PROVE IInv'
  BY <1>9 DEF Fail
<1>10. ASSUME NEW l \in Launcher, Create(l) PROVE IInv'
  BY <1>10 DEF Create
<1>11. ASSUME NEW l \in Launcher, End(l) PROVE IInv'
  BY <1>11 DEF End
<1>12. CASE ChangeGuard
  BY <1>12 DEF ChangeGuard
<1>13. CASE Inspect
  BY <1>13 DEF Inspect
<1>14. CASE UNCHANGED vars
  BY <1>14 DEF vars
<1> QED  BY <1>1, <1>2, <1>3, <1>4, <1>5, <1>6, <1>7, <1>8, <1>9, <1>10, <1>11, <1>12, <1>13, <1>14 DEF Next

-----------------------------------------------------------------------------
(* The theorems                                                            *)

\* The launchers, the record and the executions keep their shape, and the record names
\* only executions that exist.
THEOREM TypeCorrect == Spec => []TypeOK
<1>1. IInv => TypeOK  BY DEF IInv
<1> QED  BY Initially, Preserved, <1>1, PTL DEF Spec

\* Two launchers that both have an execution that is or may become active both wrote the
\* record last.
THEOREM CoordinatorUnique == Spec => []OneCoordinator
<1>1. IInv => OneCoordinator  BY DEF IInv, Claimed, OneCoordinator, Open
<1> QED  BY Initially, Preserved, <1>1, PTL DEF Spec

\* What start returns is an execution of the run it was asked for.
THEOREM RunsMatch == Spec => []ReturnsOwnRun
<1>1. IInv => ReturnsOwnRun  BY DEF IInv
<1> QED  BY Initially, Preserved, <1>1, PTL DEF Spec
HIDE LauncherAssumption DEF NoRecord, Ended, Before, Step, Active, Claiming, Open, World, Go

-----------------------------------------------------------------------------
(* The queue is seeded                                                     *)

QueueTypes ==
  /\ control \in [state : {"none", "initializing", "ready"}, token : Initializer \cup {None},
                  manifest : {ManifestOf[i] : i \in Initializer} \cup {None}, expires : Int, version : Nat]
  /\ articles \in [Article -> [state : {"none", "ready", "done"}, by : Initializer \cup {Worker, None}]]
  /\ seeding \in [Initializer -> {"start", "read", "commit", "finish", "finished", "found", "failed"}]
  /\ left \in [Initializer -> SUBSET Article] /\ read \in [Initializer -> Nat]
  /\ batches \subseteq Initializer

\* A batch is sent once, and the version it depends on has been written.
Sent ==
  /\ \A i \in batches : seeding[i] \in {"commit", "failed"}
  /\ \A i \in Initializer : read[i] <= control.version

\* A batch that would still be accepted is the owner's.
Current == \A i \in batches : read[i] = control.version => Queue!Owns(i)

\* Who has not started owns nothing, and has everything to write.
Unstarted == \A i \in Initializer : seeding[i] = "start" => left[i] = Article /\ i \notin batches

\* The owner has written what it has put behind it.
Seeded ==
  \A i \in Initializer :
    Queue!Owns(i) => \A a \in Article \ left[i] : articles[a] = Queue!SeededArticle(i, a)

\* An owner that may finish has written everything, the counters last.
Counted ==
  \A i \in Initializer :
    Queue!Owns(i) /\ seeding[i] = "finish" =>
      left[i] = {} /\ stats = [s \in Shard |-> Queue!SeededStats(i, s)]

\* A ready queue is as the owner of its control document has left it, but for the work
\* that is done on its articles.
Ready ==
  control.state = "ready" =>
    /\ control.token \in Initializer
    /\ \A a \in Article :
         LET seeded == Queue!SeededArticle(control.token, a)
         IN articles[a] \in {seeded, [seeded EXCEPT !.by = Worker]}
    /\ stats = [s \in Shard |-> Queue!SeededStats(control.token, s)]

QInv == QueueTypes /\ Sent /\ Current /\ Unstarted /\ Seeded /\ Counted /\ Ready

USE DEF Queue!Owns

LEMMA QueueInitially == Queue!Init => QInv
<1> SUFFICES ASSUME Queue!Init PROVE QInv
  OBVIOUS
<1>1. QueueTypes
  BY DEF Queue!Init, QueueTypes, Queue!NoControl, Queue!NoArticle
<1>2. Sent /\ Current /\ Unstarted
  BY DEF Queue!Init, Sent, Current, Unstarted, Queue!NoControl
<1>3. Seeded /\ Counted /\ Ready
  BY DEF Queue!Init, Seeded, Counted, Ready, Queue!NoControl
<1> QED BY <1>1, <1>2, <1>3 DEF QInv

\* A reservation makes the initializer the owner; it has written nothing yet.
LEMMA QueueReserve ==
  ASSUME QInv, NEW i \in Initializer, Queue!Reserve(i)
  PROVE  QInv'
<1>1. CASE control' = control
  <2>1. \E to \in {"failed", "found"} : seeding' = [seeding EXCEPT ![i] = to]
    <3>1. ASSUME control.state = "initializing" \/ control.state = "none", Queue!MayReserve(i), Queue!SameManifest(i) PROVE FALSE
      <4>1. control'.version = control.version + 1 /\ control.version \in Nat
        BY <3>1 DEF Queue!Reserve, QInv, QueueTypes
      <4> QED BY <1>1, <4>1
    <3> QED BY <3>1 DEF Queue!Reserve, Queue!Go, QInv, QueueTypes
  <2>2. UNCHANGED <<control, articles, stats, left, read, batches>> /\ seeding[i] = "start"
    BY <1>1 DEF Queue!Reserve, Queue!Documents, Queue!Progress
  <2>3. (QueueTypes /\ Sent /\ Current /\ Unstarted)'
    BY <2>1, <2>2 DEF QInv, QueueTypes, Sent, Current, Unstarted
  <2>4. (Seeded /\ Counted /\ Ready)'
    BY <2>1, <2>2 DEF QInv, QueueTypes, Seeded, Counted, Ready, Queue!SeededArticle, Queue!SeededStats
  <2> QED BY <2>3, <2>4 DEF QInv
<1>2. CASE control' # control
  <2>1. /\ seeding[i] = "start" /\ control.state \in {"none", "initializing"}
        /\ seeding' = [seeding EXCEPT ![i] = "read"]
        /\ \E lag \in 0..Lag :
             control' = [state |-> "initializing", token |-> i, manifest |-> ManifestOf[i],
                         expires |-> Lease - lag, version |-> control.version + 1]
        /\ UNCHANGED <<articles, stats, left, read, batches>>
    BY <1>2 DEF Queue!Reserve, Queue!Documents, Queue!Progress, Queue!Go
  <2>2. /\ control'.version = control.version + 1 /\ control'.token = i
        /\ control'.state = "initializing" /\ control.version \in Nat
    BY <2>1 DEF QInv, QueueTypes
  <2>3. QueueTypes'
    BY <2>1, QueueAssumption DEF QInv, QueueTypes, Queue!InitAssumption
  <2>4. Sent' /\ Current' /\ Unstarted'
    BY <2>1, <2>2 DEF QInv, QueueTypes, Sent, Current, Unstarted
  <2>5. Seeded' /\ Counted' /\ Ready'
    BY <2>1, <2>2 DEF QInv, QueueTypes, Unstarted, Seeded, Counted, Ready
  <2> QED BY <2>3, <2>4, <2>5 DEF QInv
<1> QED BY <1>1, <1>2

LEMMA QueueReadControl ==
  ASSUME QInv, NEW i \in Initializer, Queue!ReadControl(i)
  PROVE  QInv'
<1>1. /\ seeding[i] = "read" /\ UNCHANGED <<control, articles, stats, left>>
      /\ \/ Queue!Owns(i) /\ seeding' = [seeding EXCEPT ![i] = "commit"]
            /\ read' = [read EXCEPT ![i] = control.version] /\ batches' = batches \cup {i}
         \/ seeding' = [seeding EXCEPT ![i] = "failed"] /\ UNCHANGED <<read, batches>>
  BY DEF Queue!ReadControl, Queue!Documents, Queue!Go
<1>2. QueueTypes'
  BY <1>1 DEF QInv, QueueTypes
<1>3. Sent'
  BY <1>1 DEF QInv, QueueTypes, Sent
<1>4. Current' /\ Unstarted'
  BY <1>1 DEF QInv, QueueTypes, Sent, Current, Unstarted
<1>5. Seeded' /\ Counted' /\ Ready'
  BY <1>1 DEF QInv, QueueTypes, Seeded, Counted, Ready, Queue!SeededArticle, Queue!SeededStats
<1> QED BY <1>2, <1>3, <1>4, <1>5 DEF QInv

\* A batch that is accepted is the owner's, and adds to what the owner has written.
LEMMA QueueCommit ==
  ASSUME QInv, NEW i \in Initializer, Queue!Commit(i)
  PROVE  QInv'
<1>1. i \in batches /\ batches' = batches \ {i} /\ read' = read /\ seeding[i] \in {"commit", "failed"}
  BY DEF Queue!Commit, QInv, Sent
<1>2. CASE ~Queue!SameVersion(i)
  <2>1. seeding' = [seeding EXCEPT ![i] = "failed"] /\ UNCHANGED <<control, articles, stats, left>>
    BY <1>2 DEF Queue!Commit, Queue!Go
  <2>2. (QueueTypes /\ Sent /\ Current /\ Unstarted)'
    BY <1>1, <2>1 DEF QInv, QueueTypes, Sent, Current, Unstarted
  <2>3. (Seeded /\ Counted /\ Ready)'
    BY <2>1 DEF QInv, QueueTypes, Seeded, Counted, Ready, Queue!SeededArticle, Queue!SeededStats
  <2> QED BY <2>2, <2>3 DEF QInv
<1>3. CASE Queue!SameVersion(i)
  <2>1. Queue!Owns(i) /\ control.version \in Nat
    BY <1>1, <1>3 DEF QInv, QueueTypes, Current, Queue!SameVersion
  <2>2. control' = [control EXCEPT !.expires = Lease, !.version = control.version + 1]
    BY <1>3 DEF Queue!Commit, Queue!Renewed
  <2>3. /\ control'.version = control.version + 1 /\ control'.token = control.token
        /\ control'.state = control.state
    BY <2>2 DEF QInv, QueueTypes
  <2>4. Queue!SeedBatch(i)
    BY <1>3 DEF Queue!Commit
  <2>5. \/ seeding[i] = "commit" /\ left[i] # {} /\ seeding' = [seeding EXCEPT ![i] = "read"]
        \/ seeding[i] = "commit" /\ left[i] = {} /\ seeding' = [seeding EXCEPT ![i] = "finish"]
        \/ seeding' = [seeding EXCEPT ![i] = "failed"]
    BY <1>3 DEF Queue!Commit, Queue!Go
  <2>6. \/ /\ left[i] = {} /\ UNCHANGED <<articles, left>>
           /\ stats' = [s \in Shard |-> Queue!SeededStats(i, s)]
        \/ /\ left[i] # {} /\ UNCHANGED stats
           /\ \E a \in left[i] : /\ articles' = [articles EXCEPT ![a] = Queue!SeededArticle(i, a)]
                                /\ left' = [left EXCEPT ![i] = left[i] \ {a}]
    BY <2>4 DEF Queue!SeedBatch
  <2>7. QueueTypes'
    <3> DEFINE Manifests == {ManifestOf[j] : j \in Initializer} \cup {None}
               Controls == [state : {"none", "initializing", "ready"}, token : Initializer \cup {None},
                            manifest : Manifests, expires : Int, version : Nat]
               Contents == [state : {"none", "ready", "done"}, by : Initializer \cup {Worker, None}]
    <3>1. control \in Controls /\ articles \in [Article -> Contents] /\ left \in [Initializer -> SUBSET Article]
      BY DEF QInv, QueueTypes
    <3>2. Lease \in Int
      BY QueueAssumption DEF Queue!InitAssumption
    <3>3. control' \in Controls
      <4>1. control' = [state |-> control.state, token |-> control.token, manifest |-> control.manifest,
                        expires |-> Lease, version |-> control.version + 1]
        BY <2>2, <3>1
      <4>2. control.version + 1 \in Nat
        BY <2>1
      <4> HIDE DEF Manifests
      <4> QED BY <3>1, <3>2, <4>1, <4>2
    <3>4. \A a \in Article : Queue!SeededArticle(i, a) \in Contents
      BY DEF Queue!SeededArticle
    <3>5. articles' \in [Article -> Contents] /\ left' \in [Initializer -> SUBSET Article]
      <4> HIDE DEF Contents
      <4>1. \A a \in left[i] : a \in Article /\ Queue!SeededArticle(i, a) \in Contents
        BY <3>1, <3>4
      <4>2. CASE UNCHANGED <<articles, left>>
        BY <3>1, <4>2
      <4>3. ASSUME NEW a \in left[i], articles' = [articles EXCEPT ![a] = Queue!SeededArticle(i, a)],
                   left' = [left EXCEPT ![i] = left[i] \ {a}]
            PROVE  articles' \in [Article -> Contents] /\ left' \in [Initializer -> SUBSET Article]
        BY <3>1, <4>1, <4>3
      <4> QED BY <2>6, <4>2, <4>3
    <3> QED BY <1>1, <2>5, <3>3, <3>5 DEF QInv, QueueTypes
  <2>8. Sent' /\ Current' /\ Unstarted'
    <3>1. Sent' /\ Current'
      BY <1>1, <2>1, <2>3, <2>5 DEF QInv, QueueTypes, Sent, Current
    <3>2. Unstarted'
      BY <1>1, <2>5, <2>6 DEF QInv, QueueTypes, Unstarted
    <3> QED BY <3>1, <3>2
  <2>9. Seeded'
    BY <2>1, <2>3, <2>6 DEF QInv, QueueTypes, Seeded, Queue!SeededArticle
  <2>10. Counted'
    <3> SUFFICES ASSUME NEW j \in Initializer, Queue!Owns(j)', seeding'[j] = "finish"
                 PROVE  left'[j] = {} /\ stats' = [s \in Shard |-> Queue!SeededStats(j, s)]
      BY DEF Counted, Queue!SeededStats
    <3>1. j = i
      BY <2>1, <2>3
    <3>2. left[i] = {}
      BY <1>1, <2>5, <3>1 DEF QInv, QueueTypes
    <3> QED BY <2>6, <3>1, <3>2
  <2>11. Ready'
    BY <2>1, <2>3 DEF Ready
  <2> QED BY <2>7, <2>8, <2>9, <2>10, <2>11 DEF QInv
<1> QED BY <1>2, <1>3

\* The owner that finishes makes ready what it has written.
LEMMA QueueFinish ==
  ASSUME QInv, NEW i \in Initializer, Queue!Finish(i)
  PROVE  QInv'
<1>1. seeding[i] = "finish" /\ UNCHANGED <<articles, stats, left, read, batches>>
  BY DEF Queue!Finish, Queue!Documents, Queue!Progress
<1>2. CASE Queue!Owns(i)
  <2>1. /\ control' = [control EXCEPT !.state = "ready", !.expires = 0, !.version = control.version + 1]
        /\ \E to \in {"finished", "failed"} : seeding' = [seeding EXCEPT ![i] = to]
    BY <1>2 DEF Queue!Finish, Queue!MayFinish, Queue!Go
  <2>2. /\ control'.state = "ready" /\ control'.token = i /\ control'.version = control.version + 1
        /\ control.version \in Nat
    BY <1>2, <2>1 DEF QInv, QueueTypes
  <2>3. QueueTypes'
    <3> DEFINE Manifests == {ManifestOf[j] : j \in Initializer} \cup {None}
               Controls == [state : {"none", "initializing", "ready"}, token : Initializer \cup {None},
                            manifest : Manifests, expires : Int, version : Nat]
    <3>1. control \in Controls
      BY DEF QInv, QueueTypes
    <3>2. control' \in Controls
      <4>1. control' = [state |-> "ready", token |-> control.token, manifest |-> control.manifest,
                        expires |-> 0, version |-> control.version + 1]
        BY <2>1, <3>1
      <4>2. control.version + 1 \in Nat
        BY <2>2
      <4> HIDE DEF Manifests
      <4> QED BY <3>1, <4>1, <4>2
    <3> QED BY <1>1, <2>1, <3>2 DEF QInv, QueueTypes
  <2>4. Sent' /\ Current' /\ Unstarted'
    BY <1>1, <2>1, <2>2 DEF QInv, QueueTypes, Sent, Current, Unstarted
  <2>5. Seeded' /\ Counted'
    BY <2>2 DEF Seeded, Counted
  <2>6. /\ \A a \in Article : articles[a] = Queue!SeededArticle(i, a)
        /\ stats = [s \in Shard |-> Queue!SeededStats(i, s)]
    BY <1>1, <1>2 DEF QInv, Seeded, Counted
  <2>7. Ready'
    BY <1>1, <2>2, <2>6 DEF Ready, Queue!SeededArticle, Queue!SeededStats
  <2> QED BY <2>3, <2>4, <2>5, <2>7 DEF QInv
<1>3. CASE ~Queue!Owns(i)
  <2>1. seeding' = [seeding EXCEPT ![i] = "failed"] /\ UNCHANGED control
    BY <1>3 DEF Queue!Finish, Queue!MayFinish, Queue!Go
  <2>2. (QueueTypes /\ Sent /\ Current /\ Unstarted)'
    BY <1>1, <2>1 DEF QInv, QueueTypes, Sent, Current, Unstarted
  <2>3. (Seeded /\ Counted /\ Ready)'
    BY <1>1, <2>1 DEF QInv, QueueTypes, Seeded, Counted, Ready, Queue!SeededArticle, Queue!SeededStats
  <2> QED BY <2>2, <2>3 DEF QInv
<1> QED BY <1>2, <1>3

LEMMA QueueFail ==
  ASSUME QInv, NEW i \in Initializer, Queue!Fail(i)
  PROVE  QInv'
<1>1. /\ seeding[i] # "start" /\ seeding' = [seeding EXCEPT ![i] = "failed"]
      /\ UNCHANGED <<control, articles, stats, left, read, batches>>
  BY DEF Queue!Fail, Queue!Documents, Queue!Progress, Queue!Go
<1>2. (QueueTypes /\ Sent /\ Current /\ Unstarted)'
  BY <1>1 DEF QInv, QueueTypes, Sent, Current, Unstarted
<1>3. (Seeded /\ Counted /\ Ready)'
  BY <1>1 DEF QInv, QueueTypes, Seeded, Counted, Ready, Queue!SeededArticle, Queue!SeededStats
<1> QED BY <1>2, <1>3 DEF QInv

\* Work on a ready queue, and time that passes.
LEMMA QueueWork ==
  ASSUME QInv, NEW a \in Article, Queue!Work(a)
  PROVE  QInv'
<1>1. /\ control.state = "ready" /\ articles' = [articles EXCEPT ![a].by = Worker]
      /\ UNCHANGED <<control, stats, seeding, left, read, batches>>
  BY DEF Queue!Work, Queue!Progress
<1>2. QueueTypes'
  BY <1>1 DEF QInv, QueueTypes
<1>3. (Sent /\ Current /\ Unstarted /\ Seeded /\ Counted)'
  BY <1>1 DEF QInv, Sent, Current, Unstarted, Seeded, Counted
<1>4. Ready'
  <2>1. \A b \in Article \ {a} : articles'[b] = articles[b]
    BY <1>1 DEF QInv, QueueTypes
  <2>2. articles'[a] = [articles[a] EXCEPT !.by = Worker]
    BY <1>1 DEF QInv, QueueTypes
  <2> DEFINE seeded(b) == Queue!SeededArticle(control.token, b)
  <2>3. \A b \in Article : /\ articles[b] \in {seeded(b), [seeded(b) EXCEPT !.by = Worker]}
                           /\ [seeded(b) EXCEPT !.by = Worker] = [[seeded(b) EXCEPT !.by = Worker] EXCEPT !.by = Worker]
    BY <1>1 DEF QInv, Ready, Queue!SeededArticle
  <2>4. \A b \in Article : articles'[b] \in {seeded(b), [seeded(b) EXCEPT !.by = Worker]}
    <3> HIDE DEF seeded
    <3> QED BY <2>1, <2>2, <2>3
  <2>5. /\ control.token \in Initializer /\ stats = [s \in Shard |-> Queue!SeededStats(control.token, s)]
    BY <1>1 DEF QInv, Ready
  <2> QED BY <1>1, <2>4, <2>5 DEF Ready, Queue!SeededArticle, Queue!SeededStats
<1> QED BY <1>2, <1>3, <1>4 DEF QInv

LEMMA QueueTick ==
  ASSUME QInv, Queue!Tick
  PROVE  QInv'
<1>1. /\ control' = [control EXCEPT !.expires = IF control.expires > 0 THEN control.expires - 1 ELSE 0]
      /\ UNCHANGED <<articles, stats, seeding, left, read, batches>>
  BY DEF Queue!Tick, Queue!Documents, Queue!Progress
<1>2. control'.state = control.state /\ control'.token = control.token /\ control'.version = control.version
  BY <1>1 DEF QInv, QueueTypes
<1>3. QueueTypes'
  <2> DEFINE Manifests == {ManifestOf[j] : j \in Initializer} \cup {None}
             Controls == [state : {"none", "initializing", "ready"}, token : Initializer \cup {None},
                          manifest : Manifests, expires : Int, version : Nat]
  <2>1. control \in Controls
    BY DEF QInv, QueueTypes
  <2>2. control' \in Controls
    <3> HIDE DEF Manifests
    <3> QED BY <1>1, <2>1
  <2> QED BY <1>1, <2>2 DEF QInv, QueueTypes
<1>4. (Sent /\ Current /\ Unstarted)'
  BY <1>1, <1>2 DEF QInv, Sent, Current, Unstarted
<1>5. (Seeded /\ Counted /\ Ready)'
  BY <1>1, <1>2 DEF QInv, Seeded, Counted, Ready, Queue!SeededArticle, Queue!SeededStats
<1> QED BY <1>3, <1>4, <1>5 DEF QInv

LEMMA QueuePreserved == QInv /\ [Queue!Next]_queueVars => QInv'
<1> SUFFICES ASSUME QInv, [Queue!Next]_queueVars PROVE QInv'
  OBVIOUS
<1>1. CASE UNCHANGED queueVars
  <2>1. UNCHANGED <<control, articles, stats, seeding, left, read, batches>>
    BY <1>1 DEF queueVars
  <2>2. (QueueTypes /\ Sent /\ Current /\ Unstarted)'
    BY <2>1 DEF QInv, QueueTypes, Sent, Current, Unstarted
  <2>3. (Seeded /\ Counted /\ Ready)'
    BY <2>1 DEF QInv, Seeded, Counted, Ready, Queue!SeededArticle, Queue!SeededStats
  <2> QED BY <2>2, <2>3 DEF QInv
<1>2. CASE Queue!Next
  BY <1>2, QueueReserve, QueueReadControl, QueueCommit, QueueFinish, QueueFail, QueueWork, QueueTick
     DEF Queue!Next
<1> QED BY <1>1, <1>2

\* Whatever initializers die, come late or run into each other: a queue that is ready is
\* one initializer's, whole, and its counters count its documents.
THEOREM SeededWhole == LaunchSpec => []ReadyIsWhole
<1>1. LaunchInit => QInv
  BY QueueInitially DEF LaunchInit
<1>2. QInv /\ [LaunchNext]_<<part, launchVars, continuationVars, queueVars>> => QInv'
  <2>1. [LaunchNext]_<<part, launchVars, continuationVars, queueVars>> => [Queue!Next]_queueVars
    BY DEF LaunchNext
  <2> QED BY <2>1, QueuePreserved
<1>3. QInv => ReadyIsWhole
  <2> SUFFICES ASSUME QInv, control.state = "ready" PROVE ReadyIsWhole
    BY DEF ReadyIsWhole, Queue!ReadyIsWhole
  <2> DEFINE seeded(a) == Queue!SeededArticle(control.token, a)
  <2>1. /\ \A a \in Article : articles[a] \in {seeded(a), [seeded(a) EXCEPT !.by = Worker]}
        /\ stats = [s \in Shard |-> Queue!SeededStats(control.token, s)]
    BY DEF QInv, Ready
  <2>2. ASSUME NEW a \in Article PROVE articles[a].state = "done" <=> a \in DoneOf[control.token]
    <3>1. seeded(a).state = [seeded(a) EXCEPT !.by = Worker].state
      BY DEF Queue!SeededArticle
    <3>2. articles[a].state = seeded(a).state
      BY <2>1, <3>1
    <3> QED BY <3>2 DEF Queue!SeededArticle
  <2>3. ASSUME NEW s \in Shard
        PROVE  /\ stats[s].total = Queue!Cardinality({a \in Article : ShardOf[a] = s})
               /\ stats[s].done = Queue!Cardinality({a \in Article : ShardOf[a] = s /\ articles[a].state = "done"})
    <3>1. {a \in Article : ShardOf[a] = s} \cap DoneOf[control.token]
            = {a \in Article : ShardOf[a] = s /\ articles[a].state = "done"}
      BY <2>2
    <3> DEFINE of(t) == Queue!SeededStats(control.token, t)
    <3>2. stats = [t \in Shard |-> of(t)]
      BY <2>1
    <3>3. stats[s] = of(s)
      <4> HIDE DEF of
      <4> QED BY <3>2
    <3> DEFINE total == Queue!Cardinality({a \in Article : ShardOf[a] = s})
               ended == Queue!Cardinality({a \in Article : ShardOf[a] = s} \cap DoneOf[control.token])
    <3>4. of(s).total = total /\ of(s).done = ended
      <4>1. of(s) = [total |-> total, done |-> ended, by |-> control.token]
        BY DEF Queue!SeededStats
      <4> HIDE DEF of, total, ended
      <4> QED BY <4>1
    <3>5. stats[s].total = total /\ stats[s].done = ended
      <4> HIDE DEF of, total, ended
      <4> QED BY <3>3, <3>4
    <3> QED BY <3>1, <3>5
  <2> QED BY <2>1, <2>3 DEF ReadyIsWhole, Queue!ReadyIsWhole
<1> QED BY <1>1, <1>2, <1>3, PTL DEF LaunchSpec
HIDE DEF Queue!Owns

-----------------------------------------------------------------------------
(* The coordinator goes on                                                 *)

Stages == {"checkStop", "launch", "running", "confirm", "progress", "sleep", "guard", "paused", "raised",
           "returned", "stuck"}
Steps == [at : Stages, why : {"start", "rotation", "recovery"}, failed : BOOLEAN, restarts : Nat, until : Int]
Places == {"none", "due", "up", "joined", "finished", "ok", "temporary", "permanent", "silent"}
Reports == [state : {"none", "running", "completed", "continuing", "paused", "failed"}, attempt : Nat, marked : BOOLEAN]

ContinueTypes ==
  /\ wf \in Steps
  /\ execution \in Nat /\ tasks \in [Task -> [at : Places, attempt : 0..MaxRetries]]
  /\ reports \in [Task -> Reports] /\ progress.workers \in [Task -> Reports]
  /\ progress.execution \in Nat /\ progress.execution <= execution
  /\ progress.recoverable \in BOOLEAN

\* Every task of an execution has at least been scheduled.
Scheduled == execution > 0 => \A t \in Task : tasks[t].at # "none"

\* From the confirmation on, the latest execution is over.
Confirmed ==
  wf.at \in {"progress", "sleep", "guard", "checkStop", "launch"} /\ execution > 0 =>
    ~cancelled /\ \A t \in Task : Continue!IsOver(t)

\* A marked report is that of an attempt which has ended so, or of an earlier one.
Marks(rs) ==
  \A t \in Task :
    rs[t].state = "failed" /\ rs[t].marked =>
      \/ rs[t].attempt < tasks[t].attempt
      \/ rs[t].attempt = tasks[t].attempt /\ tasks[t].at = "temporary"

Marked == Marks(reports) /\ (progress.execution = execution => Marks(progress.workers))

\* A failure that may be recovered from is reported as such by every task that failed.
Reported ==
  progress.recoverable =>
    \A t \in Task : \/ progress.workers[t].state \in {"completed", "continuing"}
                    \/ progress.workers[t].state = "failed" /\ progress.workers[t].marked

\* A STOP that was there when the last execution was decided on is there still.
Stopped == (stopKept => stop) /\ (wf.at = "launch" => ~stopKept)

CInv == ContinueTypes /\ Scheduled /\ Confirmed /\ Marked /\ Reported /\ Stopped

USE DEF Stages, Places

LEMMA ContinueInitially == Continue!Init => CInv
<1> SUFFICES ASSUME Continue!Init PROVE CInv
  OBVIOUS
<1> USE DEF Continue!Init, Continue!Coordinator, Continue!Idle, Continue!NoReport, Continue!NoProgress
<1>1. ContinueTypes
  <2>1. wf \in Steps
    BY DEF Steps
  <2>2. /\ reports \in [Task -> Reports] /\ progress.workers \in [Task -> Reports] /\ progress.execution = 0
        /\ progress.recoverable = FALSE
    BY DEF Reports
  <2>3. tasks \in [Task -> [at : Places, attempt : 0..MaxRetries]] /\ execution = 0
    BY ContinueAssumption DEF Continue!ContinuationAssumption
  <2> QED BY <2>1, <2>2, <2>3 DEF ContinueTypes
<1>2. Scheduled /\ Confirmed /\ Reported /\ Stopped
  BY DEF Scheduled, Confirmed, Reported, Stopped
<1>3. Marked
  BY DEF Marked, Marks
<1> QED BY <1>1, <1>2, <1>3 DEF CInv

\* What a step of a task does to it, and to nothing else but the objects it publishes.
Moves(t) ==
  /\ UNCHANGED <<wf, execution, cancelled, stop, stopKept>>
  /\ tasks' \in [Task -> [at : Places, attempt : 0..MaxRetries]]
  /\ \A u \in Task \ {t} : tasks'[u] = tasks[u] /\ reports'[u] = reports[u]
  /\ \/ tasks'[t] = tasks[t]
     \/ /\ ~Continue!IsOver(t) /\ tasks'[t].at # "none"
        /\ \/ tasks'[t].attempt = tasks[t].attempt + 1
           \/ tasks'[t].attempt = tasks[t].attempt /\ tasks[t].at # "temporary"
  /\ reports' \in [Task -> Reports]
  /\ \/ reports'[t] = reports[t]
     \/ reports'[t].state = "failed" /\ reports'[t].marked =>
          reports'[t].attempt = tasks'[t].attempt /\ tasks'[t].at = "temporary"
  /\ Continue!Publish(reports') \/ UNCHANGED progress

LEMMA Published ==
  ASSUME NEW rs \in [Task -> Reports], Continue!Publish(rs)
  PROVE  \/ UNCHANGED progress
         \/ /\ progress'.execution = execution /\ progress'.workers = rs /\ progress'.recoverable \in BOOLEAN
            /\ progress'.recoverable =>
                 \A t \in Task : \/ rs[t].state \in {"completed", "continuing"}
                                 \/ rs[t].state = "failed" /\ rs[t].marked
<1>1. CASE UNCHANGED progress
  BY <1>1
<1>2. ASSUME NEW d \in BOOLEAN,
             progress' = [execution |-> execution, state |-> Continue!AggregateState(rs),
                          recoverable |-> Continue!RecoverableCohort(rs),
                          downloading |-> d /\ Continue!AggregateState(rs) = "running",
                          pending |-> pending, workers |-> rs]
      PROVE  /\ progress'.execution = execution /\ progress'.workers = rs
             /\ progress'.recoverable = Continue!RecoverableCohort(rs)
  BY <1>2
<1>3. Continue!RecoverableCohort(rs) \in BOOLEAN
  BY DEF Continue!RecoverableCohort
<1>4. Continue!RecoverableCohort(rs) =>
        \A t \in Task : \/ rs[t].state \in {"completed", "continuing"}
                        \/ rs[t].state = "failed" /\ rs[t].marked
  BY DEF Continue!RecoverableCohort
<1> QED BY <1>1, <1>2, <1>3, <1>4 DEF Continue!Publish

LEMMA MovesKeeps ==
  ASSUME CInv, NEW t \in Task, Moves(t)
  PROVE  CInv'
<1>1. reports' \in [Task -> Reports] /\ (Continue!Publish(reports') \/ UNCHANGED progress)
  BY DEF Moves
<1>2. \/ UNCHANGED progress
      \/ /\ progress'.execution = execution /\ progress'.workers = reports' /\ progress'.recoverable \in BOOLEAN
         /\ progress'.recoverable =>
              \A u \in Task : \/ reports'[u].state \in {"completed", "continuing"}
                              \/ reports'[u].state = "failed" /\ reports'[u].marked
  BY <1>1, Published
<1>3. ContinueTypes'
  <2>1. progress'.workers \in [Task -> Reports] /\ progress'.execution \in Nat /\ progress'.execution <= execution
        /\ progress'.recoverable \in BOOLEAN
    BY <1>1, <1>2 DEF CInv, ContinueTypes
  <2> QED BY <1>1, <2>1 DEF CInv, ContinueTypes, Moves
<1>4. Scheduled' /\ Stopped'
  BY DEF CInv, Scheduled, Stopped, Moves
<1>5. Confirmed'
  BY DEF CInv, Confirmed, Moves, Continue!IsOver, Continue!Ended
<1>6. Marked'
  <2>1. Marks(reports)'
    <3>1. Marks(reports) /\ reports \in [Task -> Reports]
      BY DEF CInv, Marked, ContinueTypes
    <3>2. ASSUME NEW u \in Task, reports'[u] = reports[u], reports'[u].state = "failed", reports'[u].marked
          PROVE  \/ reports'[u].attempt < tasks'[u].attempt
                 \/ reports'[u].attempt = tasks'[u].attempt /\ tasks'[u].at = "temporary"
      <4>1. \/ tasks'[u] = tasks[u] \/ tasks'[u].attempt = tasks[u].attempt + 1
            \/ tasks'[u].attempt = tasks[u].attempt /\ tasks[u].at # "temporary"
        BY DEF Moves
      <4>2. reports[u].attempt \in Nat /\ tasks[u].attempt \in Int
        BY <3>1, ContinueAssumption DEF Reports, CInv, ContinueTypes, Continue!ContinuationAssumption
      <4> QED BY <3>1, <3>2, <4>1, <4>2 DEF Marks
    <3> QED BY <3>2 DEF Marks, Moves
  <2>2. CASE UNCHANGED progress
    <3>1. progress.execution = execution => Marks(progress.workers)
      BY DEF CInv, Marked
    <3>2. ASSUME Marks(progress.workers) PROVE Marks(progress.workers)'
      <4>1. ASSUME NEW u \in Task
            PROVE  \/ tasks'[u] = tasks[u] \/ tasks'[u].attempt = tasks[u].attempt + 1
                   \/ tasks'[u].attempt = tasks[u].attempt /\ tasks[u].at # "temporary"
        BY DEF Moves
      <4>2. \A u \in Task : progress.workers[u].attempt \in Nat /\ tasks[u].attempt \in Int
        BY ContinueAssumption DEF Reports, CInv, ContinueTypes, Continue!ContinuationAssumption
      <4> QED BY <2>2, <3>2, <4>1, <4>2 DEF Marks
    <3> QED BY <2>1, <2>2, <3>1, <3>2 DEF Marked, Moves
  <2>3. CASE progress'.execution = execution /\ progress'.workers = reports'
    BY <2>1, <2>3 DEF Marked, Marks
  <2> QED BY <1>2, <2>2, <2>3
<1>7. Reported'
  BY <1>2 DEF CInv, Reported
<1> QED BY <1>3, <1>4, <1>5, <1>6, <1>7 DEF CInv

\* Each step of a task moves it so.
LEMMA TasksMove ==
  ASSUME CInv, NEW t \in Task,
         \/ Continue!StartTask(t) \/ Continue!Join(t) \/ Continue!Crawl(t) \/ Continue!Finish(t)
         \/ Continue!Exit(t) \/ (\E m \in BOOLEAN : Continue!Abort(t, m)) \/ Continue!Crash(t)
  PROVE  Moves(t)
<1>1. /\ MaxRetries \in Nat /\ tasks \in [Task -> [at : Places, attempt : 0..MaxRetries]]
      /\ reports \in [Task -> Reports]
  BY ContinueAssumption DEF CInv, ContinueTypes, Continue!ContinuationAssumption
<1> DEFINE Attempts == [at : Places, attempt : 0..MaxRetries]
\* A step that ends at another place, in the same attempt.
<1>2. ASSUME NEW to \in Places, to # "none", tasks' = [tasks EXCEPT ![t].at = to],
             tasks[t].at \in {"due", "up", "joined", "finished"}
      PROVE  /\ tasks' \in [Task -> Attempts] /\ (\A u \in Task \ {t} : tasks'[u] = tasks[u])
             /\ ~Continue!IsOver(t) /\ tasks'[t].at = to /\ tasks'[t].attempt = tasks[t].attempt
             /\ tasks[t].at # "temporary"
  BY <1>1, <1>2 DEF Continue!IsOver, Continue!Ended
\* A report of the attempt.
<1>3. ASSUME NEW state \in {"running", "completed", "continuing", "paused", "failed"}, NEW marked \in BOOLEAN,
             Continue!Report(t, state, marked)
      PROVE  /\ reports' \in [Task -> Reports] /\ (\A u \in Task \ {t} : reports'[u] = reports[u])
             /\ reports'[t].state = state /\ reports'[t].attempt = tasks[t].attempt /\ reports'[t].marked = marked
  <2>1. [state |-> state, attempt |-> tasks[t].attempt, marked |-> marked] \in Reports
    BY <1>1 DEF Reports
  <2> QED BY <1>1, <1>3, <2>1 DEF Continue!Report
<1>4. ASSUME Continue!StartTask(t) PROVE Moves(t)
  <2>1. UNCHANGED <<wf, execution, reports, cancelled, progress, stop, stopKept>> /\ "up" \in Places
    BY <1>4 DEF Continue!StartTask, Continue!Storage
  <2>2. CASE tasks[t].at = "due" /\ tasks' = [tasks EXCEPT ![t].at = "up"]
    <3>1. tasks[t].at \in {"due", "up", "joined", "finished"} /\ "up" # "none"
      BY <2>2
    <3> QED BY <1>1, <1>2, <2>1, <2>2, <3>1 DEF Moves
  <2>3. CASE /\ tasks[t].at \in Continue!Ended \ {"ok"} /\ tasks[t].attempt < MaxRetries
             /\ tasks' = [tasks EXCEPT ![t] = [at |-> "up", attempt |-> tasks[t].attempt + 1]]
    <3>1. tasks[t].attempt + 1 \in 0..MaxRetries
      BY <1>1, <2>3
    <3>2. ~Continue!IsOver(t)
      BY <1>1, <2>3 DEF Continue!IsOver
    <3>3. /\ tasks' \in [Task -> Attempts] /\ (\A u \in Task \ {t} : tasks'[u] = tasks[u])
          /\ tasks'[t].at = "up" /\ tasks'[t].attempt = tasks[t].attempt + 1
      BY <1>1, <2>3, <3>1
    <3> QED BY <1>1, <2>1, <3>2, <3>3 DEF Moves
  <2> QED BY <1>4, <2>2, <2>3 DEF Continue!StartTask
<1>5. ASSUME Continue!Join(t) PROVE Moves(t)
  <2>1. /\ UNCHANGED <<wf, execution, cancelled, stop, stopKept>> /\ Continue!Publish(reports')
        /\ tasks' = [tasks EXCEPT ![t].at = "joined"] /\ Continue!Report(t, "running", FALSE)
        /\ tasks[t].at \in {"due", "up", "joined", "finished"}
    BY <1>5 DEF Continue!Join
  <2>2. "joined" \in Places /\ "joined" # "none" /\ FALSE \in BOOLEAN
        /\ "running" \in {"running", "completed", "continuing", "paused", "failed"}
    OBVIOUS
  <2>3. reports' \in [Task -> Reports] /\ (\A u \in Task \ {t} : reports'[u] = reports[u]) /\ reports'[t].state # "failed"
    BY <1>3, <2>1, <2>2
  <2> QED BY <1>2, <2>1, <2>2, <2>3 DEF Moves
<1>6. ASSUME Continue!Crawl(t) PROVE Moves(t)
  <2>1. UNCHANGED <<wf, execution, tasks, reports, cancelled, stop, stopKept>> /\ Continue!Publish(reports)
    BY <1>6 DEF Continue!Crawl, Continue!Cloud
  <2>2. Continue!Publish(reports')
    BY <2>1 DEF Continue!Publish, Continue!AggregateState, Continue!RecoverableCohort
  <2> QED BY <1>1, <2>1, <2>2 DEF Moves
<1>7. ASSUME Continue!Finish(t) PROVE Moves(t)
  <2>1. /\ UNCHANGED <<wf, execution, cancelled, stop, stopKept>> /\ Continue!Publish(reports')
        /\ tasks' = [tasks EXCEPT ![t].at = "finished"]
        /\ Continue!Report(t, IF stop THEN "paused" ELSE IF pending = 0 THEN "completed" ELSE "continuing", FALSE)
        /\ tasks[t].at \in {"due", "up", "joined", "finished"}
    BY <1>7 DEF Continue!Finish, Continue!Running
  <2>2. "finished" \in Places /\ "finished" # "none" /\ FALSE \in BOOLEAN
        /\ (IF stop THEN "paused" ELSE IF pending = 0 THEN "completed" ELSE "continuing")
             \in {"running", "completed", "continuing", "paused", "failed"}
        /\ (IF stop THEN "paused" ELSE IF pending = 0 THEN "completed" ELSE "continuing") # "failed"
    OBVIOUS
  <2>3. reports' \in [Task -> Reports] /\ (\A u \in Task \ {t} : reports'[u] = reports[u]) /\ reports'[t].state # "failed"
    BY <1>3, <2>1, <2>2
  <2> QED BY <1>2, <2>1, <2>2, <2>3 DEF Moves
<1>8. ASSUME Continue!Exit(t) PROVE Moves(t)
  <2>1. /\ UNCHANGED <<wf, execution, reports, cancelled, progress, stop, stopKept>>
        /\ tasks' = [tasks EXCEPT ![t].at = "ok"] /\ tasks[t].at \in {"due", "up", "joined", "finished"}
    BY <1>8 DEF Continue!Exit, Continue!EndAs
  <2>2. "ok" \in Places /\ "ok" # "none"
    OBVIOUS
  <2> QED BY <1>1, <1>2, <2>1, <2>2 DEF Moves
<1>9. ASSUME NEW m \in BOOLEAN, Continue!Abort(t, m) PROVE Moves(t)
  <2> DEFINE to == IF m THEN "temporary" ELSE "permanent"
  <2>1. /\ UNCHANGED <<wf, execution, cancelled, stop, stopKept>> /\ Continue!Publish(reports')
        /\ tasks' = [tasks EXCEPT ![t].at = to] /\ Continue!Report(t, "failed", m)
        /\ tasks[t].at \in {"due", "up", "joined", "finished"}
    BY <1>9 DEF Continue!Abort, Continue!EndAs
  <2>2. to \in Places /\ to # "none" /\ "failed" \in {"running", "completed", "continuing", "paused", "failed"}
    OBVIOUS
  <2>3. /\ reports' \in [Task -> Reports] /\ (\A u \in Task \ {t} : reports'[u] = reports[u])
        /\ reports'[t].attempt = tasks[t].attempt /\ reports'[t].marked = m
    BY <1>3, <2>1, <2>2
  <2>4. tasks'[t].at = to /\ tasks'[t].attempt = tasks[t].attempt
    BY <1>2, <2>1, <2>2
  <2>5. m => to = "temporary"
    OBVIOUS
  <2>6. reports'[t].marked => reports'[t].attempt = tasks'[t].attempt /\ tasks'[t].at = "temporary"
    BY <2>3, <2>4, <2>5
  <2> HIDE DEF to
  <2> QED BY <1>2, <2>1, <2>2, <2>3, <2>6 DEF Moves
<1>10. ASSUME Continue!Crash(t) PROVE Moves(t)
  <2>1. /\ UNCHANGED <<wf, execution, reports, cancelled, progress, stop, stopKept>>
        /\ tasks' = [tasks EXCEPT ![t].at = "silent"] /\ tasks[t].at \in {"due", "up", "joined", "finished"}
    BY <1>10 DEF Continue!Crash, Continue!EndAs, Continue!Storage
  <2>2. "silent" \in Places /\ "silent" # "none"
    OBVIOUS
  <2> QED BY <1>1, <1>2, <2>1, <2>2 DEF Moves
<1> QED BY <1>4, <1>5, <1>6, <1>7, <1>8, <1>9, <1>10

\* What operators do, and time that passes, leaves the tasks of an execution alone.
LEMMA OthersKeep ==
  ASSUME CInv, Continue!SetStop \/ Continue!ClearStop \/ Continue!Cancel \/ Continue!Reserve \/ Continue!Tick
  PROVE  CInv'
<1>1. UNCHANGED <<execution, tasks, reports, progress>> /\ wf'.at = wf.at /\ wf' \in Steps
  <2>1. UNCHANGED <<execution, tasks, reports, progress>>
    BY DEF Continue!SetStop, Continue!ClearStop, Continue!Cancel, Continue!Reserve, Continue!Tick, Continue!Cloud
  <2>2. wf \in Steps
    BY DEF CInv, ContinueTypes
  <2>3. CASE wf' = wf
    BY <2>1, <2>2, <2>3
  <2>4. CASE wf' = [wf EXCEPT !.until = IF wf.until > 0 THEN wf.until - 1 ELSE 0]
    <3> DEFINE rest == IF wf.until > 0 THEN wf.until - 1 ELSE 0
    <3>1. rest \in Int
      BY <2>2 DEF Steps
    <3>2. wf' = [wf EXCEPT !.until = rest]
      BY <2>4
    <3> HIDE DEF rest
    <3> QED BY <2>1, <2>2, <3>1, <3>2 DEF Steps
  <2>5. wf' = wf \/ wf' = [wf EXCEPT !.until = IF wf.until > 0 THEN wf.until - 1 ELSE 0]
    BY DEF Continue!SetStop, Continue!ClearStop, Continue!Cancel, Continue!Reserve, Continue!Tick
  <2> QED BY <2>1, <2>3, <2>4, <2>5
<1>2. (ContinueTypes /\ Scheduled /\ Marked /\ Reported)'
  BY <1>1 DEF CInv, ContinueTypes, Scheduled, Marked, Marks, Reported
<1>3. Confirmed'
  <2>1. CASE cancelled' = cancelled
    BY <1>1, <2>1 DEF CInv, Confirmed, Continue!IsOver
  <2>2. CASE Continue!Cancel
    BY <1>1, <2>2 DEF CInv, Confirmed, Continue!Cancel
  <2> QED BY <2>1, <2>2 DEF Continue!SetStop, Continue!ClearStop, Continue!Reserve, Continue!Tick, Continue!Cloud
<1>4. Stopped'
  <2>1. CASE Continue!SetStop
    BY <1>1, <2>1 DEF Stopped, Continue!SetStop
  <2>2. CASE UNCHANGED <<stop, stopKept>> \/ ~stopKept'
    BY <1>1, <2>2 DEF CInv, Stopped
  <2> QED BY <2>1, <2>2 DEF Continue!ClearStop, Continue!Cancel, Continue!Reserve, Continue!Tick
<1> QED BY <1>2, <1>3, <1>4 DEF CInv

\* A step of the coordinator that only moves it: to a decision only when the execution is
\* over, and to a launch only when there is no STOP.
LEMMA Goes ==
  ASSUME CInv, UNCHANGED <<execution, tasks, reports, cancelled, progress, stop>>, wf' \in Steps,
         \/ wf'.at \in {"running", "confirm", "paused", "raised", "returned", "stuck"}
         \/ /\ execution > 0 => ~cancelled /\ \A t \in Task : Continue!IsOver(t)
            /\ wf'.at \in {"progress", "sleep", "guard", "checkStop"},
         \/ stopKept' = stopKept \/ stopKept' = stop
  PROVE  CInv'
<1>1. (ContinueTypes /\ Scheduled /\ Marked /\ Reported)'
  BY DEF CInv, ContinueTypes, Scheduled, Marked, Marks, Reported
<1>2. Confirmed'
  BY DEF Confirmed, Continue!IsOver
<1>3. Stopped'
  BY DEF CInv, Stopped
<1> QED BY <1>1, <1>2, <1>3 DEF CInv

LEMMA CoordinatorKeeps ==
  ASSUME CInv,
         \/ Continue!CheckStop \/ Continue!LaunchLost \/ Continue!PollLost \/ Continue!Returned
         \/ Continue!Confirm \/ Continue!Decide \/ Continue!Wake \/ Continue!AwaitGuard
  PROVE  CInv'
<1> USE DEF Continue!Cloud, Continue!Storage, Continue!At, Continue!Go, Continue!Raise
<1>1. wf \in Steps /\ GuardDeadline \in Nat
  BY ContinueAssumption DEF CInv, ContinueTypes, Continue!ContinuationAssumption
<1>2. ASSUME NEW to \in Stages PROVE [wf EXCEPT !.at = to] \in Steps /\ [wf EXCEPT !.at = to].at = to
  BY <1>1 DEF Steps
<1>3. CASE Continue!CheckStop
  <2>1. /\ wf' = [wf EXCEPT !.at = IF stop THEN "paused" ELSE "launch"] /\ wf.at = "checkStop"
        /\ UNCHANGED <<execution, tasks, reports, cancelled, progress, stop, stopKept>>
    BY <1>3 DEF Continue!CheckStop
  <2>2. wf' \in Steps /\ wf'.at = IF stop THEN "paused" ELSE "launch"
    BY <1>2, <2>1
  <2>3. (ContinueTypes /\ Scheduled /\ Marked /\ Reported)'
    BY <2>1, <2>2 DEF CInv, ContinueTypes, Scheduled, Marked, Marks, Reported
  <2>4. Confirmed'
    BY <2>1, <2>2 DEF CInv, Confirmed, Continue!IsOver
  <2>5. Stopped'
    BY <2>1, <2>2 DEF CInv, Stopped
  <2> QED BY <2>3, <2>4, <2>5 DEF CInv
<1>4. CASE Continue!LaunchLost \/ Continue!PollLost
  <2>1. wf' = [wf EXCEPT !.at = "raised"] /\ UNCHANGED <<execution, tasks, reports, cancelled, progress, stop, stopKept>>
    BY <1>4 DEF Continue!LaunchLost, Continue!PollLost
  <2>2. wf' \in Steps /\ wf'.at = "raised"
    BY <1>2, <2>1
  <2> QED BY <2>1, <2>2, Goes
<1>5. CASE Continue!Returned
  <2>1. /\ wf' = [wf EXCEPT !.at = "confirm", !.failed = cancelled \/ Continue!Failed]
        /\ UNCHANGED <<execution, tasks, reports, cancelled, progress, stop, stopKept>>
    BY <1>5 DEF Continue!Returned
  <2>2. (cancelled \/ Continue!Failed) \in BOOLEAN
    OBVIOUS
  <2>3. wf' \in Steps /\ wf'.at = "confirm"
    BY <1>1, <2>1, <2>2 DEF Steps
  <2> QED BY <2>1, <2>3, Goes
<1>6. CASE Continue!Confirm
  <2>1. /\ wf' = [wf EXCEPT !.at = IF Continue!ConfirmedTermination THEN "progress" ELSE "raised"]
        /\ UNCHANGED <<execution, tasks, reports, cancelled, progress, stop, stopKept>>
    BY <1>6 DEF Continue!Confirm
  <2>2. wf' \in Steps /\ wf'.at = IF Continue!ConfirmedTermination THEN "progress" ELSE "raised"
    BY <1>2, <2>1
  <2>3. Continue!ConfirmedTermination /\ execution > 0 => ~cancelled /\ \A t \in Task : Continue!IsOver(t)
    BY DEF CInv, Scheduled, Continue!ConfirmedTermination, Continue!Alive
  <2> QED BY <2>1, <2>2, <2>3, Goes
<1>7. CASE Continue!Decide
  <2>1. execution > 0 => ~cancelled /\ \A t \in Task : Continue!IsOver(t)
    BY <1>7 DEF CInv, Confirmed, Continue!Decide
  <2>2. ASSUME NEW why \in {"rotation", "recovery"}, NEW to \in {"checkStop", "sleep"}, Continue!Decided(why, to)
        PROVE  /\ UNCHANGED <<execution, tasks, reports, cancelled, progress, stop>> /\ stopKept' = stop
               /\ wf' \in Steps /\ wf'.at = to
    <3> DEFINE restarts == IF why = "recovery" THEN wf.restarts + 1 ELSE wf.restarts
               until == IF why = "recovery" THEN wf.restarts + 1 ELSE wf.until
    <3>1. wf' = [wf EXCEPT !.at = to, !.why = why, !.restarts = restarts, !.until = until]
      BY <2>2 DEF Continue!Decided
    <3>2. restarts \in Nat /\ until \in Int
      BY <1>1 DEF Steps
    <3>3. wf' \in Steps /\ wf'.at = to
      <4> HIDE DEF restarts, until
      <4> QED BY <1>1, <3>1, <3>2 DEF Steps
    <3> QED BY <2>2, <3>3 DEF Continue!Decided
  <2>3. CASE Continue!Decided("rotation", "checkStop")
    BY <2>1, <2>2, <2>3, Goes
  <2>4. CASE Continue!Decided("recovery", "sleep")
    BY <2>1, <2>2, <2>4, Goes
  <2>5. ASSUME NEW to \in {"raised", "returned"}, wf' = [wf EXCEPT !.at = to],
               UNCHANGED <<execution, tasks, reports, cancelled, progress, stop, stopKept>>
        PROVE  CInv'
    <3>1. wf' \in Steps /\ wf'.at = to
      BY <1>2, <2>5
    <3> QED BY <2>5, <3>1, Goes
  <2> QED BY <1>7, <2>3, <2>4, <2>5 DEF Continue!Decide
<1>8. CASE Continue!Wake
  <2>1. /\ wf' = [wf EXCEPT !.at = "guard", !.until = GuardDeadline] /\ wf.at = "sleep"
        /\ UNCHANGED <<execution, tasks, reports, cancelled, progress, stop, stopKept>>
    BY <1>8 DEF Continue!Wake, Continue!WakeTo
  <2>2. wf' \in Steps /\ wf'.at = "guard"
    <3>1. GuardDeadline \in Int /\ "guard" \in Stages
      BY <1>1
    <3> QED BY <1>1, <2>1, <3>1 DEF Steps
  <2>3. execution > 0 => ~cancelled /\ \A t \in Task : Continue!IsOver(t)
    BY <2>1 DEF CInv, Confirmed
  <2> QED BY <2>1, <2>2, <2>3, Goes
<1>9. CASE Continue!AwaitGuard
  <2>1. \E to \in {"checkStop", "raised", "stuck", "guard"} : wf' = [wf EXCEPT !.at = to]
    BY <1>9 DEF Continue!AwaitGuard, Continue!ResumeAt
  <2>2. UNCHANGED <<execution, tasks, reports, cancelled, progress, stop, stopKept>> /\ wf.at = "guard"
    BY <1>9 DEF Continue!AwaitGuard
  <2>3. execution > 0 => ~cancelled /\ \A t \in Task : Continue!IsOver(t)
    BY <2>2 DEF CInv, Confirmed
  <2>4. wf' \in Steps /\ wf'.at \in {"checkStop", "raised", "stuck", "guard"}
    BY <1>2, <2>1
  <2> QED BY <2>2, <2>3, <2>4, Goes
<1> QED BY <1>3, <1>4, <1>5, <1>6, <1>7, <1>8, <1>9

\* A launch begins with an execution whose tasks have reported nothing.
LEMMA LaunchKeeps ==
  ASSUME CInv, Continue!Launch
  PROVE  CInv'
<1>1. /\ execution' = execution + 1 /\ tasks' = [t \in Task |-> [at |-> "due", attempt |-> 0]]
      /\ reports' = [t \in Task |-> [state |-> "none", attempt |-> 0, marked |-> FALSE]]
      /\ UNCHANGED <<progress, stop, stopKept>> /\ wf.at = "launch"
      /\ \E to \in {"running", "raised"} : wf' = [wf EXCEPT !.at = to]
  BY DEF Continue!Launch, Continue!Idle, Continue!NoReport, Continue!Storage, Continue!At
<1>2. wf' \in Steps /\ wf'.at \in {"running", "raised"}
  BY <1>1 DEF CInv, ContinueTypes, Steps
<1>3. ContinueTypes'
  <2>1. tasks' \in [Task -> [at : Places, attempt : 0..MaxRetries]] /\ reports' \in [Task -> Reports]
    BY <1>1, ContinueAssumption DEF Reports, Continue!ContinuationAssumption
  <2> QED BY <1>1, <1>2, <2>1 DEF CInv, ContinueTypes
<1>4. Scheduled' /\ Confirmed' /\ Stopped' /\ Reported'
  BY <1>1, <1>2 DEF CInv, Scheduled, Confirmed, Stopped, Reported
<1>5. Marked'
  BY <1>1 DEF CInv, ContinueTypes, Marked, Marks
<1> QED BY <1>3, <1>4, <1>5 DEF CInv

LEMMA ContinuePreserved == CInv /\ [Continue!Next]_continuationVars => CInv'
<1> SUFFICES ASSUME CInv, [Continue!Next]_continuationVars PROVE CInv'
  OBVIOUS
<1>1. CASE UNCHANGED continuationVars
  <2>1. UNCHANGED <<wf, execution, tasks, reports, cancelled, progress, stop, stopKept>>
    BY <1>1 DEF continuationVars
  <2>2. (ContinueTypes /\ Scheduled /\ Marked /\ Reported /\ Stopped)'
    BY <2>1 DEF CInv, ContinueTypes, Scheduled, Marked, Marks, Reported, Stopped
  <2>3. Confirmed'
    BY <2>1 DEF CInv, Confirmed, Continue!IsOver
  <2> QED BY <2>2, <2>3 DEF CInv
<1>2. ASSUME NEW t \in Task, Moves(t) PROVE CInv'
  BY <1>2, MovesKeeps
<1>3. CASE Continue!Next
  BY <1>2, <1>3, TasksMove, OthersKeep, CoordinatorKeeps, LaunchKeeps DEF Continue!Next
<1> QED BY <1>1, <1>3

LEMMA Continues ==
  LaunchSpec => []CInv /\ [][Continue!Next]_continuationVars
<1>1. LaunchInit => CInv
  BY ContinueInitially DEF LaunchInit
<1>2. [LaunchNext]_<<part, launchVars, continuationVars, queueVars>> => [Continue!Next]_continuationVars
  BY DEF LaunchNext
<1>3. CInv /\ [LaunchNext]_<<part, launchVars, continuationVars, queueVars>> => CInv'
  BY <1>2, ContinuePreserved
<1> QED BY <1>1, <1>2, <1>3, PTL DEF LaunchSpec

\* Only a launch makes another execution, and only a decision counts a recovery.
LEMMA Exactly ==
  ASSUME CInv, [Continue!Next]_continuationVars
  PROVE  /\ execution' # execution => Continue!Launch
         /\ wf'.restarts # wf.restarts => Continue!Decided("recovery", "sleep") /\ Continue!Decide
<1>1. wf \in Steps
  BY DEF CInv, ContinueTypes
<1> USE DEF Continue!Cloud, Continue!Storage, Continue!At, Continue!Go, Continue!Raise
<1>2. CASE UNCHANGED continuationVars
  BY <1>2 DEF continuationVars
<1>3. ASSUME NEW t \in Task, Moves(t) PROVE UNCHANGED <<execution, wf>>
  BY <1>3 DEF Moves
<1>4. CASE Continue!SetStop \/ Continue!ClearStop \/ Continue!Cancel \/ Continue!Reserve \/ Continue!Tick
  <2>1. UNCHANGED execution /\ wf'.restarts = wf.restarts
    BY <1>1, <1>4 DEF Continue!SetStop, Continue!ClearStop, Continue!Cancel, Continue!Reserve, Continue!Tick, Steps
  <2> QED BY <2>1
<1>5. ASSUME NEW to, wf' = [wf EXCEPT !.at = to] PROVE wf'.restarts = wf.restarts
  BY <1>1, <1>5 DEF Steps
<1>6. CASE \/ Continue!CheckStop \/ Continue!LaunchLost \/ Continue!PollLost \/ Continue!Confirm
           \/ Continue!AwaitGuard
  BY <1>5, <1>6 DEF Continue!CheckStop, Continue!LaunchLost, Continue!PollLost, Continue!Confirm, Continue!AwaitGuard
<1>7. CASE Continue!Returned \/ Continue!Wake
  <2>1. UNCHANGED execution /\ wf'.restarts = wf.restarts
    BY <1>1, <1>7 DEF Continue!Returned, Continue!Wake, Steps
  <2> QED BY <2>1
<1>8. CASE Continue!Launch
  <2>1. wf'.restarts = wf.restarts
    BY <1>5, <1>8 DEF Continue!Launch
  <2> QED BY <1>8, <2>1
<1>9. CASE Continue!Decide
  <2>1. CASE Continue!Decided("rotation", "checkStop")
    <3>1. UNCHANGED execution /\ wf'.restarts = wf.restarts
      BY <1>1, <2>1 DEF Continue!Decided, Steps
    <3> QED BY <3>1
  <2>2. CASE Continue!Decided("recovery", "sleep")
    BY <1>9, <2>2 DEF Continue!Decided
  <2>3. CASE UNCHANGED execution /\ \E to \in Stages : wf' = [wf EXCEPT !.at = to]
    BY <1>5, <2>3
  <2> QED BY <1>9, <2>1, <2>2, <2>3 DEF Continue!Decide
<1>10. CASE Continue!Next
  BY <1>3, <1>4, <1>6, <1>7, <1>8, <1>9, <1>10, TasksMove DEF Continue!Next
<1> QED BY <1>2, <1>10

\* A coordinator launches an execution only when the one before is over and was not
\* cancelled, whatever its tasks, operators and lost requests do.
THEOREM ExecutionsFollow == LaunchSpec => OneExecution
<1>1. CInv /\ [Continue!Next]_continuationVars => [Continue!OneAfterAnother]_Continue!vars
  <2> SUFFICES ASSUME CInv, [Continue!Next]_continuationVars, Continue!Relaunch
               PROVE  ~cancelled /\ \A t \in Task : ~Continue!Alive(t)
    BY DEF Continue!OneAfterAnother
  <2>1. wf.at = "launch" /\ execution > 0
    BY Exactly DEF Continue!Launch, Continue!At, Continue!Relaunch
  <2> QED BY <2>1 DEF CInv, Confirmed, Continue!Alive
<1> QED BY <1>1, Continues, PTL DEF OneExecution, Continue!OneExecution

\* A recovery follows an attempt of every task that failed with its marker, its last one,
\* or that the progress has down as done.
THEOREM RecoveryFollowsMarks == LaunchSpec => RecoveryIsMarked
<1>1. CInv /\ [Continue!Next]_continuationVars =>
        [wf'.restarts > wf.restarts =>
           \A t \in Task : \/ tasks[t].at = "temporary"
                          \/ progress.workers[t].state \in {"completed", "continuing"}]_Continue!vars
  <2> SUFFICES ASSUME CInv, [Continue!Next]_continuationVars, wf'.restarts > wf.restarts, NEW t \in Task,
                      progress.workers[t].state \notin {"completed", "continuing"}
               PROVE  tasks[t].at = "temporary"
    OBVIOUS
  <2>1. Continue!Decide /\ wf'.restarts # wf.restarts /\ Continue!Decided("recovery", "sleep")
    <3>1. wf'.restarts # wf.restarts
      <4>1. wf \in Steps
        BY DEF CInv, ContinueTypes
      <4>2. wf.restarts \in Nat
        BY <4>1 DEF Steps
      <4> QED BY <4>2
    <3> QED BY <3>1, Exactly
  <2>2. Continue!ValidProgress /\ Continue!Recovers
    <3>1. wf \in Steps
      BY DEF CInv, ContinueTypes
    <3>2. wf'.at = "sleep"
      BY <2>1, <3>1 DEF Continue!Decided, Steps
    <3>3. ~Continue!Raise /\ ~Continue!Decided("rotation", "checkStop") /\ ~Continue!Go("returned")
      BY <3>1, <3>2 DEF Continue!Raise, Continue!Decided, Continue!Go, Steps
    <3> QED BY <2>1, <3>3 DEF Continue!Decide
  <2>3. /\ progress.execution = execution /\ progress.recoverable
        /\ MaxRetries > 0 /\ progress.workers[t].state = "failed" => progress.workers[t].attempt = MaxRetries
    BY <2>2 DEF Continue!ValidProgress, Continue!Recovers, Continue!CanRecover
  <2>4. progress.workers[t].state = "failed" /\ progress.workers[t].marked
    BY <2>3 DEF CInv, Reported
  <2>5. \/ progress.workers[t].attempt < tasks[t].attempt
        \/ progress.workers[t].attempt = tasks[t].attempt /\ tasks[t].at = "temporary"
    BY <2>3, <2>4 DEF CInv, Marked, Marks
  <2>6. tasks[t].attempt \in 0..MaxRetries /\ MaxRetries \in Nat /\ progress.workers[t].attempt \in Nat
    BY ContinueAssumption DEF CInv, ContinueTypes, Reports, Continue!ContinuationAssumption
  <2> QED BY <2>3, <2>4, <2>5, <2>6
<1> QED BY <1>1, Continues, PTL DEF RecoveryIsMarked, Continue!RecoveryIsMarked

\* A STOP that is set at any time until the coordinator has looked for it before a launch,
\* and stays, prevents the launch.
THEOREM StopIsHonored == LaunchSpec => StopHonored
<1>1. CInv /\ [Continue!Next]_continuationVars => [execution' # execution => ~stopKept]_Continue!vars
  <2> SUFFICES ASSUME CInv, [Continue!Next]_continuationVars, execution' # execution PROVE ~stopKept
    OBVIOUS
  <2>1. wf.at = "launch"
    BY Exactly DEF Continue!Launch, Continue!At
  <2> QED BY <2>1 DEF CInv, Stopped
<1> QED BY <1>1, Continues, PTL DEF StopHonored, Continue!StopHonored
=============================================================================
