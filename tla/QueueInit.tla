----------------------------- MODULE QueueInit -----------------------------
(***************************************************************************)
(* Seeding a run's shared queue (initialize and _seed_batch in             *)
(* crawler/shared_queue.py).  An initializer reserves the control          *)
(* document, writes the articles in batches and then the counter shards,   *)
(* and finally makes the queue ready.  It may die at any step; another may *)
(* take over when the reservation has expired.  Every batch depends on the *)
(* version of the control document that was read before it, and a batch    *)
(* may arrive after its initializer has given up.                          *)
(*                                                                         *)
(* A ready queue is SharedQueue's initial state: ReadyIsWhole is what that *)
(* module's Init assumes.                                                  *)
(***************************************************************************)
EXTENDS Integers, FiniteSets

CONSTANTS
  Initializer, \* calls of initialize, each with a token and an owner of its own
  Article, Shard, ShardOf,
  DoneOf,      \* articles with a terminal result in each initializer's ResultIndex
  ManifestOf,  \* fingerprint of each initializer's input
  Lease,       \* ticks a reservation lasts (900 seconds)
  Lag,         \* how late the time may be that reserve works with
  MaxVersions, \* bound: writes of the control document
  Worker,      \* the by-line of documents that workers have changed
  None

InitAssumption ==
  /\ ShardOf \in [Article -> Shard] /\ DoneOf \in [Initializer -> SUBSET Article]
  /\ Worker \notin Initializer /\ None \notin Initializer /\ Worker # None
  /\ Lease \in Nat /\ Lag \in Nat /\ Lag < Lease /\ MaxVersions \in Nat

VARIABLES
  control,  \* the control document
  articles, \* the article documents
  stats,    \* the counter shards
  at,       \* where each initializer is
  left,     \* articles it has not written yet
  read,     \* version of the control document it has read
  sent      \* initializers whose batch is under way

vars == <<control, articles, stats, at, left, read, sent>>

NoControl == [state |-> "none", token |-> None, manifest |-> None, expires |-> 0, version |-> 0]
NoArticle == [state |-> "none", by |-> None]
NoStats == [total |-> 0, done |-> 0, by |-> None]

Init ==
  /\ control = NoControl /\ articles = [a \in Article |-> NoArticle] /\ stats = [s \in Shard |-> NoStats]
  /\ at = [i \in Initializer |-> "start"] /\ left = [i \in Initializer |-> Article]
  /\ read = [i \in Initializer |-> 0] /\ sent = {}

Go(i, to) == at' = [at EXCEPT ![i] = to]
Documents == <<articles, stats>>
Progress == <<left, read, sent>>

Owns(i) == control.token = i /\ control.state = "initializing"

SameManifest(i) == control.state = "none" \/ control.manifest = ManifestOf[i]
MayReserve(i) == control.state = "none" \/ control.expires = 0

\* reserve: a queue that is ready already is left alone.
Reserve(i) ==
  /\ at[i] = "start" /\ control.version < MaxVersions
  /\ IF ~SameManifest(i)
     THEN Go(i, "failed") /\ UNCHANGED control
     ELSE IF control.state \notin {"none", "initializing"} THEN Go(i, "found") /\ UNCHANGED control
     ELSE IF ~MayReserve(i) THEN Go(i, "failed") /\ UNCHANGED control
     ELSE /\ Go(i, "read")
          /\ \E lag \in 0..Lag :
               control' = [state |-> "initializing", token |-> i, manifest |-> ManifestOf[i],
                           expires |-> Lease - lag, version |-> control.version + 1]
  /\ UNCHANGED <<Documents, Progress>>

\* _seed_batch reads the control document, and sends the batch.
ReadControl(i) ==
  /\ at[i] = "read"
  /\ IF Owns(i)
     THEN Go(i, "commit") /\ read' = [read EXCEPT ![i] = control.version] /\ sent' = sent \cup {i}
     ELSE Go(i, "failed") /\ UNCHANGED <<read, sent>>
  /\ UNCHANGED <<control, Documents, left>>

SeededArticle(i, a) == [state |-> IF a \in DoneOf[i] THEN "done" ELSE "ready", by |-> i]
SeededStats(i, s) ==
  LET mine == {a \in Article : ShardOf[a] = s}
  IN [total |-> Cardinality(mine), done |-> Cardinality(mine \cap DoneOf[i]), by |-> i]

\* Faulty variant: the batch only depends on the check before it.
AnyVersion(i) == control.version < MaxVersions
SameVersion(i) == control.version = read[i] /\ control.version < MaxVersions

Renewed(expires) == Lease

\* The next articles of the manifest, or all the counter shards after the last.
SeedBatch(i) ==
  IF left[i] # {}
  THEN \E a \in left[i] :
         /\ articles' = [articles EXCEPT ![a] = SeededArticle(i, a)]
         /\ left' = [left EXCEPT ![i] = @ \ {a}] /\ UNCHANGED stats
  ELSE stats' = [s \in Shard |-> SeededStats(i, s)] /\ UNCHANGED <<articles, left>>

\* The batch arrives.  Its initializer may have given up, or may miss the answer.
Commit(i) ==
  /\ i \in sent /\ sent' = sent \ {i}
  /\ IF SameVersion(i)
     THEN /\ SeedBatch(i)
          /\ control' = [control EXCEPT !.expires = Renewed(@), !.version = @ + 1]
          /\ \/ at[i] = "commit" /\ Go(i, IF left[i] # {} THEN "read" ELSE "finish")
             \/ Go(i, "failed")
     ELSE Go(i, "failed") /\ UNCHANGED <<control, articles, stats, left>>
  /\ UNCHANGED read

MayFinish(i) == Owns(i)
Finish(i) ==
  /\ at[i] = "finish" /\ control.version < MaxVersions
  /\ IF MayFinish(i)
     THEN /\ control' = [control EXCEPT !.state = "ready", !.expires = 0, !.version = @ + 1]
          /\ \E to \in {"finished", "failed"} : Go(i, to)
     ELSE Go(i, "failed") /\ UNCHANGED control
  /\ UNCHANGED <<Documents, Progress>>

\* It dies, or a request fails; a batch that was sent may still arrive.
Fail(i) ==
  /\ at[i] \in {"read", "commit", "finish"} /\ Go(i, "failed")
  /\ UNCHANGED <<control, Documents, Progress>>

\* A worker of a running collection claims, changes or completes an article.
Work(a) ==
  /\ control.state = "ready" /\ articles' = [articles EXCEPT ![a].by = Worker]
  /\ UNCHANGED <<control, stats, at, Progress>>

Tick ==
  /\ control' = [control EXCEPT !.expires = IF @ > 0 THEN @ - 1 ELSE 0]
  /\ UNCHANGED <<Documents, at, Progress>>

Next ==
  \/ \E i \in Initializer : Reserve(i) \/ ReadControl(i) \/ Commit(i) \/ Finish(i) \/ Fail(i)
  \/ (\E a \in Article : Work(a)) \/ Tick

Spec == Init /\ [][Next]_vars

-----------------------------------------------------------------------------
(* Properties                                                              *)

\* "Invisible to claimers until all article documents and all counter shards have been
\* committed": a ready queue is one initializer's, whole, and its counters count its
\* documents, whoever died or was late before.
ReadyIsWhole ==
  control.state = "ready" =>
    /\ \A a \in Article :
         LET seeded == SeededArticle(control.token, a)
         IN articles[a] \in {seeded, [seeded EXCEPT !.by = Worker]}
    /\ \A s \in Shard :
         /\ stats[s].total = Cardinality({a \in Article : ShardOf[a] = s})
         /\ stats[s].done = Cardinality({a \in Article : ShardOf[a] = s /\ articles[a].state = "done"})

=============================================================================
