---------------------------- MODULE DownloadIndex ----------------------------
(* The public index of downloaded articles (backend/downloads.py): every   *)
(* API instance refreshes one stored object, either from the rows that     *)
(* changed since the object's watermark, less an overlap, or from all rows.*)
(* Rows are stamped before they are committed, so the overlap may miss one.*)
(*                                                                         *)
(* Of a watermark the model keeps what it decides: the rows that the next  *)
(* incremental query will not see (hidden).  A reader in current read the  *)
(* generation the object still has.  Saved and partial texts are counted   *)
(* together: rows that are done stay as they are, so the two counts change *)
(* only when their sum does.                                               *)
EXTENDS Naturals, FiniteSets

CONSTANTS
  Article,      \* articles with text, the same URLs in every run
  Reader,       \* processes; DownloadIndex.locks leaves one refresh to each
  Preparer,     \* those that run prepare_download_viewer.py; the others serve the API
  LastRun,      \* bound: collections 1..LastRun, one after the other
  MaxFailures,  \* bound: refreshes that fail
  None

\* The collection of an index, the count of its snapshot, its articles, and those it misses.
IndexObject == [run : 1..LastRun, counted : Nat, entries : SUBSET Article, hidden : SUBSET Article]

IndexAssumption ==
  /\ LastRun \in Nat \ {0} /\ MaxFailures \in Nat /\ IsFiniteSet(Article)
  /\ Preparer \subseteq Reader /\ None \notin IndexObject

VARIABLES
  done,      \* [1..LastRun -> SUBSET Article]: rows with accepted text
  progress,  \* the published snapshot; run 0: not started
  stored,    \* the index object
  current,   \* readers that know the object's present generation
  refresh,   \* [Reader -> what its refresh knows]
  failed     \* refreshes that have failed
vars == <<done, progress, stored, current, refresh, failed>>

Idle == [at |-> "idle", snapshot |-> None, index |-> None]

Init ==
  /\ done = [r \in 1..LastRun |-> {}] /\ progress = [run |-> 0, count |-> 0]
  /\ stored = None /\ current = {} /\ refresh = [i \in Reader |-> Idle] /\ failed = 0

-----------------------------------------------------------------------------
(* The collection, as the index sees it                                    *)

Hide(index, a) ==
  IF index = None \/ index.run # progress.run THEN index ELSE [index EXCEPT !.hidden = @ \cup {a}]

\* A row is committed.  Late: its stamp is older than the window of every index there is.
Finish(a, late) ==
  /\ progress.run > 0 /\ a \notin done[progress.run]
  /\ done' = [done EXCEPT ![progress.run] = @ \cup {a}]
  /\ stored' = IF late THEN Hide(stored, a) ELSE stored
  /\ refresh' = [i \in Reader |->
       IF late THEN [refresh[i] EXCEPT !.index = Hide(@, a)] ELSE refresh[i]]
  /\ UNCHANGED <<progress, current, failed>>

\* Counts are published some time after they were read.
Publish(n) ==
  /\ progress.run > 0 /\ n > progress.count /\ n <= Cardinality(done[progress.run])
  /\ progress' = [progress EXCEPT !.count = n]
  /\ UNCHANGED <<done, stored, current, refresh, failed>>

NextRun ==
  /\ progress.run < LastRun
  /\ progress' = [run |-> progress.run + 1, count |-> 0]
  /\ UNCHANGED <<done, stored, current, refresh, failed>>

-----------------------------------------------------------------------------
(* DownloadIndex.get, once its 60-second cache has expired                 *)

Snapshot(i) ==
  /\ refresh[i].at = "idle" /\ progress.run > 0
  /\ refresh' = [refresh EXCEPT ![i] = [Idle EXCEPT !.at = "look", !.snapshot = progress]]
  /\ UNCHANGED <<done, progress, stored, current, failed>>

\* Faulty variant: the index is believed to have what it has counted.
SameCounts(index, snapshot) == index.counted = snapshot.count
\* The index agrees with the snapshot, in its counts and in its length.
Unchanged(index, snapshot) ==
  /\ index.counted = snapshot.count
  /\ Cardinality(index.entries) = snapshot.count

\* The object is read, with its generation; that of another run counts as none.
Look(i) ==
  LET snapshot == refresh[i].snapshot
      previous == IF stored # None /\ stored.run = snapshot.run THEN stored ELSE None
  IN /\ refresh[i].at = "look"
     /\ current' = current \cup {i}
     /\ refresh' = [refresh EXCEPT ![i] =
          IF previous # None /\ i \notin Preparer /\ Unchanged(previous, snapshot)
            THEN Idle ELSE [@ EXCEPT !.at = "query", !.index = previous]]
     /\ UNCHANGED <<done, progress, stored, failed>>

\* All rows, unless the index was whole when it was written.
FullQuery(i, previous) ==
  \/ i \in Preparer \/ previous = None
  \/ Cardinality(previous.entries) # previous.counted

\* What a query misses now is older than its own watermark as well.
Query(i) ==
  LET r == refresh[i].snapshot.run
      previous == refresh[i].index
      entries == IF FullQuery(i, previous) THEN done[r]
                 ELSE previous.entries \cup (done[r] \ previous.hidden)
  IN /\ refresh[i].at = "query"
     /\ refresh' = [refresh EXCEPT ![i].at = "upload", ![i].index =
          [run |-> r, counted |-> refresh[i].snapshot.count, entries |-> entries,
           hidden |-> done[r] \ entries]]
     /\ UNCHANGED <<done, progress, stored, current, failed>>

\* Faulty variant: an upload without if_generation_match.
AlwaysAccepted(i) == TRUE
\* "A newer refresh won the race; never overwrite it."
Accepted(i) == i \in current

Upload(i) ==
  /\ refresh[i].at = "upload"
  /\ IF Accepted(i) THEN stored' = refresh[i].index /\ current' = {}
                    ELSE UNCHANGED <<stored, current>>
  /\ refresh' = [refresh EXCEPT ![i] = Idle]
  /\ UNCHANGED <<done, progress, failed>>

\* A request fails, or an instance ends: the visitor is asked to try again.
Fail(i) ==
  /\ refresh[i].at # "idle" /\ failed < MaxFailures
  /\ failed' = failed + 1
  /\ refresh' = [refresh EXCEPT ![i] = Idle]
  /\ UNCHANGED <<done, progress, stored, current>>

Next ==
  \/ \E a \in Article, late \in BOOLEAN : Finish(a, late)
  \/ \E n \in 1..Cardinality(Article) : Publish(n)
  \/ NextRun
  \/ \E i \in Reader : Snapshot(i) \/ Look(i) \/ Query(i) \/ Upload(i) \/ Fail(i)
Spec == Init /\ [][Next]_vars

-----------------------------------------------------------------------------
(* Properties                                                              *)

\* A refresh that was overtaken by another takes no article out of the index again.
NeverShrinks ==
  [][stored # None /\ stored'.run = stored.run => stored.entries \subseteq stored'.entries]_vars

\* The length of the index is compared with the published count, which lags behind the
\* rows: an index that is served without a query misses as many accepted articles as the
\* publication does, whatever the incremental queries missed, and has nothing else.
ServedAsCounted ==
  \A i \in Reader :
    LET snapshot == refresh[i].snapshot
        accepted == done[snapshot.run]
    IN (/\ refresh[i].at = "look" /\ stored # None /\ stored.run = snapshot.run
        /\ Unchanged(stored, snapshot))
         => /\ stored.entries \subseteq accepted
            /\ Cardinality(accepted \ stored.entries) = Cardinality(accepted) - snapshot.count

\* "Count mismatches trigger full reconciliation, so the overlap cannot silently lose a
\* result": when the collection has come to rest, the index has all of its articles.
Converges ==
  <>[](progress.run > 0 =>
         stored # None /\ stored.run = progress.run /\ stored.entries = done[progress.run])
=============================================================================
