--------------------------- MODULE PhasedPipeline ---------------------------
(* One article on its way through the extraction phases                    *)
(* (crawler/retrying.py, crawler/pipeline.py): what RetryingPipeline and   *)
(* Pipeline carry from one claim to the next in the phase checkpoint, and  *)
(* how an article ends.  A phase runs in steps between which time passes   *)
(* and after which the process may die; then the next claim repeats the    *)
(* phase from the same checkpoint.  The extractor's version is constant.   *)
EXTENDS Naturals

CONSTANTS
  RetryPasses,   \* retry_passes
  RetryDelay,    \* retry_delay
  Backoff,       \* wait after an interrupted preflight
  PublisherWait, \* publisher_retry_at of an archive-first claim, from now; or None
  ServiceWait,   \* how long an archive service asks to wait
  Stamps,        \* snapshots that are looked for, one after the other
  Preflights,    \* bound: archive-first handoffs
  Outages,       \* bound: waits for an archive service
  Kills,         \* bound: processes that die in a phase
  None

ASSUME PipelineAssumption ==
  /\ RetryPasses \in Nat \ {0} /\ RetryDelay \in Nat /\ Backoff \in Nat
  /\ PublisherWait \subseteq Nat \cup {None} /\ ServiceWait \subseteq Nat \ {0} /\ Stamps \in Nat \ {0}
  /\ {Preflights, Outages, Kills} \subseteq Nat /\ None \notin Nat

VARIABLES
  row,    \* the queued article with its checkpoint
  work,   \* the phase that runs; None: the article waits
  made,   \* retrievals whose phase has been committed
  tried,  \* whether one of them was a publisher request
  found,  \* the best text one of them found
  settled, \* whether a preflight was committed as complete
  faults  \* how often each of the bounded things has happened
vars == <<row, work, made, tried, found, settled, faults>>

Smaller(a, b) == IF a <= b THEN a ELSE b
Before(n) == IF n = None THEN None ELSE IF n = 0 THEN 0 ELSE n - 1

Text == {"missing", "partial", "candidate"}
\* consider: the better of two texts; the first one found is kept among equals.
Better(a, b) == IF a = "candidate" \/ b = "missing" THEN a
                ELSE IF b = "candidate" \/ a = "missing" THEN b ELSE a
\* What a request for a document brings: a text, or a failure that may pass.
Outcome == Text \cup {"temporary"}
TextOf(x) == IF x = "temporary" THEN "missing" ELSE x

\* The pipeline's checkpoint: events counts the retrievals in result.attempts, the times
\* are what is left of them, lookups are the answers of the availability service.
Fresh ==
  [events |-> 0, best |-> "missing", unresolved |-> FALSE, publisher_unresolved |-> FALSE,
   archive_first |-> FALSE, archive_first_done |-> FALSE, archive_first_complete |-> FALSE,
   archive_unresolved |-> FALSE, publisher_retry_at |-> None, archive_first_retry_at |-> 0,
   service_wait_until |-> 0, lookups |-> [s \in 1..Stamps |-> "unknown"], seen |-> {}]
Checkpoint ==
  [events : Nat, best : Text, unresolved : BOOLEAN, publisher_unresolved : BOOLEAN,
   archive_first : BOOLEAN, archive_first_done : BOOLEAN, archive_first_complete : BOOLEAN,
   archive_unresolved : BOOLEAN, publisher_retry_at : Nat \cup {None}, archive_first_retry_at : Nat,
   service_wait_until : Nat, lookups : [1..Stamps -> {"unknown", "none", "snapshot"}],
   seen : SUBSET Nat]
ASSUME NoneAssumption == None \notin Checkpoint
Candidate(ck) == ck.best = "candidate"

\* A new article; or, from earlier releases, one whose publisher had answered for good when
\* the archives failed, and one that only remembers that its preflight was complete.
NewRow ==
  [state |-> "ready", phase |-> "publisher", due |-> 0, passes |-> 0, prefix |-> 0,
   retry_best |-> "missing", done |-> FALSE, complete |-> FALSE, pipeline |-> None, legacy |-> FALSE]
LegacyRow == [NewRow EXCEPT !.passes = 1, !.prefix = 1, !.legacy = TRUE]
MarkedRow == [NewRow EXCEPT !.passes = 1, !.prefix = 1, !.done = TRUE, !.complete = TRUE]

Init ==
  /\ row \in {NewRow, LegacyRow, MarkedRow} /\ work = None
  /\ made = row.prefix /\ tried = (row.passes > 0) /\ found = "missing" /\ settled = row.complete
  /\ faults = [preflights |-> 0, outages |-> 0, kills |-> 0]

-----------------------------------------------------------------------------
(* What a claim commits                                                    *)

\* handoff and queue.handoff: the next phase and its checkpoint.  What the phase that ends
\* here has found is durable from now on.
Commits == /\ work' = None /\ made' = made + work.news /\ tried' = (tried \/ work.asked)
           /\ found' = Better(found, work.pipeline.best)
Queued(r, phase, due, ck) ==
  [r EXCEPT !.phase = phase, !.due = due, !.pipeline = ck,
            !.done = @ \/ ck.archive_first_done,
            !.complete = IF ck.archive_first_done THEN ck.archive_first_complete ELSE @]
Handoff(phase, due, ck) ==
  row' = Queued(row, phase, due, [ck EXCEPT !.service_wait_until = 0]) /\ Commits

\* service_wait: the article waits for the service.
Waits(due, ck) == row' = Queued(row, "archive", due, ck) /\ Commits

\* publisher_handoff: a preflight ends, with the publisher still to be asked.
PublisherHandoff(ck, complete) ==
  /\ settled' = (settled \/ complete)
  /\ Handoff("publisher", 0,
       [ck EXCEPT !.unresolved = TRUE, !.publisher_unresolved = TRUE, !.archive_first = FALSE,
                  !.archive_first_done = TRUE, !.archive_first_complete = complete,
                  !.archive_unresolved = ck.unresolved,
                  !.archive_first_retry_at = IF complete THEN 0 ELSE Backoff])

Preflight(ck) == ck.archive_first /\ ck.publisher_unresolved

\* The prefix holds the evidence of earlier passes, the checkpoint that of this one.
\* Faulty variant: the checkpoint keeps what has moved to the prefix.
PrefixTwice(r, ck) == r.prefix + ck.events
PrefixKept(r, ck) == r.prefix

\* Faulty variant: what is repeated from a checkpoint is no new pass.
SamePass(phase, prior, ck) ==
  IF (phase = "archive" /\ ~prior) \/ ck.archive_first_done THEN row.passes ELSE row.passes + 1
PassesAfter(phase, prior, ck) == row.passes + 1

\* The article has been tried in vain: what the next pass repeats.
NextPass(phase, prior, ck) ==
  LET again == [row EXCEPT !.passes = PassesAfter(phase, prior, ck), !.retry_best = ck.best]
  IN IF phase = "archive" /\ ~prior
     THEN Queued([again EXCEPT !.prefix = PrefixKept(row, ck)], "archive", RetryDelay,
                 [ck EXCEPT !.unresolved = FALSE, !.service_wait_until = 0])
     ELSE IF ck.archive_first_done
     THEN Queued([again EXCEPT !.prefix = PrefixKept(row, ck)], "publisher", RetryDelay,
                 [ck EXCEPT !.unresolved = FALSE, !.publisher_unresolved = TRUE, !.service_wait_until = 0])
     ELSE [again EXCEPT !.phase = "publisher", !.due = RetryDelay, !.prefix = @ + ck.events,
                        !.pipeline = None]

\* The end of fetch and of fetch_phase: a final status, or one more pass.
Status(ck) ==
  IF Candidate(ck) THEN "saved" ELSE IF ck.unresolved THEN "deferred"
  ELSE IF ck.best = "partial" THEN "partial" ELSE "exhausted"
Closed(status, ck) == [row EXCEPT !.state = status, !.prefix = @ + ck.events, !.pipeline = None,
                                  !.retry_best = ck.best, !.due = 0]
Finish(phase, prior, ck) ==
  /\ row' = IF Status(ck) # "deferred" THEN Closed(Status(ck), ck)
            ELSE IF PassesAfter(phase, prior, ck) < RetryPasses THEN NextPass(phase, prior, ck)
            ELSE Closed("failed", ck)
  /\ Commits /\ UNCHANGED settled

-----------------------------------------------------------------------------
(* A claim begins                                                          *)

Waiting(phase) == work = None /\ row.state = "ready" /\ row.phase = phase /\ row.due = 0
Ghosts == <<made, tried, found, settled>>

\* A later pass without a checkpoint starts from what the article's row remembers.
Restarted == [Fresh EXCEPT !.best = row.retry_best, !.archive_first_done = row.done,
                           !.archive_first_complete = row.complete]

\* The checkpoint a phase starts from: pending publisher work is no failed attempt, and a
\* preflight does not inherit that it is pending.
Resumed ==
  IF row.pipeline = None THEN Restarted
  ELSE IF row.pipeline.archive_first
  THEN [row.pipeline EXCEPT !.unresolved = row.pipeline.archive_unresolved]
  ELSE IF row.phase = "publisher" /\ row.pipeline.archive_first_done
  THEN [row.pipeline EXCEPT !.unresolved = FALSE, !.publisher_unresolved = FALSE]
  ELSE row.pipeline

Migrates == row.legacy /\ row.passes = 1 /\ row.pipeline = None
Start ==
  /\ work = None /\ row.state = "ready" /\ row.due = 0 /\ ~(row.phase = "publisher" /\ Migrates)
  /\ work' = [at |-> row.phase, phase |-> row.phase, pipeline |-> Resumed,
              prior |-> Resumed.unresolved, stamp |-> 1, news |-> 0, asked |-> FALSE]
  /\ UNCHANGED <<row, Ghosts, faults>>

\* migrate_legacy_archive_retry: only the archives are asked again; the evidence of the
\* first pass moves into the checkpoint.
Migrate ==
  /\ Waiting("publisher") /\ Migrates
  /\ row' = [row EXCEPT !.phase = "archive", !.prefix = 0, !.legacy = FALSE,
                        !.pipeline = [Fresh EXCEPT !.events = row.prefix, !.best = row.retry_best]]
  /\ UNCHANGED <<work, Ghosts, faults>>

\* archive_first_handoff: the publisher's host is paused, and the archives have not been
\* asked, or were interrupted long enough ago.
MayPreflight ==
  IF row.pipeline = None THEN ~row.done
  ELSE row.done \/ row.pipeline.archive_first_done =>
         /\ ~row.pipeline.archive_first_complete
         /\ row.pipeline.publisher_unresolved /\ row.pipeline.archive_first_retry_at = 0
ArchiveFirst(until) ==
  /\ Waiting("publisher") /\ row.passes < RetryPasses /\ MayPreflight
  /\ faults.preflights < Preflights /\ faults' = [faults EXCEPT !.preflights = @ + 1]
  /\ LET ck == IF row.pipeline = None THEN [Fresh EXCEPT !.best = row.retry_best] ELSE row.pipeline
     IN row' = [row EXCEPT !.phase = "archive", !.legacy = FALSE, !.pipeline =
                  [ck EXCEPT !.unresolved = TRUE, !.publisher_unresolved = TRUE,
                             !.archive_first = TRUE, !.archive_first_done = FALSE,
                             !.archive_first_complete = FALSE, !.archive_first_retry_at = 0,
                             !.publisher_retry_at = until, !.service_wait_until = 0]]
  /\ UNCHANGED <<work, Ghosts>>

-----------------------------------------------------------------------------
(* The steps of a phase                                                    *)

At(at) == work # None /\ work.at = at
Goes(at, ck) == work' = [work EXCEPT !.at = at, !.pipeline = ck] /\ UNCHANGED <<row, Ghosts>>
Skips(at) == Goes(at, work.pipeline)

\* retrieve: one more piece of evidence.
Retrieved(x) ==
  [work.pipeline EXCEPT !.events = @ + 1, !.best = Better(@, TextOf(x)),
                        !.unresolved = @ \/ x = "temporary"]
Learns(at, x, asked) ==
  /\ work' = [work EXCEPT !.at = at, !.pipeline = Retrieved(x), !.news = @ + 1, !.asked = @ \/ asked]
  /\ UNCHANGED <<row, Ghosts>>
Late(at) == Goes(at, [work.pipeline EXCEPT !.unresolved = TRUE])

\* The publisher's page.
Http(x) ==
  /\ At("publisher")
  /\ work' = [work EXCEPT !.at = "discover", !.news = @ + 1, !.asked = TRUE,
                          !.pipeline = [Retrieved(x) EXCEPT !.publisher_unresolved = Retrieved(x).unresolved]]
  /\ UNCHANGED <<row, Ghosts>>
\* Another address the page names, if there is one.
Discover(x) == At("discover") /\ ~Candidate(work.pipeline) /\ Learns("render?", x, TRUE)
NoDiscovery == At("discover") /\ (Skips("render?") \/ (~Candidate(work.pipeline) /\ Late("render?")))

\* The page may be rendered, or not, or there is no time left.
ToBrowser ==
  /\ At("render?") /\ ~Candidate(work.pipeline)
  /\ Handoff("browser", 0, work.pipeline) /\ UNCHANGED settled
NoBrowser ==
  /\ At("render?")
  /\ Skips("archives?") \/ (~Candidate(work.pipeline) /\ Late("archives?"))
Render(x) == At("browser") /\ Learns("archives?", x, FALSE)
RenderLate == At("browser") /\ Late("archives?")

NoArchives(ck) == Candidate(ck) \/ ck.archive_first_complete
ToArchives ==
  /\ At("archives?")
  /\ IF NoArchives(work.pipeline) THEN Skips("linked")
     ELSE Handoff("archive", 0, work.pipeline) /\ UNCHANGED settled

\* The archive phase: the publisher's time has come, the service is still paused, or the
\* snapshots are looked for.
Archive ==
  /\ At("archive")
  /\ LET ck == work.pipeline
     IN IF Preflight(ck) /\ ck.publisher_retry_at = 0 THEN PublisherHandoff(ck, FALSE)
        ELSE IF ck.service_wait_until > 0 /\ Preflight(ck)
        THEN IF ck.publisher_retry_at = None THEN PublisherHandoff(ck, FALSE)
             ELSE /\ Waits(Smaller(ck.service_wait_until, ck.publisher_retry_at),
                           [ck EXCEPT !.unresolved = TRUE, !.archive_unresolved = ck.unresolved])
                  /\ UNCHANGED settled
        ELSE IF ck.service_wait_until > 0
        THEN Waits(ck.service_wait_until, ck) /\ UNCHANGED settled
        ELSE Skips("lookup")

Stamp == work.stamp
NextStamp(ck) ==
  /\ work' = [work EXCEPT !.pipeline = ck, !.stamp = @ + 1,
                          !.at = IF Stamp = Stamps THEN "linked" ELSE "lookup"]
  /\ UNCHANGED <<row, Ghosts>>
Answer == work.pipeline.lookups[Stamp]

\* service_wait
ServiceWaits(wait) ==
  /\ faults.outages < Outages /\ faults' = [faults EXCEPT !.outages = @ + 1]
  /\ LET ck == [work.pipeline EXCEPT !.service_wait_until = wait]
     IN IF Preflight(ck)
        THEN IF ck.publisher_retry_at \in {None, 0} THEN PublisherHandoff(ck, FALSE)
             ELSE /\ Waits(Smaller(wait, ck.publisher_retry_at),
                           [ck EXCEPT !.unresolved = TRUE, !.archive_unresolved = ck.unresolved])
                  /\ UNCHANGED settled
        ELSE Waits(wait, ck) /\ UNCHANGED settled

\* An answer is kept; two failures leave the snapshot unknown.
Lookup(answer) ==
  /\ At("lookup") /\ Answer = "unknown" /\ UNCHANGED faults
  /\ IF answer = "error" THEN NextStamp([work.pipeline EXCEPT !.unresolved = TRUE])
     ELSE LET ck == [work.pipeline EXCEPT !.lookups[Stamp] = answer]
          IN IF answer = "none" THEN NextStamp(ck) ELSE Goes("snapshot", ck)
LookupWaits(wait) == At("lookup") /\ Answer = "unknown" /\ ServiceWaits(wait)
Cached ==
  /\ At("lookup") /\ Answer # "unknown" /\ UNCHANGED faults
  /\ IF Answer = "none" \/ Stamp \in work.pipeline.seen THEN NextStamp(work.pipeline)
     ELSE Skips("snapshot")
ArchiveLate == At("lookup") /\ Late("linked") /\ UNCHANGED faults

Snapshot(x) ==
  /\ At("snapshot") /\ UNCHANGED <<row, Ghosts, faults>>
  /\ LET ck == IF x = "temporary" THEN Retrieved(x) ELSE [Retrieved(x) EXCEPT !.seen = @ \cup {Stamp}]
     IN work' = [work EXCEPT !.pipeline = ck, !.news = @ + 1, !.stamp = @ + 1,
                             !.at = IF Candidate(ck) \/ Stamp = Stamps THEN "linked" ELSE "lookup"]
SnapshotWaits(wait) == At("snapshot") /\ ServiceWaits(wait)

\* recover_linked_article: a partial text may name the original.
Linked(x) == At("linked") /\ work.pipeline.best = "partial" /\ Learns("end", x, FALSE)
NotLinked == At("linked") /\ (Skips("end") \/ (work.pipeline.best = "partial" /\ Late("end")))

\* Faulty variant: a preflight ends like any other phase.
AtOnce(ck) == FALSE
Returns(ck) == Preflight(ck) /\ ~Candidate(ck)
End ==
  /\ At("end")
  /\ IF work.phase = "archive" /\ Returns(work.pipeline)
     THEN PublisherHandoff(work.pipeline, ~work.pipeline.unresolved)
     ELSE Finish(work.phase, work.prior, work.pipeline)

\* The process dies, or loses the article: nothing of the phase is committed.
Kill ==
  /\ work # None /\ work' = None /\ UNCHANGED <<row, Ghosts>>
  /\ faults.kills < Kills /\ faults' = [faults EXCEPT !.kills = @ + 1]

Aged(ck) ==
  [ck EXCEPT !.publisher_retry_at = Before(@), !.archive_first_retry_at = Before(@),
             !.service_wait_until = Before(@)]
Tick ==
  /\ row.state = "ready"
  /\ row' = [row EXCEPT !.due = Before(@), !.pipeline = IF @ = None THEN None ELSE Aged(@)]
  /\ work' = IF work = None THEN None ELSE [work EXCEPT !.pipeline = Aged(@)]
  /\ UNCHANGED <<Ghosts, faults>>

Step ==
  \/ /\ \/ (\E x \in Outcome : Http(x) \/ Discover(x) \/ Render(x) \/ Linked(x))
        \/ NoDiscovery \/ ToBrowser \/ NoBrowser \/ RenderLate \/ ToArchives \/ Archive
        \/ NotLinked \/ End
     /\ UNCHANGED faults
  \/ (\E answer \in {"none", "snapshot", "error"} : Lookup(answer)) \/ Cached \/ ArchiveLate
  \/ (\E x \in Outcome : Snapshot(x))
  \/ (\E wait \in ServiceWait : LookupWaits(wait) \/ SnapshotWaits(wait))

Next ==
  \/ Start \/ Migrate \/ (\E until \in PublisherWait : ArchiveFirst(until))
  \/ Step \/ Kill \/ Tick

Spec == Init /\ [][Next]_vars
\* Time passes, phases that are due are claimed - publisher articles although their host is
\* paused now and then - and a phase that runs ends.
FairSpec == Spec /\ WF_vars(Tick) /\ SF_vars(Start) /\ WF_vars(Migrate) /\ WF_vars(Step)

-----------------------------------------------------------------------------
(* Properties                                                              *)

Count(ck) == IF ck = None THEN 0 ELSE ck.events
BestOf(r) == IF r.pipeline = None THEN r.retry_best ELSE r.pipeline.best
Row ==
  [state : {"ready", "saved", "partial", "exhausted", "failed"},
   phase : {"publisher", "browser", "archive"}, due : Nat, passes : Nat, prefix : Nat,
   retry_best : Text, done : BOOLEAN, complete : BOOLEAN, pipeline : Checkpoint \cup {None},
   legacy : BOOLEAN]
Work ==
  [at : {"publisher", "discover", "render?", "browser", "archives?", "archive", "lookup", "snapshot",
         "linked", "end"},
   phase : {"publisher", "browser", "archive"}, pipeline : Checkpoint, prior : BOOLEAN, stamp : Nat,
   news : Nat, asked : BOOLEAN]
\* The checkpoints that are queued and resumed have their fields.
TypeOK ==
  /\ row \in Row /\ work \in Work \cup {None}
  /\ made \in Nat /\ tried \in BOOLEAN /\ found \in Text /\ settled \in BOOLEAN
  /\ faults \in [preflights : Nat, outages : Nat, kills : Nat]

\* fetch_phase: the article's evidence is what its committed phases retrieved, each piece
\* counted once, and its text the best they found, over handoffs, preflights, passes that
\* repeat only some of the phases, and phases that are repeated after a crash.
EvidenceKept == row.prefix + Count(row.pipeline) = made /\ BestOf(row) = found

\* "Archive preflight never completes work whose publisher remains unattempted", and "a
\* completed preflight is not repeated".
PublisherTried ==
  /\ row.state \in {"partial", "exhausted", "failed"} => tried
  /\ settled => row.phase # "archive" /\ (work # None => work.phase # "archive")

\* Whatever is handed over, waited for and repeated, the article ends.
Ends == <>(row.state # "ready")
=============================================================================
