------------------------ MODULE PhasedPipelineProofs ------------------------
(***************************************************************************)
(* PhasedPipeline for every number of passes and every wait.  The          *)
(* argument: what a running phase has in its hands is what the last        *)
(* checkpoint held and what it has retrieved since (WorkKept), and every   *)
(* way in which a phase ends queues or closes the article with exactly     *)
(* that.                                                                   *)
(***************************************************************************)
EXTENDS PhasedPipeline, TLAPS

\* The phase that runs holds the evidence of the checkpoint and its own, and no text worse
\* than one that was found before.
WorkKept ==
  work # None =>
    /\ work.pipeline.events = Count(row.pipeline) + work.news
    /\ Better(found, work.pipeline.best) = work.pipeline.best

IInv == TypeOK /\ EvidenceKept /\ WorkKept


-----------------------------------------------------------------------------
(* Texts, checkpoints and rows                                             *)

LEMMA BetterText ==
  ASSUME NEW a \in Text, NEW b \in Text
  PROVE  /\ Better(a, b) \in Text /\ Better(a, a) = a
         /\ \A c \in Text : Better(c, a) = a => Better(c, Better(a, b)) = Better(a, b)
  BY DEF Better, Text

Phase == {"publisher", "browser", "archive"}

LEMMA QueuedRow ==
  \A r \in Row, phase \in Phase, due \in Nat, ck \in Checkpoint :
    /\ Queued(r, phase, due, ck) \in Row
    /\ Queued(r, phase, due, ck).state = r.state /\ Queued(r, phase, due, ck).prefix = r.prefix
    /\ Queued(r, phase, due, ck).pipeline = ck
<1> TAKE r \in Row, phase \in Phase, due \in Nat, ck \in Checkpoint
<1> DEFINE done == r.done \/ ck.archive_first_done
           complete == IF ck.archive_first_done THEN ck.archive_first_complete ELSE r.complete
<1>1. r.done \in BOOLEAN /\ r.complete \in BOOLEAN BY DEF Row
<1>2. ck.archive_first_done \in BOOLEAN /\ ck.archive_first_complete \in BOOLEAN BY DEF Checkpoint
<1>3. done \in BOOLEAN BY Zenon
<1>4. complete \in BOOLEAN BY <1>1, <1>2
<1>5. Queued(r, phase, due, ck) =
        [r EXCEPT !.phase = phase, !.due = due, !.pipeline = ck, !.done = done, !.complete = complete]
  BY Zenon DEF Queued
<1> HIDE DEF done, complete
<1> QED BY <1>3, <1>4, <1>5 DEF Row, Phase

LEMMA Initially == Init => IInv
<1> SUFFICES ASSUME Init PROVE IInv OBVIOUS
<1>1. NewRow \in Row BY DEF NewRow, Row, Text
<1>2. LegacyRow \in Row BY <1>1 DEF LegacyRow, Row
<1>3. MarkedRow \in Row BY <1>1 DEF MarkedRow, Row
<1>4. /\ NewRow.prefix = 0 /\ NewRow.pipeline = None /\ NewRow.retry_best = "missing" /\ NewRow.passes = 0
      /\ NewRow.complete \in BOOLEAN
  BY DEF NewRow
<1>5. /\ LegacyRow.prefix = 1 /\ LegacyRow.pipeline = None /\ LegacyRow.retry_best = "missing"
  BY <1>4 DEF LegacyRow, NewRow
<1>6. /\ MarkedRow.prefix = 1 /\ MarkedRow.pipeline = None /\ MarkedRow.retry_best = "missing"
  BY <1>4 DEF MarkedRow, NewRow
<1>7. row \in Row /\ row.pipeline = None /\ row.retry_best = "missing" /\ row.prefix \in Nat
      /\ row.complete \in BOOLEAN
  BY <1>1, <1>2, <1>3, <1>4, <1>5, <1>6 DEF Init, Row
<1>8. (row.passes > 0) \in BOOLEAN OBVIOUS
<1>9. TypeOK BY <1>7, <1>8 DEF Init, TypeOK, Text
<1> QED BY <1>7, <1>9 DEF Init, IInv, EvidenceKept, WorkKept, Count, BestOf

\* A commit that queues or closes the article with what the phase has in its hands.
LEMMA Committed ==
  ASSUME IInv, work # None, Commits, row' \in Row, settled' \in BOOLEAN,
         faults' \in [preflights : Nat, outages : Nat, kills : Nat],
         row'.prefix + Count(row'.pipeline) = row.prefix + work.pipeline.events,
         BestOf(row') = work.pipeline.best
  PROVE  IInv'
<1>1. work \in Work /\ work.pipeline \in Checkpoint /\ work.news \in Nat /\ work.asked \in BOOLEAN
      /\ work.pipeline.best \in Text /\ work.pipeline.events \in Nat
  BY DEF IInv, TypeOK, Work, Checkpoint
<1>2. TypeOK'
  BY <1>1, BetterText DEF IInv, TypeOK, Commits
<1>3. EvidenceKept'
  <2>1. Count(row.pipeline) \in Nat /\ row.prefix \in Nat
    BY DEF IInv, TypeOK, Row, Count, Checkpoint
  <2>2. work.pipeline.events = Count(row.pipeline) + work.news /\ row.prefix + Count(row.pipeline) = made
        /\ Better(found, work.pipeline.best) = work.pipeline.best
    BY DEF IInv, WorkKept, EvidenceKept
  <2> QED BY <1>1, <2>1, <2>2 DEF EvidenceKept, Commits
<1> QED BY <1>2, <1>3 DEF IInv, WorkKept, Commits

\* Handoffs queue it with a checkpoint of the same evidence.
LEMMA Handed ==
  ASSUME IInv, work # None, Commits, settled' \in BOOLEAN,
         faults' \in [preflights : Nat, outages : Nat, kills : Nat],
         NEW phase \in Phase, NEW due \in Nat, NEW ck \in Checkpoint,
         ck.events = work.pipeline.events, ck.best = work.pipeline.best,
         row' = Queued(row, phase, due, ck)
  PROVE  IInv'
<1>1. row \in Row BY DEF IInv, TypeOK
<1>2. Queued(row, phase, due, ck) \in Row BY <1>1, QueuedRow, Zenon
<1>5. Queued(row, phase, due, ck).prefix = row.prefix BY <1>1, QueuedRow, Zenon
<1>6. Queued(row, phase, due, ck).pipeline = ck BY <1>1, QueuedRow, Zenon
<1>3. /\ Count(Queued(row, phase, due, ck).pipeline) = ck.events
      /\ BestOf(Queued(row, phase, due, ck)) = ck.best
  BY <1>6, NoneAssumption DEF Count, BestOf
<1>4. row' \in Row /\ row'.prefix + Count(row'.pipeline) = row.prefix + work.pipeline.events
      /\ BestOf(row') = work.pipeline.best
  BY <1>2, <1>3, <1>5, Zenon
<1> QED BY <1>4, Committed, Zenon

LEMMA HandoffKept ==
  ASSUME IInv, work # None, settled' \in BOOLEAN,
         faults' \in [preflights : Nat, outages : Nat, kills : Nat],
         NEW phase \in Phase, NEW due \in Nat, NEW ck \in Checkpoint,
         ck.events = work.pipeline.events, ck.best = work.pipeline.best,
         Handoff(phase, due, ck)
  PROVE  IInv'
<1> DEFINE next == [ck EXCEPT !.service_wait_until = 0]
<1>1. next \in Checkpoint BY DEF Checkpoint
<1>2. next.events = ck.events /\ next.best = ck.best BY DEF Checkpoint
<1>3. row' = Queued(row, phase, due, next) /\ Commits BY Zenon DEF Handoff
<1> HIDE DEF next
<1> QED BY <1>1, <1>2, <1>3, Handed

LEMMA PublisherHandoffKept ==
  ASSUME IInv, work # None, faults' \in [preflights : Nat, outages : Nat, kills : Nat],
         NEW ck \in Checkpoint, ck.events = work.pipeline.events, ck.best = work.pipeline.best,
         NEW complete \in BOOLEAN, PublisherHandoff(ck, complete)
  PROVE  IInv'
<1> DEFINE wait == IF complete THEN 0 ELSE Backoff
           next == [ck EXCEPT !.unresolved = TRUE, !.publisher_unresolved = TRUE,
                      !.archive_first = FALSE, !.archive_first_done = TRUE,
                      !.archive_first_complete = complete, !.archive_unresolved = ck.unresolved,
                      !.archive_first_retry_at = wait]
<1>1. wait \in Nat /\ ck.unresolved \in BOOLEAN BY PipelineAssumption DEF Checkpoint
<1>2. Handoff("publisher", 0, next) /\ "publisher" \in Phase BY DEF PublisherHandoff, Phase
<1>3. settled' \in BOOLEAN BY DEF PublisherHandoff, IInv, TypeOK
<1> HIDE DEF wait
<1>4. next \in Checkpoint /\ next.events = ck.events /\ next.best = ck.best BY <1>1 DEF Checkpoint
<1> HIDE DEF next
<1> QED BY <1>2, <1>3, <1>4, HandoffKept

LEMMA NextPassRow ==
  ASSUME row \in Row, NEW phase, NEW prior, NEW ck \in Checkpoint
  PROVE  /\ NextPass(phase, prior, ck) \in Row
         /\ NextPass(phase, prior, ck).prefix + Count(NextPass(phase, prior, ck).pipeline)
              = row.prefix + ck.events
         /\ BestOf(NextPass(phase, prior, ck)) = ck.best
<1> DEFINE again == [row EXCEPT !.passes = PassesAfter(phase, prior, ck), !.retry_best = ck.best]
           same == [again EXCEPT !.prefix = PrefixKept(row, ck)]
           archive == [ck EXCEPT !.unresolved = FALSE, !.service_wait_until = 0]
           publisher == [ck EXCEPT !.unresolved = FALSE, !.publisher_unresolved = TRUE,
                                   !.service_wait_until = 0]
           anew == [again EXCEPT !.phase = "publisher", !.due = RetryDelay, !.prefix = @ + ck.events,
                                 !.pipeline = None]
<1>1. /\ row.prefix \in Nat /\ ck.events \in Nat /\ ck.best \in Text
      /\ PassesAfter(phase, prior, ck) \in Nat
  BY DEF PassesAfter, Row, Checkpoint
<1> HIDE DEF PassesAfter
<1>10. again \in Row /\ again.prefix = row.prefix /\ again.retry_best = ck.best
  BY <1>1 DEF Row
<1>2. archive \in Checkpoint /\ archive.events = ck.events /\ archive.best = ck.best BY DEF Checkpoint
<1>3. publisher \in Checkpoint /\ publisher.events = ck.events /\ publisher.best = ck.best
  BY DEF Checkpoint
<1>4. NextPass(phase, prior, ck) \in {Queued(same, "archive", RetryDelay, archive),
                                     Queued(same, "publisher", RetryDelay, publisher), anew}
  BY DEF NextPass
<1> HIDE DEF again, archive, publisher
<1>5. same \in Row /\ same.prefix = row.prefix BY <1>10 DEF PrefixKept, Row
<1>6. /\ anew \in Row /\ anew.prefix = row.prefix + ck.events /\ anew.pipeline = None
      /\ anew.retry_best = ck.best
  <2> DEFINE sum == again.prefix + ck.events
  <2>1. sum \in Nat /\ sum = row.prefix + ck.events BY <1>1, <1>10
  <2>2. anew = [again EXCEPT !.phase = "publisher", !.due = RetryDelay, !.prefix = sum, !.pipeline = None]
    BY <1>10 DEF Row
  <2> HIDE DEF sum, anew
  <2> QED BY PipelineAssumption, <2>1, <2>2, <1>10 DEF Row
<1> HIDE DEF same, anew
<1>7. /\ anew.prefix + Count(anew.pipeline) = row.prefix + ck.events /\ BestOf(anew) = ck.best
  BY <1>1, <1>6 DEF Count, BestOf
<1>8. ASSUME NEW p \in Phase, NEW c \in Checkpoint, c.events = ck.events, c.best = ck.best
      PROVE  /\ Queued(same, p, RetryDelay, c) \in Row
             /\ Queued(same, p, RetryDelay, c).prefix + Count(Queued(same, p, RetryDelay, c).pipeline)
                  = row.prefix + ck.events
             /\ BestOf(Queued(same, p, RetryDelay, c)) = ck.best
  <2> DEFINE q == Queued(same, p, RetryDelay, c)
  <2>0. RetryDelay \in Nat BY PipelineAssumption
  <2>1. q \in Row BY <2>0, <1>5, QueuedRow, Zenon
  <2>4. q.prefix = row.prefix BY <2>0, <1>5, QueuedRow, Zenon
  <2>5. q.pipeline = c BY <2>0, <1>5, QueuedRow, Zenon
  <2> HIDE DEF q
  <2>2. Count(q.pipeline) = ck.events /\ BestOf(q) = ck.best BY NoneAssumption, <2>5, <1>8 DEF Count, BestOf
  <2>3. q.prefix + Count(q.pipeline) = row.prefix + ck.events BY <2>4, <2>2, Zenon
  <2> QED BY <2>1, <2>2, <2>3 DEF q
<1>9. "archive" \in Phase /\ "publisher" \in Phase BY DEF Phase
<1> QED BY <1>2, <1>3, <1>4, <1>6, <1>7, <1>8, <1>9

LEMMA FinishKept ==
  ASSUME IInv, work # None, UNCHANGED faults, NEW phase, NEW prior,
         Finish(phase, prior, work.pipeline)
  PROVE  IInv'
<1> DEFINE ck == work.pipeline
<1>1. row \in Row /\ ck \in Checkpoint /\ Commits /\ settled' \in BOOLEAN
      /\ faults' \in [preflights : Nat, outages : Nat, kills : Nat]
  BY DEF Finish, IInv, TypeOK, Work
<1>2. ASSUME NEW status \in {"saved", "partial", "exhausted", "failed"}
      PROVE  /\ Closed(status, ck) \in Row
             /\ Closed(status, ck).prefix + Count(Closed(status, ck).pipeline) = row.prefix + ck.events
             /\ BestOf(Closed(status, ck)) = ck.best
  <2> DEFINE sum == row.prefix + ck.events
             best == ck.best
             closed == [row EXCEPT !.state = status, !.prefix = sum, !.pipeline = None,
                                   !.retry_best = best, !.due = 0]
  <2>0. sum \in Nat /\ best \in Text BY <1>1 DEF Row, Checkpoint
  <2>9. Closed(status, ck) = closed BY <1>1 DEF Closed, Row
  <2> HIDE DEF sum, best
  <2>1. closed \in Row BY <1>1, <2>0 DEF Row
  <2>2. closed.prefix = sum /\ closed.pipeline = None /\ closed.retry_best = best
    BY <1>1 DEF Row
  <2>3. row.prefix \in Nat /\ ck.events \in Nat BY <1>1 DEF Row, Checkpoint
  <2> HIDE DEF closed
  <2>4. Count(closed.pipeline) = 0 /\ BestOf(closed) = best BY <2>2 DEF Count, BestOf
  <2>5. closed.prefix + Count(closed.pipeline) = sum BY <2>0, <2>2, <2>4
  <2> QED BY <2>1, <2>4, <2>5, <2>9, Zenon DEF sum, best
<1>3. \/ \E status \in {"saved", "partial", "exhausted", "failed"} : row' = Closed(status, ck)
      \/ row' = NextPass(phase, prior, ck)
  BY DEF Finish, Status
<1> HIDE DEF ck
<1>4. row' \in Row /\ row'.prefix + Count(row'.pipeline) = row.prefix + ck.events /\ BestOf(row') = ck.best
  BY <1>1, <1>2, <1>3, NextPassRow
<1> QED BY <1>1, <1>4, Committed DEF ck

-----------------------------------------------------------------------------
(* Steps inside a phase                                                    *)

Faults == [preflights : Nat, outages : Nat, kills : Nat]
Places == {"publisher", "discover", "render?", "browser", "archives?", "archive", "lookup", "snapshot",
           "linked", "end"}

\* A step keeps what the phase has in its hands, or adds one retrieval to it.
LEMMA InsideKept ==
  ASSUME IInv, work # None, UNCHANGED <<row, Ghosts>>, faults' \in Faults,
         NEW w \in Work, work' = w,
         Better(work.pipeline.best, w.pipeline.best) = w.pipeline.best,
         \/ w.pipeline.events = work.pipeline.events /\ w.news = work.news
         \/ w.pipeline.events = work.pipeline.events + 1 /\ w.news = work.news + 1
  PROVE  IInv'
<1>1. /\ work \in Work /\ work.pipeline \in Checkpoint /\ w.pipeline \in Checkpoint /\ found \in Text
      /\ work.news \in Nat /\ row \in Row
  BY DEF IInv, TypeOK, Work
<1>2. /\ work.pipeline.best \in Text /\ w.pipeline.best \in Text /\ work.pipeline.events \in Nat
      /\ Count(row.pipeline) \in Nat
  BY <1>1 DEF Checkpoint, Row, Count
<1>3. TypeOK' BY DEF IInv, TypeOK, Ghosts, Faults
<1>4. EvidenceKept' BY DEF IInv, EvidenceKept, Ghosts, Count, BestOf
<1>5. Better(found, work.pipeline.best) = work.pipeline.best
      /\ work.pipeline.events = Count(row.pipeline) + work.news
  BY DEF IInv, WorkKept
<1>6. Better(found, w.pipeline.best) = w.pipeline.best BY <1>1, <1>2, <1>5, BetterText
<1>7. w.pipeline.events = Count(row.pipeline) + w.news BY <1>1, <1>2, <1>5
<1>8. WorkKept' BY <1>6, <1>7 DEF WorkKept, Count, Ghosts
<1> QED BY <1>3, <1>4, <1>8 DEF IInv

LEMMA GoesKept ==
  ASSUME IInv, work # None, faults' \in Faults, NEW at \in Places, NEW ck \in Checkpoint,
         ck.events = work.pipeline.events, ck.best = work.pipeline.best, Goes(at, ck)
  PROVE  IInv'
<1> DEFINE w == [work EXCEPT !.at = at, !.pipeline = ck]
<1>1. work \in Work BY DEF IInv, TypeOK
<1>2. w \in Work BY <1>1 DEF Work, Places
<1>3. w.pipeline = ck /\ w.news = work.news BY <1>1 DEF Work
<1>4. ck.best \in Text BY DEF Checkpoint
<1>5. work' = w /\ UNCHANGED <<row, Ghosts>> BY DEF Goes
<1> HIDE DEF w
<1> QED BY <1>2, <1>3, <1>4, <1>5, BetterText, InsideKept

LEMMA NextStampKept ==
  ASSUME IInv, work # None, faults' \in Faults, NEW ck \in Checkpoint,
         ck.events = work.pipeline.events, ck.best = work.pipeline.best, NextStamp(ck)
  PROVE  IInv'
<1> DEFINE at == IF Stamp = Stamps THEN "linked" ELSE "lookup"
           stamp == work.stamp + 1
           w == [work EXCEPT !.pipeline = ck, !.stamp = stamp, !.at = at]
<1>1. work \in Work /\ at \in Places BY DEF IInv, TypeOK, Places
<1>2. stamp \in Nat BY <1>1 DEF Work
<1>3. work' = w /\ UNCHANGED <<row, Ghosts>> BY <1>1 DEF NextStamp, Work
<1>4. ck.best \in Text BY DEF Checkpoint
<1> HIDE DEF at, stamp
<1>5. w \in Work BY <1>1, <1>2 DEF Work, Places
<1>6. w.pipeline = ck /\ w.news = work.news BY <1>1 DEF Work
<1> HIDE DEF w
<1> QED BY <1>3, <1>4, <1>5, <1>6, BetterText, InsideKept

LEMMA RetrievedText ==
  ASSUME work \in Work, NEW x \in Outcome
  PROVE  /\ Retrieved(x) \in Checkpoint
         /\ Retrieved(x).events = work.pipeline.events + 1
         /\ Retrieved(x).best = Better(work.pipeline.best, TextOf(x))
         /\ Better(work.pipeline.best, Retrieved(x).best) = Retrieved(x).best
<1> DEFINE ck == work.pipeline
           events == ck.events + 1
           best == Better(ck.best, TextOf(x))
           unresolved == ck.unresolved \/ x = "temporary"
<1>1. ck \in Checkpoint /\ TextOf(x) \in Text BY DEF Work, TextOf, Outcome, Text
<1>2. ck.events \in Nat /\ ck.best \in Text /\ ck.unresolved \in BOOLEAN BY <1>1 DEF Checkpoint
<1>3. best \in Text /\ Better(ck.best, ck.best) = ck.best BY <1>1, <1>2, BetterText
<1>4. Better(ck.best, best) = best BY <1>1, <1>2, <1>3, BetterText
<1>5. events \in Nat BY <1>2
<1>6. unresolved \in BOOLEAN BY Zenon
<1>7. Retrieved(x) = [ck EXCEPT !.events = events, !.best = best, !.unresolved = unresolved]
  BY Zenon DEF Retrieved
<1> HIDE DEF ck, events, best, unresolved
<1>8. Retrieved(x) \in Checkpoint BY <1>1, <1>3, <1>5, <1>6, <1>7 DEF Checkpoint
<1>9. Retrieved(x).events = events /\ Retrieved(x).best = best BY <1>1, <1>7 DEF Checkpoint
<1> QED BY <1>4, <1>8, <1>9 DEF ck, events, best

\* One more retrieval, after which the phase goes on elsewhere.
LEMMA OneMore ==
  ASSUME IInv, work # None, UNCHANGED <<row, Ghosts>>, faults' \in Faults,
         NEW x \in Outcome, NEW w \in Work, work' = w, w.pipeline.events = Retrieved(x).events,
         w.pipeline.best = Retrieved(x).best, w.news = work.news + 1
  PROVE  IInv'
<1>1. work \in Work BY DEF IInv, TypeOK
<1>2. w.pipeline.events = work.pipeline.events + 1
      /\ Better(work.pipeline.best, w.pipeline.best) = w.pipeline.best
  BY <1>1, RetrievedText
<1> QED BY <1>2, InsideKept

\* The phase's record after a retrieval.
After(at, ck, stamp, asked) ==
  [work EXCEPT !.at = at, !.pipeline = ck, !.news = work.news + 1, !.stamp = stamp, !.asked = asked]

LEMMA WorkAfter ==
  ASSUME work \in Work, NEW at \in Places, NEW ck \in Checkpoint, NEW stamp \in Nat, NEW asked \in BOOLEAN
  PROVE  /\ After(at, ck, stamp, asked) \in Work /\ After(at, ck, stamp, asked).pipeline = ck
         /\ After(at, ck, stamp, asked).news = work.news + 1
<1> DEFINE news == work.news + 1
           w == [work EXCEPT !.at = at, !.pipeline = ck, !.news = news, !.stamp = stamp, !.asked = asked]
<1>1. news \in Nat BY DEF Work
<1> HIDE DEF news
<1>2. w \in Work BY <1>1 DEF Work, Places
<1>3. w.pipeline = ck /\ w.news = news BY DEF Work
<1> QED BY <1>2, <1>3 DEF news, After

LEMMA LearnsKept ==
  ASSUME IInv, work # None, faults' \in Faults, NEW x \in Outcome, NEW at \in Places,
         NEW asked \in BOOLEAN, Learns(at, x, asked)
  PROVE  IInv'
<1> DEFINE all == work.asked \/ asked
           ck == Retrieved(x)
<1>1. work \in Work BY DEF IInv, TypeOK
<1>2. ck \in Checkpoint BY <1>1, RetrievedText
<1>3. all \in BOOLEAN BY Zenon
<1>4. work' = [work EXCEPT !.at = at, !.pipeline = ck, !.news = @ + 1, !.asked = all]
      /\ UNCHANGED <<row, Ghosts>>
  BY Zenon DEF Learns
<1> HIDE DEF all, ck
<1>5. work' \in Work /\ work'.pipeline = ck /\ work'.news = work.news + 1
  <2> DEFINE stamp == work.stamp
             w == After(at, ck, stamp, all)
  <2>1. stamp \in Nat /\ work' = w BY <1>1, <1>4 DEF Work, After
  <2> HIDE DEF stamp
  <2>2. w \in Work /\ w.pipeline = ck /\ w.news = work.news + 1 BY <1>1, <1>2, <1>3, <2>1, WorkAfter
  <2> QED BY <2>1, <2>2, Zenon
<1>6. ck.events = Retrieved(x).events /\ ck.best = Retrieved(x).best BY DEF ck
<1> HIDE DEF ck
<1>7. work'.pipeline.events = Retrieved(x).events /\ work'.pipeline.best = Retrieved(x).best
  BY <1>5, <1>6
<1> QED BY <1>4, <1>5, <1>7, OneMore

LEMMA LateKept ==
  ASSUME IInv, work # None, faults' \in Faults, NEW at \in Places, Late(at)
  PROVE  IInv'
<1> DEFINE ck == [work.pipeline EXCEPT !.unresolved = TRUE]
<1>1. work.pipeline \in Checkpoint BY DEF IInv, TypeOK, Work
<1>2. ck \in Checkpoint BY <1>1 DEF Checkpoint
<1>3. ck.events = work.pipeline.events /\ ck.best = work.pipeline.best BY <1>1 DEF Checkpoint
<1>4. Goes(at, ck) BY DEF Late
<1> HIDE DEF ck
<1> QED BY <1>2, <1>3, <1>4, GoesKept

LEMMA SkipsKept ==
  ASSUME IInv, work # None, faults' \in Faults, NEW at \in Places, Skips(at)
  PROVE  IInv'
<1>1. work.pipeline \in Checkpoint BY DEF IInv, TypeOK, Work
<1> QED BY <1>1, GoesKept DEF Skips

LEMMA HttpKept ==
  ASSUME IInv, faults' \in Faults, NEW x \in Outcome, Http(x)
  PROVE  IInv'
<1> DEFINE gone == Retrieved(x).unresolved
           ck == [Retrieved(x) EXCEPT !.publisher_unresolved = gone]
<1>1. work \in Work /\ work # None BY DEF IInv, TypeOK, Http, At
<1>2. Retrieved(x) \in Checkpoint BY <1>1, RetrievedText
<1>3. gone \in BOOLEAN BY <1>2 DEF Checkpoint
<1>4. UNCHANGED <<row, Ghosts>>
      /\ work' = [work EXCEPT !.at = "discover", !.news = @ + 1, !.asked = TRUE, !.pipeline = ck]
  BY Zenon DEF Http
<1> HIDE DEF gone
<1>5. ck \in Checkpoint BY <1>2, <1>3 DEF Checkpoint
<1>6. ck.events = Retrieved(x).events /\ ck.best = Retrieved(x).best BY <1>2 DEF Checkpoint
<1> HIDE DEF ck
<1>7. work' \in Work /\ work'.pipeline = ck /\ work'.news = work.news + 1
  <2> DEFINE stamp == work.stamp
             w == After("discover", ck, stamp, TRUE)
  <2>1. stamp \in Nat /\ work' = w /\ "discover" \in Places BY <1>1, <1>4 DEF Work, Places, After
  <2> HIDE DEF stamp
  <2>2. w \in Work /\ w.pipeline = ck /\ w.news = work.news + 1 BY <1>1, <1>5, <2>1, WorkAfter
  <2> QED BY <2>1, <2>2, Zenon
<1>8. work'.pipeline.events = Retrieved(x).events /\ work'.pipeline.best = Retrieved(x).best
  BY <1>6, <1>7
<1> QED BY <1>1, <1>4, <1>7, <1>8, OneMore

LEMMA SnapshotKept ==
  ASSUME IInv, NEW x \in Outcome, Snapshot(x)
  PROVE  IInv'
<1> DEFINE shown == [Retrieved(x) EXCEPT !.seen = @ \cup {Stamp}]
           ck == IF x = "temporary" THEN Retrieved(x) ELSE shown
           at == IF Candidate(ck) \/ Stamp = Stamps THEN "linked" ELSE "lookup"
<1>1. work \in Work /\ work # None /\ faults' \in Faults
  BY DEF IInv, TypeOK, Snapshot, At, Faults
<1>2. work.stamp \in Nat /\ at \in Places /\ Retrieved(x) \in Checkpoint
  BY <1>1, RetrievedText DEF Work, Places
<1>3. shown \in Checkpoint
  <2> DEFINE seen == Retrieved(x).seen \cup {Stamp}
  <2>1. seen \in SUBSET Nat BY <1>2 DEF Checkpoint, Stamp
  <2>2. shown = [Retrieved(x) EXCEPT !.seen = seen] BY Zenon
  <2> HIDE DEF seen, shown
  <2> QED BY <1>2, <2>1, <2>2 DEF Checkpoint
<1>4. shown.events = Retrieved(x).events /\ shown.best = Retrieved(x).best BY <1>2 DEF Checkpoint
<1>5. UNCHANGED <<row, Ghosts>>
      /\ work' = [work EXCEPT !.pipeline = ck, !.news = @ + 1, !.stamp = @ + 1, !.at = at]
  BY Zenon DEF Snapshot
<1> HIDE DEF shown
<1>6. ck \in Checkpoint /\ ck.events = Retrieved(x).events /\ ck.best = Retrieved(x).best
  BY <1>2, <1>3, <1>4
<1> HIDE DEF ck, at
<1>7. work' \in Work /\ work'.pipeline = ck /\ work'.news = work.news + 1
  <2> DEFINE stamp == work.stamp + 1
             asked == work.asked
             w == After(at, ck, stamp, asked)
  <2>1. stamp \in Nat /\ asked \in BOOLEAN BY <1>1 DEF Work
  <2>2. work' = w BY <1>1, <1>5 DEF Work, After
  <2> HIDE DEF stamp, asked
  <2>3. w \in Work /\ w.pipeline = ck /\ w.news = work.news + 1
    BY <1>1, <1>2, <1>6, <2>1, WorkAfter
  <2> QED BY <2>2, <2>3, Zenon
<1>8. work'.pipeline.events = Retrieved(x).events /\ work'.pipeline.best = Retrieved(x).best
  BY <1>6, <1>7
<1> QED BY <1>1, <1>5, <1>7, <1>8, OneMore

-----------------------------------------------------------------------------
(* Waits and answers of the archives                                       *)

LEMMA WaitsKept ==
  ASSUME IInv, work # None, settled' \in BOOLEAN, faults' \in Faults,
         NEW due \in Nat, NEW ck \in Checkpoint,
         ck.events = work.pipeline.events, ck.best = work.pipeline.best, Waits(due, ck)
  PROVE  IInv'
<1>1. "archive" \in Phase BY DEF Phase
<1>2. row' = Queued(row, "archive", due, ck) /\ Commits BY DEF Waits
<1> QED BY <1>1, <1>2, Handed DEF Faults

\* A preflight that waits is no failed attempt of the publisher.
LEMMA PreflightWaits ==
  ASSUME IInv, work # None, settled' \in BOOLEAN, faults' \in Faults,
         NEW due \in Nat, NEW ck \in Checkpoint,
         ck.events = work.pipeline.events, ck.best = work.pipeline.best,
         Waits(due, [ck EXCEPT !.unresolved = TRUE, !.archive_unresolved = ck.unresolved])
  PROVE  IInv'
<1> DEFINE next == [ck EXCEPT !.unresolved = TRUE, !.archive_unresolved = ck.unresolved]
<1>1. next \in Checkpoint /\ next.events = ck.events /\ next.best = ck.best BY DEF Checkpoint
<1>2. Waits(due, next) OBVIOUS
<1> HIDE DEF next
<1> QED BY <1>1, <1>2, WaitsKept

LEMMA SoonerDue ==
  ASSUME NEW a \in Nat, NEW b \in Nat
  PROVE  Smaller(a, b) \in Nat
  BY DEF Smaller

LEMMA ServiceWaitsKept ==
  ASSUME IInv, work # None, NEW wait \in ServiceWait, ServiceWaits(wait)
  PROVE  IInv'
<1> DEFINE ck == [work.pipeline EXCEPT !.service_wait_until = wait]
<1>1. work.pipeline \in Checkpoint /\ wait \in Nat /\ settled \in BOOLEAN /\ faults \in Faults
  BY PipelineAssumption DEF IInv, TypeOK, Work, Faults
<1>2. ck \in Checkpoint BY <1>1 DEF Checkpoint
<1>3. ck.events = work.pipeline.events /\ ck.best = work.pipeline.best BY <1>1 DEF Checkpoint
<1>4. faults' \in Faults BY <1>1 DEF ServiceWaits, Faults
<1>5. IF Preflight(ck)
      THEN IF ck.publisher_retry_at \in {None, 0} THEN PublisherHandoff(ck, FALSE)
           ELSE /\ Waits(Smaller(wait, ck.publisher_retry_at),
                         [ck EXCEPT !.unresolved = TRUE, !.archive_unresolved = ck.unresolved])
                /\ UNCHANGED settled
      ELSE Waits(wait, ck) /\ UNCHANGED settled
  BY Zenon DEF ServiceWaits
<1> HIDE DEF ck
<1>6. CASE PublisherHandoff(ck, FALSE)
  BY <1>2, <1>3, <1>4, <1>6, PublisherHandoffKept DEF Faults
<1>7. CASE Waits(wait, ck) /\ UNCHANGED settled
  BY <1>1, <1>2, <1>3, <1>4, <1>7, WaitsKept
<1>8. CASE /\ ck.publisher_retry_at \notin {None, 0} /\ UNCHANGED settled
           /\ Waits(Smaller(wait, ck.publisher_retry_at),
                    [ck EXCEPT !.unresolved = TRUE, !.archive_unresolved = ck.unresolved])
  <2>1. ck.publisher_retry_at \in Nat BY <1>2, <1>8 DEF Checkpoint
  <2>2. Smaller(wait, ck.publisher_retry_at) \in Nat BY <1>1, <2>1, SoonerDue
  <2>3. settled' \in BOOLEAN BY <1>1, <1>8
  <2> QED BY <1>2, <1>3, <1>4, <1>8, <2>2, <2>3, PreflightWaits
<1> QED BY <1>5, <1>6, <1>7, <1>8

LEMMA ArchiveKept ==
  ASSUME IInv, faults' \in Faults, Archive
  PROVE  IInv'
<1> DEFINE ck == work.pipeline
<1>1. work # None /\ ck \in Checkpoint /\ settled \in BOOLEAN
  BY DEF IInv, TypeOK, Work, Archive, At
<1>2. \/ PublisherHandoff(ck, FALSE)
      \/ Skips("lookup")
      \/ Waits(ck.service_wait_until, ck) /\ UNCHANGED settled
      \/ /\ ck.publisher_retry_at \notin {None, 0} /\ UNCHANGED settled
         /\ Waits(Smaller(ck.service_wait_until, ck.publisher_retry_at),
                  [ck EXCEPT !.unresolved = TRUE, !.archive_unresolved = ck.unresolved])
  BY Zenon DEF Archive
<1>3. ck.service_wait_until \in Nat /\ ck.publisher_retry_at \in Nat \cup {None} BY <1>1 DEF Checkpoint
<1>4. CASE PublisherHandoff(ck, FALSE) BY <1>1, <1>4, PublisherHandoffKept DEF Faults
<1>5. CASE Skips("lookup") BY <1>1, <1>5, SkipsKept DEF Places
<1>6. CASE Waits(ck.service_wait_until, ck) /\ UNCHANGED settled BY <1>1, <1>3, <1>6, WaitsKept
<1>7. CASE /\ ck.publisher_retry_at \notin {None, 0} /\ UNCHANGED settled
           /\ Waits(Smaller(ck.service_wait_until, ck.publisher_retry_at),
                    [ck EXCEPT !.unresolved = TRUE, !.archive_unresolved = ck.unresolved])
  <2>1. Smaller(ck.service_wait_until, ck.publisher_retry_at) \in Nat BY <1>3, <1>7, SoonerDue
  <2>2. settled' \in BOOLEAN BY <1>1, <1>7
  <2> QED BY <1>1, <1>7, <2>1, <2>2, PreflightWaits
<1> QED BY <1>2, <1>4, <1>5, <1>6, <1>7

LEMMA LookupKept ==
  ASSUME IInv, NEW answer \in {"none", "snapshot", "error"}, Lookup(answer)
  PROVE  IInv'
<1>1. work # None /\ work.pipeline \in Checkpoint /\ faults' \in Faults
  BY DEF IInv, TypeOK, Work, Lookup, At, Faults
<1>2. CASE answer = "error"
  <2> DEFINE ck == [work.pipeline EXCEPT !.unresolved = TRUE]
  <2>1. ck \in Checkpoint BY <1>1 DEF Checkpoint
  <2>2. ck.events = work.pipeline.events /\ ck.best = work.pipeline.best BY <1>1 DEF Checkpoint
  <2>3. NextStamp(ck) BY <1>2 DEF Lookup
  <2> HIDE DEF ck
  <2> QED BY <1>1, <2>1, <2>2, <2>3, NextStampKept
<1>3. CASE answer # "error"
  <2> DEFINE lookups == [work.pipeline.lookups EXCEPT ![Stamp] = answer]
             ck == [work.pipeline EXCEPT !.lookups[Stamp] = answer]
  <2>1. lookups \in [1..Stamps -> {"unknown", "none", "snapshot"}] BY <1>1, <1>3 DEF Checkpoint
  <2>2. ck = [work.pipeline EXCEPT !.lookups = lookups] BY <1>1 DEF Checkpoint
  <2>3. NextStamp(ck) \/ Goes("snapshot", ck) BY <1>3, Zenon DEF Lookup
  <2> HIDE DEF lookups, ck
  <2>4. ck \in Checkpoint BY <1>1, <2>1, <2>2 DEF Checkpoint
  <2>5. ck.events = work.pipeline.events /\ ck.best = work.pipeline.best BY <1>1, <2>2 DEF Checkpoint
  <2>6. "snapshot" \in Places BY DEF Places
  <2> QED BY <1>1, <2>3, <2>4, <2>5, <2>6, NextStampKept, GoesKept
<1> QED BY <1>2, <1>3

LEMMA CachedKept ==
  ASSUME IInv, Cached
  PROVE  IInv'
<1>1. work # None /\ work.pipeline \in Checkpoint /\ faults' \in Faults
  BY DEF IInv, TypeOK, Work, Cached, At, Faults
<1>2. NextStamp(work.pipeline) \/ Skips("snapshot") BY DEF Cached
<1>3. "snapshot" \in Places BY DEF Places
<1> QED BY <1>1, <1>2, <1>3, NextStampKept, SkipsKept

-----------------------------------------------------------------------------
(* Claims                                                                  *)

LEMMA FreshFields == Fresh \in Checkpoint /\ Fresh.events = 0
<1>1. [s \in 1..Stamps |-> "unknown"] \in [1..Stamps -> {"unknown", "none", "snapshot"}] OBVIOUS
<1>2. {} \in SUBSET Nat OBVIOUS
<1> DEFINE lookups == [s \in 1..Stamps |-> "unknown"]
           seen == {}
<1>3. lookups \in [1..Stamps -> {"unknown", "none", "snapshot"}] /\ seen \in SUBSET Nat BY <1>1, <1>2
<1> HIDE DEF lookups, seen
<1> QED BY <1>3 DEF Fresh, Checkpoint, Text, lookups, seen

\* A phase resumes with what the article has.
LEMMA ResumedText ==
  ASSUME row \in Row
  PROVE  /\ Resumed \in Checkpoint /\ Resumed.events = Count(row.pipeline) /\ Resumed.best = BestOf(row)
<1>1. CASE row.pipeline = None
  <2> DEFINE best == row.retry_best
             done == row.done
             complete == row.complete
             ck == [Fresh EXCEPT !.best = best, !.archive_first_done = done,
                                 !.archive_first_complete = complete]
  <2>1. best \in Text /\ done \in BOOLEAN /\ complete \in BOOLEAN BY DEF Row
  <2>2. Resumed = ck BY <1>1 DEF Resumed, Restarted
  <2> HIDE DEF best, done, complete
  <2>3. ck \in Checkpoint BY <2>1, FreshFields DEF Checkpoint
  <2>4. ck.events = 0 /\ ck.best = best BY FreshFields DEF Checkpoint
  <2> HIDE DEF ck
  <2> QED BY <1>1, <2>2, <2>3, <2>4 DEF Count, BestOf, best
<1>2. CASE row.pipeline # None
  <2> DEFINE ck == row.pipeline
             un == ck.archive_unresolved
             first == [ck EXCEPT !.unresolved = un]
             clear == [ck EXCEPT !.unresolved = FALSE, !.publisher_unresolved = FALSE]
  <2>1. ck \in Checkpoint BY <1>2 DEF Row
  <2>2. un \in BOOLEAN BY <2>1 DEF Checkpoint
  <2>3. Resumed = first \/ Resumed = clear \/ Resumed = ck BY <1>2 DEF Resumed
  <2>4. Count(row.pipeline) = ck.events /\ BestOf(row) = ck.best BY <1>2 DEF Count, BestOf
  <2> HIDE DEF ck, un
  <2>5. first \in Checkpoint /\ first.events = ck.events /\ first.best = ck.best
    BY <2>1, <2>2 DEF Checkpoint
  <2>6. clear \in Checkpoint /\ clear.events = ck.events /\ clear.best = ck.best BY <2>1 DEF Checkpoint
  <2> HIDE DEF first, clear
  <2> QED BY <2>1, <2>3, <2>4, <2>5, <2>6
<1> QED BY <1>1, <1>2

LEMMA StartKept ==
  ASSUME IInv, Start
  PROVE  IInv'
<1> DEFINE ck == Resumed
           phase == row.phase
           prior == Resumed.unresolved
           w == [at |-> phase, phase |-> phase, pipeline |-> ck, prior |-> prior, stamp |-> 1,
                 news |-> 0, asked |-> FALSE]
<1>1. row \in Row /\ found \in Text BY DEF IInv, TypeOK
<1>2. phase \in Phase BY <1>1 DEF Row, Phase
<1>3. ck \in Checkpoint /\ ck.events = Count(row.pipeline) /\ ck.best = BestOf(row)
  BY <1>1, ResumedText
<1>4. prior \in BOOLEAN BY <1>3 DEF Checkpoint
<1>5. work' = w /\ UNCHANGED <<row, made, tried, found, settled, faults>> BY DEF Start, Ghosts
<1> HIDE DEF ck, phase, prior
<1>6. w \in Work BY <1>2, <1>3, <1>4 DEF Work, Phase
<1>7. w.pipeline = ck /\ w.news = 0 OBVIOUS
<1> HIDE DEF w
<1>8. TypeOK' BY <1>5, <1>6 DEF IInv, TypeOK
<1>9. EvidenceKept' BY <1>5 DEF IInv, EvidenceKept, Count, BestOf
<1>10. ck.best = found /\ Better(found, found) = found BY <1>1, <1>3, BetterText DEF IInv, EvidenceKept
<1>11. Count(row.pipeline) \in Nat BY <1>1 DEF Row, Count, Checkpoint
<1>12. WorkKept' BY <1>3, <1>5, <1>7, <1>10, <1>11 DEF WorkKept, Count
<1> QED BY <1>8, <1>9, <1>12 DEF IInv

\* While no phase runs, the row may be rewritten as long as its evidence stays.
LEMMA Rewritten ==
  ASSUME IInv, work = None, UNCHANGED <<work, Ghosts>>, faults' \in Faults, row' \in Row,
         row'.prefix + Count(row'.pipeline) = row.prefix + Count(row.pipeline),
         BestOf(row') = BestOf(row)
  PROVE  IInv'
<1>1. TypeOK' BY DEF IInv, TypeOK, Ghosts, Faults
<1>2. EvidenceKept' BY DEF IInv, EvidenceKept, Ghosts
<1>3. WorkKept' BY DEF WorkKept
<1> QED BY <1>1, <1>2, <1>3 DEF IInv

LEMMA MigrateKept ==
  ASSUME IInv, Migrate
  PROVE  IInv'
<1> DEFINE events == row.prefix
           best == row.retry_best
           ck == [Fresh EXCEPT !.events = events, !.best = best]
           next == [row EXCEPT !.phase = "archive", !.prefix = 0, !.legacy = FALSE, !.pipeline = ck]
<1>1. row \in Row /\ faults' \in Faults /\ row.pipeline = None /\ work = None /\ UNCHANGED <<work, Ghosts>>
  BY DEF IInv, TypeOK, Migrate, Migrates, Waiting, Faults
<1>2. events \in Nat /\ best \in Text BY <1>1 DEF Row
<1>3. row' = next BY DEF Migrate
<1>4. Count(row.pipeline) = 0 /\ BestOf(row) = best BY <1>1 DEF Count, BestOf
<1> HIDE DEF best
<1>5. ck \in Checkpoint /\ ck.events = events /\ ck.best = best BY <1>2, FreshFields DEF Checkpoint
<1> HIDE DEF ck
<1>6. next \in Row /\ next.prefix = 0 /\ next.pipeline = ck BY <1>1, <1>5 DEF Row
<1> HIDE DEF next
<1>7. Count(next.pipeline) = events /\ BestOf(next) = best
  BY <1>5, <1>6, NoneAssumption DEF Count, BestOf
<1> QED BY <1>1, <1>2, <1>3, <1>4, <1>6, <1>7, Rewritten

LEMMA ArchiveFirstKept ==
  ASSUME IInv, NEW until \in PublisherWait, ArchiveFirst(until)
  PROVE  IInv'
<1> DEFINE best == row.retry_best
           kept == IF row.pipeline = None THEN [Fresh EXCEPT !.best = best] ELSE row.pipeline
           ck == [kept EXCEPT !.unresolved = TRUE, !.publisher_unresolved = TRUE,
                    !.archive_first = TRUE, !.archive_first_done = FALSE,
                    !.archive_first_complete = FALSE, !.archive_first_retry_at = 0,
                    !.publisher_retry_at = until, !.service_wait_until = 0]
           next == [row EXCEPT !.phase = "archive", !.legacy = FALSE, !.pipeline = ck]
<1>1. row \in Row /\ work = None /\ UNCHANGED <<work, Ghosts>> /\ until \in Nat \cup {None}
  BY PipelineAssumption DEF IInv, TypeOK, ArchiveFirst, Waiting
<1>2. faults' \in Faults BY DEF ArchiveFirst, IInv, TypeOK, Faults
<1>3. row' = next BY DEF ArchiveFirst
<1>4. best \in Text /\ row.prefix \in Nat BY <1>1 DEF Row
<1>5. kept \in Checkpoint /\ kept.events = Count(row.pipeline) /\ kept.best = BestOf(row)
  <2>1. CASE row.pipeline = None
    <3> HIDE DEF best
    <3>1. [Fresh EXCEPT !.best = best] \in Checkpoint BY <1>4, FreshFields DEF Checkpoint
    <3>2. [Fresh EXCEPT !.best = best].events = 0 /\ [Fresh EXCEPT !.best = best].best = best
      BY FreshFields DEF Checkpoint
    <3> QED BY <2>1, <3>1, <3>2 DEF Count, BestOf, best
  <2>2. CASE row.pipeline # None BY <1>1, <2>2 DEF Row, Count, BestOf
  <2> QED BY <2>1, <2>2
<1> HIDE DEF kept
<1>6. ck \in Checkpoint BY <1>1, <1>5 DEF Checkpoint
<1>7. ck.events = kept.events /\ ck.best = kept.best BY <1>5 DEF Checkpoint
<1> HIDE DEF ck
<1>8. next \in Row /\ next.prefix = row.prefix /\ next.pipeline = ck BY <1>1, <1>6 DEF Row
<1> HIDE DEF next
<1>9. Count(next.pipeline) = ck.events /\ BestOf(next) = ck.best
  BY <1>6, <1>8, NoneAssumption DEF Count, BestOf
<1> QED BY <1>1, <1>2, <1>3, <1>5, <1>7, <1>8, <1>9, Rewritten

-----------------------------------------------------------------------------
(* Every step                                                              *)

LEMMA EndKept ==
  ASSUME IInv, UNCHANGED faults, End
  PROVE  IInv'
<1>1. work # None /\ work.pipeline \in Checkpoint /\ faults' \in Faults
  BY DEF IInv, TypeOK, Work, End, At, Faults
<1>2. \/ PublisherHandoff(work.pipeline, ~work.pipeline.unresolved)
      \/ Finish(work.phase, work.prior, work.pipeline)
  BY DEF End
<1>3. (~work.pipeline.unresolved) \in BOOLEAN OBVIOUS
<1> QED BY <1>1, <1>2, <1>3, PublisherHandoffKept, FinishKept DEF Faults

LEMMA LeavesPhase ==
  ASSUME IInv, faults' \in Faults, ToBrowser \/ ToArchives
  PROVE  IInv'
<1>1. work # None /\ work.pipeline \in Checkpoint /\ settled \in BOOLEAN
  BY DEF IInv, TypeOK, Work, ToBrowser, ToArchives, At
<1>2. \/ Handoff("browser", 0, work.pipeline) /\ UNCHANGED settled
      \/ Handoff("archive", 0, work.pipeline) /\ UNCHANGED settled
      \/ Skips("linked")
  BY DEF ToBrowser, ToArchives
<1>3. "browser" \in Phase /\ "archive" \in Phase /\ "linked" \in Places BY DEF Phase, Places
<1>4. CASE Skips("linked") BY <1>1, <1>3, <1>4, SkipsKept
<1>5. ASSUME NEW phase \in Phase, Handoff(phase, 0, work.pipeline), UNCHANGED settled
      PROVE  IInv'
  BY <1>1, <1>5, HandoffKept DEF Faults
<1> QED BY <1>2, <1>3, <1>4, <1>5

LEMMA StepKept ==
  ASSUME IInv, Step
  PROVE  IInv'
<1>1. faults \in Faults BY DEF IInv, TypeOK, Faults
<1>2. ASSUME NEW at, At(at) PROVE work # None BY <1>2 DEF At
<1>3. Places = {"publisher", "discover", "render?", "browser", "archives?", "archive", "lookup",
                "snapshot", "linked", "end"}
  BY DEF Places
<1>4. ASSUME UNCHANGED faults, NEW x \in Outcome, Http(x) \/ Discover(x) \/ Render(x) \/ Linked(x)
      PROVE  IInv'
  <2>1. faults' \in Faults BY <1>1, <1>4
  <2>2. CASE Http(x) BY <2>1, <2>2, HttpKept
  <2>3. CASE Discover(x) BY <2>1, <2>3, <1>2, <1>3, LearnsKept DEF Discover
  <2>4. CASE Render(x) BY <2>1, <2>4, <1>2, <1>3, LearnsKept DEF Render
  <2>5. CASE Linked(x) BY <2>1, <2>5, <1>2, <1>3, LearnsKept DEF Linked
  <2> QED BY <1>4, <2>2, <2>3, <2>4, <2>5
<1>5. ASSUME UNCHANGED faults, NoDiscovery \/ NoBrowser \/ RenderLate \/ NotLinked
      PROVE  IInv'
  <2>1. faults' \in Faults BY <1>1, <1>5
  <2>2. CASE NoDiscovery BY <2>1, <2>2, <1>2, <1>3, SkipsKept, LateKept DEF NoDiscovery
  <2>3. CASE NoBrowser BY <2>1, <2>3, <1>2, <1>3, SkipsKept, LateKept DEF NoBrowser
  <2>4. CASE RenderLate BY <2>1, <2>4, <1>2, <1>3, LateKept DEF RenderLate
  <2>5. CASE NotLinked BY <2>1, <2>5, <1>2, <1>3, SkipsKept, LateKept DEF NotLinked
  <2> QED BY <1>5, <2>2, <2>3, <2>4, <2>5
<1>6. ASSUME UNCHANGED faults, ToBrowser \/ ToArchives \/ Archive \/ End
      PROVE  IInv'
  <2>1. faults' \in Faults BY <1>1, <1>6
  <2> QED BY <1>6, <2>1, LeavesPhase, ArchiveKept, EndKept
<1>7. ASSUME NEW answer \in {"none", "snapshot", "error"}, Lookup(answer) PROVE IInv'
  BY <1>7, LookupKept
<1>8. CASE Cached BY <1>8, CachedKept
<1>9. CASE ArchiveLate
  <2>1. faults' \in Faults BY <1>1, <1>9 DEF ArchiveLate
  <2> QED BY <1>9, <2>1, <1>2, <1>3, LateKept DEF ArchiveLate
<1>10. ASSUME NEW x \in Outcome, Snapshot(x) PROVE IInv' BY <1>10, SnapshotKept
<1>11. ASSUME NEW wait \in ServiceWait, LookupWaits(wait) \/ SnapshotWaits(wait) PROVE IInv'
  BY <1>11, <1>2, ServiceWaitsKept DEF LookupWaits, SnapshotWaits
<1> QED BY <1>4, <1>5, <1>6, <1>7, <1>8, <1>9, <1>10, <1>11 DEF Step

LEMMA KillKept ==
  ASSUME IInv, Kill
  PROVE  IInv'
<1>1. UNCHANGED <<row, made, tried, found, settled>> /\ work' = None BY DEF Kill, Ghosts
<1>2. faults' \in Faults BY DEF Kill, IInv, TypeOK, Faults
<1> QED BY <1>1, <1>2 DEF IInv, TypeOK, EvidenceKept, WorkKept, Count, BestOf, Faults

\* Time takes nothing from a checkpoint but what is left of its waits.
LEMMA AgedCheckpoint ==
  ASSUME NEW ck \in Checkpoint
  PROVE  Aged(ck) \in Checkpoint /\ Aged(ck).events = ck.events /\ Aged(ck).best = ck.best
<1> DEFINE a == Before(ck.publisher_retry_at)
           b == Before(ck.archive_first_retry_at)
           c == Before(ck.service_wait_until)
           next == [ck EXCEPT !.publisher_retry_at = a, !.archive_first_retry_at = b,
                              !.service_wait_until = c]
<1>1. ck.publisher_retry_at \in Nat \cup {None} /\ ck.archive_first_retry_at \in Nat
      /\ ck.service_wait_until \in Nat
  BY DEF Checkpoint
<1>2. a \in Nat \cup {None} /\ b \in Nat /\ c \in Nat BY <1>1, PipelineAssumption DEF Before
<1>3. Aged(ck) = next BY DEF Aged, Checkpoint
<1> HIDE DEF a, b, c
<1> QED BY <1>2, <1>3 DEF Checkpoint

LEMMA TickKept ==
  ASSUME IInv, Tick
  PROVE  IInv'
<1> DEFINE due == Before(row.due)
           kept == IF row.pipeline = None THEN None ELSE Aged(row.pipeline)
           later == [row EXCEPT !.due = due, !.pipeline = kept]
<1>1. row \in Row /\ UNCHANGED <<made, tried, found, settled, faults>> BY DEF IInv, TypeOK, Tick, Ghosts
<1>2. due \in Nat BY <1>1, PipelineAssumption DEF Row, Before
<1>3. row.pipeline \in Checkpoint \cup {None} BY <1>1 DEF Row
<1>4. kept \in Checkpoint \cup {None} BY <1>3, AgedCheckpoint
<1>5. row' = later BY <1>1 DEF Tick, Row
<1>6. Count(kept) = Count(row.pipeline) BY <1>3, AgedCheckpoint, NoneAssumption DEF Count
<1>7. kept # None => row.pipeline # None /\ kept.best = row.pipeline.best BY <1>3, AgedCheckpoint
<1>8. kept = None => row.pipeline = None BY <1>3, AgedCheckpoint, NoneAssumption
<1> HIDE DEF due, kept
<1>9. later \in Row /\ later.prefix = row.prefix /\ later.pipeline = kept
      /\ later.retry_best = row.retry_best
  BY <1>1, <1>2, <1>4 DEF Row
<1> HIDE DEF later
<1>10. Count(later.pipeline) = Count(row.pipeline) /\ BestOf(later) = BestOf(row)
  BY <1>6, <1>7, <1>8, <1>9 DEF BestOf
<1>11. EvidenceKept' BY <1>1, <1>5, <1>9, <1>10 DEF IInv, EvidenceKept
<1>12. CASE work = None
  <2>1. work' = None BY <1>12 DEF Tick
  <2> QED BY <1>1, <1>5, <1>9, <1>11, <2>1 DEF IInv, TypeOK, WorkKept
<1>13. CASE work # None
  <2> DEFINE ck == Aged(work.pipeline)
             w == [work EXCEPT !.pipeline = ck]
  <2>1. work \in Work /\ work.pipeline \in Checkpoint BY <1>13 DEF IInv, TypeOK, Work
  <2>2. ck \in Checkpoint /\ ck.events = work.pipeline.events /\ ck.best = work.pipeline.best
    BY <2>1, AgedCheckpoint
  <2>3. work' = w BY <1>13, <2>1 DEF Tick, Work
  <2> HIDE DEF ck
  <2>4. w \in Work /\ w.pipeline = ck /\ w.news = work.news BY <2>1, <2>2 DEF Work
  <2> HIDE DEF w
  <2>5. TypeOK' BY <1>1, <1>5, <1>9, <2>3, <2>4 DEF IInv, TypeOK
  <2>6. WorkKept' BY <1>1, <1>5, <1>10, <1>13, <2>2, <2>3, <2>4 DEF IInv, WorkKept
  <2> QED BY <1>11, <2>5, <2>6 DEF IInv
<1> QED BY <1>12, <1>13

LEMMA Inductive == IInv /\ [Next]_vars => IInv'
<1> SUFFICES ASSUME IInv, [Next]_vars PROVE IInv' OBVIOUS
<1>1. CASE Start BY <1>1, StartKept
<1>2. CASE Migrate BY <1>2, MigrateKept
<1>3. ASSUME NEW until \in PublisherWait, ArchiveFirst(until) PROVE IInv'
  BY <1>3, ArchiveFirstKept
<1>4. CASE Step BY <1>4, StepKept
<1>5. CASE Kill BY <1>5, KillKept
<1>6. CASE Tick BY <1>6, TickKept
<1>7. CASE UNCHANGED vars
  BY <1>7 DEF vars, IInv, TypeOK, EvidenceKept, WorkKept, Count, BestOf
<1> QED BY <1>1, <1>2, <1>3, <1>4, <1>5, <1>6, <1>7 DEF Next

-----------------------------------------------------------------------------
(* The publisher is asked                                                  *)

\* The places of each phase.
MayBe(at, phase) ==
  /\ at \in {"publisher", "discover", "render?"} => phase = "publisher"
  /\ at = "browser" => phase = "browser"
  /\ at = "archives?" => phase # "archive"
  /\ at \in {"archive", "lookup", "snapshot"} => phase = "archive"

\* A running phase is the queued one, and a publisher phase that is past its first place has
\* asked the publisher.
Placed ==
  work # None =>
    /\ work.phase = row.phase /\ MayBe(work.at, work.phase)
    /\ work.phase = "publisher" /\ work.at # "publisher" => work.asked

\* Later phases come after a publisher request, or are a preflight that owes it.
Pursued ==
  /\ row.phase = "browser" => tried
  /\ row.phase = "archive" /\ row.state = "ready" =>
       tried \/ (row.pipeline # None /\ Preflight(row.pipeline))
  /\ work # None /\ work.phase = "archive" => tried \/ Preflight(work.pipeline)

\* A row of an earlier release is as it was, until it migrates.
LegacyTried ==
  row.legacy => /\ tried /\ ~settled /\ work = None /\ row.phase = "publisher"
                /\ row.passes = 1 /\ row.pipeline = None

\* A preflight that was complete stays so wherever that is kept.
Complete(ck) == ck.archive_first_done /\ ck.archive_first_complete
StaysSettled ==
  settled => /\ row.phase # "archive" /\ row.done /\ row.complete
             /\ row.pipeline # None => Complete(row.pipeline)
             /\ work # None => Complete(work.pipeline)

EndedTried == row.state \in {"partial", "exhausted", "failed"} => tried

AInv == Placed /\ Pursued /\ LegacyTried /\ StaysSettled /\ EndedTried

\* Two checkpoints that say the same about the publisher and the preflight.
SameFlags(c, d) ==
  /\ c.archive_first = d.archive_first /\ c.publisher_unresolved = d.publisher_unresolved
  /\ c.archive_first_done = d.archive_first_done
  /\ c.archive_first_complete = d.archive_first_complete

LEMMA FlagsAgree ==
  ASSUME NEW c, NEW d, SameFlags(c, d)
  PROVE  (Preflight(c) <=> Preflight(d)) /\ (Complete(c) <=> Complete(d))
BY DEF SameFlags, Preflight, Complete

LEMMA InitiallyTried == Init => AInv
<1> SUFFICES ASSUME Init PROVE AInv OBVIOUS
<1>1. /\ NewRow.phase = "publisher" /\ NewRow.state = "ready" /\ NewRow.passes = 0 /\ NewRow.pipeline = None
      /\ NewRow.legacy = FALSE /\ NewRow.complete = FALSE /\ NewRow.done = FALSE
  BY DEF NewRow
<1>2. /\ LegacyRow.phase = "publisher" /\ LegacyRow.state = "ready" /\ LegacyRow.passes = 1
      /\ LegacyRow.pipeline = None /\ LegacyRow.complete = FALSE
  BY <1>1 DEF LegacyRow, NewRow
<1>3. /\ MarkedRow.phase = "publisher" /\ MarkedRow.state = "ready" /\ MarkedRow.passes = 1
      /\ MarkedRow.pipeline = None /\ MarkedRow.legacy = FALSE /\ MarkedRow.complete = TRUE
      /\ MarkedRow.done = TRUE
  BY <1>1 DEF MarkedRow, NewRow
<1>4. work = None /\ (tried <=> row.passes > 0) /\ (settled <=> row.complete) /\ row \in {NewRow, LegacyRow, MarkedRow}
  BY DEF Init
<1>5. row.phase = "publisher" /\ row.state = "ready" /\ row.pipeline = None
  BY <1>1, <1>2, <1>3, <1>4
<1>6. row.legacy => row.passes = 1 /\ ~row.complete
  BY <1>1, <1>2, <1>3, <1>4
<1>7. row.complete => row.done
  BY <1>1, <1>2, <1>3, <1>4
<1> QED BY <1>4, <1>5, <1>6, <1>7 DEF AInv, Placed, Pursued, LegacyTried, StaysSettled, EndedTried

\* A step inside a phase that keeps it, its claim on the publisher, and what it knows of the
\* preflight.
LEMMA InsideTried ==
  ASSUME AInv, work # None, UNCHANGED <<row, Ghosts>>, work'.phase = work.phase,
         MayBe(work'.at, work.phase), work.phase = "publisher" => work'.asked,
         work.phase = "archive" /\ Preflight(work.pipeline) => Preflight(work'.pipeline),
         Complete(work.pipeline) => Complete(work'.pipeline)
  PROVE  AInv'
<1>1. row' = row /\ tried' = tried /\ settled' = settled
  BY DEF Ghosts
<1>2. Placed' /\ StaysSettled' /\ EndedTried'
  BY <1>1 DEF AInv, Placed, StaysSettled, EndedTried, Complete
<1>3. Pursued'
  BY <1>1 DEF AInv, Placed, Pursued, Preflight
<1>4. LegacyTried'
  BY <1>1 DEF AInv, LegacyTried
<1> QED BY <1>2, <1>3, <1>4 DEF AInv

\* The phase has asked the publisher where it is past its first place.
LEMMA HasAsked ==
  ASSUME AInv, work # None, work.at # "publisher", work.phase = "publisher"
  PROVE  work.asked
BY DEF AInv, Placed

LEMMA GoesTried ==
  ASSUME IInv, AInv, work # None, work.at # "publisher", NEW at \in Places, NEW ck,
         SameFlags(ck, work.pipeline), MayBe(at, work.phase), Goes(at, ck)
  PROVE  AInv'
<1>1. work \in Work
  BY DEF IInv, TypeOK
<1>2. work'.phase = work.phase /\ work'.at = at /\ work'.pipeline = ck /\ work'.asked = work.asked
  BY <1>1 DEF Goes, Work
<1>3. UNCHANGED <<row, Ghosts>>
  BY DEF Goes
<1> QED BY <1>2, <1>3, HasAsked, FlagsAgree, InsideTried

LEMMA SkipsTried ==
  ASSUME IInv, AInv, work # None, work.at # "publisher", NEW at \in Places,
         MayBe(at, work.phase), Skips(at)
  PROVE  AInv'
BY GoesTried DEF Skips, SameFlags

LEMMA LateTried ==
  ASSUME IInv, AInv, work # None, work.at # "publisher", NEW at \in Places,
         MayBe(at, work.phase), Late(at)
  PROVE  AInv'
<1> DEFINE ck == [work.pipeline EXCEPT !.unresolved = TRUE]
<1>1. work.pipeline \in Checkpoint
  BY DEF IInv, TypeOK, Work
<1>2. SameFlags(ck, work.pipeline)
  BY <1>1 DEF SameFlags, Checkpoint
<1>3. Goes(at, ck)
  BY DEF Late
<1> HIDE DEF ck
<1> QED BY <1>2, <1>3, GoesTried

\* A retrieval changes nothing else.
LEMMA RetrievedFlags ==
  ASSUME work \in Work, NEW x PROVE SameFlags(Retrieved(x), work.pipeline)
<1>1. work.pipeline \in Checkpoint
  BY DEF Work
<1> DEFINE events == work.pipeline.events + 1
           best == Better(work.pipeline.best, TextOf(x))
           unresolved == work.pipeline.unresolved \/ x = "temporary"
<1>2. Retrieved(x) = [work.pipeline EXCEPT !.events = events, !.best = best, !.unresolved = unresolved]
  BY Zenon DEF Retrieved
<1> HIDE DEF events, best, unresolved
<1> QED BY <1>1, <1>2 DEF SameFlags, Checkpoint

LEMMA LearnsTried ==
  ASSUME IInv, AInv, work # None, work.at # "publisher", NEW at \in Places, NEW x,
         NEW asked \in BOOLEAN, MayBe(at, work.phase), Learns(at, x, asked)
  PROVE  AInv'
<1> DEFINE ck == Retrieved(x)
           news == work.news + 1
           all == work.asked \/ asked
<1>1. work \in Work
  BY DEF IInv, TypeOK
<1>2. SameFlags(ck, work.pipeline)
  BY <1>1, RetrievedFlags
<1>3. work' = [work EXCEPT !.at = at, !.pipeline = ck, !.news = news, !.asked = all]
      /\ UNCHANGED <<row, Ghosts>>
  BY Zenon DEF Learns
<1>4. work.asked => all
  OBVIOUS
<1> HIDE DEF ck, news, all
<1>5. work'.phase = work.phase /\ work'.at = at /\ work'.pipeline = ck /\ work'.asked = all
  BY <1>1, <1>3 DEF Work
<1>6. work.phase = "publisher" => work'.asked
  BY <1>4, <1>5, HasAsked
<1> QED BY <1>2, <1>3, <1>5, <1>6, FlagsAgree, InsideTried

\* The publisher's answer settles only whether it is still owed.
LEMMA HttpTried ==
  ASSUME IInv, AInv, NEW x, Http(x)
  PROVE  AInv'
<1> DEFINE gone == Retrieved(x).unresolved
           ck == [Retrieved(x) EXCEPT !.publisher_unresolved = gone]
           news == work.news + 1
<1>1. work \in Work /\ work # None /\ work.at = "publisher"
  BY DEF IInv, TypeOK, Http, At
<1>2. work' = [work EXCEPT !.at = "discover", !.news = news, !.asked = TRUE, !.pipeline = ck]
      /\ UNCHANGED <<row, Ghosts>>
  BY Zenon DEF Http
<1>3. Retrieved(x) = [work.pipeline EXCEPT !.events = Retrieved(x).events, !.best = Retrieved(x).best,
                                           !.unresolved = gone]
  BY <1>1 DEF Retrieved, Work, Checkpoint
<1>4. ck.archive_first_done = work.pipeline.archive_first_done
      /\ ck.archive_first_complete = work.pipeline.archive_first_complete
  <2> HIDE DEF gone
  <2>1. work.pipeline \in Checkpoint
    BY <1>1 DEF Work
  <2> QED BY <1>3, <2>1 DEF Checkpoint
<1> HIDE DEF ck, news
<1>5. work'.phase = work.phase /\ work'.at = "discover" /\ work'.pipeline = ck /\ work'.asked = TRUE
  BY <1>1, <1>2 DEF Work
<1>6. work.phase = "publisher"
  BY <1>1 DEF AInv, Placed, MayBe
<1>7. MayBe("discover", work.phase)
  BY <1>6 DEF MayBe
<1>8. Complete(work.pipeline) => Complete(work'.pipeline)
  BY <1>4, <1>5 DEF Complete
<1> QED BY <1>1, <1>2, <1>5, <1>6, <1>7, <1>8, InsideTried

LEMMA NextStampTried ==
  ASSUME IInv, AInv, work # None, work.phase = "archive", NEW ck,
         SameFlags(ck, work.pipeline), NextStamp(ck)
  PROVE  AInv'
<1> DEFINE at == IF Stamp = Stamps THEN "linked" ELSE "lookup"
           stamp == work.stamp + 1
<1>1. work \in Work /\ MayBe(at, work.phase)
  BY DEF IInv, TypeOK, MayBe
<1>2. work' = [work EXCEPT !.pipeline = ck, !.stamp = stamp, !.at = at] /\ UNCHANGED <<row, Ghosts>>
  BY Zenon DEF NextStamp
<1> HIDE DEF at, stamp
<1>3. work'.phase = work.phase /\ work'.at = at /\ work'.pipeline = ck
  BY <1>1, <1>2 DEF Work
<1> QED BY <1>1, <1>2, <1>3, FlagsAgree, InsideTried

LEMMA SnapshotTried ==
  ASSUME IInv, AInv, NEW x \in Outcome, Snapshot(x)
  PROVE  AInv'
<1> DEFINE seen == Retrieved(x).seen \cup {Stamp}
           shown == [Retrieved(x) EXCEPT !.seen = seen]
           ck == IF x = "temporary" THEN Retrieved(x) ELSE shown
           at == IF Candidate(ck) \/ Stamp = Stamps THEN "linked" ELSE "lookup"
           news == work.news + 1
           stamp == work.stamp + 1
<1>1. work \in Work /\ work # None /\ work.at = "snapshot"
  BY DEF IInv, TypeOK, Snapshot, At
<1>2. work.phase = "archive"
  BY <1>1 DEF AInv, Placed, MayBe
<1>3. MayBe(at, work.phase)
  BY <1>2 DEF MayBe
<1>4. Retrieved(x) \in Checkpoint /\ SameFlags(Retrieved(x), work.pipeline)
  BY <1>1, RetrievedText, RetrievedFlags
<1>5. work' = [work EXCEPT !.pipeline = ck, !.news = news, !.stamp = stamp, !.at = at]
      /\ UNCHANGED <<row, Ghosts>>
  BY Zenon DEF Snapshot
<1> HIDE DEF seen
<1>6. SameFlags(ck, work.pipeline)
  BY <1>4 DEF SameFlags, Checkpoint
<1> HIDE DEF ck, at, news, stamp
<1>7. work'.phase = work.phase /\ work'.at = at /\ work'.pipeline = ck
  BY <1>1, <1>5 DEF Work
<1> QED BY <1>1, <1>2, <1>3, <1>5, <1>6, <1>7, FlagsAgree, InsideTried

(* Commits *)

LEMMA QueuedFields ==
  ASSUME NEW r \in Row, NEW phase \in Phase, NEW due \in Nat, NEW ck \in Checkpoint
  PROVE  /\ Queued(r, phase, due, ck).phase = phase /\ Queued(r, phase, due, ck).pipeline = ck
         /\ Queued(r, phase, due, ck).state = r.state /\ Queued(r, phase, due, ck).legacy = r.legacy
         /\ Complete(ck) => Queued(r, phase, due, ck).done /\ Queued(r, phase, due, ck).complete
<1> DEFINE done == r.done \/ ck.archive_first_done
           complete == IF ck.archive_first_done THEN ck.archive_first_complete ELSE r.complete
<1>1. Queued(r, phase, due, ck) =
        [r EXCEPT !.phase = phase, !.due = due, !.pipeline = ck, !.done = done, !.complete = complete]
  BY Zenon DEF Queued
<1>2. Complete(ck) => done /\ complete
  BY DEF Complete
<1> HIDE DEF done, complete
<1> QED BY <1>1, <1>2 DEF Row

\* A phase ends in a queued row: a later phase after a publisher request, or a preflight.
LEMMA QueuedTried ==
  ASSUME AInv, work # None, Commits, NEW r \in Row, r.state = row.state, r.legacy = row.legacy,
         NEW phase \in Phase, NEW due \in Nat, NEW ck \in Checkpoint, row' = Queued(r, phase, due, ck),
         phase = "browser" => tried', phase = "archive" => tried' \/ Preflight(ck),
         settled' => phase # "archive" /\ Complete(ck)
  PROVE  AInv'
<1>1. /\ row'.phase = phase /\ row'.pipeline = ck /\ row'.state = row.state /\ row'.legacy = row.legacy
      /\ Complete(ck) => row'.done /\ row'.complete
  BY QueuedFields
<1>2. work' = None /\ (tried => tried')
  BY DEF Commits
<1>3. ~row.legacy
  BY DEF AInv, LegacyTried
<1>4. ck # None
  BY NoneAssumption
<1>5. Placed' /\ StaysSettled' /\ LegacyTried'
  BY <1>1, <1>2, <1>3 DEF Placed, StaysSettled, LegacyTried
<1>6. Pursued'
  BY <1>1, <1>2, <1>4 DEF Pursued
<1>7. EndedTried'
  BY <1>1, <1>2 DEF AInv, EndedTried
<1> QED BY <1>5, <1>6, <1>7 DEF AInv

LEMMA HandoffTried ==
  ASSUME IInv, AInv, work # None, NEW phase \in Phase, NEW due \in Nat, NEW ck \in Checkpoint,
         Handoff(phase, due, ck),
         phase = "browser" => tried', phase = "archive" => tried' \/ Preflight(ck),
         settled' => phase # "archive" /\ Complete(ck)
  PROVE  AInv'
<1> DEFINE next == [ck EXCEPT !.service_wait_until = 0]
<1>1. row \in Row
  BY DEF IInv, TypeOK
<1>2. next \in Checkpoint /\ SameFlags(next, ck)
  BY DEF Checkpoint, SameFlags
<1>3. row' = Queued(row, phase, due, next) /\ Commits
  BY Zenon DEF Handoff
<1> HIDE DEF next
<1> QED BY <1>1, <1>2, <1>3, FlagsAgree, QueuedTried

\* A preflight ends before it was settled, in the publisher's phase.
LEMMA PublisherHandoffTried ==
  ASSUME IInv, AInv, work # None, work.phase = "archive", NEW ck \in Checkpoint,
         NEW complete \in BOOLEAN, PublisherHandoff(ck, complete)
  PROVE  AInv'
<1> DEFINE wait == IF complete THEN 0 ELSE Backoff
           next == [ck EXCEPT !.unresolved = TRUE, !.publisher_unresolved = TRUE,
                      !.archive_first = FALSE, !.archive_first_done = TRUE,
                      !.archive_first_complete = complete, !.archive_unresolved = ck.unresolved,
                      !.archive_first_retry_at = wait]
<1>1. wait \in Nat /\ ck.unresolved \in BOOLEAN
  BY PipelineAssumption DEF Checkpoint
<1>2. Handoff("publisher", 0, next) /\ "publisher" \in Phase
  BY DEF PublisherHandoff, Phase
<1>3. ~settled
  BY DEF AInv, Placed, StaysSettled
<1>4. settled' <=> complete
  BY <1>3 DEF PublisherHandoff
<1> HIDE DEF wait
<1>5. next \in Checkpoint /\ next.archive_first_done /\ next.archive_first_complete = complete
  BY <1>1 DEF Checkpoint
<1> HIDE DEF next
<1>6. settled' => Complete(next)
  BY <1>4, <1>5 DEF Complete
<1> QED BY <1>2, <1>5, <1>6, HandoffTried

LEMMA WaitsTried ==
  ASSUME IInv, AInv, work # None, work.phase = "archive", NEW due \in Nat, NEW ck \in Checkpoint,
         SameFlags(ck, work.pipeline), Waits(due, ck), UNCHANGED settled
  PROVE  AInv'
<1>1. row \in Row /\ "archive" \in Phase
  BY DEF IInv, TypeOK, Phase
<1>2. row' = Queued(row, "archive", due, ck) /\ Commits
  BY DEF Waits
<1>3. ~settled'
  BY DEF AInv, Placed, StaysSettled
<1>4. tried' \/ Preflight(ck)
  BY <1>2, FlagsAgree DEF AInv, Pursued, Commits
<1> QED BY <1>1, <1>2, <1>3, <1>4, QueuedTried

LEMMA PreflightWaitsTried ==
  ASSUME IInv, AInv, work # None, work.phase = "archive", NEW due \in Nat, NEW ck \in Checkpoint,
         SameFlags(ck, work.pipeline), UNCHANGED settled,
         Waits(due, [ck EXCEPT !.unresolved = TRUE, !.archive_unresolved = ck.unresolved])
  PROVE  AInv'
<1> DEFINE next == [ck EXCEPT !.unresolved = TRUE, !.archive_unresolved = ck.unresolved]
<1>1. next \in Checkpoint /\ SameFlags(next, work.pipeline)
  BY DEF Checkpoint, SameFlags
<1>2. Waits(due, next)
  OBVIOUS
<1> HIDE DEF next
<1> QED BY <1>1, <1>2, WaitsTried

LEMMA ServiceWaitsTried ==
  ASSUME IInv, AInv, work # None, work.phase = "archive", NEW wait \in ServiceWait, ServiceWaits(wait)
  PROVE  AInv'
<1> DEFINE ck == [work.pipeline EXCEPT !.service_wait_until = wait]
<1>1. work.pipeline \in Checkpoint /\ wait \in Nat
  BY PipelineAssumption DEF IInv, TypeOK, Work
<1>2. ck \in Checkpoint /\ SameFlags(ck, work.pipeline)
  BY <1>1 DEF Checkpoint, SameFlags
<1>3. IF Preflight(ck)
      THEN IF ck.publisher_retry_at \in {None, 0} THEN PublisherHandoff(ck, FALSE)
           ELSE /\ Waits(Smaller(wait, ck.publisher_retry_at),
                         [ck EXCEPT !.unresolved = TRUE, !.archive_unresolved = ck.unresolved])
                /\ UNCHANGED settled
      ELSE Waits(wait, ck) /\ UNCHANGED settled
  BY Zenon DEF ServiceWaits
<1> HIDE DEF ck
<1>4. CASE PublisherHandoff(ck, FALSE)
  BY <1>2, <1>4, PublisherHandoffTried
<1>5. CASE Waits(wait, ck) /\ UNCHANGED settled
  BY <1>1, <1>2, <1>5, WaitsTried
<1>6. CASE /\ ck.publisher_retry_at \notin {None, 0} /\ UNCHANGED settled
           /\ Waits(Smaller(wait, ck.publisher_retry_at),
                    [ck EXCEPT !.unresolved = TRUE, !.archive_unresolved = ck.unresolved])
  <2>1. ck.publisher_retry_at \in Nat
    BY <1>2, <1>6 DEF Checkpoint
  <2>2. Smaller(wait, ck.publisher_retry_at) \in Nat
    BY <1>1, <2>1, SoonerDue
  <2> QED BY <1>2, <1>6, <2>2, PreflightWaitsTried
<1> QED BY <1>3, <1>4, <1>5, <1>6

LEMMA ArchiveTried ==
  ASSUME IInv, AInv, Archive
  PROVE  AInv'
<1> DEFINE ck == work.pipeline
<1>1. work # None /\ ck \in Checkpoint /\ work.at = "archive"
  BY DEF IInv, TypeOK, Work, Archive, At
<1>2. work.phase = "archive" /\ MayBe("lookup", work.phase) /\ "lookup" \in Places /\ work.at # "publisher"
  BY <1>1 DEF AInv, Placed, MayBe, Places
<1>3. \/ PublisherHandoff(ck, FALSE)
      \/ Skips("lookup")
      \/ Waits(ck.service_wait_until, ck) /\ UNCHANGED settled
      \/ /\ ck.publisher_retry_at \notin {None, 0} /\ UNCHANGED settled
         /\ Waits(Smaller(ck.service_wait_until, ck.publisher_retry_at),
                  [ck EXCEPT !.unresolved = TRUE, !.archive_unresolved = ck.unresolved])
  BY Zenon DEF Archive
<1>4. ck.service_wait_until \in Nat /\ ck.publisher_retry_at \in Nat \cup {None} /\ SameFlags(ck, ck)
  BY <1>1 DEF Checkpoint, SameFlags
<1>5. CASE PublisherHandoff(ck, FALSE)
  BY <1>1, <1>2, <1>5, PublisherHandoffTried
<1>6. CASE Skips("lookup")
  BY <1>1, <1>2, <1>6, SkipsTried
<1>7. CASE Waits(ck.service_wait_until, ck) /\ UNCHANGED settled
  BY <1>1, <1>2, <1>4, <1>7, WaitsTried
<1>8. CASE /\ ck.publisher_retry_at \notin {None, 0} /\ UNCHANGED settled
           /\ Waits(Smaller(ck.service_wait_until, ck.publisher_retry_at),
                    [ck EXCEPT !.unresolved = TRUE, !.archive_unresolved = ck.unresolved])
  <2>1. Smaller(ck.service_wait_until, ck.publisher_retry_at) \in Nat
    BY <1>4, <1>8, SoonerDue
  <2> QED BY <1>1, <1>2, <1>4, <1>8, <2>1, PreflightWaitsTried
<1> QED BY <1>3, <1>5, <1>6, <1>7, <1>8

\* Outside the archives, a phase past its first place follows a publisher request.
LEMMA CommitTried ==
  ASSUME IInv, AInv, work # None, work.at # "publisher", work.phase # "archive", Commits
  PROVE  tried'
<1>1. work.phase \in {"publisher", "browser"}
  BY DEF IInv, TypeOK, Work
<1>2. CASE work.phase = "publisher"
  BY <1>2, HasAsked DEF Commits
<1>3. CASE work.phase = "browser"
  BY <1>3 DEF AInv, Placed, Pursued, Commits
<1> QED BY <1>1, <1>2, <1>3

LEMMA LeavesTried ==
  ASSUME IInv, AInv, ToBrowser \/ ToArchives
  PROVE  AInv'
<1>1. work # None /\ work.pipeline \in Checkpoint /\ work.at \in {"render?", "archives?"}
  BY DEF IInv, TypeOK, Work, ToBrowser, ToArchives, At
<1>2. work.phase # "archive" /\ work.at # "publisher"
  BY <1>1 DEF AInv, Placed, MayBe
<1>3. "browser" \in Phase /\ "archive" \in Phase /\ "linked" \in Places /\ MayBe("linked", work.phase)
  BY DEF Phase, Places, MayBe
<1>4. settled => Complete(work.pipeline)
  BY <1>1 DEF AInv, StaysSettled
<1>5. CASE Skips("linked")
  BY <1>1, <1>2, <1>3, <1>5, SkipsTried
<1>6. CASE Handoff("browser", 0, work.pipeline) /\ UNCHANGED settled
  <2>1. tried'
    BY <1>1, <1>2, <1>6, CommitTried DEF Handoff
  <2> QED BY <1>1, <1>3, <1>4, <1>6, <2>1, HandoffTried
<1>7. CASE Handoff("archive", 0, work.pipeline) /\ UNCHANGED settled /\ ~NoArchives(work.pipeline)
  <2>1. tried'
    BY <1>1, <1>2, <1>7, CommitTried DEF Handoff
  <2>2. ~settled'
    BY <1>4, <1>7 DEF Complete, NoArchives
  <2> QED BY <1>1, <1>3, <1>7, <2>1, <2>2, HandoffTried
<1> QED BY <1>5, <1>6, <1>7 DEF ToBrowser, ToArchives

LEMMA LookupTried ==
  ASSUME IInv, AInv, NEW answer \in {"none", "snapshot", "error"}, Lookup(answer)
  PROVE  AInv'
<1>1. work # None /\ work.pipeline \in Checkpoint /\ work.at = "lookup"
  BY DEF IInv, TypeOK, Work, Lookup, At
<1>2. work.phase = "archive" /\ "snapshot" \in Places /\ MayBe("snapshot", work.phase) /\ work.at # "publisher"
  BY <1>1 DEF AInv, Placed, MayBe, Places
<1>3. CASE answer = "error"
  <2> DEFINE ck == [work.pipeline EXCEPT !.unresolved = TRUE]
  <2>1. SameFlags(ck, work.pipeline)
    BY <1>1 DEF Checkpoint, SameFlags
  <2>2. NextStamp(ck)
    BY <1>3 DEF Lookup
  <2> HIDE DEF ck
  <2> QED BY <1>1, <1>2, <2>1, <2>2, NextStampTried
<1>4. CASE answer # "error"
  <2> DEFINE ck == [work.pipeline EXCEPT !.lookups[Stamp] = answer]
  <2>1. SameFlags(ck, work.pipeline)
    BY <1>1 DEF Checkpoint, SameFlags
  <2>2. NextStamp(ck) \/ Goes("snapshot", ck)
    BY <1>4, Zenon DEF Lookup
  <2> HIDE DEF ck
  <2> QED BY <1>1, <1>2, <2>1, <2>2, NextStampTried, GoesTried
<1> QED BY <1>3, <1>4

LEMMA CachedTried ==
  ASSUME IInv, AInv, Cached
  PROVE  AInv'
<1>1. work # None /\ work.at = "lookup" /\ (NextStamp(work.pipeline) \/ Skips("snapshot"))
  BY DEF Cached, At
<1>2. work.phase = "archive" /\ "snapshot" \in Places /\ MayBe("snapshot", work.phase) /\ work.at # "publisher"
  BY <1>1 DEF AInv, Placed, MayBe, Places
<1>3. SameFlags(work.pipeline, work.pipeline)
  BY DEF SameFlags
<1> QED BY <1>1, <1>2, <1>3, NextStampTried, SkipsTried

(* The end of a pass *)

\* What ends without a text that can be saved has asked the publisher.
LEMMA EndsTried ==
  ASSUME IInv, AInv, work # None, work.at = "end", Commits, ~Candidate(work.pipeline),
         ~(work.phase = "archive" /\ Returns(work.pipeline))
  PROVE  tried'
<1>1. CASE work.phase # "archive"
  BY <1>1, CommitTried
<1>2. CASE work.phase = "archive"
  BY <1>2 DEF AInv, Pursued, Returns, Commits
<1> QED BY <1>1, <1>2

LEMMA ClosedTried ==
  ASSUME IInv, AInv, work # None, Commits, UNCHANGED settled, NEW ck \in Checkpoint,
         NEW status \in {"saved", "partial", "exhausted", "failed"}, status # "saved" => tried',
         row' = Closed(status, ck)
  PROVE  AInv'
<1> DEFINE sum == row.prefix + ck.events
           best == ck.best
<1>1. row \in Row /\ work' = None /\ (tried => tried') /\ settled' = settled /\ ~row.legacy
  BY DEF IInv, TypeOK, Commits, AInv, LegacyTried
<1>2. row' = [row EXCEPT !.state = status, !.prefix = sum, !.pipeline = None, !.retry_best = best, !.due = 0]
  BY <1>1 DEF Closed, Row
<1> HIDE DEF sum, best
<1>3. /\ row'.state = status /\ row'.pipeline = None /\ row'.phase = row.phase /\ row'.done = row.done
      /\ row'.complete = row.complete /\ row'.legacy = row.legacy
  BY <1>1, <1>2 DEF Row
<1>4. Placed' /\ LegacyTried' /\ EndedTried'
  BY <1>1, <1>3 DEF Placed, LegacyTried, EndedTried
<1>5. Pursued'
  BY <1>1, <1>3 DEF AInv, Pursued
<1>6. StaysSettled'
  BY <1>1, <1>3 DEF AInv, StaysSettled
<1> QED BY <1>4, <1>5, <1>6 DEF AInv

LEMMA NextPassTried ==
  ASSUME IInv, AInv, work # None, Commits, UNCHANGED settled, tried', NEW prior,
         row' = NextPass(work.phase, prior, work.pipeline)
  PROVE  AInv'
<1> DEFINE ck == work.pipeline
           passes == PassesAfter(work.phase, prior, ck)
           best == ck.best
           again == [row EXCEPT !.passes = passes, !.retry_best = best]
           prefix == PrefixKept(row, ck)
           same == [again EXCEPT !.prefix = prefix]
           archive == [ck EXCEPT !.unresolved = FALSE, !.service_wait_until = 0]
           publisher == [ck EXCEPT !.unresolved = FALSE, !.publisher_unresolved = TRUE,
                                   !.service_wait_until = 0]
           sum == again.prefix + ck.events
           anew == [again EXCEPT !.phase = "publisher", !.due = RetryDelay, !.prefix = sum, !.pipeline = None]
<1>1. row \in Row /\ ck \in Checkpoint /\ RetryDelay \in Nat /\ work' = None /\ settled' = settled /\ ~row.legacy
  BY PipelineAssumption DEF IInv, TypeOK, Work, Commits, AInv, LegacyTried
<1>2. passes \in Nat /\ best \in Text /\ prefix \in Nat
  BY <1>1 DEF PassesAfter, PrefixKept, Row, Checkpoint
<1>3. again.prefix \in Nat
  BY <1>1 DEF Row
<1>4. \/ row' = Queued(same, "archive", RetryDelay, archive) /\ work.phase = "archive"
      \/ row' = Queued(same, "publisher", RetryDelay, publisher) /\ ck.archive_first_done
      \/ row' = anew /\ (work.phase # "archive" => ~ck.archive_first_done)
  <2>1. anew = [again EXCEPT !.phase = "publisher", !.due = RetryDelay, !.prefix = @ + ck.events,
                             !.pipeline = None]
    BY <1>1 DEF Row
  <2>2. NextPass(work.phase, prior, ck) =
          IF work.phase = "archive" /\ ~prior THEN Queued(same, "archive", RetryDelay, archive)
          ELSE IF ck.archive_first_done THEN Queued(same, "publisher", RetryDelay, publisher)
          ELSE [again EXCEPT !.phase = "publisher", !.due = RetryDelay, !.prefix = @ + ck.events,
                             !.pipeline = None]
    BY Zenon DEF NextPass
  <2> HIDE DEF same, archive, publisher, anew, again
  <2> QED BY <2>1, <2>2
<1> HIDE DEF passes, best, prefix
<1>5. same \in Row /\ same.state = row.state /\ same.legacy = row.legacy
  BY <1>1, <1>2 DEF Row
<1>6. archive \in Checkpoint /\ publisher \in Checkpoint /\ SameFlags(archive, ck)
      /\ (Complete(ck) => Complete(publisher))
  BY <1>1 DEF Checkpoint, SameFlags, Complete
<1>7. /\ anew.phase = "publisher" /\ anew.pipeline = None /\ anew.state = row.state
      /\ anew.legacy = row.legacy /\ anew.done = row.done /\ anew.complete = row.complete
  <2> HIDE DEF sum
  <2> QED BY <1>1 DEF Row
<1>8. settled => work.phase # "archive" /\ Complete(ck)
  BY DEF AInv, Placed, StaysSettled
<1> HIDE DEF ck, same, archive, publisher, anew
<1>9. "archive" \in Phase /\ "publisher" \in Phase
  BY DEF Phase
<1>10. CASE row' = Queued(same, "archive", RetryDelay, archive) /\ work.phase = "archive"
  BY <1>1, <1>5, <1>6, <1>8, <1>9, <1>10, QueuedTried
<1>11. CASE row' = Queued(same, "publisher", RetryDelay, publisher)
  BY <1>1, <1>5, <1>6, <1>8, <1>9, <1>11, QueuedTried
<1>12. CASE row' = anew
  <2>1. Placed' /\ LegacyTried' /\ EndedTried' /\ Pursued'
    BY <1>1, <1>7, <1>12 DEF Placed, LegacyTried, EndedTried, Pursued
  <2>2. StaysSettled'
    BY <1>1, <1>7, <1>12 DEF AInv, StaysSettled
  <2> QED BY <2>1, <2>2 DEF AInv
<1> QED BY <1>4, <1>10, <1>11, <1>12

LEMMA EndTried ==
  ASSUME IInv, AInv, End
  PROVE  AInv'
<1> DEFINE ck == work.pipeline
<1>1. work # None /\ ck \in Checkpoint /\ work.at = "end" /\ (~ck.unresolved) \in BOOLEAN
  BY DEF IInv, TypeOK, Work, End, At
<1>2. CASE work.phase = "archive" /\ Returns(ck)
  <2>1. PublisherHandoff(ck, ~ck.unresolved)
    BY <1>2, Zenon DEF End
  <2> QED BY <1>1, <1>2, <2>1, PublisherHandoffTried
<1>3. CASE ~(work.phase = "archive" /\ Returns(ck))
  <2>1. Finish(work.phase, work.prior, ck)
    BY <1>3, Zenon DEF End
  <2>2. Commits /\ UNCHANGED settled
    BY <2>1 DEF Finish
  <2>3. Status(ck) # "saved" => tried'
    BY <1>1, <1>3, <2>2, EndsTried DEF Status
  <2>4. Status(ck) \in {"saved", "partial", "exhausted", "deferred"}
    BY DEF Status
  <2>5. \/ Status(ck) # "deferred" /\ row' = Closed(Status(ck), ck)
        \/ Status(ck) = "deferred" /\ row' = Closed("failed", ck)
        \/ Status(ck) = "deferred" /\ row' = NextPass(work.phase, work.prior, ck)
    BY <2>1 DEF Finish
  <2> HIDE DEF ck
  <2>6. CASE row' = NextPass(work.phase, work.prior, ck) /\ tried'
    BY <1>1, <2>2, <2>6, NextPassTried DEF ck
  <2> QED BY <1>1, <2>2, <2>3, <2>4, <2>5, <2>6, ClosedTried
<1> QED BY <1>2, <1>3

(* Claims, and time *)

\* A claim resumes what the row says of the publisher and the preflight.
LEMMA ResumedFlags ==
  ASSUME row \in Row
  PROVE  /\ row.phase = "archive" /\ row.pipeline # None /\ Preflight(row.pipeline) => Preflight(Resumed)
         /\ row.pipeline # None /\ Complete(row.pipeline) => Complete(Resumed)
         /\ row.pipeline = None /\ row.done /\ row.complete => Complete(Resumed)
<1>1. CASE row.pipeline = None
  <2> DEFINE best == row.retry_best
             done == row.done
             complete == row.complete
  <2>1. Resumed = [Fresh EXCEPT !.best = best, !.archive_first_done = done, !.archive_first_complete = complete]
    BY <1>1 DEF Resumed, Restarted
  <2> HIDE DEF best, done, complete
  <2>2. Resumed.archive_first_done = done /\ Resumed.archive_first_complete = complete
    BY <2>1, FreshFields DEF Checkpoint
  <2> QED BY <1>1, <2>2 DEF done, complete, Complete
<1>2. CASE row.pipeline # None
  <2> DEFINE ck == row.pipeline
             un == ck.archive_unresolved
             first == [ck EXCEPT !.unresolved = un]
             clear == [ck EXCEPT !.unresolved = FALSE, !.publisher_unresolved = FALSE]
  <2>1. ck \in Checkpoint
    BY <1>2 DEF Row
  <2>2. \/ Resumed = first \/ Resumed = ck
        \/ Resumed = clear /\ row.phase = "publisher"
    BY <1>2 DEF Resumed
  <2> HIDE DEF ck, un
  <2>3. SameFlags(first, ck) /\ SameFlags(ck, ck)
    BY <2>1 DEF Checkpoint, SameFlags
  <2>4. Complete(ck) => Complete(clear)
    BY <2>1 DEF Checkpoint, Complete
  <2> HIDE DEF first, clear
  <2>5. (Complete(ck) => Complete(Resumed)) /\ (row.phase = "archive" /\ Preflight(ck) => Preflight(Resumed))
    BY <2>2, <2>3, <2>4, FlagsAgree
  <2> QED BY <1>2, <2>5 DEF ck
<1> QED BY <1>1, <1>2

LEMMA StartTried ==
  ASSUME IInv, AInv, Start
  PROVE  AInv'
<1>1. row \in Row /\ work = None /\ row.state = "ready" /\ ~(row.phase = "publisher" /\ Migrates)
      /\ row' = row /\ tried' = tried /\ settled' = settled
  BY DEF IInv, TypeOK, Start, Ghosts
<1>2. row.phase \in Phase
  BY <1>1 DEF Row, Phase
<1>3. work'.at = row.phase /\ work'.phase = row.phase /\ work'.pipeline = Resumed /\ ~row.legacy
  BY <1>1 DEF Start, AInv, LegacyTried, Migrates
<1>4. /\ row.phase = "archive" /\ row.pipeline # None /\ Preflight(row.pipeline) => Preflight(Resumed)
      /\ row.pipeline # None /\ Complete(row.pipeline) => Complete(Resumed)
      /\ row.pipeline = None /\ row.done /\ row.complete => Complete(Resumed)
  BY <1>1, ResumedFlags
<1>5. MayBe(row.phase, row.phase)
  BY <1>2 DEF MayBe, Phase
<1>6. Placed' /\ LegacyTried' /\ EndedTried'
  BY <1>1, <1>3, <1>5 DEF AInv, Placed, LegacyTried, EndedTried
<1>7. Pursued'
  BY <1>1, <1>3, <1>4 DEF AInv, Pursued
<1>8. StaysSettled'
  BY <1>1, <1>3, <1>4 DEF AInv, StaysSettled
<1> QED BY <1>6, <1>7, <1>8 DEF AInv

LEMMA MigrateTried ==
  ASSUME IInv, AInv, Migrate
  PROVE  AInv'
<1> DEFINE ck == [Fresh EXCEPT !.events = row.prefix, !.best = row.retry_best]
           next == [row EXCEPT !.phase = "archive", !.prefix = 0, !.legacy = FALSE, !.pipeline = ck]
<1>1. /\ row \in Row /\ work' = None /\ tried /\ tried' /\ ~settled' /\ row' = next
  BY DEF IInv, TypeOK, Migrate, Migrates, Waiting, Ghosts, AInv, LegacyTried
<1> HIDE DEF ck
<1>2. row'.phase = "archive" /\ ~row'.legacy
  BY <1>1 DEF Row
<1> QED BY <1>1, <1>2 DEF AInv, Placed, Pursued, LegacyTried, StaysSettled, EndedTried

\* A preflight begins only where none was complete, and remembers that the publisher is owed.
LEMMA ArchiveFirstTried ==
  ASSUME IInv, AInv, NEW until \in PublisherWait, ArchiveFirst(until)
  PROVE  AInv'
<1> DEFINE best == row.retry_best
           kept == IF row.pipeline = None THEN [Fresh EXCEPT !.best = best] ELSE row.pipeline
           ck == [kept EXCEPT !.unresolved = TRUE, !.publisher_unresolved = TRUE,
                    !.archive_first = TRUE, !.archive_first_done = FALSE,
                    !.archive_first_complete = FALSE, !.archive_first_retry_at = 0,
                    !.publisher_retry_at = until, !.service_wait_until = 0]
           next == [row EXCEPT !.phase = "archive", !.legacy = FALSE, !.pipeline = ck]
<1>1. row \in Row /\ work' = None /\ tried' = tried /\ settled' = settled /\ row' = next
      /\ row.state = "ready" /\ MayPreflight
  BY DEF IInv, TypeOK, ArchiveFirst, Waiting, Ghosts
<1>2. ~settled
  BY <1>1 DEF AInv, StaysSettled, MayPreflight, Complete
<1>3. best \in Text
  BY <1>1 DEF Row
<1>4. kept \in Checkpoint
  <2> HIDE DEF best
  <2>1. [Fresh EXCEPT !.best = best] \in Checkpoint
    BY <1>3, FreshFields DEF Checkpoint
  <2> QED BY <1>1, <2>1 DEF Row
<1>5. until \in Nat \cup {None}
  BY PipelineAssumption
<1> HIDE DEF kept
<1>6. ck \in Checkpoint /\ ck.archive_first /\ ck.publisher_unresolved
  BY <1>4, <1>5 DEF Checkpoint
<1> HIDE DEF ck
<1>7. row'.phase = "archive" /\ row'.pipeline = ck /\ ~row'.legacy /\ row'.state = "ready"
  BY <1>1 DEF Row
<1>8. Pursued'
  BY <1>1, <1>6, <1>7, NoneAssumption DEF Pursued, Preflight
<1> QED BY <1>1, <1>2, <1>7, <1>8 DEF AInv, Placed, LegacyTried, StaysSettled, EndedTried

LEMMA KillTried ==
  ASSUME AInv, Kill
  PROVE  AInv'
<1>1. row' = row /\ tried' = tried /\ settled' = settled /\ work' = None
  BY DEF Kill, Ghosts
<1> QED BY <1>1 DEF AInv, Placed, Pursued, LegacyTried, StaysSettled, EndedTried

LEMMA AgedFlags ==
  ASSUME NEW ck \in Checkpoint PROVE SameFlags(Aged(ck), ck)
<1> DEFINE a == Before(ck.publisher_retry_at)
           b == Before(ck.archive_first_retry_at)
           c == Before(ck.service_wait_until)
<1>1. Aged(ck) = [ck EXCEPT !.publisher_retry_at = a, !.archive_first_retry_at = b, !.service_wait_until = c]
  BY DEF Aged, Checkpoint
<1> HIDE DEF a, b, c
<1> QED BY <1>1 DEF SameFlags, Checkpoint

LEMMA TickTried ==
  ASSUME IInv, AInv, Tick
  PROVE  AInv'
<1> DEFINE due == Before(row.due)
           kept == IF row.pipeline = None THEN None ELSE Aged(row.pipeline)
<1>1. row \in Row /\ tried' = tried /\ settled' = settled
  BY DEF IInv, TypeOK, Tick, Ghosts
<1>2. row' = [row EXCEPT !.due = due, !.pipeline = kept]
  BY <1>1 DEF Tick, Row
<1>3. row.pipeline # None => row.pipeline \in Checkpoint
  BY <1>1 DEF Row
<1>4. /\ kept # None <=> row.pipeline # None
      /\ row.pipeline # None => SameFlags(kept, row.pipeline)
  BY <1>3, AgedCheckpoint, AgedFlags, NoneAssumption
<1> HIDE DEF due, kept
<1>5. /\ row'.pipeline = kept /\ row'.phase = row.phase /\ row'.state = row.state /\ row'.done = row.done
      /\ row'.complete = row.complete /\ row'.legacy = row.legacy /\ row'.passes = row.passes
  BY <1>1, <1>2 DEF Row
<1>6. row.pipeline # None => (Preflight(kept) <=> Preflight(row.pipeline)) /\ (Complete(kept) <=> Complete(row.pipeline))
  BY <1>4, FlagsAgree
<1>7. work # None => /\ work'.phase = work.phase /\ work'.at = work.at /\ work'.asked = work.asked
                     /\ SameFlags(work'.pipeline, work.pipeline)
  <2> SUFFICES ASSUME work # None
               PROVE  /\ work'.phase = work.phase /\ work'.at = work.at /\ work'.asked = work.asked
                      /\ SameFlags(work'.pipeline, work.pipeline)
    OBVIOUS
  <2> DEFINE ck == Aged(work.pipeline)
  <2>1. work \in Work /\ work.pipeline \in Checkpoint
    BY DEF IInv, TypeOK, Work
  <2>2. SameFlags(ck, work.pipeline)
    BY <2>1, AgedFlags
  <2>3. work' = [work EXCEPT !.pipeline = ck]
    BY <2>1 DEF Tick, Work
  <2> HIDE DEF ck
  <2>4. work'.phase = work.phase /\ work'.at = work.at /\ work'.asked = work.asked /\ work'.pipeline = ck
    BY <2>1, <2>3 DEF Work
  <2> QED BY <2>2, <2>4
<1>8. work = None => work' = None
  BY DEF Tick
<1>9. work # None => (Preflight(work'.pipeline) <=> Preflight(work.pipeline))
                     /\ (Complete(work'.pipeline) <=> Complete(work.pipeline))
  BY <1>7, FlagsAgree
<1>10. Placed' /\ EndedTried'
  BY <1>1, <1>5, <1>7, <1>8 DEF AInv, Placed, EndedTried
<1>11. LegacyTried'
  BY <1>1, <1>4, <1>5, <1>8 DEF AInv, LegacyTried
<1>12. Pursued'
  BY <1>1, <1>4, <1>5, <1>6, <1>7, <1>8, <1>9 DEF AInv, Pursued
<1>13. StaysSettled'
  BY <1>1, <1>4, <1>5, <1>6, <1>8, <1>9 DEF AInv, StaysSettled
<1> QED BY <1>10, <1>11, <1>12, <1>13 DEF AInv

\* Where a phase is tells which it is.
LEMMA PlacedAt ==
  ASSUME AInv, NEW at, At(at)
  PROVE  work # None /\ work.at = at /\ MayBe(at, work.phase)
BY DEF AInv, Placed, At

LEMMA StepTried ==
  ASSUME IInv, AInv, Step
  PROVE  AInv'
<1>1. Places = {"publisher", "discover", "render?", "browser", "archives?", "archive", "lookup",
                "snapshot", "linked", "end"}
  BY DEF Places
<1>2. ASSUME NEW phase
      PROVE  /\ MayBe("discover", phase) => MayBe("render?", phase)
             /\ MayBe("render?", phase) => MayBe("archives?", phase)
             /\ MayBe("browser", phase) => MayBe("archives?", phase)
             /\ MayBe("linked", phase) /\ MayBe("end", phase)
  BY DEF MayBe
<1>3. ASSUME NEW x \in Outcome, Http(x) \/ Discover(x) \/ Render(x) \/ Linked(x)
      PROVE  AInv'
  <2>1. CASE Http(x)
    BY <2>1, HttpTried
  <2>2. CASE Discover(x)
    <3>1. At("discover") /\ Learns("render?", x, TRUE) /\ TRUE \in BOOLEAN
      BY <2>2 DEF Discover
    <3>2. work # None /\ work.at # "publisher" /\ MayBe("render?", work.phase) /\ "render?" \in Places
      BY <3>1, <1>1, <1>2, PlacedAt
    <3> QED BY <3>1, <3>2, LearnsTried
  <2>3. CASE Render(x)
    <3>1. At("browser") /\ Learns("archives?", x, FALSE) /\ FALSE \in BOOLEAN
      BY <2>3 DEF Render
    <3>2. work # None /\ work.at # "publisher" /\ MayBe("archives?", work.phase) /\ "archives?" \in Places
      BY <3>1, <1>1, <1>2, PlacedAt
    <3> QED BY <3>1, <3>2, LearnsTried
  <2>4. CASE Linked(x)
    <3>1. At("linked") /\ Learns("end", x, FALSE) /\ FALSE \in BOOLEAN
      BY <2>4 DEF Linked
    <3>2. work # None /\ work.at # "publisher" /\ MayBe("end", work.phase) /\ "end" \in Places
      BY <3>1, <1>1, <1>2, PlacedAt
    <3> QED BY <3>1, <3>2, LearnsTried
  <2> QED BY <1>3, <2>1, <2>2, <2>3, <2>4
<1>4. CASE NoDiscovery
  BY <1>4, <1>1, <1>2, PlacedAt, SkipsTried, LateTried DEF NoDiscovery
<1>5. CASE NoBrowser
  BY <1>5, <1>1, <1>2, PlacedAt, SkipsTried, LateTried DEF NoBrowser
<1>6. CASE RenderLate
  BY <1>6, <1>1, <1>2, PlacedAt, LateTried DEF RenderLate
<1>7. CASE NotLinked
  BY <1>7, <1>1, <1>2, PlacedAt, SkipsTried, LateTried DEF NotLinked
<1>8. CASE ArchiveLate
  BY <1>8, <1>1, <1>2, PlacedAt, LateTried DEF ArchiveLate
<1>9. CASE ToBrowser \/ ToArchives \/ Archive \/ End
  BY <1>9, LeavesTried, ArchiveTried, EndTried
<1>10. ASSUME NEW wait \in ServiceWait, LookupWaits(wait) \/ SnapshotWaits(wait) PROVE AInv'
  <2>1. work # None /\ work.phase = "archive"
    BY <1>10, PlacedAt DEF LookupWaits, SnapshotWaits, MayBe
  <2> QED BY <1>10, <2>1, ServiceWaitsTried DEF LookupWaits, SnapshotWaits
<1>11. ASSUME NEW answer \in {"none", "snapshot", "error"}, Lookup(answer) PROVE AInv'
  BY <1>11, LookupTried
<1>12. CASE Cached
  BY <1>12, CachedTried
<1>13. ASSUME NEW x \in Outcome, Snapshot(x) PROVE AInv'
  BY <1>13, SnapshotTried
<1> QED BY <1>3, <1>4, <1>5, <1>6, <1>7, <1>8, <1>9, <1>10, <1>11, <1>12, <1>13 DEF Step

LEMMA InductiveTried == IInv /\ AInv /\ [Next]_vars => AInv'
<1> SUFFICES ASSUME IInv, AInv, [Next]_vars PROVE AInv'
  OBVIOUS
<1>1. CASE Start
  BY <1>1, StartTried
<1>2. CASE Migrate
  BY <1>2, MigrateTried
<1>3. ASSUME NEW until \in PublisherWait, ArchiveFirst(until) PROVE AInv'
  BY <1>3, ArchiveFirstTried
<1>4. CASE Step
  BY <1>4, StepTried
<1>5. CASE Kill
  BY <1>5, KillTried
<1>6. CASE Tick
  BY <1>6, TickTried
<1>7. CASE UNCHANGED vars
  BY <1>7 DEF vars, AInv, Placed, Pursued, LegacyTried, StaysSettled, EndedTried
<1> QED BY <1>1, <1>2, <1>3, <1>4, <1>5, <1>6, <1>7 DEF Next

-----------------------------------------------------------------------------
(* Theorems                                                                *)

\* The checkpoints that are queued and resumed have their fields, however the phases of a
\* pass, its waits and its crashes follow each other (pipeline.py:43, retrying.py:91).
THEOREM TypeCorrect == Spec => []TypeOK
<1>1. IInv => TypeOK BY DEF IInv
<1> QED BY Initially, Inductive, <1>1, PTL DEF Spec

\* For every number of passes, preflights and waits: each piece of evidence that a committed
\* phase retrieved is in the article's record exactly once, and the text it would be saved
\* with is the best of them (retrying.py:121-150).
THEOREM EvidenceIsKept == Spec => []EvidenceKept
<1>1. IInv => EvidenceKept BY DEF IInv
<1> QED BY Initially, Inductive, <1>1, PTL DEF Spec

\* For every number of passes, preflights and waits: no article ends as partial, exhausted or
\* failed before its publisher was asked, although the archives may be asked first; and a
\* preflight that was complete is not repeated (retrying.py:91, pipeline.py:43).
THEOREM PublisherIsTried == Spec => []PublisherTried
<1>1. AInv => PublisherTried
  BY DEF AInv, EndedTried, StaysSettled, Placed, PublisherTried
<1> QED BY Initially, Inductive, InitiallyTried, InductiveTried, <1>1, PTL DEF Spec
=============================================================================
