---------------------------- MODULE ClaimDispatch ----------------------------
(***************************************************************************)
(* How one task of the cohort fills its article slots                      *)
(* (DistributedRun.claim_available in crawler/distributed_worker.py):      *)
(* publishers first, then browser and archive work, and publisher articles *)
(* of paused hosts in what remains of the archive pool.                    *)
(*                                                                         *)
(* A refill is a sequence of up to four calls of SharedQueue.claim.        *)
(* Between them peers take and return articles; what a refill has read of  *)
(* a host or an archive service stays as it was, and may be outdated.      *)
(* The main loop that refills also settles finished articles, so its own   *)
(* claims do not change meanwhile.  Leases are left to SharedQueue, the    *)
(* length of the pause between refills to nobody.                          *)
(***************************************************************************)
EXTENDS Integers, FiniteSets

CONSTANTS
  Article, Hostname,
  HostOf,       \* hostname of an article; outlets are taken to have one each
  Workers,      \* config['workers'], 1 after a memory restart
  ArchiveSlots, \* CRAWL_ARCHIVE_SLOTS
  PerOutlet     \* per_outlet_workers

DispatchAssumption ==
  /\ HostOf \in [Article -> Hostname] /\ IsFiniteSet(Article)
  /\ Workers \in Nat \ {0} /\ ArchiveSlots \in Nat \ {0} /\ PerOutlet \in Nat \ {0}

VARIABLES
  rows,       \* the articles' phases, and whether this task has them
  at,         \* the refill's next call of SharedQueue.claim
  claims,     \* self.claims when the refill began
  selected,   \* the refill's claims so far
  seen,       \* availability: what the refill has read of a host
  ready,      \* archive_services: is archive.org among them?
  cache       \* archive_first_ineligible

vars == <<rows, at, claims, selected, seen, ready, cache>>

Phase == {"publisher", "browser", "archive"}
Kind == Phase \cup {"archive_first"}  \* what a claimed article occupies its slot with
Availability == {"free", "busy", "cooldown"}

Smaller(m, n) == IF m < n THEN m ELSE n
Larger(m, n) == IF m > n THEN m ELSE n
RecoveryLimit == Smaller(2, Larger(1, Workers \div 8))
\* Faulty variant: few threads leave none for publishers.
Remainder == Larger(0, Workers - 2 * RecoveryLimit)
PublisherLimit == Larger(1, Workers - 2 * RecoveryLimit)
ArchiveLimit == Smaller(Workers, Larger(RecoveryLimit, ArchiveSlots))
Limit == [publisher |-> PublisherLimit, browser |-> RecoveryLimit, archive |-> ArchiveLimit]

\* Every slot, and the part of them that counts against a phase.
Active == claims \cup selected
Pool(C, p) == {c \in C : c.kind = p \/ (p = "archive" /\ c.kind = "archive_first")}

Init ==
  /\ rows = [a \in Article |-> [phase |-> "publisher", state |-> "ready"]]
  /\ at = "idle"
  /\ claims = {} /\ selected = {} /\ cache = [a \in Article |-> "absent"]
  /\ seen = [h \in Hostname |-> "unread"] /\ ready = TRUE

Refilling == <<claims, cache>>

FreeSlots == Workers - Cardinality(Active)

\* Faulty variant: an archive-first handoff occupies no archive slot.
RoomOfPhase(p) == Smaller(FreeSlots, Larger(0, Limit[p] - Cardinality({c \in claims : c.kind = p})))
Room(p) == Smaller(FreeSlots, Larger(0, Limit[p] - Cardinality(Pool(claims, p))))

\* The limits and the services are read once, and expired cache entries dropped.
Begin ==
  /\ at = "idle" /\ FreeSlots > 0
  /\ at' = "publisher" /\ ready' \in BOOLEAN
  /\ \E D \in SUBSET {a \in Article : cache[a] = "until"} :
       cache' = [a \in Article |-> IF a \in D THEN "absent" ELSE cache[a]]
  /\ UNCHANGED <<rows, claims, selected, seen>>

Due(a, p) == rows[a].state = "ready" /\ rows[a].phase = p

\* SharedQueue.claim: some due articles of a phase, with the articles in flight of their
\* outlets within a cap.
Claimable(A, p, inflight, room, cap) ==
  /\ Cardinality(A) <= room
  /\ \A a \in A : Due(a, p)
  /\ \A h \in Hostname :
       LET taken == {c \in inflight : HostOf[c.article] = h}
           new == {a \in A : HostOf[a] = h}
       IN new # {} => Cardinality(taken) + Cardinality(new) <= cap
Select(A, kind) ==
  /\ rows' = [a \in Article |-> IF a \in A THEN [rows[a] EXCEPT !.state = "mine"] ELSE rows[a]]
  /\ selected' = selected \cup [article : A, kind : {kind}]

\* prepare_admission reads the hosts of the page that it has not read before.
Prepare == \E R \in [Hostname -> Availability \cup {"unread"}] :
             seen' = [h \in Hostname |-> IF seen[h] = "unread" THEN R[h] ELSE seen[h]]

\* admit: the host is available, and no other article was sent to it (considered).
Admit(A) ==
  /\ \A a \in A : seen'[HostOf[a]] = "free"
  /\ \A a, b \in A : HostOf[a] = HostOf[b] => a = b

\* One article at most for each host, and none for a host without a permit.
ClaimPublishers(A) ==
  /\ at = "publisher" /\ at' = "browser"
  /\ Prepare
  /\ Claimable(A, "publisher", Pool(claims, "publisher"), Room("publisher"), PerOutlet) /\ Admit(A)
  /\ Select(A, "publisher")
  /\ UNCHANGED <<Refilling, ready>>

ClaimRecovery(p, A) ==
  /\ at = p /\ p \in {"browser", "archive"}
  /\ at' = IF p = "browser" THEN "archive" ELSE "archive_first"
  /\ Claimable(A, p, Pool(claims, p), Room(p), IF p = "archive" THEN ArchiveLimit ELSE PerOutlet)
  /\ Select(A, p)
  /\ UNCHANGED <<Refilling, seen, ready>>

Paused(h) == seen'[h] = "cooldown"

ArchiveRoom == Smaller(FreeSlots, Larger(0, ArchiveLimit - Cardinality(Pool(Active, "archive"))))

\* Publisher articles of paused hosts, to be handed to the archive phase.
ClaimArchiveFirst(A) ==
  /\ at = "archive_first" /\ at' = "settle"
  /\ Prepare
  /\ A # {} => ready
  /\ Claimable(A, "publisher", Pool(Active, "archive"), ArchiveRoom, ArchiveLimit)
  /\ \A a \in A : Paused(HostOf[a]) /\ cache[a] = "absent"
  /\ Select(A, "archive_first")
  /\ UNCHANGED <<Refilling, ready>>

\* The loop takes the selected claims over and starts their fetches.
Start ==
  /\ at = "settle" /\ at' = "idle" /\ claims' = claims \cup selected /\ selected' = {}
  /\ seen' = [h \in Hostname |-> "unread"] /\ ready' = TRUE
  /\ UNCHANGED <<rows, cache>>

\* What fetch_claim and persist_result make of an article: done, handed to a phase, or
\* released.  A browser phase may end in the archives, these in a publisher retry.
Afterwards(kind) ==
  CASE kind = "publisher" -> Phase
    [] kind = "browser" -> {"publisher", "archive"}
    [] kind = "archive" -> {"archive", "publisher"}
    [] OTHER -> {"archive"}
Settle(c) ==
  /\ at = "idle" /\ c \in claims /\ claims' = claims \ {c}
  /\ \/ /\ c.kind # "archive_first" /\ rows' = [rows EXCEPT ![c.article].state = "done"]
     \/ \E p \in Afterwards(c.kind) : rows' = [rows EXCEPT ![c.article] = [phase |-> p, state |-> "ready"]]
  /\ UNCHANGED <<at, selected, seen, ready, cache>>

\* The checkpoint says that the archives were tried: the article is released, which is
\* remembered for ever, or until the archive retry is due.
Refuse(c) ==
  /\ at = "idle" /\ c \in claims /\ c.kind = "archive_first" /\ claims' = claims \ {c}
  /\ rows' = [rows EXCEPT ![c.article].state = "ready"]
  /\ \E until \in {"until", "always"} : cache' = [cache EXCEPT ![c.article] = until]
  /\ UNCHANGED <<at, selected, seen, ready>>

\* A peer has claimed an article, and has handed it to a phase or finished it.
PeerSettles(a) ==
  /\ rows[a].state = "ready"
  /\ \/ \E p \in Phase \ {rows[a].phase} : rows' = [rows EXCEPT ![a].phase = p]
     \/ rows' = [rows EXCEPT ![a].state = "done"]
  /\ UNCHANGED <<at, claims, selected, seen, ready, cache>>

Refill ==
  \/ Begin \/ Start
  \/ \E A \in SUBSET Article :
       ClaimPublishers(A) \/ (\E p \in Phase : ClaimRecovery(p, A)) \/ ClaimArchiveFirst(A)
Next ==
  \/ Refill \/ (\E c \in claims : Settle(c) \/ Refuse(c))
  \/ (\E a \in Article : PeerSettles(a))

\* The loop refills again and again, fetches end, and the candidates of a page are
\* shuffled: an article that could be admitted is not passed over for ever, nor is its
\* host unavailable at every refill.
Fairness ==
  /\ WF_vars(Refill) /\ \A a \in Article, k \in Kind : WF_vars(Settle([article |-> a, kind |-> k]) \/ Refuse([article |-> a, kind |-> k]))
  /\ \A a \in Article : SF_vars(\E A \in SUBSET Article : a \in A /\ ClaimPublishers(A))
Spec == Init /\ [][Next]_vars
FairSpec == Spec /\ Fairness

-----------------------------------------------------------------------------
(* Properties                                                              *)

ClaimSet == [article : Article, kind : Kind]
\* It includes that the articles in this task's slots are exactly those it has claimed.
TypeOK ==
  /\ rows \in [Article -> [phase : Phase, state : {"ready", "mine", "done"}]]
  /\ ready \in BOOLEAN
  /\ at \in {"idle", "settle"} \cup Kind
  /\ claims \in SUBSET ClaimSet /\ selected \in SUBSET ClaimSet
  /\ seen \in [Hostname -> Availability \cup {"unread"}]
  /\ cache \in [Article -> {"absent", "until", "always"}]
  /\ {c.article : c \in Active} = {a \in Article : rows[a].state = "mine"}
  /\ Cardinality(Active) = Cardinality({c.article : c \in Active})

\* Whatever mixture of phases comes back to the task, its claims fit its threads, and
\* each phase its pool: "bounded independently", archive-first handoffs included
\* ("reserve the same pool budget for handoffs and active archive work").
PoolsBounded ==
  /\ Cardinality(Active) <= Workers
  /\ \A p \in Phase : Cardinality(Pool(Active, p)) <= Limit[p]

\* "Recovery borrows idle slots while retaining publisher priority": a publisher article
\* whose host is available again and again is not left waiting, however much archive work there is.
PublisherServed ==
  \A a \in Article :
    ~<>[](rows[a].state = "ready" /\ rows[a].phase = "publisher")

=============================================================================
