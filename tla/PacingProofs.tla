---------------------------- MODULE PacingProofs ----------------------------
(***************************************************************************)
(* Pacing for every set of permits, articles and threads, every policy and *)
(* every number of slots.                                                  *)
(*                                                                         *)
(* The processes: whatever runs, a browser left behind included, belongs   *)
(* to a thread that has its slots, and to none whose group the watchdog    *)
(* has killed (Owned).                                                     *)
(*                                                                         *)
(* The slots of a task: an article has one claim, and a refill selects     *)
(* nothing of a kind before the call for it (Pending), so that what is     *)
(* left of a pool is what its limit leaves beside the claims.              *)
(*                                                                         *)
(* The rate: while a host recovers its capacity is one (Careful), whatever *)
(* was running when it was paused is no probe, and the next one waits for  *)
(* all of it.                                                              *)
(***************************************************************************)
EXTENDS Pacing, FiniteSetTheorems, TLAPS

-----------------------------------------------------------------------------
(* Sets that are counted                                                   *)

\* Cardinality and finiteness are the same in every component.
LEMMA SameCount ==
  /\ \A S : Processes!Cardinality(S) = Cardinality(S)
  /\ \A S : Dispatch!Cardinality(S) = Cardinality(S)
  /\ \A S : Rate!Cardinality(S) = Cardinality(S)
  /\ \A S : Dispatch!IsFiniteSet(S) <=> IsFiniteSet(S)
<1>1. \A S : Processes!Cardinality(S) = Cardinality(S)
  BY DEF Processes!Cardinality, Cardinality
<1>2. \A S : Dispatch!Cardinality(S) = Cardinality(S)
  BY DEF Dispatch!Cardinality, Cardinality
<1>3. \A S : Rate!Cardinality(S) = Cardinality(S)
  BY DEF Rate!Cardinality, Cardinality
<1>4. \A S : Dispatch!IsFiniteSet(S) <=> IsFiniteSet(S)
  BY DEF Dispatch!IsFiniteSet, IsFiniteSet
<1> QED BY <1>1, <1>2, <1>3, <1>4

LEMMA Fewer ==
  ASSUME NEW S, NEW T, IsFiniteSet(S), T \subseteq S, NEW n \in Nat, Cardinality(S) <= n
  PROVE  IsFiniteSet(T) /\ Cardinality(T) <= n
<1>1. IsFiniteSet(T) /\ Cardinality(T) <= Cardinality(S)
  BY FS_Subset
<1>2. Cardinality(S) \in Nat /\ Cardinality(T) \in Nat
  BY <1>1, FS_CardinalityType
<1> QED BY <1>1, <1>2

LEMMA OneMore ==
  ASSUME NEW S, NEW T, NEW x, IsFiniteSet(S), T \subseteq S \cup {x}, NEW n \in Nat, Cardinality(S) < n
  PROVE  IsFiniteSet(T) /\ Cardinality(T) <= n
<1>1. /\ IsFiniteSet(S \cup {x})
      /\ Cardinality(S \cup {x}) = Cardinality(S) \/ Cardinality(S \cup {x}) = Cardinality(S) + 1
  BY FS_AddElement
<1>2. Cardinality(S) \in Nat
  BY FS_CardinalityType
<1>3. Cardinality(S \cup {x}) <= n
  BY <1>1, <1>2
<1> QED BY <1>1, <1>3, Fewer

-----------------------------------------------------------------------------
(* The processes                                                           *)

Occupied == {t \in Thread : Processes!Running(t)}
Rendering == {t \in Thread : task[t].at # "idle" /\ task[t].kind = "render"}
Works(t) == Processes!Alive(t) \/ t \in others

Owned ==
  /\ \A t \in Thread : Works(t) => Processes!Running(t) /\ watch[t] # "signaled"
  /\ \A t \in Thread : task[t].at = "queued" => task[t].kind = "render"

PInv ==
  /\ Processes!TypeOK /\ Owned
  /\ IsFiniteSet(Occupied) /\ Cardinality(Occupied) <= Heavy
  /\ IsFiniteSet(Rendering) /\ Cardinality(Rendering) <= Browser

LEMMA SlotsAreNumbers == Heavy \in Nat /\ Browser \in Nat
  BY SlotsAssumption DEF Processes!SlotAssumption

LEMMA ProcessesInitially == Processes!Init => PInv
<1> SUFFICES ASSUME Processes!Init PROVE PInv
  OBVIOUS
<1>1. Processes!TypeOK /\ Owned /\ Occupied = {} /\ Rendering = {}
  BY DEF Processes!Init, Processes!TypeOK, Processes!Kind, Owned, Occupied, Rendering, Works,
         Processes!Running, Processes!Alive
<1> QED BY <1>1, FS_EmptySet, SlotsAreNumbers DEF PInv

\* A step that starts no process and takes no slot.
Harmless ==
  /\ Processes!TypeOK' /\ Owned' /\ Occupied' \subseteq Occupied /\ Rendering' \subseteq Rendering

LEMMA HarmlessKeeps ==
  ASSUME PInv, Harmless
  PROVE  PInv'
<1>1. IsFiniteSet(Occupied') /\ Cardinality(Occupied') <= Heavy
  BY Fewer, SlotsAreNumbers DEF PInv, Harmless
<1>2. IsFiniteSet(Rendering') /\ Cardinality(Rendering') <= Browser
  BY Fewer, SlotsAreNumbers DEF PInv, Harmless
<1> QED BY <1>1, <1>2 DEF PInv, Harmless

LEMMA LaunchKeeps ==
  ASSUME PInv, NEW t \in Thread, NEW k \in Processes!Kind, Processes!HeavyFree, Processes!Launch(t, k),
         task[t].at \in {"idle", "queued"}, k = "render" => t \in Rendering
  PROVE  PInv'
<1>1. Processes!TypeOK' /\ Owned'
  BY DEF PInv, Processes!TypeOK, Processes!Launch, Owned, Works, Processes!Running, Processes!Alive
<1>2. Occupied' \subseteq Occupied \cup {t} /\ Rendering' \subseteq Rendering
  BY DEF PInv, Processes!TypeOK, Processes!Launch, Occupied, Rendering, Processes!Running
<1>3. Cardinality(Occupied) < Heavy
  BY SameCount DEF Processes!HeavyFree, Occupied
<1>4. IsFiniteSet(Occupied') /\ Cardinality(Occupied') <= Heavy
  BY <1>2, <1>3, OneMore, SlotsAreNumbers DEF PInv
<1>5. IsFiniteSet(Rendering') /\ Cardinality(Rendering') <= Browser
  BY <1>2, Fewer, SlotsAreNumbers DEF PInv
<1> QED BY <1>1, <1>4, <1>5 DEF PInv

LEMMA ProcessesKeep ==
  ASSUME PInv, [Processes!Next]_processVars
  PROVE  PInv'
<1> USE DEF Processes!Go
<1>1. ASSUME NEW t \in Thread, Processes!Extract(t) PROVE PInv'
  BY <1>1, LaunchKeeps DEF Processes!Extract, Processes!Kind
<1>2. ASSUME NEW t \in Thread, Processes!Render(t) PROVE PInv'
  <2>1. task[t].at = "queued" /\ task[t].kind = "render"
    BY <1>2 DEF PInv, Owned, Processes!Render
  <2> QED BY <1>2, <2>1, LaunchKeeps DEF Processes!Render, Processes!Kind, Rendering
<1>3. ASSUME NEW t \in Thread, Processes!QueueRender(t) PROVE PInv'
  <2>1. Processes!TypeOK' /\ Owned' /\ Occupied' \subseteq Occupied /\ Rendering' \subseteq Rendering \cup {t}
    BY <1>3 DEF PInv, Processes!QueueRender, Processes!TypeOK, Processes!Kind, Owned, Works,
                Processes!Running, Processes!Alive, Occupied, Rendering
  <2>2. Cardinality(Rendering) < Browser
    BY <1>3, SameCount DEF Processes!QueueRender, Processes!BrowserFree, Rendering
  <2>3. IsFiniteSet(Rendering') /\ Cardinality(Rendering') <= Browser
    BY <2>1, <2>2, OneMore, SlotsAreNumbers DEF PInv
  <2>4. IsFiniteSet(Occupied') /\ Cardinality(Occupied') <= Heavy
    BY <2>1, Fewer, SlotsAreNumbers DEF PInv
  <2> QED BY <2>1, <2>3, <2>4 DEF PInv
<1>4. ASSUME NEW t \in Thread,
             \/ Processes!CannotStart(t) \/ Processes!Read(t) \/ Processes!ReadEnds(t) \/ Processes!Leave(t)
             \/ Processes!Reject(t) \/ Processes!Join(t)
      PROVE  Harmless
  <2>1. PICK to \in {"idle", "polling", "reading", "answering", "closing", "stopping"} :
             /\ task' = [task EXCEPT ![t].at = to] /\ UNCHANGED <<child, others, watch>>
             /\ (to = "idle" => task[t].at = "queued") /\ (to # "idle" => Processes!Running(t))
    BY <1>4 DEF Processes!CannotStart, Processes!Read, Processes!ReadEnds, Processes!Leave,
                Processes!Reject, Processes!Join, Processes!Running
  <2>2. Processes!TypeOK' /\ Owned'
    BY <2>1 DEF PInv, Processes!TypeOK, Processes!Kind, Owned, Works, Processes!Running, Processes!Alive
  <2> QED BY <2>1, <2>2 DEF Harmless, PInv, Processes!TypeOK, Occupied, Rendering, Processes!Running
<1>5. ASSUME NEW t \in Thread, Processes!Answer(t) PROVE Harmless
  <2>1. /\ task[t].at = "answering" /\ UNCHANGED <<others, watch>>
        /\ \E to \in {"closing", "polling"} : task' = [task EXCEPT ![t].at = to]
        /\ \/ UNCHANGED child
           \/ /\ child' = [child EXCEPT ![t] = "working"]
              /\ watch[t] # "signaled"
    BY <1>5 DEF Processes!Answer, Processes!Failed
  <2>2. Processes!TypeOK' /\ Owned'
    BY <2>1 DEF PInv, Processes!TypeOK, Processes!Kind, Owned, Works, Processes!Running, Processes!Alive
  <2> QED BY <2>1, <2>2 DEF Harmless, PInv, Processes!TypeOK, Occupied, Rendering, Processes!Running
<1>6. ASSUME NEW t \in Thread, Processes!Stop(t) PROVE Harmless
  <2>1. /\ task[t].at = "stopping" /\ task' = [task EXCEPT ![t].at = "idle"] /\ UNCHANGED watch
        /\ \/ watch[t] = "signaled" /\ UNCHANGED <<child, others>>
           \/ child' = [child EXCEPT ![t] = "none"] /\ others' = others \ {t}
    BY <1>6 DEF Processes!Stop, Processes!KillGroup
  <2>2. Processes!TypeOK' /\ Owned'
    BY <2>1 DEF PInv, Processes!TypeOK, Processes!Kind, Owned, Works, Processes!Running, Processes!Alive
  <2> QED BY <2>1, <2>2 DEF Harmless, PInv, Processes!TypeOK, Occupied, Rendering, Processes!Running
<1>7. ASSUME NEW t \in Thread, Processes!Flag(t) \/ Processes!WatchEnds(t) \/ Processes!Kill(t) PROVE Harmless
  <2>1. /\ UNCHANGED task
        /\ \/ /\ \E w \in {"flagged", "done"} : watch' = [watch EXCEPT ![t] = w]
              /\ UNCHANGED <<child, others>>
           \/ /\ watch' = [watch EXCEPT ![t] = "signaled"]
              /\ child' = [child EXCEPT ![t] = "none"] /\ others' = others \ {t}
    BY <1>7 DEF Processes!Flag, Processes!WatchEnds, Processes!Kill, Processes!KillGroup
  <2>2. Processes!TypeOK' /\ Owned'
    BY <2>1 DEF PInv, Processes!TypeOK, Processes!Kind, Owned, Works, Processes!Running, Processes!Alive
  <2> QED BY <2>1, <2>2 DEF Harmless, Occupied, Rendering, Processes!Running
<1>8. ASSUME NEW t \in Thread, Processes!Fork(t) \/ Processes!Ask(t) \/ Processes!Exit(t) PROVE Harmless
  <2>1. /\ UNCHANGED <<task, watch>> /\ Works(t)
        /\ \/ UNCHANGED child \/ \E c \in {"none", "asking", "stuck"} : child' = [child EXCEPT ![t] = c]
        /\ others' \in {others, others \cup {t}, others \ {t}}
    BY <1>8 DEF Processes!Fork, Processes!Ask, Processes!Exit, Works, Processes!Alive
  <2>2. Processes!TypeOK' /\ Owned'
    BY <2>1 DEF PInv, Processes!TypeOK, Processes!Kind, Owned, Works, Processes!Running, Processes!Alive
  <2> QED BY <2>1, <2>2 DEF Harmless, Occupied, Rendering, Processes!Running
<1>9. CASE UNCHANGED processVars
  BY <1>9 DEF processVars, PInv, Processes!TypeOK, Owned, Works, Processes!Running, Processes!Alive,
              Occupied, Rendering
<1> QED
  BY <1>1, <1>2, <1>3, <1>4, <1>5, <1>6, <1>7, <1>8, <1>9, HarmlessKeeps DEF Processes!Next, Processes!Main

\* Whatever runs belongs to a thread that has its slots.
LEMMA Covered == PInv => ProcessesBounded
<1> SUFFICES ASSUME PInv PROVE ProcessesBounded
  OBVIOUS
<1> DEFINE running == {t \in Thread : Processes!Alive(t) \/ t \in others}
           rendering == {t \in running : task[t].kind = "render"}
<1>1. running \subseteq Occupied /\ rendering \subseteq Rendering
  BY DEF PInv, Owned, Works, Occupied, Rendering, Processes!Running
<1>2. Cardinality(running) <= Heavy
  <2> HIDE DEF running
  <2> QED BY <1>1, Fewer, SlotsAreNumbers DEF PInv
<1>3. Cardinality(rendering) <= Browser
  <2> HIDE DEF rendering
  <2> QED BY <1>1, Fewer, SlotsAreNumbers DEF PInv
<1> QED BY <1>2, <1>3, SameCount DEF PInv, ProcessesBounded, Processes!ProcessesBounded
-----------------------------------------------------------------------------
(* The slots of a task                                                     *)

Claims == Dispatch!ClaimSet
AllClaims == Dispatch!Active
PoolOf(p) == Dispatch!Pool(AllClaims, p)

DispatchTypes ==
  /\ articles \in [Article -> [phase : Dispatch!Phase, state : {"ready", "mine", "done"}]]
  /\ services \in BOOLEAN /\ at \in {"idle", "settle"} \cup Dispatch!Kind
  /\ slots \in SUBSET Claims /\ selected \in SUBSET Claims
  /\ seen \in [Hostname -> Dispatch!Availability \cup {"unread"}]
  /\ cache \in [Article -> {"absent", "until", "always"}]

\* The articles claimed, each of them once.
Mine == {c.article : c \in AllClaims} = {a \in Article : articles[a].state = "mine"}
Single == \A c, d \in AllClaims : c.article = d.article => c = d

\* What the refill has selected so far.
Pending ==
  \A c \in selected :
    /\ at # "idle" /\ at # "publisher"
    /\ at = "browser" => c.kind = "publisher"
    /\ at = "archive" => c.kind \in {"publisher", "browser"}
    /\ at = "archive_first" => c.kind # "archive_first"

DInv == DispatchTypes /\ Mine /\ Single /\ Pending /\ Dispatch!PoolsBounded

LEMMA LimitsAreNumbers ==
  /\ Workers \in Nat /\ \A p \in Dispatch!Phase : Dispatch!Limit[p] \in Nat
<1>1. Workers \in Nat \ {0} /\ ArchiveSlots \in Nat \ {0}
  BY SlotsAssumption DEF Dispatch!DispatchAssumption
<1>2. Workers \div 8 \in Nat
  BY <1>1
<1>3. Dispatch!RecoveryLimit \in Nat
  BY <1>2 DEF Dispatch!RecoveryLimit, Dispatch!Smaller, Dispatch!Larger
<1>4. Dispatch!PublisherLimit \in Nat
  BY <1>1, <1>3 DEF Dispatch!PublisherLimit, Dispatch!Larger
<1>5. Dispatch!ArchiveLimit \in Nat
  BY <1>1, <1>3 DEF Dispatch!ArchiveLimit, Dispatch!Smaller, Dispatch!Larger
<1> QED BY <1>1, <1>3, <1>4, <1>5 DEF Dispatch!Limit, Dispatch!Phase

\* Claims of different articles are as many as these.
LEMMA OneEach ==
  ASSUME NEW C \in SUBSET Claims, \A c, d \in C : c.article = d.article => c = d
  PROVE  IsFiniteSet(C) /\ Cardinality(C) = Cardinality({c.article : c \in C})
<1> DEFINE T == {c.article : c \in C}
           about == [c \in C |-> c.article]
<1>1. T \subseteq Article
  BY DEF Claims, Dispatch!ClaimSet
<1>2. IsFiniteSet(T)
  BY <1>1, FS_Subset, SlotsAssumption, SameCount DEF Dispatch!DispatchAssumption
<1>3. about \in Injection(C, T) /\ about \in Surjection(C, T)
  BY DEF Injection, IsInjective, Surjection
<1> HIDE DEF T, about
<1>4. IsFiniteSet(C) /\ Cardinality(C) = Cardinality(T)
  BY <1>2, <1>3, FS_Injection
<1> QED BY <1>4 DEF T

LEMMA Counted ==
  ASSUME DInv
  PROVE  /\ AllClaims \in SUBSET Claims /\ IsFiniteSet(AllClaims) /\ Cardinality(AllClaims) \in Nat
         /\ Cardinality(AllClaims) <= Workers
         /\ \A p : IsFiniteSet(PoolOf(p)) /\ Cardinality(PoolOf(p)) \in Nat
         /\ \A p \in Dispatch!Phase : Cardinality(PoolOf(p)) <= Dispatch!Limit[p]
<1>1. AllClaims \in SUBSET Claims
  BY DEF DInv, DispatchTypes, AllClaims, Dispatch!Active
<1>2. IsFiniteSet(AllClaims)
  BY <1>1, OneEach DEF DInv, Single
<1>3. ASSUME NEW p PROVE IsFiniteSet(PoolOf(p)) /\ Cardinality(PoolOf(p)) \in Nat
  <2>1. PoolOf(p) \subseteq AllClaims
    BY DEF PoolOf, Dispatch!Pool
  <2>2. IsFiniteSet(PoolOf(p))
    BY <1>2, <2>1, FS_Subset
  <2> QED BY <2>2, FS_CardinalityType
<1>4. Cardinality(AllClaims) \in Nat
  BY <1>2, FS_CardinalityType
<1> QED BY <1>1, <1>2, <1>3, <1>4, SameCount DEF DInv, Dispatch!PoolsBounded, PoolOf, AllClaims

LEMMA DispatchInitially == Dispatch!Init => DInv
<1> SUFFICES ASSUME Dispatch!Init PROVE DInv
  OBVIOUS
<1>1. AllClaims = {} /\ \A p : PoolOf(p) = {}
  BY DEF Dispatch!Init, AllClaims, Dispatch!Active, PoolOf, Dispatch!Pool
<1>2. DispatchTypes /\ Mine /\ Single /\ Pending
  BY <1>1 DEF Dispatch!Init, DispatchTypes, Mine, Single, Pending, Dispatch!Phase, Dispatch!Kind
<1>3. Cardinality(AllClaims) <= Workers
  BY <1>1, FS_EmptySet, LimitsAreNumbers
<1>4. ASSUME NEW p \in Dispatch!Phase PROVE Cardinality(PoolOf(p)) <= Dispatch!Limit[p]
  BY <1>1, FS_EmptySet, LimitsAreNumbers
<1> QED BY <1>2, <1>3, <1>4, SameCount DEF DInv, Dispatch!PoolsBounded, PoolOf, AllClaims

\* Claims that are given up, or none at all.
LEMMA GivenUp ==
  ASSUME DInv, DispatchTypes', Mine', Pending', AllClaims' \subseteq AllClaims
  PROVE  DInv'
<1>1. Single'
  BY DEF DInv, Single
<1>2. IsFiniteSet(AllClaims') /\ Cardinality(AllClaims') <= Workers
  BY Fewer, Counted, LimitsAreNumbers
<1>3. ASSUME NEW p \in Dispatch!Phase PROVE Cardinality(PoolOf(p)') <= Dispatch!Limit[p]
  <2>1. PoolOf(p)' \subseteq PoolOf(p)
    BY DEF PoolOf, Dispatch!Pool
  <2> QED BY <2>1, Fewer, Counted, LimitsAreNumbers
<1> QED BY <1>1, <1>2, <1>3, SameCount DEF DInv, Dispatch!PoolsBounded, PoolOf, AllClaims, Dispatch!Limit

\* The articles A selected as kind k fit what is left of its pool.
PoolFor(k) == IF k = "archive_first" THEN "archive" ELSE k

LEMMA Selected ==
  ASSUME DInv, NEW A \in SUBSET Article, NEW k \in Dispatch!Kind,
         Dispatch!Select(A, k), UNCHANGED slots, \A a \in A : articles[a].state = "ready",
         Cardinality(A) <= Workers - Cardinality(AllClaims),
         Cardinality(A) <= Dispatch!Limit[PoolFor(k)] - Cardinality(PoolOf(PoolFor(k)))
  PROVE  /\ articles' \in [Article -> [phase : Dispatch!Phase, state : {"ready", "mine", "done"}]]
         /\ selected' = selected \cup [article : A, kind : {k}] /\ selected' \in SUBSET Claims
         /\ Mine' /\ Single' /\ Dispatch!PoolsBounded'
<1> DEFINE N == [article : A, kind : {k}]
<1>1. N \in SUBSET Claims /\ \A c, d \in N : c.article = d.article => c = d
  BY DEF Claims, Dispatch!ClaimSet
<1>2. /\ {c.article : c \in N} = A /\ \A c \in N : c.kind = k
  <2>1. \A a \in A : [article |-> a, kind |-> k] \in N /\ [article |-> a, kind |-> k].article = a
    OBVIOUS
  <2>2. \A c \in N : c.article \in A /\ c.kind = k
    OBVIOUS
  <2> HIDE DEF N
  <2> QED BY <2>1, <2>2
<1>3. /\ selected' = selected \cup N /\ AllClaims' = AllClaims \cup N
      /\ articles' = [a \in Article |-> IF a \in A THEN [articles[a] EXCEPT !.state = "mine"] ELSE articles[a]]
  BY DEF Dispatch!Select, AllClaims, Dispatch!Active
<1> HIDE DEF N
<1>4. /\ IsFiniteSet(N) /\ Cardinality(N) = Cardinality(A) /\ Cardinality(A) \in Nat
  BY <1>1, <1>2, OneEach, FS_CardinalityType
<1>5. articles' \in [Article -> [phase : Dispatch!Phase, state : {"ready", "mine", "done"}]]
  BY <1>3 DEF DInv, DispatchTypes
<1>6. /\ \A a \in A : articles'[a].state = "mine" /\ articles[a].state # "mine"
      /\ \A a \in Article \ A : articles'[a] = articles[a]
  BY <1>3 DEF DInv, DispatchTypes
<1>7. {c.article : c \in AllClaims'} = {c.article : c \in AllClaims} \cup A
  BY <1>2, <1>3
<1>8. Mine'
  <2>1. {a \in Article : articles'[a].state = "mine"} = {a \in Article : articles[a].state = "mine"} \cup A
    BY <1>6
  <2> QED BY <1>7, <2>1 DEF Mine, DInv
<1>9. Single'
  <2>1. \A c \in AllClaims, d \in N : c.article # d.article
    BY <1>2, <1>6 DEF DInv, Mine
  <2> QED BY <1>1, <1>3, <2>1 DEF DInv, Single
<1>10. Cardinality(AllClaims') <= Workers
  <2>1. Cardinality(AllClaims \cup N) = Cardinality(AllClaims) + Cardinality(N) - Cardinality(AllClaims \cap N)
    BY <1>4, Counted, FS_Union
  <2>2. Cardinality(AllClaims \cap N) \in Nat
    BY <1>4, Counted, FS_Intersection, FS_CardinalityType
  <2> QED BY <1>3, <1>4, <2>1, <2>2, Counted, LimitsAreNumbers
<1>11. ASSUME NEW p \in Dispatch!Phase PROVE Cardinality(PoolOf(p)') <= Dispatch!Limit[p]
  <2>1. CASE p = PoolFor(k)
    <3>1. PoolOf(p)' \subseteq PoolOf(p) \cup N
      BY <1>3 DEF PoolOf, Dispatch!Pool
    <3>2. /\ IsFiniteSet(PoolOf(p) \cup N)
          /\ Cardinality(PoolOf(p) \cup N) = Cardinality(PoolOf(p)) + Cardinality(N) - Cardinality(PoolOf(p) \cap N)
      BY <1>4, Counted, FS_Union
    <3>3. Cardinality(PoolOf(p) \cap N) \in Nat
      BY <1>4, Counted, FS_Intersection, FS_CardinalityType
    <3>4. Cardinality(PoolOf(p) \cup N) <= Dispatch!Limit[p]
      BY <1>4, <2>1, <3>2, <3>3, Counted, LimitsAreNumbers
    <3> QED BY <3>1, <3>2, <3>4, Fewer, LimitsAreNumbers
  <2>2. CASE p # PoolFor(k)
    <3>1. PoolOf(p)' \subseteq PoolOf(p)
      BY <1>2, <1>3, <2>2 DEF PoolOf, Dispatch!Pool, PoolFor, Dispatch!Kind, Dispatch!Phase
    <3> QED BY <3>1, Fewer, Counted, LimitsAreNumbers
  <2> QED BY <2>1, <2>2
<1>12. Dispatch!PoolsBounded'
  BY <1>10, <1>11, SameCount DEF Dispatch!PoolsBounded, PoolOf, AllClaims, Dispatch!Limit
<1>13. selected' \in SUBSET Claims
  BY <1>1, <1>3 DEF DInv, DispatchTypes
<1> QED BY <1>3, <1>5, <1>8, <1>9, <1>12, <1>13 DEF N

\* What a claim may take from its pool.
LEMMA RoomFits ==
  ASSUME DInv, NEW p \in Dispatch!Phase, PoolOf(p) = Dispatch!Pool(slots, p), NEW n \in Nat,
         n <= Dispatch!Room(p)
  PROVE  n <= Workers - Cardinality(AllClaims) /\ n <= Dispatch!Limit[p] - Cardinality(PoolOf(p))
<1> DEFINE free == Workers - Cardinality(AllClaims)
           left == Dispatch!Limit[p] - Cardinality(PoolOf(p))
<1>1. free \in Nat /\ left \in Nat
  BY Counted, LimitsAreNumbers
<1>2. Dispatch!Room(p) = Dispatch!Smaller(free, Dispatch!Larger(0, left))
  BY SameCount DEF Dispatch!Room, Dispatch!FreeSlots, AllClaims
<1> HIDE DEF free, left
<1>3. n <= free /\ n <= left
  BY <1>1, <1>2 DEF Dispatch!Smaller, Dispatch!Larger
<1> QED BY <1>3 DEF free, left

Rows == [phase : Dispatch!Phase, state : {"ready", "mine", "done"}]
Free == [phase : Dispatch!Phase, state : {"ready", "done"}]

LEMMA RowsChange ==
  ASSUME NEW r \in Rows
  PROVE  /\ \A s \in {"ready", "done"} : [r EXCEPT !.state = s] \in Free
         /\ r.state = "ready" => \A p \in Dispatch!Phase : [r EXCEPT !.phase = p] \in Free
  BY DEF Rows, Free

LEMMA DispatchKeeps ==
  ASSUME DInv, [Dispatch!Next]_dispatchVars
  PROVE  DInv'
<1> USE DEF Dispatch!Phase, Dispatch!Kind
<1>1. CASE Dispatch!Begin
  <2>1. /\ AllClaims' = AllClaims /\ at = "idle" /\ at' = "publisher" /\ UNCHANGED <<articles, slots, selected, seen>>
        /\ services' \in BOOLEAN
        /\ \E D \in SUBSET Article : cache' = [a \in Article |-> IF a \in D THEN "absent" ELSE cache[a]]
    BY <1>1 DEF Dispatch!Begin, AllClaims, Dispatch!Active
  <2>2. DispatchTypes' /\ Mine' /\ Pending'
    BY <2>1 DEF DInv, DispatchTypes, Mine, Pending
  <2> QED BY <2>1, <2>2, GivenUp
<1>2. CASE Dispatch!Start
  <2>1. /\ AllClaims' = AllClaims /\ at' = "idle" /\ slots' = slots \cup selected /\ selected' = {}
        /\ services' = TRUE /\ seen' = [h \in Hostname |-> "unread"] /\ UNCHANGED <<articles, cache>>
    BY <1>2 DEF Dispatch!Start, AllClaims, Dispatch!Active
  <2>2. DispatchTypes' /\ Mine' /\ Pending'
    BY <2>1 DEF DInv, DispatchTypes, Mine, Pending, Dispatch!Availability
  <2> QED BY <2>1, <2>2, GivenUp
<1>3. ASSUME NEW A \in SUBSET Article, NEW k \in Dispatch!Kind, Dispatch!Select(A, k), UNCHANGED slots,
             \A a \in A : articles[a].state = "ready", UNCHANGED cache, services' \in BOOLEAN,
             at' \in {"settle"} \cup Dispatch!Kind,
             Cardinality(A) <= Workers - Cardinality(AllClaims),
             Cardinality(A) <= Dispatch!Limit[PoolFor(k)] - Cardinality(PoolOf(PoolFor(k))),
             seen' \in [Hostname -> Dispatch!Availability \cup {"unread"}], Pending'
      PROVE  DInv'
  <2>1. DispatchTypes' /\ Mine' /\ Single' /\ Dispatch!PoolsBounded'
    BY <1>3, Selected DEF DInv, DispatchTypes
  <2> QED BY <1>3, <2>1 DEF DInv
<1>4. ASSUME Dispatch!Prepare PROVE seen' \in [Hostname -> Dispatch!Availability \cup {"unread"}]
  BY <1>4 DEF Dispatch!Prepare, DInv, DispatchTypes
<1>5. ASSUME NEW A \in SUBSET Article PROVE IsFiniteSet(A) /\ Cardinality(A) \in Nat
  <2>1. IsFiniteSet(A)
    BY <1>5, FS_Subset, SlotsAssumption, SameCount DEF Dispatch!DispatchAssumption
  <2> QED BY <2>1, FS_CardinalityType
<1>6. ASSUME NEW A \in SUBSET Article, Dispatch!ClaimPublishers(A) PROVE DInv'
  <2>1. /\ Dispatch!Select(A, "publisher") /\ UNCHANGED <<slots, cache, services>> /\ Dispatch!Prepare
        /\ \A a \in A : articles[a].state = "ready"
        /\ Cardinality(A) <= Dispatch!Room("publisher") /\ at = "publisher" /\ at' = "browser"
    BY <1>6, SameCount DEF Dispatch!ClaimPublishers, Dispatch!Claimable, Dispatch!Due, Dispatch!Refilling
  <2>2. selected = {} /\ PoolOf("publisher") = Dispatch!Pool(slots, "publisher")
    BY <2>1 DEF DInv, Pending, PoolOf, AllClaims, Dispatch!Active, Dispatch!Pool
  <2>3. /\ Cardinality(A) <= Workers - Cardinality(AllClaims)
        /\ Cardinality(A) <= Dispatch!Limit["publisher"] - Cardinality(PoolOf("publisher"))
    BY <1>5, <2>1, <2>2, RoomFits
  <2>4. \A c \in selected' : c.kind = "publisher"
    BY <2>1, <2>2 DEF Dispatch!Select
  <2>5. Pending' /\ PoolFor("publisher") = "publisher" /\ services \in BOOLEAN
    BY <2>1, <2>4 DEF Pending, PoolFor, DInv, DispatchTypes
  <2> QED BY <1>3, <1>4, <2>1, <2>3, <2>5
<1>7. ASSUME NEW A \in SUBSET Article, NEW p \in {"browser", "archive"}, Dispatch!ClaimRecovery(p, A)
      PROVE  DInv'
  <2>1. /\ Dispatch!Select(A, p) /\ UNCHANGED <<slots, cache, services, seen>>
        /\ \A a \in A : articles[a].state = "ready"
        /\ Cardinality(A) <= Dispatch!Room(p)
        /\ at = p /\ at' = IF p = "browser" THEN "archive" ELSE "archive_first"
    BY <1>7, SameCount DEF Dispatch!ClaimRecovery, Dispatch!Claimable, Dispatch!Due, Dispatch!Refilling
  <2>2. PoolOf(p) = Dispatch!Pool(slots, p)
    BY <2>1 DEF DInv, Pending, PoolOf, AllClaims, Dispatch!Active, Dispatch!Pool
  <2>3. /\ Cardinality(A) <= Workers - Cardinality(AllClaims)
        /\ Cardinality(A) <= Dispatch!Limit[p] - Cardinality(PoolOf(p))
    BY <1>5, <2>1, <2>2, RoomFits
  <2>4. \A c \in selected' : c \in selected \/ c.kind = p
    BY <2>1 DEF Dispatch!Select
  <2>5. Pending' /\ PoolFor(p) = p /\ services \in BOOLEAN
    BY <2>1, <2>4 DEF Pending, PoolFor, DInv, DispatchTypes
  <2>6. seen' \in [Hostname -> Dispatch!Availability \cup {"unread"}]
    BY <2>1 DEF DInv, DispatchTypes
  <2> QED BY <1>3, <2>1, <2>3, <2>5, <2>6
<1>8. ASSUME NEW A \in SUBSET Article, Dispatch!ClaimArchiveFirst(A) PROVE DInv'
  <2>1. /\ Dispatch!Select(A, "archive_first") /\ UNCHANGED <<slots, cache, services>> /\ Dispatch!Prepare
        /\ \A a \in A : articles[a].state = "ready"
        /\ Cardinality(A) <= Dispatch!ArchiveRoom /\ at' = "settle"
    BY <1>8, SameCount DEF Dispatch!ClaimArchiveFirst, Dispatch!Claimable, Dispatch!Due, Dispatch!Refilling
  <2>2. /\ Cardinality(A) <= Workers - Cardinality(AllClaims)
        /\ Cardinality(A) <= Dispatch!Limit["archive"] - Cardinality(PoolOf("archive"))
    <3> DEFINE free == Workers - Cardinality(AllClaims)
               left == Dispatch!Limit["archive"] - Cardinality(PoolOf("archive"))
    <3>1. free \in Nat /\ left \in Nat
      BY Counted, LimitsAreNumbers
    <3>2. Dispatch!ArchiveRoom = Dispatch!Smaller(free, Dispatch!Larger(0, left))
      BY SameCount DEF Dispatch!ArchiveRoom, Dispatch!FreeSlots, AllClaims, PoolOf, Dispatch!Limit
    <3> HIDE DEF free, left
    <3>3. Cardinality(A) <= free /\ Cardinality(A) <= left
      BY <1>5, <2>1, <3>1, <3>2 DEF Dispatch!Smaller, Dispatch!Larger
    <3> QED BY <3>3 DEF free, left
  <2>3. Pending' /\ PoolFor("archive_first") = "archive" /\ services \in BOOLEAN
    BY <2>1 DEF Pending, PoolFor, DInv, DispatchTypes
  <2> QED BY <1>3, <1>4, <2>1, <2>2, <2>3
<1>9. ASSUME NEW c \in slots, Dispatch!Settle(c) \/ Dispatch!Refuse(c) PROVE DInv'
  <2>1. /\ at = "idle" /\ slots' = slots \ {c} /\ UNCHANGED <<at, selected, seen, services>>
        /\ cache' \in [Article -> {"absent", "until", "always"}] /\ c.article \in Article
        /\ \E r \in Free : articles' = [articles EXCEPT ![c.article] = r]
    <3>1. c.article \in Article /\ c.kind \in Dispatch!Kind
      BY <1>9 DEF DInv, DispatchTypes, Claims, Dispatch!ClaimSet
    <3>2. CASE Dispatch!Settle(c)
      <4>1. Dispatch!Afterwards(c.kind) \subseteq Dispatch!Phase
        BY DEF Dispatch!Afterwards
      <4>2. \A p \in Dispatch!Phase : [phase |-> p, state |-> "ready"] \in Free
        BY DEF Free
      <4>3. [articles[c.article] EXCEPT !.state = "done"] \in Free
        BY <3>1, RowsChange DEF Rows, DInv, DispatchTypes
      <4>4. cache' = cache /\ cache \in [Article -> {"absent", "until", "always"}]
        BY <3>2 DEF Dispatch!Settle, DInv, DispatchTypes
      <4>5. CASE articles' = [articles EXCEPT ![c.article].state = "done"]
        BY <3>1, <3>2, <4>3, <4>4, <4>5 DEF Dispatch!Settle
      <4>6. ASSUME NEW p \in Dispatch!Afterwards(c.kind),
                   articles' = [articles EXCEPT ![c.article] = [phase |-> p, state |-> "ready"]]
            PROVE  \E r \in Free : articles' = [articles EXCEPT ![c.article] = r]
        BY <4>1, <4>2, <4>6
      <4> QED BY <3>1, <3>2, <4>4, <4>5, <4>6 DEF Dispatch!Settle
    <3>3. CASE Dispatch!Refuse(c)
      <4>1. [articles[c.article] EXCEPT !.state = "ready"] \in Free
        BY <3>1, RowsChange DEF Rows, DInv, DispatchTypes
      <4>2. articles' = [articles EXCEPT ![c.article] = [articles[c.article] EXCEPT !.state = "ready"]]
        BY <3>3 DEF Dispatch!Refuse
      <4>3. cache' \in [Article -> {"absent", "until", "always"}]
        BY <3>3 DEF Dispatch!Refuse, DInv, DispatchTypes
      <4> QED BY <3>1, <3>3, <4>1, <4>2, <4>3 DEF Dispatch!Refuse
    <3> QED BY <1>9, <3>2, <3>3
  <2>2. selected = {} /\ AllClaims' = AllClaims \ {c} /\ c \in AllClaims
    BY <1>9, <2>1 DEF DInv, Pending, AllClaims, Dispatch!Active
  <2>3. DispatchTypes' /\ Pending'
    BY <2>1, <2>2 DEF DInv, DispatchTypes, Pending, Free
  <2>4. Mine'
    <3>1. {d.article : d \in AllClaims'} = {d.article : d \in AllClaims} \ {c.article}
      BY <2>2 DEF DInv, Single
    <3>2. {a \in Article : articles'[a].state = "mine"} = {a \in Article : articles[a].state = "mine"} \ {c.article}
      BY <2>1 DEF DInv, DispatchTypes, Free
    <3> QED BY <3>1, <3>2 DEF Mine, DInv
  <2> QED BY <2>2, <2>3, <2>4, GivenUp
<1>10. ASSUME NEW a \in Article, Dispatch!PeerSettles(a) PROVE DInv'
  <2>1. /\ articles[a].state = "ready" /\ UNCHANGED <<at, slots, selected, seen, services, cache>>
        /\ \E r \in Free : articles' = [articles EXCEPT ![a] = r]
    <3>1. articles[a] \in Rows /\ articles[a].state = "ready"
      BY <1>10 DEF DInv, DispatchTypes, Rows, Dispatch!PeerSettles
    <3>2. /\ [articles[a] EXCEPT !.state = "done"] \in Free
          /\ \A p \in Dispatch!Phase : [articles[a] EXCEPT !.phase = p] \in Free
      BY <3>1, RowsChange
    <3>3. \/ articles' = [articles EXCEPT ![a] = [articles[a] EXCEPT !.state = "done"]]
          \/ \E p \in Dispatch!Phase : articles' = [articles EXCEPT ![a] = [articles[a] EXCEPT !.phase = p]]
      BY <1>10 DEF Dispatch!PeerSettles
    <3> QED BY <1>10, <3>1, <3>2, <3>3 DEF Dispatch!PeerSettles
  <2>2. AllClaims' = AllClaims
    BY <2>1 DEF AllClaims, Dispatch!Active
  <2>3. DispatchTypes' /\ Pending'
    BY <2>1 DEF DInv, DispatchTypes, Pending, Free
  <2>4. {b \in Article : articles'[b].state = "mine"} = {b \in Article : articles[b].state = "mine"}
    BY <2>1 DEF DInv, DispatchTypes, Free
  <2> QED BY <2>2, <2>3, <2>4, GivenUp DEF Mine, DInv
<1>11. CASE UNCHANGED dispatchVars
  <2>1. AllClaims' = AllClaims /\ DispatchTypes' /\ Mine' /\ Pending'
    BY <1>11 DEF dispatchVars, AllClaims, Dispatch!Active, DInv, DispatchTypes, Mine, Pending
  <2> QED BY <2>1, GivenUp
<1> QED
  <2>1. CASE Dispatch!Refill
    BY <1>1, <1>2, <1>6, <1>7, <1>8, <2>1 DEF Dispatch!Refill, Dispatch!ClaimRecovery
  <2> QED BY <1>9, <1>10, <1>11, <2>1 DEF Dispatch!Next

\* An article has one claim, so that they can be counted either way.
LEMMA Pooled == DInv => PoolsBounded
<1>1. DInv => Cardinality(AllClaims) = Cardinality({c.article : c \in AllClaims})
  BY OneEach, Counted DEF DInv, Single
<1> QED BY <1>1, SameCount DEF DInv, DispatchTypes, Mine, PoolsBounded, Dispatch!TypeOK, AllClaims, Claims
-----------------------------------------------------------------------------
(* The rate                                                                *)

Delays == MinDelay..MaxDelay
Capacities == {1, MaxConcurrency}
Phases == {"continuous", "sampling", "draining", "completed", "aborted"}
Rates ==
  [phase : Phases, started : Nat, unsettled : Nat, delay : Delays, capacity : Capacities,
   window : [Rate!Kind -> 0..Window], errors : 0..3, blocks : 0..3, owners : SUBSET Owner,
   mode : {"normal", "probing"}, passed : 0..2, recovery : 0..MaxPause, retry : Nat,
   healthyDelay : Delays]

RateTypes ==
  /\ rate \in Rates /\ ratePause \in Nat /\ rateLeases \in [Owner -> 0..SampleTtl]
  /\ probes \subseteq Owner /\ faults \in 0..Faults

\* Every sample is open, or was counted once.
Settled ==
  /\ IsFiniteSet(rate.owners) /\ rate.unsettled = Cardinality(rate.owners)
  /\ rate.phase = "completed" => rate.owners = {}

\* Only a continuous policy probes, with a capacity of one.
Careful ==
  /\ Requests = None => rate.phase = "continuous"
  /\ rate.mode = "probing" => Requests = None /\ rate.capacity = 1

Alone ==
  /\ IsFiniteSet(Rate!Running)
  /\ rate.mode = "probing" => Cardinality(probes \cap Rate!Running) <= 1

RInv == RateTypes /\ Settled /\ Careful /\ Alone

LEMMA PolicyFacts ==
  /\ Requests = None \/ Requests \in Nat \ {0}
  /\ MinDelay \in Nat /\ InitialDelay \in Nat /\ MaxDelay \in Nat /\ FallbackDelay \in Nat
  /\ MinDelay <= InitialDelay /\ InitialDelay <= MaxDelay /\ MaxConcurrency \in Nat \ {0}
  /\ Window \in Nat \ {0}
  /\ ShortPause \in Nat \ {0} /\ LongPause \in Nat /\ MaxPause \in Nat
  /\ ShortPause <= LongPause /\ LongPause <= MaxPause
  /\ RetryAfter \subseteq Nat /\ SampleTtl \in Nat \ {0} /\ Faults \in Nat
  BY RateAssumption DEF Rate!PolicyAssumption, Rate!TimeAssumption

USE DEF Rate!Larger, Rate!Smaller, Rate!Continuous

\* What change, pause and a probe do to a record.
Alike(r, s) == s.phase = r.phase /\ s.owners = r.owners /\ s.unsettled = r.unsettled

LEMMA Changed ==
  ASSUME NEW r \in Rates, NEW d \in Int, NEW c \in Capacities
  PROVE  /\ Rate!Change(r, d, c) \in Rates /\ Alike(r, Rate!Change(r, d, c))
         /\ Rate!Change(r, d, c).mode = r.mode /\ Rate!Change(r, d, c).capacity = c
<1> DEFINE delay == Rate!Smaller(MaxDelay, Rate!Larger(MinDelay, d))
<1>1. delay \in Delays
  BY PolicyFacts DEF Delays
<1>2. Rate!NoResults \in [Rate!Kind -> 0..Window]
  BY PolicyFacts DEF Rate!NoResults
<1>3. Rate!Change(r, d, c) = [r EXCEPT !.delay = delay, !.capacity = c, !.window = Rate!NoResults]
  BY DEF Rate!Change
<1> HIDE DEF delay
<1> QED BY <1>1, <1>2, <1>3 DEF Rates, Alike

LEMMA PauseFits ==
  ASSUME RateTypes, NEW r \in Rates, NEW base \in {ShortPause, LongPause}
  PROVE  Rate!PauseLength(r, base) \in 0..MaxPause /\ Rate!CooldownAfter(r, base) \in Nat
<1>1. r.recovery \in Nat /\ base \in Nat /\ ratePause \in Nat
  BY PolicyFacts DEF Rates, RateTypes
<1>2. r.recovery * (IF r.retry = 0 THEN 2 ELSE 1) \in Nat
  BY <1>1
<1>3. Rate!PauseLength(r, base) \in 0..MaxPause
  BY <1>1, <1>2, PolicyFacts DEF Rate!PauseLength
<1> QED BY <1>1, <1>3 DEF Rate!CooldownAfter

LEMMA PausedOnce ==
  ASSUME RateTypes, NEW r \in Rates, NEW base \in {ShortPause, LongPause}
  PROVE  /\ Rate!Paused(r, base) \in Rates /\ Alike(r, Rate!Paused(r, base))
         /\ Rate!Paused(r, base).capacity = 1
<1> DEFINE slower == Rate!Change(r, InitialDelay, 1)
           length == Rate!PauseLength(r, base)
           retry == Rate!CooldownAfter(r, base)
<1>1. slower \in Rates /\ Alike(r, slower) /\ slower.capacity = 1
  <2>1. InitialDelay \in Int /\ 1 \in Capacities
    BY PolicyFacts DEF Capacities
  <2> QED BY <2>1, Changed
<1>2. length \in 0..MaxPause /\ retry \in Nat
  BY PauseFits
<1>3. Rate!Paused(r, base) = [slower EXCEPT !.mode = "probing", !.passed = 0, !.recovery = length,
                                            !.retry = retry, !.errors = 0]
  BY DEF Rate!Paused
<1> DEFINE s == Rate!Paused(r, base)
<1> HIDE DEF slower, length, retry, s
<1>4. /\ s.phase = slower.phase /\ s.owners = slower.owners /\ s.unsettled = slower.unsettled
      /\ s.capacity = slower.capacity
  BY <1>1, <1>3 DEF Rates, s
<1>5. s \in Rates
  <2>1. s = [phase |-> slower.phase, started |-> slower.started, unsettled |-> slower.unsettled,
             delay |-> slower.delay, capacity |-> slower.capacity, window |-> slower.window, errors
             |-> 0, blocks |-> slower.blocks, owners |-> slower.owners, mode |-> "probing", passed
             |-> 0, recovery |-> length, retry |-> retry, healthyDelay |-> slower.healthyDelay]
    BY <1>1, <1>3 DEF Rates, s
  <2>2. /\ slower.phase \in Phases /\ slower.started \in Nat /\ slower.unsettled \in Nat /\ slower.delay \in Delays
        /\ slower.capacity \in Capacities /\ slower.window \in [Rate!Kind -> 0..Window] /\ slower.blocks \in 0..3
        /\ slower.owners \in SUBSET Owner /\ slower.healthyDelay \in Delays
    BY <1>1 DEF Rates
  <2> QED BY <1>2, <2>1, <2>2 DEF Rates
<1> QED BY <1>1, <1>4, <1>5 DEF Alike, s

\* A healthy response, or one that changes nothing.
LEMMA LearnedMore ==
  ASSUME NEW r \in Rates, NEW x \in Rate!Outcome
  PROVE  LET s == Rate!Learned(r, x)
         IN  /\ s \in Rates /\ Alike(r, s)
             /\ s.mode = "probing" => r.mode = "probing" /\ s.capacity = r.capacity
<1> DEFINE s == Rate!Learned(r, x)
           normal == Rate!Change(r, r.healthyDelay, MaxConcurrency)
           faster == Rate!Change(r, (r.delay * 7) \div 10, MaxConcurrency)
<1>1. Alike(r, r)
  BY DEF Alike
<1>2. r.healthyDelay \in Int /\ (r.delay * 7) \div 10 \in Int /\ r.passed \in 0..2
  BY PolicyFacts DEF Rates, Delays
<1>3. /\ normal \in Rates /\ Alike(r, normal) /\ normal.mode = r.mode
      /\ faster \in Rates /\ Alike(r, faster) /\ faster.mode = r.mode
  BY <1>2, Changed DEF Capacities
<1>4. CASE r.mode = "probing"
  <2>1. CASE x = "ok" /\ ratePause = 0 /\ r.passed + 1 >= 3
    <3>1. s = [normal EXCEPT !.mode = "normal", !.passed = 0, !.recovery = 0, !.retry = 0]
      BY <1>4, <2>1 DEF Rate!Learned, Rate!Probed
    <3> HIDE DEF s, normal
    <3>2. s.mode = "normal" /\ Alike(normal, s)
      BY <1>3, <3>1 DEF Rates, Alike
    <3>3. s \in Rates
      <4>1. s = [phase |-> normal.phase, started |-> normal.started, unsettled |->
                 normal.unsettled, delay |-> normal.delay, capacity |-> normal.capacity, window |->
                 normal.window, errors |-> normal.errors, blocks |-> normal.blocks, owners |->
                 normal.owners, mode |-> "normal", passed |-> 0, recovery |-> 0, retry |-> 0,
                 healthyDelay |-> normal.healthyDelay]
        BY <1>3, <3>1 DEF Rates
      <4>2. /\ normal.phase \in Phases /\ normal.started \in Nat /\ normal.unsettled \in Nat
            /\ normal.delay \in Delays /\ normal.capacity \in Capacities
            /\ normal.window \in [Rate!Kind -> 0..Window] /\ normal.errors \in 0..3 /\ normal.blocks \in 0..3
            /\ normal.owners \in SUBSET Owner /\ normal.healthyDelay \in Delays
        BY <1>3 DEF Rates
      <4> QED BY <4>1, <4>2, PolicyFacts DEF Rates
    <3> QED BY <1>3, <3>2, <3>3 DEF Alike, s
  <2>2. CASE x = "ok" /\ ratePause = 0 /\ ~(r.passed + 1 >= 3)
    <3>1. s = [r EXCEPT !.passed = @ + 1]
      BY <1>4, <2>2 DEF Rate!Learned, Rate!Probed
    <3>2. r.passed + 1 \in 0..2
      BY <1>2, <2>2
    <3> HIDE DEF s
    <3>3. s \in Rates /\ s.capacity = r.capacity /\ Alike(r, s)
      BY <3>1, <3>2 DEF Rates, Alike
    <3> QED BY <1>4, <3>3 DEF s
  <2>3. CASE ~(x = "ok" /\ ratePause = 0)
    BY <1>1, <1>4, <2>3 DEF Rate!Learned
  <2> QED BY <2>1, <2>2, <2>3
<1>5. CASE r.mode = "normal"
  <2>1. CASE ~Rate!FullOf(r.window)
    BY <1>1, <1>5, <2>1 DEF Rate!Learned
  <2>2. CASE Rate!FullOf(r.window) /\ Rate!HealthyWindow(r.window)
    <3>1. s = [faster EXCEPT !.healthyDelay = faster.delay]
      BY <1>5, <2>2 DEF Rate!Learned
    <3> HIDE DEF s, faster
    <3>2. s \in Rates /\ s.mode = "normal" /\ Alike(r, s)
      BY <1>3, <1>5, <3>1 DEF Rates, Alike
    <3> QED BY <3>2 DEF s
  <2>3. CASE Rate!FullOf(r.window) /\ ~Rate!HealthyWindow(r.window)
    <3>1. s = [r EXCEPT !.window = Rate!NoResults] /\ Rate!NoResults \in [Rate!Kind -> 0..Window]
      BY <1>5, <2>3, PolicyFacts DEF Rate!Learned, Rate!NoResults
    <3> HIDE DEF s
    <3>2. s \in Rates /\ s.mode = "normal" /\ Alike(r, s)
      BY <1>5, <3>1 DEF Rates, Alike
    <3> QED BY <3>2 DEF s
  <2> QED BY <2>1, <2>2, <2>3
<1> QED BY <1>4, <1>5 DEF Rates

\* A response to a pilot.
LEMMA PilotedOn ==
  ASSUME NEW r \in Rates, NEW x \in Rate!Outcome, r.phase # "completed", r.mode = "normal"
  PROVE  LET s == Rate!Concluded(Rate!Piloted(r, x))
         IN  /\ s \in Rates /\ s.owners = r.owners /\ s.unsettled = r.unsettled /\ s.mode = "normal"
             /\ s.phase = "completed" => r.unsettled = 0
<1> DEFINE p == Rate!Piloted(r, x)
<1>1. /\ p \in Rates /\ p.owners = r.owners /\ p.unsettled = r.unsettled /\ p.mode = "normal"
      /\ p.phase # "completed"
  <2> DEFINE slow == Rate!Change(r, Rate!Larger(FallbackDelay, 2 * r.delay), 1)
             fast == Rate!Change(r, (r.delay * 7) \div 10, MaxConcurrency)
  <2>1. Rate!Larger(FallbackDelay, 2 * r.delay) \in Int /\ (r.delay * 7) \div 10 \in Int
    BY PolicyFacts DEF Rates, Delays
  <2>2. /\ slow \in Rates /\ Alike(r, slow) /\ slow.mode = "normal"
        /\ fast \in Rates /\ Alike(r, fast) /\ fast.mode = "normal"
    BY <2>1, Changed DEF Capacities
  <2>3. Rate!NoResults \in [Rate!Kind -> 0..Window]
    BY PolicyFacts DEF Rate!NoResults
  <2>4. \/ p = [r EXCEPT !.phase = "aborted"] \/ p = r \/ p = [slow EXCEPT !.errors = 0] \/ p = fast \/ p = slow
        \/ p = [r EXCEPT !.window = Rate!NoResults]
    BY DEF Rate!Piloted
  <2> HIDE DEF p, slow, fast
  <2>5. CASE p = [r EXCEPT !.phase = "aborted"]
    BY <2>5 DEF Rates, Phases
  <2>6. CASE p = [slow EXCEPT !.errors = 0]
    BY <2>2, <2>6 DEF Rates, Alike
  <2>7. CASE p = [r EXCEPT !.window = Rate!NoResults]
    BY <2>3, <2>7 DEF Rates
  <2> QED BY <2>2, <2>4, <2>5, <2>6, <2>7 DEF Alike
<1> HIDE DEF p
<1>2. CASE p.phase = "draining" /\ p.unsettled <= 0
  <2>1. Rate!Concluded(p) = [p EXCEPT !.phase = "completed"] /\ p.unsettled = 0
    BY <1>1, <1>2 DEF Rate!Concluded, Rates
  <2> QED BY <1>1, <2>1 DEF Rates, Phases, p
<1>3. CASE ~(p.phase = "draining" /\ p.unsettled <= 0)
  <2>1. Rate!Concluded(p) = p
    BY <1>3 DEF Rate!Concluded
  <2> QED BY <1>1, <2>1 DEF p
<1> QED BY <1>2, <1>3

\* A response is counted, and its sample is closed.
LEMMA RecordedOnce ==
  ASSUME RInv, NEW o \in rate.owners, NEW x \in Rate!Outcome
  PROVE  LET r == Rate!Recorded(o, x)
         IN  /\ r \in Rates /\ r.phase = rate.phase /\ r.mode = rate.mode /\ r.capacity = rate.capacity
             /\ r.owners = rate.owners \ {o} /\ IsFiniteSet(r.owners)
             /\ r.unsettled = Cardinality(r.owners)
<1> DEFINE rest == rate.owners \ {o}
           n == rate.unsettled - 1
           errors == IF Rate!Error(x) THEN Rate!Smaller(3, rate.errors + 1) ELSE 0
           blocks == IF x = "limited" THEN Rate!Smaller(3, rate.blocks + 1) ELSE 0
           counted == IF Rate!ResultsIn(rate.window) < Window THEN rate.window[Rate!KindOf(x)] + 1
                                                              ELSE rate.window[Rate!KindOf(x)]
           r == Rate!Recorded(o, x)
<1>1. IsFiniteSet(rest) /\ n = Cardinality(rest) /\ n \in Nat /\ rest \in SUBSET Owner
  <2>1. IsFiniteSet(rest) /\ Cardinality(rest) = rate.unsettled - 1
    BY FS_RemoveElement DEF RInv, Settled
  <2>2. Cardinality(rest) \in Nat
    BY <2>1, FS_CardinalityType
  <2> QED BY <2>1, <2>2 DEF RInv, RateTypes, Rates
<1>2. errors \in 0..3 /\ blocks \in 0..3
  <2>1. rate.errors \in 0..3 /\ rate.blocks \in 0..3
    BY DEF RInv, RateTypes, Rates
  <2> QED BY <2>1
<1>3. Rate!KindOf(x) \in Rate!Kind /\ rate.window \in [Rate!Kind -> 0..Window]
  BY DEF Rate!KindOf, Rate!Kind, RInv, RateTypes, Rates
<1>4. counted \in 0..Window
  <2>1. /\ rate.window["healthy"] \in 0..Window /\ rate.window["error"] \in 0..Window
        /\ rate.window["slow"] \in 0..Window /\ rate.window["neutral"] \in 0..Window
    BY <1>3 DEF Rate!Kind
  <2>2. Rate!ResultsIn(rate.window) < Window => rate.window[Rate!KindOf(x)] < Window
    BY <1>3, <2>1, PolicyFacts DEF Rate!Kind, Rate!ResultsIn
  <2>3. rate.window[Rate!KindOf(x)] \in 0..Window
    BY <1>3
  <2> QED BY <2>2, <2>3, PolicyFacts
<1>5. r = [rate EXCEPT !.unsettled = n, !.owners = rest, !.errors = errors, !.blocks = blocks,
                       !.window[Rate!KindOf(x)] = counted]
  BY DEF Rate!Recorded, Rate!Settle, RInv, RateTypes, Rates
<1> DEFINE window == [rate.window EXCEPT ![Rate!KindOf(x)] = counted]
<1>6. window \in [Rate!Kind -> 0..Window]
  <2> HIDE DEF counted
  <2> QED BY <1>3, <1>4
<1>7. r = [rate EXCEPT !.unsettled = n, !.owners = rest, !.errors = errors, !.blocks = blocks, !.window = window]
  BY <1>5
<1> HIDE DEF n, errors, blocks, window, r
<1>8. /\ r \in Rates /\ r.phase = rate.phase /\ r.mode = rate.mode /\ r.capacity = rate.capacity
      /\ r.owners = rest /\ r.unsettled = n
  BY <1>1, <1>2, <1>6, <1>7 DEF RInv, RateTypes, Rates
<1> QED BY <1>1, <1>8 DEF r

\* A sample is admitted, and those whose permits have ended are counted.
LEMMA SampledOnce ==
  ASSUME RInv, NEW o \in Owner, o \notin rate.owners
  PROVE  LET r == Rate!Sampled(rate, o)
         IN  /\ r \in Rates /\ r.mode = rate.mode /\ r.capacity = rate.capacity
             /\ IsFiniteSet(r.owners) /\ r.unsettled = Cardinality(r.owners)
             /\ r.phase = rate.phase \/ (Requests # None /\ r.phase = "draining")
<1> DEFINE open == rate.owners \cap Rate!Running
           owners == open \cup {o}
           ended == Cardinality(rate.owners \ Rate!Running)
           n == IF Rate!Continuous THEN 0 ELSE rate.started + 1
           phase == IF ~Rate!Continuous /\ n >= Requests THEN "draining" ELSE rate.phase
           r == Rate!Sampled(rate, o)
<1>1. /\ IsFiniteSet(open) /\ Cardinality(open) \in Nat /\ ended = rate.unsettled - Cardinality(open)
      /\ ended \in Int /\ owners \in SUBSET Owner
  <2>1. IsFiniteSet(open) /\ ended = rate.unsettled - Cardinality(open)
    BY FS_Difference, FS_Intersection DEF RInv, Settled
  <2>2. Cardinality(open) \in Nat /\ rate.unsettled \in Nat
    BY <2>1, FS_CardinalityType DEF RInv, RateTypes, Rates
  <2> QED BY <2>1, <2>2 DEF RInv, RateTypes, Rates
<1>2. IsFiniteSet(owners) /\ Cardinality(owners) = Cardinality(open) + 1
  BY <1>1, FS_AddElement
<1>3. n \in Nat /\ phase \in Phases /\ rate.unsettled \in Nat
  BY PolicyFacts DEF RInv, RateTypes, Rates, Phases
<1>4. r = [[rate EXCEPT !.unsettled = @ - ended, !.owners = open]
             EXCEPT !.owners = @ \cup {o}, !.unsettled = @ + 1, !.started = n,
                    !.phase = IF ~Rate!Continuous /\ n >= Requests THEN "draining" ELSE @]
  BY SameCount DEF Rate!Sampled, Rate!CountExpired
<1> HIDE DEF ended, n
<1>5. r = [rate EXCEPT !.owners = owners, !.unsettled = (rate.unsettled - ended) + 1, !.started = n, !.phase = phase]
  BY <1>4 DEF RInv, RateTypes, Rates
<1>6. (rate.unsettled - ended) + 1 = Cardinality(owners) /\ Cardinality(owners) \in Nat
  BY <1>1, <1>2, <1>3
<1> HIDE DEF open, owners, r, phase
<1>7. /\ r \in Rates /\ r.mode = rate.mode /\ r.capacity = rate.capacity
      /\ r.owners = owners /\ r.unsettled = Cardinality(owners) /\ r.phase = phase
  BY <1>1, <1>3, <1>5, <1>6 DEF RInv, RateTypes, Rates
<1>8. phase = rate.phase \/ (Requests # None /\ phase = "draining")
  BY DEF phase
<1> QED BY <1>2, <1>7, <1>8 DEF r

LEMMA RateInitially == Rate!Init => RInv
<1> SUFFICES ASSUME Rate!Init PROVE RInv
  OBVIOUS
<1>1. /\ ratePause \in Nat /\ rateLeases = [o \in Owner |-> 0] /\ probes = {} /\ faults = 0
      /\ rate = Rate!Fresh \/ (Requests = None /\ \E d \in {MinDelay, MaxDelay} : rate = Rate!Upgraded(d, ratePause))
  BY PolicyFacts DEF Rate!Init
<1>2. /\ Rate!Fresh \in Rates /\ Rate!Fresh.owners = {} /\ Rate!Fresh.unsettled = 0 /\ Rate!Fresh.mode = "normal"
      /\ Rate!Fresh.phase # "completed" /\ (Requests = None => Rate!Fresh.phase = "continuous")
  BY PolicyFacts DEF Rate!Fresh, Rates, Phases, Delays, Capacities, Rate!NoResults
<1>3. ASSUME NEW d \in {MinDelay, MaxDelay}
      PROVE  LET r == Rate!Upgraded(d, ratePause)
             IN  /\ r \in Rates /\ Alike(Rate!Fresh, r) /\ (r.mode = "probing" => r.capacity = 1)
  <2> DEFINE r == Rate!Upgraded(d, ratePause)
  <2>1. d \in Delays
    BY PolicyFacts DEF Delays
  <2>2. \/ r = [Rate!Fresh EXCEPT !.capacity = 1, !.mode = "probing", !.retry = ratePause]
        \/ r = [Rate!Fresh EXCEPT !.delay = d, !.healthyDelay = d, !.retry = ratePause]
    BY DEF Rate!Upgraded
  <2> HIDE DEF r
  <2>3. CASE r = [Rate!Fresh EXCEPT !.capacity = 1, !.mode = "probing", !.retry = ratePause]
    <3>1. r \in Rates /\ Alike(Rate!Fresh, r) /\ r.capacity = 1
      BY <1>1, <1>2, <2>3 DEF Rates, Alike, Capacities
    <3> QED BY <3>1 DEF r
  <2>4. CASE r = [Rate!Fresh EXCEPT !.delay = d, !.healthyDelay = d, !.retry = ratePause]
    <3>1. r \in Rates /\ Alike(Rate!Fresh, r) /\ r.mode = "normal"
      BY <1>1, <1>2, <2>1, <2>4 DEF Rates, Alike
    <3> QED BY <3>1 DEF r
  <2> QED BY <2>2, <2>3, <2>4
<1>4. /\ rate \in Rates /\ rate.owners = {} /\ rate.unsettled = 0 /\ rate.phase # "completed"
      /\ (Requests = None => rate.phase = "continuous")
      /\ (rate.mode = "probing" => Requests = None /\ rate.capacity = 1)
  <2>1. CASE rate = Rate!Fresh
    BY <1>2, <2>1
  <2>2. ASSUME NEW d \in {MinDelay, MaxDelay}, Requests = None, rate = Rate!Upgraded(d, ratePause)
        PROVE  /\ rate \in Rates /\ Alike(Rate!Fresh, rate) /\ Requests = None
               /\ rate.mode = "probing" => rate.capacity = 1
    <3> DEFINE r == Rate!Upgraded(d, ratePause)
    <3>1. r \in Rates /\ Alike(Rate!Fresh, r) /\ (r.mode = "probing" => r.capacity = 1)
      BY <1>3
    <3> HIDE DEF r
    <3>2. rate = r
      BY <2>2 DEF r
    <3> QED BY <2>2, <3>1, <3>2
  <2> QED BY <1>1, <1>2, <2>1, <2>2 DEF Alike
<1>5. Rate!Running = {} /\ probes \cap Rate!Running = {}
  BY <1>1 DEF Rate!Running
<1>6. IsFiniteSet({}) /\ Cardinality({}) = 0
  BY FS_EmptySet
<1>7. RateTypes
  BY <1>1, <1>4, PolicyFacts DEF RateTypes
<1>8. Settled /\ Careful
  BY <1>4, <1>6 DEF Settled, Careful
<1>9. Alone
  BY <1>5, <1>6 DEF Alone
<1> QED BY <1>7, <1>8, <1>9 DEF RInv

\* Permits that end, and a pause.
LEMMA FewerRunning ==
  ASSUME RInv, rate' = rate \/ (\E n \in Nat : rate' = [rate EXCEPT !.retry = n]), UNCHANGED probes,
         ratePause' \in Nat, rateLeases' \in [Owner -> 0..SampleTtl], faults' \in 0..Faults,
         Rate!Running' \subseteq Rate!Running
  PROVE  RInv'
<1>1. /\ rate' \in Rates /\ Alike(rate, rate') /\ rate'.mode = rate.mode /\ rate'.capacity = rate.capacity
  BY DEF RInv, RateTypes, Rates, Alike
<1>2. RateTypes' /\ Settled' /\ Careful'
  BY <1>1 DEF RInv, RateTypes, Settled, Careful, Alike
<1>3. IsFiniteSet(Rate!Running') /\ IsFiniteSet(probes \cap Rate!Running)
  <2>1. Rate!Running' \in SUBSET Rate!Running
    OBVIOUS
  <2> QED BY <2>1, FS_Subset, FS_Intersection DEF RInv, Alone
<1>4. (probes \cap Rate!Running)' \subseteq probes \cap Rate!Running
  OBVIOUS
<1>5. rate'.mode = "probing" => Cardinality((probes \cap Rate!Running)') <= 1
  BY <1>1, <1>3, <1>4, Fewer DEF RInv, Alone
<1> QED BY <1>2, <1>3, <1>5 DEF RInv, Alone

LEMMA AcquireKeeps ==
  ASSUME RInv, NEW o \in Owner, Rate!Acquire(o)
  PROVE  RInv'
<1>1. /\ rateLeases[o] = 0 /\ o \notin rate.owners /\ Cardinality(Rate!Running) < Rate!Concurrency
      /\ rateLeases' = [rateLeases EXCEPT ![o] = SampleTtl] /\ UNCHANGED <<ratePause, faults>>
      /\ IF Rate!Adaptive THEN rate' = Rate!Sampled(rate, o) /\ probes' = probes \cup {o}
                          ELSE UNCHANGED <<rate, probes>>
  BY SameCount DEF Rate!Acquire
<1>2. Rate!Running' = Rate!Running \cup {o}
  BY <1>1, PolicyFacts DEF RInv, RateTypes, Rate!Running
<1>3. IsFiniteSet(Rate!Running') /\ Cardinality(Rate!Running) \in Nat
  BY <1>2, FS_AddElement, FS_CardinalityType DEF RInv, Alone
<1>4. CASE Rate!Adaptive
  <2>1. /\ rate' \in Rates /\ rate'.mode = rate.mode /\ rate'.capacity = rate.capacity
        /\ IsFiniteSet(rate'.owners) /\ rate'.unsettled = Cardinality(rate'.owners)
        /\ rate'.phase = rate.phase \/ (Requests # None /\ rate'.phase = "draining")
    BY <1>1, <1>4, SampledOnce
  <2>2. rate.phase # "completed"
    BY <1>4 DEF Rate!Adaptive
  <2>3. RateTypes' /\ Settled' /\ Careful'
    BY <1>1, <1>4, <2>1, <2>2, PolicyFacts DEF RInv, RateTypes, Settled, Careful
  <2>4. ASSUME rate.mode = "probing" PROVE Cardinality((probes \cap Rate!Running)') <= 1
    <3>1. Cardinality(Rate!Running) = 0
      BY <1>1, <1>3, <1>4, <2>4 DEF Rate!Concurrency, RInv, Careful
    <3>2. Rate!Running = {}
      BY <3>1, FS_EmptySet DEF RInv, Alone
    <3>3. (probes \cap Rate!Running)' = {o}
      BY <1>1, <1>2, <1>4, <3>2
    <3> QED BY <3>3, FS_Singleton
  <2> QED BY <1>3, <2>1, <2>3, <2>4 DEF RInv, Alone
<1>5. CASE ~Rate!Adaptive
  <2>1. rate' = rate /\ rate.mode # "probing"
    BY <1>1, <1>5 DEF Rate!Adaptive, RInv, Careful
  <2>2. RateTypes' /\ Settled' /\ Careful'
    BY <1>1, <1>5, <2>1, PolicyFacts DEF RInv, RateTypes, Settled, Careful
  <2> QED BY <1>3, <2>1, <2>2 DEF RInv, Alone
<1> QED BY <1>4, <1>5

LEMMA FeedbackKeeps ==
  ASSUME RInv, NEW o \in Owner, NEW x \in Rate!Outcome, Rate!Feedback(o, x)
  PROVE  RInv'
<1> DEFINE r == Rate!Recorded(o, x)
           base == Rate!PauseAfter(r, x)
<1>1. /\ o \in rate.owners /\ (x # "ok" => faults < Faults) /\ faults' = IF x = "ok" THEN faults ELSE faults + 1
      /\ UNCHANGED rateLeases
      /\ IF Requests # None
         THEN /\ rate' = Rate!Concluded(Rate!Piloted(r, x)) /\ UNCHANGED probes
              /\ ratePause' = IF x = "limited" THEN Rate!Larger(ratePause, LongPause) ELSE ratePause
         ELSE IF base > 0
         THEN rate' = Rate!Paused(r, base) /\ ratePause' = Rate!CooldownAfter(r, base) /\ probes' = {}
         ELSE rate' = Rate!Learned(r, x) /\ UNCHANGED <<ratePause, probes>>
  BY DEF Rate!Feedback, Rate!Counts
<1>2. /\ r \in Rates /\ r.phase = rate.phase /\ r.mode = rate.mode /\ r.capacity = rate.capacity
      /\ IsFiniteSet(r.owners) /\ r.unsettled = Cardinality(r.owners)
  BY <1>1, RecordedOnce
<1>3. rate.phase # "completed" /\ base \in {0, ShortPause, LongPause}
  BY <1>1 DEF RInv, Settled, Rate!PauseAfter
<1> HIDE DEF r, base
<1>4. faults' \in 0..Faults /\ UNCHANGED Rate!Running
  BY <1>1, PolicyFacts DEF RInv, RateTypes, Rate!Running
<1>5. SUFFICES /\ rate' \in Rates /\ ratePause' \in Nat /\ probes' \subseteq probes
               /\ rate'.owners = r.owners /\ rate'.unsettled = r.unsettled
               /\ rate'.phase = "completed" => r.owners = {}
               /\ Requests = None => rate'.phase = "continuous"
               /\ rate'.mode = "probing" =>
                    /\ Requests = None /\ rate'.capacity = 1
                    /\ probes' = {} \/ rate.mode = "probing"
  <2>1. RateTypes' /\ Settled' /\ Careful'
    BY <1>1, <1>2, <1>4, <1>5 DEF RInv, RateTypes, Settled, Careful
  <2>2. IsFiniteSet(Rate!Running')
    BY <1>4 DEF RInv, Alone
  <2>3. ASSUME rate'.mode = "probing" PROVE Cardinality((probes \cap Rate!Running)') <= 1
    <3>1. CASE probes' = {}
      <4>1. (probes \cap Rate!Running)' = {}
        BY <3>1
      <4> QED BY <4>1, FS_EmptySet
    <3>2. CASE rate.mode = "probing"
      <4>1. (probes \cap Rate!Running)' \subseteq probes \cap Rate!Running
        BY <1>4, <1>5
      <4>2. IsFiniteSet(probes \cap Rate!Running) /\ Cardinality(probes \cap Rate!Running) <= 1
        BY <3>2, FS_Intersection DEF RInv, Alone
      <4> QED BY <4>1, <4>2, Fewer
    <3> QED BY <1>5, <2>3, <3>1, <3>2
  <2> QED BY <2>1, <2>2, <2>3 DEF RInv, Alone
<1>6. CASE Requests # None
  <2>1. r.mode = "normal"
    BY <1>2, <1>6 DEF RInv, Careful, RateTypes, Rates
  <2>2. /\ rate' \in Rates /\ rate'.owners = r.owners /\ rate'.unsettled = r.unsettled /\ rate'.mode = "normal"
        /\ rate'.phase = "completed" => r.unsettled = 0
    BY <1>1, <1>2, <1>3, <1>6, <2>1, PilotedOn
  <2>3. rate'.phase = "completed" => r.owners = {}
    BY <1>2, <2>2, FS_EmptySet
  <2>4. ratePause' \in Nat /\ probes' = probes
    BY <1>1, <1>6, PolicyFacts DEF RInv, RateTypes
  <2> QED BY <1>6, <2>2, <2>3, <2>4
<1>7. CASE Requests = None /\ base > 0
  <2>1. base \in {ShortPause, LongPause}
    BY <1>3, <1>7
  <2>2. rate' \in Rates /\ Alike(r, rate') /\ rate'.capacity = 1 /\ ratePause' \in Nat /\ probes' = {}
    BY <1>1, <1>2, <1>7, <2>1, PausedOnce, PauseFits DEF RInv
  <2> QED BY <1>2, <1>7, <2>2 DEF Alike, RInv, Careful
<1>8. CASE Requests = None /\ ~(base > 0)
  <2>1. /\ rate' \in Rates /\ Alike(r, rate') /\ UNCHANGED <<ratePause, probes>>
        /\ rate'.mode = "probing" => r.mode = "probing" /\ rate'.capacity = r.capacity
    BY <1>1, <1>2, <1>8, LearnedMore
  <2> QED BY <1>2, <1>8, <2>1 DEF Alike, RInv, Careful, RateTypes
<1> QED BY <1>6, <1>7, <1>8

LEMMA RateKeeps ==
  ASSUME RInv, [Rate!Next]_rateVars
  PROVE  RInv'
<1>1. ASSUME NEW o \in Owner, Rate!Release(o) PROVE RInv'
  <2>1. Rate!Running' \subseteq Rate!Running /\ rateLeases' \in [Owner -> 0..SampleTtl]
    BY <1>1, PolicyFacts DEF Rate!Release, Rate!Running, RInv, RateTypes
  <2> QED BY <1>1, <2>1, FewerRunning DEF Rate!Release, RInv, RateTypes
<1>2. ASSUME NEW o \in Owner, NEW n \in RetryAfter, Rate!Defer(o, n) PROVE RInv'
  <2>1. Rate!Running' \subseteq Rate!Running /\ n \in Nat /\ faults' \in 0..Faults
    BY <1>2, PolicyFacts DEF Rate!Defer, Rate!Running, RInv, RateTypes
  <2> QED BY <1>2, <2>1, FewerRunning DEF Rate!Defer, RInv, RateTypes
<1>3. CASE Rate!Tick
  <2>1. /\ \A o \in Owner : Rate!Larger(0, rateLeases[o] - 1) \in 0..SampleTtl
        /\ \A o \in Owner : rateLeases[o] = 0 => Rate!Larger(0, rateLeases[o] - 1) = 0
        /\ Rate!Larger(0, ratePause - 1) \in Nat /\ Rate!Larger(0, rate.retry - 1) \in Nat
    BY PolicyFacts DEF RInv, RateTypes, Rates
  <2>2. /\ rateLeases' = [o \in Owner |-> Rate!Larger(0, rateLeases[o] - 1)]
        /\ ratePause' = Rate!Larger(0, ratePause - 1)
        /\ rate' = [rate EXCEPT !.retry = Rate!Larger(0, rate.retry - 1)] /\ UNCHANGED <<probes, faults>>
    BY <1>3 DEF Rate!Tick, RInv, RateTypes, Rates
  <2>3. Rate!Running' \subseteq Rate!Running
    BY <2>1, <2>2, PolicyFacts DEF Rate!Running, RInv, RateTypes
  <2>4. \E n \in Nat : rate' = [rate EXCEPT !.retry = n]
    BY <2>1, <2>2
  <2>5. ratePause' \in Nat /\ rateLeases' \in [Owner -> 0..SampleTtl] /\ faults' \in 0..Faults
    BY <2>1, <2>2 DEF RInv, RateTypes
  <2> QED BY <2>2, <2>3, <2>4, <2>5, FewerRunning
<1>4. CASE UNCHANGED rateVars
  BY <1>4, FewerRunning DEF rateVars, RInv, RateTypes, Rate!Running
<1> QED BY <1>1, <1>2, <1>3, <1>4, AcquireKeeps, FeedbackKeeps DEF Rate!Next

LEMMA Probed == RInv => ProbesAlone
<1> SUFFICES ASSUME RInv PROVE ProbesAlone
  OBVIOUS
<1>1. Rate!TypeOK
  BY SameCount DEF RInv, RateTypes, Rates, Phases, Capacities, Delays, Settled, Rate!TypeOK
<1>2. Rate!ProbesAlone
  BY SameCount DEF RInv, Alone, Rate!ProbesAlone
<1> QED BY <1>1, <1>2 DEF ProbesAlone

-----------------------------------------------------------------------------
(* The theorems                                                            *)

LEMMA Steps ==
  ASSUME [PacingNext]_<<part, hostVars, rateVars, dispatchVars, processVars>>
  PROVE  [Rate!Next]_rateVars /\ [Dispatch!Next]_dispatchVars /\ [Processes!Next]_processVars
  BY DEF PacingNext

\* A host that was paused sees one probe at a time until it has recovered, and no sample is
\* counted twice; for any permits, policies, pauses and outcomes.
THEOREM ProbesGoAlone == PacingSpec => []ProbesAlone
<1>1. PacingInit => RInv
  BY RateInitially DEF PacingInit
<1>2. RInv /\ [PacingNext]_<<part, hostVars, rateVars, dispatchVars, processVars>> => RInv'
  BY RateKeeps, Steps
<1> QED BY <1>1, <1>2, Probed, PTL DEF PacingSpec

\* The claims of a task fit its threads, and those of each phase their pool, for any
\* number of threads, archive slots and articles, and whatever peers do meanwhile.
THEOREM PoolsStayBounded == PacingSpec => []PoolsBounded
<1>1. PacingInit => DInv
  BY DispatchInitially DEF PacingInit
<1>2. DInv /\ [PacingNext]_<<part, hostVars, rateVars, dispatchVars, processVars>> => DInv'
  BY DispatchKeeps, Steps
<1> QED BY <1>1, <1>2, Pooled, PTL DEF PacingSpec

\* No more processes and browsers run than there are slots for, hanging children and
\* browsers that outlive them included, for any number of threads and slots.
THEOREM ProcessesStayBounded == PacingSpec => []ProcessesBounded
<1>1. PacingInit => PInv
  BY ProcessesInitially DEF PacingInit
<1>2. PInv /\ [PacingNext]_<<part, hostVars, rateVars, dispatchVars, processVars>> => PInv'
  BY ProcessesKeep, Steps
<1> QED BY <1>1, <1>2, Covered, PTL DEF PacingSpec
=============================================================================
