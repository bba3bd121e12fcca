------------------------------ MODULE Isolation ------------------------------
(* Extraction and rendering in short-lived processes (crawler/isolation.py)*)
(* with a narrower pool for browsers, a watchdog thread per process, and a *)
(* main thread that may be blocked: in the approval of a browser's request,*)
(* or in reading a line that the child has not finished.                   *)
(*                                                                         *)
(* A process group is its direct child and the child's own processes       *)
(* (Chromium), which may outlive it.  Process ids are not used again here, *)
(* and a killed process ends at once.                                      *)
EXTENDS Naturals, FiniteSets

CONSTANTS
  Thread,   \* fetch threads of one worker
  Heavy,    \* HEAVY_SLOT
  Browser   \* BROWSER_SLOT

SlotAssumption == Heavy \in Nat \ {0} /\ Browser \in Nat \ {0}

VARIABLES
  task,    \* [Thread -> [at, kind]]: run_task's main thread
  child,   \* [Thread -> its direct child]
  others,  \* threads whose child has started other processes that still run
  watch    \* [Thread -> its watchdog]; flagged: failure is set; signaled: the group was killed
vars == <<task, child, others, watch>>

Kind == {"extract", "render"}
Alive(t) == child[t] \in {"working", "asking", "stuck"}
Running(t) == task[t].at \notin {"idle", "queued"}

\* A queued browser has its narrower slot only.
HeavyFree == Cardinality({t \in Thread : Running(t)}) < Heavy
BrowserFree ==
  Cardinality({t \in Thread : task[t].at # "idle" /\ task[t].kind = "render"}) < Browser

Init ==
  /\ task = [t \in Thread |-> [at |-> "idle", kind |-> "extract"]]
  /\ child = [t \in Thread |-> "none"] /\ others = {} /\ watch = [t \in Thread |-> "done"]

-----------------------------------------------------------------------------
(* The main thread                                                         *)

Go(t, at) == task' = [task EXCEPT ![t].at = at]

Launch(t, k) ==
  /\ task' = [task EXCEPT ![t] = [at |-> "polling", kind |-> k]]
  /\ child' = [child EXCEPT ![t] = "working"] /\ watch' = [watch EXCEPT ![t] = "watching"]
  /\ UNCHANGED others

Extract(t) == task[t].at = "idle" /\ HeavyFree /\ Launch(t, "extract")

QueueRender(t) ==
  /\ task[t].at = "idle" /\ BrowserFree
  /\ task' = [task EXCEPT ![t] = [at |-> "queued", kind |-> "render"]]
  /\ UNCHANGED <<child, others, watch>>

Render(t) == task[t].at = "queued" /\ HeavyFree /\ Launch(t, "render")

\* The process cannot be started: the slots are given back.
CannotStart(t) ==
  /\ task[t].at = "queued" /\ HeavyFree
  /\ Go(t, "idle") /\ UNCHANGED <<child, others, watch>>

Failed(t) == watch[t] \in {"flagged", "signaled"}

\* A message, or the beginning of one.
Read(t) ==
  /\ task[t].at = "polling" /\ child[t] \in {"asking", "stuck"}
  /\ Go(t, IF child[t] = "asking" THEN "answering" ELSE "reading")
  /\ UNCHANGED <<child, others, watch>>

\* A killed child's line ends.
ReadEnds(t) ==
  /\ task[t].at = "reading" /\ ~Alive(t)
  /\ Go(t, "polling") /\ UNCHANGED <<child, others, watch>>

\* authorize returns, perhaps much later; a broken pipe ends the loop like a failure.
Answer(t) ==
  /\ task[t].at = "answering"
  /\ IF Failed(t) \/ ~Alive(t)
       THEN Go(t, "closing") /\ UNCHANGED child
       ELSE Go(t, "polling") /\ child' = [child EXCEPT ![t] = "working"]
  /\ UNCHANGED <<others, watch>>

\* The loop is left: the child has exited, or the watchdog has spoken.
Leave(t) ==
  /\ task[t].at = "polling" /\ (~Alive(t) \/ Failed(t))
  /\ Go(t, "closing") /\ UNCHANGED <<child, others, watch>>

\* The message is none that a child may send, or the report of a response fails.
Reject(t) ==
  /\ task[t].at = "polling" /\ child[t] = "asking"
  /\ Go(t, "closing") /\ UNCHANGED <<child, others, watch>>

\* finished.set(), and the watchdog is joined.
Join(t) ==
  /\ task[t].at = "closing" /\ watch[t] \in {"signaled", "done"}
  /\ Go(t, "stopping") /\ UNCHANGED <<child, others, watch>>

\* Faulty variant: the direct child alone is killed.
KillChild(t) == child' = [child EXCEPT ![t] = "none"] /\ UNCHANGED others
KillGroup(t) == child' = [child EXCEPT ![t] = "none"] /\ others' = others \ {t}

\* stop: the group is killed even when the direct child has exited, unless the watchdog
\* did it; then the slots are given back.
Stop(t) ==
  /\ task[t].at = "stopping"
  /\ IF watch[t] = "signaled" THEN UNCHANGED <<child, others>> ELSE KillGroup(t)
  /\ Go(t, "idle") /\ UNCHANGED watch

-----------------------------------------------------------------------------
(* The watchdog.  Its look at finished and at the child may be a moment    *)
(* old when it finds the limit exceeded.                                   *)

\* Faulty variant: the limits are checked by the main thread, in its loop.
FlagInLoop(t) ==
  /\ watch[t] = "watching" /\ task[t].at = "polling"
  /\ watch' = [watch EXCEPT ![t] = "flagged"] /\ UNCHANGED <<task, child, others>>
\* The time limit, or memory pressure at any time before it.
Flag(t) ==
  /\ watch[t] = "watching"
  /\ watch' = [watch EXCEPT ![t] = "flagged"] /\ UNCHANGED <<task, child, others>>

Kill(t) ==
  /\ watch[t] = "flagged"
  /\ watch' = [watch EXCEPT ![t] = "signaled"] /\ KillGroup(t) /\ UNCHANGED task

WatchEnds(t) ==
  /\ watch[t] = "watching" /\ (task[t].at = "closing" \/ ~Alive(t))
  /\ watch' = [watch EXCEPT ![t] = "done"] /\ UNCHANGED <<task, child, others>>

-----------------------------------------------------------------------------
(* The child, which may do its work, hang, or be killed for its memory     *)

Fork(t) ==
  /\ child[t] = "working" /\ task[t].kind = "render"
  /\ others' = others \cup {t} /\ UNCHANGED <<task, child, watch>>

\* A request to be approved, a response to be reported, or a part of a line.
Ask(t) ==
  /\ child[t] = "working" /\ task[t].kind = "render"
  /\ \E c \in {"asking", "stuck"} : child' = [child EXCEPT ![t] = c]
  /\ UNCHANGED <<task, others, watch>>

\* The child exits, with its browser or without.
Exit(t) ==
  /\ Alive(t) /\ child' = [child EXCEPT ![t] = "none"]
  /\ others' \in {others, others \ {t}} /\ UNCHANGED <<task, watch>>

Main(t) == Read(t) \/ ReadEnds(t) \/ Answer(t) \/ Leave(t) \/ Join(t) \/ Stop(t)
Next ==
  \E t \in Thread :
    \/ Extract(t) \/ QueueRender(t) \/ Render(t) \/ CannotStart(t)
    \/ Main(t) \/ Reject(t)
    \/ Flag(t) \/ Kill(t) \/ WatchEnds(t) \/ Fork(t) \/ Ask(t) \/ Exit(t)
Spec == Init /\ [][Next]_vars

-----------------------------------------------------------------------------
(* Properties                                                              *)

TypeOK ==
  /\ task \in [Thread -> [at : {"idle", "queued", "polling", "reading", "answering", "closing",
                                "stopping"}, kind : Kind]]
  /\ child \in [Thread -> {"none", "working", "asking", "stuck"}] /\ others \subseteq Thread
  /\ watch \in [Thread -> {"watching", "flagged", "signaled", "done"}]

\* The slots bound what really runs, browsers left behind by a child that was killed for
\* its memory included: "Killing a process group also stops Chromium".
ProcessesBounded ==
  LET running == {t \in Thread : Alive(t) \/ t \in others}
  IN /\ Cardinality(running) <= Heavy
     /\ Cardinality({t \in running : task[t].kind = "render"}) <= Browser

\* A task that has its process gives its slots back, although the child may hang in the
\* middle of a line, or ask for a request again and again.
SlotsReturned == \A t \in Thread : Running(t) ~> ~Running(t)
=============================================================================
