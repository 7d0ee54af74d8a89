------------------------------- MODULE Outbox -------------------------------
(***************************************************************************)
(* The filesystem outbox (outbox/outbox.go) and the worker loop that polls *)
(* it (worker/worker.go), one action per file-system call.                 *)
(*                                                                         *)
(* An event is a file.  os.Rename within the outbox is atomic and is the   *)
(* only thing that moves a file between directories.  The handler that the *)
(* loop calls is abstract here: it returns nil ("done"), ErrRetryLater     *)
(* ("requeue") or another error ("fail").  RiskWorker supplies the real    *)
(* one.                                                                    *)
(***************************************************************************)
EXTENDS Naturals

CONSTANTS
    Events,       \* event files; the order on numbers is the order of names
    Workers,      \* risk-worker processes that share the outbox directory
    NoEvent,      \* cur[w] of a worker that holds no event
    Once,         \* the workers that run with --once
    Disruptions   \* what the environment may do: "stop", "crash", "io"

ASSUME EventsAssumption == Events \subseteq Nat
ASSUME NoEventAssumption == NoEvent \notin Events
ASSUME OnceAssumption == Once \subseteq Workers

VARIABLES
    dir,        \* dir[d]: the events whose file is in directory d
    whole,      \* events whose file has its complete JSON body
    enq,        \* enq[e]: how far the Enqueue call for e has got
    sidecar,    \* events with an .err.txt file in failed/
    pc,         \* pc[w]: the next step of worker w
    cur,        \* cur[w]: the event w has claimed
    listing     \* listing[w]: what ReadDir returned and w has not tried yet

producerVars == <<enq, whole>>
workerVars == <<pc, cur, listing>>
vars == <<dir, whole, enq, sidecar, pc, cur, listing>>

\* pending/ID.tmp and pending/ID.json are two names in one directory: "tmp"
\* stands for the first, which ClaimOne skips.
Directories == {"tmp", "pending", "processing", "done", "failed"}
Verdicts == {"done", "requeue", "fail"}
Holding == {"claimed", "handling", "failing"} \cup Verdicts

\* One type invariant for the outbox and the loop: directories hold events,
\* a worker has a current event exactly while it is between a successful
\* claim and the rename that ends it.
TypeOK ==
    /\ dir \in [Directories -> SUBSET Events]
    /\ whole \subseteq Events
    /\ enq \in [Events -> {"idle", "opened", "written", "ok", "error"}]
    /\ sidecar \subseteq Events
    /\ pc \in [Workers -> {"down", "idle", "scanning"} \cup Holding]
    /\ cur \in [Workers -> Events \cup {NoEvent}]
    /\ listing \in [Workers -> SUBSET Events]
    /\ \A w \in Workers : cur[w] \in Events <=> pc[w] \in Holding

Init ==
    /\ dir = [d \in Directories |-> {}]
    /\ whole = {}
    /\ enq = [e \in Events |-> "idle"]
    /\ sidecar = {}
    /\ pc = [w \in Workers |-> "down"]
    /\ cur = [w \in Workers |-> NoEvent]
    /\ listing = [w \in Workers |-> {}]

-----------------------------------------------------------------------------
(* Files *)

\* Seeded fault: the source is not removed (copy, or link without unlink).
RenamedAsCopy(e, from, to) ==
    IF e \in dir[from] THEN [dir EXCEPT ![to] = @ \cup {e}] ELSE dir

\* os.Rename: nothing happens when the source is not there.
Renamed(e, from, to) ==
    IF e \in dir[from]
    THEN [dir EXCEPT ![from] = @ \ {e}, ![to] = @ \cup {e}]
    ELSE dir

\* A rename whose error the caller ignores.
TryRename(e, from, to) ==
    \/ dir' = Renamed(e, from, to)
    \/ "io" \in Disruptions /\ dir' = dir

-----------------------------------------------------------------------------
(* Enqueue: write ID.tmp, then rename it to ID.json.  The caller may stop  *)
(* for ever between any two steps.                                         *)

CreateTmp(e) ==
    /\ enq[e] = "idle"
    /\ enq' = [enq EXCEPT ![e] = "opened"]
    /\ dir' = [dir EXCEPT !["tmp"] = @ \cup {e}]
    /\ UNCHANGED <<whole, sidecar, workerVars>>

WriteTmp(e) ==
    /\ enq[e] = "opened"
    /\ enq' = [enq EXCEPT ![e] = "written"]
    /\ whole' = whole \cup {e}
    /\ UNCHANGED <<dir, sidecar, workerVars>>

\* Seeded fault: the file is given its final name before its body is written.
PublishEarly(e) ==
    /\ enq[e] = "opened"
    /\ enq' = [enq EXCEPT ![e] = "ok"]
    /\ dir' = Renamed(e, "tmp", "pending")
    /\ UNCHANGED <<whole, sidecar, workerVars>>

Publish(e) ==
    /\ enq[e] = "written"
    /\ enq' = [enq EXCEPT ![e] = "ok"]
    /\ dir' = Renamed(e, "tmp", "pending")
    /\ UNCHANGED <<whole, sidecar, workerVars>>

\* Ensure or WriteFile fails, the latter leaving a partial ID.tmp behind, or
\* the rename fails and ID.tmp is removed.  (The ErrExist and Stat fallbacks
\* need an ID.json of the same name; IDs carry a nanosecond clock.)
EnqueueError(e) ==
    /\ "io" \in Disruptions
    /\ enq[e] \in {"idle", "opened", "written"}
    /\ enq' = [enq EXCEPT ![e] = "error"]
    /\ dir' = IF enq[e] = "written"
              THEN [dir EXCEPT !["tmp"] = @ \ {e}]
              ELSE dir
    /\ UNCHANGED <<whole, sidecar, workerVars>>

-----------------------------------------------------------------------------
(* The worker loop *)

Goto(w, step) == pc' = [pc EXCEPT ![w] = step]

\* Run polls again after the tick; runOnce returns and the process exits.
AfterPoll(w) == IF w \in Once THEN "down" ELSE "idle"

\* Seeded fault: the finished event is still the current one.
EndIterationKeepsEvent(w, step) ==
    /\ Goto(w, step)
    /\ listing' = [listing EXCEPT ![w] = {}]
    /\ UNCHANGED cur

\* The end of an iteration: whatever ClaimOne returned goes out of scope.
EndIteration(w, step) ==
    /\ Goto(w, step)
    /\ cur' = [cur EXCEPT ![w] = NoEvent]
    /\ listing' = [listing EXCEPT ![w] = {}]

\* Seeded fault: a starting worker requeues all of processing/, abandoned or
\* not.
StartWithSweep(w) ==
    /\ pc[w] = "down"
    /\ Goto(w, "idle")
    /\ dir' = [dir EXCEPT !["pending"] = @ \cup dir["processing"], !["processing"] = {}]
    /\ UNCHANGED <<producerVars, sidecar, cur, listing>>

Start(w) ==
    /\ pc[w] = "down"
    /\ Goto(w, "idle")
    /\ UNCHANGED <<dir, producerVars, sidecar, cur, listing>>

\* Seeded fault: a stop ends the process in the middle of an event.
StopAtOnce(w) ==
    /\ "stop" \in Disruptions
    /\ w \notin Once
    /\ pc[w] # "down"
    /\ EndIteration(w, "down")
    /\ UNCHANGED <<dir, producerVars, sidecar>>

\* ctx.Done() between two iterations.  The handler never looks at ctx.
Stop(w) ==
    /\ "stop" \in Disruptions
    /\ w \notin Once
    /\ pc[w] = "idle"
    /\ Goto(w, "down")
    /\ UNCHANGED <<dir, producerVars, sidecar, cur, listing>>

\* os.ReadDir(pending): a snapshot, sorted by name, that may be stale by the
\* time an entry is tried.
Poll(w) ==
    /\ pc[w] = "idle"
    /\ Goto(w, "scanning")
    /\ listing' = [listing EXCEPT ![w] = dir["pending"]]
    /\ UNCHANGED <<dir, producerVars, sidecar, cur>>

PollError(w) ==
    /\ "io" \in Disruptions
    /\ pc[w] = "idle"
    /\ EndIteration(w, AfterPoll(w))
    /\ UNCHANGED <<dir, producerVars, sidecar>>

First(w, e) ==
    /\ e \in listing[w]
    /\ \A f \in listing[w] : e <= f

\* Seeded fault: the error of the claiming rename is ignored.
ClaimUnchecked(w, e) ==
    /\ pc[w] = "scanning"
    /\ First(w, e)
    /\ dir' = Renamed(e, "pending", "processing")
    /\ cur' = [cur EXCEPT ![w] = e]
    /\ listing' = [listing EXCEPT ![w] = @ \ {e}]
    /\ Goto(w, "claimed")
    /\ UNCHANGED <<producerVars, sidecar>>

\* "atomic claim: if rename succeeds, we own it"
Claim(w, e) ==
    /\ pc[w] = "scanning"
    /\ First(w, e)
    /\ e \in dir["pending"]
    /\ dir' = Renamed(e, "pending", "processing")
    /\ cur' = [cur EXCEPT ![w] = e]
    /\ listing' = [listing EXCEPT ![w] = @ \ {e}]
    /\ Goto(w, "claimed")
    /\ UNCHANGED <<producerVars, sidecar>>

\* The rename failed, as a rule because another worker was faster: continue
\* with the next entry.
Skip(w, e) ==
    /\ pc[w] = "scanning"
    /\ First(w, e)
    /\ e \notin dir["pending"] \/ "io" \in Disruptions
    /\ listing' = [listing EXCEPT ![w] = @ \ {e}]
    /\ UNCHANGED <<dir, producerVars, sidecar, pc, cur>>

\* ErrNoPending
NonePending(w) ==
    /\ pc[w] = "scanning"
    /\ listing[w] = {}
    /\ EndIteration(w, AfterPoll(w))
    /\ UNCHANGED <<dir, producerVars, sidecar>>

ReadEvent(w) ==
    /\ pc[w] = "claimed"
    /\ cur[w] \in whole
    /\ Goto(w, "handling")
    /\ UNCHANGED <<dir, producerVars, sidecar, cur, listing>>

\* ReadFile or Unmarshal fails: the file goes to failed/ with no .err.txt.
ReadError(w) ==
    /\ pc[w] = "claimed"
    /\ cur[w] \notin whole \/ "io" \in Disruptions
    /\ TryRename(cur[w], "processing", "failed")
    /\ EndIteration(w, AfterPoll(w))
    /\ UNCHANGED <<producerVars, sidecar>>

\* The handler returns.
Return(w, verdict) ==
    /\ pc[w] = "handling"
    /\ Goto(w, verdict)
    /\ UNCHANGED <<dir, producerVars, sidecar, cur, listing>>

MarkDone(w) ==
    /\ pc[w] = "done"
    /\ TryRename(cur[w], "processing", "done")
    /\ EndIteration(w, AfterPoll(w))
    /\ UNCHANGED <<producerVars, sidecar>>

Requeue(w) ==
    /\ pc[w] = "requeue"
    /\ TryRename(cur[w], "processing", "pending")
    /\ EndIteration(w, AfterPoll(w))
    /\ UNCHANGED <<producerVars, sidecar>>

\* Seeded fault: the rename comes first and the .err.txt second.
RenameBeforeSidecar(w) ==
    /\ pc[w] = "fail"
    /\ TryRename(cur[w], "processing", "failed")
    /\ Goto(w, "failing")
    /\ UNCHANGED <<producerVars, sidecar, cur, listing>>

\* MarkFailed writes the .err.txt first, ignoring errors, then renames.
WriteSidecar(w) ==
    /\ pc[w] = "fail"
    /\ \/ sidecar' = sidecar \cup {cur[w]}
       \/ "io" \in Disruptions /\ sidecar' = sidecar
    /\ Goto(w, "failing")
    /\ UNCHANGED <<dir, producerVars, cur, listing>>

\* Seeded fault: a failed event is put back for another try.
MarkFailedRetries(w) ==
    /\ pc[w] = "failing"
    /\ TryRename(cur[w], "processing", "pending")
    /\ EndIteration(w, AfterPoll(w))
    /\ UNCHANGED <<producerVars, sidecar>>

MarkFailed(w) ==
    /\ pc[w] = "failing"
    /\ TryRename(cur[w], "processing", "failed")
    /\ EndIteration(w, AfterPoll(w))
    /\ UNCHANGED <<producerVars, sidecar>>

\* The process dies; its claimed file stays where it is.
Crash(w) ==
    /\ "crash" \in Disruptions
    /\ pc[w] # "down"
    /\ EndIteration(w, "down")
    /\ UNCHANGED <<dir, producerVars, sidecar>>

-----------------------------------------------------------------------------
Enqueuing(e) == CreateTmp(e) \/ WriteTmp(e) \/ Publish(e) \/ EnqueueError(e)

\* The loop itself: every step of a worker but the handler's return.
Loop(w) ==
    \/ Poll(w) \/ PollError(w) \/ NonePending(w)
    \/ \E e \in Events : Claim(w, e) \/ Skip(w, e)
    \/ ReadEvent(w) \/ ReadError(w)
    \/ MarkDone(w) \/ Requeue(w) \/ WriteSidecar(w) \/ MarkFailed(w)

Lifecycle(w) == Start(w) \/ Stop(w) \/ Crash(w)

Next ==
    \/ \E e \in Events : Enqueuing(e)
    \/ \E w \in Workers :
          \/ Lifecycle(w)
          \/ Loop(w)
          \/ \E verdict \in Verdicts : Return(w, verdict)

Spec == Init /\ [][Next]_vars

-----------------------------------------------------------------------------
(* Properties *)

\* Two workers never hold the same event, although both may have listed it:
\* the claim is decided by the rename alone (outbox.go:106).
ClaimExclusive ==
    \A v, w \in Workers : cur[v] = cur[w] /\ cur[v] \in Events => v = w

\* A worker's event is in processing/ for as long as it holds it, so none of
\* the renames that end an iteration can find its source gone.
HeldIsProcessing == \A w \in Workers : cur[w] \in Events => cur[w] \in dir["processing"]

\* Every event that Enqueue accepted is in exactly one of the four
\* directories, through claims, retries, crashes and failed renames; one it
\* did not accept is in none of them.
AcceptedIsInOnePlace ==
    \A e \in Events :
        LET places == {d \in Directories \ {"tmp"} : e \in dir[d]}
        IN  IF enq[e] = "ok"
            THEN \E d \in Directories : places = {d}
            ELSE places = {}

\* The write-then-rename in Enqueue: a file that a worker can see has its
\* whole body, however the producer is interleaved or dies.
NoTornEvent == dir["pending"] \cup dir["processing"] \subseteq whole

\* Once a failure has been recorded for an event, no worker handles it again
\* and it is not reported done, even if the rename to failed/ is lost.
FailureIsFinal ==
    /\ sidecar \cap (dir["pending"] \cup dir["done"]) = {}
    /\ \A w \in Workers : cur[w] \in sidecar => pc[w] = "failing"

\* With no crash and no I/O error, whatever is in processing/ has a worker:
\* neither a clean stop (worker.go:69-73 and 96-98 look at ctx only between
\* iterations) nor the end of a process with --once strands a claimed event.
ProcessingIsHeld ==
    \A e \in dir["processing"] : \E w \in Workers : cur[w] = e

-----------------------------------------------------------------------------
(* The outbox implements the event queue. *)

Status(e) ==
    CASE e \in dir["pending"] -> "queued"
      [] e \in dir["processing"] -> "claimed"
      [] e \in dir["done"] -> "done"
      [] e \in dir["failed"] -> "failed"
      [] OTHER -> "new"

EQ == INSTANCE EventQueue WITH
    status <- [e \in Events |-> Status(e)],
    holders <- [e \in Events |-> {w \in Workers : cur[w] = e}]

\* Directories and renames behave like the abstract queue: one holder at a
\* time, only the holder gives an event up, verdicts are never undone.
ImplementsEventQueue == EQ!Spec
=============================================================================
