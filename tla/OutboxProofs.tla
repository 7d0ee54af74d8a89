---------------------------- MODULE OutboxProofs ----------------------------
(***************************************************************************)
(* Safety of Outbox for any number of events and workers and for any       *)
(* combination of disruptions, and that Outbox implements EventQueue.      *)
(***************************************************************************)
EXTENDS Outbox, TLAPS

\* A file is in one directory at a time.
OneDirectory ==
    \A c, d \in Directories : c # d => dir[c] \cap dir[d] = {}

\* Where the file of e is while Enqueue works on it, and afterwards.
EnqueueProgress ==
    \A e \in Events :
        /\ enq[e] = "ok" <=> \E d \in Directories \ {"tmp"} : e \in dir[d]
        /\ enq[e] \in {"opened", "written"} => e \in dir["tmp"]
        /\ enq[e] \in {"written", "ok"} => e \in whole
        /\ enq[e] = "idle" => e \notin dir["tmp"]

\* A failure is recorded while the event is held, and stays with the file.
SidecarPlace == sidecar \subseteq dir["processing"] \cup dir["failed"]

\* The invariant that a step preserves.  ClaimExclusive alone is not
\* inductive: that a second worker cannot claim a held event follows from the
\* file being in processing/ and hence not in pending/.
IInv ==
    /\ TypeOK
    /\ OneDirectory
    /\ EnqueueProgress
    /\ HeldIsProcessing
    /\ ClaimExclusive
    /\ SidecarPlace
    /\ FailureIsFinal

-----------------------------------------------------------------------------
(* Renames *)

\* A rename moves exactly one file, and nothing when that file is not there.
LEMMA RenamedMoves ==
    ASSUME dir \in [Directories -> SUBSET Events], NEW e \in Events,
           NEW from \in Directories, NEW to \in Directories, from # to
    PROVE  /\ Renamed(e, from, to) \in [Directories -> SUBSET Events]
           /\ \A f, d : d \in Directories /\ f # e =>
                 (f \in Renamed(e, from, to)[d] <=> f \in dir[d])
           /\ e \notin dir[from] => Renamed(e, from, to) = dir
           /\ e \in dir[from] =>
                 /\ e \in Renamed(e, from, to)[to]
                 /\ e \notin Renamed(e, from, to)[from]
                 /\ \A d \in Directories \ {from, to} :
                       e \in Renamed(e, from, to)[d] <=> e \in dir[d]
BY DEF Renamed

\* A rename keeps a file in one directory.
LEMMA RenamedKeepsOne ==
    ASSUME dir \in [Directories -> SUBSET Events], OneDirectory,
           NEW e \in Events,
           NEW from \in Directories, NEW to \in Directories, from # to,
           dir' = Renamed(e, from, to)
    PROVE  OneDirectory'
<1>1. SUFFICES ASSUME NEW c \in Directories, NEW d \in Directories, c # d,
                      NEW f, f \in dir'[c], f \in dir'[d]
               PROVE  FALSE
  BY DEF OneDirectory
<1>2. ~(f \in dir[c] /\ f \in dir[d])
  BY <1>1 DEF OneDirectory
<1>3. f = e /\ e \in dir[from]
  BY <1>1, <1>2, RenamedMoves
<1>4. \A x \in Directories : x # from => e \notin dir[x]
  BY <1>3 DEF OneDirectory
<1> QED
  BY <1>1, <1>3, <1>4, RenamedMoves

-----------------------------------------------------------------------------
(* Type correctness *)

LEMMA InitType == Init => TypeOK
BY NoEventAssumption DEF Init, TypeOK, Directories, Holding, Verdicts

\* A rename whose error is ignored leaves well-typed directories.
LEMMA TryRenameType ==
    ASSUME TypeOK, NEW e \in Events, NEW from \in Directories, NEW to \in Directories,
           TryRename(e, from, to)
    PROVE  dir' \in [Directories -> SUBSET Events]
BY DEF TypeOK, TryRename, Renamed

LEMMA TypeStep == TypeOK /\ [Next]_vars => TypeOK'
<1> SUFFICES ASSUME TypeOK, [Next]_vars PROVE TypeOK'
  OBVIOUS
<1> USE NoEventAssumption, OnceAssumption
<1> USE DEF Goto, EndIteration, AfterPoll, producerVars, workerVars, Holding, Verdicts
<1>1. CASE UNCHANGED vars
  BY <1>1 DEF TypeOK, vars
<1>2. ASSUME NEW e \in Events, Enqueuing(e) PROVE TypeOK'
  BY <1>2 DEF TypeOK, Enqueuing, CreateTmp, WriteTmp, Publish, EnqueueError, Renamed, Directories
<1>3. ASSUME NEW w \in Workers, Lifecycle(w) PROVE TypeOK'
  BY <1>3 DEF TypeOK, Lifecycle, Start, Stop, Crash
<1>4. ASSUME NEW w \in Workers, Loop(w) PROVE TypeOK'
  <2>1. CASE Poll(w) \/ PollError(w) \/ NonePending(w) \/ ReadEvent(w)
    BY <2>1 DEF TypeOK, Poll, PollError, NonePending, ReadEvent, Directories
  <2>2. ASSUME NEW e \in Events, Claim(w, e) PROVE TypeOK'
    BY <2>2 DEF TypeOK, Claim, Renamed, Directories
  <2>3. ASSUME NEW e \in Events, Skip(w, e) PROVE TypeOK'
    BY <2>3 DEF TypeOK, Skip
  <2>4. CASE ReadError(w)
    <3>1. dir' \in [Directories -> SUBSET Events]
      BY <2>4, TryRenameType DEF TypeOK, ReadError, Directories
    <3> QED
      BY <2>4, <3>1 DEF TypeOK, ReadError
  <2>5. CASE MarkDone(w)
    <3>1. dir' \in [Directories -> SUBSET Events]
      BY <2>5, TryRenameType DEF TypeOK, MarkDone, Directories
    <3> QED
      BY <2>5, <3>1 DEF TypeOK, MarkDone
  <2>6. CASE Requeue(w)
    <3>1. dir' \in [Directories -> SUBSET Events]
      BY <2>6, TryRenameType DEF TypeOK, Requeue, Directories
    <3> QED
      BY <2>6, <3>1 DEF TypeOK, Requeue
  <2>7. CASE WriteSidecar(w)
    BY <2>7 DEF TypeOK, WriteSidecar
  <2>8. CASE MarkFailed(w)
    <3>1. dir' \in [Directories -> SUBSET Events]
      BY <2>8, TryRenameType DEF TypeOK, MarkFailed, Directories
    <3> QED
      BY <2>8, <3>1 DEF TypeOK, MarkFailed
  <2> QED
    BY <1>4, <2>1, <2>2, <2>3, <2>4, <2>5, <2>6, <2>7, <2>8 DEF Loop
<1>5. ASSUME NEW w \in Workers, NEW verdict \in Verdicts, Return(w, verdict) PROVE TypeOK'
  BY <1>5 DEF TypeOK, Return
<1> QED
  BY <1>1, <1>2, <1>3, <1>4, <1>5 DEF Next

\* Every behaviour of the outbox is well-typed.
THEOREM TypeCorrect == Spec => []TypeOK
BY InitType, TypeStep, PTL DEF Spec

-----------------------------------------------------------------------------
(* The inductive invariant *)

LEMMA InitIInv == Init => IInv
BY InitType, NoEventAssumption
   DEF Init, IInv, OneDirectory, EnqueueProgress, HeldIsProcessing, ClaimExclusive,
       SidecarPlace, FailureIsFinal, Directories

\* The steps of Enqueue touch only files that no worker can see.
LEMMA EnqueuingKeepsIInv ==
    ASSUME IInv, TypeOK', NEW e \in Events, Enqueuing(e)
    PROVE  IInv'
<1> USE DEF producerVars, workerVars
<1>1. OneDirectory'
  BY DEF IInv, TypeOK, OneDirectory, EnqueueProgress, Enqueuing, CreateTmp, WriteTmp, Publish,
         EnqueueError, Renamed, Directories
<1>2. EnqueueProgress'
  BY DEF IInv, TypeOK, OneDirectory, EnqueueProgress, Enqueuing, CreateTmp, WriteTmp, Publish,
         EnqueueError, Renamed, Directories
<1>3. HeldIsProcessing' /\ ClaimExclusive'
  BY DEF IInv, TypeOK, HeldIsProcessing, ClaimExclusive, Enqueuing, CreateTmp, WriteTmp,
         Publish, EnqueueError, Renamed, Directories
<1>4. SidecarPlace'
  BY DEF IInv, TypeOK, OneDirectory, EnqueueProgress, SidecarPlace, Enqueuing, CreateTmp,
         WriteTmp, Publish, EnqueueError, Renamed, Directories
<1>5. FailureIsFinal'
  BY <1>1, <1>3, <1>4 DEF IInv, TypeOK, OneDirectory, SidecarPlace, FailureIsFinal,
         Enqueuing, CreateTmp, WriteTmp, Publish, EnqueueError, Directories
<1> QED
  BY <1>1, <1>2, <1>3, <1>4, <1>5 DEF IInv

\* The steps that leave all files alone and every worker with its event.
LEMMA QuietStepKeepsIInv ==
    ASSUME IInv, TypeOK', NEW w \in Workers, NEW step,
           UNCHANGED <<dir, enq, whole, sidecar, cur>>,
           Goto(w, step), pc[w] # "failing", cur[w] \in sidecar => step = "failing"
    PROVE  IInv'
BY DEF IInv, OneDirectory, EnqueueProgress, HeldIsProcessing, ClaimExclusive,
       SidecarPlace, FailureIsFinal, Goto, TypeOK

\* The steps that end an iteration without touching a file.
LEMMA DroppingKeepsIInv ==
    ASSUME IInv, TypeOK', NEW w \in Workers, NEW step,
           UNCHANGED <<dir, enq, whole, sidecar>>, EndIteration(w, step)
    PROVE  IInv'
BY NoEventAssumption
   DEF IInv, OneDirectory, EnqueueProgress, HeldIsProcessing, ClaimExclusive,
       SidecarPlace, FailureIsFinal, EndIteration, Goto, TypeOK

\* A claim takes a file that no other worker holds: it was in pending/.
LEMMA ClaimKeepsIInv ==
    ASSUME IInv, TypeOK', NEW w \in Workers, NEW e \in Events, Claim(w, e)
    PROVE  IInv'
<1> USE DEF Claim, producerVars
<1>1. e \in dir["pending"] /\ dir' = Renamed(e, "pending", "processing")
  OBVIOUS
<1>2. dir' = [dir EXCEPT !["pending"] = @ \ {e}, !["processing"] = @ \cup {e}]
  BY <1>1 DEF Renamed
<1>3. OneDirectory'
  BY <1>1, RenamedKeepsOne DEF IInv, TypeOK, Directories
<1>4. EnqueueProgress'
  BY <1>2 DEF IInv, TypeOK, EnqueueProgress, Directories
<1>5. \A v \in Workers : cur[v] # e
  BY <1>1 DEF IInv, HeldIsProcessing, OneDirectory, Directories
<1>6. HeldIsProcessing'
  BY <1>2, <1>5 DEF IInv, TypeOK, HeldIsProcessing, Directories
<1>7. ClaimExclusive'
  BY <1>5 DEF IInv, TypeOK, ClaimExclusive
<1>8. e \notin sidecar
  BY <1>1 DEF IInv, FailureIsFinal
<1>9. SidecarPlace' /\ FailureIsFinal'
  BY <1>2, <1>8 DEF IInv, TypeOK, SidecarPlace, FailureIsFinal, Goto, Directories
<1> QED
  BY <1>3, <1>4, <1>6, <1>7, <1>9 DEF IInv

\* The four ways to end an iteration with a rename out of processing/: only
\* the way to failed/ is open to an event with a recorded failure.
LEMMA FinishingKeepsIInv ==
    ASSUME IInv, TypeOK', NEW w \in Workers, NEW step, cur[w] \in Events,
           NEW to \in {"pending", "done", "failed"},
           cur[w] \in sidecar => to = "failed",
           TryRename(cur[w], "processing", to), EndIteration(w, step),
           UNCHANGED <<enq, whole, sidecar>>
    PROVE  IInv'
<1> DEFINE e == cur[w]
<1> USE DEF EndIteration, Goto
<1>1. CASE dir' = dir
  BY <1>1, DroppingKeepsIInv
<1>2. CASE dir' = Renamed(e, "processing", to)
  <2>1. e \in dir["processing"]
    BY DEF IInv, HeldIsProcessing
  <2>2. dir' = [dir EXCEPT !["processing"] = @ \ {e}, ![to] = @ \cup {e}]
    BY <1>2, <2>1 DEF Renamed
  <2>3. OneDirectory'
    BY <1>2, RenamedKeepsOne DEF IInv, TypeOK, Directories
  <2>4. EnqueueProgress'
    BY <2>1, <2>2 DEF IInv, TypeOK, EnqueueProgress, Directories
  <2>5. \A v \in Workers \ {w} : cur[v] # e
    BY DEF IInv, ClaimExclusive
  <2>6. cur' = [cur EXCEPT ![w] = NoEvent]
    OBVIOUS
  <2>7. HeldIsProcessing'
    BY <2>2, <2>5, <2>6, NoEventAssumption DEF IInv, TypeOK, HeldIsProcessing, Directories
  <2>8. ClaimExclusive'
    BY <2>6, NoEventAssumption DEF IInv, TypeOK, ClaimExclusive
  <2>9. SidecarPlace'
    BY <2>2 DEF IInv, TypeOK, SidecarPlace, Directories
  <2>10. FailureIsFinal'
    <3>1. (sidecar \cap (dir["pending"] \cup dir["done"]) = {})'
      BY <2>3, <2>9 DEF OneDirectory, SidecarPlace, Directories
    <3>2. \A v \in Workers : cur'[v] \in sidecar' => pc'[v] = "failing"
      BY <2>6, NoEventAssumption DEF IInv, TypeOK, FailureIsFinal
    <3> QED
      BY <3>1, <3>2 DEF FailureIsFinal
  <2> QED
    BY <2>3, <2>4, <2>7, <2>8, <2>9, <2>10 DEF IInv
<1> QED
  BY <1>1, <1>2 DEF TryRename

\* Recording a failure: the event is held, hence in processing/.
LEMMA WriteSidecarKeepsIInv ==
    ASSUME IInv, TypeOK', NEW w \in Workers, WriteSidecar(w)
    PROVE  IInv'
<1> USE DEF WriteSidecar, Goto, producerVars
<1>1. cur[w] \in Events
  BY DEF IInv, TypeOK, Holding, Verdicts
<1>2. OneDirectory' /\ EnqueueProgress' /\ HeldIsProcessing' /\ ClaimExclusive'
  BY DEF IInv, OneDirectory, EnqueueProgress, HeldIsProcessing, ClaimExclusive
<1>3. SidecarPlace'
  BY <1>1 DEF IInv, HeldIsProcessing, SidecarPlace
<1>4. FailureIsFinal'
  BY <1>1, <1>2, <1>3
     DEF IInv, TypeOK, ClaimExclusive, OneDirectory, SidecarPlace, FailureIsFinal, Directories
<1> QED
  BY <1>2, <1>3, <1>4 DEF IInv

LEMMA StepIInv == IInv /\ [Next]_vars => IInv'
<1> SUFFICES ASSUME IInv, [Next]_vars PROVE IInv'
  OBVIOUS
<1> TypeOK'
  BY TypeStep DEF IInv
<1> USE DEF producerVars, workerVars
<1>1. CASE UNCHANGED vars
  BY <1>1 DEF vars, IInv, OneDirectory, EnqueueProgress, HeldIsProcessing, ClaimExclusive,
              SidecarPlace, FailureIsFinal
<1>2. ASSUME NEW e \in Events, Enqueuing(e) PROVE IInv'
  BY <1>2, EnqueuingKeepsIInv
<1>3. ASSUME NEW w \in Workers, pc[w] \notin Holding,
             Start(w) \/ Stop(w) \/ Poll(w)
      PROVE  IInv'
  <2>1. cur[w] \notin sidecar
    BY <1>3 DEF IInv, TypeOK
  <2> QED
    BY <1>3, <2>1, QuietStepKeepsIInv DEF Start, Stop, Poll, Holding
<1>4. ASSUME NEW w \in Workers, PollError(w) \/ NonePending(w) \/ Crash(w) PROVE IInv'
  BY <1>4, DroppingKeepsIInv DEF PollError, NonePending, Crash
<1>5. ASSUME NEW w \in Workers, NEW e \in Events, Claim(w, e) PROVE IInv'
  BY <1>5, ClaimKeepsIInv
<1>6. ASSUME NEW w \in Workers, NEW e \in Events, Skip(w, e) PROVE IInv'
  BY <1>6 DEF Skip, IInv, OneDirectory, EnqueueProgress, HeldIsProcessing, ClaimExclusive,
              SidecarPlace, FailureIsFinal
<1>7. ASSUME NEW w \in Workers, ReadEvent(w) PROVE IInv'
  <2>1. cur[w] \notin sidecar
    BY <1>7 DEF IInv, FailureIsFinal, ReadEvent
  <2> QED
    BY <1>7, <2>1, QuietStepKeepsIInv DEF ReadEvent
<1>8. ASSUME NEW w \in Workers, NEW verdict \in Verdicts, Return(w, verdict) PROVE IInv'
  <2>1. cur[w] \notin sidecar
    BY <1>8 DEF IInv, FailureIsFinal, Return
  <2> QED
    BY <1>8, <2>1, QuietStepKeepsIInv DEF Return
<1>9. ASSUME NEW w \in Workers, ReadError(w) \/ MarkDone(w) \/ Requeue(w) \/ MarkFailed(w)
      PROVE  IInv'
  <2>1. cur[w] \in Events
    BY <1>9 DEF IInv, TypeOK, Holding, Verdicts, ReadError, MarkDone, Requeue, MarkFailed
  <2>2. cur[w] \in sidecar => pc[w] = "failing"
    BY DEF IInv, FailureIsFinal
  <2>3. CASE ReadError(w)
    BY <2>1, <2>2, <2>3, FinishingKeepsIInv DEF ReadError
  <2>4. CASE MarkDone(w)
    BY <2>1, <2>2, <2>4, FinishingKeepsIInv DEF MarkDone
  <2>5. CASE Requeue(w)
    BY <2>1, <2>2, <2>5, FinishingKeepsIInv DEF Requeue
  <2>6. CASE MarkFailed(w)
    BY <2>1, <2>2, <2>6, FinishingKeepsIInv DEF MarkFailed
  <2> QED
    BY <1>9, <2>3, <2>4, <2>5, <2>6
<1>10. ASSUME NEW w \in Workers, WriteSidecar(w) PROVE IInv'
  BY <1>10, WriteSidecarKeepsIInv
<1>11. \A w \in Workers : Start(w) \/ Stop(w) \/ Poll(w) => pc[w] \notin Holding
  BY DEF Start, Stop, Poll, Holding, Verdicts
<1> QED
  BY <1>1, <1>2, <1>3, <1>4, <1>5, <1>6, <1>7, <1>8, <1>9, <1>10, <1>11
     DEF Next, Lifecycle, Loop

THEOREM Inductive == Spec => []IInv
BY InitIInv, StepIInv, PTL DEF Spec

-----------------------------------------------------------------------------
(* The safety properties *)

\* Two workers never hold the same event, and a held event is in processing/:
\* os.Rename is a sufficient lock (outbox.go:106).
THEOREM ClaimsAreExclusive == Spec => [](ClaimExclusive /\ HeldIsProcessing)
<1>1. IInv => ClaimExclusive /\ HeldIsProcessing
  BY DEF IInv
<1> QED
  BY <1>1, Inductive, PTL

\* So none of the renames that end an iteration can find its source gone.
THEOREM HeldFilesAreThere == Spec => []HeldIsProcessing
BY ClaimsAreExclusive, PTL

\* No worker can see a file whose body has not been written.
THEOREM NeverTorn == Spec => []NoTornEvent
<1>1. IInv => NoTornEvent
  BY DEF IInv, TypeOK, EnqueueProgress, NoTornEvent, Directories
<1> QED
  BY <1>1, Inductive, PTL

\* An accepted event is never lost and never in two places.
THEOREM NothingIsLost == Spec => []AcceptedIsInOnePlace
<1>1. ASSUME IInv PROVE AcceptedIsInOnePlace
  <2> SUFFICES ASSUME NEW e \in Events
               PROVE  LET places == {d \in Directories \ {"tmp"} : e \in dir[d]}
                      IN  IF enq[e] = "ok"
                          THEN \E d \in Directories : places = {d}
                          ELSE places = {}
    BY DEF AcceptedIsInOnePlace
  <2>1. CASE enq[e] # "ok"
    BY <1>1, <2>1 DEF IInv, EnqueueProgress
  <2>2. CASE enq[e] = "ok"
    <3>1. PICK d \in Directories \ {"tmp"} : e \in dir[d]
      BY <1>1, <2>2 DEF IInv, EnqueueProgress
    <3>2. \A c \in Directories : e \in dir[c] => c = d
      BY <1>1, <3>1 DEF IInv, OneDirectory
    <3>3. {c \in Directories \ {"tmp"} : e \in dir[c]} = {d}
      BY <3>1, <3>2
    <3> QED
      BY <2>2, <3>1, <3>3
  <2> QED
    BY <2>1, <2>2
<1> QED
  BY <1>1, Inductive, PTL

\* A recorded failure is the last word on an event.
THEOREM FailuresAreFinal == Spec => []FailureIsFinal
<1>1. IInv => FailureIsFinal
  BY DEF IInv
<1> QED
  BY <1>1, Inductive, PTL

\* Without crashes and I/O errors a claimed file always has its worker: only
\* the holder's own renames take a worker off its event.
LEMMA CleanStep ==
    ASSUME {"crash", "io"} \cap Disruptions = {}
    PROVE  IInv /\ ProcessingIsHeld /\ [Next]_vars => ProcessingIsHeld'
<1> SUFFICES ASSUME IInv, ProcessingIsHeld, [Next]_vars PROVE ProcessingIsHeld'
  OBVIOUS
<1> USE DEF producerVars, workerVars, EndIteration, Goto
<1>1. CASE dir'["processing"] = dir["processing"] /\ UNCHANGED cur
  BY <1>1 DEF ProcessingIsHeld
<1>2. ASSUME NEW e \in Events, Enqueuing(e) PROVE ProcessingIsHeld'
  BY <1>1, <1>2 DEF IInv, TypeOK, Enqueuing, CreateTmp, WriteTmp, Publish, EnqueueError, Renamed,
                    Directories
<1>3. ASSUME NEW w \in Workers, UNCHANGED dir, EndIteration(w, AfterPoll(w)), cur[w] \notin Events
      PROVE  ProcessingIsHeld'
  BY <1>3 DEF IInv, TypeOK, ProcessingIsHeld, Directories
<1>4. ASSUME NEW w \in Workers, NEW e \in Events, Claim(w, e) PROVE ProcessingIsHeld'
  <2>1. dir'["processing"] = dir["processing"] \cup {e}
    BY <1>4 DEF Claim, Renamed, IInv, TypeOK, Directories
  <2>2. cur[w] \notin Events
    BY <1>4 DEF Claim, IInv, TypeOK, Holding, Verdicts
  <2>3. cur' = [cur EXCEPT ![w] = e]
    BY <1>4 DEF Claim
  <2>4. dir["processing"] \subseteq Events
    BY DEF IInv, TypeOK, Directories
  <2> QED
    BY <2>1, <2>2, <2>3, <2>4 DEF ProcessingIsHeld, IInv, TypeOK
<1>5. ASSUME NEW w \in Workers, ReadError(w) \/ MarkDone(w) \/ Requeue(w) \/ MarkFailed(w)
      PROVE  ProcessingIsHeld'
  <2>1. cur[w] \in dir["processing"]
    BY <1>5 DEF ReadError, MarkDone, Requeue, MarkFailed, IInv, TypeOK, HeldIsProcessing, Holding,
                Verdicts
  <2>2. PICK to \in {"pending", "done", "failed"} : TryRename(cur[w], "processing", to)
    BY <1>5 DEF ReadError, MarkDone, Requeue, MarkFailed
  <2>3. dir'["processing"] = dir["processing"] \ {cur[w]}
    BY <2>1, <2>2 DEF TryRename, Renamed, IInv, TypeOK, Directories
  <2>4. cur' = [cur EXCEPT ![w] = NoEvent]
    BY <1>5 DEF ReadError, MarkDone, Requeue, MarkFailed
  <2>5. dir["processing"] \subseteq Events
    BY DEF IInv, TypeOK, Directories
  <2> QED
    BY <2>3, <2>4, <2>5 DEF ProcessingIsHeld, IInv, TypeOK
<1>6. ASSUME NEW w \in Workers, PollError(w) \/ NonePending(w) \/ Crash(w)
      PROVE  ProcessingIsHeld'
  BY <1>3, <1>6 DEF PollError, NonePending, Crash, IInv, TypeOK, Holding, Verdicts
<1>7. ASSUME NEW w \in Workers,
             \/ Start(w) \/ Stop(w) \/ Poll(w) \/ ReadEvent(w) \/ WriteSidecar(w)
             \/ \E e \in Events : Skip(w, e)
             \/ \E verdict \in Verdicts : Return(w, verdict)
      PROVE  ProcessingIsHeld'
  BY <1>1, <1>7 DEF Start, Stop, Poll, ReadEvent, WriteSidecar, Skip, Return
<1> QED
  BY <1>1, <1>2, <1>4, <1>5, <1>6, <1>7 DEF Next, Lifecycle, Loop, vars

\* A clean stop never strands an event (worker.go:69-73 and 96-98).
THEOREM CleanStopsStrandNothing ==
    ASSUME {"crash", "io"} \cap Disruptions = {}
    PROVE  Spec => []ProcessingIsHeld
<1>1. Init => ProcessingIsHeld
  BY DEF Init, ProcessingIsHeld, Directories
<1> QED
  BY <1>1, CleanStep, Inductive, PTL DEF Spec

-----------------------------------------------------------------------------
(* Outbox implements EventQueue *)

StatusMap == [e \in Events |-> Status(e)]
HolderMap == [e \in Events |-> {w \in Workers : cur[w] = e}]

\* The status of an event is read off the one directory that has its file.
LEMMA StatusOf ==
    ASSUME OneDirectory, NEW e
    PROVE  /\ e \in dir["pending"] <=> Status(e) = "queued"
           /\ e \in dir["processing"] <=> Status(e) = "claimed"
           /\ e \in dir["done"] <=> Status(e) = "done"
           /\ e \in dir["failed"] <=> Status(e) = "failed"
           /\ (\A d \in Directories \ {"tmp"} : e \notin dir[d]) <=> Status(e) = "new"
BY DEF OneDirectory, Status, Directories

\* A step that moves no visible file and changes no holder is a stutter.
LEMMA SameFiles ==
    ASSUME \A d \in Directories \ {"tmp"} : dir'[d] = dir[d], UNCHANGED cur
    PROVE  UNCHANGED EQ!vars
BY DEF EQ!vars, Status, Directories

LEMMA InitRefines == Init => EQ!Init
BY NoEventAssumption DEF Init, EQ!Init, Status, Directories

\* The rename in Enqueue publishes the event.
LEMMA PublishRefines ==
    ASSUME IInv, IInv', NEW e \in Events, Publish(e)
    PROVE  EQ!Publish(e)
<1> USE DEF Publish, workerVars
<1>1. e \in dir["tmp"] /\ UNCHANGED cur
  BY DEF IInv, EnqueueProgress
<1>2. dir' = [dir EXCEPT !["tmp"] = @ \ {e}, !["pending"] = @ \cup {e}]
  BY <1>1 DEF Renamed
<1>3. Status(e) = "new"
  BY <1>1 DEF IInv, OneDirectory, Status, Directories
<1>4. Status(e)' = "queued"
  BY <1>2 DEF IInv, TypeOK, OneDirectory, Status, Directories
<1>5. \A f \in Events \ {e} : Status(f)' = Status(f)
  BY <1>2 DEF IInv, TypeOK, Status, Directories
<1>6. StatusMap' = [StatusMap EXCEPT ![e] = "queued"]
  BY <1>4, <1>5 DEF StatusMap
<1>7. HolderMap' = HolderMap
  BY <1>1 DEF HolderMap
<1> QED
  BY <1>3, <1>6, <1>7 DEF EQ!Publish, StatusMap, HolderMap

\* A successful claim makes the worker the one holder.
LEMMA ClaimRefines ==
    ASSUME IInv, IInv', NEW w \in Workers, NEW e \in Events, Claim(w, e)
    PROVE  EQ!Claim(w, e)
<1> USE DEF Claim
<1>1. dir' = [dir EXCEPT !["pending"] = @ \ {e}, !["processing"] = @ \cup {e}]
  BY DEF Renamed
<1>2. Status(e) = "queued"
  BY StatusOf DEF IInv
<1>3. Status(e)' = "claimed"
  BY <1>1 DEF IInv, TypeOK, OneDirectory, Status, Directories
<1>4. \A f \in Events \ {e} : Status(f)' = Status(f)
  BY <1>1 DEF IInv, TypeOK, Status, Directories
<1>5. \A v \in Workers : cur[v] # e
  BY DEF IInv, HeldIsProcessing, OneDirectory, Directories
<1>6. cur[w] \notin Events
  BY DEF IInv, TypeOK, Holding, Verdicts
<1>7. StatusMap' = [StatusMap EXCEPT ![e] = "claimed"]
  BY <1>3, <1>4 DEF StatusMap
<1>8. \A v \in Workers : cur'[v] = IF v = w THEN e ELSE cur[v]
  BY DEF IInv, TypeOK
<1>9. {v \in Workers : cur'[v] = e} = {w}
  BY <1>5, <1>8
<1>10. \A f \in Events \ {e} : {v \in Workers : cur'[v] = f} = {v \in Workers : cur[v] = f}
  BY <1>6, <1>8
<1>11. HolderMap' = [HolderMap EXCEPT ![e] = {w}]
  BY <1>9, <1>10 DEF HolderMap
<1> QED
  BY <1>2, <1>7, <1>11 DEF EQ!Claim, StatusMap, HolderMap

\* Letting go of a held event, with or without a rename, is a release.
LEMMA LettingGoRefines ==
    ASSUME IInv, IInv', NEW w \in Workers, NEW e \in Events, cur[w] = e,
           cur' = [cur EXCEPT ![w] = NoEvent],
           \A f \in Events \ {e} : Status(f)' = Status(f),
           Status(e)' \in {"queued", "done", "failed", "claimed"}
    PROVE  EQ!Next
<1>1. Status(e) = "claimed"
  BY StatusOf DEF IInv, HeldIsProcessing
<1>2. {v \in Workers : cur[v] = e} = {w}
  BY DEF IInv, ClaimExclusive
<1>3. \A v \in Workers : cur'[v] = IF v = w THEN NoEvent ELSE cur[v]
  BY DEF IInv, TypeOK
<1>4. {v \in Workers : cur'[v] = e} = {}
  BY <1>2, <1>3, NoEventAssumption
<1>5. \A f \in Events \ {e} : {v \in Workers : cur'[v] = f} = {v \in Workers : cur[v] = f}
  BY <1>3, NoEventAssumption
<1>6. HolderMap' = [HolderMap EXCEPT ![e] = {}]
  <2>1. \A f \in Events :
           {v \in Workers : cur'[v] = f} = IF f = e THEN {} ELSE {v \in Workers : cur[v] = f}
    BY <1>4, <1>5
  <2> QED
    BY <2>1 DEF HolderMap
<1>7. PICK s \in {"queued", "done", "failed", "claimed"} : s = Status(e)'
  OBVIOUS
<1>8. StatusMap' = [StatusMap EXCEPT ![e] = s]
  BY <1>7 DEF StatusMap
<1>9. EQ!Release(w, e, s)
  BY <1>1, <1>2, <1>6, <1>8 DEF EQ!Release, StatusMap, HolderMap
<1> QED
  BY <1>9 DEF EQ!Next

LEMMA FinishingRefines ==
    ASSUME IInv, IInv', NEW w \in Workers, NEW step, NEW e \in Events, cur[w] = e,
           NEW to \in {"pending", "done", "failed"},
           TryRename(cur[w], "processing", to), EndIteration(w, step)
    PROVE  EQ!Next
<1>1. e \in dir["processing"]
  BY DEF IInv, HeldIsProcessing
<1>2. \/ dir' = dir
      \/ dir' = [dir EXCEPT !["processing"] = @ \ {e}, ![to] = @ \cup {e}]
  BY <1>1 DEF TryRename, Renamed
<1>3. \A f \in Events \ {e} : Status(f)' = Status(f)
  BY <1>2 DEF IInv, TypeOK, Status, Directories
<1>4. e \in dir'["processing"] \/ e \in dir'[to]
  BY <1>1, <1>2 DEF IInv, TypeOK, Directories
<1>5. Status(e)' \in {"queued", "done", "failed", "claimed"}
  BY <1>4 DEF IInv, OneDirectory, Status, Directories
<1> QED
  BY <1>3, <1>5, LettingGoRefines DEF EndIteration

\* Giving up without a rename: a crash, or an iteration that claimed nothing.
LEMMA DroppingRefines ==
    ASSUME IInv, IInv', NEW w \in Workers, NEW step, EndIteration(w, step), UNCHANGED dir
    PROVE  EQ!Next \/ UNCHANGED EQ!vars
<1>1. CASE cur[w] \in Events
  <2>1. PICK e \in Events : cur[w] = e
    BY <1>1
  <2>2. \A f \in Events : Status(f)' = Status(f)
    BY DEF Status
  <2>3. Status(e) = "claimed"
    BY <2>1, StatusOf DEF IInv, HeldIsProcessing
  <2>4. Status(e)' \in {"queued", "done", "failed", "claimed"}
    BY <2>2, <2>3
  <2> QED
    BY <2>1, <2>2, <2>4, LettingGoRefines DEF EndIteration
<1>2. CASE cur[w] \notin Events
  <2>1. cur' = cur
    BY <1>2 DEF IInv, TypeOK, EndIteration
  <2> QED
    BY <2>1, SameFiles
<1> QED
  BY <1>1, <1>2

LEMMA StepRefines == IInv /\ IInv' /\ [Next]_vars => [EQ!Next]_EQ!vars
<1> SUFFICES ASSUME IInv, IInv', [Next]_vars PROVE EQ!Next \/ UNCHANGED EQ!vars
  OBVIOUS
<1>1. CASE UNCHANGED vars
  BY <1>1, SameFiles DEF vars
<1>2. ASSUME NEW e \in Events, CreateTmp(e) \/ WriteTmp(e) \/ EnqueueError(e)
      PROVE  UNCHANGED EQ!vars
  BY <1>2, SameFiles DEF CreateTmp, WriteTmp, EnqueueError, workerVars, IInv, TypeOK, Directories
<1>3. ASSUME NEW e \in Events, Publish(e) PROVE EQ!Next
  BY <1>3, PublishRefines DEF EQ!Next
<1>4. ASSUME NEW w \in Workers, Start(w) \/ Stop(w) \/ Poll(w) \/ ReadEvent(w) \/ WriteSidecar(w)
      PROVE  UNCHANGED EQ!vars
  BY <1>4, SameFiles DEF Start, Stop, Poll, ReadEvent, WriteSidecar
<1>5. ASSUME NEW w \in Workers, NEW e \in Events, Skip(w, e) PROVE UNCHANGED EQ!vars
  BY <1>5, SameFiles DEF Skip
<1>6. ASSUME NEW w \in Workers, NEW verdict \in Verdicts, Return(w, verdict)
      PROVE  UNCHANGED EQ!vars
  BY <1>6, SameFiles DEF Return
<1>7. ASSUME NEW w \in Workers, NEW e \in Events, Claim(w, e) PROVE EQ!Next
  BY <1>7, ClaimRefines DEF EQ!Next
<1>8. ASSUME NEW w \in Workers, PollError(w) \/ NonePending(w) \/ Crash(w)
      PROVE  EQ!Next \/ UNCHANGED EQ!vars
  BY <1>8, DroppingRefines DEF PollError, NonePending, Crash
<1>9. ASSUME NEW w \in Workers, ReadError(w) \/ MarkDone(w) \/ Requeue(w) \/ MarkFailed(w)
      PROVE  EQ!Next
  <2>1. PICK e \in Events : cur[w] = e
    BY <1>9 DEF IInv, TypeOK, Holding, Verdicts, ReadError, MarkDone, Requeue, MarkFailed
  <2> QED
    BY <1>9, <2>1, FinishingRefines DEF ReadError, MarkDone, Requeue, MarkFailed
<1> QED
  BY <1>1, <1>2, <1>3, <1>4, <1>5, <1>6, <1>7, <1>8, <1>9
     DEF Next, Enqueuing, Lifecycle, Loop

\* Directories and renames implement the event queue: one holder at a time,
\* only the holder gives an event up, verdicts are never undone.
THEOREM OutboxIsEventQueue == Spec => ImplementsEventQueue
BY Inductive, InitRefines, StepRefines, PTL DEF Spec, ImplementsEventQueue, EQ!Spec
=============================================================================
