-------------------------- MODULE RiskWorkerProofs --------------------------
(***************************************************************************)
(* RiskWorker for any number of events, workers, matches and players and   *)
(* for any combination of disruptions: the handler respects the outbox, so *)
(* that everything proved of Outbox holds of the whole system, and no      *)
(* event is retired before its match is marked and in the ledger.          *)
(***************************************************************************)
EXTENDS RiskWorker, OutboxProofs

-----------------------------------------------------------------------------
(* The worker implements the outbox *)

\* A handler step leaves the outbox alone or returns a verdict to the loop.
LEMMA HandlerStep ==
    ASSUME NEW w \in Workers, Handler(w)
    PROVE  UNCHANGED vars \/ \E verdict \in Verdicts : Return(w, verdict)
BY DEF Handler, CheckGrace, CheckApplied, LoadTelemetry, LoadPlayer, Truncate, Write,
       AppendLedger, MarkApplied, Continue, HandlerReturns, Verdicts

LEMMA StepIsOutboxStep == [WorkerNext]_allVars => [Next]_vars
<1> SUFFICES ASSUME [WorkerNext]_allVars PROVE Next \/ UNCHANGED vars
  OBVIOUS
<1>1. CASE UNCHANGED allVars
  BY <1>1 DEF allVars
<1>2. ASSUME NEW e \in Events, Ingest(e) \/ Age(e) PROVE UNCHANGED vars
  BY <1>2 DEF Ingest, Age
<1>3. ASSUME NEW e \in Events, Enqueue(e) PROVE Next
  BY <1>3 DEF Enqueue, Next
<1>4. ASSUME NEW w \in Workers, ProcessStep(w) \/ LoopStep(w) PROVE Next
  BY <1>4 DEF ProcessStep, LoopStep, Next
<1>5. ASSUME NEW w \in Workers, Handler(w) PROVE Next \/ UNCHANGED vars
  BY <1>5, HandlerStep DEF Next
<1> QED
  BY <1>1, <1>2, <1>3, <1>4, <1>5 DEF WorkerNext

\* Seen from the outbox the handler only ever returns a verdict.
THEOREM WorkerIsOutbox == WorkerSpec => ImplementsOutbox
<1>1. WorkerInit => Init
  BY DEF WorkerInit
<1> QED
  BY <1>1, StepIsOutboxStep, PTL DEF WorkerSpec, ImplementsOutbox, Spec

\* Hence the whole system keeps the promise of the event queue.
THEOREM WorkerIsEventQueue == WorkerSpec => ImplementsEventQueue
BY WorkerIsOutbox, OutboxIsEventQueue, PTL DEF ImplementsOutbox

LEMMA WorkerKeepsIInv == WorkerSpec => []IInv
BY WorkerIsOutbox, Inductive, PTL DEF ImplementsOutbox

-----------------------------------------------------------------------------
(* Type correctness *)

LEMMA LinesType ==
    ASSUME NEW f \in Seq(TS!Fragment)
    PROVE  TS!Lines(f) \in Seq(Events)
<1>1. Len(f) \in Nat /\ Len(f) \div 2 \in Nat
  OBVIOUS
<1>2. \A n \in Nat : \A i \in 1..(n \div 2) : 2 * i \in 1..n
  OBVIOUS
<1>3. \A i \in 1..(Len(f) \div 2) : f[2 * i].of \in Events
  <2> SUFFICES ASSUME NEW i \in 1..(Len(f) \div 2) PROVE f[2 * i].of \in Events
    OBVIOUS
  <2>1. f[2 * i] \in TS!Fragment
    BY <1>1, <1>2
  <2> QED
    BY <2>1 DEF TS!Fragment
<1> QED
  BY <1>1, <1>3 DEF TS!Lines

LEMMA WorkerInitType == WorkerInit => WorkerTypeOK
BY InitType, MatchOfAssumption, GraceAssumption, PlayersOfAssumption
   DEF WorkerInit, WorkerTypeOK, TS!Init, TS!TypeOK, TS!Fragment, Idle, Steps, NoLines,
       Bag, PlayerFile, Line

\* A submission appends one fragment to the file of its match, or none.
LEMMA SubmitType ==
    ASSUME TS!TypeOK, NEW e \in Events, TS!Submit(e)
    PROVE  TS!TypeOK'
<1>1. MatchOf[e] \in Matches
  BY MatchOfAssumption
<1>2. ASSUME NEW part \in TS!Parts, TS!WriteFragment(e, part)
      PROVE  sink' \in [Matches -> Seq(TS!Fragment)]
  <2>1. [of |-> e, part |-> part] \in TS!Fragment
    BY <1>2 DEF TS!Fragment
  <2>2. Append(sink[MatchOf[e]], [of |-> e, part |-> part]) \in Seq(TS!Fragment)
    BY <1>1, <2>1 DEF TS!TypeOK
  <2> QED
    BY <1>2, <2>2 DEF TS!TypeOK, TS!WriteFragment
<1>3. CASE TS!Stamp(e)
  BY <1>2, <1>3 DEF TS!Stamp, TS!TypeOK, TS!Parts
<1>4. CASE TS!Body(e)
  BY <1>2, <1>4 DEF TS!Body, TS!TypeOK, TS!Parts
<1>5. CASE TS!SinkError(e)
  BY <1>5 DEF TS!SinkError, TS!TypeOK
<1>6. CASE TS!CutShort(e)
  BY <1>2, <1>6 DEF TS!CutShort, TS!TypeOK, TS!Parts
<1> QED
  BY <1>3, <1>4, <1>5, <1>6 DEF TS!Submit

\* What the environment and the loop do to the parts of this module.
LEMMA OutsideHandlerType ==
    ASSUME WorkerTypeOK, TypeOK',
           \/ \E e \in Events : Ingest(e) \/ Enqueue(e) \/ Age(e)
           \/ \E w \in Workers : ProcessStep(w) \/ LoopStep(w)
           \/ UNCHANGED allVars
    PROVE  WorkerTypeOK'
<1> USE DEF WorkerTypeOK, sinkVars, store, Line
<1>1. ASSUME NEW e \in Events, Ingest(e) PROVE WorkerTypeOK'
  <2>1. TS!TypeOK'
    BY <1>1, SubmitType DEF Ingest
  <2> QED
    BY <1>1, <2>1 DEF Ingest
<1>2. ASSUME NEW e \in Events, Enqueue(e) PROVE WorkerTypeOK'
  BY <1>2 DEF Enqueue, TS!TypeOK
<1>3. ASSUME NEW e \in Events, Age(e) PROVE WorkerTypeOK'
  BY <1>3 DEF Age, TS!TypeOK
<1>4. ASSUME NEW w \in Workers, ProcessStep(w) PROVE WorkerTypeOK'
  BY <1>4 DEF ProcessStep, TS!TypeOK, Idle, Steps, NoLines, Bag
<1>5. ASSUME NEW w \in Workers, LoopStep(w) PROVE WorkerTypeOK'
  BY <1>5 DEF LoopStep, TS!TypeOK
<1>6. CASE UNCHANGED allVars
  BY <1>6 DEF allVars, TS!TypeOK
<1> QED
  BY <1>1, <1>2, <1>3, <1>4, <1>5, <1>6

\* The locals of one worker, and of all of them after a step of one.
JobOK(x) ==
    /\ x \in [step : Steps, lines : Seq(Events), i : Nat, j : Nat, prev : Bag]
    /\ \/ x.i \in DOMAIN x.lines /\ x.j \in DOMAIN PlayersOf[x.lines[x.i]]
       \/ x.i = Len(x.lines) + 1 /\ x.step \notin {"truncate", "write"}

LEMMA IdleOK == JobOK(Idle)
BY DEF JobOK, Idle, Steps, NoLines, Bag

LEMMA JobStep ==
    ASSUME WorkerTypeOK, NEW w \in Workers, NEW x, JobOK(x), job' = [job EXCEPT ![w] = x]
    PROVE  /\ job' \in [Workers -> [step : Steps, lines : Seq(Events), i : Nat, j : Nat,
                                     prev : Bag]]
           /\ \A v \in Workers : JobOK(job'[v])
BY DEF WorkerTypeOK, JobOK, Line

\* A step of the handler is well-typed when what it writes is.
LEMMA HandlerType ==
    ASSUME WorkerTypeOK, TypeOK', NEW w \in Workers, NEW x, JobOK(x),
           job' = [job EXCEPT ![w] = x],
           UNCHANGED <<sinkVars, aged>>,
           risk' \in [Players -> PlayerFile],
           ledger' \in [Matches -> Seq(SUBSET (Players \X Events))],
           marker' \subseteq Matches
    PROVE  WorkerTypeOK'
BY JobStep DEF WorkerTypeOK, sinkVars, TS!TypeOK, JobOK, Line

\* The entry the loops are at names a player the worker can look up, or none.
LEMMA PlayerType ==
    ASSUME WorkerTypeOK, NEW w \in Workers,
           job[w].i \in DOMAIN job[w].lines, job[w].j \in DOMAIN PlayersOf[Line(w)]
    PROVE  Line(w) \in Events /\ Player(w) \in Players \cup {Refused}
BY PlayersOfAssumption DEF WorkerTypeOK, Line, Player

\* Advancing from an entry stays within the loops.
LEMMA NextEntryOK ==
    ASSUME NEW x, JobOK(x), x.i \in DOMAIN x.lines, x.j \in DOMAIN PlayersOf[x.lines[x.i]],
           x.step = "score"
    PROVE  JobOK(NextEntry(x))
<1> DEFINE l == x.lines[x.i]
<1>1. l \in Events /\ x.i \in 1..Len(x.lines) /\ Len(x.lines) \in Nat
  BY DEF JobOK
<1>2. PlayersOf[l] \in Seq(Players \cup {Refused}) /\ x.j \in 1..Len(PlayersOf[l])
  BY <1>1, PlayersOfAssumption
<1>3. CASE x.j < Len(PlayersOf[l])
  <2>1. NextEntry(x) = [x EXCEPT !.j = @ + 1]
    BY <1>3 DEF NextEntry
  <2> QED
    BY <1>1, <1>2, <1>3, <2>1 DEF JobOK
<1>4. CASE ~(x.j < Len(PlayersOf[l]))
  <2>1. NextEntry(x) = [step |-> "score", lines |-> x.lines, i |-> x.i + 1, j |-> 1,
                        prev |-> x.prev]
    BY <1>4 DEF NextEntry, JobOK
  <2>2. NextEntry(x) \in [step : Steps, lines : Seq(Events), i : Nat, j : Nat, prev : Bag]
    BY <1>1, <2>1 DEF JobOK
  <2>3. CASE x.i + 1 \in DOMAIN x.lines
    <3>1. x.lines[x.i + 1] \in Events
      BY <2>3 DEF JobOK
    <3>2. 1 \in DOMAIN PlayersOf[x.lines[x.i + 1]]
      BY <3>1, PlayersOfAssumption
    <3> QED
      BY <2>1, <2>2, <2>3, <3>2 DEF JobOK
  <2>4. CASE x.i + 1 \notin DOMAIN x.lines
    <3>1. x.i + 1 = Len(x.lines) + 1
      BY <1>1, <2>4 DEF JobOK
    <3> QED
      BY <2>1, <2>2, <3>1 DEF JobOK
  <2> QED
    BY <2>3, <2>4
<1> QED
  BY <1>3, <1>4

\* Returning resets the locals.
LEMMA ReturnType ==
    ASSUME WorkerTypeOK, TypeOK', NEW w \in Workers, NEW verdict,
           HandlerReturns(w, verdict),
           UNCHANGED <<sinkVars, aged>>,
           risk' \in [Players -> PlayerFile],
           ledger' \in [Matches -> Seq(SUBSET (Players \X Events))],
           marker' \subseteq Matches
    PROVE  WorkerTypeOK'
BY IdleOK, HandlerType DEF HandlerReturns

\* Going on to another step keeps the rest of the locals.
LEMMA ContinueType ==
    ASSUME WorkerTypeOK, TypeOK', NEW w \in Workers, NEW step \in Steps,
           Continue(w, step),
           step \in {"truncate", "write"} =>
               job[w].i \in DOMAIN job[w].lines /\ job[w].j \in DOMAIN PlayersOf[Line(w)],
           UNCHANGED <<sinkVars, aged>>,
           risk' \in [Players -> PlayerFile],
           ledger' \in [Matches -> Seq(SUBSET (Players \X Events))],
           marker' \subseteq Matches
    PROVE  WorkerTypeOK'
<1> DEFINE x == [job[w] EXCEPT !.step = step]
<1>1. JobOK(x)
  BY DEF WorkerTypeOK, JobOK, Line
<1>2. job' = [job EXCEPT ![w] = x]
  BY DEF Continue, WorkerTypeOK
<1> QED
  BY <1>1, <1>2, HandlerType

LEMMA NoLinesType == NoLines \in Bag
BY DEF NoLines, Bag

\* The loops start at the first player of the first line.
LEMMA LoadedOK ==
    ASSUME NEW lines \in Seq(Events)
    PROVE  JobOK(Loaded(lines))
<1>1. Loaded(lines) \in [step : Steps, lines : Seq(Events), i : Nat, j : Nat, prev : Bag]
  BY NoLinesType DEF Loaded, Steps
<1>2. CASE lines = <<>>
  BY <1>1, <1>2 DEF JobOK, Loaded
<1>3. CASE lines # <<>>
  <2>1. 1 \in DOMAIN lines /\ lines[1] \in Events
    BY <1>3
  <2>2. 1 \in DOMAIN PlayersOf[lines[1]]
    BY <2>1, PlayersOfAssumption
  <2> QED
    BY <1>1, <2>1, <2>2 DEF JobOK, Loaded
<1> QED
  BY <1>2, <1>3

\* What the handler writes is well-typed.
LEMMA SetPlayerType ==
    ASSUME WorkerTypeOK, NEW p, NEW state \in {"absent", "empty", "garbled", "whole"},
           NEW bag \in Bag, SetPlayer(p, state, bag)
    PROVE  risk' \in [Players -> PlayerFile]
BY DEF WorkerTypeOK, SetPlayer, PlayerFile

LEMMA HandlerKeepsType ==
    ASSUME WorkerTypeOK, TypeOK', NEW w \in Workers, Handler(w)
    PROVE  WorkerTypeOK'
<1>0. /\ risk \in [Players -> PlayerFile]
      /\ ledger \in [Matches -> Seq(SUBSET (Players \X Events))]
      /\ marker \subseteq Matches
  BY DEF WorkerTypeOK
<1>1. CASE CheckGrace(w)
  BY <1>0, <1>1, ReturnType, ContinueType DEF CheckGrace, store, Steps
<1>2. CASE CheckApplied(w)
  BY <1>0, <1>2, ReturnType, ContinueType DEF CheckApplied, store, Steps
<1>3. CASE LoadTelemetry(w)
  <2>1. CASE \E verdict \in Verdicts : HandlerReturns(w, verdict)
    BY <1>0, <1>3, <2>1, ReturnType DEF LoadTelemetry, store
  <2>2. CASE job' = [job EXCEPT ![w] = Loaded(TS!Lines(sink[Match(w)]))]
    <3>1. TS!Lines(sink[Match(w)]) \in Seq(Events)
      <4>1. cur[w] \in Events
        BY <1>3 DEF LoadTelemetry, At, WorkerTypeOK, TypeOK, Holding, Verdicts
      <4>2. sink[Match(w)] \in Seq(TS!Fragment)
        BY <4>1, MatchOfAssumption DEF Match, WorkerTypeOK, TS!TypeOK
      <4> QED
        BY <4>2, LinesType
    <3> QED
      BY <1>0, <1>3, <2>2, <3>1, LoadedOK, HandlerType DEF LoadTelemetry, store
  <2> QED
    BY <1>3, <2>1, <2>2 DEF LoadTelemetry, Verdicts
<1>4. CASE LoadPlayer(w)
  <2>1. CASE \E verdict \in Verdicts : HandlerReturns(w, verdict)
    BY <1>0, <1>4, <2>1, ReturnType DEF LoadPlayer, store
  <2>2. ASSUME NEW bag, bag = NoLines \/ (Player(w) # Refused /\ bag = risk[Player(w)].counted),
               job' = [job EXCEPT ![w].step = "truncate", ![w].prev = bag]
        PROVE  WorkerTypeOK'
    <3> DEFINE x == [job[w] EXCEPT !.step = "truncate", !.prev = bag]
    <3>1. job[w].i \in DOMAIN job[w].lines /\ job[w].j \in DOMAIN PlayersOf[Line(w)]
      BY <1>4 DEF LoadPlayer, HasEntry, WorkerTypeOK
    <3>2. Player(w) \in Players \cup {Refused}
      BY <3>1, PlayerType
    <3>3. bag \in Bag
      BY <1>0, <2>2, <3>2, NoLinesType DEF PlayerFile
    <3>4. JobOK(x)
      BY <3>1, <3>3 DEF JobOK, WorkerTypeOK, Line, Steps
    <3>5. job' = [job EXCEPT ![w] = x]
      BY <2>2 DEF WorkerTypeOK
    <3> QED
      BY <1>0, <1>4, <3>4, <3>5, HandlerType DEF LoadPlayer, store
  <2> QED
    BY <1>4, <2>1, <2>2 DEF LoadPlayer, Verdicts
<1>5. CASE Truncate(w)
  <2>1. job[w].i \in DOMAIN job[w].lines /\ job[w].j \in DOMAIN PlayersOf[Line(w)]
    BY <1>5 DEF Truncate, At, WorkerTypeOK
  <2>2. risk' \in [Players -> PlayerFile]
    BY <1>0, <1>5, SetPlayerType, NoLinesType DEF Truncate
  <2> QED
    BY <1>0, <1>5, <2>1, <2>2, ReturnType, ContinueType DEF Truncate, Steps
<1>6. CASE Write(w)
  <2>1. job[w].i \in DOMAIN job[w].lines /\ job[w].j \in DOMAIN PlayersOf[Line(w)]
    BY <1>6 DEF Write, At, WorkerTypeOK
  <2>2. [job[w].prev EXCEPT ![Line(w)] = @ + 1] \in Bag
    BY <2>1, PlayerType DEF WorkerTypeOK, Bag
  <2>3. risk' \in [Players -> PlayerFile]
    BY <1>6, <2>2, SetPlayerType, NoLinesType DEF Write
  <2>4. CASE HandlerReturns(w, "fail")
    BY <1>0, <1>6, <2>3, <2>4, ReturnType DEF Write
  <2>5. CASE job' = [job EXCEPT ![w] = NextEntry([@ EXCEPT !.step = "score", !.prev = NoLines])]
    <3> DEFINE x == [job[w] EXCEPT !.step = "score", !.prev = NoLines]
    <3>1. JobOK(x) /\ x.step = "score" /\ x.i = job[w].i /\ x.j = job[w].j /\ x.lines = job[w].lines
      BY <2>1, NoLinesType DEF JobOK, WorkerTypeOK, Line, Steps
    <3>2. JobOK(NextEntry(x))
      BY <2>1, <3>1, NextEntryOK DEF Line
    <3>3. job' = [job EXCEPT ![w] = NextEntry(x)]
      BY <2>5
    <3> QED
      BY <1>0, <1>6, <2>3, <3>2, <3>3, HandlerType DEF Write
  <2> QED
    BY <1>6, <2>4, <2>5 DEF Write
<1>7. CASE AppendLedger(w)
  <2>1. ledger' \in [Matches -> Seq(SUBSET (Players \X Events))]
    <3>1. PlayersMap(job[w].lines) \in SUBSET (Players \X Events)
      BY DEF PlayersMap
    <3>2. \A s \in Seq(SUBSET (Players \X Events)) :
             Append(s, PlayersMap(job[w].lines)) \in Seq(SUBSET (Players \X Events))
      BY <3>1
    <3> QED
      BY <1>0, <1>7, <3>2 DEF AppendLedger
  <2> QED
    BY <1>0, <1>7, <2>1, ReturnType, ContinueType DEF AppendLedger, Steps
<1>8. CASE MarkApplied(w)
  <2>1. marker' \subseteq Matches
    <3>1. cur[w] \in Events
      BY <1>8 DEF MarkApplied, At, WorkerTypeOK, TypeOK, Holding, Verdicts
    <3> QED
      BY <1>0, <1>8, <3>1, MatchOfAssumption DEF MarkApplied, Match
  <2> QED
    BY <1>0, <1>8, <2>1, ReturnType DEF MarkApplied
<1> QED
  BY <1>1, <1>2, <1>3, <1>4, <1>5, <1>6, <1>7, <1>8 DEF Handler

LEMMA WorkerStepType ==
    WorkerTypeOK /\ [WorkerNext]_allVars => WorkerTypeOK'
<1> SUFFICES ASSUME WorkerTypeOK, [WorkerNext]_allVars PROVE WorkerTypeOK'
  OBVIOUS
<1>1. TypeOK'
  BY StepIsOutboxStep, TypeStep DEF WorkerTypeOK
<1>2. ASSUME NEW w \in Workers, Handler(w) PROVE WorkerTypeOK'
  BY <1>1, <1>2, HandlerKeepsType
<1> QED
  BY <1>1, <1>2, OutsideHandlerType DEF WorkerNext

\* Every behaviour of the system is well-typed; in particular the handler's
\* loops never run past the end of a line or of the file.
THEOREM WorkerTypeCorrect == WorkerSpec => []WorkerTypeOK
BY WorkerInitType, WorkerStepType, PTL DEF WorkerSpec

-----------------------------------------------------------------------------
(* No event is retired before its match is marked and in the ledger *)

\* The order of ingest: the line is in the file before the event is enqueued,
\* so a handler never finds the file of its match empty.
LineBeforeEvent ==
    \A e \in Events :
        /\ enq[e] # "idle" => call[e] = "written"
        /\ call[e] \in {"stamped", "written", "cut"} => sink[MatchOf[e]] # <<>>

\* The order of the handler: ledger, marker, verdict.  Outside the handler
\* its locals are reset.
LedgerThenMarker ==
    /\ \A w \in Workers :
          /\ pc[w] # "handling" => job[w] = Idle
          /\ pc[w] = "done" => Match(w) \in marker
          /\ At(w, "mark") => ledger[Match(w)] # <<>>
    /\ MarkedIsInLedger

\* DoneIsDurable is not inductive by itself: an event comes to done/ from a
\* worker that has returned nil, and the handler returns nil without marking
\* when the telemetry file has no line.
DurableInv ==
    /\ WorkerTypeOK
    /\ IInv
    /\ LineBeforeEvent
    /\ LedgerThenMarker
    /\ DoneIsDurable

LEMMA DurableInit == WorkerInit => DurableInv
<1> SUFFICES ASSUME WorkerInit PROVE DurableInv
  OBVIOUS
<1>1. IInv
  BY InitIInv DEF WorkerInit
<1> QED
  BY <1>1, WorkerInitType
     DEF WorkerInit, Init, TS!Init, DurableInv, LineBeforeEvent, LedgerThenMarker,
         MarkedIsInLedger, DoneIsDurable, At, Directories

\* A held event has been enqueued.
LEMMA HeldWasEnqueued ==
    ASSUME DurableInv, NEW w \in Workers, cur[w] \in Events
    PROVE  call[cur[w]] = "written"
<1>1. cur[w] \in dir["processing"]
  BY DEF DurableInv, IInv, HeldIsProcessing
<1>2. enq[cur[w]] = "ok"
  BY <1>1 DEF DurableInv, IInv, EnqueueProgress, Directories
<1> QED
  BY <1>2 DEF DurableInv, LineBeforeEvent

\* The telemetry of a match that has an event is not empty.
LEMMA HeldHasTelemetry ==
    ASSUME DurableInv, NEW w \in Workers, cur[w] \in Events
    PROVE  sink[Match(w)] # <<>>
BY HeldWasEnqueued DEF DurableInv, LineBeforeEvent, Match

LEMMA AppendNotEmpty ==
    ASSUME NEW S, NEW s \in Seq(S), NEW x \in S
    PROVE  Append(s, x) # <<>>
<1>1. Len(Append(s, x)) = Len(s) + 1 /\ Len(s) \in Nat /\ Len(<<>>) = 0
  OBVIOUS
<1> QED
  BY <1>1

LEMMA IngestDurable ==
    ASSUME DurableInv, WorkerTypeOK', IInv', NEW e \in Events, Ingest(e)
    PROVE  DurableInv'
<1> USE DEF Ingest, store
<1>1. enq[e] = "idle"
  BY DEF DurableInv, LineBeforeEvent, TS!Submit, TS!Stamp, TS!Body, TS!SinkError, TS!CutShort
<1>2. \A f \in Events \ {e} : call'[f] = call[f]
  BY DEF DurableInv, WorkerTypeOK, TS!TypeOK, TS!Submit, TS!Stamp, TS!Body, TS!SinkError,
            TS!CutShort
<1>3. \A m \in Matches : sink[m] # <<>> => sink'[m] # <<>>
  <2>1. ASSUME NEW part \in TS!Parts, TS!WriteFragment(e, part), NEW m \in Matches,
               sink[m] # <<>>
        PROVE  sink'[m] # <<>>
    <3>1. [of |-> e, part |-> part] \in TS!Fragment
      BY <2>1 DEF TS!Fragment
    <3>2. Append(sink[m], [of |-> e, part |-> part]) # <<>>
      BY <3>1, AppendNotEmpty DEF DurableInv, WorkerTypeOK, TS!TypeOK
    <3> QED
      BY <2>1, <3>2 DEF TS!WriteFragment, DurableInv, WorkerTypeOK, TS!TypeOK
  <2> QED
    BY <2>1 DEF TS!Submit, TS!Stamp, TS!Body, TS!SinkError, TS!CutShort, TS!Parts
<1>4. call'[e] \in {"stamped", "written", "cut"} => sink'[MatchOf[e]] # <<>>
  <2>1. CASE call[e] = "stamped"
    BY <1>3, <2>1, MatchOfAssumption DEF DurableInv, LineBeforeEvent
  <2>2. CASE TS!Stamp(e)
    <3>1. [of |-> e, part |-> "stamp"] \in TS!Fragment
      BY DEF TS!Fragment, TS!Parts
    <3>2. sink[MatchOf[e]] \in Seq(TS!Fragment)
      BY MatchOfAssumption DEF DurableInv, WorkerTypeOK, TS!TypeOK
    <3>3. Append(sink[MatchOf[e]], [of |-> e, part |-> "stamp"]) # <<>>
      BY <3>1, <3>2, AppendNotEmpty
    <3> QED
      BY <2>2, <3>3, MatchOfAssumption
         DEF TS!Stamp, TS!WriteFragment, DurableInv, WorkerTypeOK, TS!TypeOK
  <2>3. CASE TS!SinkError(e) /\ call[e] # "stamped"
    BY <2>3 DEF TS!SinkError, DurableInv, WorkerTypeOK, TS!TypeOK
  <2> QED
    BY <2>1, <2>2, <2>3 DEF TS!Submit, TS!Body, TS!CutShort
<1>5. LineBeforeEvent'
  BY <1>1, <1>2, <1>3, <1>4, MatchOfAssumption DEF DurableInv, LineBeforeEvent, vars
<1>6. LedgerThenMarker' /\ DoneIsDurable'
  BY DEF DurableInv, LedgerThenMarker, MarkedIsInLedger, DoneIsDurable, At, Match, vars
<1> QED
  BY <1>5, <1>6 DEF DurableInv

LEMMA EnqueueDurable ==
    ASSUME DurableInv, WorkerTypeOK', IInv', NEW e \in Events, Enqueue(e)
    PROVE  DurableInv'
<1> USE DEF Enqueue, Enqueuing, CreateTmp, WriteTmp, Publish, EnqueueError
<1>1. LineBeforeEvent'
  BY DEF DurableInv, LineBeforeEvent, IInv, TypeOK, sinkVars
<1>2. dir'["done"] = dir["done"]
  BY DEF DurableInv, IInv, TypeOK, Renamed, Directories
<1>3. LedgerThenMarker' /\ DoneIsDurable'
  BY <1>2 DEF DurableInv, LedgerThenMarker, MarkedIsInLedger, DoneIsDurable, At, Match, store,
              workerVars
<1> QED
  BY <1>1, <1>3 DEF DurableInv

\* The loop retires an event only after the handler has returned nil.
LEMMA LoopDurable ==
    ASSUME DurableInv, WorkerTypeOK', IInv', NEW w \in Workers, LoopStep(w)
    PROVE  DurableInv'
<1> USE DEF LoopStep, store, sinkVars, producerVars
<1> USE DEF Loop, Poll, PollError, NonePending, Claim, Skip, ReadEvent, ReadError, MarkDone,
            Requeue, WriteSidecar, MarkFailed, Goto, EndIteration, AfterPoll
<1>1. enq' = enq
  OBVIOUS
<1>2. LineBeforeEvent'
  BY <1>1 DEF DurableInv, LineBeforeEvent
<1>3. pc'[w] # "done" /\ pc[w] # "handling" /\ \A v \in Workers \ {w} : pc'[v] = pc[v] /\ cur'[v] = cur[v]
  BY DEF DurableInv, IInv, TypeOK, Holding, Verdicts
<1>4. job' = job /\ job[w] = Idle
  BY <1>3 DEF DurableInv, LedgerThenMarker
<1>5. LedgerThenMarker'
  BY <1>3, <1>4 DEF DurableInv, LedgerThenMarker, MarkedIsInLedger, At, Match, Idle
<1>6. ASSUME NEW e \in dir'["done"] PROVE MatchOf[e] \in marker
  <2>1. CASE e \in dir["done"]
    BY <2>1 DEF DurableInv, DoneIsDurable
  <2>2. CASE e \notin dir["done"]
    <3>1. e = cur[w] /\ pc[w] = "done"
      BY <1>6, <2>2 DEF DurableInv, IInv, TypeOK, TryRename, Renamed, Directories
    <3> QED
      BY <3>1 DEF DurableInv, LedgerThenMarker, Match
  <2> QED
    BY <2>1, <2>2
<1>7. DoneIsDurable'
  BY <1>6 DEF DoneIsDurable
<1> QED
  BY <1>2, <1>5, <1>7 DEF DurableInv

LEMMA ProcessDurable ==
    ASSUME DurableInv, WorkerTypeOK', IInv', NEW w \in Workers, ProcessStep(w)
    PROVE  DurableInv'
<1> USE DEF ProcessStep, Lifecycle, Start, Stop, Crash, EndIteration, Goto, store, sinkVars,
            producerVars
<1>1. /\ pc'[w] \in {"idle", "down"} /\ job'[w] = Idle
      /\ \A v \in Workers \ {w} : pc'[v] = pc[v] /\ cur'[v] = cur[v] /\ job'[v] = job[v]
  BY DEF DurableInv, IInv, TypeOK, WorkerTypeOK
<1>2. LineBeforeEvent' /\ DoneIsDurable'
  BY DEF DurableInv, LineBeforeEvent, DoneIsDurable
<1>3. LedgerThenMarker'
  BY <1>1 DEF DurableInv, LedgerThenMarker, MarkedIsInLedger, At, Match, Idle
<1> QED
  BY <1>2, <1>3 DEF DurableInv

\* The handler returns nil only for a match that is marked, and marks only a
\* match that is in the ledger.
LEMMA HandlerDurable ==
    ASSUME DurableInv, WorkerTypeOK', IInv', NEW w \in Workers, Handler(w)
    PROVE  DurableInv'
<1> USE DEF Handler, CheckGrace, CheckApplied, LoadTelemetry, LoadPlayer, Truncate, Write,
            AppendLedger, MarkApplied, Continue, HandlerReturns, Return, Goto
<1>1. UNCHANGED <<dir, enq, cur, sink, call>>
  BY DEF vars, producerVars, sinkVars
<1>2. LineBeforeEvent'
  BY <1>1 DEF DurableInv, LineBeforeEvent
<1>3. marker \subseteq marker' /\ pc[w] = "handling"
  BY DEF store, At
<1>4. DoneIsDurable'
  BY <1>1, <1>3 DEF DurableInv, DoneIsDurable
<1>5. \A m \in Matches : ledger[m] # <<>> => ledger'[m] # <<>>
  <2>1. \A s \in Seq(SUBSET (Players \X Events)) : Append(s, PlayersMap(job[w].lines)) # <<>>
    BY DEF PlayersMap
  <2> QED
    BY <2>1 DEF DurableInv, WorkerTypeOK, store
<1>6. cur[w] \in Events /\ Match(w) \in Matches /\ sink[Match(w)] # <<>>
  <2>1. cur[w] \in Events
    BY <1>3 DEF DurableInv, IInv, TypeOK, Holding, Verdicts
  <2> QED
    BY <2>1, HeldHasTelemetry, MatchOfAssumption DEF Match
<1>7. pc'[w] = "done" => Match(w) \in marker'
  BY <1>3, <1>6 DEF vars, DurableInv, IInv, TypeOK, store
<1>8. At(w, "mark")' => ledger'[Match(w)] # <<>>
  <2>1. SUFFICES ASSUME At(w, "mark")' PROVE ledger'[Match(w)] # <<>>
    OBVIOUS
  <2>2. job'[w].step = "mark" /\ pc'[w] = "handling"
    BY <2>1 DEF At
  <2>3. CASE AppendLedger(w) /\ Continue(w, "mark")
    <3>1. PlayersMap(job[w].lines) \in SUBSET (Players \X Events)
      BY DEF PlayersMap
    <3>2. \A s \in Seq(SUBSET (Players \X Events)) : Append(s, PlayersMap(job[w].lines)) # <<>>
      BY <3>1, AppendNotEmpty
    <3>3. ledger' = [ledger EXCEPT ![Match(w)] = Append(@, PlayersMap(job[w].lines))]
      BY <1>6, <2>2, <2>3 DEF vars, DurableInv, IInv, TypeOK
    <3> QED
      BY <1>6, <3>2, <3>3 DEF DurableInv, WorkerTypeOK
  <2>4. CASE ~(AppendLedger(w) /\ Continue(w, "mark"))
    <3>1. job \in [Workers -> [step : Steps, lines : Seq(Events), i : Nat, j : Nat, prev : Bag]]
      BY DEF DurableInv, WorkerTypeOK
    <3>2. CASE \E verdict : HandlerReturns(w, verdict)
      BY <2>2, <3>1, <3>2 DEF Idle
    <3>3. CASE \E step \in Steps \ {"mark"} : Continue(w, step)
      BY <2>2, <3>1, <3>3
    <3>4. CASE LoadTelemetry(w) /\ ~HandlerReturns(w, "done") /\ ~HandlerReturns(w, "fail")
      BY <2>2, <3>1, <3>4 DEF Loaded
    <3>5. CASE LoadPlayer(w) /\ ~HandlerReturns(w, "fail")
      BY <2>2, <3>1, <3>5
    <3>6. CASE Write(w) /\ ~HandlerReturns(w, "fail")
      <4>1. job' = [job EXCEPT ![w] = NextEntry([@ EXCEPT !.step = "score", !.prev = NoLines])]
        BY <3>6
      <4>2. job'[w].step = "score"
        BY <3>1, <4>1 DEF NextEntry
      <4> QED
        BY <2>2, <4>2
    <3>7. CASE CheckGrace(w) \/ CheckApplied(w) \/ Truncate(w) \/ MarkApplied(w)
      BY <2>2, <3>2, <3>3, <3>7 DEF Steps
    <3> QED
      BY <2>4, <3>2, <3>4, <3>5, <3>6, <3>7
  <2> QED
    BY <2>3, <2>4
<1>9. /\ pc'[w] # "handling" => job'[w] = Idle
      /\ \A v \in Workers \ {w} : pc'[v] = pc[v] /\ job'[v] = job[v]
  BY <1>3 DEF vars, DurableInv, IInv, TypeOK, WorkerTypeOK
<1>10. MarkedIsInLedger'
  BY <1>5, <1>6 DEF DurableInv, LedgerThenMarker, MarkedIsInLedger, store, At, WorkerTypeOK
<1>11. LedgerThenMarker'
  <2>1. \A v \in Workers \ {w} : pc'[v] = "done" => Match(v)' \in marker'
    BY <1>1, <1>3, <1>9 DEF DurableInv, LedgerThenMarker, Match
  <2>2. \A v \in Workers \ {w} : At(v, "mark")' => ledger'[Match(v)'] # <<>>
    <3> SUFFICES ASSUME NEW v \in Workers \ {w}, At(v, "mark")' PROVE ledger'[Match(v)] # <<>>
      BY <1>1 DEF Match
    <3>1. At(v, "mark")
      BY <1>9 DEF At
    <3>2. Match(v) \in Matches
      BY <3>1, MatchOfAssumption DEF At, Match, DurableInv, IInv, TypeOK, Holding, Verdicts
    <3> QED
      BY <1>5, <3>1, <3>2 DEF DurableInv, LedgerThenMarker
  <2>3. \A v \in Workers \ {w} : pc'[v] # "handling" => job'[v] = Idle
    BY <1>9 DEF DurableInv, LedgerThenMarker
  <2> QED
    BY <1>1, <1>7, <1>8, <1>9, <1>10, <2>1, <2>2, <2>3 DEF LedgerThenMarker, Match
<1> QED
  BY <1>2, <1>4, <1>11 DEF DurableInv

LEMMA DurableStep == DurableInv /\ [WorkerNext]_allVars => DurableInv'
<1> SUFFICES ASSUME DurableInv, [WorkerNext]_allVars PROVE DurableInv'
  OBVIOUS
<1>0. WorkerTypeOK' /\ IInv'
  BY WorkerStepType, StepIsOutboxStep, StepIInv DEF DurableInv
<1>1. CASE UNCHANGED allVars
  BY <1>0, <1>1
     DEF allVars, vars, sinkVars, store, DurableInv, LineBeforeEvent, LedgerThenMarker,
         MarkedIsInLedger, DoneIsDurable, At, Match
<1>2. ASSUME NEW e \in Events, Ingest(e) PROVE DurableInv'
  BY <1>0, <1>2, IngestDurable
<1>3. ASSUME NEW e \in Events, Enqueue(e) PROVE DurableInv'
  BY <1>0, <1>3, EnqueueDurable
<1>4. ASSUME NEW e \in Events, Age(e) PROVE DurableInv'
  BY <1>0, <1>4
     DEF Age, vars, sinkVars, store, DurableInv, LineBeforeEvent, LedgerThenMarker,
         MarkedIsInLedger, DoneIsDurable, At, Match
<1>5. ASSUME NEW w \in Workers, ProcessStep(w) PROVE DurableInv'
  BY <1>0, <1>5, ProcessDurable
<1>6. ASSUME NEW w \in Workers, LoopStep(w) PROVE DurableInv'
  BY <1>0, <1>6, LoopDurable
<1>7. ASSUME NEW w \in Workers, Handler(w) PROVE DurableInv'
  BY <1>0, <1>7, HandlerDurable
<1> QED
  BY <1>1, <1>2, <1>3, <1>4, <1>5, <1>6, <1>7 DEF WorkerNext

LEMMA DurableInductive == WorkerSpec => []DurableInv
BY DurableInit, DurableStep, PTL DEF WorkerSpec

\* An event in done/ has a marked match, through crashes, I/O errors and any
\* number of workers: no event is retired before its match is scored.
THEOREM DoneIsMarked == WorkerSpec => []DoneIsDurable
<1>1. DurableInv => DoneIsDurable
  BY DEF DurableInv
<1> QED
  BY <1>1, DurableInductive, PTL

\* A marked match is in the ledger.
THEOREM MarkedIsAccounted == WorkerSpec => []MarkedIsInLedger
<1>1. DurableInv => MarkedIsInLedger
  BY DEF DurableInv, LedgerThenMarker
<1> QED
  BY <1>1, DurableInductive, PTL
=============================================================================
