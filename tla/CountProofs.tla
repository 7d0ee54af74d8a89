---------------------------- MODULE CountProofs ----------------------------
(***************************************************************************)
(* What RiskWorker counts, for any number of events, workers, matches and  *)
(* players and for any combination of disruptions: only lines that were    *)
(* written out, and no line more often than its match had events taken     *)
(* from pending/.                                                          *)
(*                                                                         *)
(* The second is a bound on a number that several workers change, which    *)
(* may lose an increment (two Saves of one file) but never makes one up.   *)
(* It is proved with a set of tokens: an event that has been taken has one *)
(* for every entry of a line that it will not count any more.  Tokens are  *)
(* never lost, and an increment comes with a new one.                      *)
(***************************************************************************)
EXTENDS RiskWorkerProofs, FiniteSetTheorems

-----------------------------------------------------------------------------
(* The invariants *)

\* A body in the file of match m is that of a submission about m that has
\* written it out, be it without the newline, and there is one for each
\* submission.
Bodies == {"body", "cut"}
BodyInv ==
    \A m \in Matches : \A k \in DOMAIN sink[m] :
        sink[m][k].part \in Bodies =>
            /\ WrittenOut(sink[m][k].of)
            /\ MatchOf[sink[m][k].of] = m
            /\ \A n \in DOMAIN sink[m] :
                  n # k /\ sink[m][n].part \in Bodies => sink[m][n].of # sink[m][k].of

\* So are the lines a handler has loaded.
LoadedInv ==
    \A w \in Workers : \A i \in DOMAIN job[w].lines :
        /\ WrittenOut(job[w].lines[i])
        /\ MatchOf[job[w].lines[i]] = Match(w)
        /\ \A k \in DOMAIN job[w].lines : k # i => job[w].lines[k] # job[w].lines[i]

\* What player p may have in her file.
WrittenBag(p, bag) ==
    \A l \in Events : bag[l] > 0 => WrittenOut(l) /\ p \in Range(PlayersOf[l])

InSave(w) == job[w].step \in {"truncate", "write"}

\* What is in a player's file, or on its way there.
WrittenInv ==
    /\ \A p \in Players : WrittenBag(p, risk[p].counted)
    /\ \A w \in Workers : InSave(w) => Player(w) \in Players /\ WrittenBag(Player(w), job[w].prev)

CountInv == BodyInv /\ LoadedInv /\ WrittenInv

\* The handler of w will not count entry j of line l any more.
Passed(w, l, j) ==
    \/ pc[w] \in {"done", "fail", "failing"}
    \/ At(w, "mark")
    \/ /\ pc[w] = "handling"
       /\ job[w].step \in {"score", "truncate", "write"}
       /\ \E i \in DOMAIN job[w].lines :
             /\ job[w].lines[i] = l
             /\ i < job[w].i \/ (i = job[w].i /\ j < job[w].j)

Accepted == {e \in Events : enq[e] = "ok"}
Entries(p, l) == {j \in DOMAIN PlayersOf[l] : PlayersOf[l][j] = p}
Taken(l) ==
    {e \in Events : MatchOf[e] = MatchOf[l] /\ enq[e] = "ok" /\ e \notin dir["pending"]}

\* The events taken so far that will not count l for p any more, with the
\* entries of l in question.
Tokens(p, l) ==
    {t \in Taken(l) \X Entries(p, l) : \A w \in Workers : cur[w] = t[1] => Passed(w, l, t[2])}

TokenInv ==
    /\ IsFiniteSet(Accepted)
    /\ \A p \in Players, l \in Events : Counted(p, l) <= Cardinality(Tokens(p, l))
    /\ \A w \in Workers : InSave(w) =>
          \A l \in Events : job[w].prev[l] <= Cardinality(Tokens(Player(w), l))

-----------------------------------------------------------------------------
(* What a step does to the handlers *)

LEMMA JobType ==
    ASSUME WorkerTypeOK
    PROVE  job \in [Workers -> [step : Steps, lines : Seq(Events), i : Nat, j : Nat, prev : Bag]]
BY DEF WorkerTypeOK

\* A handler that is not at work is reset, and one at work moves only by
\* itself.
LEMMA OtherSteps ==
    ASSUME DurableInv, [WorkerNext]_allVars, NEW w \in Workers, ~Handler(w)
    PROVE  \/ job'[w] = Idle
           \/ job'[w] = job[w] /\ cur'[w] = cur[w] /\ pc'[w] = pc[w]
<1>0. /\ pc \in [Workers -> {"down", "idle", "scanning"} \cup Holding]
      /\ cur \in [Workers -> Events \cup {NoEvent}]
      /\ pc[w] # "handling" => job[w] = Idle
  BY DEF DurableInv, WorkerTypeOK, TypeOK, LedgerThenMarker
<1>1. ASSUME NEW e \in Events, Ingest(e) \/ Enqueue(e) \/ Age(e)
      PROVE  UNCHANGED <<job, cur, pc>>
  BY <1>1 DEF Ingest, Enqueue, Age, Enqueuing, CreateTmp, WriteTmp, Publish, EnqueueError, vars,
              workerVars
<1>2. ASSUME NEW v \in Workers, ProcessStep(v)
      PROVE  \/ job'[w] = Idle
             \/ job'[w] = job[w] /\ cur'[w] = cur[w] /\ pc'[w] = pc[w]
  BY <1>0, <1>2, JobType
     DEF ProcessStep, Lifecycle, Start, Stop, Crash, Goto, EndIteration, DurableInv
<1>3. ASSUME NEW v \in Workers, LoopStep(v)
      PROVE  /\ pc[v] # "handling" /\ job' = job
             /\ v # w => cur'[w] = cur[w] /\ pc'[w] = pc[w]
  BY <1>0, <1>3
     DEF LoopStep, Loop, Poll, PollError, NonePending, Claim, Skip, ReadEvent, ReadError,
         MarkDone, Requeue, WriteSidecar, MarkFailed, Goto, EndIteration
<1>4. ASSUME NEW v \in Workers, Handler(v), v # w
      PROVE  job'[w] = job[w] /\ cur'[w] = cur[w] /\ pc'[w] = pc[w]
  BY <1>0, <1>4, JobType
     DEF Handler, CheckGrace, CheckApplied, LoadTelemetry, LoadPlayer, Truncate, Write,
         AppendLedger, MarkApplied, Continue, HandlerReturns, Return, Goto, vars, DurableInv
<1>5. CASE UNCHANGED allVars
  BY <1>5 DEF allVars, vars
<1> QED
  BY <1>0, <1>1, <1>2, <1>3, <1>4, <1>5 DEF WorkerNext

\* The steps of a handler, seen from its locals.
LEMMA HandlerSteps ==
    ASSUME DurableInv, NEW w \in Workers, Handler(w)
    PROVE  /\ UNCHANGED <<dir, enq, cur, sink, call>> /\ cur[w] \in Events
           /\ pc[w] = "handling" /\ \A v \in Workers \ {w} : pc'[v] = pc[v] /\ job'[v] = job[v]
           /\ \/ /\ job'[w] = Idle
                 /\ \/ pc'[w] \in {"done", "fail"}
                    \/ pc'[w] = "requeue" /\ job[w].step = "grace"
              \/ /\ pc'[w] = "handling"
                 /\ \/ /\ job'[w] = [job[w] EXCEPT !.step = "applied"]
                       /\ job[w].step = "grace"
                    \/ /\ job'[w] = [job[w] EXCEPT !.step = "load"]
                       /\ job[w].step = "applied"
                    \/ /\ job'[w] = [job[w] EXCEPT !.step = "mark"]
                       /\ job[w].step = "score"
                    \/ /\ TS!Readable(sink[Match(w)])
                       /\ job'[w] = Loaded(TS!Lines(sink[Match(w)]))
                       /\ job[w].step = "load"
                    \/ LoadPlayer(w) \/ Truncate(w) \/ Write(w)
<1>0. /\ pc \in [Workers -> {"down", "idle", "scanning"} \cup Holding]
      /\ job \in [Workers -> [step : Steps, lines : Seq(Events), i : Nat, j : Nat, prev : Bag]]
      /\ pc[w] = "handling" => cur[w] \in Events
  BY JobType DEF DurableInv, WorkerTypeOK, TypeOK, Holding
<1>1. /\ UNCHANGED <<dir, enq, cur, sink, call>> /\ pc[w] = "handling"
      /\ \A v \in Workers \ {w} : pc'[v] = pc[v] /\ job'[v] = job[v]
  BY <1>0 DEF Handler, CheckGrace, CheckApplied, LoadTelemetry, LoadPlayer, Truncate, Write,
         AppendLedger, MarkApplied, Continue, HandlerReturns, Return, Goto, vars, producerVars,
         sinkVars, At
<1>2. \A verdict : HandlerReturns(w, verdict) => job'[w] = Idle /\ pc'[w] = verdict
  BY <1>0 DEF HandlerReturns, Return, Goto
<1>3. \A step : Continue(w, step) => job'[w] = [job[w] EXCEPT !.step = step] /\ pc'[w] = pc[w]
  BY <1>0 DEF Continue, vars
<1>4. CASE CheckGrace(w)
  BY <1>0, <1>1, <1>2, <1>3, <1>4 DEF CheckGrace, At
<1>5. CASE CheckApplied(w)
  BY <1>0, <1>1, <1>2, <1>3, <1>5 DEF CheckApplied, At
<1>6. CASE LoadTelemetry(w)
  BY <1>0, <1>1, <1>2, <1>6 DEF LoadTelemetry, At, vars
<1>7. CASE LoadPlayer(w)
  BY <1>0, <1>1, <1>2, <1>7 DEF LoadPlayer, vars
<1>8. CASE Truncate(w)
  BY <1>0, <1>1, <1>2, <1>3, <1>8 DEF Truncate
<1>9. CASE Write(w)
  BY <1>0, <1>1, <1>2, <1>9 DEF Write, vars
<1>10. CASE AppendLedger(w)
  BY <1>0, <1>1, <1>2, <1>3, <1>10 DEF AppendLedger, At
<1>11. CASE MarkApplied(w)
  BY <1>0, <1>1, <1>2, <1>11 DEF MarkApplied
<1> QED
  BY <1>4, <1>5, <1>6, <1>7, <1>8, <1>9, <1>10, <1>11 DEF Handler

\* The same for the loop over the entries.
LEMMA LoadPlayerStep ==
    ASSUME DurableInv, NEW w \in Workers, LoadPlayer(w), pc'[w] = "handling"
    PROVE  \E bag : /\ job'[w] = [job[w] EXCEPT !.step = "truncate", !.prev = bag]
                    /\ Player(w) \in Players
                    /\ bag = NoLines \/ bag = risk[Player(w)].counted
                    /\ job[w].step = "score" /\ risk' = risk
<1>0. /\ pc \in [Workers -> {"down", "idle", "scanning"} \cup Holding]
      /\ job \in [Workers -> [step : Steps, lines : Seq(Events), i : Nat, j : Nat, prev : Bag]]
  BY JobType DEF DurableInv, WorkerTypeOK, TypeOK
<1>1. ~HandlerReturns(w, "fail")
  BY <1>0 DEF HandlerReturns, Return, Goto
<1>2. job[w].i \in DOMAIN job[w].lines /\ job[w].j \in DOMAIN PlayersOf[Line(w)]
  BY DEF LoadPlayer, HasEntry, DurableInv, WorkerTypeOK
<1>3. Player(w) \in Players \cup {Refused}
  BY <1>2, PlayerType DEF DurableInv
<1>4. ASSUME NEW bag, job' = [job EXCEPT ![w].step = "truncate", ![w].prev = bag]
      PROVE  job'[w] = [job[w] EXCEPT !.step = "truncate", !.prev = bag]
  BY <1>0, <1>4
<1> QED
  BY <1>1, <1>3, <1>4 DEF LoadPlayer, At, store

LEMMA TruncateStep ==
    ASSUME DurableInv, NEW w \in Workers, Truncate(w)
    PROVE  /\ job[w].step = "truncate"
           /\ job'[w] = Idle \/ job'[w] = [job[w] EXCEPT !.step = "write"]
           /\ risk' = risk \/ SetPlayer(Player(w), "empty", NoLines)
<1>0. job \in [Workers -> [step : Steps, lines : Seq(Events), i : Nat, j : Nat, prev : Bag]]
  BY JobType DEF DurableInv
<1> QED
  BY <1>0 DEF Truncate, At, Continue, HandlerReturns

LEMMA WriteStep ==
    ASSUME DurableInv, NEW w \in Workers, Write(w)
    PROVE  /\ job[w].step = "write"
           /\ \/ job'[w] = Idle
              \/ job'[w] = NextEntry([job[w] EXCEPT !.step = "score", !.prev = NoLines])
           /\ \/ /\ SetPlayer(Player(w), "whole", [job[w].prev EXCEPT ![Line(w)] = @ + 1])
                 /\ job'[w] = NextEntry([job[w] EXCEPT !.step = "score", !.prev = NoLines])
              \/ SetPlayer(Player(w), "garbled", NoLines)
<1>0. job \in [Workers -> [step : Steps, lines : Seq(Events), i : Nat, j : Nat, prev : Bag]]
  BY JobType DEF DurableInv
<1>1. ASSUME job' = [job EXCEPT ![w] = NextEntry([@ EXCEPT !.step = "score", !.prev = NoLines])]
      PROVE  job'[w] = NextEntry([job[w] EXCEPT !.step = "score", !.prev = NoLines])
  BY <1>0, <1>1
<1>2. HandlerReturns(w, "fail") => job'[w] = Idle
  BY <1>0 DEF HandlerReturns
<1> QED
  BY <1>1, <1>2 DEF Write, At

\* The entry after one that has been scored.
LEMMA NextEntryIs ==
    ASSUME DurableInv, NEW w \in Workers,
           job'[w] = NextEntry([job[w] EXCEPT !.step = "score", !.prev = NoLines])
    PROVE  /\ job'[w].step = "score" /\ job'[w].lines = job[w].lines
           /\ \/ job'[w].i = job[w].i /\ job'[w].j = job[w].j + 1
              \/ job'[w].i = job[w].i + 1 /\ job'[w].j = 1
<1>0. job \in [Workers -> [step : Steps, lines : Seq(Events), i : Nat, j : Nat, prev : Bag]]
  BY JobType DEF DurableInv
<1> DEFINE x == [job[w] EXCEPT !.step = "score", !.prev = NoLines]
<1>1. /\ x \in [step : Steps, lines : Seq(Events), i : Nat, j : Nat, prev : Bag]
      /\ x.step = "score" /\ x.i = job[w].i /\ x.j = job[w].j /\ x.lines = job[w].lines
  BY <1>0, NoLinesType DEF Steps
<1> HIDE DEF x
<1>2. job'[w] = NextEntry(x)
  BY DEF x
<1> QED
  BY <1>1, <1>2 DEF NextEntry
-----------------------------------------------------------------------------
(* What a step does to the telemetry files *)

\* Only ingest writes them, and a submission that has written stays so.
LEMMA SinkStep ==
    ASSUME DurableInv, [WorkerNext]_allVars
    PROVE  \/ UNCHANGED <<sink, call>>
           \/ \E e \in Events : TS!Submit(e)
<1>1. ASSUME NEW e \in Events, Ingest(e) PROVE TS!Submit(e)
  BY <1>1 DEF Ingest
<1>2. ASSUME NEW e \in Events, Enqueue(e) \/ Age(e) PROVE UNCHANGED <<sink, call>>
  BY <1>2 DEF Enqueue, Age, sinkVars
<1>3. ASSUME NEW w \in Workers, ProcessStep(w) \/ LoopStep(w)
      PROVE  UNCHANGED <<sink, call>>
  BY <1>3 DEF ProcessStep, LoopStep, sinkVars
<1>4. ASSUME NEW w \in Workers, Handler(w) PROVE UNCHANGED <<sink, call>>
  BY <1>4, HandlerSteps
<1>5. CASE UNCHANGED allVars
  BY <1>5 DEF allVars, sinkVars
<1> QED
  BY <1>1, <1>2, <1>3, <1>4, <1>5 DEF WorkerNext

LEMMA CallStep ==
    ASSUME DurableInv, [WorkerNext]_allVars, NEW l \in Events, WrittenOut(l)
    PROVE  WrittenOut(l)'
<1>0. call \in [Events -> {"new", "stamped", "written", "cut", "failed"}]
  BY DEF DurableInv, WorkerTypeOK, TS!TypeOK
<1> QED
  BY <1>0, SinkStep DEF TS!Submit, TS!Stamp, TS!Body, TS!SinkError, TS!CutShort, WrittenOut

\* A fragment at the end of a file.
LEMMA AppendFragment ==
    ASSUME DurableInv, NEW e \in Events, NEW part \in TS!Parts,
           TS!WriteFragment(e, part), NEW m \in Matches
    PROVE  \/ sink'[m] = sink[m]
           \/ /\ m = MatchOf[e]
              /\ Len(sink[m]) \in Nat /\ DOMAIN sink[m] = 1..Len(sink[m])
              /\ DOMAIN sink'[m] = 1..(Len(sink[m]) + 1)
              /\ \A k \in DOMAIN sink[m] : sink'[m][k] = sink[m][k]
              /\ sink'[m][Len(sink[m]) + 1] = [of |-> e, part |-> part]
<1>0. sink \in [Matches -> Seq(TS!Fragment)] /\ MatchOf[e] \in Matches
  BY MatchOfAssumption DEF DurableInv, WorkerTypeOK, TS!TypeOK
<1> DEFINE x == [of |-> e, part |-> part]
<1>1. x \in TS!Fragment
  BY DEF TS!Fragment
<1> HIDE DEF x
<1>2. ASSUME NEW s \in Seq(TS!Fragment)
      PROVE  /\ Len(s) \in Nat /\ DOMAIN s = 1..Len(s)
             /\ DOMAIN Append(s, x) = 1..(Len(s) + 1)
             /\ \A k \in DOMAIN s : Append(s, x)[k] = s[k]
             /\ Append(s, x)[Len(s) + 1] = x
  BY <1>1
<1>3. sink' = [sink EXCEPT ![MatchOf[e]] = Append(@, x)]
  BY DEF TS!WriteFragment, x
<1>4. sink[m] \in Seq(TS!Fragment)
  BY <1>0
<1>5. m # MatchOf[e] => sink'[m] = sink[m]
  BY <1>0, <1>3
<1>6. m = MatchOf[e] => sink'[m] = Append(sink[m], x)
  BY <1>0, <1>3
<1>7. x = [of |-> e, part |-> part]
  BY DEF x
<1> QED
  BY <1>2, <1>4, <1>5, <1>6, <1>7

LEMMA BodyStep ==
    ASSUME DurableInv, BodyInv, [WorkerNext]_allVars
    PROVE  BodyInv'
<1>0. call \in [Events -> {"new", "stamped", "written", "cut", "failed"}]
  BY DEF DurableInv, WorkerTypeOK, TS!TypeOK
<1>1. CASE UNCHANGED <<sink, call>>
  BY <1>1 DEF BodyInv, WrittenOut
<1>2. ASSUME NEW e \in Events, TS!Stamp(e) PROVE BodyInv'
  <2>1. \A l : WrittenOut(l) => WrittenOut(l)'
    BY <1>0, <1>2 DEF TS!Stamp, WrittenOut
  <2>2. ASSUME NEW m \in Matches, NEW k \in DOMAIN sink'[m], sink'[m][k].part \in Bodies
        PROVE  k \in DOMAIN sink[m] /\ sink[m][k] = sink'[m][k]
    <3>1. TS!WriteFragment(e, "stamp")
      BY <1>2 DEF TS!Stamp
    <3>2. CASE sink'[m] = sink[m]
      BY <2>2, <3>2
    <3>3. CASE sink'[m] # sink[m]
      <4>1. /\ Len(sink[m]) \in Nat /\ DOMAIN sink[m] = 1..Len(sink[m])
            /\ DOMAIN sink'[m] = 1..(Len(sink[m]) + 1)
            /\ \A n \in DOMAIN sink[m] : sink'[m][n] = sink[m][n]
            /\ sink'[m][Len(sink[m]) + 1] = [of |-> e, part |-> "stamp"]
        BY <3>1, <3>3, AppendFragment DEF TS!Parts
      <4>2. k # Len(sink[m]) + 1
        BY <2>2, <4>1 DEF Bodies
      <4>3. k \in DOMAIN sink[m]
        BY <4>1, <4>2
      <4> QED
        BY <4>1, <4>3
    <3> QED
      BY <3>2, <3>3
  <2> QED
    BY <2>1, <2>2 DEF BodyInv
<1>3. ASSUME NEW e \in Events, TS!Body(e) \/ TS!CutShort(e) PROVE BodyInv'
  <2>1. /\ \A l : WrittenOut(l) => WrittenOut(l)'
        /\ WrittenOut(e)' /\ ~WrittenOut(e)
    <3>1. CASE TS!Body(e)
      BY <1>0, <3>1 DEF TS!Body, WrittenOut
    <3>2. CASE TS!CutShort(e)
      BY <1>0, <3>2 DEF TS!CutShort, WrittenOut
    <3> QED
      BY <1>3, <3>1, <3>2
  <2>2. PICK part \in Bodies : TS!WriteFragment(e, part)
    BY <1>3 DEF TS!Body, TS!CutShort, Bodies
  <2>3. ASSUME NEW m \in Matches, NEW k \in DOMAIN sink'[m]
        PROVE  \/ k \in DOMAIN sink[m] /\ sink'[m][k] = sink[m][k]
               \/ /\ k = Len(sink[m]) + 1 /\ m = MatchOf[e]
                  /\ sink'[m][k] = [of |-> e, part |-> part]
    <3>1. part \in TS!Parts
      BY DEF Bodies, TS!Parts
    <3>2. CASE sink'[m] = sink[m]
      BY <3>2
    <3>3. CASE sink'[m] # sink[m]
      <4>1. /\ Len(sink[m]) \in Nat /\ DOMAIN sink[m] = 1..Len(sink[m]) /\ m = MatchOf[e]
            /\ DOMAIN sink'[m] = 1..(Len(sink[m]) + 1)
            /\ \A n \in DOMAIN sink[m] : sink'[m][n] = sink[m][n]
            /\ sink'[m][Len(sink[m]) + 1] = [of |-> e, part |-> part]
        BY <2>2, <3>1, <3>3, AppendFragment
      <4>2. k = Len(sink[m]) + 1 \/ k \in 1..Len(sink[m])
        BY <4>1
      <4> QED
        BY <4>1, <4>2
    <3> QED
      BY <3>2, <3>3
  <2> QED
    BY <2>1, <2>3 DEF BodyInv
<1>4. ASSUME NEW e \in Events, TS!SinkError(e) PROVE BodyInv'
  BY <1>0, <1>4 DEF TS!SinkError, BodyInv, WrittenOut
<1> QED
  BY <1>1, <1>2, <1>3, <1>4, SinkStep DEF TS!Submit

\* The lines of a file that can be read are those of its bodies.
LEMMA ReadableLines ==
    ASSUME DurableInv, BodyInv, NEW m \in Matches, TS!Readable(sink[m])
    PROVE  LET lines == TS!Lines(sink[m])
           IN  \A i \in DOMAIN lines :
                  /\ WrittenOut(lines[i]) /\ MatchOf[lines[i]] = m
                  /\ \A k \in DOMAIN lines : k # i => lines[k] # lines[i]
<1> DEFINE f == sink[m]
           n == Len(f) \div 2
           lines == TS!Lines(f)
<1>1. f \in Seq(TS!Fragment) /\ Len(f) \in Nat /\ DOMAIN f = 1..Len(f)
  BY DEF DurableInv, WorkerTypeOK, TS!TypeOK
<1>2. \A a \in Nat : \A i \in 1..(a \div 2) : 2 * i \in 1..a
  OBVIOUS
<1>3. DOMAIN lines = 1..n /\ \A i \in 1..n : lines[i] = f[2 * i].of
  BY DEF TS!Lines
<1>4. \A i \in 1..n : f[2 * i].part \in Bodies
  BY DEF TS!Readable, Bodies
<1>5. \A i \in 1..n : 2 * i \in DOMAIN f
  BY <1>1, <1>2
<1>6. \A i, k \in 1..n : k # i => 2 * k # 2 * i
  OBVIOUS
<1> HIDE DEF f, n, lines
<1>7. f = sink[m]
  BY DEF f
<1>8. \A i \in DOMAIN lines :
         /\ WrittenOut(lines[i]) /\ MatchOf[lines[i]] = m
         /\ \A k \in DOMAIN lines : k # i => lines[k] # lines[i]
  BY <1>3, <1>4, <1>5, <1>6, <1>7 DEF BodyInv
<1> QED
  BY <1>8 DEF lines, f

-----------------------------------------------------------------------------
(* Only what was written is loaded and counted *)

LEMMA LoadedStep ==
    ASSUME DurableInv, BodyInv, LoadedInv, [WorkerNext]_allVars
    PROVE  LoadedInv'
<1> SUFFICES ASSUME NEW w \in Workers, NEW i \in DOMAIN job'[w].lines
             PROVE  /\ WrittenOut(job[w].lines[i])'
                    /\ MatchOf[job'[w].lines[i]] = Match(w)'
                    /\ \A k \in DOMAIN job'[w].lines : k # i => job'[w].lines[k] # job'[w].lines[i]
  BY DEF LoadedInv
<1>0. job \in [Workers -> [step : Steps, lines : Seq(Events), i : Nat, j : Nat, prev : Bag]]
  BY JobType DEF DurableInv
<1>1. CASE job'[w].lines = <<>>
  BY <1>1
<1>2. CASE job'[w].lines = job[w].lines /\ cur'[w] = cur[w]
  <2>1. job[w].lines[i] \in Events
    BY <1>0, <1>2
  <2> QED
    BY <1>2, <2>1, CallStep DEF LoadedInv, Match
<1>3. CASE ~Handler(w)
  <2>1. Idle.lines = <<>>
    BY DEF Idle
  <2> QED
    BY <1>1, <1>2, <1>3, <2>1, OtherSteps
<1>4. CASE Handler(w)
  <2>1. cur'[w] = cur[w] /\ call' = call /\ cur[w] \in Events /\ Idle.lines = <<>>
    BY <1>4, HandlerSteps DEF Idle
  <2>2. CASE TS!Readable(sink[Match(w)]) /\ job'[w] = Loaded(TS!Lines(sink[Match(w)]))
    <3>1. Match(w) \in Matches
      BY <2>1, MatchOfAssumption DEF Match
    <3>2. job'[w].lines = TS!Lines(sink[Match(w)]) /\ Match(w)' = Match(w)
      BY <2>1, <2>2 DEF Loaded, Match
    <3>3. \A k \in DOMAIN job'[w].lines :
             /\ WrittenOut(job'[w].lines[k]) /\ MatchOf[job'[w].lines[k]] = Match(w)
             /\ \A n \in DOMAIN job'[w].lines : n # k => job'[w].lines[n] # job'[w].lines[k]
      BY <2>2, <3>1, <3>2, ReadableLines
    <3> QED
      BY <2>1, <3>2, <3>3 DEF WrittenOut
  <2>3. CASE LoadPlayer(w)
    <3>1. CASE pc'[w] = "handling"
      <4>0. PICK bag : job'[w] = [job[w] EXCEPT !.step = "truncate", !.prev = bag]
        BY <2>3, <3>1, LoadPlayerStep
      <4>1. job'[w].lines = job[w].lines
        BY <1>0, <4>0
      <4> QED
        BY <1>2, <2>1, <4>1
    <3> QED
      BY <1>1, <1>4, <2>1, <2>2, <2>3, <3>1, HandlerSteps
  <2>4. CASE Truncate(w)
    <3>0. job'[w] = Idle \/ job'[w] = [job[w] EXCEPT !.step = "write"]
      BY <2>4, TruncateStep
    <3>1. job'[w].lines = <<>> \/ job'[w].lines = job[w].lines
      BY <1>0, <2>1, <3>0
    <3> QED
      BY <1>1, <1>2, <2>1, <3>1
  <2>5. CASE Write(w)
    BY <1>0, <1>1, <1>2, <2>1, <2>5, WriteStep, NextEntryIs
  <2>6. \A step : job'[w] = [job[w] EXCEPT !.step = step] => job'[w].lines = job[w].lines
    BY <1>0
  <2> QED
    BY <1>1, <1>2, <1>4, <2>1, <2>2, <2>3, <2>4, <2>5, <2>6, HandlerSteps
<1> QED
  BY <1>3, <1>4

\* The entry that a worker is saving, while it does.
LEMMA SavingEntry ==
    ASSUME DurableInv, NEW w \in Workers, InSave(w)
    PROVE  /\ pc[w] = "handling" /\ cur[w] \in Events
           /\ job[w].i \in DOMAIN job[w].lines /\ Line(w) = job[w].lines[job[w].i]
           /\ Line(w) \in Events
           /\ job[w].j \in DOMAIN PlayersOf[Line(w)]
           /\ Player(w) = PlayersOf[Line(w)][job[w].j]
           /\ Player(w) \in Players \cup {Refused}
<1>1. pc[w] = "handling"
  BY DEF InSave, DurableInv, LedgerThenMarker, Idle
<1>2. cur[w] \in Events
  BY <1>1 DEF DurableInv, WorkerTypeOK, TypeOK, Holding
<1>3. job[w].i \in DOMAIN job[w].lines /\ job[w].j \in DOMAIN PlayersOf[Line(w)]
  BY DEF InSave, DurableInv, WorkerTypeOK
<1> QED
  BY <1>1, <1>2, <1>3, PlayerType DEF DurableInv, Line, Player

\* Only a Save changes what is in a player's file.
LEMMA CountStep ==
    ASSUME DurableInv, [WorkerNext]_allVars, NEW p \in Players
    PROVE  \/ risk'[p].counted \in {risk[p].counted, NoLines}
           \/ \E w \in Workers :
                 /\ Write(w) /\ InSave(w) /\ Player(w) = p
                 /\ risk'[p].counted = [job[w].prev EXCEPT ![Line(w)] = @ + 1]
                 /\ job'[w] = NextEntry([job[w] EXCEPT !.step = "score", !.prev = NoLines])
<1>0. risk \in [Players -> PlayerFile]
  BY DEF DurableInv, WorkerTypeOK
<1>1. ASSUME NEW q, NEW state, NEW bag, SetPlayer(q, state, bag)
      PROVE  risk'[p].counted = IF p = q THEN bag ELSE risk[p].counted
  BY <1>0, <1>1 DEF SetPlayer
<1>2. ASSUME NEW e \in Events, Ingest(e) \/ Enqueue(e) \/ Age(e) PROVE risk' = risk
  BY <1>2 DEF Ingest, Enqueue, Age, store
<1>3. ASSUME NEW w \in Workers, ProcessStep(w) \/ LoopStep(w) PROVE risk' = risk
  BY <1>3 DEF ProcessStep, LoopStep, store
<1>4. ASSUME NEW w \in Workers, Handler(w), ~Truncate(w), ~Write(w) PROVE risk' = risk
  BY <1>4 DEF Handler, CheckGrace, CheckApplied, LoadTelemetry, LoadPlayer, AppendLedger,
              MarkApplied, store
<1>5. ASSUME NEW w \in Workers, Truncate(w)
      PROVE  risk'[p].counted \in {risk[p].counted, NoLines}
  <2>1. CASE risk' = risk
    BY <2>1
  <2>2. CASE SetPlayer(Player(w), "empty", NoLines)
    <3>1. risk'[p].counted = IF p = Player(w) THEN NoLines ELSE risk[p].counted
      BY <1>1, <2>2
    <3> QED
      BY <3>1
  <2> QED
    BY <1>5, <2>1, <2>2, TruncateStep
<1>6. ASSUME NEW w \in Workers, Write(w)
      PROVE  \/ risk'[p].counted \in {risk[p].counted, NoLines}
             \/ /\ InSave(w) /\ Player(w) = p
                /\ risk'[p].counted = [job[w].prev EXCEPT ![Line(w)] = @ + 1]
                /\ job'[w] = NextEntry([job[w] EXCEPT !.step = "score", !.prev = NoLines])
  <2>1. CASE SetPlayer(Player(w), "garbled", NoLines)
    <3>1. risk'[p].counted = IF p = Player(w) THEN NoLines ELSE risk[p].counted
      BY <1>1, <2>1
    <3> QED
      BY <3>1
  <2>2. CASE /\ SetPlayer(Player(w), "whole", [job[w].prev EXCEPT ![Line(w)] = @ + 1])
             /\ job'[w] = NextEntry([job[w] EXCEPT !.step = "score", !.prev = NoLines])
    <3> DEFINE bag == [job[w].prev EXCEPT ![Line(w)] = @ + 1]
    <3>1. SetPlayer(Player(w), "whole", bag)
      BY <2>2
    <3>2. InSave(w)
      BY <1>6, WriteStep DEF InSave
    <3> HIDE DEF bag
    <3>3. risk'[p].counted = IF p = Player(w) THEN bag ELSE risk[p].counted
      BY <1>1, <3>1
    <3>4. p # Player(w) \/ risk'[p].counted = [job[w].prev EXCEPT ![Line(w)] = @ + 1]
      BY <3>3 DEF bag
    <3> QED
      BY <2>2, <3>2, <3>3, <3>4
  <2> QED
    BY <1>6, <2>1, <2>2, WriteStep
<1>7. CASE UNCHANGED allVars
  BY <1>7 DEF allVars, store
<1> QED
  BY <1>2, <1>3, <1>4, <1>5, <1>6, <1>7 DEF WorkerNext

\* What a worker that saves has loaded.
LEMMA PrevStep ==
    ASSUME DurableInv, [WorkerNext]_allVars, NEW w \in Workers, InSave(w)'
    PROVE  /\ Player(w)' = Player(w) /\ Line(w)' = Line(w)
           /\ \/ InSave(w) /\ job'[w].prev = job[w].prev
              \/ /\ ~InSave(w) /\ Player(w) \in Players
                 /\ job'[w].prev \in {risk[Player(w)].counted, NoLines}
<1>0. /\ job \in [Workers -> [step : Steps, lines : Seq(Events), i : Nat, j : Nat, prev : Bag]]
      /\ Idle.step = "grace"
  BY JobType DEF DurableInv, Idle
<1>1. CASE job'[w] = job[w]
  BY <1>1 DEF InSave, Player, Line
<1>2. job'[w] # Idle
  BY <1>0 DEF InSave
<1>3. CASE ~Handler(w)
  BY <1>1, <1>2, <1>3, OtherSteps
<1>4. CASE Truncate(w)
  <2>1. job[w].step = "truncate" /\ job'[w] = [job[w] EXCEPT !.step = "write"]
    BY <1>2, <1>4, TruncateStep
  <2>2. /\ job'[w].lines = job[w].lines /\ job'[w].prev = job[w].prev
        /\ job'[w].i = job[w].i /\ job'[w].j = job[w].j
    BY <1>0, <2>1
  <2> QED
    BY <2>1, <2>2 DEF InSave, Player, Line
<1>5. CASE Write(w)
  <2>1. job'[w].step = "score"
    BY <1>2, <1>5, WriteStep, NextEntryIs
  <2> QED
    BY <2>1 DEF InSave
<1>6. CASE LoadPlayer(w)
  <2>1. pc'[w] = "handling"
    BY <1>2, <1>6, HandlerSteps DEF Handler
  <2>2. PICK bag : /\ job'[w] = [job[w] EXCEPT !.step = "truncate", !.prev = bag]
                   /\ Player(w) \in Players
                   /\ bag = NoLines \/ bag = risk[Player(w)].counted
                   /\ job[w].step = "score"
    BY <1>6, <2>1, LoadPlayerStep
  <2>3. /\ job'[w].lines = job[w].lines /\ job'[w].prev = bag
        /\ job'[w].i = job[w].i /\ job'[w].j = job[w].j
    BY <1>0, <2>2
  <2> QED
    BY <2>2, <2>3 DEF InSave, Player, Line
<1>7. CASE Handler(w) /\ ~Truncate(w) /\ ~Write(w) /\ ~LoadPlayer(w)
  <2>1. \A step : job'[w] = [job[w] EXCEPT !.step = step] => job'[w].step = step
    BY <1>0
  <2>2. \A lines : Loaded(lines).step = "score"
    BY DEF Loaded
  <2>3. \/ \E step \in {"applied", "load", "mark"} : job'[w] = [job[w] EXCEPT !.step = step]
        \/ \E lines : job'[w] = Loaded(lines)
    BY <1>2, <1>7, HandlerSteps
  <2>4. job'[w].step \notin {"truncate", "write"}
    BY <2>1, <2>2, <2>3
  <2> QED
    BY <2>4 DEF InSave
<1> QED
  BY <1>3, <1>4, <1>5, <1>6, <1>7

LEMMA NoneCounted == \A l \in Events : NoLines[l] = 0
BY DEF NoLines

LEMMA WrittenStep ==
    ASSUME DurableInv, LoadedInv, WrittenInv, [WorkerNext]_allVars
    PROVE  WrittenInv'
<1>2. \A p : WrittenBag(p, NoLines)
  BY NoneCounted DEF WrittenBag
<1>3. ASSUME NEW p \in Players PROVE WrittenBag(p, risk[p].counted)'
  <2>1. CASE risk'[p].counted \in {risk[p].counted, NoLines}
    <3>1. WrittenBag(p, risk'[p].counted)
      BY <1>2, <2>1 DEF WrittenInv
    <3> QED
      BY <3>1, CallStep DEF WrittenBag
  <2>2. ASSUME NEW w \in Workers, Write(w), InSave(w), Player(w) = p,
               risk'[p].counted = [job[w].prev EXCEPT ![Line(w)] = @ + 1]
        PROVE  WrittenBag(p, risk[p].counted)'
    <3>1. /\ WrittenOut(Line(w)) /\ p \in Range(PlayersOf[Line(w)])
          /\ Line(w) \in Events
      BY <2>2, SavingEntry DEF LoadedInv, Range
    <3>2. job[w].prev \in Bag /\ WrittenBag(p, job[w].prev)
      BY <2>2, JobType DEF DurableInv, WrittenInv
    <3>3. \A l \in Events \ {Line(w)} : risk'[p].counted[l] = job[w].prev[l]
      BY <2>2, <3>2 DEF Bag
    <3> QED
      BY <3>1, <3>2, <3>3, CallStep DEF WrittenBag
  <2> QED
    BY <2>1, <2>2, CountStep
<1>4. ASSUME NEW w \in Workers, InSave(w)'
      PROVE  (Player(w) \in Players /\ WrittenBag(Player(w), job[w].prev))'
  <2>1. Player(w) \in Players /\ WrittenBag(Player(w), job'[w].prev) /\ Player(w)' = Player(w)
    BY <1>2, <1>4, PrevStep DEF WrittenInv
  <2> QED
    BY <2>1, CallStep DEF WrittenBag
<1> QED
  BY <1>3, <1>4 DEF WrittenInv

LEMMA CountInit == WorkerInit => CountInv
<1> SUFFICES ASSUME WorkerInit PROVE CountInv
  OBVIOUS
<1>1. BodyInv
  BY DEF WorkerInit, TS!Init, BodyInv
<1>2. LoadedInv
  BY DEF WorkerInit, LoadedInv, Idle
<1>3. WrittenInv
  BY NoneCounted DEF WorkerInit, WrittenInv, WrittenBag, InSave, Idle
<1> QED
  BY <1>1, <1>2, <1>3 DEF CountInv

LEMMA CountKept == DurableInv /\ CountInv /\ [WorkerNext]_allVars => CountInv'
BY BodyStep, LoadedStep, WrittenStep DEF CountInv

LEMMA CountInductive == WorkerSpec => []CountInv
BY DurableInductive, CountInit, CountKept, PTL DEF WorkerSpec

\* A line is counted for a player only after its submission has written it
\* out (service.go:145), and only for the players it lists, whatever handlers
\* read in the middle of an append, fail at or lose.
THEOREM CountsOnlyWritten == WorkerSpec => []CountedWasWritten
<1>1. CountInv => CountedWasWritten
  BY DEF CountInv, WrittenInv, WrittenBag, CountedWasWritten, Counted
<1> QED
  BY <1>1, CountInductive, PTL

-----------------------------------------------------------------------------
(* What a step does to an event that has been taken *)

\* Enqueue accepts one event at a time, for good.
LEMMA AcceptedStep ==
    ASSUME TypeOK, [Next]_vars
    PROVE  /\ Accepted \subseteq Accepted'
           /\ \E e : Accepted' \subseteq Accepted \cup {e}
<1>0. enq \in [Events -> {"idle", "opened", "written", "ok", "error"}]
  BY DEF TypeOK
<1>1. ASSUME NEW e \in Events, Enqueuing(e)
      PROVE  Accepted \subseteq Accepted' /\ Accepted' \subseteq Accepted \cup {e}
  BY <1>0, <1>1 DEF Enqueuing, CreateTmp, WriteTmp, Publish, EnqueueError, Accepted
<1>2. CASE enq' = enq
  BY <1>2 DEF Accepted
<1>3. ASSUME NEW w \in Workers, Lifecycle(w) \/ Loop(w) \/ \E verdict \in Verdicts : Return(w, verdict)
      PROVE  enq' = enq
  BY <1>3 DEF Lifecycle, Start, Stop, Crash, Loop, Poll, PollError, NonePending, Claim, Skip,
              ReadEvent, ReadError, MarkDone, Requeue, WriteSidecar, MarkFailed, Return,
              producerVars
<1> QED
  BY <1>1, <1>2, <1>3 DEF Next, vars

\* A rename to another directory than pending/ brings nothing there.
LEMMA RenameElsewhere ==
    ASSUME TypeOK, NEW e \in Events, NEW from \in Directories,
           NEW to \in Directories \ {"pending"}, from # to, TryRename(e, from, to)
    PROVE  dir'["pending"] \subseteq dir["pending"]
BY DEF TryRename, Renamed, TypeOK, Directories

\* An event comes to pending/ when it is published and when it is requeued.
LEMMA PendingStep ==
    ASSUME IInv, [Next]_vars, NEW e \in Events, enq[e] = "ok",
           e \notin dir["pending"], e \in dir'["pending"]
    PROVE  \E w \in Workers : cur[w] = e /\ pc[w] = "requeue"
<1>0. /\ TypeOK
      /\ \A w \in Workers : pc[w] \in Holding => cur[w] \in Events
      /\ dir \in [Directories -> SUBSET Events]
  BY DEF IInv, TypeOK
<1>1. ASSUME NEW f \in Events, Enqueuing(f) PROVE FALSE
  <2>1. CASE Publish(f)
    <3>1. f # e
      BY <2>1 DEF Publish
    <3> QED
      BY <1>0, <2>1, <3>1, RenamedMoves DEF Publish, Directories
  <2>2. CASE CreateTmp(f) \/ WriteTmp(f) \/ EnqueueError(f)
    BY <1>0, <2>2 DEF CreateTmp, WriteTmp, EnqueueError, Directories
  <2> QED
    BY <1>1, <2>1, <2>2 DEF Enqueuing
<1>2. ASSUME NEW w \in Workers, Loop(w), ~Requeue(w) PROVE FALSE
  <2>1. CASE \E f \in Events : Claim(w, f)
    <3>1. PICK f \in Events : Claim(w, f)
      BY <2>1
    <3>2. TryRename(f, "pending", "processing")
      BY <3>1 DEF Claim, TryRename
    <3> QED
      BY <1>0, <3>2 DEF TryRename, Renamed, Directories
  <2>2. CASE ReadError(w) \/ MarkDone(w) \/ MarkFailed(w)
    <3>1. cur[w] \in Events
      BY <1>0, <2>2 DEF ReadError, MarkDone, MarkFailed, Holding, Verdicts
    <3> QED
      BY <1>0, <2>2, <3>1, RenameElsewhere DEF ReadError, MarkDone, MarkFailed, Directories
  <2>3. CASE \/ Poll(w) \/ PollError(w) \/ NonePending(w) \/ ReadEvent(w) \/ WriteSidecar(w)
             \/ \E f \in Events : Skip(w, f)
    BY <2>3 DEF Poll, PollError, NonePending, ReadEvent, WriteSidecar, Skip
  <2> QED
    BY <1>2, <2>1, <2>2, <2>3 DEF Loop
<1>3. ASSUME NEW w \in Workers, Requeue(w) PROVE cur[w] = e /\ pc[w] = "requeue"
  <2>1. pc[w] = "requeue" /\ cur[w] \in Events
    BY <1>0, <1>3 DEF Requeue, Holding, Verdicts
  <2>2. ASSUME cur[w] # e PROVE FALSE
    BY <1>0, <1>3, <2>1, <2>2, RenamedMoves DEF Requeue, TryRename, Directories
  <2> QED
    BY <2>1, <2>2
<1>4. ASSUME NEW w \in Workers, Lifecycle(w) \/ \E verdict \in Verdicts : Return(w, verdict)
      PROVE  FALSE
  BY <1>4 DEF Lifecycle, Start, Stop, Crash, Return
<1>5. CASE UNCHANGED vars
  BY <1>5 DEF vars
<1> QED
  BY <1>1, <1>2, <1>3, <1>4, <1>5 DEF Next

\* Nobody comes to hold an event that is not pending.
LEMMA ComesFromPending ==
    ASSUME TypeOK, [Next]_vars, NEW w \in Workers, NEW e \in Events,
           cur'[w] = e, cur[w] # e
    PROVE  e \in dir["pending"]
<1>0. cur \in [Workers -> Events \cup {NoEvent}] /\ e # NoEvent
  BY NoEventAssumption DEF TypeOK
<1>1. ASSUME NEW v \in Workers, NEW f \in Events, Claim(v, f) PROVE e \in dir["pending"]
  BY <1>0, <1>1 DEF Claim
<1>2. ASSUME NEW v \in Workers, Loop(v), ~\E f \in Events : Claim(v, f) PROVE FALSE
  BY <1>0, <1>2 DEF Loop, Poll, PollError, NonePending, Skip, ReadEvent, ReadError, MarkDone,
                    Requeue, WriteSidecar, MarkFailed, EndIteration
<1>3. ASSUME NEW v \in Workers, Lifecycle(v) \/ \E verdict \in Verdicts : Return(v, verdict)
      PROVE  FALSE
  BY <1>0, <1>3 DEF Lifecycle, Start, Stop, Crash, Return, EndIteration
<1>4. ASSUME NEW f \in Events, Enqueuing(f) PROVE FALSE
  BY <1>4 DEF Enqueuing, CreateTmp, WriteTmp, Publish, EnqueueError, workerVars
<1>5. CASE UNCHANGED vars
  BY <1>5 DEF vars
<1> QED
  BY <1>1, <1>2, <1>3, <1>4, <1>5 DEF Next

\* A worker that keeps its event without handling it is where it was, or a
\* step further.
LEMMA HolderStep ==
    ASSUME DurableInv, [WorkerNext]_allVars, NEW w \in Workers, ~Handler(w),
           cur[w] \in Events, cur'[w] = cur[w]
    PROVE  \/ pc'[w] = pc[w] /\ job'[w] = job[w]
           \/ pc[w] = "claimed"
           \/ pc[w] = "fail" /\ pc'[w] = "failing"
<1>0. /\ pc \in [Workers -> {"down", "idle", "scanning"} \cup Holding]
      /\ cur \in [Workers -> Events \cup {NoEvent}] /\ cur[w] # NoEvent
      /\ pc[w] \in Holding
  BY NoEventAssumption DEF DurableInv, WorkerTypeOK, TypeOK
<1>1. ASSUME NEW e \in Events, Ingest(e) \/ Enqueue(e) \/ Age(e)
      PROVE  UNCHANGED <<job, pc>>
  BY <1>1 DEF Ingest, Enqueue, Age, Enqueuing, CreateTmp, WriteTmp, Publish, EnqueueError, vars,
              workerVars
<1>2. ASSUME NEW v \in Workers, ProcessStep(v) PROVE v # w
  BY <1>0, <1>2 DEF ProcessStep, Lifecycle, Start, Stop, Crash, EndIteration, Holding, Verdicts
<1>3. ASSUME NEW v \in Workers, ProcessStep(v)
      PROVE  pc'[w] = pc[w] /\ job'[w] = job[w]
  BY <1>0, <1>2, <1>3, JobType
     DEF ProcessStep, Lifecycle, Start, Stop, Crash, Goto, EndIteration, DurableInv
<1>4. ASSUME NEW v \in Workers, LoopStep(v)
      PROVE  /\ job' = job
             /\ pc'[w] = pc[w] \/ pc[w] = "claimed" \/ (pc[w] = "fail" /\ pc'[w] = "failing")
  <2>1. \A u : EndIteration(v, u) => v # w
    BY <1>0 DEF EndIteration
  <2>2. job' = job /\ Loop(v)
    BY <1>4 DEF LoopStep
  <2>3. CASE v # w
    BY <1>0, <2>2, <2>3
       DEF Loop, Poll, PollError, NonePending, Claim, Skip, ReadEvent, ReadError, MarkDone,
           Requeue, WriteSidecar, MarkFailed, Goto, EndIteration
  <2>4. CASE v = w /\ \/ Poll(v) \/ PollError(v) \/ NonePending(v) \/ ReadError(v)
                      \/ MarkDone(v) \/ Requeue(v) \/ MarkFailed(v) \/ \E e \in Events : Claim(v, e)
    BY <1>0, <2>1, <2>4
       DEF Poll, PollError, NonePending, Claim, ReadError, MarkDone, Requeue, MarkFailed, Holding,
           Verdicts
  <2>5. CASE v = w /\ (ReadEvent(v) \/ WriteSidecar(v) \/ \E e \in Events : Skip(v, e))
    BY <1>0, <2>2, <2>5 DEF ReadEvent, WriteSidecar, Skip, Goto
  <2> QED
    BY <2>2, <2>3, <2>4, <2>5 DEF Loop
<1>5. ASSUME NEW v \in Workers, Handler(v) PROVE pc'[w] = pc[w] /\ job'[w] = job[w]
  BY <1>5, HandlerSteps
<1>6. CASE UNCHANGED allVars
  BY <1>6 DEF allVars, vars
<1> QED
  BY <1>1, <1>3, <1>4, <1>5, <1>6 DEF WorkerNext

-----------------------------------------------------------------------------
(* Tokens *)

\* The handler does not go back to an entry.
LEMMA HandlerPassed ==
    ASSUME DurableInv, NEW w \in Workers, Handler(w), NEW l, NEW j \in Nat, Passed(w, l, j)
    PROVE  Passed(w, l, j)'
<1>0. /\ job \in [Workers -> [step : Steps, lines : Seq(Events), i : Nat, j : Nat, prev : Bag]]
      /\ pc[w] = "handling"
  BY JobType, HandlerSteps DEF DurableInv
<1>0a. pc'[w] = "handling" => ~HandlerReturns(w, "fail")
  BY DEF HandlerReturns, Return, Goto, DurableInv, WorkerTypeOK, TypeOK
<1>1. CASE pc'[w] \in {"done", "fail"}
  BY <1>1 DEF Passed
<1>2. job[w].step \in {"score", "truncate", "write", "mark"}
  BY <1>0 DEF Passed, At
<1>3. pc'[w] # "requeue"
  BY <1>2, HandlerSteps
<1>4. CASE /\ pc'[w] = "handling" /\ job'[w].lines = job[w].lines
           /\ job'[w].step \in {"score", "truncate", "write"} /\ job[w].step # "mark"
           /\ \/ job'[w].i = job[w].i /\ job'[w].j = job[w].j
              \/ job'[w].i = job[w].i /\ job'[w].j = job[w].j + 1
              \/ job'[w].i = job[w].i + 1 /\ job'[w].j = 1
  <2>1. PICK k \in DOMAIN job[w].lines :
                 /\ job[w].lines[k] = l
                 /\ k < job[w].i \/ (k = job[w].i /\ j < job[w].j)
    BY <1>0, <1>4 DEF Passed, At
  <2>2. k \in Nat /\ job[w].i \in Nat /\ job[w].j \in Nat
    BY <1>0
  <2>3. k < job'[w].i \/ (k = job'[w].i /\ j < job'[w].j)
    BY <1>4, <2>1, <2>2
  <2> QED
    BY <1>4, <2>1, <2>3 DEF Passed, At
<1>5. CASE job'[w] = [job[w] EXCEPT !.step = "mark"] /\ pc'[w] = "handling"
  BY <1>0, <1>5 DEF Passed, At
<1>6. CASE LoadPlayer(w) /\ pc'[w] = "handling"
  <2>1. PICK bag : /\ job'[w] = [job[w] EXCEPT !.step = "truncate", !.prev = bag]
                   /\ job[w].step = "score"
    BY <1>6, LoadPlayerStep
  <2> QED
    BY <1>0, <1>4, <1>6, <2>1
<1>7. CASE Truncate(w) /\ pc'[w] = "handling"
  <2>1. job[w].step = "truncate"
    BY <1>7, TruncateStep
  <2>2. job'[w] = [job[w] EXCEPT !.step = "write"]
    BY <1>0, <1>7, <1>0a DEF Truncate, Continue
  <2> QED
    BY <1>0, <1>4, <1>7, <2>1, <2>2
<1>8. CASE Write(w) /\ pc'[w] = "handling"
  <2>1. job[w].step = "write"
    BY <1>8, WriteStep
  <2>2. job'[w] = NextEntry([job[w] EXCEPT !.step = "score", !.prev = NoLines])
    BY <1>0, <1>8, <1>0a DEF Write
  <2> QED
    BY <1>4, <1>8, <2>1, <2>2, NextEntryIs
<1> QED
  BY <1>1, <1>2, <1>3, <1>5, <1>6, <1>7, <1>8, HandlerSteps

\* A token is not lost: its event is not taken again.
LEMMA TokensStay ==
    ASSUME DurableInv, [WorkerNext]_allVars, NEW p \in Players, NEW l \in Events
    PROVE  Tokens(p, l) \subseteq Tokens(p, l)'
<1> SUFFICES ASSUME NEW t \in Tokens(p, l) PROVE t \in Tokens(p, l)'
  OBVIOUS
<1>0. IInv /\ TypeOK /\ [Next]_vars
  BY StepIsOutboxStep DEF DurableInv, IInv
<1>1. /\ t \in Taken(l) \X Entries(p, l) /\ t[1] \in Taken(l) /\ t[2] \in Entries(p, l)
      /\ \A w \in Workers : cur[w] = t[1] => Passed(w, l, t[2])
  BY DEF Tokens
<1>2. /\ t[1] \in Events /\ MatchOf[t[1]] = MatchOf[l]
      /\ enq[t[1]] = "ok" /\ t[1] \notin dir["pending"]
  BY <1>1 DEF Taken
<1>3. t[2] \in Nat
  <2>1. PlayersOf[l] \in Seq(Players \cup {Refused})
    BY PlayersOfAssumption
  <2> QED
    BY <1>1, <2>1 DEF Entries
<1>4. enq'[t[1]] = "ok"
  BY <1>0, <1>2, AcceptedStep DEF Accepted
<1>5. t[1] \notin dir'["pending"]
  <2> SUFFICES ASSUME t[1] \in dir'["pending"] PROVE FALSE
    OBVIOUS
  <2>1. PICK w \in Workers : cur[w] = t[1] /\ pc[w] = "requeue"
    BY <1>0, <1>2, PendingStep
  <2> QED
    BY <1>1, <2>1 DEF Passed, At
<1>6. ASSUME NEW w \in Workers, cur'[w] = t[1] PROVE Passed(w, l, t[2])'
  <2>1. cur[w] = t[1]
    BY <1>0, <1>2, <1>6, ComesFromPending
  <2>2. Passed(w, l, t[2])
    BY <1>1, <2>1
  <2>3. CASE Handler(w)
    BY <1>3, <2>2, <2>3, HandlerPassed
  <2>4. CASE ~Handler(w)
    <3>1. pc[w] # "claimed"
      BY <2>2 DEF Passed, At
    <3>2. CASE pc'[w] = pc[w] /\ job'[w] = job[w]
      BY <2>2, <3>2 DEF Passed, At
    <3>3. CASE pc'[w] = "failing"
      BY <3>3 DEF Passed
    <3> QED
      BY <1>2, <1>6, <2>1, <2>4, <3>1, <3>2, <3>3, HolderStep
  <2> QED
    BY <2>3, <2>4
<1>7. t[1] \in Taken(l)' /\ t[2] \in Entries(p, l)'
  BY <1>1, <1>2, <1>4, <1>5 DEF Taken, Entries
<1>8. t = <<t[1], t[2]>>
  BY <1>1
<1>9. t \in (Taken(l) \X Entries(p, l))'
  BY <1>7, <1>8
<1> QED
  BY <1>6, <1>9 DEF Tokens

LEMMA EntriesFinite ==
    ASSUME NEW p \in Players, NEW l \in Events
    PROVE  IsFiniteSet(Entries(p, l))
<1>1. PlayersOf[l] \in Seq(Players \cup {Refused})
  BY PlayersOfAssumption
<1>2. Len(PlayersOf[l]) \in Int /\ DOMAIN PlayersOf[l] = 1..Len(PlayersOf[l])
  BY <1>1
<1>3. IsFiniteSet(1..Len(PlayersOf[l]))
  BY <1>2, FS_Interval
<1>4. Entries(p, l) \in SUBSET (1..Len(PlayersOf[l]))
  BY <1>2 DEF Entries
<1> QED
  BY <1>3, <1>4, FS_Subset

\* There are finitely many tokens, and no more than T and the entries allow.
LEMMA TokensFinite ==
    ASSUME NEW A, IsFiniteSet(A), NEW T \in SUBSET A, NEW p \in Players, NEW l \in Events,
           NEW S \in SUBSET (T \X Entries(p, l))
    PROVE  /\ IsFiniteSet(S) /\ Cardinality(S) \in Nat
           /\ Cardinality(T) \in Nat /\ Cardinality(Entries(p, l)) \in Nat
           /\ Cardinality(S) <= Cardinality(T) * Cardinality(Entries(p, l))
<1>1. IsFiniteSet(T)
  BY FS_Subset
<1>2. IsFiniteSet(Entries(p, l))
  BY EntriesFinite
<1>3. /\ IsFiniteSet(T \X Entries(p, l))
      /\ Cardinality(T \X Entries(p, l)) = Cardinality(T) * Cardinality(Entries(p, l))
  BY <1>1, <1>2, FS_Product
<1>4. IsFiniteSet(S) /\ Cardinality(S) <= Cardinality(T \X Entries(p, l))
  BY <1>3, FS_Subset
<1> QED
  BY <1>1, <1>2, <1>3, <1>4, FS_CardinalityType

LEMMA FiniteTokens ==
    ASSUME IsFiniteSet(Accepted), NEW p \in Players, NEW l \in Events
    PROVE  IsFiniteSet(Tokens(p, l)) /\ Cardinality(Tokens(p, l)) \in Nat
<1>1. Taken(l) \in SUBSET Accepted /\ Tokens(p, l) \in SUBSET (Taken(l) \X Entries(p, l))
  BY DEF Taken, Accepted, Tokens
<1> QED
  BY <1>1, TokensFinite

LEMMA AcceptedFinite ==
    ASSUME DurableInv, [WorkerNext]_allVars, IsFiniteSet(Accepted)
    PROVE  IsFiniteSet(Accepted')
<1>1. PICK e : Accepted' \subseteq Accepted \cup {e}
  BY StepIsOutboxStep, AcceptedStep DEF DurableInv, WorkerTypeOK
<1>2. IsFiniteSet(Accepted \cup {e})
  BY FS_AddElement
<1> QED
  BY <1>1, <1>2, FS_Subset

\* So their number does not shrink.
LEMMA TokensGrow ==
    ASSUME DurableInv, [WorkerNext]_allVars, IsFiniteSet(Accepted),
           NEW p \in Players, NEW l \in Events
    PROVE  /\ IsFiniteSet(Tokens(p, l)')
           /\ Cardinality(Tokens(p, l)) \in Nat /\ Cardinality(Tokens(p, l)') \in Nat
           /\ Cardinality(Tokens(p, l)) <= Cardinality(Tokens(p, l)')
<1>1. IsFiniteSet(Tokens(p, l)')
  <2>1. IsFiniteSet(Accepted')
    BY AcceptedFinite
  <2>2. Taken(l)' \in SUBSET Accepted'
    BY DEF Taken, Accepted
  <2>3. Tokens(p, l)' \in SUBSET (Taken(l)' \X Entries(p, l))
    BY DEF Tokens, Entries
  <2> QED
    BY <2>1, <2>2, <2>3, TokensFinite
<1>2. Tokens(p, l) \in SUBSET (Tokens(p, l)')
  BY TokensStay
<1> QED
  BY <1>1, <1>2, FS_Subset, FS_CardinalityType

\* The write of a Save comes with a new token.
LEMMA WriteToken ==
    ASSUME DurableInv, LoadedInv, [WorkerNext]_allVars, NEW w \in Workers, Write(w), InSave(w),
           Player(w) \in Players,
           job'[w] = NextEntry([job[w] EXCEPT !.step = "score", !.prev = NoLines])
    PROVE  /\ <<cur[w], job[w].j>> \notin Tokens(Player(w), Line(w))
           /\ \A p, l, e, j : p = Player(w) /\ l = Line(w) /\ e = cur[w] /\ j = job[w].j
                                 => <<e, j>> \in Tokens(p, l)'
<1>0. /\ pc[w] = "handling" /\ cur[w] \in Events /\ job[w].step = "write"
      /\ job[w].i \in DOMAIN job[w].lines /\ job[w].lines[job[w].i] = Line(w)
      /\ Line(w) \in Events
      /\ job[w].j \in Entries(Player(w), Line(w))
      /\ job[w].i \in Nat /\ job[w].j \in Nat
  BY SavingEntry, WriteStep, JobType DEF Entries, DurableInv
<1>1. /\ UNCHANGED <<dir, enq, cur>> /\ job'[w].step = "score" /\ job'[w].lines = job[w].lines
      /\ \/ job'[w].i = job[w].i /\ job'[w].j = job[w].j + 1
         \/ job'[w].i = job[w].i + 1 /\ job'[w].j = 1
  <2>1. Handler(w)
    BY DEF Handler
  <2> QED
    BY <2>1, HandlerSteps, NextEntryIs
<1>2. pc'[w] = "handling"
  <2>1. Handler(w) /\ job'[w] # Idle
    BY <1>1 DEF Handler, Idle
  <2> QED
    BY <2>1, HandlerSteps
<1>3. ~Passed(w, Line(w), job[w].j)
  BY <1>0 DEF LoadedInv, Passed, At
<1>4. ASSUME NEW l, NEW j, l = Line(w), j = job[w].j PROVE Passed(w, l, j)'
  <2>1. l = job'[w].lines[job[w].i] /\ job[w].i \in DOMAIN job'[w].lines
    BY <1>0, <1>1, <1>4
  <2>2. job[w].i < job'[w].i \/ (job[w].i = job'[w].i /\ j < job'[w].j)
    BY <1>0, <1>1, <1>4
  <2> QED
    BY <1>1, <1>2, <2>1, <2>2 DEF Passed
<1>5. <<cur[w], job[w].j>> \notin Tokens(Player(w), Line(w))
  BY <1>3 DEF Tokens
<1>6. ASSUME NEW p, NEW l, p = Player(w), l = Line(w), NEW e, NEW j, e = cur[w], j = job[w].j
      PROVE  <<e, j>> \in Tokens(p, l)'
  <2>1. e \in Taken(l)'
    <3>1. MatchOf[e] = MatchOf[l]
      BY <1>0, <1>6 DEF LoadedInv, Match
    <3>2. e \in dir["processing"] /\ IInv
      BY <1>0, <1>6 DEF DurableInv, IInv, HeldIsProcessing
    <3>3. enq[e] = "ok" /\ e \notin dir["pending"]
      BY <1>0, <1>6, <3>2 DEF IInv, EnqueueProgress, OneDirectory, Directories
    <3> QED
      BY <1>0, <1>1, <1>6, <3>1, <3>3 DEF Taken
  <2>2. j \in Entries(p, l)'
    BY <1>0, <1>6 DEF Entries
  <2>3. ASSUME NEW v \in Workers, cur'[v] = e PROVE Passed(v, l, j)'
    <3>1. v = w
      BY <1>0, <1>1, <1>6, <2>3 DEF DurableInv, IInv, ClaimExclusive
    <3> QED
      BY <1>4, <1>6, <3>1
  <2> QED
    BY <2>1, <2>2, <2>3 DEF Tokens
<1> QED
  BY <1>5, <1>6

\* Hence what is counted, or will be when a Save has been written, does not
\* exceed them.
LEMMA TokenStep ==
    ASSUME DurableInv, LoadedInv, WrittenInv, TokenInv, [WorkerNext]_allVars
    PROVE  TokenInv'
<1>0. /\ IsFiniteSet(Accepted)
      /\ risk \in [Players -> PlayerFile]
      /\ \A w \in Workers : job[w].prev \in Bag
  BY JobType DEF TokenInv, DurableInv, WorkerTypeOK
<1>1. \A p \in Players, l \in Events :
         /\ Cardinality(Tokens(p, l)) \in Nat /\ Cardinality(Tokens(p, l)') \in Nat
         /\ Cardinality(Tokens(p, l)) <= Cardinality(Tokens(p, l)')
  BY <1>0, TokensGrow
<1>2. \A p \in Players, l \in Events :
         /\ risk[p].counted[l] \in Nat /\ risk[p].counted[l] <= Cardinality(Tokens(p, l))
  BY <1>0 DEF TokenInv, Counted, PlayerFile, Bag
<1>3. IsFiniteSet(Accepted)'
  BY <1>0, AcceptedFinite
<1>4. ASSUME NEW p \in Players, NEW l \in Events
      PROVE  risk'[p].counted[l] <= Cardinality(Tokens(p, l)')
  <2>1. CASE risk'[p].counted = NoLines
    BY <1>1, <2>1, NoneCounted
  <2>2. CASE risk'[p].counted = risk[p].counted
    BY <1>1, <1>2, <2>2
  <2>3. ASSUME NEW w \in Workers, Write(w), InSave(w), Player(w) = p,
               risk'[p].counted = [job[w].prev EXCEPT ![Line(w)] = @ + 1],
               job'[w] = NextEntry([job[w] EXCEPT !.step = "score", !.prev = NoLines])
        PROVE  risk'[p].counted[l] <= Cardinality(Tokens(p, l)')
    <3>1. job[w].prev[l] \in Nat /\ job[w].prev[l] <= Cardinality(Tokens(p, l))
      BY <1>0, <2>3 DEF TokenInv, Bag
    <3>2. CASE l # Line(w)
      <4>1. risk'[p].counted[l] = job[w].prev[l]
        BY <1>0, <2>3, <3>2 DEF Bag
      <4> QED
        BY <1>1, <3>1, <4>1
    <3>3. CASE l = Line(w)
      <4> DEFINE t == <<cur[w], job[w].j>>
                 T == Tokens(p, l)
                 U == Tokens(p, l)'
      <4>1. t \notin T /\ t \in U
        BY <2>3, <3>3, WriteToken
      <4>2. T \subseteq U
        BY TokensStay
      <4>3. IsFiniteSet(U) /\ IsFiniteSet(T)
        BY <1>0, FiniteTokens, TokensGrow
      <4> HIDE DEF t, T, U
      <4>4. Cardinality(T \cup {t}) = Cardinality(T) + 1
        BY <4>1, <4>3, FS_AddElement
      <4>5. Cardinality(T \cup {t}) <= Cardinality(U)
        BY <4>1, <4>2, <4>3, FS_Subset
      <4>6. risk'[p].counted[l] = job[w].prev[l] + 1
        BY <1>0, <2>3, <3>3 DEF Bag
      <4>7. Cardinality(T) \in Nat /\ Cardinality(U) \in Nat
        BY <1>1 DEF T, U
      <4>8. job[w].prev[l] <= Cardinality(T)
        BY <3>1 DEF T
      <4>9. risk'[p].counted[l] <= Cardinality(U)
        BY <3>1, <4>4, <4>5, <4>6, <4>7, <4>8
      <4> QED
        BY <4>9 DEF U
    <3> QED
      BY <3>2, <3>3
  <2> QED
    BY <2>1, <2>2, <2>3, CountStep
<1>5. ASSUME NEW w \in Workers, InSave(w)', NEW l \in Events
      PROVE  (job[w].prev[l] <= Cardinality(Tokens(Player(w), l)))'
  <2>1. PICK p : p = Player(w)
    OBVIOUS
  <2>2. p \in Players /\ Player(w)' = p
    BY <1>5, <2>1, PrevStep DEF WrittenInv
  <2>3. job'[w].prev[l] <= Cardinality(Tokens(p, l)')
    <3>1. CASE InSave(w) /\ job'[w].prev = job[w].prev
      <4>1. job[w].prev[l] \in Nat /\ job[w].prev[l] <= Cardinality(Tokens(p, l))
        BY <1>0, <2>1, <3>1 DEF TokenInv, Bag
      <4> QED
        BY <1>1, <2>2, <3>1, <4>1
    <3>2. CASE job'[w].prev = NoLines
      BY <1>1, <2>2, <3>2, NoneCounted
    <3>3. CASE job'[w].prev = risk[p].counted
      BY <1>1, <1>2, <2>2, <3>3
    <3> QED
      BY <1>5, <2>1, <3>1, <3>2, <3>3, PrevStep
  <2> QED
    BY <2>2, <2>3
<1>6. \A p \in Players, l \in Events : Counted(p, l)' <= Cardinality(Tokens(p, l))'
  BY <1>4 DEF Counted
<1> QED
  BY <1>3, <1>5, <1>6 DEF TokenInv

LEMMA TokenInit == WorkerInit => TokenInv
<1> SUFFICES ASSUME WorkerInit PROVE TokenInv
  OBVIOUS
<1>1. Accepted = {}
  BY DEF WorkerInit, Init, Accepted
<1>2. IsFiniteSet(Accepted)
  BY <1>1, FS_EmptySet
<1>3. ASSUME NEW p \in Players, NEW l \in Events PROVE Counted(p, l) <= Cardinality(Tokens(p, l))
  <2>1. Counted(p, l) = 0
    BY NoneCounted DEF WorkerInit, Counted
  <2> QED
    BY <1>2, <2>1, FiniteTokens
<1>4. \A w \in Workers : ~InSave(w)
  BY DEF WorkerInit, InSave, Idle
<1> QED
  BY <1>2, <1>3, <1>4 DEF TokenInv

LEMMA TokenKept == DurableInv /\ CountInv /\ TokenInv /\ [WorkerNext]_allVars => TokenInv'
BY TokenStep DEF CountInv

\* A line is never counted for a player more often than its match had events
\* taken from pending/, times the entries the line has for the player: no
\* event is scored twice, not even one that went through Requeue
\* (outbox.go:140), a crash or a failed rename.
THEOREM CountsOncePerEvent == WorkerSpec => []CountedOncePerEvent
<1>1. WorkerSpec => []TokenInv
  BY DurableInductive, CountInductive, TokenInit, TokenKept, PTL DEF WorkerSpec
<1>2. DurableInv /\ TokenInv => CountedOncePerEvent
  <2> SUFFICES ASSUME DurableInv, TokenInv, NEW p \in Players, NEW l \in Events
               PROVE  Counted(p, l) <= Listed(l, p) * Cardinality(Taken(l))
    BY DEF CountedOncePerEvent, Taken
  <2>1. Taken(l) \in SUBSET Accepted /\ Tokens(p, l) \in SUBSET (Taken(l) \X Entries(p, l))
    BY DEF Taken, Accepted, Tokens
  <2>2. /\ Cardinality(Tokens(p, l)) \in Nat /\ Cardinality(Taken(l)) \in Nat
        /\ Cardinality(Entries(p, l)) \in Nat
        /\ Cardinality(Tokens(p, l)) <= Cardinality(Taken(l)) * Cardinality(Entries(p, l))
    BY <2>1, TokensFinite DEF TokenInv
  <2>3. Listed(l, p) = Cardinality(Entries(p, l))
    BY DEF Listed, Entries
  <2>4. Counted(p, l) \in Nat /\ Counted(p, l) <= Cardinality(Tokens(p, l))
    BY DEF TokenInv, Counted, DurableInv, WorkerTypeOK, PlayerFile, Bag
  <2>5. \A a, b, c, d \in Nat : a <= b /\ b <= c * d => a <= d * c
    OBVIOUS
  <2> QED
    BY <2>2, <2>3, <2>4, <2>5
<1> QED
  BY <1>1, <1>2, DurableInductive, PTL
=============================================================================
