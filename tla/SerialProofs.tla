---------------------------- MODULE SerialProofs ----------------------------
(***************************************************************************)
(* One risk worker that neither crashes nor meets an I/O error scores      *)
(* every match once, and takes nothing out of a player's history: for any  *)
(* number of events, matches and players, with clean stops and with        *)
(* submissions that overlap or break off.                                  *)
(*                                                                         *)
(* Both are false with a second worker, a crash or an I/O error between    *)
(* the truncation and the write of a Save; the first is also false with an *)
(* entry that the mapper refuses.                                          *)
(* The last part shows that this worker implements MatchScoring, in which  *)
(* a match is scored in one step.                                          *)
(***************************************************************************)
EXTENDS CountProofs, SequenceTheorems

Serial ==
    /\ \A v, w \in Workers : v = w
    /\ Disruptions \cap {"crash", "io"} = {}

\* Every entry has a player_id and no NaN, and no rule for it lacks its
\* percentile.
NoneRefused == \A e \in Events : Refused \notin Range(PlayersOf[e])

-----------------------------------------------------------------------------
(* The invariants *)

\* A worker that is about to truncate a player's file has its content, and a
\* file that is empty is being written.
SaveInv ==
    /\ \A w \in Workers :
          /\ job[w].step = "truncate" => job[w].prev = risk[Player(w)].counted
          /\ job[w].step = "write" => risk[Player(w)].state = "empty"
    /\ \A p \in Players :
          \/ risk[p].state \in {"absent", "whole"}
          \/ \E w \in Workers : job[w].step = "write" /\ Player(w) = p

LinesOfMatch(m) == {l \in Events : MatchOf[l] = m}

\* The handler of w has loaded the telemetry of m and not left it yet.
Scoring(w, m) ==
    /\ pc[w] = "handling" /\ job[w].step \in {"score", "truncate", "write", "mark"}
    /\ Match(w) = m

\* The entries of line l for player p that w has counted.
Scored(w, p, l) ==
    {j \in Entries(p, l) :
        \E i \in DOMAIN job[w].lines :
            /\ job[w].lines[i] = l
            /\ i < job[w].i \/ (i = job[w].i /\ j < job[w].j)}

\* The three states of a match: nothing has been done for it, ...
Untouched(m) ==
    /\ m \notin marker /\ ledger[m] = <<>>
    /\ \A w \in Workers : ~Scoring(w, m)
    /\ \A p \in Players, l \in LinesOfMatch(m) : Kept(p, l) = 0

\* ... or it has been scored up to line n, ...
SettledUpTo(m, n) ==
    /\ m \in marker /\ ledger[m] = <<PlayersMap(SubSeq(LinesOf(m), 1, n))>>
    /\ \A w \in Workers : ~Scoring(w, m)
    /\ \A p \in Players, l \in LinesOfMatch(m) :
          Kept(p, l) = IF l \in Range(SubSeq(LinesOf(m), 1, n)) THEN Listed(l, p) ELSE 0

\* ... or worker w is at it.
InProgress(w, m, n) ==
    /\ m \notin marker
    /\ Scoring(w, m) /\ job[w].lines = SubSeq(LinesOf(m), 1, n)
    /\ IF job[w].step = "mark"
       THEN ledger[m] = <<PlayersMap(job[w].lines)>> /\ ~HasEntry(w)
       ELSE ledger[m] = <<>>
    /\ \A p \in Players, l \in LinesOfMatch(m) : Kept(p, l) = Cardinality(Scored(w, p, l))

MatchInv ==
    /\ \A w \in Workers : At(w, "load") => Match(w) \notin marker
    /\ \A m \in Matches :
          \/ Untouched(m)
          \/ \E n \in 1..Len(LinesOf(m)) :
                SettledUpTo(m, n) \/ \E w \in Workers : InProgress(w, m, n)

-----------------------------------------------------------------------------
(* What is kept of a player's history *)

LEMMA MinOfOne ==
    ASSUME NEW a \in Nat
    PROVE  Min({a}) = a
<1>1. a <= a
  OBVIOUS
<1>2. \E x \in {a} : \A y \in {a} : x <= y
  BY <1>1
<1>3. Min({a}) \in {a}
  BY <1>2 DEF Min
<1> QED
  BY <1>3

\* A handler at an entry is at work.
LEMMA StepIsAt ==
    DurableInv => \A w \in Workers : \A step \in Steps \ {"grace"} :
                     job[w].step = step => pc[w] = "handling" /\ At(w, step)
BY DEF DurableInv, LedgerThenMarker, Idle, At

\* The history of a player is in her file, or in the memory of the worker
\* that writes it.
KeptOK ==
    \A p \in Players, l \in Events :
        /\ Kept(p, l) \in Nat
        /\ \A w \in Workers :
              job[w].step = "write" /\ Player(w) = p => Kept(p, l) = job[w].prev[l]
        /\ (\A w \in Workers : ~(job[w].step = "write" /\ Player(w) = p))
              => Kept(p, l) = risk[p].counted[l]

LEMMA KeptIs == Serial /\ DurableInv => KeptOK
<1> SUFFICES ASSUME Serial, DurableInv, NEW p \in Players, NEW l \in Events
             PROVE  /\ Kept(p, l) \in Nat
                    /\ \A w \in Workers : job[w].step = "write" /\ Player(w) = p
                                              => Kept(p, l) = job[w].prev[l]
                    /\ (\A w \in Workers : ~(job[w].step = "write" /\ Player(w) = p))
                          => Kept(p, l) = risk[p].counted[l]
  BY DEF KeptOK
<1>0. /\ \A w \in Workers : job[w].prev[l] \in Nat
      /\ risk[p].counted[l] \in Nat
  BY JobType DEF DurableInv, WorkerTypeOK, PlayerFile, Bag
<1>1. \A w \in Workers : w \in Saving(p) <=> job[w].step = "write" /\ Player(w) = p
  BY StepIsAt DEF Saving, At, Steps
<1>2. ASSUME NEW w \in Workers, w \in Saving(p) PROVE Kept(p, l) = job[w].prev[l]
  <2>1. Saving(p) = {w}
    BY <1>2 DEF Serial, Saving
  <2>2. {job[v].prev[l] : v \in Saving(p)} = {job[w].prev[l]}
    BY <2>1
  <2>3. Kept(p, l) = Min({job[w].prev[l]})
    BY <2>1, <2>2 DEF Kept
  <2> QED
    BY <1>0, <2>3, MinOfOne
<1>3. CASE Saving(p) = {}
  BY <1>0, <1>1, <1>3 DEF Kept, Counted
<1>4. CASE Saving(p) # {}
  <2>1. PICK w \in Workers : w \in Saving(p)
    BY <1>4 DEF Saving
  <2> QED
    BY <1>0, <1>1, <1>2, <2>1
<1> QED
  BY <1>3, <1>4

LEMMA KeptIsNext == (Serial /\ DurableInv => KeptOK)'
BY KeptIs, PTL

-----------------------------------------------------------------------------
(* The steps of one worker *)

\* What the loop and the environment leave alone.
LEMMA QuietStep ==
    ASSUME Serial, DurableInv, [WorkerNext]_allVars, \A w \in Workers : ~Handler(w)
    PROVE  /\ UNCHANGED <<store, job>>
           /\ \A w \in Workers : pc[w] = "handling" => pc'[w] = pc[w] /\ cur'[w] = cur[w]
<1>0. /\ pc \in [Workers -> {"down", "idle", "scanning"} \cup Holding]
      /\ \A w \in Workers : pc[w] # "handling" => job[w] = Idle
      /\ DOMAIN job = Workers /\ "crash" \notin Disruptions
      /\ job = [w \in Workers |-> job[w]]
  BY JobType DEF DurableInv, WorkerTypeOK, TypeOK, LedgerThenMarker, Serial
<1>1. ASSUME NEW e \in Events, Ingest(e) \/ Enqueue(e) \/ Age(e)
      PROVE  UNCHANGED <<store, job, cur, pc>>
  BY <1>1 DEF Ingest, Enqueue, Age, Enqueuing, CreateTmp, WriteTmp, Publish, EnqueueError, vars,
              workerVars
<1>2. ASSUME NEW v \in Workers, ProcessStep(v)
      PROVE  /\ UNCHANGED <<store, job>>
             /\ \A w \in Workers : pc[w] = "handling" => pc'[w] = pc[w] /\ cur'[w] = cur[w]
  <2>1. pc[v] # "handling" /\ UNCHANGED store /\ job' = [job EXCEPT ![v] = Idle] /\ cur' = cur
    BY <1>0, <1>2 DEF ProcessStep, Lifecycle, Start, Stop, Crash
  <2>2. job' = job
    BY <1>0, <2>1
  <2> QED
    BY <1>0, <2>1, <2>2 DEF Serial
<1>3. ASSUME NEW v \in Workers, LoopStep(v)
      PROVE  /\ UNCHANGED <<store, job>>
             /\ \A w \in Workers : pc[w] = "handling" => pc'[w] = pc[w] /\ cur'[w] = cur[w]
  <2>1. pc[v] # "handling"
    BY <1>3 DEF LoopStep, Loop, Poll, PollError, NonePending, Claim, Skip, ReadEvent, ReadError,
                MarkDone, Requeue, WriteSidecar, MarkFailed
  <2> QED
    BY <1>3, <2>1 DEF LoopStep, Serial
<1>4. CASE UNCHANGED allVars
  BY <1>4 DEF allVars, vars
<1> QED
  BY <1>1, <1>2, <1>3, <1>4 DEF WorkerNext

\* What the handler does to the files: it leaves them alone, truncates the
\* one it is at, or writes it back with the line added.
LEMMA SaveSteps ==
    ASSUME Serial, DurableInv, SaveInv, NEW w \in Workers, Handler(w)
    PROVE  \/ /\ risk' = risk /\ job'[w].step # "write"
              /\ job[w].step \notin {"truncate", "write"}
              /\ job'[w].step = "truncate" =>
                    Player(w)' = Player(w) /\ job'[w].prev = risk[Player(w)].counted
           \/ /\ Truncate(w) /\ job[w].step = "truncate"
              /\ SetPlayer(Player(w), "empty", NoLines)
              /\ job'[w] = [job[w] EXCEPT !.step = "write"]
           \/ /\ Write(w) /\ job[w].step = "write"
              /\ SetPlayer(Player(w), "whole", [job[w].prev EXCEPT ![Line(w)] = @ + 1])
              /\ job'[w] = NextEntry([job[w] EXCEPT !.step = "score", !.prev = NoLines])
<1>0. /\ job \in [Workers -> [step : Steps, lines : Seq(Events), i : Nat, j : Nat, prev : Bag]]
      /\ ~Fallible /\ pc[w] = "handling" /\ Idle.step = "grace"
  BY JobType, HandlerSteps DEF DurableInv, Serial, Fallible, Idle
<1>1. CASE Truncate(w)
  <2>1. SetPlayer(Player(w), "empty", NoLines) /\ job' = [job EXCEPT ![w].step = "write"]
    BY <1>0, <1>1 DEF Truncate, Continue
  <2> QED
    BY <1>0, <1>1, <2>1 DEF Truncate, At
<1>2. CASE Write(w)
  <2>1. job[w].step = "write"
    BY <1>2 DEF Write, At
  <2>2. risk[Player(w)].state = "empty"
    BY <2>1 DEF SaveInv
  <2>3. /\ SetPlayer(Player(w), "whole", [job[w].prev EXCEPT ![Line(w)] = @ + 1])
        /\ job'[w] = NextEntry([job[w] EXCEPT !.step = "score", !.prev = NoLines])
    BY <1>0, <1>2, <2>2 DEF Write
  <2> QED
    BY <1>2, <2>1, <2>3
<1>3. CASE LoadPlayer(w)
  <2>1. risk' = risk /\ job[w].step = "score"
    BY <1>3 DEF LoadPlayer, At, store
  <2>2. CASE job'[w] = Idle
    BY <1>0, <2>1, <2>2
  <2>3. CASE job' = [job EXCEPT ![w].step = "truncate", ![w].prev = risk[Player(w)].counted]
    <3>1. /\ job'[w].step = "truncate" /\ job'[w].prev = risk[Player(w)].counted
          /\ job'[w].lines = job[w].lines /\ job'[w].i = job[w].i /\ job'[w].j = job[w].j
      BY <1>0, <2>3
    <3> QED
      BY <2>1, <3>1 DEF Player, Line
  <2> QED
    BY <1>0, <1>3, <2>2, <2>3 DEF LoadPlayer, HandlerReturns
<1>4. CASE ~Truncate(w) /\ ~Write(w) /\ ~LoadPlayer(w)
  <2>1. \A step : job'[w] = [job[w] EXCEPT !.step = step] => job'[w].step = step
    BY <1>0
  <2>2. \A lines : Loaded(lines).step = "score"
    BY DEF Loaded
  <2>3. \/ job'[w] = Idle
        \/ \E step \in {"applied", "load", "mark"} : job'[w] = [job[w] EXCEPT !.step = step]
        \/ \E lines : job'[w] = Loaded(lines)
    BY <1>4, HandlerSteps
  <2>4. risk' = risk /\ job[w].step \notin {"truncate", "write"}
    BY <1>4 DEF Handler, CheckGrace, CheckApplied, LoadTelemetry, AppendLedger, MarkApplied, At,
                store
  <2> QED
    BY <1>0, <2>1, <2>2, <2>3, <2>4
<1> QED
  BY <1>1, <1>2, <1>3, <1>4

LEMMA SetPlayerIs ==
    ASSUME DurableInv, NEW q \in Players, NEW state, NEW bag, SetPlayer(q, state, bag)
    PROVE  /\ risk'[q].state = state /\ risk'[q].counted = bag
           /\ \A p \in Players \ {q} : risk'[p] = risk[p]
BY DEF SetPlayer, DurableInv, WorkerTypeOK

LEMMA SaveStep ==
    ASSUME Serial, DurableInv, CountInv, SaveInv, [WorkerNext]_allVars
    PROVE  SaveInv'
<1>0. job \in [Workers -> [step : Steps, lines : Seq(Events), i : Nat, j : Nat, prev : Bag]]
  BY JobType DEF DurableInv
<1>1. CASE \A w \in Workers : ~Handler(w)
  <2>1. UNCHANGED <<risk, job>>
    BY <1>1, QuietStep DEF store
  <2> QED
    BY <2>1 DEF SaveInv, Player, Line
<1>2. ASSUME NEW w \in Workers, Handler(w) PROVE SaveInv'
  <2>0. \A v \in Workers : v = w
    BY DEF Serial
  <2>1. CASE /\ risk' = risk /\ job'[w].step # "write"
             /\ job[w].step \notin {"truncate", "write"}
             /\ job'[w].step = "truncate" =>
                   Player(w)' = Player(w) /\ job'[w].prev = risk[Player(w)].counted
    BY <2>0, <2>1 DEF SaveInv
  <2>2. CASE /\ job[w].step = "truncate" /\ SetPlayer(Player(w), "empty", NoLines)
             /\ job'[w] = [job[w] EXCEPT !.step = "write"]
    <3>1. Player(w) \in Players
      BY <2>2 DEF CountInv, WrittenInv, InSave
    <3>2. job'[w].step = "write" /\ Player(w)' = Player(w)
      BY <1>0, <2>2 DEF Player, Line
    <3>3. /\ risk'[Player(w)].state = "empty"
          /\ \A p \in Players \ {Player(w)} : risk'[p] = risk[p]
      BY <2>2, <3>1, SetPlayerIs
    <3> QED
      BY <2>0, <2>2, <3>1, <3>2, <3>3 DEF SaveInv
  <2>3. CASE /\ job[w].step = "write"
             /\ SetPlayer(Player(w), "whole", [job[w].prev EXCEPT ![Line(w)] = @ + 1])
             /\ job'[w] = NextEntry([job[w] EXCEPT !.step = "score", !.prev = NoLines])
    <3>1. Player(w) \in Players
      BY <2>3 DEF CountInv, WrittenInv, InSave
    <3>2. job'[w].step = "score"
      BY <2>3, NextEntryIs
    <3> DEFINE bag == [job[w].prev EXCEPT ![Line(w)] = @ + 1]
    <3> HIDE DEF bag
    <3>3. SetPlayer(Player(w), "whole", bag)
      BY <2>3 DEF bag
    <3>4. /\ risk'[Player(w)].state = "whole"
          /\ \A p \in Players \ {Player(w)} : risk'[p] = risk[p]
      BY <3>1, <3>3, SetPlayerIs
    <3> QED
      BY <2>0, <2>3, <3>2, <3>4 DEF SaveInv
  <2> QED
    BY <1>2, <2>1, <2>2, <2>3, SaveSteps
<1> QED
  BY <1>1, <1>2

\* The history of a player changes by the write of a Save only, which adds
\* the line it is about.
LEMMA KeptStep ==
    ASSUME Serial, DurableInv, CountInv, SaveInv, [WorkerNext]_allVars,
           NEW p \in Players, NEW l \in Events
    PROVE  /\ Kept(p, l) \in Nat
           /\ Kept(p, l)' = IF \E w \in Workers : Write(w) /\ Player(w) = p /\ Line(w) = l
                            THEN Kept(p, l) + 1
                            ELSE Kept(p, l)
<1>0. /\ job \in [Workers -> [step : Steps, lines : Seq(Events), i : Nat, j : Nat, prev : Bag]]
      /\ KeptOK /\ KeptOK'
  BY JobType, KeptIs, KeptIsNext, DurableStep DEF DurableInv, Serial
<1>1. Kept(p, l) \in Nat
  BY <1>0 DEF KeptOK
<1>2. CASE \A w \in Workers : ~Handler(w)
  <2>1. UNCHANGED <<risk, job>> /\ \A w \in Workers : ~Write(w)
    BY <1>2, QuietStep DEF store, Handler
  <2>2. \A w \in Workers : Player(w)' = Player(w)
    BY <2>1 DEF Player, Line
  <2>3. Kept(p, l)' = Kept(p, l)
    <3>1. CASE \E w \in Workers : job[w].step = "write" /\ Player(w) = p
      <4>1. PICK w \in Workers : job[w].step = "write" /\ Player(w) = p
        BY <3>1
      <4>2. Kept(p, l) = job[w].prev[l]
        BY <1>0, <4>1 DEF KeptOK
      <4>3. Kept(p, l)' = job'[w].prev[l]
        BY <1>0, <2>1, <2>2, <4>1 DEF KeptOK
      <4> QED
        BY <2>1, <4>2, <4>3
    <3>2. CASE \A w \in Workers : ~(job[w].step = "write" /\ Player(w) = p)
      <4>1. Kept(p, l) = risk[p].counted[l] /\ Kept(p, l)' = risk'[p].counted[l]
        BY <1>0, <2>1, <2>2, <3>2 DEF KeptOK
      <4> QED
        BY <2>1, <4>1
    <3> QED
      BY <3>1, <3>2
  <2> QED
    BY <1>1, <2>1, <2>3
<1>3. ASSUME NEW w \in Workers, Handler(w)
      PROVE  Kept(p, l)' = IF \E v \in Workers : Write(v) /\ Player(v) = p /\ Line(v) = l
                           THEN Kept(p, l) + 1
                           ELSE Kept(p, l)
  <2>0. \A v \in Workers : v = w
    BY DEF Serial
  <2>1. CASE /\ risk' = risk /\ job'[w].step # "write"
             /\ job[w].step \notin {"truncate", "write"}
    <3>1. \A v \in Workers : ~Write(v)
      BY <2>0, <2>1 DEF Write, At
    <3> QED
      BY <1>0, <1>1, <2>0, <2>1, <3>1 DEF KeptOK
  <2>2. CASE /\ job[w].step = "truncate" /\ SetPlayer(Player(w), "empty", NoLines)
             /\ job'[w] = [job[w] EXCEPT !.step = "write"]
    <3>1. Player(w) \in Players /\ job[w].prev = risk[Player(w)].counted
      BY <2>2 DEF CountInv, WrittenInv, InSave, SaveInv
    <3>2. job'[w].step = "write" /\ Player(w)' = Player(w) /\ job'[w].prev = job[w].prev
      BY <1>0, <2>2 DEF Player, Line
    <3>3. \A v \in Workers : ~Write(v)
      BY <2>0, <2>2 DEF Write, At
    <3>4. CASE p = Player(w)
      <4>1. Kept(p, l) = risk[p].counted[l]
        BY <1>0, <2>0, <2>2 DEF KeptOK
      <4>2. Kept(p, l)' = job'[w].prev[l]
        BY <1>0, <3>2, <3>4 DEF KeptOK
      <4> QED
        BY <3>1, <3>2, <3>3, <3>4, <4>1, <4>2
    <3>5. CASE p # Player(w)
      <4>1. risk'[p] = risk[p]
        BY <2>2, <3>1, <3>5, SetPlayerIs
      <4>2. Kept(p, l) = risk[p].counted[l] /\ Kept(p, l)' = risk'[p].counted[l]
        BY <1>0, <2>0, <2>2, <3>2, <3>5 DEF KeptOK
      <4> QED
        BY <3>3, <4>1, <4>2
    <3> QED
      BY <3>4, <3>5
  <2>3. CASE /\ Write(w) /\ job[w].step = "write"
             /\ SetPlayer(Player(w), "whole", [job[w].prev EXCEPT ![Line(w)] = @ + 1])
             /\ job'[w] = NextEntry([job[w] EXCEPT !.step = "score", !.prev = NoLines])
    <3>1. Player(w) \in Players
      BY <2>3 DEF CountInv, WrittenInv, InSave
    <3>2. job'[w].step = "score"
      BY <2>3, NextEntryIs
    <3> DEFINE bag == [job[w].prev EXCEPT ![Line(w)] = @ + 1]
    <3>3. bag[l] = IF l = Line(w) THEN job[w].prev[l] + 1 ELSE job[w].prev[l]
      BY <1>0 DEF Bag
    <3>4. SetPlayer(Player(w), "whole", bag)
      BY <2>3
    <3> HIDE DEF bag
    <3>5. risk'[Player(w)].counted = bag /\ \A q \in Players \ {Player(w)} : risk'[q] = risk[q]
      BY <3>1, <3>4, SetPlayerIs
    <3>6. Kept(p, l)' = risk'[p].counted[l]
      BY <1>0, <2>0, <3>2 DEF KeptOK
    <3>7. Kept(p, l) = IF p = Player(w) THEN job[w].prev[l] ELSE risk[p].counted[l]
      BY <1>0, <2>0, <2>3 DEF KeptOK
    <3> QED
      BY <2>0, <2>3, <3>3, <3>5, <3>6, <3>7
  <2> QED
    BY <1>3, <2>1, <2>2, <2>3, SaveSteps
<1> QED
  BY <1>1, <1>2, <1>3

LEMMA SaveInit == WorkerInit => SaveInv
BY DEF WorkerInit, SaveInv, Idle

LEMMA SaveInductive ==
    ASSUME Serial
    PROVE  WorkerSpec => []SaveInv
<1>1. DurableInv /\ CountInv /\ SaveInv /\ [WorkerNext]_allVars => SaveInv'
  BY SaveStep
<1> QED
  BY <1>1, DurableInductive, CountInductive, SaveInit, PTL DEF WorkerSpec

\* With one worker, and no crash or I/O error between the truncation and the
\* write of a Save, nothing is taken out of a player's history
\* (store_file.go:42).
THEOREM HistoryIsKeptByOne ==
    ASSUME Serial
    PROVE  WorkerSpec => HistoryIsKept
<1>1. DurableInv /\ CountInv /\ SaveInv /\ [WorkerNext]_allVars
         => [\A p \in Players, l \in Events : Kept(p, l)' >= Kept(p, l)]_allVars
  <2> SUFFICES ASSUME DurableInv, CountInv, SaveInv, [WorkerNext]_allVars,
                      NEW p \in Players, NEW l \in Events
               PROVE  Kept(p, l)' >= Kept(p, l)
    OBVIOUS
  <2> QED
    BY KeptStep
<1> QED
  BY <1>1, DurableInductive, CountInductive, SaveInductive, PTL DEF WorkerSpec, HistoryIsKept

-----------------------------------------------------------------------------
(* Matches are scored once *)

\* A prefix of the lines of a match.
PrefixOK ==
    \A m \in Matches : \A n \in 1..Len(LinesOf(m)) :
        /\ LinesOf(m) \in Seq(Events) /\ Len(LinesOf(m)) \in Nat /\ n \in Nat
        /\ SubSeq(LinesOf(m), 1, n) \in Seq(Events)
        /\ Len(SubSeq(LinesOf(m), 1, n)) = n
        /\ \A i \in 1..n : SubSeq(LinesOf(m), 1, n)[i] = LinesOf(m)[i]

LEMMA PrefixIs == DurableInv => PrefixOK
<1> SUFFICES ASSUME DurableInv, NEW m \in Matches, NEW n \in 1..Len(LinesOf(m))
             PROVE  /\ LinesOf(m) \in Seq(Events) /\ Len(LinesOf(m)) \in Nat /\ n \in Nat
                    /\ SubSeq(LinesOf(m), 1, n) \in Seq(Events)
                    /\ Len(SubSeq(LinesOf(m), 1, n)) = n
                    /\ \A i \in 1..n : SubSeq(LinesOf(m), 1, n)[i] = LinesOf(m)[i]
  BY DEF PrefixOK
<1>1. LinesOf(m) \in Seq(Events)
  BY LinesType DEF LinesOf, DurableInv, WorkerTypeOK, TS!TypeOK
<1>2. Len(LinesOf(m)) \in Nat /\ n \in Int /\ n \in Nat /\ 1 <= n /\ n <= Len(LinesOf(m))
  BY <1>1
<1>3. \A i \in 1..n : LinesOf(m)[i] \in Events
  BY <1>1, <1>2, ElementOfSeq
<1>4. /\ SubSeq(LinesOf(m), 1, n) \in Seq(Events)
      /\ Len(SubSeq(LinesOf(m), 1, n)) = n - 1 + 1
      /\ \A i \in 1..(n - 1 + 1) : SubSeq(LinesOf(m), 1, n)[i] = LinesOf(m)[1 + i - 1]
  BY <1>2, <1>3, SubSeqProperties
<1>5. n - 1 + 1 = n /\ \A i \in 1..n : 1 + i - 1 = i
  BY <1>2
<1> QED
  BY <1>1, <1>2, <1>4, <1>5

LEMMA PrefixIsNext == (DurableInv => PrefixOK)'
BY PrefixIs, PTL

\* Telemetry files grow at their end.
LEMMA FileGrows ==
    ASSUME DurableInv, [WorkerNext]_allVars, NEW m \in Matches
    PROVE  /\ Len(sink[m]) \in Nat /\ Len(sink'[m]) \in Nat /\ Len(sink[m]) <= Len(sink'[m])
           /\ \A k \in 1..Len(sink[m]) : sink'[m][k] = sink[m][k]
<1>0. /\ Len(sink[m]) \in Nat /\ Len(sink'[m]) \in Nat
      /\ DOMAIN sink[m] = 1..Len(sink[m]) /\ DOMAIN sink'[m] = 1..Len(sink'[m])
  BY DurableStep DEF DurableInv, WorkerTypeOK, TS!TypeOK
<1>1. CASE sink'[m] = sink[m]
  BY <1>0, <1>1
<1>2. ASSUME NEW e \in Events, NEW part \in TS!Parts, TS!WriteFragment(e, part),
             sink'[m] # sink[m]
      PROVE  /\ Len(sink[m]) <= Len(sink'[m])
             /\ \A k \in 1..Len(sink[m]) : sink'[m][k] = sink[m][k]
  <2>1. /\ DOMAIN sink'[m] = 1..(Len(sink[m]) + 1)
        /\ \A k \in DOMAIN sink[m] : sink'[m][k] = sink[m][k]
    BY <1>2, AppendFragment
  <2>2. \A a, b \in Nat : 1..(a + 1) = 1..b => a <= b
    OBVIOUS
  <2> QED
    BY <1>0, <2>1, <2>2
<1>3. ASSUME NEW e \in Events, TS!Submit(e)
      PROVE  \/ sink' = sink
             \/ \E part \in TS!Parts : TS!WriteFragment(e, part)
  BY <1>3 DEF TS!Submit, TS!Stamp, TS!Body, TS!SinkError, TS!CutShort, TS!Parts
<1> QED
  BY <1>0, <1>1, <1>2, <1>3, SinkStep

LEMMA LinesGrow ==
    ASSUME DurableInv, [WorkerNext]_allVars, NEW m \in Matches, NEW n \in 1..Len(LinesOf(m))
    PROVE  n \in 1..Len(LinesOf(m)') /\ SubSeq(LinesOf(m), 1, n)' = SubSeq(LinesOf(m), 1, n)
<1> DEFINE s == LinesOf(m)
           t == LinesOf(m)'
<1>0. DurableInv'
  BY DurableStep
<1>1. s \in Seq(Events) /\ t \in Seq(Events)
  BY <1>0, LinesType DEF LinesOf, DurableInv, WorkerTypeOK, TS!TypeOK
<1>2. /\ DOMAIN s = 1..(Len(sink[m]) \div 2) /\ DOMAIN t = 1..(Len(sink'[m]) \div 2)
      /\ \A i \in DOMAIN s : s[i] = sink[m][2 * i].of
      /\ \A i \in DOMAIN t : t[i] = sink'[m][2 * i].of
  BY DEF LinesOf, TS!Lines
<1> HIDE DEF s, t
<1>3. \A a, b \in Nat : a <= b => \A i \in 1..(a \div 2) : i \in 1..(b \div 2) /\ 2 * i \in 1..a
  OBVIOUS
<1>4. ASSUME NEW i \in DOMAIN s PROVE i \in DOMAIN t /\ t[i] = s[i]
  <2>1. /\ Len(sink[m]) \in Nat /\ Len(sink'[m]) \in Nat /\ Len(sink[m]) <= Len(sink'[m])
        /\ \A k \in 1..Len(sink[m]) : sink'[m][k] = sink[m][k]
    BY FileGrows
  <2>2. i \in 1..(Len(sink[m]) \div 2)
    BY <1>2
  <2>3. i \in 1..(Len(sink'[m]) \div 2) /\ 2 * i \in 1..Len(sink[m])
    BY <1>3, <2>1, <2>2
  <2> QED
    BY <1>2, <2>1, <2>3
<1>5. /\ DOMAIN s = 1..Len(s) /\ DOMAIN t = 1..Len(t)
      /\ Len(s) \in Nat /\ Len(t) \in Nat
  BY <1>1
<1>6. n \in 1..Len(s) /\ n \in 1..Len(t)
  BY <1>4, <1>5 DEF s
<1>7. /\ SubSeq(s, 1, n) \in Seq(Events) /\ Len(SubSeq(s, 1, n)) = n
      /\ \A i \in 1..n : SubSeq(s, 1, n)[i] = s[i]
  BY <1>6, PrefixIs DEF PrefixOK, s
<1>8. /\ SubSeq(t, 1, n) \in Seq(Events) /\ Len(SubSeq(t, 1, n)) = n
      /\ \A i \in 1..n : SubSeq(t, 1, n)[i] = t[i]
  BY <1>0, <1>6, PrefixIsNext DEF PrefixOK, t
<1>9. \A i \in 1..n : t[i] = s[i]
  BY <1>4, <1>5, <1>6
<1>10. SubSeq(t, 1, n) = SubSeq(s, 1, n)
  BY <1>7, <1>8, <1>9, SeqEqual
<1> QED
  BY <1>6, <1>10 DEF s, t

\* When no handler moves, every match stays what it is.
LEMMA QuietMatches ==
    ASSUME Serial, DurableInv, CountInv, SaveInv, MatchInv, [WorkerNext]_allVars,
           \A w \in Workers : ~Handler(w)
    PROVE  MatchInv'
<1>1. /\ UNCHANGED <<risk, ledger, marker, job>>
      /\ \A w \in Workers : pc[w] = "handling" => pc'[w] = pc[w] /\ cur'[w] = cur[w]
  BY QuietStep DEF store
<1>2. \A w \in Workers : job[w].step # "grace" => pc[w] = "handling"
  BY DEF DurableInv, LedgerThenMarker, Idle
<1>3. \A w \in Workers, m \in Matches : Scoring(w, m)' <=> Scoring(w, m)
  BY <1>1, <1>2 DEF Scoring, Match
<1>4. \A p \in Players, l \in Events : Kept(p, l)' = Kept(p, l)
  BY KeptStep DEF Handler
<1>5. \A w \in Workers : At(w, "load")' => Match(w)' \notin marker'
  BY <1>1, <1>2 DEF MatchInv, At, Match
<1>6. ASSUME NEW m \in Matches, Untouched(m) PROVE Untouched(m)'
  BY <1>1, <1>3, <1>4, <1>6 DEF Untouched, LinesOfMatch
<1>7. ASSUME NEW m \in Matches, NEW n \in 1..Len(LinesOf(m)), SettledUpTo(m, n)
      PROVE  n \in 1..Len(LinesOf(m)') /\ SettledUpTo(m, n)'
  <2>1. n \in 1..Len(LinesOf(m)') /\ SubSeq(LinesOf(m), 1, n)' = SubSeq(LinesOf(m), 1, n)
    BY LinesGrow
  <2> QED
    BY <1>1, <1>3, <1>4, <1>7, <2>1 DEF SettledUpTo, LinesOfMatch
<1>8. ASSUME NEW m \in Matches, NEW n \in 1..Len(LinesOf(m)), NEW w \in Workers,
             InProgress(w, m, n)
      PROVE  n \in 1..Len(LinesOf(m)') /\ InProgress(w, m, n)'
  <2>1. n \in 1..Len(LinesOf(m)') /\ SubSeq(LinesOf(m), 1, n)' = SubSeq(LinesOf(m), 1, n)
    BY LinesGrow
  <2>2. /\ HasEntry(w)' <=> HasEntry(w)
        /\ \A p, l : Scored(w, p, l)' = Scored(w, p, l)
    BY <1>1 DEF HasEntry, Scored, Entries
  <2> QED
    BY <1>1, <1>3, <1>4, <1>8, <2>1, <2>2 DEF InProgress, LinesOfMatch
<1> QED
  BY <1>5, <1>6, <1>7, <1>8 DEF MatchInv

\* What the handler does to the marker, the ledger and its place in the loops.
LEMMA ScoringSteps ==
    ASSUME Serial, NoneRefused, DurableInv, CountInv, SaveInv, NEW w \in Workers, Handler(w)
    PROVE  \/ /\ UNCHANGED <<ledger, marker>> /\ job[w].step \in {"grace", "applied", "load"}
              /\ job'[w].step \in {"grace", "applied", "load"}
              /\ job'[w].step = "load" => Match(w) \notin marker
              /\ ~Write(w)
           \/ /\ UNCHANGED <<ledger, marker>> /\ job[w].step = "load"
              /\ TS!Readable(sink[Match(w)]) /\ sink[Match(w)] # <<>>
              /\ job'[w] = Loaded(LinesOf(Match(w)))
              /\ pc'[w] = "handling" /\ ~Write(w)
           \/ /\ UNCHANGED <<ledger, marker>> /\ pc'[w] = "handling" /\ ~Write(w)
              /\ job[w].step \in {"score", "truncate", "write"}
              /\ job'[w].step \in {"score", "truncate", "write"}
              /\ job'[w].lines = job[w].lines
              /\ job'[w].i = job[w].i /\ job'[w].j = job[w].j
           \/ /\ UNCHANGED <<ledger, marker>> /\ pc'[w] = "handling" /\ Write(w)
              /\ job[w].step = "write"
              /\ job'[w] = NextEntry([job[w] EXCEPT !.step = "score", !.prev = NoLines])
           \/ /\ marker' = marker /\ pc'[w] = "handling" /\ ~Write(w)
              /\ ledger' = [ledger EXCEPT ![Match(w)] = Append(@, PlayersMap(job[w].lines))]
              /\ job[w].step = "score" /\ ~HasEntry(w)
              /\ job'[w] = [job[w] EXCEPT !.step = "mark"]
           \/ /\ marker' = marker \cup {Match(w)} /\ ledger' = ledger /\ ~Write(w)
              /\ job[w].step = "mark" /\ job'[w] = Idle /\ pc'[w] = "done"
<1>0. /\ job \in [Workers -> [step : Steps, lines : Seq(Events), i : Nat, j : Nat, prev : Bag]]
      /\ pc \in [Workers -> {"down", "idle", "scanning"} \cup Holding]
      /\ ~Fallible /\ pc[w] = "handling" /\ Idle.step = "grace"
  BY JobType, HandlerSteps DEF DurableInv, WorkerTypeOK, TypeOK, Serial, Fallible, Idle
<1>1. ASSUME NEW verdict, HandlerReturns(w, verdict) PROVE job'[w] = Idle /\ pc'[w] = verdict
  BY <1>0, <1>1 DEF HandlerReturns, Return, Goto
<1>2. ASSUME NEW step, Continue(w, step)
      PROVE  job'[w] = [job[w] EXCEPT !.step = step] /\ job'[w].step = step /\ pc' = pc
  BY <1>0, <1>2 DEF Continue, vars
<1>3. CASE CheckGrace(w) \/ CheckApplied(w)
  BY <1>0, <1>1, <1>2, <1>3 DEF CheckGrace, CheckApplied, At, store, Write
<1>4. CASE LoadTelemetry(w)
  <2>1. UNCHANGED <<ledger, marker>> /\ job[w].step = "load" /\ ~Write(w)
    BY <1>4 DEF LoadTelemetry, At, store, Write
  <2>2. CASE job'[w] = Idle
    BY <1>0, <2>1, <2>2
  <2>3. CASE job'[w] # Idle
    BY <1>0, <1>1, <1>4, <2>1, <2>3 DEF LoadTelemetry, LinesOf, vars
  <2> QED
    BY <2>2, <2>3
<1>5. CASE LoadPlayer(w)
  <2>1. /\ UNCHANGED <<ledger, marker>> /\ job[w].step = "score" /\ ~Write(w)
        /\ job[w].i \in DOMAIN job[w].lines /\ job[w].j \in DOMAIN PlayersOf[Line(w)]
    BY <1>0, <1>5 DEF LoadPlayer, At, store, Write, HasEntry, DurableInv, WorkerTypeOK
  <2>2. Line(w) \in Events /\ Player(w) \in Players
    BY <2>1, PlayerType DEF NoneRefused, Range, Player, DurableInv
  <2>3. Player(w) # Refused /\ risk[Player(w)].state \notin Unreadable
    <3>1. \A v \in Workers : job[v].step # "write"
      BY <2>1 DEF Serial
    <3> QED
      BY <2>2, <3>1, RefusedAssumption DEF SaveInv, Unreadable
  <2>4. job' = [job EXCEPT ![w].step = "truncate", ![w].prev = risk[Player(w)].counted] /\ pc' = pc
    BY <1>0, <1>5, <2>3 DEF LoadPlayer, vars
  <2>5. /\ job'[w].step = "truncate" /\ job'[w].lines = job[w].lines
        /\ job'[w].i = job[w].i /\ job'[w].j = job[w].j
    BY <1>0, <2>4
  <2> QED
    BY <1>0, <2>1, <2>4, <2>5
<1>6. CASE Truncate(w)
  <2>1. job[w].step = "truncate" /\ UNCHANGED <<ledger, marker>> /\ Continue(w, "write")
    BY <1>0, <1>6 DEF Truncate, At
  <2>2. /\ job'[w].lines = job[w].lines /\ job'[w].i = job[w].i /\ job'[w].j = job[w].j
        /\ job'[w].step = "write" /\ pc'[w] = "handling"
    BY <1>0, <1>2, <2>1
  <2> QED
    BY <2>1, <2>2 DEF Write, At
<1>7. CASE Write(w)
  <2>1. job[w].step = "write" /\ UNCHANGED <<ledger, marker>>
    BY <1>7 DEF Write, At
  <2>2. /\ job'[w] = NextEntry([job[w] EXCEPT !.step = "score", !.prev = NoLines])
        /\ pc' = pc
    BY <1>0, <1>7 DEF Write, vars
  <2> QED
    BY <1>0, <1>7, <2>1, <2>2
<1>8. CASE AppendLedger(w)
  BY <1>0, <1>2, <1>8 DEF AppendLedger, At, Write
<1>9. CASE MarkApplied(w)
  BY <1>0, <1>1, <1>9 DEF MarkApplied, At, Write
<1> QED
  BY <1>3, <1>4, <1>5, <1>6, <1>7, <1>8, <1>9 DEF Handler

\* The handler leaves the other matches alone.
LEMMA OtherMatches ==
    ASSUME Serial, NoneRefused, DurableInv, CountInv, SaveInv, [WorkerNext]_allVars,
           NEW w \in Workers, Handler(w), NEW m \in Matches, m # Match(w)
    PROVE  /\ Untouched(m) => Untouched(m)'
           /\ \A n \in 1..Len(LinesOf(m)) : SettledUpTo(m, n) => SettledUpTo(m, n)'
           /\ LinesOf(m)' = LinesOf(m)
<1>1. UNCHANGED <<cur, sink>> /\ \A v \in Workers : v = w
  BY HandlerSteps DEF Serial
<1>2. (m \in marker' <=> m \in marker) /\ ledger'[m] = ledger[m]
  <2>1. ledger \in [Matches -> Seq(SUBSET (Players \X Events))] /\ Match(w) \in Matches
    BY HandlerSteps, MatchOfAssumption DEF DurableInv, WorkerTypeOK, Match
  <2>2. /\ \/ ledger' = ledger
           \/ ledger' = [ledger EXCEPT ![Match(w)] = Append(@, PlayersMap(job[w].lines))]
        /\ marker' = marker \/ marker' = marker \cup {Match(w)}
    BY ScoringSteps
  <2>3. ledger'[m] = ledger[m]
    BY <2>1, <2>2
  <2> QED
    BY <2>2, <2>3
<1>3. \A v \in Workers : ~Scoring(v, m)'
  BY <1>1 DEF Scoring, Match
<1>4. \A p \in Players, l \in LinesOfMatch(m) : Kept(p, l)' = Kept(p, l)
  <2> SUFFICES ASSUME NEW p \in Players, NEW l \in LinesOfMatch(m),
                      NEW v \in Workers, Write(v), Line(v) = l
               PROVE  FALSE
    BY KeptStep DEF LinesOfMatch
  <2>1. InSave(v)
    BY WriteStep DEF InSave
  <2>2. MatchOf[Line(v)] = Match(v)
    BY <2>1, SavingEntry DEF CountInv, LoadedInv
  <2> QED
    BY <1>1, <2>2 DEF LinesOfMatch
<1>5. LinesOf(m)' = LinesOf(m)
  BY <1>1 DEF LinesOf
<1> QED
  BY <1>2, <1>3, <1>4, <1>5 DEF Untouched, SettledUpTo

\* A handler that has not loaded the telemetry yet.
LEMMA BeforeLoading ==
    ASSUME Serial, DurableInv, CountInv, SaveInv, MatchInv, [WorkerNext]_allVars,
           NEW w \in Workers, Handler(w), NEW m \in Matches, m = Match(w),
           UNCHANGED <<ledger, marker>>,
           job[w].step \in {"grace", "applied", "load"},
           job'[w].step \in {"grace", "applied", "load"}, ~Write(w)
    PROVE  \/ Untouched(m)'
           \/ \E n \in 1..Len(LinesOf(m)') : SettledUpTo(m, n)'
<1>1. UNCHANGED <<cur, sink>> /\ \A v \in Workers : v = w
  BY HandlerSteps DEF Serial
<1>2. \A v \in Workers : ~Scoring(v, m) /\ ~Scoring(v, m)'
  BY <1>1 DEF Scoring
<1>3. \A p \in Players, l \in LinesOfMatch(m) : Kept(p, l)' = Kept(p, l)
  BY <1>1, KeptStep DEF LinesOfMatch
<1>4. LinesOf(m)' = LinesOf(m)
  BY <1>1 DEF LinesOf
<1>5. Untouched(m) => Untouched(m)'
  BY <1>2, <1>3 DEF Untouched
<1>6. \A n \in 1..Len(LinesOf(m)) : SettledUpTo(m, n) => SettledUpTo(m, n)'
  BY <1>2, <1>3, <1>4 DEF SettledUpTo
<1>7. \A n, v : v \in Workers => ~InProgress(v, m, n)
  BY <1>2 DEF InProgress
<1> QED
  BY <1>4, <1>5, <1>6, <1>7 DEF MatchInv

\* One that loads it finds the match untouched.
LEMMA Loading ==
    ASSUME Serial, DurableInv, CountInv, SaveInv, MatchInv, [WorkerNext]_allVars,
           NEW w \in Workers, Handler(w), NEW m \in Matches, m = Match(w),
           UNCHANGED <<ledger, marker>>, job[w].step = "load",
           TS!Readable(sink[m]), sink[m] # <<>>, job'[w] = Loaded(LinesOf(m)),
           pc'[w] = "handling", ~Write(w)
    PROVE  \E n \in 1..Len(LinesOf(m)') : InProgress(w, m, n)'
<1>1. UNCHANGED <<cur, sink>> /\ (\A v \in Workers : v = w) /\ pc[w] = "handling"
  BY HandlerSteps DEF Serial
<1>2. LinesOf(m)' = LinesOf(m) /\ Match(w)' = m
  BY <1>1 DEF LinesOf, Match
<1>3. m \notin marker
  BY <1>1 DEF MatchInv, At
<1>4. Untouched(m)
  BY <1>1, <1>3 DEF MatchInv, SettledUpTo, InProgress, Scoring
<1>5. \A p \in Players, l \in LinesOfMatch(m) : Kept(p, l)' = 0
  BY <1>1, <1>4, KeptStep DEF LinesOfMatch, Untouched
<1>6. /\ job'[w].step = "score" /\ job'[w].lines = LinesOf(m)
      /\ job'[w].i = 1 /\ job'[w].j = 1
  BY DEF Loaded
<1>7. LinesOf(m) \in Seq(Events) /\ Len(LinesOf(m)) \in Nat /\ Len(LinesOf(m)) >= 1
  <2>1. sink[m] \in Seq(TS!Fragment)
    BY DEF DurableInv, WorkerTypeOK, TS!TypeOK
  <2>2. LinesOf(m) \in Seq(Events)
    BY <2>1, LinesType DEF LinesOf
  <2>3. Len(sink[m]) \in Nat \ {0} /\ Len(sink[m]) % 2 = 0
    BY <2>1, EmptySeq DEF TS!Readable
  <2>4. 1 \in 1..(Len(sink[m]) \div 2)
    <3>1. \A a \in Nat \ {0} : a % 2 = 0 => 1 \in 1..(a \div 2)
      OBVIOUS
    <3> QED
      BY <2>3, <3>1
  <2>5. 1 \in DOMAIN LinesOf(m)
    BY <2>4 DEF LinesOf, TS!Lines
  <2> QED
    BY <2>2, <2>5
<1>8. SubSeq(LinesOf(m), 1, Len(LinesOf(m))) = LinesOf(m)
  BY <1>7, SubSeqFull
<1>9. ASSUME NEW p \in Players, NEW l \in LinesOfMatch(m)
      PROVE  Cardinality(Scored(w, p, l)') = 0
  <2>1. \A j \in Entries(p, l) : j \in Nat /\ ~(j < 1)
    <3>1. PlayersOf[l] \in Seq(Players \cup {Refused})
      BY PlayersOfAssumption DEF LinesOfMatch
    <3> QED
      BY <3>1 DEF Entries
  <2>2. \A i \in DOMAIN job'[w].lines : ~(i < 1)
    BY <1>6, <1>7
  <2>3. Scored(w, p, l)' = {}
    BY <1>6, <2>1, <2>2 DEF Scored, Entries
  <2> QED
    BY <2>3, FS_EmptySet
<1>10. Scoring(w, m)'
  BY <1>2, <1>6 DEF Scoring
<1>11. InProgress(w, m, Len(LinesOf(m)))'
  BY <1>2, <1>3, <1>4, <1>5, <1>6, <1>8, <1>9, <1>10 DEF InProgress, Untouched, LinesOfMatch
<1> QED
  BY <1>2, <1>7, <1>11

\* The steps of the loops: what is kept grows with the entries counted.
LEMMA Scanning ==
    ASSUME Serial, DurableInv, CountInv, SaveInv, [WorkerNext]_allVars,
           NEW w \in Workers, Handler(w), NEW m \in Matches, m = Match(w),
           UNCHANGED <<ledger, marker>>, pc'[w] = "handling", ~Write(w),
           job[w].step \in {"score", "truncate", "write"},
           job'[w].step \in {"score", "truncate", "write"},
           job'[w].lines = job[w].lines, job'[w].i = job[w].i, job'[w].j = job[w].j,
           NEW n \in 1..Len(LinesOf(m)), InProgress(w, m, n)
    PROVE  InProgress(w, m, n)' /\ LinesOf(m)' = LinesOf(m)
<1>1. UNCHANGED <<cur, sink>> /\ \A v \in Workers : v = w
  BY HandlerSteps DEF Serial
<1>2. LinesOf(m)' = LinesOf(m) /\ Match(w)' = m
  BY <1>1 DEF LinesOf, Match
<1>3. \A p \in Players, l \in LinesOfMatch(m) : Kept(p, l)' = Kept(p, l)
  BY <1>1, KeptStep DEF LinesOfMatch
<1>4. \A p, l : Scored(w, p, l)' = Scored(w, p, l)
  BY DEF Scored, Entries
<1> QED
  BY <1>2, <1>3, <1>4 DEF InProgress, Scoring, LinesOfMatch

LEMMA EntryScored ==
    ASSUME DurableInv, CountInv, NEW w \in Workers, InSave(w),
           job'[w] = NextEntry([job[w] EXCEPT !.step = "score", !.prev = NoLines]),
           NEW p \in Players, NEW l \in Events
    PROVE  /\ l = Line(w) /\ p = Player(w) =>
                 /\ job[w].j \notin Scored(w, p, l)
                 /\ Scored(w, p, l)' = Scored(w, p, l) \cup {job[w].j}
           /\ l # Line(w) \/ p # Player(w) => Scored(w, p, l)' = Scored(w, p, l)
<1> DEFINE x == [job[w] EXCEPT !.step = "score", !.prev = NoLines]
           I == job[w].i
           J == job[w].j
           lines == job[w].lines
<1>0. job \in [Workers -> [step : Steps, lines : Seq(Events), i : Nat, j : Nat, prev : Bag]]
  BY JobType DEF DurableInv
<1>1. x.lines = lines /\ x.i = I /\ x.j = J
  BY <1>0
<1>2. /\ I \in DOMAIN lines /\ Line(w) = lines[I] /\ Line(w) \in Events
      /\ J \in DOMAIN PlayersOf[Line(w)] /\ Player(w) = PlayersOf[Line(w)][J]
      /\ I \in Nat /\ J \in Nat
      /\ \A i \in DOMAIN lines : i \in Nat
  BY <1>0, SavingEntry
<1>3. \A i \in DOMAIN lines : lines[i] = Line(w) => i = I
  BY <1>2 DEF CountInv, LoadedInv
<1>4. /\ job'[w].lines = lines
      /\ \/ job'[w].i = I /\ job'[w].j = J + 1
         \/ job'[w].i = I + 1 /\ job'[w].j = 1 /\ ~(J < Len(PlayersOf[Line(w)]))
  <2>1. job'[w] = NextEntry(x)
    OBVIOUS
  <2>2. x \in [step : Steps, lines : Seq(Events), i : Nat, j : Nat, prev : Bag]
    BY <1>0, NoLinesType DEF Steps
  <2> HIDE DEF x
  <2>3. CASE x.j < Len(PlayersOf[x.lines[x.i]])
    <3>1. job'[w] = [x EXCEPT !.j = @ + 1]
      BY <2>1, <2>3 DEF NextEntry
    <3> QED
      BY <1>1, <2>2, <3>1
  <2>4. CASE ~(x.j < Len(PlayersOf[x.lines[x.i]]))
    <3>1. job'[w] = [x EXCEPT !.i = @ + 1, !.j = 1]
      BY <2>1, <2>4 DEF NextEntry
    <3> QED
      BY <1>1, <1>2, <2>2, <2>4, <3>1
  <2> QED
    BY <2>3, <2>4
<1>5. PlayersOf[l] \in Seq(Players \cup {Refused})
  BY PlayersOfAssumption
<1>6. /\ Len(PlayersOf[l]) \in Nat /\ J \in 1..Len(PlayersOf[Line(w)])
      /\ \A j \in Entries(p, l) : j \in 1..Len(PlayersOf[l])
  <2>1. PlayersOf[Line(w)] \in Seq(Players \cup {Refused})
    BY <1>2, PlayersOfAssumption
  <2> QED
    BY <1>2, <1>5, <2>1 DEF Entries
<1> HIDE DEF x, I, J, lines
<1>7. \A j : j \in Scored(w, p, l) <=>
               /\ j \in Entries(p, l)
               /\ \E i \in DOMAIN lines : lines[i] = l /\ (i < I \/ (i = I /\ j < J))
  BY DEF Scored, I, J, lines
<1>8. \A j : j \in Scored(w, p, l)' <=>
               /\ j \in Entries(p, l)
               /\ \E i \in DOMAIN lines :
                     lines[i] = l /\ (i < job'[w].i \/ (i = job'[w].i /\ j < job'[w].j))
  BY <1>4 DEF Scored, Entries
<1>9. CASE l = Line(w)
  <2>1. \A j : j \in Scored(w, p, l) <=> j \in Entries(p, l) /\ j < J
    BY <1>2, <1>3, <1>7, <1>9
  <2>2. \A j \in Entries(p, l) : j < J + 1 <=> j < J \/ j = J
    BY <1>2, <1>6
  <2>3. \A j : j \in Scored(w, p, l)' <=> j \in Entries(p, l) /\ (j < J \/ j = J)
    <3>1. CASE job'[w].i = I /\ job'[w].j = J + 1
      BY <1>2, <1>3, <1>8, <1>9, <2>2, <3>1
    <3>2. CASE job'[w].i = I + 1 /\ job'[w].j = 1 /\ ~(J < Len(PlayersOf[Line(w)]))
      <4>1. \A j \in Entries(p, l) : j < J \/ j = J
        BY <1>6, <1>9, <3>2
      <4>2. I < I + 1
        BY <1>2
      <4> QED
        BY <1>2, <1>8, <1>9, <3>2, <4>1, <4>2
    <3> QED
      BY <1>4, <3>1, <3>2
  <2>4. J \in Entries(p, l) <=> p = Player(w)
    BY <1>2, <1>9 DEF Entries
  <2> QED
    BY <1>2, <1>9, <2>1, <2>3, <2>4 DEF J
<1>10. CASE l # Line(w)
  <2>1. \A i \in DOMAIN lines : lines[i] = l => i # I
    BY <1>2, <1>10
  <2>2. ASSUME NEW j \in Entries(p, l), NEW i \in DOMAIN lines, lines[i] = l
        PROVE  (i < job'[w].i \/ (i = job'[w].i /\ j < job'[w].j)) <=>
               (i < I \/ (i = I /\ j < J))
    BY <1>2, <1>4, <1>6, <2>1, <2>2
  <2>3. \A j : j \in Scored(w, p, l)' <=> j \in Scored(w, p, l)
    BY <1>7, <1>8, <2>2
  <2> QED
    BY <1>10, <2>3
<1> QED
  BY <1>9, <1>10

LEMMA Writing ==
    ASSUME Serial, DurableInv, CountInv, SaveInv, [WorkerNext]_allVars,
           NEW w \in Workers, Handler(w), NEW m \in Matches, m = Match(w),
           UNCHANGED <<ledger, marker>>, pc'[w] = "handling", Write(w),
           job[w].step = "write",
           job'[w] = NextEntry([job[w] EXCEPT !.step = "score", !.prev = NoLines]),
           NEW n \in 1..Len(LinesOf(m)), InProgress(w, m, n)
    PROVE  InProgress(w, m, n)' /\ LinesOf(m)' = LinesOf(m)
<1>1. UNCHANGED <<cur, sink>> /\ \A v \in Workers : v = w
  BY HandlerSteps DEF Serial
<1>2. LinesOf(m)' = LinesOf(m) /\ Match(w)' = m
  BY <1>1 DEF LinesOf, Match
<1>3. job'[w].step = "score" /\ job'[w].lines = job[w].lines
  BY NextEntryIs
<1>4. ASSUME NEW p \in Players, NEW l \in LinesOfMatch(m)
      PROVE  Kept(p, l)' = Cardinality(Scored(w, p, l)')
  <2>1. l \in Events /\ InSave(w)
    BY DEF LinesOfMatch, InSave
  <2>2. Kept(p, l) = Cardinality(Scored(w, p, l))
    BY <1>4 DEF InProgress
  <2>3. CASE l = Line(w) /\ p = Player(w)
    <3>1. IsFiniteSet(Scored(w, p, l))
      <4>1. Scored(w, p, l) \in SUBSET Entries(p, l)
        BY DEF Scored
      <4> QED
        BY <2>1, <4>1, EntriesFinite, FS_Subset
    <3>2. /\ job[w].j \notin Scored(w, p, l)
          /\ Scored(w, p, l)' = Scored(w, p, l) \cup {job[w].j}
      BY <2>1, <2>3, EntryScored
    <3>3. Kept(p, l)' = Kept(p, l) + 1
      BY <1>4, <2>1, <2>3, KeptStep
    <3> QED
      BY <2>2, <3>1, <3>2, <3>3, FS_AddElement
  <2>4. CASE ~(l = Line(w) /\ p = Player(w))
    <3>1. Scored(w, p, l)' = Scored(w, p, l)
      BY <2>1, <2>4, EntryScored
    <3>2. Kept(p, l)' = Kept(p, l)
      BY <1>1, <1>4, <2>1, <2>4, KeptStep
    <3> QED
      BY <2>2, <3>1, <3>2
  <2> QED
    BY <2>3, <2>4
<1> QED
  BY <1>2, <1>3, <1>4 DEF InProgress, Scoring, LinesOfMatch

\* After the last entry the ledger gets the map of all lines.
LEMMA Appending ==
    ASSUME Serial, DurableInv, CountInv, SaveInv, [WorkerNext]_allVars,
           NEW w \in Workers, Handler(w), NEW m \in Matches, m = Match(w),
           marker' = marker, pc'[w] = "handling", ~Write(w),
           ledger' = [ledger EXCEPT ![Match(w)] = Append(@, PlayersMap(job[w].lines))],
           job[w].step = "score", ~HasEntry(w),
           job'[w] = [job[w] EXCEPT !.step = "mark"],
           NEW n \in 1..Len(LinesOf(m)), InProgress(w, m, n)
    PROVE  InProgress(w, m, n)' /\ LinesOf(m)' = LinesOf(m)
<1>0. job \in [Workers -> [step : Steps, lines : Seq(Events), i : Nat, j : Nat, prev : Bag]]
  BY JobType DEF DurableInv
<1>1. UNCHANGED <<cur, sink>> /\ \A v \in Workers : v = w
  BY HandlerSteps DEF Serial
<1>2. LinesOf(m)' = LinesOf(m) /\ Match(w)' = m
  BY <1>1 DEF LinesOf, Match
<1>3. \A p \in Players, l \in LinesOfMatch(m) : Kept(p, l)' = Kept(p, l)
  BY <1>1, KeptStep DEF LinesOfMatch
<1>4. /\ job'[w].lines = job[w].lines /\ job'[w].i = job[w].i /\ job'[w].j = job[w].j
      /\ job'[w].step = "mark"
  BY <1>0
<1>5. \A p, l : Scored(w, p, l)' = Scored(w, p, l)
  BY <1>4 DEF Scored, Entries
<1>6. ledger'[m] = <<PlayersMap(job'[w].lines)>>
  <2>1. ledger[m] = <<>> /\ DOMAIN ledger = Matches
    BY DEF InProgress, DurableInv, WorkerTypeOK
  <2>2. \A x : Append(<<>>, x) = <<x>>
    OBVIOUS
  <2> QED
    BY <1>4, <2>1, <2>2
<1>7. ~HasEntry(w)'
  BY <1>4 DEF HasEntry
<1>8. Scoring(w, m)' /\ job'[w].lines = SubSeq(LinesOf(m), 1, n)' /\ m \notin marker'
  BY <1>2, <1>4 DEF Scoring, InProgress
<1>9. \A p \in Players, l \in LinesOfMatch(m) : Kept(p, l)' = Cardinality(Scored(w, p, l)')
  BY <1>3, <1>5 DEF InProgress
<1> QED
  BY <1>2, <1>4, <1>6, <1>7, <1>8, <1>9 DEF InProgress, LinesOfMatch

\* The marker is set when every entry of every line has been counted.
LEMMA Marking ==
    ASSUME Serial, DurableInv, CountInv, SaveInv, [WorkerNext]_allVars,
           NEW w \in Workers, Handler(w), NEW m \in Matches, m = Match(w),
           marker' = marker \cup {Match(w)}, ledger' = ledger, ~Write(w),
           job[w].step = "mark", job'[w] = Idle,
           NEW n \in 1..Len(LinesOf(m)), InProgress(w, m, n)
    PROVE  SettledUpTo(m, n)' /\ LinesOf(m)' = LinesOf(m)
<1>0. /\ job[w].lines \in Seq(Events) /\ job[w].i \in Nat /\ job[w].lines = SubSeq(LinesOf(m), 1, n)
      /\ Len(job[w].lines) \in Nat /\ DOMAIN job[w].lines = 1..Len(job[w].lines)
  BY JobType DEF DurableInv, InProgress
<1>1. UNCHANGED <<cur, sink>> /\ \A v \in Workers : v = w
  BY HandlerSteps DEF Serial
<1>2. LinesOf(m)' = LinesOf(m) /\ \A v \in Workers : ~Scoring(v, m)'
  BY <1>1 DEF LinesOf, Scoring, Idle
<1>3. \A p \in Players, l \in LinesOfMatch(m) : Kept(p, l)' = Kept(p, l)
  BY <1>1, KeptStep DEF LinesOfMatch
<1>4. \A i \in DOMAIN job[w].lines : i < job[w].i
  BY <1>0 DEF InProgress, HasEntry
<1>5. ASSUME NEW p \in Players, NEW l \in LinesOfMatch(m)
      PROVE  Kept(p, l) = IF l \in Range(job[w].lines) THEN Listed(l, p) ELSE 0
  <2>1. Kept(p, l) = Cardinality(Scored(w, p, l))
    BY <1>5 DEF InProgress
  <2>2. CASE l \in Range(job[w].lines)
    <3>1. Scored(w, p, l) = Entries(p, l)
      BY <1>4, <2>2 DEF Scored, Range
    <3> QED
      BY <2>1, <2>2, <3>1 DEF Listed, Entries
  <2>3. CASE l \notin Range(job[w].lines)
    <3>1. Scored(w, p, l) = {}
      BY <2>3 DEF Scored, Range
    <3> QED
      BY <2>1, <2>3, <3>1, FS_EmptySet
  <2> QED
    BY <2>2, <2>3
<1>6. m \in marker' /\ ledger'[m] = <<PlayersMap(SubSeq(LinesOf(m), 1, n))>>
  BY <1>0 DEF InProgress
<1>7. \A p \in Players, l \in LinesOfMatch(m) :
         Kept(p, l)' = IF l \in Range(SubSeq(LinesOf(m), 1, n)) THEN Listed(l, p) ELSE 0
  BY <1>0, <1>3, <1>5
<1> QED
  BY <1>2, <1>6, <1>7 DEF SettledUpTo, LinesOfMatch

LEMMA OwnMatch ==
    ASSUME Serial, NoneRefused, DurableInv, CountInv, SaveInv, MatchInv, [WorkerNext]_allVars,
           NEW w \in Workers, Handler(w), NEW m \in Matches, m = Match(w)
    PROVE  \/ Untouched(m)'
           \/ \E n \in 1..Len(LinesOf(m)') : SettledUpTo(m, n)' \/ InProgress(w, m, n)'
<1>1. pc[w] = "handling" /\ \A v \in Workers : v = w
  BY HandlerSteps DEF Serial
<1>2. ASSUME job[w].step \in {"score", "truncate", "write", "mark"}
      PROVE  \E n \in 1..Len(LinesOf(m)) : InProgress(w, m, n)
  <2>1. Scoring(w, m)
    BY <1>1, <1>2 DEF Scoring
  <2> QED
    BY <1>1, <2>1 DEF MatchInv, Untouched, SettledUpTo
<1>3. CASE /\ UNCHANGED <<ledger, marker>> /\ job[w].step \in {"grace", "applied", "load"}
           /\ job'[w].step \in {"grace", "applied", "load"}
           /\ ~Write(w)
  BY <1>3, BeforeLoading
<1>4. CASE /\ UNCHANGED <<ledger, marker>> /\ job[w].step = "load"
           /\ TS!Readable(sink[Match(w)]) /\ sink[Match(w)] # <<>>
           /\ job'[w] = Loaded(LinesOf(Match(w)))
           /\ pc'[w] = "handling" /\ ~Write(w)
  BY <1>4, Loading
<1>5. CASE /\ UNCHANGED <<ledger, marker>> /\ pc'[w] = "handling" /\ ~Write(w)
           /\ job[w].step \in {"score", "truncate", "write"}
           /\ job'[w].step \in {"score", "truncate", "write"}
           /\ job'[w].lines = job[w].lines
           /\ job'[w].i = job[w].i /\ job'[w].j = job[w].j
  BY <1>2, <1>5, Scanning
<1>6. CASE /\ UNCHANGED <<ledger, marker>> /\ pc'[w] = "handling" /\ Write(w)
           /\ job[w].step = "write"
           /\ job'[w] = NextEntry([job[w] EXCEPT !.step = "score", !.prev = NoLines])
  BY <1>2, <1>6, Writing
<1>7. CASE /\ marker' = marker /\ pc'[w] = "handling" /\ ~Write(w)
           /\ ledger' = [ledger EXCEPT ![Match(w)] = Append(@, PlayersMap(job[w].lines))]
           /\ job[w].step = "score" /\ ~HasEntry(w)
           /\ job'[w] = [job[w] EXCEPT !.step = "mark"]
  BY <1>2, <1>7, Appending
<1>8. CASE /\ marker' = marker \cup {Match(w)} /\ ledger' = ledger /\ ~Write(w)
           /\ job[w].step = "mark" /\ job'[w] = Idle /\ pc'[w] = "done"
  BY <1>2, <1>8, Marking
<1> QED
  BY <1>3, <1>4, <1>5, <1>6, <1>7, <1>8, ScoringSteps

LEMMA MatchStep ==
    ASSUME Serial, NoneRefused, DurableInv, CountInv, SaveInv, MatchInv, [WorkerNext]_allVars
    PROVE  MatchInv'
<1>1. CASE \A w \in Workers : ~Handler(w)
  BY <1>1, QuietMatches
<1>2. ASSUME NEW w \in Workers, Handler(w) PROVE MatchInv'
  <2>0. (\A v \in Workers : v = w) /\ cur' = cur
    BY <1>2, HandlerSteps DEF Serial
  <2>1. At(w, "load")' => Match(w)' \notin marker'
    <3>1. job'[w].step = "load" => Match(w) \notin marker /\ marker' = marker
      <4>1. job \in [Workers -> [step : Steps, lines : Seq(Events), i : Nat, j : Nat, prev : Bag]]
        BY JobType DEF DurableInv
      <4>2. /\ Idle.step = "grace" /\ \A lines : Loaded(lines).step = "score"
            /\ [job[w] EXCEPT !.step = "mark"].step = "mark"
        BY <4>1 DEF Idle, Loaded
      <4>3. job'[w] = NextEntry([job[w] EXCEPT !.step = "score", !.prev = NoLines])
               => job'[w].step = "score"
        BY NextEntryIs
      <4> QED
        BY <1>2, <4>2, <4>3, ScoringSteps
    <3> QED
      BY <2>0, <3>1 DEF At, Match
  <2>2. ASSUME NEW m \in Matches, m = Match(w)
        PROVE  \/ Untouched(m)'
               \/ \E n \in 1..Len(LinesOf(m)') :
                     SettledUpTo(m, n)' \/ \E v \in Workers : InProgress(v, m, n)'
    BY <1>2, <2>2, OwnMatch
  <2>3. ASSUME NEW m \in Matches, m # Match(w)
        PROVE  \/ Untouched(m)'
               \/ \E n \in 1..Len(LinesOf(m)') : SettledUpTo(m, n)'
    <3>1. \A n, v : v \in Workers => ~InProgress(v, m, n)
      BY <2>0, <2>3 DEF InProgress, Scoring
    <3> QED
      BY <1>2, <2>3, <3>1, OtherMatches DEF MatchInv
  <2> QED
    BY <2>0, <2>1, <2>2, <2>3 DEF MatchInv
<1> QED
  BY <1>1, <1>2

LEMMA MatchInit ==
    ASSUME Serial
    PROVE  WorkerInit => MatchInv
<1> SUFFICES ASSUME WorkerInit PROVE MatchInv
  OBVIOUS
<1>1. KeptOK
  BY DurableInit, KeptIs
<1>2. /\ \A w \in Workers : job[w] = Idle /\ Idle.step = "grace"
      /\ marker = {} /\ ledger = [m \in Matches |-> <<>>]
      /\ \A p \in Players, l \in Events : risk[p].counted[l] = 0
  BY NoneCounted DEF WorkerInit, Idle
<1>3. \A p \in Players, l \in Events : Kept(p, l) = 0
  BY <1>1, <1>2 DEF KeptOK
<1> QED
  BY <1>2, <1>3 DEF MatchInv, Untouched, Scoring, At, LinesOfMatch

\* With one worker that meets no crash and no I/O error, and entries that all
\* name their player, a match that no worker is on is unmarked, unscored and
\* not in the ledger, or marked, with one ledger line that names the same
\* prefix of its telemetry as the players' files do, each line once
\* (cmd/risk-worker/main.go:200-294).  Overlapping submissions, broken telemetry,
\* later events of the match and clean stops make no difference.
THEOREM MatchesAreScoredOnce ==
    ASSUME Serial, NoneRefused
    PROVE  WorkerSpec => []MatchIsScoredOnce
<1>1. DurableInv /\ CountInv /\ SaveInv /\ MatchInv /\ [WorkerNext]_allVars => MatchInv'
  BY MatchStep
<1>2. WorkerSpec => []MatchInv
  BY <1>1, DurableInductive, CountInductive, SaveInductive, MatchInit, PTL DEF WorkerSpec
<1>3. DurableInv /\ MatchInv => MatchIsScoredOnce
  <2> SUFFICES ASSUME DurableInv, MatchInv, NEW m \in Matches, ~Attended(m),
                      \A w \in Workers : ~At(w, "write")
               PROVE  IF m \in marker
                      THEN \E n \in 1..Len(LinesOf(m)) :
                              /\ ScoredUpTo(m, n)
                              /\ ledger[m] = <<PlayersMap(SubSeq(LinesOf(m), 1, n))>>
                      ELSE ScoredUpTo(m, 0) /\ ledger[m] = <<>>
    BY DEF MatchIsScoredOnce
  <2>1. \A p \in Players, l \in LinesOfMatch(m) : Counted(p, l) = Kept(p, l)
    <3>1. \A w \in Workers : job[w].step # "write"
      BY StepIsAt DEF Steps
    <3> QED
      BY <3>1, KeptIs DEF KeptOK, LinesOfMatch, Counted
  <2>2. \A w \in Workers : ~Scoring(w, m)
    BY DEF Scoring, Attended, DurableInv, WorkerTypeOK, TypeOK, Holding
  <2>3. CASE Untouched(m)
    <3>1. SubSeq(LinesOf(m), 1, 0) = <<>>
      BY SubSeqEmpty
    <3>2. Range(SubSeq(LinesOf(m), 1, 0)) = {}
      BY <3>1 DEF Range
    <3> QED
      BY <2>1, <2>3, <3>2 DEF Untouched, ScoredUpTo, LinesOfMatch
  <2>4. ASSUME NEW n \in 1..Len(LinesOf(m)), SettledUpTo(m, n)
        PROVE  /\ m \in marker /\ ScoredUpTo(m, n)
               /\ ledger[m] = <<PlayersMap(SubSeq(LinesOf(m), 1, n))>>
    BY <2>1, <2>4 DEF SettledUpTo, ScoredUpTo, LinesOfMatch
  <2>5. \A n, w : w \in Workers => ~InProgress(w, m, n)
    BY <2>2 DEF InProgress
  <2> QED
    BY <2>3, <2>4, <2>5 DEF MatchInv, Untouched
<1> QED
  BY <1>2, <1>3, DurableInductive, PTL

-----------------------------------------------------------------------------
(* Scoring in one step *)

LEMMA LastOf ==
    ASSUME NEW n \in Nat, NEW T \in SUBSET (1..n), T # {}
    PROVE  \E i \in T : \A k \in T : k <= i
<1> DEFINE D == {n - i : i \in T}
<1>1. D \subseteq Nat /\ D # {}
  <2>1. PICK i \in T : TRUE
    OBVIOUS
  <2>2. n - i \in D
    BY <2>1
  <2>3. \A k \in T : n - k \in Nat
    OBVIOUS
  <2> QED
    BY <2>2, <2>3
<1>2. PICK d \in D : \A y \in D : ~(<<y, d>> \in OpToRel(<, Nat))
  BY <1>1, NatLessThanWellFounded, WFMin
<1>3. \A y \in D : ~(y < d)
  BY <1>1, <1>2 DEF OpToRel
<1>4. PICK i \in T : d = n - i
  OBVIOUS
<1>5. ASSUME NEW k \in T PROVE k <= i
  <2>1. n - k \in D /\ k \in Nat /\ i \in Nat
    OBVIOUS
  <2>2. ~(n - k < n - i)
    BY <1>3, <1>4, <2>1
  <2> HIDE DEF D
  <2> QED
    BY <2>1, <2>2
<1> QED
  BY <1>5

\* A ledger line names every listed player once, with a line that lists her.
LEMMA LedgerNames ==
    ASSUME NEW lines \in Seq(Events)
    PROVE  \E line \in MS!Naming(Range(lines)) :
              /\ \A p \in DOMAIN line : Entries(p, line[p]) # {}
              /\ PlayersMap(lines) = {<<p, line[p]>> : p \in DOMAIN line}
<1> DEFINE Lists(p, l) == Entries(p, l) # {}
           named == {p \in Players : \E l \in Range(lines) : Lists(p, l)}
           line == [p \in named |-> CHOOSE l \in Events : <<p, l>> \in PlayersMap(lines)]
<1>1. /\ Len(lines) \in Nat /\ DOMAIN lines = 1..Len(lines)
      /\ \A i \in DOMAIN lines : lines[i] \in Events
  OBVIOUS
<1>2. \A p, l : p \in Range(PlayersOf[l]) <=> Lists(p, l)
  BY DEF Entries, Range
<1>3. \A p, l : <<p, l>> \in PlayersMap(lines) <=>
         /\ p \in Players /\ l \in Events
         /\ \E i \in DOMAIN lines :
               /\ lines[i] = l /\ Lists(p, l)
               /\ \A k \in DOMAIN lines : k > i => ~Lists(p, lines[k])
  BY <1>2 DEF PlayersMap
<1>4. ASSUME NEW p \in named PROVE \E l \in Events : <<p, l>> \in PlayersMap(lines)
  <2> DEFINE T == {i \in DOMAIN lines : Lists(p, lines[i])}
  <2>1. T # {} /\ T \in SUBSET (1..Len(lines))
    BY <1>1 DEF Range
  <2>2. PICK i \in T : \A k \in T : k <= i
    BY <1>1, <2>1, LastOf
  <2>3. \A k \in DOMAIN lines : k > i => ~Lists(p, lines[k])
    BY <1>1, <2>2
  <2> QED
    BY <1>1, <1>3, <2>3
<1>5. ASSUME NEW p, NEW l, NEW m, <<p, l>> \in PlayersMap(lines), <<p, m>> \in PlayersMap(lines)
      PROVE  l = m
  <2>1. PICK i \in DOMAIN lines :
           /\ lines[i] = l /\ Lists(p, l)
           /\ \A k \in DOMAIN lines : k > i => ~Lists(p, lines[k])
    BY <1>3, <1>5
  <2>2. PICK k \in DOMAIN lines :
           /\ lines[k] = m /\ Lists(p, m)
           /\ \A h \in DOMAIN lines : h > k => ~Lists(p, lines[h])
    BY <1>3, <1>5
  <2>3. ~(k > i) /\ ~(i > k)
    BY <2>1, <2>2
  <2> QED
    BY <1>1, <2>1, <2>2, <2>3
<1>6. \A p \in named : <<p, line[p]>> \in PlayersMap(lines)
  BY <1>4
<1>7. \A p, l : <<p, l>> \in PlayersMap(lines) => p \in named /\ l \in Range(lines) /\ Lists(p, l)
  BY <1>3 DEF Range
<1>8. PlayersMap(lines) = {<<p, line[p]>> : p \in named}
  <2>1. ASSUME NEW x \in PlayersMap(lines) PROVE \E p \in named : x = <<p, line[p]>>
    <3>1. PICK p, l : x = <<p, l>>
      BY DEF PlayersMap
    <3> QED
      BY <1>5, <1>6, <1>7, <2>1, <3>1
  <2>2. \A p \in named : <<p, line[p]>> \in PlayersMap(lines)
    BY <1>6
  <2> HIDE DEF line, named
  <2> QED
    BY <2>1, <2>2
<1>9. line \in MS!Naming(Range(lines))
  BY <1>6, <1>7 DEF MS!Naming, MS!Entries, Entries
<1>10. \A p \in DOMAIN line : Lists(p, line[p])
  BY <1>6, <1>7
<1> QED
  BY <1>8, <1>9, <1>10

WrittenMap == {l \in Events : WrittenOut(l)}
HistoryMap ==
    [p \in Players |-> [l \in Events |-> IF MatchOf[l] \in marker THEN Kept(p, l) ELSE 0]]
NamedMap == [m \in Matches |-> IF m \in marker THEN ledger[m] ELSE <<>>]

LEMMA InitScores == WorkerInit => MS!Init
BY DEF WorkerInit, TS!Init, MS!Init, WrittenOut

\* As long as no marker comes and those that are there keep their history and
\* their ledger lines, nothing has happened.
LEMMA NothingScored ==
    ASSUME marker' = marker,
           \A p \in Players, l \in Events : MatchOf[l] \in marker => Kept(p, l)' = Kept(p, l),
           \A m \in marker : ledger'[m] = ledger[m]
    PROVE  HistoryMap' = HistoryMap /\ NamedMap' = NamedMap
<1>1. \A p \in Players, l \in Events :
         (IF MatchOf[l] \in marker THEN Kept(p, l) ELSE 0)'
            = IF MatchOf[l] \in marker THEN Kept(p, l) ELSE 0
  OBVIOUS
<1>2. HistoryMap' = HistoryMap
  BY <1>1 DEF HistoryMap
<1>3. NamedMap' = NamedMap
  BY DEF NamedMap
<1> QED
  BY <1>2, <1>3

LEMMA LinesWritten ==
    ASSUME DurableInv, [WorkerNext]_allVars
    PROVE  \/ call' = call
           \/ \E e \in Events :
                 /\ \A w \in Workers : ~Handler(w)
                 /\ WrittenMap' = WrittenMap \/ (e \notin WrittenMap /\ WrittenMap' = WrittenMap \cup {e})
<1>0. call \in [Events -> {"new", "stamped", "written", "cut", "failed"}]
  BY DEF DurableInv, WorkerTypeOK, TS!TypeOK
<1>1. ASSUME NEW e \in Events, Ingest(e)
      PROVE  /\ \/ WrittenMap' = WrittenMap
                \/ e \notin WrittenMap /\ WrittenMap' = WrittenMap \cup {e}
             /\ call' # call
  BY <1>0, <1>1 DEF Ingest, TS!Submit, TS!Stamp, TS!Body, TS!SinkError, TS!CutShort, WrittenMap,
            WrittenOut
<1>2. ASSUME NEW w \in Workers, Handler(w) PROVE call' = call
  BY <1>2, HandlerSteps
<1>3. ASSUME ~\E e \in Events : Ingest(e), \A w \in Workers : ~Handler(w) PROVE call' = call
  BY <1>3 DEF WorkerNext, Enqueue, Age, ProcessStep, LoopStep, allVars, sinkVars
<1> QED
  BY <1>1, <1>2, <1>3

LEMMA QuietScores ==
    ASSUME Serial, DurableInv, CountInv, SaveInv, [WorkerNext]_allVars,
           \A w \in Workers : ~Handler(w)
    PROVE  [MS!Next]_(MS!vars)
<1>1. UNCHANGED <<risk, ledger, marker>> /\ \A w \in Workers : ~Write(w)
  BY QuietStep DEF store, Handler
<1>2. HistoryMap' = HistoryMap /\ NamedMap' = NamedMap
  BY <1>1, KeptStep, NothingScored
<1>3. \/ WrittenMap' = WrittenMap
      \/ \E e \in Events : e \notin WrittenMap /\ WrittenMap' = WrittenMap \cup {e}
  BY LinesWritten DEF WrittenMap, WrittenOut
<1> QED
  BY <1>1, <1>2, <1>3
     DEF MS!Next, MS!Write, MS!vars, WrittenMap, HistoryMap, NamedMap

\* The handler before it leaves the marker: what it changes is of a match that
\* has none.
LEMMA UnmarkedScores ==
    ASSUME Serial, NoneRefused, DurableInv, CountInv, SaveInv, MatchInv, [WorkerNext]_allVars,
           NEW w \in Workers, Handler(w), marker' = marker
    PROVE  UNCHANGED MS!vars
<1>1. /\ call' = call /\ pc[w] = "handling" /\ cur[w] \in Events /\ Match(w) \in Matches
      /\ \A v \in Workers : v = w
  BY HandlerSteps, MatchOfAssumption DEF Serial, Match
<1>2. ASSUME job[w].step \in {"score", "write"} PROVE Match(w) \notin marker
  <2>1. Scoring(w, Match(w))
    BY <1>1, <1>2 DEF Scoring
  <2> QED
    BY <1>1, <2>1 DEF MatchInv, Untouched, SettledUpTo, InProgress
<1>3. ASSUME NEW p \in Players, NEW l \in Events, MatchOf[l] \in marker
      PROVE  Kept(p, l)' = Kept(p, l)
  <2>1. CASE Write(w) /\ Line(w) = l
    <3>1. job[w].step = "write" /\ pc[w] = "handling"
      BY <2>1 DEF Write, At
    <3>2. MatchOf[Line(w)] = Match(w)
      BY <3>1 DEF CountInv, LoadedInv, DurableInv, WorkerTypeOK, Line
    <3> QED
      BY <1>2, <1>3, <2>1, <3>1, <3>2
  <2>2. CASE ~(Write(w) /\ Line(w) = l)
    BY <1>1, <2>2, KeptStep
  <2> QED
    BY <2>1, <2>2
<1>4. ASSUME NEW m \in marker PROVE ledger'[m] = ledger[m]
  <2>1. \/ ledger' = ledger
        \/ job[w].step = "score" /\ \E x : ledger' = [ledger EXCEPT ![Match(w)] = x]
    BY ScoringSteps
  <2> QED
    BY <1>2, <2>1 DEF DurableInv, WorkerTypeOK
<1> QED
  BY <1>1, <1>3, <1>4, NothingScored DEF MS!vars, HistoryMap, NamedMap, WrittenOut

\* The marker is the step: the history of the match comes with it.
LEMMA MarkerScores ==
    ASSUME Serial, NoneRefused, DurableInv, CountInv, SaveInv, MatchInv, [WorkerNext]_allVars,
           NEW w \in Workers, Handler(w), marker' # marker
    PROVE  MS!Next
<1>0. PICK m \in Matches : m = Match(w)
  BY HandlerSteps, MatchOfAssumption DEF Match
<1> PICK here : here = Range(job[w].lines)
  OBVIOUS
<1>1. /\ call' = call /\ pc[w] = "handling" /\ cur[w] \in Events
      /\ \A v \in Workers : v = w
  BY HandlerSteps DEF Serial
<1>2. /\ marker' = marker \cup {m} /\ ledger' = ledger /\ ~Write(w)
      /\ job[w].step = "mark" /\ job'[w] = Idle
  BY <1>0, ScoringSteps
<1>3. PICK n \in 1..Len(LinesOf(m)) : InProgress(w, m, n)
  <2>1. Scoring(w, m)
    BY <1>0, <1>1, <1>2 DEF Scoring
  <2> QED
    BY <1>1, <2>1 DEF MatchInv, Untouched, SettledUpTo
<1>4. SettledUpTo(m, n)'
  BY <1>0, <1>2, <1>3, Marking
<1>5. /\ LinesOf(m)' = LinesOf(m) /\ job[w].lines = SubSeq(LinesOf(m), 1, n)
      /\ job[w].lines \in Seq(Events) /\ m \notin marker
      /\ ledger[m] = <<PlayersMap(job[w].lines)>>
  BY <1>0, <1>2, <1>3, Marking, JobType DEF InProgress, DurableInv
<1>6. \A p \in Players, l \in Events :
         MatchOf[l] = m => Kept(p, l)' = IF l \in here THEN Listed(l, p) ELSE 0
  BY <1>4, <1>5 DEF SettledUpTo, LinesOfMatch
<1>7. \A p \in Players, l \in Events : Kept(p, l)' = Kept(p, l)
  BY <1>1, <1>2, KeptStep
<1>8. here \in SUBSET {l \in WrittenMap : MatchOf[l] = m} /\ here # {}
  <2>1. here \subseteq {l \in WrittenMap : MatchOf[l] = m}
    BY <1>0, <1>5 DEF CountInv, LoadedInv, WrittenMap, Range
  <2>2. Len(job[w].lines) = n /\ n \in Nat /\ n >= 1
    BY <1>1, <1>5, PrefixIs DEF PrefixOK
  <2>3. 1 \in DOMAIN job[w].lines
    BY <1>5, <2>2
  <2>4. job[w].lines[1] \in here
    BY <2>3 DEF Range
  <2> QED
    BY <2>1, <2>4
<1>9. HistoryMap' = [p \in Players |-> [l \in Events |->
                        IF l \in here THEN Cardinality(Entries(p, l)) ELSE HistoryMap[p][l]]]
  <2>1. ASSUME NEW p \in Players, NEW l \in Events
        PROVE  (IF MatchOf[l] \in marker THEN Kept(p, l) ELSE 0)'
                  = IF l \in here THEN Cardinality(Entries(p, l)) ELSE HistoryMap[p][l]
    <3>1. HistoryMap[p][l] = IF MatchOf[l] \in marker THEN Kept(p, l) ELSE 0
      BY DEF HistoryMap
    <3>2. Listed(l, p) = Cardinality(Entries(p, l))
      BY DEF Listed, Entries
    <3>3. l \in here => MatchOf[l] = m
      BY <1>8
    <3> QED
      BY <1>2, <1>5, <1>6, <1>7, <3>1, <3>2, <3>3
  <2> QED
    BY <2>1 DEF HistoryMap
<1>10. PICK line \in MS!Naming(here) :
          /\ \A p \in DOMAIN line : Entries(p, line[p]) # {}
          /\ PlayersMap(job[w].lines) = {<<p, line[p]>> : p \in DOMAIN line}
  BY <1>5, LedgerNames
<1>11. NamedMap' = [NamedMap EXCEPT ![m] = <<{<<p, line[p]>> : p \in DOMAIN line}>>]
  BY <1>1, <1>2, <1>5, <1>10 DEF NamedMap
<1>12. MS!Score(m, here)
  <2>1. \A p, l : MS!Entries(p, l) = Entries(p, l)
    BY DEF MS!Entries, Entries
  <2>2. call' = call
    BY <1>1
  <2>3. /\ m \notin marker /\ here # {} /\ marker' = marker \cup {m}
        /\ {l \in Events : WrittenOut(l)}' = {l \in Events : WrittenOut(l)}
    BY <1>2, <1>5, <1>8, <2>2 DEF WrittenOut
  <2>4. HistoryMap' = [p \in Players |-> [l \in Events |->
                          IF l \in here THEN MS!Cardinality(MS!Entries(p, l)) ELSE HistoryMap[p][l]]]
    <3>1. \A S : MS!Cardinality(S) = Cardinality(S)
      BY DEF MS!Cardinality, Cardinality
    <3> QED
      BY <1>9, <2>1, <3>1
  <2>5. \E choice \in MS!Naming(here) :
           /\ \A p \in DOMAIN choice : MS!Entries(p, choice[p]) # {}
           /\ NamedMap' = [NamedMap EXCEPT ![m] = <<{<<p, choice[p]>> : p \in DOMAIN choice}>>]
    BY <1>10, <1>11, <2>1
  <2> QED
    BY <2>3, <2>4, <2>5 DEF MS!Score, HistoryMap, NamedMap
<1> QED
  BY <1>0, <1>8, <1>12 DEF MS!Next, WrittenMap

\* One worker that meets no failure scores a match in one step, once and for
\* good: the marker (applied_file.go:32) is the moment from which what it has
\* written for a match is there, and nothing that the handler does before or
\* after, for this match or another, shows.
THEOREM WorkerIsMatchScoring ==
    ASSUME Serial, NoneRefused
    PROVE  WorkerSpec => ImplementsMatchScoring
<1>1. DurableInv /\ CountInv /\ SaveInv /\ MatchInv /\ [WorkerNext]_allVars => [MS!Next]_(MS!vars)
  BY QuietScores, UnmarkedScores, MarkerScores
<1>2. DurableInv /\ CountInv /\ SaveInv /\ MatchInv /\ [WorkerNext]_allVars => MatchInv'
  BY MatchStep
<1>3. WorkerSpec => []MatchInv
  BY <1>2, DurableInductive, CountInductive, SaveInductive, MatchInit, PTL DEF WorkerSpec
<1> QED
  BY <1>1, <1>3, DurableInductive, CountInductive, SaveInductive, InitScores, PTL
     DEF WorkerSpec, ImplementsMatchScoring, MS!Spec
=============================================================================
