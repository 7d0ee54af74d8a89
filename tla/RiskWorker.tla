----------------------------- MODULE RiskWorker -----------------------------
(***************************************************************************)
(* The risk worker (server/cmd/risk-worker/main.go) in its surroundings:   *)
(* SubmitMatchAggregates appends a line to the match's telemetry file and  *)
(* enqueues an event (TelemetrySink, Outbox); a worker claims the event    *)
(* and its handler scores every player of every line of the match into     *)
(* risk/players, appends to risk/ledger and leaves a marker in             *)
(* risk/applied.  One action per file-system call of the handler.          *)
(*                                                                         *)
(* What a risk value is does not matter here; how often each line went     *)
(* into it does: a player file is the bag of the lines counted in it.      *)
(* ApplyMatchRisk is deterministic in the previous state and the line.     *)
(***************************************************************************)
EXTENDS Outbox, Sequences, SequencesExt

CONSTANTS         \* an event stands for its submission and for its line, too
    Matches, Players,
    MatchOf,      \* MatchOf[e]: the match that submission e is about
    PlayersOf,    \* PlayersOf[e]: the players listed in the line of e
    Refused,      \* an entry that ingest takes and the handler returns on: no
                  \* player_id, NaN, or a rule that names no percentile
    Grace         \* TRUE iff --finalize-grace is positive

ASSUME MatchOfAssumption == MatchOf \in [Events -> Matches]
\* SubmitMatchAggregates rejects a request with no players (missing_players).
ASSUME PlayersOfAssumption ==
    PlayersOf \in [Events -> Seq(Players \cup {Refused}) \ {<<>>}]
ASSUME RefusedAssumption == Refused \notin Players
ASSUME GraceAssumption == Grace \in BOOLEAN

VARIABLES
    sink, call,     \* see TelemetrySink
    aged,     \* events whose grace window is over
    risk,     \* risk[p]: the file of player p
    ledger,   \* ledger[m]: the lines appended for match m
    marker,   \* matches with a file in risk/applied
    job       \* job[w]: the local variables of the handler of worker w

sinkVars == <<sink, call>>
store == <<risk, ledger, marker>>
allVars == <<vars, sinkVars, aged, store, job>>

TS == INSTANCE TelemetrySink WITH
          Submissions <- Events, Files <- Matches, FileOf <- MatchOf

Bag == [Events -> Nat]
NoLines == [l \in Events |-> 0]

\* A player file is absent, or empty because a Save has truncated it, or
\* garbled by a partial or overlapping write, or whole.
PlayerFile == [state : {"absent", "empty", "garbled", "whole"}, counted : Bag]
Unreadable == {"empty", "garbled"}

\* The handler's locals: the lines it has loaded, the entry it is at (player j
\* of line i) and the state it has loaded for that player.
Idle == [step |-> "grace", lines |-> <<>>, i |-> 1, j |-> 1, prev |-> NoLines]
Loaded(lines) == [step |-> "score", lines |-> lines, i |-> 1, j |-> 1, prev |-> NoLines]
Steps == {"grace", "applied", "load", "score", "truncate", "write", "mark"}

Line(w) == job[w].lines[job[w].i]
Player(w) == PlayersOf[Line(w)][job[w].j]

\* The files and the handler's locals hold what they should, and the types of
\* the parts this module is built from.
WorkerTypeOK ==
    /\ TypeOK
    /\ TS!TypeOK
    /\ aged \subseteq Events
    /\ risk \in [Players -> PlayerFile]
    /\ ledger \in [Matches -> Seq(SUBSET (Players \X Events))]
    /\ marker \subseteq Matches
    /\ job \in [Workers -> [step : Steps, lines : Seq(Events), i : Nat, j : Nat, prev : Bag]]
    /\ \A w \in Workers :
          \/ job[w].i \in DOMAIN job[w].lines /\ job[w].j \in DOMAIN PlayersOf[Line(w)]
          \/ job[w].i = Len(job[w].lines) + 1 /\ job[w].step \notin {"truncate", "write"}

WorkerInit ==
    /\ Init
    /\ TS!Init
    /\ aged = IF Grace THEN {} ELSE Events
    /\ risk = [p \in Players |-> [state |-> "absent", counted |-> NoLines]]
    /\ ledger = [m \in Matches |-> <<>>]
    /\ marker = {}
    /\ job = [w \in Workers |-> Idle]

-----------------------------------------------------------------------------
(* Ingest: the submission writes its line, then enqueues its event. *)

Ingest(e) ==
    /\ TS!Submit(e)
    /\ UNCHANGED <<vars, aged, store, job>>

Enqueue(e) ==
    /\ call[e] = "written"
    /\ Enqueuing(e)
    /\ UNCHANGED <<sinkVars, aged, store, job>>

\* The clock passes CreatedAt + grace, where CreatedAt is taken just before
\* the event is enqueued.
Age(e) ==
    /\ e \notin aged
    /\ call[e] = "written"
    /\ aged' = aged \cup {e}
    /\ UNCHANGED <<vars, sinkVars, store, job>>

-----------------------------------------------------------------------------
(* The handler *)

At(w, step) == pc[w] = "handling" /\ job[w].step = step
Match(w) == MatchOf[cur[w]]
Fallible == "io" \in Disruptions

Continue(w, step) ==
    /\ job' = [job EXCEPT ![w].step = step]
    /\ UNCHANGED vars

\* Seeded fault: the loop goes on without moving the event out of processing/.
ReturnUnmarked(w, verdict) ==
    /\ pc[w] = "handling"
    /\ pc' = [pc EXCEPT ![w] = "idle"]
    /\ cur' = [cur EXCEPT ![w] = NoEvent]
    /\ job' = [job EXCEPT ![w] = Idle]
    /\ UNCHANGED <<dir, whole, enq, sidecar, listing>>

HandlerReturns(w, verdict) ==
    /\ Return(w, verdict)
    /\ job' = [job EXCEPT ![w] = Idle]

\* Seeded fault: the comparison with the retry time is the wrong way round.
CheckGraceInverted(w) ==
    /\ At(w, "grace")
    /\ IF cur[w] \in aged THEN HandlerReturns(w, "requeue") ELSE Continue(w, "applied")
    /\ UNCHANGED <<sinkVars, aged, store>>

\* Every event has the one supported type: SubmitMatchAggregates is the only
\* producer.  ErrRetryLater inside the grace window.
CheckGrace(w) ==
    /\ At(w, "grace")
    /\ IF cur[w] \in aged THEN Continue(w, "applied") ELSE HandlerReturns(w, "requeue")
    /\ UNCHANGED <<sinkVars, aged, store>>

\* Seeded fault: the marker is not looked at.
CheckAppliedNever(w) ==
    /\ At(w, "applied")
    /\ Continue(w, "load")
    /\ UNCHANGED <<sinkVars, aged, store>>

\* Seeded fault: the marker is left before the match is scored.
CheckAppliedMarks(w) ==
    /\ At(w, "applied")
    /\ IF Match(w) \in marker
       THEN HandlerReturns(w, "done") /\ UNCHANGED marker
       ELSE Continue(w, "load") /\ marker' = marker \cup {Match(w)}
    /\ UNCHANGED <<sinkVars, aged, risk, ledger>>

\* IsApplied: a later event of a match that is already scored is skipped.
CheckApplied(w) ==
    /\ At(w, "applied")
    /\ \/ IF Match(w) \in marker THEN HandlerReturns(w, "done") ELSE Continue(w, "load")
       \/ Fallible /\ HandlerReturns(w, "fail")
    /\ UNCHANGED <<sinkVars, aged, store>>

\* Seeded fault: telemetry that cannot be read is nothing to do.
LoadTelemetryOptional(w) ==
    LET file == sink[Match(w)]
    IN  /\ At(w, "load")
        /\ \/ /\ TS!Readable(file)
              /\ job' = [job EXCEPT ![w] = Loaded(TS!Lines(file))]
              /\ UNCHANGED vars
           \/ /\ ~TS!Readable(file) \/ Fallible
              /\ HandlerReturns(w, "done")
        /\ UNCHANGED <<sinkVars, aged, store>>

\* Seeded fault: the prefix of a line is taken for the line.
LoadTelemetryPrefixes(w) ==
    /\ At(w, "load")
    /\ job' = [job EXCEPT ![w] =
                   Loaded([i \in DOMAIN sink[Match(w)] |-> sink[Match(w)][i].of])]
    /\ UNCHANGED <<vars, sinkVars, aged, store>>

\* LoadMatchRequestsJSONL.  <<>> is a missing file, which is an error, or an
\* empty one, which is not: the handler returns nil and the match stays
\* unmarked.
LoadTelemetry(w) ==
    LET file == sink[Match(w)]
    IN  /\ At(w, "load")
        /\ \/ /\ TS!Readable(file)
              /\ IF file = <<>>
                 THEN \E verdict \in {"done", "fail"} : HandlerReturns(w, verdict)
                 ELSE job' = [job EXCEPT ![w] = Loaded(TS!Lines(file))] /\ UNCHANGED vars
           \/ /\ ~TS!Readable(file) \/ Fallible
              /\ HandlerReturns(w, "fail")
        /\ UNCHANGED <<sinkVars, aged, store>>

HasEntry(w) == job[w].i <= Len(job[w].lines)

\* The two nested loops, over lines and over the players of a line.
NextEntry(here) ==
    IF here.j < Len(PlayersOf[here.lines[here.i]])
    THEN [here EXCEPT !.j = @ + 1]
    ELSE [here EXCEPT !.i = @ + 1, !.j = 1]

\* Seeded fault: the state on disk is not used.
LoadPlayerFresh(w) ==
    /\ At(w, "score")
    /\ HasEntry(w)
    /\ job' = [job EXCEPT ![w].step = "truncate", ![w].prev = NoLines]
    /\ UNCHANGED <<vars, sinkVars, aged, store>>

\* MapAggregatesToMatchRisk, then FileStore.Load.  The mapper refuses an
\* entry (mapper.go:36, :74), or the encoder of Save does before it touches
\* the file (store_file.go:38).  Load fails on a file it cannot parse, but
\* takes one it cannot read for the file of a new player.
LoadPlayer(w) ==
    /\ At(w, "score")
    /\ HasEntry(w)
    /\ LET p == Player(w)
           Found(bag) == /\ job' = [job EXCEPT ![w].step = "truncate", ![w].prev = bag]
                         /\ UNCHANGED vars
       IN  \/ /\ p = Refused
              /\ HandlerReturns(w, "fail")
           \/ /\ p # Refused
              /\ risk[p].state \in Unreadable
              /\ HandlerReturns(w, "fail")
           \/ /\ p # Refused
              /\ risk[p].state \notin Unreadable
              /\ Found(risk[p].counted)
           \/ /\ p # Refused
              /\ Fallible
              /\ Found(NoLines)
    /\ UNCHANGED <<sinkVars, aged, store>>

SetPlayer(p, state, bag) ==
    risk' = [risk EXCEPT ![p] = [state |-> state, counted |-> bag]]

\* FileStore.Save is os.WriteFile: open with O_TRUNC ...
Truncate(w) ==
    /\ At(w, "truncate")
    /\ \/ SetPlayer(Player(w), "empty", NoLines) /\ Continue(w, "write")
       \/ Fallible /\ UNCHANGED risk /\ HandlerReturns(w, "fail")
    /\ UNCHANGED <<sinkVars, aged, ledger, marker>>

\* ... then write.  If another Save wrote since this one truncated, the tail
\* of a longer content may remain.
Write(w) ==
    LET p == Player(w)
        Saved == /\ job' = [job EXCEPT ![w] =
                               NextEntry([@ EXCEPT !.step = "score", !.prev = NoLines])]
                 /\ UNCHANGED vars
    IN  /\ At(w, "write")
        /\ \/ /\ SetPlayer(p, "whole", [job[w].prev EXCEPT ![Line(w)] = @ + 1])
              /\ Saved
           \/ /\ risk[p].state # "empty"
              /\ SetPlayer(p, "garbled", NoLines)
              /\ Saved
           \/ /\ Fallible
              /\ SetPlayer(p, "garbled", NoLines)
              /\ HandlerReturns(w, "fail")
        /\ UNCHANGED <<sinkVars, aged, ledger, marker>>

\* players[mr.PlayerID] = mr.Value: a later line of the match replaces the
\* value of an earlier one.
PlayersMap(lines) ==
    {x \in Players \X Events :
        \E i \in DOMAIN lines :
            /\ lines[i] = x[2]
            /\ x[1] \in Range(PlayersOf[lines[i]])
            /\ \A k \in DOMAIN lines : k > i => x[1] \notin Range(PlayersOf[lines[k]])}

\* Seeded fault: the error of AppendMatchLine is only logged.
AppendLedgerLogsError(w) ==
    /\ At(w, "score")
    /\ ~HasEntry(w)
    /\ \/ ledger' = [ledger EXCEPT ![Match(w)] = Append(@, PlayersMap(job[w].lines))]
       \/ Fallible /\ UNCHANGED ledger
    /\ Continue(w, "mark")
    /\ UNCHANGED <<sinkVars, aged, risk, marker>>

\* Seeded fault: an error of AppendMatchLine makes the event come again.
AppendLedgerRetries(w) ==
    /\ At(w, "score")
    /\ ~HasEntry(w)
    /\ \/ /\ ledger' = [ledger EXCEPT ![Match(w)] = Append(@, PlayersMap(job[w].lines))]
          /\ Continue(w, "mark")
       \/ Fallible /\ UNCHANGED ledger /\ HandlerReturns(w, "requeue")
    /\ UNCHANGED <<sinkVars, aged, risk, marker>>

\* A line of the ledger is there when the call that appends it has returned
\* nil.  (One that fails may leave a fragment in the file of its day, where
\* nothing in the code reads it.)
AppendLedger(w) ==
    /\ At(w, "score")
    /\ ~HasEntry(w)
    /\ \/ /\ ledger' = [ledger EXCEPT ![Match(w)] = Append(@, PlayersMap(job[w].lines))]
          /\ Continue(w, "mark")
       \/ Fallible /\ UNCHANGED ledger /\ HandlerReturns(w, "fail")
    /\ UNCHANGED <<sinkVars, aged, risk, marker>>

\* Seeded fault: the marker is named after the event, not after its match.
MarkAppliedByEvent(w) ==
    /\ At(w, "mark")
    /\ marker' = marker \cup {cur[w]}
    /\ HandlerReturns(w, "done")
    /\ UNCHANGED <<sinkVars, aged, risk, ledger>>

\* MarkApplied.  If only the write of "ok" fails, the marker is there all the
\* same: IsApplied looks at the name only.
MarkApplied(w) ==
    /\ At(w, "mark")
    /\ \/ marker' = marker \cup {Match(w)} /\ HandlerReturns(w, "done")
       \/ /\ Fallible
          /\ marker' \in {marker, marker \cup {Match(w)}}
          /\ HandlerReturns(w, "fail")
    /\ UNCHANGED <<sinkVars, aged, risk, ledger>>

Handler(w) ==
    \/ CheckGrace(w) \/ CheckApplied(w) \/ LoadTelemetry(w)
    \/ LoadPlayer(w) \/ Truncate(w) \/ Write(w)
    \/ AppendLedger(w) \/ MarkApplied(w)

-----------------------------------------------------------------------------
LoopStep(w) ==
    /\ Loop(w)
    /\ UNCHANGED <<sinkVars, aged, store, job>>

\* A crash takes the handler's locals with it.
ProcessStep(w) ==
    /\ Lifecycle(w)
    /\ job' = [job EXCEPT ![w] = Idle]
    /\ UNCHANGED <<sinkVars, aged, store>>

WorkerNext ==
    \/ \E e \in Events : Ingest(e) \/ Enqueue(e) \/ Age(e)
    \/ \E w \in Workers : ProcessStep(w) \/ LoopStep(w) \/ Handler(w)

WorkerSpec == WorkerInit /\ [][WorkerNext]_allVars

\* The processes are scheduled, the ticker ticks, time passes, and a worker
\* that is down is started again.  Submissions are owed nothing.
Starting(w) == Start(w) /\ UNCHANGED <<sinkVars, aged, store, job>>

FairSpec ==
    /\ WorkerSpec
    /\ \A e \in Events : WF_allVars(Age(e))
    /\ \A w \in Workers : WF_allVars(Starting(w)) /\ WF_allVars(LoopStep(w) \/ Handler(w))

-----------------------------------------------------------------------------
(* Properties *)

LinesOf(m) == TS!Lines(sink[m])
WrittenOut(l) == call[l] \in {"written", "cut"}
Listed(l, p) == Cardinality({j \in DOMAIN PlayersOf[l] : PlayersOf[l][j] = p})
Counted(p, l) == risk[p].counted[l]
Saving(p) == {w \in Workers : At(w, "write") /\ Player(w) = p}
Kept(p, l) == IF Saving(p) = {} THEN Counted(p, l) ELSE Min({job[w].prev[l] : w \in Saving(p)})
Attended(m) == \E w \in Workers : cur[w] \in Events /\ Match(w) = m

\* Every line of match m among the first n, and no other, is in the players'
\* files exactly as often as it lists the player.
ScoredUpTo(m, n) ==
    \A p \in Players, l \in {e \in Events : MatchOf[e] = m} :
        Counted(p, l) = IF l \in Range(SubSeq(LinesOf(m), 1, n)) THEN Listed(l, p) ELSE 0

\* All or nothing, and exactly once: a match that no worker is on is either
\* unmarked, unscored and not in the ledger, or marked, with one ledger line
\* that names the same prefix of its telemetry as the players' files.  (In
\* the middle of a Save the player's file is empty: nothing is said then.)
MatchIsScoredOnce ==
    \A m \in Matches : ~Attended(m) /\ (\A w \in Workers : ~At(w, "write")) =>
        IF m \in marker
        THEN \E n \in 1..Len(LinesOf(m)) :
                /\ ScoredUpTo(m, n)
                /\ ledger[m] = <<PlayersMap(SubSeq(LinesOf(m), 1, n))>>
        ELSE ScoredUpTo(m, 0) /\ ledger[m] = <<>>

\* An event in done/ belongs to a match with a marker, through crashes, I/O
\* errors and other workers: no event is retired before its match is scored.
DoneIsDurable ==
    \A e \in dir["done"] : MatchOf[e] \in marker

\* A marker never precedes the ledger line of its match, whatever fails.
MarkedIsInLedger == \A m \in marker : ledger[m] # <<>>

\* A line is never counted for a player more often than its match had events
\* taken from pending/: no event is scored twice, not even one that went
\* through Requeue, a crash or a failed rename.
CountedOncePerEvent ==
    \A p \in Players, l \in Events :
        Counted(p, l) <= Listed(l, p) *
            Cardinality({e \in Events :
                MatchOf[e] = MatchOf[l] /\ enq[e] = "ok" /\ e \notin dir["pending"]})

\* What is counted was submitted: a line goes into a player's file only after
\* its submission has been written out, be it without the final newline.
CountedWasWritten ==
    \A p \in Players, l \in Events :
        Counted(p, l) > 0 => WrittenOut(l) /\ p \in Range(PlayersOf[l])

\* "persists per-player RiskState safely" (phase-3a-step-3b-risk-worker.md:4):
\* no step takes a line out of a player's history.  Between the truncation and
\* the write of a Save, the history is what the worker has in its memory.
HistoryIsKept ==
    [][\A p \in Players, l \in Events : Kept(p, l)' >= Kept(p, l)]_allVars

\* "... and idempotently" (phase-3a-step-3b-risk-worker.md:4): however many
\* events a match has, each of its lines is counted at most once.
ScoringIsIdempotent ==
    \A p \in Players, l \in Events : Counted(p, l) <= Listed(l, p)

\* A queued event is eventually done or failed, unless the worker is stopped
\* again and again (before every poll, say); with the outbox "durable, atomic,
\* replayable" (phase-status.md:28) this holds across restarts.
StopsComeToAnEnd == \A w \in Workers : <>[][~Stop(w)]_vars
QueuedIsSettled ==
    StopsComeToAnEnd =>
        \A e \in Events : e \in dir["pending"] ~> e \in dir["done"] \cup dir["failed"]

\* The marker is what makes a match scored: seen from it, everything that the
\* handler writes for a match appears in one step, once, and is never touched
\* again, whatever lines and events of the match come later.
MS == INSTANCE MatchScoring WITH
          written <- {l \in Events : WrittenOut(l)},
          scored <- marker,
          history <- [p \in Players |-> [l \in Events |->
                         IF MatchOf[l] \in marker THEN Kept(p, l) ELSE 0]],
          named <- [m \in Matches |-> IF m \in marker THEN ledger[m] ELSE <<>>]

ImplementsMatchScoring == MS!Spec

\* The handler only ever returns a verdict: seen from the outbox, everything
\* else it does is a stutter.
ImplementsOutbox == Spec
=============================================================================
