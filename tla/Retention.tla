------------------------------ MODULE Retention ------------------------------
(***************************************************************************)
(* bi-retention (server/cmd/bi-retention/main.go) at work beside the       *)
(* telemetry service and the risk worker.  A run computes a cutoff once    *)
(* and makes seven passes; a pass lists a directory, looks at each file    *)
(* and removes the old ones, with no lock against the other processes.     *)
(*                                                                         *)
(* What a pass reads differs: the last line stamp of a telemetry file, the *)
(* name of a ledger directory, the mtime of a marker, the created_at of an *)
(* event, the LastUpdate of a player.  Producer and worker are coarse      *)
(* here: their steps are those of RiskWorker, taken together wherever no   *)
(* pass can tell, one worker at a time and never failing by themselves.    *)
(* The run is one with --prune-players and --dry-run=false.                *)
(***************************************************************************)
EXTENDS Naturals, FiniteSets, Sequences, SequencesExt

CONSTANTS
    Submissions,    \* a submission stands for its line and for its event, too
    Matches, Players,
    MatchOf,        \* MatchOf[s]: the match s is about
    PlayerOf,       \* PlayerOf[s]: the player its line lists
    Refused,       \* an entry that the mapper refuses
    NoEvent,        \* of the handler of a worker that holds no event
    Keep,           \* the retention window
    DayLength,      \* the length of a day, in units of the clock
    MaxTime,        \* bound on the clock
    Prompt,         \* TRUE iff matches are finished within the window
    Disruptions     \* "crash": the run is killed; "io": its calls fail

ASSUME TimeAssumption == {Keep, DayLength} \subseteq Nat \ {0} /\ MaxTime \in Nat /\ Keep <= MaxTime
ASSUME MatchOfAssumption == MatchOf \in [Submissions -> Matches]
ASSUME PlayerOfAssumption == PlayerOf \in [Submissions -> Players \cup {Refused}]
ASSUME NoEventAssumption == NoEvent \notin Submissions

VARIABLES
    clock,
    telemetry,  \* telemetry[m]: the lines of m's file; <<>> is no file
    at,         \* at[s]: the stamp of the line of s
    place,      \* place[s]: where s, or its event, has got
    created,    \* created[s]: CreatedAt of its event
    sidecar,    \* events with an .err.txt in outbox/failed
    job,        \* the event in hand, its lines not yet scored, the last stamp
    player,     \* player[p]: LastUpdate (Never is no file), the lines counted
    ledger,     \* the match and the time of every ledger line
    marked,     \* marked[m]: mtime of the marker of m
    ret         \* the local variables of the retention run

producerVars == <<telemetry, at, created>>
riskVars == <<job, player, ledger, marked>>
vars == <<clock, producerVars, place, sidecar, riskVars, ret>>

\* The clock starts at Keep, so that no time is 0 and no cutoff is negative.
Never == 0
Time == Keep..MaxTime
NewPlayer == [last |-> Never, counted |-> [s \in Submissions |-> 0]]
Idle == [of |-> NoEvent, lines |-> <<>>, last |-> Never]

Passes == <<"telemetry", "ledger", "applied", "done", "failed", "sidecars", "players">>
Stopped == [pass |-> 0, cutoff |-> 0, todo |-> {}, doomed |-> {}]
Day(t) == t \div DayLength

\* Every variable has its type, and a run that is over has nothing to do.
TypeOK ==
    /\ clock \in Time
    /\ telemetry \in [Matches -> Seq(Submissions)]
    /\ at \in [Submissions -> Time \cup {Never}]
    /\ place \in [Submissions ->
           {"none", "written", "pending", "processing", "done", "failed", "removed"}]
    /\ created \in [Submissions -> Time \cup {Never}]
    /\ sidecar \subseteq Submissions
    /\ job \in [of : Submissions \cup {NoEvent}, lines : Seq(Submissions),
               last : Time \cup {Never}]
    /\ player \in [Players -> [last : Time \cup {Never}, counted : [Submissions -> Nat]]]
    /\ ledger \subseteq Matches \X Time
    /\ marked \in [Matches -> Time \cup {Never}]
    /\ DOMAIN ret = DOMAIN Stopped
    /\ ret.pass \in 0..Len(Passes) /\ ret.cutoff \in 0..MaxTime
    /\ ret.pass = 0 => ret = Stopped
    /\ ret.doomed \subseteq ret.todo /\ Cardinality(ret.doomed) <= 1

Init ==
    /\ clock = Keep
    /\ telemetry = [m \in Matches |-> <<>>]
    /\ at = [s \in Submissions |-> Never]
    /\ place = [s \in Submissions |-> "none"]
    /\ created = [s \in Submissions |-> Never]
    /\ sidecar = {}
    /\ job = Idle
    /\ player = [p \in Players |-> NewPlayer]
    /\ ledger = {}
    /\ marked = [m \in Matches |-> Never]
    /\ ret = Stopped

-----------------------------------------------------------------------------
(* The surroundings *)

\* The first line of the match of s is no older than Keep at time t.
WithinWindow(s, t) ==
    \A r \in Submissions : MatchOf[r] = MatchOf[s] /\ at[r] # Never => t <= at[r] + Keep

Unsettled(s) == place[s] \in {"written", "pending", "processing"}

Goto(s, where) == place' = [place EXCEPT ![s] = where]

\* Prompt: no event waits until its match is out of the window.
Tick ==
    /\ clock < MaxTime
    /\ Prompt => \A s \in Submissions : Unsettled(s) => WithinWindow(s, clock + 1)
    /\ clock' = clock + 1
    /\ UNCHANGED <<producerVars, place, sidecar, riskVars, ret>>

\* SubmitMatchAggregates appends its line (to a new file if retention has
\* removed the old one) ...
WriteLine(s) ==
    /\ place[s] = "none"
    /\ Prompt => WithinWindow(s, clock)
    /\ telemetry' = [telemetry EXCEPT ![MatchOf[s]] = Append(@, s)]
    /\ at' = [at EXCEPT ![s] = clock]
    /\ Goto(s, "written")
    /\ UNCHANGED <<clock, created, sidecar, riskVars, ret>>

\* ... and enqueues its event.
Enqueue(s) ==
    /\ place[s] = "written"
    /\ created' = [created EXCEPT ![s] = clock]
    /\ Goto(s, "pending")
    /\ UNCHANGED <<clock, telemetry, at, sidecar, riskVars, ret>>

Retire(s, verdict) ==
    /\ Goto(s, verdict)
    /\ sidecar' = IF verdict = "failed" THEN sidecar \cup {s} ELSE sidecar

\* ClaimOne, IsApplied and LoadMatchRequestsJSONL, up to the first return.
\* (Which event comes first is left open: there may be other workers.)
Take(s) ==
    LET m == MatchOf[s]
    IN  /\ job = Idle
        /\ place[s] = "pending"
        /\ CASE marked[m] # Never -> Retire(s, "done") /\ UNCHANGED job
             [] marked[m] = Never /\ telemetry[m] = <<>> ->
                    Retire(s, "failed") /\ UNCHANGED job
             [] OTHER -> /\ Goto(s, "processing")
                         /\ job' = [of |-> s, lines |-> telemetry[m],
                                    last |-> at[Last(telemetry[m])]]
                         /\ UNCHANGED sidecar
        /\ UNCHANGED <<clock, producerVars, player, ledger, marked, ret>>

\* The next loaded line goes into its player's file, if the mapper takes it.
\* LastUpdate is the stamp of the line.
ScoreLine(s) ==
    LET line == Head(job.lines)
        p == PlayerOf[line]
    IN  /\ job.of = s
        /\ job.lines # <<>>
        /\ IF p = Refused
           THEN /\ Retire(s, "failed")
                /\ job' = Idle
                /\ UNCHANGED player
           ELSE /\ player' = [player EXCEPT ![p] =
                       [last |-> at[line],
                        counted |-> [player[p].counted EXCEPT ![line] = @ + 1]]]
                /\ job' = [job EXCEPT !.lines = Tail(@)]
                /\ UNCHANGED <<place, sidecar>>
        /\ UNCHANGED <<clock, producerVars, ledger, marked, ret>>

\* The ledger line, dated by the last telemetry line, the marker, MarkDone.
Finish(s) ==
    LET m == MatchOf[s]
    IN  /\ job.of = s
        /\ job.lines = <<>>
        /\ ledger' = ledger \cup {<<m, job.last>>}
        /\ marked' = [marked EXCEPT ![m] = clock]
        /\ Retire(s, "done")
        /\ job' = Idle
        /\ UNCHANGED <<clock, producerVars, player, ret>>

-----------------------------------------------------------------------------
(* The retention run *)

Pass == Passes[ret.pass]

\* What a pass lists: telemetry files, days, markers, event files, sidecars,
\* player files.
Files(pass) ==
    CASE pass = "telemetry" -> {m \in Matches : telemetry[m] # <<>>}
      [] pass = "ledger" -> {Day(x[2]) : x \in ledger}
      [] pass = "applied" -> {m \in Matches : marked[m] # Never}
      [] pass \in {"done", "failed"} -> {s \in Submissions : place[s] = pass}
      [] pass = "sidecars" -> sidecar
      [] pass = "players" -> {p \in Players : player[p].last # Never}

\* The age of a telemetry file is that of its last line.  Seeded fault: a
\* file exactly as old as the window goes, too.
TelemetryIsOldInclusive(m) == at[Last(telemetry[m])] <= ret.cutoff

TelemetryIsOld(m) == at[Last(telemetry[m])] < ret.cutoff

\* The age of a day of the ledger is that of its end.  Seeded fault: of its
\* start.
LedgerIsOldAtStart(day) == day * DayLength < ret.cutoff

LedgerIsOld(day) == (day + 1) * DayLength < ret.cutoff

MarkerIsOld(m) == marked[m] < ret.cutoff

EventIsOld(s) == created[s] < ret.cutoff

\* A sidecar is dated by its event; one without an event is skipped.
SidecarIsOld(s) == place[s] = "failed" /\ created[s] < ret.cutoff

\* (A file that a Save has just truncated does not parse and is skipped; a
\* Save is one step here.)
PlayerIsOld(p) == player[p].last < ret.cutoff

IsOld(x) ==
    CASE Pass = "telemetry" -> TelemetryIsOld(x)
      [] Pass = "ledger" -> LedgerIsOld(x)
      [] Pass = "applied" -> MarkerIsOld(x)
      [] Pass \in {"done", "failed"} -> EventIsOld(x)
      [] Pass = "sidecars" -> SidecarIsOld(x)
      [] Pass = "players" -> PlayerIsOld(x)

\* Seeded fault: the window is not subtracted.
StartRunFromNow ==
    /\ ret.pass = 0
    /\ ret' = [pass |-> 1, cutoff |-> clock, todo |-> Files(Passes[1]), doomed |-> {}]
    /\ UNCHANGED <<clock, producerVars, place, sidecar, riskVars>>

\* The cutoff of a run is the one of its start.
StartRun ==
    /\ ret.pass = 0
    /\ ret' = [pass |-> 1, cutoff |-> clock - Keep,
               todo |-> Files(Passes[1]), doomed |-> {}]
    /\ UNCHANGED <<clock, producerVars, place, sidecar, riskVars>>

\* The next pass reads its directory; after the last one the run is over.
NextPass ==
    /\ ret.pass # 0
    /\ ret.todo = {}
    /\ ret' = IF ret.pass = Len(Passes)
              THEN Stopped
              ELSE [ret EXCEPT !.pass = @ + 1, !.todo = Files(Passes[ret.pass + 1])]
    /\ UNCHANGED <<clock, producerVars, place, sidecar, riskVars>>

\* Read or stat file x and decide.
Look(x) ==
    /\ ret.doomed = {}
    /\ x \in ret.todo
    /\ ret' = IF IsOld(x)
              THEN [ret EXCEPT !.doomed = {x}]
              ELSE [ret EXCEPT !.todo = @ \ {x}]
    /\ UNCHANGED <<clock, producerVars, place, sidecar, riskVars>>

\* os.Remove, or RemoveAll for a day of the ledger, by name: whatever is in
\* the file by now goes with it.
Delete(x) ==
    /\ x \in ret.doomed
    /\ telemetry' = IF Pass = "telemetry" THEN [telemetry EXCEPT ![x] = <<>>] ELSE telemetry
    /\ ledger' = IF Pass = "ledger" THEN {y \in ledger : Day(y[2]) # x} ELSE ledger
    /\ marked' = IF Pass = "applied" THEN [marked EXCEPT ![x] = Never] ELSE marked
    /\ place' = IF Pass \in {"done", "failed"} THEN [place EXCEPT ![x] = "removed"] ELSE place
    /\ sidecar' = IF Pass = "sidecars" THEN sidecar \ {x} ELSE sidecar
    /\ player' = IF Pass = "players" THEN [player EXCEPT ![x] = NewPlayer] ELSE player
    /\ ret' = [ret EXCEPT !.todo = @ \ {x}, !.doomed = {}]
    /\ UNCHANGED <<clock, at, created, job>>

\* Seeded fault: the file that could not be removed is carried over.
PassErrorCarriesOver ==
    /\ "io" \in Disruptions
    /\ ret.todo # {}
    /\ ret' = [ret EXCEPT !.todo = {}]
    /\ UNCHANGED <<clock, producerVars, place, sidecar, riskVars>>

\* An error ends the pass; main logs it and goes on with the next one.
PassError ==
    /\ "io" \in Disruptions
    /\ ret.todo # {}
    /\ ret' = [ret EXCEPT !.todo = {}, !.doomed = {}]
    /\ UNCHANGED <<clock, producerVars, place, sidecar, riskVars>>

Killed ==
    /\ "crash" \in Disruptions
    /\ ret.pass # 0
    /\ ret' = Stopped
    /\ UNCHANGED <<clock, producerVars, place, sidecar, riskVars>>

Surroundings ==
    \/ Tick
    \/ \E s \in Submissions :
          WriteLine(s) \/ Enqueue(s) \/ Take(s) \/ ScoreLine(s) \/ Finish(s)

Run ==
    \/ StartRun \/ NextPass \/ PassError \/ Killed
    \/ \E x \in ret.todo : Look(x) \/ Delete(x)

Next == Surroundings \/ Run

Spec == Init /\ [][Next]_vars

-----------------------------------------------------------------------------
(* Properties *)

\* A line is counted at most once although markers are pruned: with Prompt, a
\* marker outlives every event of its match (the passes date a marker by its
\* mtime, main.go:171, which is later than the first line of the match).
ScoredOnce ==
    \A p \in Players, s \in Submissions : player[p].counted[s] <= 1

\* An event that is still to be handled finds its line: with Prompt, no run
\* removes a telemetry file that pending/ or processing/ refers to, not even
\* between reading its last stamp (main.go:354) and os.Remove (:368).
UnsettledHasTelemetry ==
    \A s \in Submissions : Unsettled(s) => s \in Range(telemetry[MatchOf[s]])

\* What a run removes, players apart, is older than Keep at that moment: it
\* has no younger line, ledger entry, marker or event.
OnlyOldIsRemoved ==
    [][LET Old(t) == t + Keep < clock
       IN  /\ \A m \in Matches :
                 /\ telemetry'[m] = <<>> => \A s \in Range(telemetry[m]) : Old(at[s])
                 /\ marked[m] # Never /\ marked'[m] = Never => Old(marked[m])
           /\ \A x \in ledger \ ledger' : Old(x[2])
           /\ \A s \in Submissions :
                 place'[s] = "removed" /\ place[s] # "removed" => Old(created[s])]_vars

\* "If true, delete risk/players/*.json where LastUpdate < cutoff" (the usage
\* of --prune-players, main.go:135): no other player file is removed.
OnlyOldPlayersAreRemoved ==
    [][\A p \in Players :
          player[p].last # Never /\ player'[p].last = Never =>
              player[p].last < ret.cutoff]_vars

\* "Also prune failed sidecars (*.err.txt) using the paired JSON's CreatedAt"
\* (main.go:102): once that pass of an undisturbed run is over, no sidecar of
\* an event from before the cutoff is left.
OldSidecarsAreRemoved ==
    [][ret.pass # 0 /\ ret'.pass = ret.pass + 1 /\ Pass = "sidecars" =>
          \A s \in sidecar : created[s] >= ret.cutoff]_vars
=============================================================================
