# Baseline Integrity: TLA+ models and proofs

Verification project for the server side of Baseline Integrity: the path from a
submitted telemetry line, over the filesystem outbox and the risk worker, to
the players' risk values, the retention tool that prunes what is left, and the
tier tokens that trust-api signs and game servers verify.
Paths below are relative to `src/server/` unless they start with `src/`.

## 1. Inventory

The system is a handful of processes that share one directory tree
(`.baselineintegrity/`). There is no database, no lock and no message bus: every
interaction is a file created, appended to, renamed or removed, and everything
hard about the system is in the order of those calls and in what is left when a
process dies between two of them.

```
game server --SubmitMatchAggregates--> telemetry-api
                                         | append (two writes)     | enqueue (write, rename)
                                         v                         v
                              telemetry/match_M.jsonl     outbox/pending/E.json
                                         |                         | rename = claim
                                         |                         v
                                         +---------------> risk-worker (outbox/processing/E.json)
                                                                   |
              risk/players/P.json <--load, save--+--append--> risk/ledger/DAY/ledger.jsonl
                                                 +--create--> risk/applied/M.ok
                                                 +--rename--> outbox/done or outbox/failed
   bi-retention prunes telemetry, ledger, applied, done, failed and players
   trust-api mints and introspects tier tokens; verify checks them offline
```

| Component | Source | State | Operations | What is hard | Correct when |
|---|---|---|---|---|---|
| Outbox | `internal/baselineintegrity/outbox/outbox.go` | files in `pending`, `processing`, `done`, `failed`; `.tmp` and `.err.txt` files | `Enqueue`, `ClaimOne`, `MarkDone`, `MarkFailed`, `Requeue` | many claimants, half-written files, crash between two calls | one holder per event, none lost or torn, verdicts are final |
| Worker loop | `.../worker/worker.go` | claimed event, ticker, `ctx` | `Run`, `runOnce` | errors of the final rename are ignored; stop and crash at any point | every claimed event gets its verdict |
| Telemetry ingest | `.../telemetry/service.go` | `match_M.jsonl` | `SubmitMatchAggregates` | concurrent requests append to one file in two writes; write, then enqueue; what is let in is scored later, by other code with other checks | an accepted line can be read back, is there before its event, and can be scored |
| Telemetry reader | `.../telemetry/store/match_protojsonl.go` | none | `LoadMatchRequestsJSONL` | one broken line fails the whole match | returns the lines in order, or an error |
| Risk worker | `cmd/risk-worker/main.go`, `.../risk/*_file.go`, `.../risk/ledger` | `players/P.json`, `ledger`, `applied/M.ok` | the `match_finalized` handler | a match is many files and not a transaction; two events of one match; two workers, one player | all or nothing, exactly once, no history lost |
| Risk scoring | `.../risk/{mapper,scoring,features}.go` | none | `MapAggregatesToMatchRisk`, `ApplyMatchRisk` | decay with clocks that go back, NaN, rules in random order | value in `[0, RiskCap]`, never more than the matches are worth |
| Retention | `cmd/bi-retention/main.go` | none kept | seven passes in one run | reads a file, then removes it by name; passes depend on each other's order | removes what is old, nothing else, nothing still needed |
| Tier tokens | `.../trust/service.go`, `.../verify/tier_token.go`, `.../crypto` | signing key | `StartSession`, `GetPublicKeys`, `IntrospectTierToken`, offline verify | two verifiers must agree; expiry | a minted token verifies until it expires, nothing else does |
| Key store | `.../crypto/keystore.go` | key file | load or create | two creators at once, crash while writing | every process serves the key that is on disk, and that key never changes |

## 2. Modules

| Module | Models | Extends / instantiates |
|---|---|---|
| `EventQueue` | what the outbox promises: an abstract queue with claims and verdicts | |
| `Outbox` | outbox and worker loop, one action per file-system call; the handler is any choice of verdict | instance of `EventQueue` (refinement) |
| `TelemetrySink` | the telemetry files as sequences of written fragments, and which of them can be read back | |
| `MatchScoring` | what risk scoring promises: a match is scored in one step, once | |
| `RiskWorker` | ingest, outbox, worker loop and the real handler with its stores | extends `Outbox`, instance of `TelemetrySink`, instance of `MatchScoring` (refinement) |
| `Retention` | the passes of `bi-retention` beside a coarser ingest and worker, with a clock | |
| `Scoring` | one submission from the checks of ingest over the mapping rules to `TotalRisk`, with numbers | |
| `KeyRegister` | what the key store promises: a register that is written once | |
| `KeyStore` | the signing key on disk and the processes that load or create it | instance of `KeyRegister` (refinement) |
| `Trust` | minting, introspection and offline verification of tier tokens | extends `KeyStore` |
| `OutboxProofs`, `RiskWorkerProofs`, `RetentionProofs`, `ScoringProofs`, `TrustProofs` | the theorems about one component each | extend the modules they are about |
| `SumProofs` | lemmas about the library's sums over finite sets; `ScoringProofs` extends it | |
| `CountProofs` | what the risk worker counts, whatever fails | extends `RiskWorkerProofs` |
| `SerialProofs` | what one risk worker without failures counts | extends `CountProofs` |
| `MC...` | small instances for TLC | |

### How state and actions correspond to the code

**Outbox.** `dir[d]` is the set of event files in directory `d`; `ID.tmp` and
`ID.json` are two names in `pending/`, kept apart as `"tmp"` and `"pending"`.
`whole` are the files with a complete body, `sidecar` the `.err.txt` files in
`failed/`. `enq[e]` is how far the `Enqueue` call for `e` is (create, write,
rename). A worker has a program counter, the event in its hands and what is
left of its `ReadDir` listing. `ClaimOne` is `Poll`, then `Claim` or `Skip` per
entry in order of names, `NonePending`, `ReadEvent` or `ReadError`. `MarkFailed`
is two actions (`WriteSidecar`, `MarkFailed`) because the code makes two calls.
The renames whose error `Run` drops are `TryRename`: done, or silently not done.
`Disruptions` says what the environment does: `"stop"` (`ctx` is cancelled;
looked at between iterations only), `"crash"` (a process dies anywhere) and
`"io"` (any call may fail). Event names are numbers, in the order of the
nanosecond clock they begin with.

**TelemetrySink.** A submission writes the fragment `stamp`, then the fragment
`body`. `Readable` is what `LoadMatchRequestsJSONL` accepts, `Lines` what it
returns. A write that fails half way is the same as one that failed at the end
of what it wrote: a file with a stamp that no body follows. The exception is a
body of which only the newline is missing (`cut`): its call fails, and the reader
accepts the line as long as nothing follows it.

**RiskWorker.** The handler's steps are `CheckGrace`, `CheckApplied`,
`LoadTelemetry`, then `LoadPlayer`, `Truncate`, `Write` per player of each line,
`AppendLedger` and `MarkApplied`; every one may end in `HandlerReturns` with the
verdict the code gives. A risk value is abstracted to the bag of the lines that
went into it: `ApplyMatchRisk` is a function of the previous state and the line,
so two files with the same history hold the same value, and a wrong history is
what can go wrong between processes. `Save` is `os.WriteFile`, which truncates
and then writes: a player's file can be empty in between, garbled after a
failed write or two overlapping ones, and `Load` refuses it then. `Load` takes a
file it cannot *read* for a new player's; that is a disjunct of `LoadPlayer`.
`Refused` stands for every entry that ingest lets in and the handler returns an
error for, with nothing else failing: one without `player_id`, one that brings
NaN into the risk, and one with a quantile whose rule names no percentile
(`Scoring` has the three of them apart). The ledger is kept per match and not per
day, and an append that fails leaves no fragment: nothing reads it back.

**Retention.** A run keeps `pass`, `cutoff`, the names still `todo` in this pass
and the one it has judged old (`doomed`). `Look` is the read or stat and the
decision, `Delete` the removal: two steps, because anything can happen to the
file in between. Removal is by name, so it takes whatever is in the file by
then. `PassError` is any error (main logs it and goes on with the next pass; a
telemetry line longer than bufio's 64 KiB makes one too), `Killed` the end of
the process. The producer and the worker are here with as many steps as a pass
can tell apart. `--dry-run`, which removes nothing, is not modelled; neither are
the counters of the summary line, nor `removeEmptyDirs`.

**Scoring.** What `RiskWorker` abstracts to a bag of lines is a number here, and
what it assumes of a request is checked here; in return there is one worker, no
call fails, and a telemetry line is written in one step. `Accepted` is every
check of `SubmitMatchAggregates` (`SignedRequest` the signature with its key
table, which is a constant). The line goes to the file of the sanitized id
(`FileOf`), the event has the raw id, as in the code. The name of the event's file
has it too, so that for an id with a path separator (`Slashed`) `Enqueue` fails,
the error is only logged and the event is `"lost"`. The handler maps one entry
at a time (`MapEntry`), one rule at a time (`AddCounter`, then `AddQuantile`,
each in any order, because Go's maps have none), then scores and saves
(`SavePlayer`). A float is an integer or NaN: NaN passes `SoftScore` and both
clamps of `ApplyMatchRisk`, and ends in `json.Marshal`, which refuses it before
the file is touched. (An infinity acts like a large integer or, with weight 0,
like NaN.) `1 - exp(-x)` and `DecayFactor ^ h` are tables, `Soft` and `Keep`.
Their ranges are assumed, because risk-worker checks that `DecayFactor` is in
(0,1] and the cap positive (`cmd/risk-worker/main.go:50-57`), and of `Keep` that
it is a table of powers (`PowerAssumption`), which is what `math.Pow` computes:
for a factor p/r such a table is `Keep[h] = p^h * r^(MaxTime-h)` with
`Unit = r^MaxTime`. A decayed risk is rounded down, as integers must be. The
variable `history` remembers which match risks went into a player's value, and
is read by properties only. `Worth` is what a history amounts to at a time, times
`Unit`, so that the properties divide and round nothing.

**KeyStore.** A key file is an inode that the names `path` and `tmp` may point
to and that a process may hold open; `body` is the key in it, `NoKey` if it does
not parse. `LoadOrCreateEd25519` is `LoadOrGenerate` (ReadFile, GenerateKey),
`OpenTmp` and `WriteTmp` (the two halves of `os.WriteFile`) and `RenameTmp`. All
processes use the one name `KeyPath.tmp`, so a second creator opens the first
one's inode and empties it. `overlapped` is a history variable: a key has been
generated while another process was between GenerateKey and the end of its
rename. What all this is for is `KeyRegister`: the first write stays, and who
serves has read it, or written it. `GiveUp` is the overlap, after which nothing
is promised; it needs an empty register, so once there is a key the promise is
for good.

**Trust.** A token is a wrapper (fields in the clear) and an envelope (key id,
payload, signature). What the payload bytes may be is its `form`: none, no
token, a token with a signature inside, a token not encoded canonically, a
canonical token. Signatures cannot be forged: the bytes that verify are those in
`signed`. `IntrospectTierToken` and `VerifyTierTokenOffline` are functions that
return the reason, or the sentinel error, in the order of the code's checks.
They are asked about `Presented`: every combination of a wrapper, a key id, a
payload of each form and a signature taken from anything that was signed, with
an altered tier and expiry or none. Game servers fetch a key once or again, at
any time, from any process.

Definitions whose comment starts with "Seeded fault" are not part of a model:
each is a broken variant of the definition that follows it, and shows that a
property can fail.

## 3. What TLC checks

| Run | Expectation | Instance | Question |
|---|---|---|---|
| `outbox_faults` | holds | 2 workers, one of them with `--once`, 2 events, all disruptions | exclusive claims, one place per event, no torn reads, final verdicts, refinement of `EventQueue` |
| `sink_overlap` | violated | 2 submissions, 1 file | can a file that took two accepted lines be read? |
| `worker_serial` | holds | 1 worker that is stopped at any time and started again, 3 submissions, 2 matches, grace window | scored exactly once and all or nothing; no history lost; refinement of `MatchScoring`; no event in `processing/` without its worker; every queued event settled |
| `worker_faults` | holds | 2 workers, 2 events of one match, all disruptions | what is guaranteed of counts, ledger and markers in the worst case; refinement of `Outbox` |
| `worker_idempotent` | violated | 1 worker, an entry without `player_id` | is a line counted once if the match has a bad one? |
| `worker_overwrite` | violated | 2 workers, 2 matches, a shared player | does a player's file keep what it has counted? |
| `worker_stranded` | violated | 1 worker that may crash and is restarted | is every queued event settled? |
| `retention_prompt` | holds | 3 submissions, 2 matches, window 1, clock to 4, killed and failing runs | is anything removed that is young, or still needed? |
| `retention_players` | violated | 2 matches of one player | are only old player files removed? |
| `retention_sidecars` | violated | an event that fails | are the sidecars of pruned events pruned? |
| `scoring_order` | holds | 14 requests, 3 of them in one behaviour, 5 match ids of which 3 share a file, 2 players, a rule of each kind and one that is misconfigured, clock to 3 | is a risk bounded, and never more than its matches are worth in whatever order they are scored; what can the worker not score that ingest let in? |
| `trust_restarts` | holds | 2 processes, 3 keys, 2 sessions, 1 game server, crashes and failing calls | is the key store a register that is written once (refinement of `KeyRegister`), and the served key the persisted one; are unexpired tokens accepted across restarts, and nothing else; do the two verifiers agree? |

**The violated runs** are disagreements between the code and what its comments,
flags or docs say; `PROJECT.json` quotes both sides under `findings`. In short:
two overlapping requests for a match make its file unreadable for ever; a match
that fails half way has been half counted and is counted again; two workers on
two matches of one player overwrite each other's player state; a worker that dies
strands the event it had claimed; retention can remove a player's file that has
just been updated, and never removes the sidecars in `outbox/failed`, because the
event that dates them goes first. (Seen while reading, with no run of its own:
the usage of `--once`, `cmd/risk-worker/main.go:93`, says "Process available
events once then exit", and `runOnce` handles one event.)

**One constant away.** These counterexamples have no run of their own; TLC finds
each in a configuration above with the one change named:

| Configuration | Change | Fails | What happens |
|---|---|---|---|
| `worker_overwrite` | `MatchOf <- OneMatch`, checking `ScoringIsIdempotent` | `ScoringIsIdempotent` | two workers with two events of one match both find no marker and both count its line, with no error at all |
| `worker_serial` | `Disruptions <- CrashesOnly` | `HistoryIsKept` | the worker dies between the truncation and the write of a `Save` |
| `worker_serial` | `"io"` in `Disruptions` | `HistoryIsKept` | a `Save` fails half way, or a `Load` takes an unreadable file for a new player and the `Save` that follows overwrites it |
| `retention_prompt` | `Prompt = FALSE` | `OnlyOldIsRemoved` | a line is appended between the look at the last stamp and the removal |
| `retention_prompt` | `Prompt = FALSE` | `ScoredOnce` | a late event meets a pruned marker and a kept telemetry file |
| `trust_restarts` | checking `ServingKeyIsPersisted` | `ServingKeyIsPersisted` | two processes create a key at the same time, and one serves a key that is not on disk |

**Overlapping key creations.** `KeyStore`'s properties hold unless two processes
create a key at the same time, and the exemption is needed: TLC refutes
`ServingKeyIsPersisted` on the instance of `trust_restarts`. It can get worse: one
process has written `KeyPath.tmp`, a second one truncates that inode, the first renames it
and serves a key whose file is empty; if the second then dies, no process ever
starts again. The code has no lock that would rule it out; it is the deployment
that starts one trust-api at a time.

**What holds, precisely.** With one worker and no failure the pipeline is what
the docs promise (`MatchIsScoredOnce`, while further lines of the match keep
arriving: they are either in the scored prefix or not scored at all). With
several workers and failures exactly-once is gone, but the weaker guarantees
hold: an event is `done` only when its match is marked, a marked match has a
ledger line, what is counted was completely submitted, and a line is counted at
most once per event of its match. Retention is safe under `Prompt`: all lines of
a match arrive, and all its events are handled, before its first line is older
than the window. Then `ScoredOnce` and `UnsettledHasTelemetry` hold although
markers and telemetry are dated by different clocks and pruned in separate
passes; `Prompt` is an assumption about the deployment (60 days by default), not
something the code enforces. Without it a late event meets a pruned marker and
a kept telemetry file, and all lines of the match are counted again,
and a late line can be appended to a file that retention has just judged old.

A late match counts in full although it is old, but it also takes `LastUpdate`
back, so that the next match decays more than it should: `NeverOverstated` says
that the sum of the two never leaves a player with more risk than the matches
are worth, each decayed since its own time, and `InOrderIsExact` that without
late matches it is exactly that, if the cap is not reached and no decay leaves a
rest (`Divisible`; on the instance of `scoring_order` none ever does). `FailureIsExplained` lists all that ingest lets
in and the worker fails on: an id that sanitize changes, an entry without a
player, NaN in a quantile that a rule reads, and a quantile whose rule names no
percentile. The first two are the code's to mend, the others data and config.
`UnexpiredIsAccepted` ties tokens to the key store: it holds because restarts,
crashes and failing calls never change the key on disk.

**Bounds.** Claims, saves and appends are races between two actors, so two
workers and two or three events reach all of them; with two events of one match
on two workers (`worker_faults`) every handler step of one meets every handler
step of the other. In `worker_serial` three submissions give a match with a line
that comes before, during and after the scoring, a player in two matches and a
line with two players. In `Retention` `MaxTime` bounds the clock: with a window
of one unit it leaves room for a file written first to be within, exactly at and
beyond the window, for a run whose cutoff is out of date when it deletes, and
for a ledger day of two units to become old. In `Scoring` `MaxLines` bounds the
accepted requests of a behaviour: three give a match scored late and one more
after it, which is what makes decay and dates disagree, or a match with two
lines and another of the same player; `MaxTime` gives elapsed times of 0 to 3,
and decay is by halves of a power of two, so that the integer division is exact.
In `Trust` `Keys` bounds the key creations (three: an overlap and one more),
`Nonces` the sessions (two: parts of one token can be mixed with the other's)
and `MaxTime` the clock, which with a `TTL` of 1 goes past the last instant of a
first token. Keys, nonces and processes are interchangeable (no property and no
action names one), so the run uses symmetry. There are no other bounds: all
other state is finite because each submission is made once.

Deadlock is not checked where the system stops by itself: in `Scoring` when all
requests are in, all events are settled and the clock is at its bound; the other
configurations that say `CHECK_DEADLOCK FALSE` do so for the same reason.

**Fairness.** Only `FairSpec` has any: weak fairness for a worker's steps (an
OS schedules the process, the ticker ticks), for starting a worker that is down
(a supervisor) and for the passing of the grace window. Producers and crashes
get none. `QueuedIsSettled` holds under it in `worker_serial`, where no process crashes and
no call fails, if the clean stops come to an end (`StopsComeToAnEnd`, the
hypothesis in the property): a process that is stopped before every poll owes
nothing, and nothing in the code bounds how often that happens. It fails in
`worker_stranded`, where the worker may crash, although it is always restarted.

## 4. What is proved

Checked by TLAPS for every value of the constants: any set of events, workers,
matches, players, requests, keys, processes, sessions, any mapping config, any
retention window.

`OutboxProofs`. None of the safety properties is inductive alone: that a second
worker cannot claim a held event, though it has it in a stale listing, follows
from the held file being in `processing/` and hence not in `pending/`. `IInv`
is the type invariant with `OneDirectory` (no file is in two directories),
`EnqueueProgress` (how far `Enqueue` has got tells whether the file is in `tmp`,
in one of the four directories, and whole), `HeldIsProcessing`,
`ClaimExclusive`, `SidecarPlace` (the event of a sidecar is in `processing/` or
`failed/`) and `FailureIsFinal`. From it: `TypeCorrect`, `ClaimsAreExclusive`,
`HeldFilesAreThere`, `NeverTorn`, `NothingIsLost`, `FailuresAreFinal`.
`CleanStopsStrandNothing` adds the assumption that there are no crashes and no
I/O errors and proves that a stop, at whatever moment, leaves no event in
`processing/` without a worker. `OutboxIsEventQueue` is the refinement: every
step maps to a step of `EventQueue` or a stutter, with `Status` and `holders` as
the mapping.

`RiskWorkerProofs`. `WorkerIsOutbox` shows that the handler never does anything
to the outbox but return a verdict, so all theorems above carry over
(`WorkerIsEventQueue` is the composition). `WorkerTypeCorrect` includes that the
loop indices stay within the loaded lines. `DoneIsMarked` proves
`DoneIsDurable` under all failures. An event reaches `done/` from a worker that
has returned nil, and the handler also returns nil, without a marker, when the
telemetry file has no line; so `DurableInv` carries `LineBeforeEvent` (the line
of an enqueued event is in its file) and `LedgerThenMarker` (a worker at `mark`
has appended the ledger line, one about to `MarkDone` has a marked match)
besides the outbox invariant. `MarkedIsAccounted`, that a marker never precedes
its ledger line, follows from the same invariant.

`CountProofs`. Both theorems hold for any number of workers and all disruptions.
`CountedWasWritten` speaks of the players' files only, but the lines get there
through a handler's memory, so `CountInv` follows them: the bodies in a
telemetry file are those of submissions that have written them, one each
(`BodyInv`); the lines a handler has loaded are such bodies and all different
(`LoadedInv`); and so is everything in a player's file, or in the hands of a
worker that is between Load and Save (`WrittenInv`). `CountedOncePerEvent` is a
bound on a number that several workers change. The proof gives an event that has
left `pending/` a *token* for each entry of a line that it will not count any
more: because its handler is past that entry (`Passed`), or because nobody holds
it. `TokenInv` says that neither a player's file nor a state on its way there has
counted a line more often than the line has tokens. An increment brings a new
token, because the worker passes the entry in the same step; no token is ever
lost, because an event that is requeued or failed was passed first, and an
accepted event goes back to `pending/` only through `Requeue`. There are at most
as many tokens as events taken, times the entries. Two workers that overwrite
each other's file lose increments and keep the tokens, which is why the bound is
an inequality.

`SerialProofs`. `Serial` says that there is at most one worker and that neither
crashes nor I/O errors are among the disruptions (clean stops may be; so may
submissions that overlap). The hypothesis is needed: `worker_overwrite` shows
what a second worker does, and a crash or a failed write between the truncation
and the write of a Save empties a player's file. `HistoryIsKept` follows from
`SaveInv`: the state that is about to be written is the one in the file plus one
line, and a file is empty only while it is being written. `MatchIsScoredOnce`
needs `NoneRefused` besides: no entry is one that the handler refuses (no
`player_id`, NaN, or a rule that names no percentile); without it
`worker_idempotent` is the counterexample. It speaks of matches no worker is on;
the invariant `MatchInv` speaks of all and has three cases: nothing has been done
for the match (`Untouched`), it has been scored up to line n and no further
(`SettledUpTo`), or a worker is at it and has counted exactly the entries its
loop is past (`InProgress`). `WorkerIsMatchScoring` is the refinement that follows
from it. The marker is the commit point: the mapping shows a match's entries in
the players' histories, and its ledger line, from the creation of the marker on.
That step maps to `Score`, an append to the telemetry file to `Write`, and all
else is a stutter; so what a player's history has of a marked match is never
changed again, which the invariant alone does not say. That lines arrive meanwhile is harmless because the
lines of a file only grow at the end: the loaded ones stay a prefix.

`RetentionProofs`. A run holds no lock, so the question is what can happen to a
file between `Look` and `Delete`. `IInv` says what: the stamps of a telemetry
file are ascending and not in the future (`FileInv`, `StampInv`); the match of
the event in hand has no marker, and its lines are different ones (`JobInv`);
what a pass has listed stays until the pass itself removes it (`TodoIsThere`);
a cutoff is at least a window ago (`CutoffInv`); and what was judged old by its
marker, its day or its event is still old (`DoomedInv`), because none of these
is written a second time while it exists. `TypeOK` follows. A telemetry file does
get longer, so for it the same needs `Prompt`: `PromptInv` adds that events which
wait are within the window of their match, and that a telemetry file judged old
has no line from the cutoff or later. `UnsettledHasTelemetry` and
`OnlyOldIsRemoved` follow. For `ScoredOnce`, `CountInv` says that a line that has
been counted is protected by one of three things, the worker that is on its
match, the marker, or the window (`Over`), and that a marker is no older than
some line of its match: when the marker goes, the window is over.
`RefusedAsAWhole`, the second hypothesis, excludes the half-counted match of
`worker_idempotent`: a match that fails has no marker, and nothing protects what
it has counted from its next event.

`TrustProofs`. `KeyInv` is inductive: as long as no creations have overlapped,
one process creates at a time (`OneCreates`), nobody creates when there is a key
file (`NobodyCreatesAgain`), and the temporary file of a creator that has
opened it is its own and, after the write, whole (`TmpIsMine`). From it
`KeyIsPersisted`, `KeyFileStaysWhole` and `KeyStaysTheSame`. For the tokens come
`SignedByService` (what is signed is a canonical OPEN token with a lifetime of
`TTL` from its issue), `ReturnedIsSigned` and `OneKey` (without overlap, every
signature and every cached key is by the key on disk): `OnlySignedIsAccepted`
and `UnexpiredStaysAccepted` follow. `VerifiersAgree` is about the two functions
and needs no invariant but the types. `KeyStoreIsRegister` is the refinement of
`KeyRegister`, step by step from `KeyInv`. The rename is the write: until then
there is no key file, and what is renamed is the process's own key, whole. A
start that finds the file is a read; an exit or a crash of any process forgets
what it served. The one step of two creations that is visible is the second
GenerateKey, which gives the promise up, and by `NobodyCreatesAgain` and
`ServingKeyIsPersisted` the register is still empty then and nobody serves.

`ScoringProofs`. The strengthening says what the handler's locals have to do with
the stores: lines of a file were accepted (`LinesAreAccepted`), an event has its
line (`EventHasLine`), the lines in hand are lines of the file and the indices
point at an entry with a player (`LinesAreLoaded`), a value is NaN only if the
entry in hand brought it (`NaNIsUnscorable`), and a player without a date has no
risk (`FirstMatch`). With it `RiskStaysBounded`, `SignalStaysBounded` (for any
order of the rules) and `FailuresAreExplained` are inductive.

What a risk is worth is a statement about sums, and neither it nor the sums come
for free. `WorthInv` is `NeverOverstated` and `InOrderIsExact` with `LastIsLast`:
a player's `LastUpdate` is the time of the last entry of her history, late or
not, which is what ties the decay the code computes to the history. Only
`SavePlayer` touches either, and there the argument is in four steps. Decay from
`a` to `l` and then from `l` to `t` keeps no more than decay from `a` to `t` in
one go, because a time that runs backwards counts as no time (`Elapsed`), and as
much if the three are in order (`DecayInTwo`); hence a history that has been
decayed to `l` and on to `t` as a whole is worth no more than one that decays
match by match (`WorthDecays`); a new match adds its own value, undecayed
(`WorthAppended`); and rounding, the cap and the floor only take away, or nothing
at all under the hypotheses of exactness (`ScoreNeverOverstates`,
`ScoreIsExact`). `RiskIsNeverOverstated` and `RiskInOrderIsExact` follow, for every
decay factor, cap and order of scoring.

`SumProofs` has what these need of `SumFunction`. The community modules define it
as a recursive function that takes elements out of a set in an unknown order, and
no library theorem about it can be used here. `NatSetInduction` and
`SubsetInduction` are induction principles over a *set* in place of a predicate,
from the library's minimal elements of well-founded relations. With them it is shown that
the recursive function exists (`FoldExists`) and is determined (`FoldsAgree`),
that its order does not matter (`SumTakeOut`), and that sums are monotone,
proportional and extended as one expects.

Assumptions used: events are numbers, `NoEvent` is not one, `Once` is a set of
workers, `Grace` a Boolean, `MatchOf` and `PlayersOf` are functions into the
right sets and every line lists at least one entry (ingest rejects
`missing_players`). For keys and tokens: `NoKey` is no key, times are natural
numbers, and neither a missing signature nor `Garbage` is a signature. For
scoring: requests have the fields of the protobuf messages, player and match ids
are not empty, NaN is not an integer, the sets of rules are finite, the two
tables have values in `0..SignalCap` and `0..Unit`, and the table of decays is
one of powers. For retention: the window and
the day are positive and the clock's bound is no smaller than the window. TLC
evaluates all of them in the runs. The hypotheses of single theorems (`Prompt`,
`RefusedAsAWhole`, `Serial`, `NoneRefused`, no crashes and I/O errors) are those of
the instances on which TLC checks the same properties.

**Model-checked only.** Liveness (`QueuedIsSettled`), which needs fairness and
ENABLED: no backend proves it. The properties of the violated runs are false, and
the runs show it. All other properties of the passing runs are theorems.

## 5. Not modelled

* `telemetry/store/match_jsonl.go`, which nothing calls; flag and environment
  parsing (the key table of `parseAllowedServerKeys` is a constant); logging;
  gRPC wiring and deadlines.
* Clocks that disagree: in each module all processes, and the game servers, read
  one clock, so a token's expiry is the same instant for all.
* A ledger line that is written in part, and the next match's line that is then
  appended to it: nothing in the repository reads the ledger.
* Event names that collide (two submissions within one clock tick); unreadable
  configuration; loss of data that the file system had acknowledged.
* That a client retries a request whose answer was lost: a retry is one more
  submission in every module, and no property speaks of two lines with the same
  content.
* The numerical values of the exponentials and the rounding of floats; player
  ids that are no file names (a player's file is named by the raw id).
* The times at which a game server drops a cached key (`CacheUntil`): nothing in
  the code enforces it.
* In `Retention`: `--dry-run`, which removes nothing; `removeEmptyDirs`, which
  never finds an empty directory below those it is called on, because nothing
  makes one; the steps inside `Save`.

## 6. Plan

1. Outbox, worker loop, sink, risk worker, retention: done, with the proofs
   above.
2. Ingest checks, mapping and scoring (`Scoring`): done, with proofs.
3. Key store and tier tokens (`KeyStore`, `Trust`): done, with proofs.
4. `RetentionProofs`, `CountProofs` and `SerialProofs`: done.
5. `MatchScoring` and its refinement by `RiskWorker`: done.
6. `KeyRegister` and its refinement by `KeyStore`: done.
7. `SumProofs`, and with it what a risk is worth: done. Every property of a
   passing run is a theorem now, but for liveness.
