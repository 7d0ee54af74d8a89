------------------------------ MODULE Scoring ------------------------------
(***************************************************************************)
(* From a request to a risk value: what SubmitMatchAggregates lets in and  *)
(* under which file name (telemetry/service.go), how the aggregates of a   *)
(* player become the risk of a match (risk/mapper.go, features.go) and how *)
(* that goes into the player's TotalRisk (risk/scoring.go).                *)
(*                                                                         *)
(* One worker, no failing calls: those are RiskWorker's subject, where a   *)
(* risk value is a bag of lines.  Here it is a number.  Floats are integers*)
(* or NaN; the exponential functions are tables.  (An infinity in the      *)
(* telemetry acts like a large integer or, with weight 0, like NaN.)       *)
(***************************************************************************)
EXTENDS Integers, Sequences, FiniteSets, SequencesExt

CONSTANTS
    Requests,     \* calls of SubmitMatchAggregates: an id, content, signature
    Matches,      \* raw match ids; a file may be named by one, too
    FileOf,       \* FileOf[m]: m after sanitize
    Slashed,      \* ids with a path separator
    Players,
    NaN, Nil,     \* not a number; a message that is not there
    RequireSig, AllowedKeys,            \* telemetry-api's environment
    SchemaID,                           \* expectedTelemetrySchemaID
    Counters, Quantiles, ConfigSchema,  \* the mapping config of the worker
    SignalCap, MaxSignal, Soft,         \* Soft[x]: SignalCap * (1 - exp(-x))
    RiskCap, Unit, Keep,                \* Keep[h] / Unit: DecayFactor ^ h
    MaxTime, MaxLines                   \* bounds of the clock, of all lines

Percentiles == {"p50", "p75", "p90", "p95", "p99"}
Number == Int \cup {NaN}

CounterRules == [weight : Int, normalization : Int]
QuantileRules == [weight : Int, pctl : STRING, mean : Int, std : Int]

Entry == [ref : [player : Players \cup {""}, match : Matches \cup {""}] \cup {Nil},
          schema : STRING,
          counters : Seq([name : STRING, value : Nat]),
          quantiles : Seq([name : STRING, at : [Percentiles -> Number]]),
          histograms : Seq([count : Nat, buckets : Nat])]
Content == [match : Matches \cup {""}, build : STRING, players : Seq(Entry \cup {Nil})]
Signature == [keyId : STRING, payload : Content, key : STRING]
Request == [id : Nat, content : Content, signature : Signature \cup {Nil}]

ASSUME RequestsAssumption == Requests \subseteq Request
ASSUME NamesAssumption == "" \notin Players \cup Matches /\ FileOf \in [Matches -> Matches]
\* sanitize replaces a separator.
ASSUME SlashedAssumption == Slashed \subseteq {m \in Matches : FileOf[m] # m}
ASSUME NaNAssumption == NaN \notin Int
ASSUME NilAssumption == Nil \notin Entry
ASSUME RulesAssumption ==
    /\ IsFiniteSet(DOMAIN Counters) /\ IsFiniteSet(DOMAIN Quantiles)
    /\ \A c \in DOMAIN Counters : Counters[c] \in CounterRules
    /\ \A q \in DOMAIN Quantiles : Quantiles[q] \in QuantileRules
\* LoadMappingConfigFromFile and MapAggregatesToMatchRisk make a cap that is
\* not positive 1.0.
ASSUME SignalAssumption ==
    /\ SignalCap \in Nat \ {0} /\ MaxSignal \in Nat \ {0}
    /\ Soft \in [1..MaxSignal -> 0..SignalCap]
ASSUME DecayAssumption ==
    /\ RiskCap \in Nat /\ MaxTime \in Nat /\ Unit \in Nat \ {0}
    /\ Keep \in [0..MaxTime -> 0..Unit]
\* The table is one of powers.
ASSUME PowerAssumption ==
    /\ Keep[0] = Unit
    /\ \A a, b \in 0..MaxTime : a + b <= MaxTime => Keep[a] * Keep[b] = Unit * Keep[a + b]

VARIABLES
    clock,
    file,      \* file[n]: the lines [at, req] of telemetry file n
    event,     \* event[r]: what became of the event of request r
    applied,   \* matches with a marker
    risk,      \* risk[p]: the RiskState of player p
    job,       \* the local variables of the handler
    history    \* history[p]: the match risks that went into risk[p], in order

vars == <<clock, file, event, applied, risk, job, history>>

Rules == ({"counter"} \X DOMAIN Counters) \cup ({"quantile"} \X DOMAIN Quantiles)
Line == [at : 0..MaxTime, req : Requests]
NoState == [total |-> 0, last |-> -1]
Job == [req : Requests \cup {Nil}, lines : Seq(Line), i : Nat, j : Nat,
        rules : SUBSET Rules, value : Number,
        step : {"idle", "map", "rules"}]
Idle == [req |-> Nil, lines |-> <<>>, i |-> 1, j |-> 1, rules |-> {}, value |-> 0,
         step |-> "idle"]

TypeOK ==
    /\ clock \in 0..MaxTime
    /\ file \in [Matches -> Seq(Line)]
    /\ event \in [Requests -> {"none", "queued", "lost", "done", "failed"}]
    /\ applied \subseteq Matches
    /\ risk \in [Players -> [total : Number, last : -1..MaxTime]]
    /\ job \in Job
    /\ history \in [Players -> Seq([at : 0..MaxTime, value : Number])]

Init ==
    /\ clock = 0
    /\ file = [n \in Matches |-> <<>>]
    /\ event = [r \in Requests |-> "none"]
    /\ applied = {}
    /\ risk = [p \in Players |-> NoState]
    /\ job = Idle
    /\ history = [p \in Players |-> <<>>]

Tick ==
    /\ clock < MaxTime
    /\ clock' = clock + 1
    /\ UNCHANGED <<file, event, applied, risk, job, history>>

-----------------------------------------------------------------------------
(* Ingest *)

\* The signature is by an allowed key and over this very request.
SignedRequest(r) ==
    /\ r.signature # Nil
    /\ r.signature.keyId \in AllowedKeys
    /\ r.signature.payload = r.content
    /\ r.signature.key = r.signature.keyId

\* Seeded fault: the schema of an entry is left to the mapper.
AcceptedEntryAnySchema(content, e) ==
    /\ e # Nil
    /\ e.ref # Nil
    /\ e.ref.match \in {"", content.match}
    /\ \A i \in DOMAIN e.histograms : e.histograms[i].count \in {0, e.histograms[i].buckets}

AcceptedEntry(content, e) ==
    /\ e # Nil
    /\ e.ref # Nil
    /\ e.ref.match \in {"", content.match}
    /\ e.schema = SchemaID
    /\ \A i \in DOMAIN e.histograms : e.histograms[i].count \in {0, e.histograms[i].buckets}

\* A request that is not accepted gets a reason and changes nothing.
Accepted(r) ==
    /\ r.content.match # "" /\ r.content.build # "" /\ r.content.players # <<>>
    /\ RequireSig => SignedRequest(r)
    /\ \A i \in DOMAIN r.content.players : AcceptedEntry(r.content, r.content.players[i])

\* The line goes to the file of the sanitized id, the event has the raw one.
\* Its file name has, too: with a path separator in it Enqueue fails for want
\* of a directory, which is only logged.
SubmitMatchAggregates(r) ==
    /\ event[r] = "none"
    /\ Accepted(r)
    /\ Cardinality({q \in Requests : event[q] # "none"}) < MaxLines
    /\ file' = [file EXCEPT ![FileOf[r.content.match]] = Append(@, [at |-> clock, req |-> r])]
    /\ event' = [event EXCEPT ![r] = IF r.content.match \in Slashed THEN "lost" ELSE "queued"]
    /\ UNCHANGED <<clock, applied, risk, job, history>>

-----------------------------------------------------------------------------
(* The handler: one line, one entry, one rule of the mapping at a time *)

Finish(r, verdict) ==
    /\ event' = [event EXCEPT ![r] = verdict]
    /\ job' = Idle

\* The marker, and the file of the raw id: if sanitize changes the id, there
\* is no such file.
Begin(r) ==
    LET m == r.content.match
    IN  /\ job.step = "idle"
        /\ event[r] = "queued"
        /\ \/ m \in applied /\ Finish(r, "done")
           \/ m \notin applied /\ file[m] = <<>> /\ Finish(r, "failed")
           \/ /\ m \notin applied /\ file[m] # <<>>
              /\ job' = [Idle EXCEPT !.step = "map", !.req = r, !.lines = file[m]]
              /\ UNCHANGED event
        /\ UNCHANGED <<clock, file, applied, risk, history>>

Current == job.lines[job.i].req.content.players[job.j]

\* The checks of MapAggregatesToMatchRisk.
MapEntry ==
    LET refused == \/ Current = Nil
                   \/ Current.ref = Nil
                   \/ Current.ref.player = ""
                   \/ ConfigSchema # "" /\ Current.schema # ConfigSchema
    IN  /\ job.step = "map" /\ job.i <= Len(job.lines)
        /\ \/ refused /\ Finish(job.req, "failed")
           \/ /\ ~refused
              /\ job' = [job EXCEPT !.step = "rules", !.rules = Rules, !.value = 0]
              /\ UNCHANGED event
        /\ UNCHANGED <<clock, file, applied, risk, history>>

Plus(x, y) == IF NaN \in {x, y} THEN NaN ELSE x + y
Times(x, w) == IF x = NaN THEN NaN ELSE x * w
ZScore(v, mean, std) ==
    IF std <= 0 THEN 0 ELSE IF v = NaN THEN NaN ELSE (v - mean) \div std

\* Seeded fault: a signal that is better than normal takes risk away.
SoftScoreSigned(x) ==
    IF x = NaN \/ x <= 0 THEN x ELSE Soft[IF x < MaxSignal THEN x ELSE MaxSignal]

\* "output: [0, cap]" (features.go:39).  NaN <= 0 is false.
SoftScore(x) ==
    IF x = NaN THEN NaN
    ELSE IF x <= 0 THEN 0
    ELSE Soft[IF x < MaxSignal THEN x ELSE MaxSignal]

\* GetCounter and GetQuantiles: of several with the same name, the first.
First(s, name, i) ==
    /\ s[i].name = name
    /\ \A k \in DOMAIN s : s[k].name = name => i <= k
Has(s, name) == \E i \in DOMAIN s : s[i].name = name

\* Go's maps are iterated in any order.
AddSignal(rule, x) ==
    /\ job' = [job EXCEPT !.rules = @ \ {rule}, !.value = Plus(@, SoftScore(x))]
    /\ UNCHANGED event

AddCounter(c) ==
    LET norm == Counters[c].normalization
        Scaled(raw) == (IF norm > 0 THEN raw \div norm ELSE raw) * Counters[c].weight
    IN  /\ job.step = "rules" /\ <<"counter", c>> \in job.rules
        /\ \/ ~Has(Current.counters, c) /\ AddSignal(<<"counter", c>>, Scaled(0))
           \/ \E i \in DOMAIN Current.counters :
                 /\ First(Current.counters, c, i)
                 /\ AddSignal(<<"counter", c>>, Scaled(Current.counters[i].value))
        /\ UNCHANGED <<clock, file, applied, risk, history>>

\* A rule for an unknown percentile does no harm until an entry comes with
\* that quantile.
AddQuantile(q) ==
    LET rule == Quantiles[q]
    IN  /\ job.step = "rules" /\ <<"quantile", q>> \in job.rules
        /\ \A c \in DOMAIN Counters : <<"counter", c>> \notin job.rules
        /\ \/ ~Has(Current.quantiles, q) /\ AddSignal(<<"quantile", q>>, 0)
           \/ /\ Has(Current.quantiles, q) /\ rule.pctl \notin Percentiles
              /\ Finish(job.req, "failed")
           \/ \E i \in DOMAIN Current.quantiles :
                 /\ First(Current.quantiles, q, i) /\ rule.pctl \in Percentiles
                 /\ AddSignal(<<"quantile", q>>,
                       Times(ZScore(Current.quantiles[i].at[rule.pctl], rule.mean, rule.std),
                             rule.weight))
        /\ UNCHANGED <<clock, file, applied, risk, history>>

\* Hours, but none if the clock goes back.
Elapsed(from, to) == IF to < from THEN 0 ELSE to - from

\* Seeded fault: LastUpdate stays what it was.
ApplyMatchRiskUndated(prev, value, now) ==
    LET next == Plus((prev.total * Keep[Elapsed(prev.last, now)]) \div Unit, value)
    IN  [total |-> IF next = NaN THEN NaN ELSE IF next > RiskCap THEN RiskCap ELSE next,
         last |-> prev.last]

\* Seeded fault: LastUpdate never goes back, and a late match counts in full.
ApplyMatchRiskForward(prev, value, now) ==
    LET next == Plus((prev.total * Keep[Elapsed(prev.last, now)]) \div Unit, value)
    IN  [total |-> IF next = NaN THEN NaN ELSE IF next > RiskCap THEN RiskCap ELSE next,
         last |-> now + Elapsed(now, prev.last)]

\* A match before prev.last decays nothing, and takes the date back: the next
\* one decays the time between the two again.  NaN passes both clamps.
ApplyMatchRisk(prev, value, now) ==
    LET next == Plus((prev.total * Keep[Elapsed(prev.last, now)]) \div Unit, value)
    IN  [total |-> IF next = NaN THEN NaN
                   ELSE IF next < 0 THEN 0
                   ELSE IF next > RiskCap THEN RiskCap ELSE next,
         last |-> now]

\* Seeded fault: what the encoder does not take is written all the same.
SavePlayerAnything ==
    LET p == Current.ref.player
        at == job.lines[job.i].at
        prev == IF risk[p] = NoState THEN [NoState EXCEPT !.last = clock] ELSE risk[p]
        last == job.j = Len(job.lines[job.i].req.content.players)
    IN  /\ job.step = "rules" /\ job.rules = {}
        /\ risk' = [risk EXCEPT ![p] = ApplyMatchRisk(prev, job.value, at)]
        /\ history' = [history EXCEPT ![p] = Append(@, [at |-> at, value |-> job.value])]
        /\ job' = [job EXCEPT !.step = "map", !.i = IF last THEN @ + 1 ELSE @,
                              !.j = IF last THEN 1 ELSE @ + 1]
        /\ UNCHANGED <<clock, file, event, applied>>

\* FileStore.Load (without a file: no risk as of now), ApplyMatchRisk and Save,
\* which marshals before it touches the file and has no JSON for NaN.
SavePlayer ==
    LET p == Current.ref.player
        at == job.lines[job.i].at
        prev == IF risk[p] = NoState THEN [NoState EXCEPT !.last = clock] ELSE risk[p]
        next == ApplyMatchRisk(prev, job.value, at)
        last == job.j = Len(job.lines[job.i].req.content.players)
    IN  /\ job.step = "rules" /\ job.rules = {}
        /\ \/ next.total = NaN /\ Finish(job.req, "failed") /\ UNCHANGED <<risk, history>>
           \/ /\ next.total # NaN
              /\ risk' = [risk EXCEPT ![p] = next]
              /\ history' = [history EXCEPT ![p] = Append(@, [at |-> at, value |-> job.value])]
              /\ job' = [job EXCEPT !.step = "map", !.i = IF last THEN @ + 1 ELSE @,
                                    !.j = IF last THEN 1 ELSE @ + 1]
              /\ UNCHANGED event
        /\ UNCHANGED <<clock, file, applied>>

\* Seeded fault: the marker is named after the telemetry file.
MarkAppliedByFile ==
    /\ job.step = "map" /\ job.i > Len(job.lines)
    /\ applied' = applied \cup {"match_" \o job.req.content.match}
    /\ Finish(job.req, "done")
    /\ UNCHANGED <<clock, file, risk, history>>

MarkApplied ==
    /\ job.step = "map" /\ job.i > Len(job.lines)
    /\ applied' = applied \cup {job.req.content.match}
    /\ Finish(job.req, "done")
    /\ UNCHANGED <<clock, file, risk, history>>

Next ==
    \/ Tick
    \/ \E r \in Requests : SubmitMatchAggregates(r) \/ Begin(r)
    \/ MapEntry
    \/ \E c \in DOMAIN Counters : AddCounter(c)
    \/ \E q \in DOMAIN Quantiles : AddQuantile(q)
    \/ SavePlayer
    \/ MarkApplied

Spec == Init /\ [][Next]_vars

-----------------------------------------------------------------------------
(* Properties *)

\* What a player's history amounts to at time t, if each match decays from its
\* own time on: times Unit, so that nothing is divided and nothing rounded.
Worth(h, t) == SumFunction([i \in DOMAIN h |-> h[i].value * Keep[Elapsed(h[i].at, t)]])

InOrder(h) == \A i, k \in DOMAIN h : i <= k => h[i].at <= h[k].at
Uncapped(h) == SumFunction([i \in DOMAIN h |-> h[i].value]) <= RiskCap

\* At the time of no later match does the decay of an earlier one leave a rest.
Divisible(h) ==
    \A i, k \in DOMAIN h : i <= k =>
        (h[i].value * Keep[Elapsed(h[i].at, h[k].at)]) % Unit = 0

\* "risk does not grow unbounded" (docs/risk-scoring.md), and what is saved is
\* a number, whatever numbers are in the telemetry.
RiskIsBounded == \A p \in Players : risk[p].total \in 0..RiskCap

\* "It produces a bounded signal" (mapper.go:19): whatever the order of the
\* rules, each adds at most one SignalCap to the risk of a match.
SignalIsBounded ==
    /\ job.step = "rules" => job.value = NaN
                              \/ job.value \in 0..(SignalCap * Cardinality(Rules \ job.rules))
    /\ \A p \in Players : \A i \in DOMAIN history[p] :
          history[p][i].value \in 0..(SignalCap * Cardinality(Rules))

\* In whatever order matches are scored, early or late, twice or once, nobody
\* has more risk than the matches that were scored add up to, each decayed
\* since its own time: late scoring is never to a player's disadvantage.
NeverOverstated ==
    \A p \in Players : risk[p].total * Unit <= Worth(history[p], risk[p].last)

\* If the matches were scored in the order of their times, the cap was out of
\* reach and nothing was rounded, the risk is exactly that.
InOrderIsExact ==
    \A p \in Players :
        InOrder(history[p]) /\ Uncapped(history[p]) /\ Divisible(history[p])
            => risk[p].total * Unit = Worth(history[p], risk[p].last)

\* What the mapper cannot score: ingest lets it in.
Unscorable(e) ==
    \/ e.ref.player = ""
    \/ \E i \in DOMAIN e.quantiles : \E q \in DOMAIN Quantiles :
          /\ e.quantiles[i].name = q
          /\ Quantiles[q].pctl \in Percentiles => e.quantiles[i].at[Quantiles[q].pctl] = NaN

\* Ingest and worker agree on everything else: an accepted request of a match
\* whose id sanitize leaves alone fails only if an entry of that match's file
\* has no player, no number, or a quantile with a rule that is misconfigured.
FailureIsExplained ==
    ConfigSchema \in {"", SchemaID} =>
        \A r \in Requests : event[r] = "failed" =>
            \/ FileOf[r.content.match] # r.content.match
            \/ \E i \in DOMAIN file[r.content.match] :
                  \E e \in Range(file[r.content.match][i].req.content.players) : Unscorable(e)
=============================================================================
