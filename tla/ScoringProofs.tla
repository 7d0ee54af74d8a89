--------------------------- MODULE ScoringProofs ---------------------------
(***************************************************************************)
(* Theorems about ingest, mapping and scoring, for any requests, mapping   *)
(* config, cap and decay.                                                  *)
(***************************************************************************)
EXTENDS Scoring, SumProofs

(* What is in a file was accepted; an event has its line; the handler works
   on lines of the file of its match, on an entry that exists; and the risk
   of the entry is not a number only if that entry brought it. *)
LinesAreAccepted == \A n \in Matches : \A k \in DOMAIN file[n] : Accepted(file[n][k].req)

EventHasLine ==
    \A r \in Requests : event[r] # "none" =>
        Accepted(r) /\ file[FileOf[r.content.match]] # <<>>

InFile(m, line) == \E i \in DOMAIN file[m] : file[m][i] = line

LinesAreLoaded ==
    job.step # "idle" =>
        /\ job.req \in Requests /\ job.req.content.match \in Matches
        /\ event[job.req] = "queued"
        /\ \A k \in DOMAIN job.lines : InFile(job.req.content.match, job.lines[k])
        /\ job.i \in 1..(Len(job.lines) + 1)
        /\ job.i <= Len(job.lines) => job.j \in DOMAIN job.lines[job.i].req.content.players
        /\ job.step = "rules" => job.i <= Len(job.lines) /\ Current.ref.player \in Players

NaNIsUnscorable == job.step = "rules" /\ job.value = NaN => Unscorable(Current)

FirstMatch == \A p \in Players : risk[p].last = -1 => risk[p] = NoState

Inv ==
    /\ TypeOK
    /\ LinesAreAccepted /\ EventHasLine /\ LinesAreLoaded
    /\ NaNIsUnscorable /\ FirstMatch
    /\ RiskIsBounded /\ SignalIsBounded /\ FailureIsExplained

-----------------------------------------------------------------------------
(* Operators *)

LEMMA ElementIn ==
    ASSUME NEW S, NEW s \in Seq(S), NEW i \in DOMAIN s
    PROVE  s[i] \in S
OBVIOUS

LEMMA Appended ==
    ASSUME NEW S, NEW s \in Seq(S), NEW e \in S
    PROVE  /\ Append(s, e) \in Seq(S)
           /\ Append(s, e)[Len(s) + 1] = e
           /\ \A i \in DOMAIN Append(s, e) :
                 i # Len(s) + 1 => i \in DOMAIN s /\ Append(s, e)[i] = s[i]
OBVIOUS

LEMMA AcceptedContent ==
    ASSUME NEW r \in Requests, Accepted(r)
    PROVE  /\ r.content.match \in Matches /\ FileOf[r.content.match] \in Matches
           /\ r.content.players \in Seq(Entry \cup {Nil})
           /\ 1 \in DOMAIN r.content.players
           /\ \A i \in DOMAIN r.content.players :
                 /\ r.content.players[i] \in Entry
                 /\ r.content.players[i].ref \in [player : Players \cup {""}, match : Matches \cup {""}]
                 /\ r.content.players[i].schema = SchemaID
<1>1. r.content \in Content
  BY RequestsAssumption DEF Request
<1>2. /\ r.content.match \in Matches
      /\ r.content.players \in Seq(Entry \cup {Nil}) /\ r.content.players # <<>>
  BY <1>1 DEF Accepted, Content
<1>3. ASSUME NEW i \in DOMAIN r.content.players
      PROVE  /\ r.content.players[i] \in Entry
             /\ r.content.players[i].ref \in [player : Players \cup {""}, match : Matches \cup {""}]
             /\ r.content.players[i].schema = SchemaID
  <2>1. AcceptedEntry(r.content, r.content.players[i])
    BY <1>3 DEF Accepted
  <2>2. r.content.players[i] \in Entry
    <3>1. r.content.players[i] \in Entry \cup {Nil}
      BY <1>2, <1>3
    <3>2. QED
      BY <2>1, <3>1 DEF AcceptedEntry
  <2>3. r.content.players[i].ref \in
          [player : Players \cup {""}, match : Matches \cup {""}] \cup {Nil}
    BY <2>2 DEF Entry
  <2>4. QED
    BY <2>1, <2>2, <2>3 DEF AcceptedEntry
<1>4. 1 \in DOMAIN r.content.players
  BY <1>2
<1>5. QED
  BY <1>2, <1>3, <1>4, NamesAssumption

\* A signal is worth a number between 0 and the cap, unless it is no number.
LEMMA SoftScoreBounded ==
    ASSUME NEW x \in Number
    PROVE  /\ x = NaN => SoftScore(x) = NaN
           /\ x # NaN => SoftScore(x) \in 0..SignalCap /\ SoftScore(x) # NaN
<1>1. CASE x = NaN
  BY <1>1 DEF SoftScore
<1>2. CASE x \in Int /\ x # NaN
  <2>1. x > 0 => (IF x < MaxSignal THEN x ELSE MaxSignal) \in 1..MaxSignal
    BY <1>2, SignalAssumption
  <2>2. SoftScore(x) \in 0..SignalCap
    BY <1>2, <2>1, SignalAssumption DEF SoftScore
  <2>3. QED
    BY <1>2, <2>2, NaNAssumption, SignalAssumption
<1>3. QED
  BY <1>1, <1>2 DEF Number

\* A player's risk is in bounds after any match whose risk is a number.
LEMMA ApplyMatchRiskBounded ==
    ASSUME NEW prev \in [total : 0..RiskCap, last : 0..MaxTime], NEW now \in 0..MaxTime,
           NEW value \in Number
    PROVE  /\ value # NaN => ApplyMatchRisk(prev, value, now).total \in 0..RiskCap
           /\ ApplyMatchRisk(prev, value, now).total = NaN => value = NaN
           /\ ApplyMatchRisk(prev, value, now).last = now
<1> USE DecayAssumption
<1> DEFINE elapsed == Elapsed(prev.last, now)
           decayed == (prev.total * Keep[elapsed]) \div Unit
<1>1. elapsed \in 0..MaxTime
  BY prev.last \in 0..MaxTime DEF Elapsed
<1>2. prev.total \in Int /\ Keep[elapsed] \in Int
  <2> HIDE DEF elapsed
  <2>1. QED
    BY <1>1
<1>3. decayed \in Int
  <2> HIDE DEF elapsed
  <2>1. prev.total * Keep[elapsed] \in Int
    BY <1>2
  <2>2. QED
    BY <2>1
<1> HIDE DEF decayed
<1>4. value # NaN => Plus(decayed, value) \in Int
  BY <1>3, NaNAssumption DEF Plus, Number
<1>5. ApplyMatchRisk(prev, value, now)
        = [total |-> IF Plus(decayed, value) = NaN THEN NaN
                     ELSE IF Plus(decayed, value) < 0 THEN 0
                     ELSE IF Plus(decayed, value) > RiskCap THEN RiskCap
                     ELSE Plus(decayed, value),
           last |-> now]
  BY DEF ApplyMatchRisk, decayed
<1> DEFINE sum == Plus(decayed, value)
<1> HIDE DEF sum
<1>6. ASSUME value # NaN
      PROVE  ApplyMatchRisk(prev, value, now).total \in 0..RiskCap
  <2>1. sum \in Int /\ sum # NaN
    BY <1>4, <1>6, NaNAssumption DEF sum
  <2>2. ApplyMatchRisk(prev, value, now).total
          = IF sum < 0 THEN 0 ELSE IF sum > RiskCap THEN RiskCap ELSE sum
    BY <1>5, <2>1 DEF sum
  <2>3. QED
    BY <2>1, <2>2
<1>7. QED
  BY <1>5, <1>6, NaNAssumption

LEMMA RulesAreFinite == IsFiniteSet(Rules) /\ Cardinality(Rules) \in Nat
<1>1. IsFiniteSet(Rules)
  BY FS_Product, FS_Union, FS_Singleton, RulesAssumption DEF Rules
<1>2. QED
  BY <1>1, FS_CardinalityType

\* One rule less to go is one cap more of room.
LEMMA RoomForOneMore ==
    ASSUME NEW rules \in SUBSET Rules, NEW rule \in rules
    PROVE  /\ IsFiniteSet(Rules)
           /\ Cardinality(Rules \ rules) \in Nat
           /\ Cardinality(Rules \ (rules \ {rule})) = Cardinality(Rules \ rules) + 1
<1>1. IsFiniteSet(Rules)
  BY RulesAreFinite
<1>2. IsFiniteSet(Rules \ rules)
  BY <1>1, FS_Subset
<1>3. Rules \ (rules \ {rule}) = (Rules \ rules) \cup {rule} /\ rule \notin Rules \ rules
  BY DEF Rules
<1>4. QED
  BY <1>1, <1>2, <1>3, FS_AddElement, FS_CardinalityType

-----------------------------------------------------------------------------
(* The entry the handler is at *)

LEMMA CurrentIsAccepted ==
    ASSUME Inv, job.step # "idle", job.i <= Len(job.lines)
    PROVE  /\ job.i \in DOMAIN job.lines /\ job.lines[job.i] \in Line
           /\ InFile(job.req.content.match, job.lines[job.i])
           /\ Accepted(job.lines[job.i].req)
           /\ job.lines[job.i].req.content.players \in Seq(Entry \cup {Nil})
           /\ job.j \in DOMAIN job.lines[job.i].req.content.players
           /\ Current \in Range(job.lines[job.i].req.content.players)
           /\ Current \in Entry /\ Current # Nil /\ Current.ref # Nil
           /\ Current.ref.player \in Players \cup {""}
           /\ Current.schema = SchemaID
<1> DEFINE line == job.lines[job.i]
           m == job.req.content.match
<1>1. /\ job.lines \in Seq(Line) /\ job.i \in Nat /\ job.j \in Nat
      /\ file \in [Matches -> Seq(Line)]
  BY DEF Inv, TypeOK, Job
<1>2. job.i \in DOMAIN job.lines
  BY <1>1 DEF Inv, LinesAreLoaded
<1>3. /\ InFile(m, line) /\ m \in Matches
      /\ job.j \in DOMAIN line.req.content.players
  BY <1>2 DEF Inv, LinesAreLoaded
<1>4. line \in Line /\ line.req \in Requests
  <2>1. line \in Line
    BY <1>1, <1>2
  <2>2. QED
    BY <2>1 DEF Line
<1>5. Accepted(line.req)
  BY <1>3 DEF Inv, LinesAreAccepted, InFile
<1>6. /\ line.req.content.players \in Seq(Entry \cup {Nil})
      /\ Current \in Entry
      /\ Current.ref \in [player : Players \cup {""}, match : Matches \cup {""}]
      /\ Current.schema = SchemaID
  BY <1>3, <1>4, <1>5, AcceptedContent DEF Current
<1>7. Current # Nil /\ Current.ref # Nil
  BY <1>3, <1>5 DEF Accepted, AcceptedEntry, Current
<1>8. Current \in Range(line.req.content.players)
  BY <1>3 DEF Range, Current
<1>9. QED
  BY <1>2, <1>3, <1>4, <1>5, <1>6, <1>7, <1>8

(* An event that is done with.  What explains a failure: *)
Explained(r) ==
    \/ FileOf[r.content.match] # r.content.match
    \/ \E i \in DOMAIN file[r.content.match] :
          \E e \in Range(file[r.content.match][i].req.content.players) : Unscorable(e)

LEMMA IdleIsJob == Idle \in Job
<1>1. <<>> \in Seq(Line) /\ {} \in SUBSET Rules /\ 0 \in Number /\ 1 \in Nat
  BY DEF Number
<1>2. QED
  BY <1>1 DEF Idle, Job

LEMMA FinishInv ==
    ASSUME Inv, NEW r \in Requests, event[r] = "queued",
           NEW verdict \in {"done", "failed"}, Finish(r, verdict),
           UNCHANGED <<clock, file, risk, history>>, applied' \subseteq Matches,
           verdict = "failed" /\ ConfigSchema \in {"", SchemaID} => Explained(r)
    PROVE  Inv'
<1>1. /\ event \in [Requests -> {"none", "queued", "lost", "done", "failed"}]
      /\ event' = [event EXCEPT ![r] = verdict] /\ job' = Idle
  BY DEF Inv, TypeOK, Finish
<1>2. TypeOK'
  BY <1>1, IdleIsJob DEF Inv, TypeOK
<1>3. LinesAreAccepted' /\ FirstMatch' /\ RiskIsBounded'
  BY DEF Inv, LinesAreAccepted, FirstMatch, RiskIsBounded
<1>4. EventHasLine'
  <2>1. \A q \in Requests : event'[q] # "none" => event[q] # "none"
    BY <1>1
  <2>2. QED
    BY <2>1 DEF Inv, EventHasLine
<1>5. job'.step = "idle"
  BY <1>1 DEF Idle
<1>6. LinesAreLoaded' /\ NaNIsUnscorable'
  BY <1>5 DEF LinesAreLoaded, NaNIsUnscorable
<1>7. SignalIsBounded'
  BY <1>5 DEF Inv, SignalIsBounded
<1>8. FailureIsExplained'
  <2> SUFFICES ASSUME ConfigSchema \in {"", SchemaID}, NEW q \in Requests, event'[q] = "failed"
               PROVE  Explained(q)
    BY DEF FailureIsExplained, Explained
  <2>1. CASE q = r
    BY <1>1, <2>1
  <2>2. CASE q # r
    BY <1>1, <2>2 DEF Inv, FailureIsExplained, Explained
  <2>3. QED
    BY <2>1, <2>2
<1>9. QED
  BY <1>2, <1>3, <1>4, <1>6, <1>7, <1>8 DEF Inv

\* An event that fails on an entry that cannot be scored is explained by it.
LEMMA FailedOnUnscorable ==
    ASSUME Inv, job.step # "idle", job.i <= Len(job.lines), Finish(job.req, "failed"),
           UNCHANGED <<clock, file, applied, risk, history>>,
           ConfigSchema \in {"", SchemaID} => Unscorable(Current)
    PROVE  Inv'
<1>1. job.req \in Requests /\ event[job.req] = "queued" /\ applied' \subseteq Matches
  BY DEF Inv, LinesAreLoaded, TypeOK
<1>2. /\ InFile(job.req.content.match, job.lines[job.i])
      /\ Current \in Range(job.lines[job.i].req.content.players)
  BY CurrentIsAccepted
<1>3. Unscorable(Current) => Explained(job.req)
  BY <1>2 DEF InFile, Explained
<1>4. QED
  BY <1>1, <1>3, FinishInv

-----------------------------------------------------------------------------
(* The inductive invariant *)

LEMMA InvInit == Init => Inv
<1> SUFFICES ASSUME Init PROVE Inv
  OBVIOUS
<1>1. TypeOK
  <2>1. clock \in 0..MaxTime /\ 0 \in Number /\ NoState \in [total : Number, last : -1..MaxTime]
    BY DecayAssumption DEF Init, Number, NoState
  <2>2. QED
    BY <2>1, IdleIsJob DEF Init, TypeOK
<1>2. LinesAreAccepted /\ EventHasLine /\ LinesAreLoaded /\ NaNIsUnscorable
  BY DEF Init, LinesAreAccepted, EventHasLine, LinesAreLoaded, NaNIsUnscorable, Idle
<1>3. FirstMatch /\ FailureIsExplained
  BY DEF Init, FirstMatch, FailureIsExplained
<1>4. RiskIsBounded
  BY DecayAssumption DEF Init, RiskIsBounded, NoState
<1>5. SignalIsBounded
  BY DEF Init, SignalIsBounded, Idle
<1>6. QED
  BY <1>1, <1>2, <1>3, <1>4, <1>5 DEF Inv

LEMMA SubmitInv ==
    ASSUME Inv, NEW r \in Requests, SubmitMatchAggregates(r)
    PROVE  Inv'
<1> DEFINE n == FileOf[r.content.match]
           line == [at |-> clock, req |-> r]
<1>1. /\ n \in Matches /\ Accepted(r) /\ line \in Line
      /\ event \in [Requests -> {"none", "queued", "lost", "done", "failed"}]
      /\ file \in [Matches -> Seq(Line)]
  BY AcceptedContent DEF SubmitMatchAggregates, Inv, TypeOK, Line
<1>2. /\ event[r] = "none"
      /\ file' = [file EXCEPT ![n] = Append(@, line)]
      /\ \E how \in {"queued", "lost"} : event' = [event EXCEPT ![r] = how]
      /\ UNCHANGED <<clock, applied, risk, job, history>>
  BY DEF SubmitMatchAggregates
<1> HIDE DEF line, n
<1>3. file'[n] = Append(file[n], line) /\ file[n] \in Seq(Line)
      /\ \A x \in Matches : x # n => file'[x] = file[x]
  BY <1>1, <1>2
<1>4. /\ file' \in [Matches -> Seq(Line)]
      /\ DOMAIN file'[n] = 1..(Len(file[n]) + 1) /\ DOMAIN file[n] = 1..Len(file[n])
      /\ file'[n][Len(file[n]) + 1] = line
      /\ \A k \in DOMAIN file[n] : file'[n][k] = file[n][k]
  BY <1>1, <1>2, <1>3
<1>5. /\ \A x \in Matches : file[x] # <<>> => file'[x] # <<>>
      /\ \A x \in Matches : \A k \in DOMAIN file[x] :
            k \in DOMAIN file'[x] /\ file'[x][k] = file[x][k]
      /\ file'[n] # <<>>
  <2>1. Len(file[n]) \in Nat
    BY <1>3
  <2>2. \A k \in DOMAIN file[n] : k \in DOMAIN file'[n] /\ file'[n][k] = file[n][k]
    BY <1>4, <2>1
  <2>3. file'[n] # <<>>
    BY <1>4, <2>1
  <2>4. QED
    BY <1>3, <2>2, <2>3
<1>6. TypeOK'
  BY <1>1, <1>2, <1>4 DEF Inv, TypeOK
<1>7. LinesAreAccepted'
  <2> SUFFICES ASSUME NEW x \in Matches, NEW k \in DOMAIN file'[x]
               PROVE  Accepted(file'[x][k].req)
    BY DEF LinesAreAccepted
  <2>1. CASE x = n /\ k = Len(file[n]) + 1
    BY <1>1, <1>4, <2>1 DEF line
  <2>2. CASE x # n \/ k \in DOMAIN file[n]
    BY <1>3, <1>4, <2>2 DEF Inv, LinesAreAccepted
  <2>3. QED
    BY <1>3, <1>4, <2>1, <2>2
<1>8. EventHasLine'
  <2> SUFFICES ASSUME NEW q \in Requests, event'[q] # "none"
               PROVE  Accepted(q) /\ file'[FileOf[q.content.match]] # <<>>
    BY DEF EventHasLine
  <2>1. CASE q = r
    BY <1>1, <1>5, <2>1 DEF n
  <2>2. CASE q # r
    <3>1. Accepted(q) /\ file[FileOf[q.content.match]] # <<>>
      BY <1>1, <1>2, <2>2 DEF Inv, EventHasLine
    <3>2. QED
      BY <1>5, <3>1, AcceptedContent
  <2>3. QED
    BY <2>1, <2>2
<1>9. LinesAreLoaded'
  <2>1. \A m \in Matches, l \in Range(job.lines) : InFile(m, l) => InFile(m, l)'
    BY <1>5 DEF InFile
  <2>2. job.step # "idle" => job.req # r
    BY <1>2 DEF Inv, LinesAreLoaded
  <2>3. job.step # "idle" => event'[job.req] = event[job.req]
    BY <1>1, <1>2, <2>2 DEF Inv, LinesAreLoaded
  <2>4. QED
    BY <1>2, <2>1, <2>3 DEF Inv, LinesAreLoaded, Range, Current
<1>10. NaNIsUnscorable' /\ FirstMatch' /\ RiskIsBounded' /\ SignalIsBounded'
  BY <1>2 DEF Inv, NaNIsUnscorable, FirstMatch, RiskIsBounded, SignalIsBounded, Current, Unscorable
<1>11. FailureIsExplained'
  <2> SUFFICES ASSUME ConfigSchema \in {"", SchemaID}, NEW q \in Requests, event'[q] = "failed"
               PROVE  Explained(q)'
    BY DEF FailureIsExplained, Explained
  <2>1. event[q] = "failed"
    BY <1>1, <1>2
  <2>2. Explained(q) /\ q.content.match \in Matches
    BY <2>1, AcceptedContent DEF Inv, FailureIsExplained, EventHasLine, Explained
  <2>3. QED
    BY <1>5, <2>2 DEF Explained
<1>12. QED
  BY <1>6, <1>7, <1>8, <1>9, <1>10, <1>11 DEF Inv

LEMMA BeginInv ==
    ASSUME Inv, NEW r \in Requests, Begin(r)
    PROVE  Inv'
<1> DEFINE m == r.content.match
<1>1. event[r] = "queued" /\ UNCHANGED <<clock, file, applied, risk, history>>
  BY DEF Begin
<1>2. Accepted(r) /\ file[FileOf[m]] # <<>>
  BY <1>1 DEF Inv, EventHasLine
<1>3. m \in Matches /\ file[m] \in Seq(Line) /\ applied \subseteq Matches
  BY <1>2, AcceptedContent DEF Inv, TypeOK
<1>4. CASE Finish(r, "done")
  BY <1>1, <1>3, <1>4, FinishInv
<1>5. CASE file[m] = <<>> /\ Finish(r, "failed")
  BY <1>1, <1>2, <1>3, <1>5, FinishInv DEF Explained
<1>6. CASE /\ file[m] # <<>>
           /\ job' = [Idle EXCEPT !.step = "map", !.req = r, !.lines = file[m]]
           /\ UNCHANGED event
  <2>1. /\ job'.step = "map" /\ job'.req = r /\ job'.lines = file[m]
        /\ job'.i = 1 /\ job'.j = 1 /\ job' \in Job
    BY <1>3, <1>6, IdleIsJob DEF Idle, Job
  <2>2. TypeOK'
    BY <1>1, <1>6, <2>1 DEF Inv, TypeOK
  <2>3. LinesAreAccepted' /\ EventHasLine' /\ FirstMatch' /\ RiskIsBounded' /\ FailureIsExplained'
    BY <1>1, <1>6 DEF Inv, LinesAreAccepted, EventHasLine, FirstMatch, RiskIsBounded,
                      FailureIsExplained
  <2>4. LinesAreLoaded'
    <3>1. Len(file[m]) \in Nat /\ 1 <= Len(file[m])
      BY <1>3, <1>6
    <3>2. file[m][1] \in Line /\ Accepted(file[m][1].req)
      BY <1>3, <3>1 DEF Inv, LinesAreAccepted
    <3>3. file[m][1].req \in Requests
      BY <3>2 DEF Line
    <3>4. 1 \in DOMAIN file[m][1].req.content.players
      BY <3>2, <3>3, AcceptedContent
    <3>5. file' = file
      BY <1>1
    <3>6. (\A k \in DOMAIN job.lines : InFile(job.req.content.match, job.lines[k]))'
      BY <2>1, <3>5 DEF InFile
    <3>7. job'.i \in 1..(Len(job'.lines) + 1)
      BY <2>1, <3>1
    <3>8. event'[job'.req] = "queued" /\ job'.req \in Requests /\ job'.req.content.match \in Matches
      BY <1>1, <1>3, <1>6, <2>1
    <3>9. job'.j \in DOMAIN job'.lines[job'.i].req.content.players
      BY <2>1, <3>4
    <3>10. QED
      BY <2>1, <3>6, <3>7, <3>8, <3>9 DEF LinesAreLoaded
  <2>5. NaNIsUnscorable' /\ SignalIsBounded'
    BY <1>1, <2>1 DEF Inv, NaNIsUnscorable, SignalIsBounded
  <2>6. QED
    BY <2>2, <2>3, <2>4, <2>5 DEF Inv
<1>7. QED
  BY <1>4, <1>5, <1>6 DEF Begin

LEMMA MapEntryInv ==
    ASSUME Inv, MapEntry
    PROVE  Inv'
<1> DEFINE refused == \/ Current = Nil
                      \/ Current.ref = Nil
                      \/ Current.ref.player = ""
                      \/ ConfigSchema # "" /\ Current.schema # ConfigSchema
<1>1. job.step = "map" /\ job.i <= Len(job.lines)
  BY DEF MapEntry
<1>2. UNCHANGED <<clock, file, applied, risk, history>>
  BY DEF MapEntry
<1>3. CASE refused /\ Finish(job.req, "failed")
  <2>1. ConfigSchema \in {"", SchemaID} => Current.ref.player = ""
    BY <1>1, <1>3, CurrentIsAccepted
  <2>2. QED
    BY <1>1, <1>2, <1>3, <2>1, FailedOnUnscorable DEF Unscorable
<1>4. CASE /\ ~refused
           /\ job' = [job EXCEPT !.step = "rules", !.rules = Rules, !.value = 0]
           /\ UNCHANGED event
  <2>1. job \in Job
    BY DEF Inv, TypeOK
  <2>2. /\ job'.step = "rules" /\ job'.rules = Rules /\ job'.value = 0
        /\ job'.req = job.req /\ job'.lines = job.lines
        /\ job'.i = job.i /\ job'.j = job.j /\ job' \in Job
    <3>1. 0 \in Number
      BY DEF Number
    <3>2. QED
      BY <1>4, <2>1, <3>1 DEF Job
  <2>3. TypeOK'
    BY <1>2, <1>4, <2>2 DEF Inv, TypeOK
  <2>4. LinesAreAccepted' /\ EventHasLine' /\ FirstMatch' /\ RiskIsBounded' /\ FailureIsExplained'
    BY <1>2, <1>4 DEF Inv, LinesAreAccepted, EventHasLine, FirstMatch, RiskIsBounded,
                      FailureIsExplained
  <2>5. Current' = Current /\ Current.ref.player \in Players
    BY <1>1, <1>4, <2>2, CurrentIsAccepted DEF Current
  <2>6. LinesAreLoaded'
    <3>1. (\A k \in DOMAIN job.lines : InFile(job.req.content.match, job.lines[k]))'
      BY <1>1, <1>2, <2>2 DEF Inv, LinesAreLoaded, InFile
    <3>2. /\ job'.req \in Requests /\ job'.req.content.match \in Matches
          /\ event'[job'.req] = "queued"
          /\ job'.i \in 1..(Len(job'.lines) + 1) /\ job'.i <= Len(job'.lines)
          /\ job'.j \in DOMAIN job'.lines[job'.i].req.content.players
      BY <1>1, <1>4, <2>2 DEF Inv, LinesAreLoaded
    <3>3. QED
      BY <2>5, <3>1, <3>2 DEF LinesAreLoaded
  <2>7. NaNIsUnscorable'
    BY <2>2, NaNAssumption DEF NaNIsUnscorable
  <2>8. SignalIsBounded'
    <3>1. Cardinality(Rules \ Rules) = 0
      BY FS_EmptySet
    <3>2. 0 \in 0..(SignalCap * Cardinality(Rules \ Rules))
      BY <3>1, SignalAssumption
    <3>3. QED
      BY <1>2, <2>2, <3>2 DEF Inv, SignalIsBounded
  <2>9. QED
    BY <2>3, <2>4, <2>6, <2>7, <2>8 DEF Inv
<1>5. QED
  BY <1>2, <1>3, <1>4 DEF MapEntry

\* A rule adds at most one cap, or no number if its quantile is none.
LEMMA AddSignalInv ==
    ASSUME Inv, job.step = "rules", NEW rule \in job.rules, NEW x \in Number,
           AddSignal(rule, x), UNCHANGED <<clock, file, applied, risk, history>>,
           x = NaN => Unscorable(Current)
    PROVE  Inv'
<1> DEFINE room == SignalCap * Cardinality(Rules \ job.rules)
<1>1. job \in Job /\ job.rules \in SUBSET Rules /\ job.value \in Number
  BY DEF Inv, TypeOK, Job
<1>2. job' = [job EXCEPT !.rules = @ \ {rule}, !.value = Plus(@, SoftScore(x))] /\ UNCHANGED event
  BY DEF AddSignal
<1>3. job.value = NaN \/ job.value \in 0..room
  BY DEF Inv, SignalIsBounded
<1>4. SoftScore(x) = NaN \/ SoftScore(x) \in 0..SignalCap
  BY SoftScoreBounded
<1>5. /\ Cardinality(Rules \ job.rules) \in Nat
      /\ Cardinality(Rules \ (job.rules \ {rule})) = Cardinality(Rules \ job.rules) + 1
  BY <1>1, RoomForOneMore
<1>6. /\ room \in Nat
      /\ SignalCap * Cardinality(Rules \ (job.rules \ {rule})) = room + SignalCap
  <2>1. \A c, k \in Nat : c * k \in Nat /\ c * (k + 1) = c * k + c
    OBVIOUS
  <2>2. SignalCap \in Nat
    BY SignalAssumption
  <2>3. QED
    BY <1>5, <2>1, <2>2
<1> DEFINE new == Plus(job.value, SoftScore(x))
<1>7. new = NaN \/ new \in 0..(room + SignalCap)
  BY <1>3, <1>4, <1>6, SignalAssumption DEF Plus
<1>8. new = NaN => job.value = NaN \/ x = NaN
  BY <1>3, <1>4, <1>6, SignalAssumption, NaNAssumption, SoftScoreBounded DEF Plus
<1> HIDE DEF new, room
<1>9. new \in Number
  BY <1>6, <1>7, SignalAssumption DEF Number
<1>10. /\ job' \in Job /\ job'.step = "rules" /\ job'.rules = job.rules \ {rule}
       /\ job'.value = new /\ job'.req = job.req /\ job'.lines = job.lines
       /\ job'.i = job.i /\ job'.j = job.j
  BY <1>1, <1>2, <1>9 DEF Job, new
<1>11. TypeOK'
  BY <1>2, <1>10 DEF Inv, TypeOK
<1>12. LinesAreAccepted' /\ EventHasLine' /\ FirstMatch' /\ RiskIsBounded' /\ FailureIsExplained'
  BY <1>2 DEF Inv, LinesAreAccepted, EventHasLine, FirstMatch, RiskIsBounded, FailureIsExplained
<1>13. Current' = Current
  BY <1>10 DEF Current
<1>14. LinesAreLoaded'
  BY <1>2, <1>10, <1>13 DEF Inv, LinesAreLoaded, InFile
<1>15. NaNIsUnscorable'
  BY <1>8, <1>10, <1>13 DEF Inv, NaNIsUnscorable, Unscorable
<1>16. SignalIsBounded'
  BY <1>6, <1>7, <1>10 DEF Inv, SignalIsBounded
<1>17. QED
  BY <1>11, <1>12, <1>14, <1>15, <1>16 DEF Inv

LEMMA AddCounterInv ==
    ASSUME Inv, NEW c \in DOMAIN Counters, AddCounter(c)
    PROVE  Inv'
<1> DEFINE norm == Counters[c].normalization
           Scaled(raw) == (IF norm > 0 THEN raw \div norm ELSE raw) * Counters[c].weight
<1>1. /\ job.step = "rules" /\ <<"counter", c>> \in job.rules
      /\ UNCHANGED <<clock, file, applied, risk, history>>
  BY DEF AddCounter
<1>2. norm \in Int /\ Counters[c].weight \in Int
  BY RulesAssumption DEF CounterRules
<1>3. ASSUME NEW raw \in Nat
      PROVE  Scaled(raw) \in Number /\ Scaled(raw) # NaN
  <2>1. (IF norm > 0 THEN raw \div norm ELSE raw) \in Int
    BY <1>2
  <2>2. Scaled(raw) \in Int
    BY <1>2, <2>1
  <2> HIDE DEF Scaled
  <2>3. QED
    BY <2>2, NaNAssumption DEF Number
<1>4. CASE AddSignal(<<"counter", c>>, Scaled(0))
  <2> HIDE DEF Scaled
  <2>1. QED
    BY <1>1, <1>3, <1>4, AddSignalInv
<1>5. CASE \E i \in DOMAIN Current.counters :
             AddSignal(<<"counter", c>>, Scaled(Current.counters[i].value))
  <2>1. PICK i \in DOMAIN Current.counters :
               AddSignal(<<"counter", c>>, Scaled(Current.counters[i].value))
    BY <1>5
  <2>2. Current \in Entry
    BY <1>1, CurrentIsAccepted DEF Inv, LinesAreLoaded
  <2>3. Current.counters \in Seq([name : STRING, value : Nat])
    BY <2>2 DEF Entry
  <2>4. Current.counters[i] \in [name : STRING, value : Nat]
    BY <2>3, ElementIn
  <2>5. Current.counters[i].value \in Nat
    BY <2>4
  <2> HIDE DEF Scaled
  <2>6. QED
    BY <1>1, <1>3, <2>1, <2>5, AddSignalInv
<1>6. QED
  BY <1>4, <1>5 DEF AddCounter

LEMMA AddQuantileInv ==
    ASSUME Inv, NEW q \in DOMAIN Quantiles, AddQuantile(q)
    PROVE  Inv'
<1> DEFINE rule == Quantiles[q]
           Z(i) == ZScore(Current.quantiles[i].at[rule.pctl], rule.mean, rule.std)
<1>1. /\ job.step = "rules" /\ <<"quantile", q>> \in job.rules
      /\ UNCHANGED <<clock, file, applied, risk, history>>
  BY DEF AddQuantile
<1>2. job.i <= Len(job.lines) /\ Current \in Entry
  BY <1>1, CurrentIsAccepted DEF Inv, LinesAreLoaded
<1>3. Current.quantiles \in Seq([name : STRING, at : [Percentiles -> Number]])
  BY <1>2 DEF Entry
<1>4. rule.weight \in Int /\ rule.mean \in Int /\ rule.std \in Int
  BY RulesAssumption DEF QuantileRules
<1>5. CASE AddSignal(<<"quantile", q>>, 0)
  BY <1>1, <1>5, NaNAssumption, AddSignalInv DEF Number
<1>6. CASE Has(Current.quantiles, q) /\ rule.pctl \notin Percentiles /\ Finish(job.req, "failed")
  <2>1. Unscorable(Current)
    BY <1>6 DEF Has, Unscorable
  <2>2. QED
    BY <1>1, <1>2, <1>6, <2>1, FailedOnUnscorable
<1>7. CASE \E i \in DOMAIN Current.quantiles :
             /\ First(Current.quantiles, q, i) /\ rule.pctl \in Percentiles
             /\ AddSignal(<<"quantile", q>>, Times(Z(i), rule.weight))
  <2>1. PICK i \in DOMAIN Current.quantiles :
               /\ First(Current.quantiles, q, i) /\ rule.pctl \in Percentiles
               /\ AddSignal(<<"quantile", q>>, Times(Z(i), rule.weight))
    BY <1>7
  <2> DEFINE v == Current.quantiles[i].at[rule.pctl]
  <2>2. Current.quantiles[i] \in [name : STRING, at : [Percentiles -> Number]]
    BY <1>3, ElementIn
  <2>3. v \in Number
    BY <2>1, <2>2
  <2>4. /\ Z(i) \in Number
        /\ Z(i) = NaN => v = NaN
    <3> HIDE DEF v
    <3>1. CASE rule.std <= 0
      BY <3>1, NaNAssumption DEF ZScore, Number, v
    <3>2. CASE rule.std > 0 /\ v = NaN
      BY <1>4, <3>2 DEF ZScore, Number, v
    <3>3. CASE rule.std > 0 /\ v \in Int /\ v # NaN
      <4>1. (v - rule.mean) \div rule.std \in Int
        BY <1>4, <3>3
      <4>2. Z(i) = (v - rule.mean) \div rule.std
        BY <1>4, <3>3 DEF ZScore, v
      <4>3. QED
        BY <4>1, <4>2, NaNAssumption DEF Number
    <3>4. QED
      BY <1>4, <2>3, <3>1, <3>2, <3>3 DEF Number
  <2> HIDE DEF Z
  <2>5. /\ Times(Z(i), rule.weight) \in Number
        /\ Times(Z(i), rule.weight) = NaN => Z(i) = NaN
    <3>1. CASE Z(i) = NaN
      BY <3>1 DEF Times, Number
    <3>2. CASE Z(i) # NaN /\ Z(i) \in Int
      <4>1. Z(i) * rule.weight \in Int
        BY <1>4, <3>2
      <4>2. Times(Z(i), rule.weight) = Z(i) * rule.weight
        BY <3>2 DEF Times
      <4>3. QED
        BY <4>1, <4>2, NaNAssumption DEF Number
    <3>3. QED
      BY <2>4, <3>1, <3>2 DEF Number
  <2>6. v = NaN => Unscorable(Current)
    BY <2>1 DEF First, Unscorable
  <2>7. QED
    BY <1>1, <2>1, <2>4, <2>5, <2>6, AddSignalInv
<1>8. QED
  BY <1>5, <1>6, <1>7 DEF AddQuantile

LEMMA SavePlayerInv ==
    ASSUME Inv, SavePlayer
    PROVE  Inv'
<1> DEFINE p == Current.ref.player
           at == job.lines[job.i].at
           prev == IF risk[p] = NoState THEN [NoState EXCEPT !.last = clock] ELSE risk[p]
           next == ApplyMatchRisk(prev, job.value, at)
           players == job.lines[job.i].req.content.players
           last == job.j = Len(players)
<1>1. /\ job.step = "rules" /\ job.rules = {}
      /\ UNCHANGED <<clock, file, applied>>
  BY DEF SavePlayer
<1>2. /\ clock \in 0..MaxTime /\ job \in Job /\ job.value \in Number
      /\ risk \in [Players -> [total : Number, last : -1..MaxTime]]
      /\ history \in [Players -> Seq([at : 0..MaxTime, value : Number])]
  BY DEF Inv, TypeOK, Job
<1>3. job.i <= Len(job.lines) /\ p \in Players
  BY <1>1 DEF Inv, LinesAreLoaded
<1>4. /\ at \in 0..MaxTime
      /\ players \in Seq(Entry \cup {Nil}) /\ job.j \in DOMAIN players
  <2>1. /\ job.lines[job.i] \in Line
        /\ players \in Seq(Entry \cup {Nil}) /\ job.j \in DOMAIN players
    BY <1>1, <1>3, CurrentIsAccepted
  <2>2. QED
    BY <2>1 DEF Line
<1>5. prev \in [total : 0..RiskCap, last : 0..MaxTime]
  <2>1. CASE risk[p] = NoState
    BY <1>2, <2>1, DecayAssumption DEF NoState
  <2>2. CASE risk[p] # NoState
    <3>1. risk[p] \in [total : Number, last : -1..MaxTime] /\ risk[p].total \in 0..RiskCap
          /\ risk[p].last # -1
      BY <1>2, <1>3, <2>2 DEF Inv, RiskIsBounded, FirstMatch
    <3>2. risk[p].last \in 0..MaxTime
      BY <3>1, DecayAssumption
    <3>3. QED
      BY <2>2, <3>1, <3>2
  <2>3. QED
    BY <2>1, <2>2
<1> HIDE DEF prev, at
<1>6. /\ job.value # NaN => next.total \in 0..RiskCap
      /\ next.total = NaN => job.value = NaN
      /\ next.last = at
  BY <1>2, <1>4, <1>5, ApplyMatchRiskBounded
<1>7. next.total # NaN => job.value # NaN
  BY DEF ApplyMatchRisk, Plus
<1>8. CASE next.total = NaN /\ Finish(job.req, "failed") /\ UNCHANGED <<risk, history>>
  <2>1. Unscorable(Current)
    BY <1>1, <1>6, <1>8 DEF Inv, NaNIsUnscorable
  <2>2. QED
    BY <1>1, <1>3, <1>8, <2>1, FailedOnUnscorable
<1>9. CASE /\ next.total # NaN
           /\ risk' = [risk EXCEPT ![p] = next]
           /\ history' = [history EXCEPT ![p] = Append(@, [at |-> at, value |-> job.value])]
           /\ job' = [job EXCEPT !.step = "map", !.i = IF last THEN @ + 1 ELSE @,
                                 !.j = IF last THEN 1 ELSE @ + 1]
           /\ UNCHANGED event
  <2>1. next \in [total : Number, last : -1..MaxTime] /\ next.total \in 0..RiskCap
        /\ next.last # -1
    <3>1. next.total \in 0..RiskCap /\ next.total \in Number
      BY <1>6, <1>7, <1>9, DecayAssumption DEF Number
    <3>2. next.last \in -1..MaxTime /\ next.last # -1
      BY <1>4, <1>6, DecayAssumption
    <3>3. next = [total |-> next.total, last |-> next.last]
      BY DEF ApplyMatchRisk
    <3> HIDE DEF next
    <3>4. QED
      BY <3>1, <3>2, <3>3
  <2> HIDE DEF next
  <2>2. /\ risk' \in [Players -> [total : Number, last : -1..MaxTime]]
        /\ \A x \in Players : risk'[x] = IF x = p THEN next ELSE risk[x]
    BY <1>2, <1>9, <2>1
  <2>3. job.value \in 0..(SignalCap * Cardinality(Rules))
    <3>1. Rules \ {} = Rules
      OBVIOUS
    <3>2. QED
      BY <1>1, <1>7, <1>9, <3>1 DEF Inv, SignalIsBounded, next
  <2> DEFINE new == [at |-> at, value |-> job.value]
  <2>4. /\ history' \in [Players -> Seq([at : 0..MaxTime, value : Number])]
        /\ \A x \in Players : history'[x] = IF x = p THEN Append(history[x], new) ELSE history[x]
    <3>1. new \in [at : 0..MaxTime, value : Number]
      BY <1>2, <1>4
    <3> HIDE DEF new
    <3>2. history[p] \in Seq([at : 0..MaxTime, value : Number])
      BY <1>2, <1>3
    <3>3. Append(history[p], new) \in Seq([at : 0..MaxTime, value : Number])
      BY <3>1, <3>2, Appended
    <3>4. history' = [history EXCEPT ![p] = Append(@, new)]
      BY <1>9 DEF new
    <3>5. QED
      BY <1>2, <3>3, <3>4
  <2>5. /\ job'.step = "map" /\ job'.req = job.req /\ job'.lines = job.lines
        /\ job'.i = IF last THEN job.i + 1 ELSE job.i
        /\ job'.j = IF last THEN 1 ELSE job.j + 1
        /\ job' \in Job
    <3>1. /\ job.i \in Nat /\ job.j \in Nat /\ job.i + 1 \in Nat /\ job.j + 1 \in Nat
          /\ job' = [job EXCEPT !.step = "map", !.i = IF last THEN job.i + 1 ELSE job.i,
                                !.j = IF last THEN 1 ELSE job.j + 1]
      BY <1>2, <1>9 DEF Job
    <3> HIDE DEF players
    <3>2. CASE last
      <4>1. job' = [job EXCEPT !.step = "map", !.i = job.i + 1, !.j = 1]
        BY <3>1, <3>2
      <4>2. /\ job'.step = "map" /\ job'.req = job.req /\ job'.lines = job.lines
            /\ job'.i = job.i + 1 /\ job'.j = 1
        BY <1>2, <4>1 DEF Job
      <4>3. job' \in Job
        <5>1. job \in Job /\ job.i + 1 \in Nat
          BY <1>2, <3>1
        <5>2. QED
          BY <4>1, <5>1 DEF Job
      <4>4. QED
        BY <3>2, <4>2, <4>3
    <3>3. CASE ~last
      <4>1. job' = [job EXCEPT !.step = "map", !.j = job.j + 1]
        BY <1>2, <3>1, <3>3 DEF Job
      <4>2. QED
        BY <1>2, <3>1, <3>3, <4>1 DEF Job
    <3>4. QED
      BY <3>2, <3>3
  <2>6. TypeOK'
    BY <1>1, <1>9, <2>2, <2>4, <2>5 DEF Inv, TypeOK
  <2>7. LinesAreAccepted' /\ EventHasLine' /\ FailureIsExplained'
    BY <1>1, <1>9 DEF Inv, LinesAreAccepted, EventHasLine, FailureIsExplained
  <2>8. NaNIsUnscorable'
    BY <2>5 DEF NaNIsUnscorable
  <2>9. FirstMatch' /\ RiskIsBounded'
    BY <2>1, <2>2 DEF Inv, FirstMatch, RiskIsBounded
  <2>10. SignalIsBounded'
    <3> SUFFICES ASSUME NEW x \in Players, NEW i \in DOMAIN history'[x]
                 PROVE  history'[x][i].value \in 0..(SignalCap * Cardinality(Rules))
      BY <2>5 DEF SignalIsBounded
    <3>1. history[x] \in Seq([at : 0..MaxTime, value : Number])
      BY <1>2
    <3> DEFINE longer == Append(history[x], new)
    <3>2. new \in [at : 0..MaxTime, value : Number]
      BY <1>2, <1>4
    <3>3. /\ longer[Len(history[x]) + 1] = new
          /\ i \in DOMAIN longer /\ i # Len(history[x]) + 1
                => i \in DOMAIN history[x] /\ longer[i] = history[x][i]
      <4> HIDE DEF new
      <4>1. QED
        BY <3>1, <3>2, Appended
    <3>4. history'[x] = IF x = p THEN longer ELSE history[x]
      BY <2>4
    <3>5. CASE x = p /\ i = Len(history[x]) + 1
      <4>1. history'[x][i] = new
        <5> HIDE DEF new, longer
        <5>1. QED
          BY <3>5, <3>3, <3>4
      <4>2. QED
        BY <2>3, <4>1
    <3>6. CASE x # p \/ i # Len(history[x]) + 1
      <4>1. i \in DOMAIN history[x] /\ history'[x][i] = history[x][i]
        <5> HIDE DEF new, longer
        <5>1. QED
          BY <3>6, <3>3, <3>4
      <4>2. QED
        BY <4>1 DEF Inv, SignalIsBounded
    <3>7. QED
      BY <3>5, <3>6
  <2>11. LinesAreLoaded'
    <3>1. (\A k \in DOMAIN job.lines : InFile(job.req.content.match, job.lines[k]))'
      BY <1>1, <2>5 DEF Inv, LinesAreLoaded, InFile
    <3>2. /\ job'.req \in Requests /\ job'.req.content.match \in Matches
          /\ event'[job'.req] = "queued"
      BY <1>1, <1>9, <2>5 DEF Inv, LinesAreLoaded
    <3>3. job.i \in 1..Len(job.lines) /\ job.lines \in Seq(Line)
      BY <1>1, <1>2, <1>3 DEF Inv, LinesAreLoaded, Job
    <3>4. job'.i \in 1..(Len(job'.lines) + 1)
      BY <2>5, <3>3
    <3>5. ASSUME job'.i <= Len(job'.lines)
          PROVE  job'.j \in DOMAIN job'.lines[job'.i].req.content.players
      <4>1. CASE last
        <5>1. job.i + 1 \in DOMAIN job.lines
          BY <2>5, <3>3, <3>5, <4>1
        <5>2. job.lines[job.i + 1] \in Line /\ Accepted(job.lines[job.i + 1].req)
          <6>1. InFile(job.req.content.match, job.lines[job.i + 1]) /\ job.req.content.match \in Matches
            BY <1>1, <5>1 DEF Inv, LinesAreLoaded
          <6>2. QED
            BY <3>3, <5>1, <6>1, ElementIn DEF Inv, LinesAreAccepted, InFile
        <5>3. job.lines[job.i + 1].req \in Requests
          BY <5>2 DEF Line
        <5>4. 1 \in DOMAIN job.lines[job.i + 1].req.content.players
          BY <5>2, <5>3, AcceptedContent
        <5>5. QED
          BY <2>5, <4>1, <5>4
      <4>2. CASE ~last
        <5>1. job.j + 1 \in DOMAIN players
          BY <1>4, <4>2 DEF last
        <5>2. QED
          BY <2>5, <4>2, <5>1
      <4>3. QED
        BY <4>1, <4>2
    <3>6. QED
      BY <2>5, <3>1, <3>2, <3>4, <3>5 DEF LinesAreLoaded
  <2>12. QED
    BY <2>6, <2>7, <2>8, <2>9, <2>10, <2>11 DEF Inv
<1>10. QED
  BY <1>8, <1>9 DEF SavePlayer, prev, at

LEMMA MarkAppliedInv ==
    ASSUME Inv, MarkApplied
    PROVE  Inv'
<1>1. /\ job.req \in Requests /\ job.req.content.match \in Matches
      /\ event[job.req] = "queued" /\ applied \subseteq Matches
  BY DEF MarkApplied, Inv, LinesAreLoaded, TypeOK
<1>2. QED
  BY <1>1, FinishInv DEF MarkApplied

LEMMA InvNext == Inv /\ [Next]_vars => Inv'
<1> SUFFICES ASSUME Inv, [Next]_vars PROVE Inv'
  OBVIOUS
<1>1. CASE Tick
  <2>1. /\ clock' = clock + 1 /\ clock < MaxTime
        /\ UNCHANGED <<file, event, applied, risk, job, history>>
    BY <1>1 DEF Tick
  <2>2. TypeOK'
    <3>1. clock' \in 0..MaxTime
      BY <2>1, DecayAssumption DEF Inv, TypeOK
    <3>2. QED
      BY <2>1, <3>1 DEF Inv, TypeOK
  <2>3. LinesAreAccepted' /\ EventHasLine' /\ FirstMatch' /\ RiskIsBounded'
    BY <2>1 DEF Inv, LinesAreAccepted, EventHasLine, FirstMatch, RiskIsBounded
  <2>4. LinesAreLoaded' /\ NaNIsUnscorable'
    BY <2>1 DEF Inv, LinesAreLoaded, NaNIsUnscorable, InFile, Current, Unscorable
  <2>5. SignalIsBounded' /\ FailureIsExplained'
    BY <2>1 DEF Inv, SignalIsBounded, FailureIsExplained
  <2>6. QED
    BY <2>2, <2>3, <2>4, <2>5 DEF Inv
<1>2. CASE \E r \in Requests : SubmitMatchAggregates(r) \/ Begin(r)
  BY <1>2, SubmitInv, BeginInv
<1>3. CASE MapEntry
  BY <1>3, MapEntryInv
<1>4. CASE \E c \in DOMAIN Counters : AddCounter(c)
  BY <1>4, AddCounterInv
<1>5. CASE \E q \in DOMAIN Quantiles : AddQuantile(q)
  BY <1>5, AddQuantileInv
<1>6. CASE SavePlayer
  BY <1>6, SavePlayerInv
<1>7. CASE MarkApplied
  BY <1>7, MarkAppliedInv
<1>8. CASE UNCHANGED vars
  <2>1. UNCHANGED <<clock, file, event, applied, risk, job, history>>
    BY <1>8 DEF vars
  <2>2. TypeOK' /\ LinesAreAccepted' /\ EventHasLine' /\ FirstMatch' /\ RiskIsBounded'
    BY <2>1 DEF Inv, TypeOK, LinesAreAccepted, EventHasLine, FirstMatch, RiskIsBounded
  <2>3. LinesAreLoaded' /\ NaNIsUnscorable'
    BY <2>1 DEF Inv, LinesAreLoaded, NaNIsUnscorable, InFile, Current, Unscorable
  <2>4. SignalIsBounded' /\ FailureIsExplained'
    BY <2>1 DEF Inv, SignalIsBounded, FailureIsExplained
  <2>5. QED
    BY <2>2, <2>3, <2>4 DEF Inv
<1>9. QED
  BY <1>1, <1>2, <1>3, <1>4, <1>5, <1>6, <1>7, <1>8 DEF Next

LEMMA Invariance == Spec => []Inv
<1>1. QED
  BY InvInit, InvNext, PTL DEF Spec

-----------------------------------------------------------------------------
(* What a risk is worth.  Only SavePlayer touches risk and history, so this
   part of the invariant stands on the other without being a part of it. *)

(* A player's date is that of the match that was scored last. *)
LastIsLast ==
    \A p \in Players :
        IF history[p] = <<>> THEN risk[p] = NoState
        ELSE risk[p].last = history[p][Len(history[p])].at

WorthInv == LastIsLast /\ NeverOverstated /\ InOrderIsExact

\* An entry of a history.
Scored == [at : 0..MaxTime, value : Nat]

LEMMA ElapsedType ==
    ASSUME NEW a \in 0..MaxTime, NEW b \in 0..MaxTime
    PROVE  Elapsed(a, b) \in 0..MaxTime /\ Keep[Elapsed(a, b)] \in 0..Unit
<1>1. Elapsed(a, b) \in 0..MaxTime
  BY DecayAssumption DEF Elapsed
<1>2. QED
  BY <1>1, DecayAssumption

\* What has decayed longer is worth less.
LEMMA KeepFalls ==
    ASSUME NEW a \in 0..MaxTime, NEW b \in 0..MaxTime, a <= b
    PROVE  Keep[b] <= Keep[a]
<1>1. b - a \in 0..MaxTime /\ a + (b - a) = b /\ b <= MaxTime
  BY DecayAssumption
<1>2. Keep[a] * Keep[b - a] = Unit * Keep[b]
  BY <1>1, PowerAssumption
<1>3. Keep[a] \in 0..Unit /\ Keep[b - a] \in 0..Unit /\ Keep[b] \in 0..Unit /\ Unit \in Nat \ {0}
  BY <1>1, DecayAssumption
<1> DEFINE x == Keep[a]
           y == Keep[b - a]
           z == Keep[b]
<1> HIDE DEF x, y, z
<1>4. x * y <= Unit * x
  BY <1>3 DEF x, y
<1>5. Unit * z <= Unit * x
  BY <1>2, <1>4 DEF x, y, z
<1>6. QED
  BY <1>3, <1>5, Cancel DEF x, z

\* Decay up to a date and from there on is no less than decay in one go, and
\* the same if the dates are in order.
LEMMA DecayInTwo ==
    ASSUME NEW a \in 0..MaxTime, NEW l \in 0..MaxTime, NEW t \in 0..MaxTime
    PROVE  /\ Keep[Elapsed(a, l)] * Keep[Elapsed(l, t)] <= Unit * Keep[Elapsed(a, t)]
           /\ a <= l /\ l <= t =>
                 Keep[Elapsed(a, l)] * Keep[Elapsed(l, t)] = Unit * Keep[Elapsed(a, t)]
<1> DEFINE x == Keep[Elapsed(a, l)]
           y == Keep[Elapsed(l, t)]
           z == Keep[Elapsed(a, t)]
<1>1. x \in 0..Unit /\ y \in 0..Unit /\ z \in 0..Unit /\ Unit \in Nat
  BY ElapsedType, DecayAssumption
<1>2. /\ Elapsed(a, l) \in 0..MaxTime /\ Elapsed(l, t) \in 0..MaxTime
      /\ Elapsed(a, t) \in 0..MaxTime
  BY ElapsedType
<1>3. CASE a <= l /\ l <= t
  <2>1. Elapsed(a, l) + Elapsed(l, t) = Elapsed(a, t) /\ Elapsed(a, t) <= MaxTime
    BY <1>3, DecayAssumption DEF Elapsed
  <2>2. x * y = Unit * z
    BY <1>2, <2>1, PowerAssumption
  <2>3. Unit * z \in Int
    BY <1>1
  <2> HIDE DEF x, y, z
  <2>4. x * y <= Unit * z
    BY <2>2, <2>3
  <2>5. QED
    BY <2>2, <2>4 DEF x, y, z
<1>4. CASE l < a /\ l <= t
  <2>1. Elapsed(a, l) = 0 /\ Elapsed(a, t) <= Elapsed(l, t)
    BY <1>4, DecayAssumption DEF Elapsed
  <2>2. x = Unit /\ y <= z
    BY <1>2, <2>1, KeepFalls, PowerAssumption
  <2> HIDE DEF x, y, z
  <2>3. x * y <= Unit * z
    BY <1>1, <2>2
  <2>4. QED
    BY <1>4, <2>3 DEF x, y, z
<1>5. CASE t < l
  <2>1. Elapsed(l, t) = 0 /\ Elapsed(a, t) <= Elapsed(a, l)
    BY <1>5, DecayAssumption DEF Elapsed
  <2>2. y = Unit /\ x <= z
    BY <1>2, <2>1, KeepFalls, PowerAssumption
  <2> HIDE DEF x, y, z
  <2>3. x * y <= Unit * z
    BY <1>1, <2>2
  <2>4. QED
    BY <1>5, <2>3 DEF x, y, z
<1>6. QED
  BY <1>3, <1>4, <1>5

\* What Worth adds up.
Terms(h, t) == [i \in DOMAIN h |-> h[i].value * Keep[Elapsed(h[i].at, t)]]

LEMMA TermsType ==
    ASSUME NEW h \in Seq(Scored), NEW t \in 0..MaxTime
    PROVE  /\ Terms(h, t) \in [1..Len(h) -> Nat]
           /\ Len(h) \in Nat /\ DOMAIN h = 1..Len(h) /\ IsFiniteSet(DOMAIN h)
           /\ Worth(h, t) = SumFunctionOnSet(Terms(h, t), DOMAIN h)
           /\ Worth(h, t) \in Nat
           /\ \A i \in DOMAIN h : /\ h[i] \in Scored /\ Keep[Elapsed(h[i].at, t)] \in 0..Unit
                                  /\ Terms(h, t)[i] = h[i].value * Keep[Elapsed(h[i].at, t)]
<1>1. Len(h) \in Nat /\ DOMAIN h = 1..Len(h) /\ \A i \in DOMAIN h : h[i] \in Scored
  OBVIOUS
<1>2. IsFiniteSet(DOMAIN h)
  BY <1>1, FS_Interval
<1>3. \A i \in DOMAIN h : h[i].value \in Nat /\ Keep[Elapsed(h[i].at, t)] \in 0..Unit
  BY <1>1, ElapsedType DEF Scored
<1>4. \A i \in DOMAIN h : h[i].value * Keep[Elapsed(h[i].at, t)] \in Nat
  <2>1. \A x \in Nat, y \in 0..Unit : x * y \in Nat
    BY DecayAssumption
  <2>2. QED
    BY <1>3, <2>1
<1>5. Terms(h, t) \in [1..Len(h) -> Nat]
  BY <1>1, <1>4 DEF Terms
<1>6. DOMAIN Terms(h, t) = DOMAIN h
  BY DEF Terms
<1>7. Worth(h, t) = SumFunctionOnSet(Terms(h, t), DOMAIN h)
  BY <1>6 DEF Worth, SumFunction, Terms
<1>8. SumFunctionOnSet(Terms(h, t), DOMAIN h) \in Nat
  BY <1>1, <1>2, <1>5, SumNat
<1>9. QED
  BY <1>1, <1>2, <1>3, <1>5, <1>7, <1>8 DEF Terms

\* A history decays no less match by match than as a whole, and the same if no
\* date is ahead.
LEMMA WorthDecays ==
    ASSUME NEW h \in Seq(Scored), NEW l \in 0..MaxTime, NEW t \in 0..MaxTime
    PROVE  /\ Keep[Elapsed(l, t)] * Worth(h, l) <= Unit * Worth(h, t)
           /\ (\A i \in DOMAIN h : h[i].at <= l /\ l <= t) =>
                 Keep[Elapsed(l, t)] * Worth(h, l) = Unit * Worth(h, t)
<1> DEFINE c == Keep[Elapsed(l, t)]
           g == Terms(h, l)
           k == Terms(h, t)
           S == DOMAIN h
<1>1. c \in Int /\ Unit \in Int /\ IsFiniteSet(S)
  <2>1. c \in 0..Unit /\ Unit \in Nat
    BY ElapsedType, DecayAssumption
  <2>2. IsFiniteSet(S)
    BY TermsType
  <2>3. QED
    BY <2>1, <2>2
<1>2. ASSUME NEW i \in S
      PROVE  /\ g[i] \in Int /\ k[i] \in Int
             /\ c * g[i] <= Unit * k[i]
             /\ h[i].at <= l /\ l <= t => c * g[i] = Unit * k[i]
  <2> DEFINE v == h[i].value
             x == Keep[Elapsed(h[i].at, l)]
             z == Keep[Elapsed(h[i].at, t)]
  <2>1. h[i].at \in 0..MaxTime /\ v \in Nat
    BY TermsType DEF Scored
  <2>2. /\ x * c <= Unit * z
        /\ h[i].at <= l /\ l <= t => x * c = Unit * z
    BY <2>1, DecayInTwo
  <2>3. g[i] = v * x /\ k[i] = v * z
    BY TermsType
  <2>4. x \in 0..Unit /\ z \in 0..Unit /\ c \in 0..Unit /\ Unit \in Nat
    BY <2>1, ElapsedType, DecayAssumption
  <2>5. ASSUME NEW a \in Nat, NEW b \in Nat, NEW d \in Nat, NEW e \in Nat, NEW u \in Nat
        PROVE  /\ d * (a * b) = a * (b * d) /\ u * (a * e) = a * (u * e)
               /\ b * d <= u * e => a * (b * d) <= a * (u * e)
    <3>1. d * (a * b) = a * (b * d) /\ u * (a * e) = a * (u * e)
      OBVIOUS
    <3>2. \A p, q \in Nat : p <= q => a * p <= a * q
      OBVIOUS
    <3>3. b * d \in Nat /\ u * e \in Nat
      OBVIOUS
    <3>4. QED
      BY <3>1, <3>2, <3>3
  <2> HIDE DEF v, x, z, c, g, k
  <2>6. x \in Nat /\ z \in Nat /\ c \in Nat
    BY <2>4
  <2>7. g[i] \in Int /\ k[i] \in Int
    BY <2>1, <2>3, <2>6
  <2>8. c * g[i] = v * (x * c) /\ Unit * k[i] = v * (Unit * z)
        /\ v * (x * c) <= v * (Unit * z)
    BY <2>1, <2>2, <2>3, <2>4, <2>5, <2>6
  <2>9. QED
    BY <2>2, <2>7, <2>8
<1> HIDE DEF c, g, k
<1>3. Worth(h, l) = SumFunctionOnSet(g, S) /\ Worth(h, t) = SumFunctionOnSet(k, S)
  BY TermsType DEF g, k
<1> HIDE DEF S
<1>4. c * SumFunctionOnSet(g, S) <= Unit * SumFunctionOnSet(k, S)
  BY <1>1, <1>2, SumMonotone
<1>5. ASSUME \A i \in S : h[i].at <= l /\ l <= t
      PROVE  c * SumFunctionOnSet(g, S) = Unit * SumFunctionOnSet(k, S)
  <2>1. \A i \in S : g[i] \in Int /\ k[i] \in Int /\ c * g[i] = Unit * k[i]
    BY <1>2, <1>5
  <2>2. QED
    BY <1>1, <2>1, SumProportional
<1>6. QED
  BY <1>3, <1>4, <1>5 DEF c, S

\* A match that is scored adds its value to what the history is worth then.
LEMMA WorthAppended ==
    ASSUME NEW h \in Seq(Scored), NEW t \in 0..MaxTime, NEW v \in Nat
    PROVE  LET more == Append(h, [at |-> t, value |-> v])
           IN  /\ more \in Seq(Scored)
               /\ Worth(more, t) = Worth(h, t) + Unit * v
<1> DEFINE new == [at |-> t, value |-> v]
           more == Append(h, new)
           n == Len(h)
<1>1. new \in Scored /\ new.at = t /\ new.value = v
  BY DEF Scored
<1> HIDE DEF new
<1>2. /\ more \in Seq(Scored) /\ Len(more) = n + 1
      /\ \A i \in 1..n : more[i] = h[i]
      /\ more[n + 1] = new
  BY <1>1
<1> HIDE DEF more
<1>3. /\ Terms(h, t) \in [1..n -> Int] /\ n \in Nat /\ DOMAIN h = 1..n
      /\ \A i \in 1..n : Terms(h, t)[i] = h[i].value * Keep[Elapsed(h[i].at, t)]
  BY TermsType
<1>4. /\ Terms(more, t) \in [1..(n + 1) -> Int]
      /\ \A i \in 1..(n + 1) : Terms(more, t)[i] = more[i].value * Keep[Elapsed(more[i].at, t)]
  BY <1>2, TermsType
<1>5. \A i \in 1..n : Terms(h, t)[i] = Terms(more, t)[i]
  BY <1>2, <1>3, <1>4
<1>6. Terms(more, t)[n + 1] = v * Keep[0]
  <2>1. Elapsed(t, t) = 0
    BY DecayAssumption DEF Elapsed
  <2>2. QED
    BY <1>1, <1>2, <1>3, <1>4, <2>1
<1>7. SumFunction(Terms(more, t)) = SumFunction(Terms(h, t)) + Terms(more, t)[n + 1]
  BY <1>3, <1>4, <1>5, SumExtended
<1>8. Worth(more, t) = SumFunction(Terms(more, t)) /\ Worth(h, t) = SumFunction(Terms(h, t))
  BY DEF Worth, Terms
<1>9. v * Keep[0] = Unit * v
  BY PowerAssumption, DecayAssumption
<1>10. QED
  BY <1>2, <1>6, <1>7, <1>8, <1>9 DEF more, new

\* One match keeps NeverOverstated.
LEMMA ScoreNeverOverstates ==
    ASSUME NEW h \in Seq(Scored), NEW prev \in [total : 0..RiskCap, last : 0..MaxTime],
           NEW v \in Nat, NEW now \in 0..MaxTime,
           prev.total * Unit <= Worth(h, prev.last)
    PROVE  ApplyMatchRisk(prev, v, now).total * Unit
              <= Worth(Append(h, [at |-> now, value |-> v]), now)
<1> DEFINE k == Keep[Elapsed(prev.last, now)]
           d == (prev.total * k) \div Unit
           w == Worth(h, prev.last)
           x == Worth(h, now)
           next == ApplyMatchRisk(prev, v, now).total
           T == prev.total
<1>1. /\ k \in 0..Unit /\ Unit \in Nat \ {0} /\ T \in 0..RiskCap /\ RiskCap \in Nat
      /\ w \in Nat /\ x \in Nat
  BY ElapsedType, DecayAssumption, TermsType
<1>2. k * w <= Unit * x
  BY WorthDecays
<1>3. Worth(Append(h, [at |-> now, value |-> v]), now) = x + Unit * v
  BY WorthAppended
<1>4. next = IF Plus(d, v) = NaN THEN NaN
             ELSE IF Plus(d, v) < 0 THEN 0
             ELSE IF Plus(d, v) > RiskCap THEN RiskCap ELSE Plus(d, v)
  BY DEF ApplyMatchRisk
<1>5. T * Unit <= w
  OBVIOUS
<1> HIDE DEF k, w, x, next, T
<1>6. T * k <= x
  <2>1. k * (T * Unit) <= k * w
    BY <1>1, <1>5
  <2>2. k * (T * Unit) = Unit * (T * k)
    BY <1>1
  <2>3. Unit * (T * k) <= Unit * x
    BY <1>1, <1>2, <2>1, <2>2
  <2>4. T * k \in Nat
    BY <1>1
  <2>5. QED
    BY <1>1, <2>3, <2>4, Cancel
<1>7. d \in Nat /\ Unit * d <= T * k
  <2>1. T * k \in Nat
    BY <1>1
  <2> DEFINE y == T * k
  <2>2. y \in Nat /\ d = y \div Unit
    BY <2>1 DEF T
  <2> HIDE DEF y, d
  <2>3. d \in Nat /\ Unit * d <= y
    BY <1>1, <2>2, Floor
  <2>4. QED
    BY <2>3 DEF y
<1> HIDE DEF d
<1>8. next \in Nat /\ next <= d + v
  BY <1>1, <1>4, <1>7, NaNAssumption DEF Plus
<1>9. next * Unit <= Unit * d + Unit * v
  <2>1. next * Unit <= (d + v) * Unit
    BY <1>1, <1>7, <1>8
  <2>2. (d + v) * Unit = Unit * d + Unit * v
    BY <1>1, <1>7
  <2>3. QED
    BY <2>1, <2>2
<1>10. next * Unit <= x + Unit * v
  <2>1. T * k \in Nat /\ Unit * d \in Nat /\ Unit * v \in Nat /\ next * Unit \in Nat
    BY <1>1, <1>7, <1>8
  <2>2. QED
    BY <1>1, <1>6, <1>7, <1>9, <2>1
<1>11. QED
  BY <1>3, <1>10 DEF next

\* One match keeps InOrderIsExact.
LEMMA ScoreIsExact ==
    ASSUME NEW h \in Seq(Scored), NEW prev \in [total : 0..RiskCap, last : 0..MaxTime],
           NEW v \in Nat, NEW now \in 0..MaxTime,
           prev.total * Unit = Worth(h, prev.last),
           \A i \in DOMAIN h : h[i].at <= prev.last /\ prev.last <= now,
           Uncapped(Append(h, [at |-> now, value |-> v])),
           Divisible(Append(h, [at |-> now, value |-> v]))
    PROVE  ApplyMatchRisk(prev, v, now).total * Unit
              = Worth(Append(h, [at |-> now, value |-> v]), now)
<1> DEFINE new == [at |-> now, value |-> v]
           more == Append(h, new)
           n == Len(h)
           k == Keep[Elapsed(prev.last, now)]
           d == (prev.total * k) \div Unit
           w == Worth(h, prev.last)
           x == Worth(h, now)
           next == ApplyMatchRisk(prev, v, now).total
           T == prev.total
           sum == SumFunction([i \in DOMAIN more |-> more[i].value])
<1>1. /\ k \in 0..Unit /\ Unit \in Nat \ {0} /\ T \in 0..RiskCap /\ RiskCap \in Nat
      /\ w \in Nat /\ x \in Nat
  BY ElapsedType, DecayAssumption, TermsType
<1>2. k * w = Unit * x
  BY WorthDecays
<1>3. more \in Seq(Scored) /\ Worth(more, now) = x + Unit * v
  BY WorthAppended
<1>4. next = IF Plus(d, v) = NaN THEN NaN
             ELSE IF Plus(d, v) < 0 THEN 0
             ELSE IF Plus(d, v) > RiskCap THEN RiskCap ELSE Plus(d, v)
  BY DEF ApplyMatchRisk
<1>5. T * Unit = w
  OBVIOUS
<1>6. T * k = x
  <2> HIDE DEF k, w, x, T
  <2>1. k * (T * Unit) = Unit * (T * k)
    BY <1>1
  <2>2. Unit * (T * k) = Unit * x
    BY <1>2, <1>5, <2>1
  <2>3. T * k \in Int
    BY <1>1
  <2>4. QED
    BY <1>1, <2>2, <2>3, Cancel
\* No rest is lost ...
<1>7. x % Unit = 0
  <2>1. n \in Nat /\ DOMAIN h = 1..n /\ n + 1 \in DOMAIN more /\ more[n + 1] = new
        /\ \A i \in 1..n : i \in DOMAIN more /\ more[i] = h[i]
    OBVIOUS
  <2>2. ASSUME NEW i \in 1..n PROVE (h[i].value * Keep[Elapsed(h[i].at, now)]) % Unit = 0
    <3>1. more[n + 1].at = now /\ i <= n + 1
      BY <2>1
    <3> HIDE DEF new
    <3>2. (more[i].value * Keep[Elapsed(more[i].at, more[n + 1].at)]) % Unit = 0
      <4>1. Divisible(more)
        BY DEF new
      <4> HIDE DEF more
      <4>2. QED
        BY <2>1, <2>2, <3>1, <4>1 DEF Divisible
    <3> HIDE DEF more
    <3>3. QED
      BY <2>1, <3>1, <3>2
  <2>3. /\ \A i \in DOMAIN h : Terms(h, now)[i] \in Int /\ Terms(h, now)[i] % Unit = 0
        /\ IsFiniteSet(DOMAIN h) /\ x = SumFunctionOnSet(Terms(h, now), DOMAIN h)
    BY <2>1, <2>2, TermsType
  <2> HIDE DEF x
  <2>4. QED
    BY <1>1, <2>3, SumDivisible
<1>8. d \in Nat /\ Unit * d = x
  <2>1. d = x \div Unit
    BY <1>6 DEF T
  <2> HIDE DEF x, d
  <2>2. x \div Unit \in Nat /\ x = Unit * (x \div Unit) + (x % Unit)
    <3>1. x \in Nat /\ x \in Int /\ Unit \in Nat \ {0}
      BY <1>1
    <3>2. x \div Unit \in Nat
      BY <3>1, Floor
    <3>3. QED
      BY <3>1, <3>2, DivMod
  <2>3. Unit * (x \div Unit) \in Int
    BY <1>1, <2>2
  <2>4. QED
    BY <1>7, <2>1, <2>2, <2>3
\* ... and the cap is not reached.
<1>9. Worth(more, now) <= Unit * sum /\ sum \in Int
  <2> DEFINE g == Terms(more, now)
             f == [i \in DOMAIN more |-> more[i].value]
             S == DOMAIN more
  <2> HIDE DEF more
  <2>1. IsFiniteSet(S) /\ Worth(more, now) = SumFunctionOnSet(g, S)
    BY <1>3, TermsType
  <2>2. ASSUME NEW i \in S PROVE g[i] \in Int /\ f[i] \in Int /\ 1 * g[i] <= Unit * f[i]
    <3> DEFINE a == more[i].value
               b == Keep[Elapsed(more[i].at, now)]
    <3>1. a \in Nat /\ b \in 0..Unit /\ g[i] = a * b /\ f[i] = a
      BY <1>3, TermsType DEF Scored
    <3> HIDE DEF a, b, g, f
    <3>2. a * b <= Unit * a /\ a * b \in Int /\ 1 * (a * b) = a * b
      BY <1>1, <3>1
    <3>3. QED
      BY <3>1, <3>2
  <2>3. sum = SumFunctionOnSet(f, S)
    BY DEF SumFunction
  <2> HIDE DEF g, f, S, sum
  <2>4. 1 * SumFunctionOnSet(g, S) <= Unit * SumFunctionOnSet(f, S)
    <3>1. 1 \in Int /\ Unit \in Int
      BY <1>1
    <3>2. QED
      BY <2>1, <2>2, <3>1, SumMonotone
  <2>5. SumFunctionOnSet(g, S) \in Int /\ SumFunctionOnSet(f, S) \in Int
    BY <2>1, <2>2, SumType
  <2>6. QED
    BY <2>1, <2>3, <2>4, <2>5
<1>10. sum <= RiskCap
  BY DEF Uncapped
<1> HIDE DEF k, d, w, x, next, T, sum
<1>11. Unit * (d + v) = x + Unit * v
  BY <1>1, <1>8
<1>12. d + v <= RiskCap
  <2>1. Unit * (d + v) <= Unit * sum
    BY <1>3, <1>9, <1>11
  <2>2. d + v <= sum
    BY <1>1, <1>8, <1>9, <2>1, Cancel
  <2>3. QED
    BY <1>1, <1>8, <1>9, <1>10, <2>2
<1>13. next = d + v
  BY <1>1, <1>4, <1>8, <1>12, NaNAssumption DEF Plus
<1>14. next * Unit = x + Unit * v
  BY <1>1, <1>8, <1>11, <1>13
<1>15. QED
  BY <1>3, <1>14 DEF next

\* What InOrderIsExact asks of a history was so before the last match, too.
LEMMA ShorterHistory ==
    ASSUME NEW h \in Seq(Scored), NEW new \in Scored
    PROVE  LET more == Append(h, new)
           IN  /\ InOrder(more) =>
                     /\ InOrder(h)
                     /\ \A i \in DOMAIN h : h[i].at <= h[Len(h)].at /\ h[Len(h)].at <= new.at
               /\ Uncapped(more) => Uncapped(h)
               /\ Divisible(more) => Divisible(h)
<1> DEFINE more == Append(h, new)
           n == Len(h)
<1>1. /\ n \in Nat /\ DOMAIN h = 1..n /\ DOMAIN more = 1..(n + 1)
      /\ \A i \in 1..n : h[i] \in Scored /\ more[i] = h[i]
      /\ more[n + 1] = new
  OBVIOUS
<1> HIDE DEF more
<1>2. InOrder(more) =>
        /\ InOrder(h)
        /\ \A i \in DOMAIN h : h[i].at <= h[n].at /\ h[n].at <= new.at
  <2> SUFFICES ASSUME InOrder(more)
               PROVE  /\ InOrder(h)
                      /\ \A i \in DOMAIN h : h[i].at <= h[n].at /\ h[n].at <= new.at
    OBVIOUS
  <2>1. \A i, k \in 1..(n + 1) : i <= k => more[i].at <= more[k].at
    BY <1>1 DEF InOrder
  <2>2. \A i, k \in 1..n : i <= k => h[i].at <= h[k].at
    BY <1>1, <2>1
  <2>3. ASSUME NEW i \in 1..n PROVE h[i].at <= h[n].at /\ h[n].at <= new.at
    <3>1. n \in 1..n /\ n \in 1..(n + 1) /\ n + 1 \in 1..(n + 1) /\ i <= n /\ n <= n + 1
      BY <1>1
    <3>2. h[i].at <= h[n].at
      BY <2>2, <3>1
    <3>3. more[n].at <= more[n + 1].at
      BY <2>1, <3>1
    <3>4. QED
      BY <1>1, <3>1, <3>2, <3>3
  <2>4. QED
    BY <1>1, <2>2, <2>3 DEF InOrder
<1>3. Uncapped(more) => Uncapped(h)
  <2> DEFINE g == [i \in DOMAIN h |-> h[i].value]
             f == [i \in DOMAIN more |-> more[i].value]
  <2>1. /\ g \in [1..n -> Nat] /\ f \in [1..(n + 1) -> Nat]
        /\ \A i \in 1..n : g[i] = f[i]
    <3>1. \A i \in 1..(n + 1) : more[i].value \in Nat
      <4>1. \A i \in 1..(n + 1) : i \in 1..n \/ i = n + 1
        BY <1>1
      <4>2. QED
        BY <1>1, <4>1 DEF Scored
    <3>2. QED
      BY <1>1, <3>1 DEF Scored
  <2> HIDE DEF g, f
  <2>2. SumFunction(f) = SumFunction(g) + f[n + 1]
    <3>1. g \in [1..n -> Int] /\ f \in [1..(n + 1) -> Int]
      BY <2>1
    <3>2. QED
      BY <1>1, <2>1, <3>1, SumExtended
  <2>3. f[n + 1] \in Nat
    BY <1>1, <2>1
  <2>4. SumFunction(g) \in Nat
    <3>1. IsFiniteSet(1..n) /\ DOMAIN g = 1..n
      BY <1>1, <2>1, FS_Interval
    <3>2. SumFunctionOnSet(g, 1..n) \in Nat
      BY <2>1, <3>1, SumNat
    <3>3. QED
      BY <3>1, <3>2 DEF SumFunction
  <2>5. SumFunction(f) <= RiskCap => SumFunction(g) <= RiskCap
    BY <2>2, <2>3, <2>4, DecayAssumption
  <2>6. QED
    BY <2>5 DEF Uncapped, g, f
<1>4. Divisible(more) => Divisible(h)
  <2> SUFFICES ASSUME Divisible(more), NEW i \in 1..n, NEW k \in 1..n, i <= k
               PROVE  (h[i].value * Keep[Elapsed(h[i].at, h[k].at)]) % Unit = 0
    BY <1>1 DEF Divisible
  <2>1. i \in 1..(n + 1) /\ k \in 1..(n + 1)
    BY <1>1
  <2>2. (more[i].value * Keep[Elapsed(more[i].at, more[k].at)]) % Unit = 0
    BY <1>1, <2>1 DEF Divisible
  <2>3. QED
    BY <1>1, <2>2
<1>5. QED
  BY <1>2, <1>3, <1>4 DEF more

\* No match, no worth.
LEMMA WorthOfNothing ==
    ASSUME NEW t
    PROVE  Worth(<<>>, t) = 0
<1> DEFINE g == [i \in DOMAIN <<>> |-> <<>>[i].value * Keep[Elapsed(<<>>[i].at, t)]]
<1>1. DOMAIN g = {}
  OBVIOUS
<1> HIDE DEF g
<1>2. SumFunctionOnSet(g, {}) = 0
  BY FS_EmptySet, SumEquation
<1>3. QED
  BY <1>1, <1>2 DEF Worth, SumFunction, g

LEMMA HistoryIsScored ==
    ASSUME Inv, NEW p \in Players
    PROVE  history[p] \in Seq(Scored)
<1>1. history[p] \in Seq([at : 0..MaxTime, value : Number])
  BY DEF Inv, TypeOK
<1>2. SignalCap * Cardinality(Rules) \in Int
  <2>1. IsFiniteSet(Rules) /\ Cardinality(Rules) \in Nat
    BY RulesAreFinite
  <2>2. QED
    BY <2>1, SignalAssumption
<1>3. \A i \in DOMAIN history[p] : history[p][i].value \in Nat
  BY <1>2 DEF Inv, SignalIsBounded
<1>4. ASSUME NEW i \in DOMAIN history[p] PROVE history[p][i] \in Scored
  <2>1. history[p][i] \in [at : 0..MaxTime, value : Number]
    BY <1>1, ElementIn
  <2>2. history[p][i].value \in Nat
    BY <1>3
  <2>3. QED
    BY <2>1, <2>2 DEF Scored
<1>5. QED
  BY <1>1, <1>4

LEMMA SavePlayerWorth ==
    ASSUME Inv, WorthInv, SavePlayer
    PROVE  WorthInv'
<1> DEFINE p == Current.ref.player
           at == job.lines[job.i].at
           prev == IF risk[p] = NoState THEN [NoState EXCEPT !.last = clock] ELSE risk[p]
           next == ApplyMatchRisk(prev, job.value, at)
           h == history[p]
           new == [at |-> at, value |-> job.value]
<1>1. job.step = "rules" /\ job.rules = {}
  BY DEF SavePlayer
<1>2. /\ clock \in 0..MaxTime /\ job.value \in Number
      /\ risk \in [Players -> [total : Number, last : -1..MaxTime]]
      /\ history \in [Players -> Seq([at : 0..MaxTime, value : Number])]
  BY DEF Inv, TypeOK, Job
<1>3. job.i <= Len(job.lines) /\ p \in Players
  BY <1>1 DEF Inv, LinesAreLoaded
<1>4. at \in 0..MaxTime
  <2>1. job.lines[job.i] \in Line
    BY <1>1, <1>3, CurrentIsAccepted
  <2>2. QED
    BY <2>1 DEF Line
<1>5. h \in Seq(Scored)
  BY <1>3, HistoryIsScored
<1>6. CASE UNCHANGED <<risk, history>>
  BY <1>6 DEF WorthInv, LastIsLast, NeverOverstated, InOrderIsExact
<1>7. CASE /\ next.total # NaN
           /\ risk' = [risk EXCEPT ![p] = next]
           /\ history' = [history EXCEPT ![p] = Append(@, new)]
  <2>1. job.value \in Nat
    <3>1. job.value # NaN
      BY <1>7 DEF ApplyMatchRisk, Plus
    <3>2. Rules \ {} = Rules
      OBVIOUS
    <3>3. job.value \in 0..(SignalCap * Cardinality(Rules))
      BY <1>1, <3>1, <3>2 DEF Inv, SignalIsBounded
    <3>4. SignalCap * Cardinality(Rules) \in Int
      BY RulesAreFinite, SignalAssumption
    <3>5. QED
      BY <3>3, <3>4
  <2>2. new \in Scored
    BY <1>4, <2>1 DEF Scored
  \* What the state before the match has to do with the history.
  <2>3. /\ prev \in [total : 0..RiskCap, last : 0..MaxTime]
        /\ prev.total * Unit <= Worth(h, prev.last)
        /\ h = <<>> => prev.total * Unit = Worth(h, prev.last)
        /\ h # <<>> => prev = risk[p] /\ prev.last = h[Len(h)].at
    <3>1. CASE risk[p] = NoState
      <4>1. prev = [total |-> 0, last |-> clock]
        BY <3>1 DEF NoState
      <4>2. prev \in [total : 0..RiskCap, last : 0..MaxTime] /\ prev.total = 0
        BY <1>2, <4>1, DecayAssumption
      <4>3. h = <<>>
        <5> SUFFICES ASSUME h # <<>> PROVE FALSE
          OBVIOUS
        <5>1. risk[p].last = h[Len(h)].at
          BY <1>3 DEF WorthInv, LastIsLast
        <5>2. h[Len(h)] \in Scored
          BY <1>5
        <5>3. QED
          BY <3>1, <5>1, <5>2, DecayAssumption DEF NoState, Scored
      <4>4. Worth(h, prev.last) = 0
        BY <4>3, WorthOfNothing
      <4> HIDE DEF prev
      <4>5. prev.total * Unit = 0
        BY <4>2, DecayAssumption
      <4>6. QED
        BY <4>2, <4>3, <4>4, <4>5
    <3>2. CASE risk[p] # NoState
      <4>1. prev = risk[p]
        BY <3>2
      <4>2. h # <<>> /\ prev.last = h[Len(h)].at
        BY <1>3, <3>2, <4>1 DEF WorthInv, LastIsLast
      <4>3. risk[p] \in [total : Number, last : -1..MaxTime] /\ risk[p].total \in 0..RiskCap
            /\ risk[p].last # -1
        BY <1>2, <1>3, <3>2 DEF Inv, RiskIsBounded, FirstMatch
      <4>4. prev \in [total : 0..RiskCap, last : 0..MaxTime]
        BY <4>1, <4>3, DecayAssumption
      <4>5. prev.total * Unit <= Worth(h, prev.last)
        BY <1>3, <4>1 DEF WorthInv, NeverOverstated
      <4>6. QED
        BY <4>1, <4>2, <4>4, <4>5
    <3>3. QED
      BY <3>1, <3>2
  <2> DEFINE more == Append(h, new)
  <2>4. /\ risk'[p] = next /\ history'[p] = more
        /\ \A x \in Players \ {p} : risk'[x] = risk[x] /\ history'[x] = history[x]
    BY <1>2, <1>3, <1>7
  <2>5. next.last = at
    BY DEF ApplyMatchRisk
  <2>6. more # <<>> /\ more[Len(more)] = new
    BY <1>5, <2>2
  <2>7. next.total * Unit <= Worth(more, at)
    <3> HIDE DEF at, prev, h
    <3>1. QED
      BY <1>4, <1>5, <2>1, <2>3, ScoreNeverOverstates
  <2>8. ASSUME InOrder(more), Uncapped(more), Divisible(more)
        PROVE  next.total * Unit = Worth(more, at)
    <3>1. /\ InOrder(h) /\ Uncapped(h) /\ Divisible(h)
          /\ \A i \in DOMAIN h : h[i].at <= h[Len(h)].at /\ h[Len(h)].at <= new.at
      BY <1>5, <2>2, <2>8, ShorterHistory
    <3>2. prev.total * Unit = Worth(h, prev.last)
      <4>1. CASE h = <<>>
        BY <2>3, <4>1
      <4>2. CASE h # <<>>
        <5>1. risk[p].total * Unit = Worth(h, risk[p].last)
          BY <1>3, <3>1 DEF WorthInv, InOrderIsExact
        <5>2. prev = risk[p]
          BY <2>3, <4>2
        <5> HIDE DEF prev
        <5>3. QED
          BY <5>1, <5>2
      <4>3. QED
        BY <4>1, <4>2
    <3>3. \A i \in DOMAIN h : h[i].at <= prev.last /\ prev.last <= at
      <4>1. (\E i \in DOMAIN h : TRUE) => prev.last = h[Len(h)].at
        BY <2>3
      <4> HIDE DEF prev
      <4>2. QED
        BY <3>1, <4>1
    <3> HIDE DEF at, prev, h
    <3>4. QED
      BY <1>4, <1>5, <2>1, <2>3, <2>8, <3>2, <3>3, ScoreIsExact
  <2> HIDE DEF next, more, h, p, at
  <2>9. LastIsLast'
    <3>1. ASSUME NEW x \in Players
          PROVE  IF history'[x] = <<>> THEN risk'[x] = NoState
                 ELSE risk'[x].last = history'[x][Len(history'[x])].at
      <4>1. CASE x = p
        BY <2>4, <2>5, <2>6, <4>1
      <4>2. CASE x # p
        BY <2>4, <4>2 DEF WorthInv, LastIsLast
      <4>3. QED
        BY <4>1, <4>2
    <3>2. QED
      BY <3>1 DEF LastIsLast
  <2>10. NeverOverstated'
    <3>1. ASSUME NEW x \in Players
          PROVE  risk'[x].total * Unit <= Worth(history'[x], risk'[x].last)
      <4>1. CASE x = p
        BY <2>4, <2>5, <2>7, <4>1
      <4>2. CASE x # p
        BY <2>4, <4>2 DEF WorthInv, NeverOverstated
      <4>3. QED
        BY <4>1, <4>2
    <3>2. QED
      BY <3>1 DEF NeverOverstated, Worth
  <2>11. InOrderIsExact'
    <3>1. ASSUME NEW x \in Players,
                 InOrder(history'[x]), Uncapped(history'[x]), Divisible(history'[x])
          PROVE  risk'[x].total * Unit = Worth(history'[x], risk'[x].last)
      <4>1. CASE x = p
        BY <2>4, <2>5, <2>8, <3>1, <4>1
      <4>2. CASE x # p
        BY <2>4, <3>1, <4>2 DEF WorthInv, InOrderIsExact
      <4>3. QED
        BY <4>1, <4>2
    <3>2. QED
      BY <3>1 DEF InOrderIsExact, Worth, InOrder, Uncapped, Divisible
  <2>12. QED
    BY <2>9, <2>10, <2>11 DEF WorthInv
<1>8. QED
  BY <1>6, <1>7 DEF SavePlayer

LEMMA WorthInvInit == Init => WorthInv
<1> SUFFICES ASSUME Init PROVE WorthInv
  OBVIOUS
<1>1. \A p \in Players : risk[p] = NoState /\ history[p] = <<>>
  BY DEF Init
<1>2. \A p \in Players : risk[p].total * Unit = Worth(history[p], risk[p].last)
  BY <1>1, WorthOfNothing, DecayAssumption DEF NoState
<1>3. \A p \in Players : risk[p].total * Unit <= Worth(history[p], risk[p].last)
  BY <1>1, WorthOfNothing, DecayAssumption DEF NoState
<1>4. QED
  BY <1>1, <1>2, <1>3 DEF WorthInv, LastIsLast, NeverOverstated, InOrderIsExact

LEMMA WorthInvNext == Inv /\ WorthInv /\ [Next]_vars => WorthInv'
<1> SUFFICES ASSUME Inv, WorthInv, [Next]_vars PROVE WorthInv'
  OBVIOUS
<1>1. CASE SavePlayer
  BY <1>1, SavePlayerWorth
<1>2. CASE UNCHANGED <<risk, history>>
  BY <1>2 DEF WorthInv, LastIsLast, NeverOverstated, InOrderIsExact
<1>3. Next => SavePlayer \/ UNCHANGED <<risk, history>>
  BY DEF Next, Tick, SubmitMatchAggregates, Begin, MapEntry, AddCounter, AddQuantile, MarkApplied
<1>4. QED
  BY <1>1, <1>2, <1>3 DEF vars

LEMMA WorthInvariance == Spec => []WorthInv
<1>1. QED
  BY WorthInvInit, WorthInvNext, Invariance, PTL DEF Spec

-----------------------------------------------------------------------------
(* The theorems *)

\* The variables keep their types: the handler's line, entry and rules exist.
THEOREM TypeCorrect == Spec => []TypeOK
<1>1. Inv => TypeOK
  BY DEF Inv
<1>2. QED
  BY <1>1, Invariance, PTL

\* A saved risk is a number from 0 to the cap, for any telemetry with or
\* without NaN in it, any weights and any order of times.
THEOREM RiskStaysBounded == Spec => []RiskIsBounded
<1>1. Inv => RiskIsBounded
  BY DEF Inv
<1>2. QED
  BY <1>1, Invariance, PTL

\* The risk of a match is at most one cap per rule of the mapping config, in
\* whatever order Go's maps are iterated.
THEOREM SignalStaysBounded == Spec => []SignalIsBounded
<1>1. Inv => SignalIsBounded
  BY DEF Inv
<1>2. QED
  BY <1>1, Invariance, PTL

\* Whatever ingest accepted, the worker fails on it for no other reason than
\* those of FailureIsExplained, for any requests and mapping config.
THEOREM FailuresAreExplained == Spec => []FailureIsExplained
<1>1. Inv => FailureIsExplained
  BY DEF Inv
<1>2. QED
  BY <1>1, Invariance, PTL

\* Late, early or twice: no order of matches gives a player more risk than the
\* scored matches are worth, for any cap, decay factor and mapping config.
THEOREM RiskIsNeverOverstated == Spec => []NeverOverstated
<1>1. WorthInv => NeverOverstated
  BY DEF WorthInv
<1>2. QED
  BY <1>1, WorthInvariance, PTL

\* In order, below the cap and without rounding, risk is what they are worth.
THEOREM RiskInOrderIsExact == Spec => []InOrderIsExact
<1>1. WorthInv => InOrderIsExact
  BY DEF WorthInv
<1>2. QED
  BY <1>1, WorthInvariance, PTL
=============================================================================
