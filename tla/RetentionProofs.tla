-------------------------- MODULE RetentionProofs --------------------------
(***************************************************************************)
(* Retention for any number of submissions, matches and players, any       *)
(* window and any length of the day: a pass finds every file that it       *)
(* listed, removes nothing younger than the window, leaves the worker the  *)
(* lines it needs, and does not make it count a line twice.                *)
(*                                                                         *)
(* The run holds no lock, so the argument is about what may not change     *)
(* between Look and Delete.  A marker is not written a second time while   *)
(* it exists; a day of the ledger does not get longer; an event in done/   *)
(* stays there.  A telemetry file does grow, and there the window is       *)
(* needed: a file whose last line is older than the window belongs to a    *)
(* match that gets no more lines, if Prompt holds.                         *)
(***************************************************************************)
EXTENDS Retention, FiniteSetTheorems, TLAPS

-----------------------------------------------------------------------------
(* The inductive invariant *)

\* What the run and the others share, and the run's own variables.
StoreOK ==
    /\ clock \in Time
    /\ telemetry \in [Matches -> Seq(Submissions)]
    /\ at \in [Submissions -> Time \cup {Never}]
    /\ place \in [Submissions ->
           {"none", "written", "pending", "processing", "done", "failed", "removed"}]
    /\ created \in [Submissions -> Time \cup {Never}]
    /\ sidecar \subseteq Submissions
    /\ job \in [of : Submissions \cup {NoEvent}, lines : Seq(Submissions),
               last : Time \cup {Never}]
    /\ player \in [Players -> [last : Time \cup {Never}, counted : [Submissions -> Nat]]]
    /\ ledger \subseteq Matches \X Time
    /\ marked \in [Matches -> Time \cup {Never}]

RetOK ==
    /\ DOMAIN ret = {"pass", "cutoff", "todo", "doomed"}
    /\ ret.pass \in 0..7 /\ ret.cutoff \in 0..MaxTime
    /\ ret.pass = 0 => ret = Stopped
    /\ ret.doomed \subseteq ret.todo
    /\ ret.doomed = {} \/ \E x : ret.doomed = {x}

\* A submission is stamped when its line is written, and not in the future.
StampInv ==
    \A s \in Submissions : at[s] <= clock /\ (at[s] = Never <=> place[s] = "none")

\* The lines of a file are about its match and stamped; they were written one
\* after the other and each of them once.
FileInv ==
    \A m \in Matches : \A i \in DOMAIN telemetry[m] :
        LET s == telemetry[m][i]
        IN  /\ MatchOf[s] = m
            /\ at[s] # Never
            /\ \A k \in DOMAIN telemetry[m] :
                  i < k => s # telemetry[m][k] /\ at[s] <= at[telemetry[m][k]]

\* The event in hand is in processing/ and its match has no marker; the lines
\* still to be scored are different ones of that match.
JobInv ==
    /\ job.of = NoEvent => job = Idle
    /\ job.of # NoEvent =>
          /\ place[job.of] = "processing"
          /\ marked[MatchOf[job.of]] = Never
          /\ job.last # Never
          /\ \A i \in DOMAIN job.lines :
                /\ MatchOf[job.lines[i]] = MatchOf[job.of]
                /\ at[job.lines[i]] # Never
                /\ \A k \in DOMAIN job.lines : i < k => job.lines[i] # job.lines[k]

\* What is listed is still there, and the cutoff is a window ago or longer.
TodoIsThere == ret.pass # 0 => ret.todo \subseteq Files(Pass)

CutoffInv == ret.pass # 0 => ret.cutoff + Keep <= clock

\* What was found old is still old, telemetry apart.
DoomedInv ==
    ret.pass # 0 => \A x \in ret.doomed :
        /\ Pass = "ledger" => LedgerIsOld(x)
        /\ Pass = "applied" => MarkerIsOld(x)
        /\ Pass \in {"done", "failed"} => EventIsOld(x)

IInv ==
    StoreOK /\ RetOK /\ StampInv /\ FileInv /\ JobInv /\ TodoIsThere /\ CutoffInv /\ DoomedInv

\* With Prompt: the events that wait are within the window of their match,
\* their lines are there, and a telemetry file found old is still old.
PromptInv ==
    /\ \A s \in Submissions : Unsettled(s) => WithinWindow(s, clock)
    /\ UnsettledHasTelemetry
    /\ ret.pass # 0 /\ Pass = "telemetry" =>
          \A m \in ret.doomed : \A i \in DOMAIN telemetry[m] :
              at[telemetry[m][i]] < ret.cutoff

\* The window of match m is over.  (It stays over.)
Over(m) ==
    \E s \in Submissions : MatchOf[s] = m /\ at[s] # Never /\ at[s] + Keep < clock

\* The hypothesis of ScoredOnce: a match is refused as a whole or not at all.
RefusedAsAWhole ==
    \A r, s \in Submissions :
        MatchOf[r] = MatchOf[s] => (PlayerOf[r] = Refused <=> PlayerOf[s] = Refused)

\* A marker is no older than some line of its match.  A line that has been
\* counted is protected from being counted again by the worker that is on its
\* match, by the marker or by the window; those it has still to score are not
\* counted yet.
CountInv ==
    /\ \A m \in Matches :
          marked[m] # Never =>
              \E s \in Submissions : MatchOf[s] = m /\ at[s] # Never /\ at[s] <= marked[m]
    /\ ScoredOnce
    /\ \A p \in Players, s \in Submissions :
          LET m == MatchOf[s]
          IN  /\ player[p].counted[s] > 0 =>
                    /\ PlayerOf[s] # Refused
                    /\ \/ Over(m)
                       \/ marked[m] # Never
                       \/ job.of # NoEvent /\ MatchOf[job.of] = m
              /\ \A i \in DOMAIN job.lines :
                    job.lines[i] = s => player[p].counted[s] = 0

-----------------------------------------------------------------------------
(* Type correctness *)

LEMMA TimeFacts ==
    /\ Keep \in Nat /\ DayLength \in Nat /\ MaxTime \in Nat
    /\ Keep > 0 /\ DayLength > 0
    /\ Time \subseteq Nat /\ Never \notin Time
BY TimeAssumption DEF Time, Never

\* Every stamp is a number.
LEMMA StampsAreNumbers ==
    ASSUME StoreOK
    PROVE  /\ clock \in Nat /\ clock # Never
           /\ at \in [Submissions -> Nat]
           /\ created \in [Submissions -> Nat]
           /\ marked \in [Matches -> Nat]
<1>1. Time \cup {Never} \subseteq Nat
  BY TimeFacts DEF Never
<1> QED
  BY <1>1, TimeFacts DEF StoreOK

\* TypeOK in two parts.
LEMMA TypeParts ==
    ASSUME StoreOK, RetOK
    PROVE  TypeOK
<1>1. Cardinality({}) = 0 /\ \A x : Cardinality({x}) = 1
  BY FS_EmptySet, FS_Singleton
<1>2. Len(Passes) = 7 /\ DOMAIN Stopped = {"pass", "cutoff", "todo", "doomed"}
  BY DEF Passes, Stopped
<1>3. Cardinality(ret.doomed) = 0 \/ Cardinality(ret.doomed) = 1
  BY <1>1, Zenon DEF RetOK
<1>4. ret.doomed \subseteq ret.todo /\ Cardinality(ret.doomed) <= 1
  BY <1>3 DEF RetOK
<1> QED
  BY <1>2, <1>4 DEF TypeOK, StoreOK, RetOK

\* The fields of the retention run.
LEMMA RetFields ==
    ASSUME RetOK
    PROVE  /\ DOMAIN Stopped = {"pass", "cutoff", "todo", "doomed"}
           /\ Len(Passes) = 7
           /\ ret.pass # 0 => Pass \in {"telemetry", "ledger", "applied", "done", "failed",
                                      "sidecars", "players"}
           /\ ret.pass = 0 => ret.doomed = {} /\ ret.todo = {}
BY DEF Stopped, Passes, Pass, RetOK

LEMMA InitIInv == Init => IInv
<1> SUFFICES ASSUME Init PROVE IInv
  OBVIOUS
<1>1. StoreOK
  BY TimeAssumption DEF Init, StoreOK, Time, Never, Idle, NewPlayer
<1>2. RetOK
  BY TimeAssumption DEF Init, RetOK, Stopped
<1>3. StampInv /\ FileInv /\ JobInv
  BY TimeFacts DEF Init, StampInv, FileInv, JobInv, Idle, Never
<1> QED
  BY <1>1, <1>2, <1>3 DEF Init, IInv, TodoIsThere, CutoffInv, DoomedInv, Stopped

\* The file of player p once a line of hers has been scored.
Counted(p, line) ==
    [last |-> at[line],
     counted |-> [player[p].counted EXCEPT ![line] = player[p].counted[line] + 1]]

LEMMA LineIsTaken ==
    ASSUME NEW s, ScoreLine(s), PlayerOf[Head(job.lines)] # Refused
    PROVE  LET line == Head(job.lines)
           IN  /\ player' = [player EXCEPT ![PlayerOf[line]] = Counted(PlayerOf[line], line)]
               /\ job' = [job EXCEPT !.lines = Tail(@)]
               /\ UNCHANGED <<place, sidecar>>
BY DEF ScoreLine, Counted

\* The types of what the surroundings change.
LEMMA SurroundingsType ==
    ASSUME IInv, Surroundings
    PROVE  UNCHANGED ret /\ StoreOK'
<1> USE TimeFacts, MatchOfAssumption, PlayerOfAssumption, NoEventAssumption DEF IInv, StoreOK
<1>1. CASE Tick
  BY <1>1 DEF Tick, producerVars, riskVars, Time
<1>2. ASSUME NEW s \in Submissions, WriteLine(s) PROVE UNCHANGED ret /\ StoreOK'
  BY <1>2 DEF WriteLine, Goto, riskVars
<1>3. ASSUME NEW s \in Submissions, Enqueue(s) PROVE UNCHANGED ret /\ StoreOK'
  BY <1>3 DEF Enqueue, Goto, riskVars
<1>4. ASSUME NEW s \in Submissions, Take(s) PROVE UNCHANGED ret /\ StoreOK'
  <2> DEFINE lines == telemetry[MatchOf[s]]
  <2>1. lines \in Seq(Submissions)
    OBVIOUS
  <2>2. lines # <<>> => Last(lines) \in Submissions
    BY <2>1 DEF Last
  <2>3. lines # <<>> => at[Last(lines)] \in Time \cup {Never}
    BY <2>2
  <2>4. job' \in [of : Submissions \cup {NoEvent}, lines : Seq(Submissions),
                 last : Time \cup {Never}]
    BY <1>4, <2>1, <2>3 DEF Take
  <2>5. /\ place' \in [Submissions -> {"none", "written", "pending", "processing",
                                       "done", "failed", "removed"}]
        /\ sidecar' \subseteq Submissions
    <3>1. \/ Retire(s, "done") \/ Retire(s, "failed")
          \/ Goto(s, "processing") /\ UNCHANGED sidecar
      BY <1>4 DEF Take
    <3> QED
      BY <3>1 DEF Retire, Goto
  <2> QED
    BY <1>4, <2>4, <2>5 DEF Take, producerVars
<1>5. ASSUME NEW s \in Submissions, ScoreLine(s) PROVE UNCHANGED ret /\ StoreOK'
  <2> DEFINE line == Head(job.lines)
             p == PlayerOf[line]
             new == Counted(p, line)
  <2>0. job.lines \in Seq(Submissions) /\ job.lines # <<>>
    BY <1>5 DEF ScoreLine
  <2>1. line \in Submissions /\ Tail(job.lines) \in Seq(Submissions)
    BY <2>0
  <2>2. CASE p = Refused
    <3>1. job' = Idle /\ UNCHANGED player /\ Retire(s, "failed")
      BY <1>5, <2>2 DEF ScoreLine
    <3>2. job' \in [of : Submissions \cup {NoEvent}, lines : Seq(Submissions),
                   last : Time \cup {Never}]
      BY <3>1 DEF Idle
    <3>3. /\ place' \in [Submissions -> {"none", "written", "pending", "processing",
                                         "done", "failed", "removed"}]
          /\ sidecar' \subseteq Submissions
      BY <3>1 DEF Retire, Goto
    <3> QED
      BY <1>5, <3>1, <3>2, <3>3 DEF ScoreLine, producerVars
  <2>3. CASE p # Refused
    <3>1. /\ player' = [player EXCEPT ![p] = new]
          /\ job' = [job EXCEPT !.lines = Tail(@)]
          /\ UNCHANGED <<place, sidecar>>
      BY <1>5, <2>3, LineIsTaken
    <3>2. p \in Players
      BY <2>1, <2>3
    <3>3. new \in [last : Time \cup {Never}, counted : [Submissions -> Nat]]
      BY <2>1, <3>2 DEF Counted
    <3> HIDE DEF new
    <3>4. player' \in [Players -> [last : Time \cup {Never}, counted : [Submissions -> Nat]]]
      BY <3>1, <3>2, <3>3
    <3>5. job' \in [of : Submissions \cup {NoEvent}, lines : Seq(Submissions),
                   last : Time \cup {Never}]
      BY <2>1, <3>1
    <3> QED
      BY <1>5, <3>1, <3>4, <3>5 DEF ScoreLine, producerVars
  <2> QED
    BY <2>2, <2>3
<1>6. ASSUME NEW s \in Submissions, Finish(s) PROVE UNCHANGED ret /\ StoreOK'
  <2>1. job.last \in Time
    BY <1>6 DEF Finish, JobInv
  <2> QED
    BY <1>6, <2>1 DEF Finish, Retire, Goto, producerVars, Idle
<1> QED
  BY <1>1, <1>2, <1>3, <1>4, <1>5, <1>6 DEF Surroundings

\* The retention run removes things, and keeps its own variables in order.
LEMMA RunType ==
    ASSUME IInv, Run
    PROVE  StoreOK' /\ RetOK'
<1> USE TimeFacts, RetFields DEF IInv
<1>1. CASE StartRun
  BY <1>1 DEF StartRun, producerVars, riskVars, Time, StoreOK, RetOK
<1>2. CASE NextPass
  <2>1. StoreOK'
    BY <1>2 DEF NextPass, producerVars, riskVars, StoreOK
  <2>2. CASE ret.pass = 7
    BY <1>2, <2>1, <2>2 DEF NextPass, Stopped, RetOK
  <2>3. CASE ret.pass # 7
    <3> DEFINE next == Files(Passes[ret.pass + 1])
    <3>0. ret.pass # Len(Passes)
      BY <2>3
    <3>1. ret' = [ret EXCEPT !.pass = @ + 1, !.todo = next]
      BY <1>2, <3>0, Zenon DEF NextPass
    <3>2. ret.doomed = {} /\ ret.pass + 1 \in 1..7
      BY <1>2, <2>3 DEF NextPass, RetOK
    <3> HIDE DEF next
    <3> QED
      BY <2>1, <3>1, <3>2 DEF RetOK
  <2> QED
    BY <2>2, <2>3
<1>3. CASE PassError
  BY <1>3 DEF PassError, producerVars, riskVars, StoreOK, RetOK
<1>4. CASE Killed
  BY <1>4 DEF Killed, producerVars, riskVars, Stopped, StoreOK, RetOK
<1>5. ASSUME NEW x \in ret.todo, Look(x) PROVE StoreOK' /\ RetOK'
  <2>1. StoreOK'
    BY <1>5 DEF Look, producerVars, riskVars, StoreOK
  <2>2. CASE IsOld(x)
    BY <1>5, <2>1, <2>2 DEF Look, RetOK
  <2>3. CASE ~IsOld(x)
    BY <1>5, <2>1, <2>3 DEF Look, RetOK
  <2> QED
    BY <2>1, <2>2, <2>3
<1>6. ASSUME NEW x \in ret.todo, Delete(x) PROVE StoreOK' /\ RetOK'
  <2>1. NewPlayer \in [last : Time \cup {Never}, counted : [Submissions -> Nat]]
    BY DEF NewPlayer
  <2>2. <<>> \in Seq(Submissions)
    OBVIOUS
  <2>3. /\ telemetry' \in [Matches -> Seq(Submissions)]
        /\ marked' \in [Matches -> Time \cup {Never}]
        /\ ledger' \subseteq Matches \X Time
        /\ sidecar' \subseteq Submissions
    BY <1>6, <2>2 DEF Delete, StoreOK
  <2>4. place' \in [Submissions ->
            {"none", "written", "pending", "processing", "done", "failed", "removed"}]
    BY <1>6 DEF Delete, StoreOK
  <2>5. player' \in [Players -> [last : Time \cup {Never}, counted : [Submissions -> Nat]]]
    BY <1>6, <2>1 DEF Delete, StoreOK
  <2>6. StoreOK'
    BY <1>6, <2>3, <2>4, <2>5 DEF Delete, StoreOK
  <2>7. RetOK'
    BY <1>6 DEF Delete, RetOK
  <2> QED
    BY <2>6, <2>7
<1> QED
  BY <1>1, <1>2, <1>3, <1>4, <1>5, <1>6 DEF Run

LEMMA TypeStep ==
    ASSUME IInv, [Next]_vars
    PROVE  StoreOK' /\ RetOK'
<1>1. CASE UNCHANGED vars
  BY <1>1 DEF vars, producerVars, riskVars, IInv, StoreOK, RetOK
<1>2. CASE Surroundings
  BY <1>2, SurroundingsType DEF RetOK, IInv
<1> QED
  BY <1>1, <1>2, RunType DEF Next

-----------------------------------------------------------------------------
(* What the files look like *)

\* Delete finds its file, which is one that the pass lists.
LEMMA DeletedIsThere ==
    ASSUME IInv, NEW x \in ret.todo
    PROVE  /\ ret.pass # 0
           /\ Pass = "telemetry" => x \in Matches /\ telemetry[x] # <<>>
           /\ Pass = "ledger" => \E y \in ledger : x = Day(y[2])
           /\ Pass = "applied" => x \in Matches /\ marked[x] # Never
           /\ Pass \in {"done", "failed"} => x \in Submissions /\ place[x] = Pass
           /\ Pass = "sidecars" => x \in sidecar
           /\ Pass = "players" => x \in Players /\ player[x].last # Never
<1>1. ret.pass # 0
  BY RetFields DEF IInv
<1>2. x \in Files(Pass)
  BY <1>1 DEF IInv, TodoIsThere
<1> QED
  BY <1>1, <1>2 DEF Files

\* Where an event may go from.
LEMMA PlaceStep ==
    ASSUME IInv, [Next]_vars
    PROVE  \/ UNCHANGED place
           \/ \E s \in Submissions, where \in {"written", "pending", "processing", "done",
                                             "failed", "removed"} :
                 /\ place' = [place EXCEPT ![s] = where]
                 /\ place[s] = "none" => WriteLine(s) /\ where = "written"
                 /\ place[s] \in {"none", "written", "pending", "processing"} =>
                        where # "removed"
                 /\ place[s] \in {"done", "failed"} => where = "removed" /\ Pass = place[s]
                 /\ place[s] # "removed"
                 /\ place[s] = "processing" => job.of = s /\ job' = Idle
                 /\ where = "processing" => job'.of = s
                 /\ where \in {"written", "pending"} => UNCHANGED <<job, marked>>
<1> USE NoEventAssumption DEF IInv, Goto, Retire
<1>1. ASSUME NEW s \in Submissions, ScoreLine(s) \/ Finish(s)
      PROVE  place[s] = "processing"
  BY <1>1 DEF ScoreLine, Finish, JobInv
<1>2. ASSUME NEW s \in Submissions, WriteLine(s)
      PROVE  /\ place' = [place EXCEPT ![s] = "written"] /\ place[s] = "none"
             /\ UNCHANGED <<job, marked>>
  BY <1>2 DEF WriteLine, riskVars
<1>3. ASSUME NEW s \in Submissions, Enqueue(s)
      PROVE  /\ place' = [place EXCEPT ![s] = "pending"] /\ place[s] = "written"
             /\ UNCHANGED <<job, marked>>
  BY <1>3 DEF Enqueue, riskVars
<1>4. ASSUME NEW s \in Submissions, Take(s)
      PROVE  /\ place[s] = "pending"
             /\ \/ place' = [place EXCEPT ![s] = "done"]
                \/ place' = [place EXCEPT ![s] = "failed"]
                \/ place' = [place EXCEPT ![s] = "processing"] /\ job'.of = s
  BY <1>4 DEF Take
<1>5. ASSUME NEW s \in Submissions, ScoreLine(s)
      PROVE  \/ UNCHANGED place
             \/ place' = [place EXCEPT ![s] = "failed"] /\ job.of = s /\ job' = Idle
  BY <1>5 DEF ScoreLine
<1>6. ASSUME NEW s \in Submissions, Finish(s)
      PROVE  place' = [place EXCEPT ![s] = "done"] /\ job.of = s /\ job' = Idle
  BY <1>6 DEF Finish
<1>7. ASSUME NEW x \in ret.todo, Delete(x)
      PROVE  \/ UNCHANGED place
             \/ /\ place' = [place EXCEPT ![x] = "removed"]
                /\ x \in Submissions /\ place[x] = Pass /\ Pass \in {"done", "failed"}
  BY <1>7, DeletedIsThere DEF Delete
<1>8. CASE \/ Tick \/ StartRun \/ NextPass \/ PassError \/ Killed \/ UNCHANGED vars
           \/ \E x \in ret.todo : Look(x)
  BY <1>8 DEF Tick, StartRun, NextPass, PassError, Killed, Look, vars
<1> QED
  BY <1>1, <1>2, <1>3, <1>4, <1>5, <1>6, <1>7, <1>8 DEF Next, Surroundings, Run

\* Only WriteLine stamps, and only Tick moves the clock.
LEMMA TimeStep ==
    ASSUME [Next]_vars
    PROVE  /\ clock' = clock \/ clock' = clock + 1
           /\ at' = at \/ \E s \in Submissions : WriteLine(s)
<1>1. clock' = clock \/ Tick
  BY DEF Next, Surroundings, Run, WriteLine, Enqueue, Take, ScoreLine, Finish, StartRun,
         NextPass, PassError, Killed, Look, Delete, vars
<1>2. at' = at \/ \E s \in Submissions : WriteLine(s)
  BY DEF Next, Surroundings, Run, Tick, Enqueue, Take, ScoreLine, Finish, StartRun,
         NextPass, PassError, Killed, Look, Delete, vars, producerVars
<1> QED
  BY <1>1, <1>2 DEF Tick

LEMMA StampStep ==
    ASSUME IInv, [Next]_vars
    PROVE  StampInv'
<1> USE TimeFacts DEF IInv, StoreOK, StampInv
<1>1. ASSUME NEW s \in Submissions, WriteLine(s) PROVE StampInv'
  BY <1>1 DEF WriteLine, Goto
<1>2. CASE \A s \in Submissions : ~WriteLine(s)
  <2>1. at' = at /\ (clock' = clock \/ clock' = clock + 1)
    BY <1>2, TimeStep
  <2>2. \A s \in Submissions : place'[s] = "none" <=> place[s] = "none"
    BY <1>2, PlaceStep
  <2>3. clock \in Nat /\ \A s \in Submissions : at[s] \in Nat /\ at[s] <= clock
    BY StampsAreNumbers
  <2>4. \A s \in Submissions : at[s] <= clock'
    BY <2>1, <2>3
  <2> QED
    BY <2>1, <2>2, <2>4
<1> QED
  BY <1>1, <1>2

LEMMA FileStep ==
    ASSUME IInv, [Next]_vars
    PROVE  FileInv'
<1>0. /\ telemetry \in [Matches -> Seq(Submissions)]
      /\ at \in [Submissions -> Nat] /\ clock \in Nat /\ clock # Never
      /\ MatchOf \in [Submissions -> Matches]
      /\ StampInv /\ FileInv
  BY StampsAreNumbers, MatchOfAssumption DEF IInv, StoreOK
<1>1. ASSUME NEW s \in Submissions, WriteLine(s) PROVE FileInv'
  <2> DEFINE m == MatchOf[s]
  <2>1. /\ telemetry' = [telemetry EXCEPT ![m] = Append(telemetry[m], s)]
        /\ at' = [at EXCEPT ![s] = clock] /\ at[s] = Never
    BY <1>0, <1>1 DEF WriteLine, StampInv
  <2>2. \A n \in Matches : n # m => telemetry'[n] = telemetry[n]
    BY <1>0, <2>1
  <2>3. /\ telemetry'[m] = Append(telemetry[m], s) /\ telemetry[m] \in Seq(Submissions)
        /\ m \in Matches /\ MatchOf[s] = m
    BY <1>0, <2>1
  <2>4. ASSUME NEW n \in Matches, NEW i \in DOMAIN telemetry[n]
        PROVE  /\ telemetry[n][i] \in Submissions /\ telemetry[n][i] # s
               /\ at'[telemetry[n][i]] = at[telemetry[n][i]]
               /\ at[telemetry[n][i]] <= clock
    BY <1>0, <2>1 DEF FileInv, StampInv
  <2>5. at'[s] = clock /\ clock # Never
    BY <1>0, <2>1
  <2> HIDE DEF m
  <2>6. ASSUME NEW n \in Matches, n # m, NEW i \in DOMAIN telemetry'[n]
        PROVE  LET r == telemetry'[n][i]
               IN  /\ MatchOf[r] = n
                   /\ at'[r] # Never
                   /\ \A k \in DOMAIN telemetry'[n] :
                         i < k => r # telemetry'[n][k] /\ at'[r] <= at'[telemetry'[n][k]]
    BY <1>0, <2>2, <2>4, <2>6 DEF FileInv
  <2>7. ASSUME NEW i \in DOMAIN telemetry'[m]
        PROVE  LET r == telemetry'[m][i]
               IN  /\ MatchOf[r] = m
                   /\ at'[r] # Never
                   /\ \A k \in DOMAIN telemetry'[m] :
                         i < k => r # telemetry'[m][k] /\ at'[r] <= at'[telemetry'[m][k]]
    <3>1. /\ i \in 1..(Len(telemetry[m]) + 1) /\ DOMAIN telemetry'[m] = 1..(Len(telemetry[m]) + 1)
          /\ Len(telemetry[m]) \in Nat /\ DOMAIN telemetry[m] = 1..Len(telemetry[m])
      BY <2>3
    <3>2. \A k \in DOMAIN telemetry'[m] :
             \/ k \in DOMAIN telemetry[m] /\ telemetry'[m][k] = telemetry[m][k]
             \/ k = Len(telemetry[m]) + 1 /\ telemetry'[m][k] = s
      BY <2>3, <3>1
    <3>3. CASE i \in DOMAIN telemetry[m]
      <4> DEFINE r == telemetry[m][i]
      <4>1. telemetry'[m][i] = r /\ r # s /\ at'[r] = at[r] /\ at[r] <= clock
        BY <2>3, <2>4, <3>1, <3>2, <3>3
      <4>2. MatchOf[r] = m /\ at[r] # Never
        BY <1>0, <2>3, <3>3 DEF FileInv
      <4>3. ASSUME NEW k \in DOMAIN telemetry[m], i < k
            PROVE  /\ r # telemetry[m][k] /\ at[r] <= at[telemetry[m][k]]
                   /\ at'[telemetry[m][k]] = at[telemetry[m][k]]
        BY <1>0, <2>3, <2>4, <3>3, <4>3 DEF FileInv
      <4> HIDE DEF r
      <4> QED
        BY <2>5, <3>2, <4>1, <4>2, <4>3
    <3>4. CASE i = Len(telemetry[m]) + 1
      <4>1. telemetry'[m][i] = s
        BY <3>1, <3>2, <3>4
      <4>2. \A k \in DOMAIN telemetry'[m] : ~(i < k)
        BY <3>1, <3>4
      <4> QED
        BY <2>3, <2>5, <4>1, <4>2
    <3> QED
      BY <3>1, <3>3, <3>4
  <2> QED
    BY <2>6, <2>7 DEF FileInv
<1>2. ASSUME NEW x \in ret.todo, Delete(x) PROVE FileInv'
  <2>1. \A m \in Matches : telemetry'[m] = telemetry[m] \/ telemetry'[m] = <<>>
    BY <1>0, <1>2 DEF Delete
  <2>2. at' = at
    BY <1>2 DEF Delete
  <2>3. \A m \in Matches : telemetry'[m] # telemetry[m] => DOMAIN telemetry'[m] = {}
    BY <2>1
  <2> QED
    BY <1>0, <2>2, <2>3 DEF FileInv
<1>3. CASE UNCHANGED <<telemetry, at>>
  BY <1>0, <1>3 DEF FileInv
<1>4. \/ UNCHANGED <<telemetry, at>>
      \/ \E s \in Submissions : WriteLine(s)
      \/ \E x \in ret.todo : Delete(x)
  BY DEF Next, Surroundings, Run, Tick, Enqueue, Take, ScoreLine, Finish, StartRun,
         NextPass, PassError, Killed, Look, vars, producerVars
<1> QED
  BY <1>1, <1>2, <1>3, <1>4

LEMMA JobStep ==
    ASSUME IInv, [Next]_vars
    PROVE  JobInv'
<1> USE TimeFacts, MatchOfAssumption, NoEventAssumption DEF IInv, StoreOK
<1>1. CASE job' = Idle
  BY <1>1 DEF JobInv, Idle
<1>2. ASSUME NEW s \in Submissions, Take(s) PROVE JobInv'
  <2>1. CASE job' = job
    BY <1>1, <1>2, <2>1 DEF Take
  <2>2. CASE job' # job
    <3>1. /\ job' = [of |-> s, lines |-> telemetry[MatchOf[s]],
                     last |-> at[Last(telemetry[MatchOf[s]])]]
          /\ marked[MatchOf[s]] = Never /\ telemetry[MatchOf[s]] # <<>>
          /\ place' = [place EXCEPT ![s] = "processing"]
          /\ UNCHANGED <<marked, at>>
      BY <1>2, <2>2 DEF Take, Goto, producerVars
    <3>2. telemetry[MatchOf[s]] \in Seq(Submissions) /\ MatchOf[s] \in Matches
      OBVIOUS
    <3>3. Len(telemetry[MatchOf[s]]) \in DOMAIN telemetry[MatchOf[s]]
      BY <3>1, <3>2
    <3>4. job'.last # Never
      BY <3>1, <3>2, <3>3 DEF Last, FileInv
    <3> QED
      BY <3>1, <3>2, <3>4 DEF JobInv, FileInv
  <2> QED
    BY <2>1, <2>2
<1>3. ASSUME NEW s \in Submissions, ScoreLine(s) PROVE JobInv'
  <2>1. CASE job' # Idle
    <3> DEFINE n == Len(job.lines)
    <3>1. /\ job' = [job EXCEPT !.lines = Tail(job.lines)] /\ job.lines # <<>>
          /\ UNCHANGED <<place, marked, at>>
      BY <1>3, <2>1 DEF ScoreLine, producerVars
    <3>2. /\ job.lines \in Seq(Submissions) /\ n \in Nat \ {0} /\ DOMAIN job.lines = 1..n
          /\ DOMAIN Tail(job.lines) = 1..(n - 1)
          /\ \A i \in 1..(n - 1) : Tail(job.lines)[i] = job.lines[i + 1]
      BY <3>1
    <3>3. /\ job'.of = job.of /\ job'.last = job.last /\ job'.lines = Tail(job.lines)
          /\ job.of = s
      BY <1>3, <3>1 DEF ScoreLine
    <3>4. \A i \in DOMAIN job'.lines : i + 1 \in DOMAIN job.lines /\ job'.lines[i] = job.lines[i + 1]
      BY <3>2, <3>3
    <3> QED
      BY <3>1, <3>2, <3>3, <3>4 DEF JobInv
  <2> QED
    BY <1>1, <2>1
<1>4. ASSUME UNCHANGED job PROVE JobInv'
  <2>1. CASE job.of = NoEvent
    BY <1>4, <2>1 DEF JobInv
  <2>2. CASE job.of # NoEvent
    <3>0. job.of \in Submissions /\ job # Idle
      BY <2>2 DEF Idle
    <3>1. place'[job.of] = "processing"
      BY <1>4, <2>2, <3>0, PlaceStep DEF JobInv
    <3>2. marked'[MatchOf[job.of]] = Never
      <4>1. ASSUME NEW x \in ret.todo, Delete(x) PROVE marked'[MatchOf[job.of]] = Never
        BY <2>2, <3>0, <4>1 DEF Delete, JobInv
      <4>2. ASSUME NEW s \in Submissions PROVE ~Finish(s)
        BY <1>4, <3>0 DEF Finish
      <4>3. UNCHANGED marked \/ (\E s \in Submissions : Finish(s))
            \/ \E x \in ret.todo : Delete(x)
        BY DEF Next, Surroundings, Run, Tick, WriteLine, Enqueue, Take, ScoreLine, StartRun,
               NextPass, PassError, Killed, Look, vars, riskVars
      <4> QED
        BY <2>2, <4>1, <4>2, <4>3 DEF JobInv
    <3>3. \A s \in Submissions : at[s] # Never => at'[s] # Never
      <4>1. ASSUME NEW s \in Submissions, WriteLine(s)
            PROVE  at' = [at EXCEPT ![s] = clock]
        BY <4>1 DEF WriteLine
      <4> QED
        BY <4>1, TimeStep
    <3> QED
      BY <1>4, <2>2, <3>0, <3>1, <3>2, <3>3 DEF JobInv
  <2> QED
    BY <2>1, <2>2
<1>5. \/ UNCHANGED job \/ job' = Idle
      \/ \E s \in Submissions : Take(s) \/ ScoreLine(s)
  BY DEF Next, Surroundings, Run, Tick, WriteLine, Enqueue, Finish, StartRun,
         NextPass, PassError, Killed, Look, Delete, vars, riskVars
<1> QED
  BY <1>1, <1>2, <1>3, <1>4, <1>5

-----------------------------------------------------------------------------
(* What the run knows *)

\* The surroundings only add to what a pass lists.
LEMMA FilesStay ==
    ASSUME IInv, Surroundings, ret.pass # 0
    PROVE  Files(Pass) \subseteq Files(Pass)' /\ UNCHANGED ret
<1> USE TimeFacts DEF IInv
<1>1. UNCHANGED ret
  BY DEF Surroundings, Tick, WriteLine, Enqueue, Take, ScoreLine, Finish
<1>2. Pass' = Pass
  BY <1>1 DEF Pass
<1>3. ASSUME NEW m \in Matches, telemetry[m] # <<>> PROVE telemetry'[m] # <<>>
  <2>1. ASSUME NEW s \in Submissions, WriteLine(s) PROVE telemetry'[m] # <<>>
    <3>1. telemetry' = [telemetry EXCEPT ![MatchOf[s]] = Append(telemetry[MatchOf[s]], s)]
      BY <2>1 DEF WriteLine
    <3>2. telemetry[MatchOf[s]] \in Seq(Submissions)
      BY MatchOfAssumption DEF StoreOK
    <3>3. Append(telemetry[MatchOf[s]], s) # <<>>
      BY <3>2
    <3> QED
      BY <1>3, <3>1, <3>3 DEF StoreOK
  <2>2. UNCHANGED telemetry \/ \E s \in Submissions : WriteLine(s)
    BY DEF Surroundings, Tick, Enqueue, Take, ScoreLine, Finish, producerVars
  <2> QED
    BY <1>3, <2>1, <2>2
<1>4. ledger \subseteq ledger'
  BY DEF Surroundings, Tick, WriteLine, Enqueue, Take, ScoreLine, Finish, riskVars
<1>5. ASSUME NEW m \in Matches, marked[m] # Never PROVE marked'[m] # Never
  <2>1. ASSUME NEW s \in Submissions, Finish(s) PROVE marked'[m] # Never
    BY <1>5, <2>1, StampsAreNumbers DEF Finish, StoreOK
  <2>2. UNCHANGED marked \/ \E s \in Submissions : Finish(s)
    BY DEF Surroundings, Tick, WriteLine, Enqueue, Take, ScoreLine, riskVars
  <2> QED
    BY <1>5, <2>1, <2>2
<1>6. ASSUME NEW s \in Submissions, place[s] \in {"done", "failed"} PROVE place'[s] = place[s]
  <2>1. ~\E x \in ret.todo : Delete(x) /\ ~UNCHANGED ret
    BY <1>1
  <2>2. ASSUME NEW r \in Submissions, Enqueue(r) \/ WriteLine(r) \/ Take(r)
        PROVE  r # s /\ place'[s] = place[s]
    BY <1>6, <2>2 DEF Enqueue, WriteLine, Take, Retire, Goto, StoreOK
  <2>3. ASSUME NEW r \in Submissions, ScoreLine(r) \/ Finish(r)
        PROVE  place'[s] = place[s]
    <3>1. place[r] = "processing"
      BY <2>3, NoEventAssumption DEF ScoreLine, Finish, JobInv
    <3> QED
      BY <1>6, <2>3, <3>1 DEF ScoreLine, Finish, Retire, Goto, StoreOK
  <2>4. CASE Tick
    BY <2>4 DEF Tick
  <2> QED
    BY <2>2, <2>3, <2>4 DEF Surroundings
<1>7. sidecar \subseteq sidecar'
  BY DEF Surroundings, Tick, WriteLine, Enqueue, Take, ScoreLine, Finish, Retire
<1>8. ASSUME NEW p \in Players, player[p].last # Never PROVE player'[p].last # Never
  <2>1. ASSUME NEW s \in Submissions, ScoreLine(s), player' # player
        PROVE  player'[p].last # Never
    <3> DEFINE line == Head(job.lines)
    <3>1. job.lines \in Seq(Submissions) /\ job.lines # <<>> /\ job.of \in Submissions
      BY <2>1 DEF ScoreLine, StoreOK
    <3>2. at[line] # Never
      BY <3>1, NoEventAssumption DEF JobInv
    <3>3. player' = [player EXCEPT ![PlayerOf[line]] = Counted(PlayerOf[line], line)]
      BY <2>1, LineIsTaken DEF ScoreLine
    <3>4. Counted(PlayerOf[line], line).last = at[line]
      BY DEF Counted
    <3> HIDE DEF line
    <3> QED
      BY <1>8, <3>2, <3>3, <3>4 DEF StoreOK
  <2>2. UNCHANGED player \/ \E s \in Submissions : ScoreLine(s)
    BY DEF Surroundings, Tick, WriteLine, Enqueue, Take, Finish, riskVars
  <2> QED
    BY <1>8, <2>1, <2>2
<1> QED
  BY <1>1, <1>2, <1>3, <1>4, <1>5, <1>6, <1>7, <1>8, RetFields DEF Files

LEMMA TodoStep ==
    ASSUME IInv, [Next]_vars
    PROVE  TodoIsThere'
<1> USE DEF IInv
<1>1. CASE Surroundings
  <2>1. CASE ret.pass = 0
    BY <1>1, <2>1 DEF TodoIsThere, Surroundings, Tick, WriteLine, Enqueue, Take, ScoreLine,
                      Finish
  <2>2. CASE ret.pass # 0
    <3>1. Files(Pass) \subseteq Files(Pass)' /\ UNCHANGED ret
      BY <1>1, <2>2, FilesStay
    <3> QED
      BY <2>2, <3>1 DEF TodoIsThere
  <2> QED
    BY <2>1, <2>2
<1>2. CASE UNCHANGED vars
  BY <1>2 DEF vars, producerVars, riskVars, TodoIsThere, Files, Pass
<1>3. CASE StartRun
  BY <1>3 DEF StartRun, producerVars, riskVars, TodoIsThere, Files, Pass
<1>4. CASE NextPass
  <2>1. CASE ret' = Stopped
    BY <2>1 DEF TodoIsThere, Stopped
  <2>2. CASE ret' # Stopped
    <3> DEFINE next == Files(Passes[ret.pass + 1])
    <3>1. ret' = [ret EXCEPT !.pass = @ + 1, !.todo = next]
      BY <1>4, <2>2, Zenon DEF NextPass
    <3>2. ret'.pass = ret.pass + 1 /\ ret'.todo = next
      BY <3>1 DEF RetOK
    <3>3. Files(Pass)' = next
      BY <1>4, <3>2 DEF NextPass, producerVars, riskVars, Files, Pass
    <3> QED
      BY <3>2, <3>3 DEF TodoIsThere
  <2> QED
    BY <2>1, <2>2
<1>5. CASE Killed
  BY <1>5 DEF Killed, TodoIsThere, Stopped
<1>6. ASSUME ret'.pass = ret.pass, ret'.todo \subseteq ret.todo,
             UNCHANGED <<producerVars, place, sidecar, riskVars>>
      PROVE  TodoIsThere'
  <2>1. Files(Pass)' = Files(Pass)
    BY <1>6 DEF producerVars, riskVars, Files, Pass
  <2> QED
    BY <1>6, <2>1 DEF TodoIsThere
<1>7. CASE PassError
  BY <1>6, <1>7 DEF PassError, RetOK
<1>8. ASSUME NEW x \in ret.todo, Look(x) PROVE TodoIsThere'
  BY <1>6, <1>8 DEF Look, RetOK
<1>9. ASSUME NEW x \in ret.todo, Delete(x) PROVE TodoIsThere'
  <2>1. ret'.pass = ret.pass /\ ret'.todo = ret.todo \ {x} /\ Pass' = Pass /\ ret.pass # 0
    BY <1>9, DeletedIsThere DEF Delete, RetOK, Pass
  <2>2. ASSUME NEW y \in Files(Pass), y # x PROVE y \in Files(Pass)'
    <3>1. CASE Pass = "telemetry"
      BY <1>9, <2>1, <2>2, <3>1 DEF Delete, Files, StoreOK
    <3>2. CASE Pass = "ledger"
      BY <1>9, <2>1, <2>2, <3>2 DEF Delete, Files, StoreOK
    <3>3. CASE Pass = "applied"
      BY <1>9, <2>1, <2>2, <3>3 DEF Delete, Files, StoreOK
    <3>4. CASE Pass \in {"done", "failed"}
      BY <1>9, <2>1, <2>2, <3>4 DEF Delete, Files, StoreOK
    <3>5. CASE Pass = "sidecars"
      BY <1>9, <2>1, <2>2, <3>5 DEF Delete, Files, StoreOK
    <3>6. CASE Pass = "players"
      BY <1>9, <2>1, <2>2, <3>6 DEF Delete, Files, StoreOK
    <3> QED
      BY <2>1, <3>1, <3>2, <3>3, <3>4, <3>5, <3>6, RetFields
  <2> QED
    BY <2>1, <2>2 DEF TodoIsThere
<1> QED
  BY <1>1, <1>2, <1>3, <1>4, <1>5, <1>7, <1>8, <1>9 DEF Next, Run

LEMMA CutoffStep ==
    ASSUME IInv, [Next]_vars
    PROVE  CutoffInv'
<1>0. /\ clock \in Nat /\ Keep \in Nat /\ Keep <= clock
      /\ clock' = clock \/ clock' = clock + 1
      /\ ret.cutoff \in Nat /\ CutoffInv /\ RetOK
  <2>1. clock \in Nat /\ Keep \in Nat /\ MaxTime \in Nat
    BY StampsAreNumbers, TimeFacts DEF IInv
  <2>2. Keep <= clock /\ ret.cutoff \in Nat
    BY <2>1 DEF IInv, RetOK, StoreOK, Time
  <2> QED
    BY <2>1, <2>2, TimeStep DEF IInv
<1>1. CASE StartRun
  BY <1>0, <1>1 DEF StartRun, CutoffInv
<1>2. CASE UNCHANGED ret
  BY <1>0, <1>2 DEF CutoffInv
<1>3. CASE ret' = Stopped
  BY <1>3 DEF CutoffInv, Stopped
<1>4. CASE NextPass \/ PassError \/ \E x \in ret.todo : Look(x) \/ Delete(x)
  <2>1. ret' = Stopped \/ (ret'.cutoff = ret.cutoff /\ ret.pass # 0)
    BY <1>0, <1>4, RetFields DEF NextPass, PassError, Look, Delete, RetOK
  <2> QED
    BY <1>0, <1>3, <2>1 DEF CutoffInv
<1>5. UNCHANGED ret \/ StartRun \/ NextPass \/ PassError \/ ret' = Stopped
      \/ \E x \in ret.todo : Look(x) \/ Delete(x)
  BY DEF Next, Surroundings, Run, Tick, WriteLine, Enqueue, Take, ScoreLine, Finish, Killed, vars
<1> QED
  BY <1>1, <1>2, <1>3, <1>4, <1>5

LEMMA DoomedStep ==
    ASSUME IInv, [Next]_vars
    PROVE  DoomedInv'
<1> USE DEF IInv
<1>1. CASE ret'.doomed = {}
  BY <1>1 DEF DoomedInv
<1>2. CASE UNCHANGED ret /\ ret.pass # 0
  <2> SUFFICES ASSUME NEW x \in ret.doomed
               PROVE  /\ Pass = "ledger" => LedgerIsOld(x)'
                      /\ Pass = "applied" => MarkerIsOld(x)'
                      /\ Pass \in {"done", "failed"} => EventIsOld(x)'
    BY <1>2 DEF DoomedInv, Pass
  <2>0. /\ x \in ret.todo
        /\ Pass = "applied" => x \in Matches /\ marked[x] # Never
        /\ Pass \in {"done", "failed"} => x \in Submissions /\ place[x] = Pass
    BY DeletedIsThere DEF RetOK
  <2>1. Pass = "ledger" => LedgerIsOld(x)'
    BY <1>2 DEF DoomedInv, LedgerIsOld
  <2>2. ASSUME Pass = "applied" PROVE MarkerIsOld(x)'
    <3>1. ASSUME NEW s \in Submissions, Finish(s) PROVE marked'[x] = marked[x]
      <4>1. marked[MatchOf[s]] = Never
        BY <3>1, NoEventAssumption DEF Finish, JobInv
      <4> QED
        BY <2>0, <2>2, <3>1, <4>1 DEF Finish, StoreOK
    <3>2. UNCHANGED marked \/ \E s \in Submissions : Finish(s)
      <4>1. ASSUME NEW y \in ret.todo, Delete(y) PROVE FALSE
        BY <1>2, <4>1 DEF Delete, RetOK
      <4> QED
        BY <4>1 DEF Next, Surroundings, Run, Tick, WriteLine, Enqueue, Take, ScoreLine, StartRun,
                NextPass, PassError, Killed, Look, vars, riskVars
    <3> QED
      BY <1>2, <2>2, <3>1, <3>2 DEF DoomedInv, MarkerIsOld
  <2>3. ASSUME Pass \in {"done", "failed"} PROVE EventIsOld(x)'
    <3>1. ASSUME NEW s \in Submissions, Enqueue(s) PROVE created'[x] = created[x]
      BY <2>0, <2>3, <3>1 DEF Enqueue, StoreOK
    <3>2. UNCHANGED created \/ \E s \in Submissions : Enqueue(s)
      BY DEF Next, Surroundings, Run, Tick, WriteLine, Take, ScoreLine, Finish, StartRun,
             NextPass, PassError, Killed, Look, Delete, vars, producerVars
    <3> QED
      BY <1>2, <2>3, <3>1, <3>2 DEF DoomedInv, EventIsOld
  <2> QED
    BY <2>1, <2>2, <2>3
<1>3. ASSUME NEW x \in ret.todo, Look(x) PROVE DoomedInv'
  <2>1. CASE IsOld(x)
    <3>1. ret' = [ret EXCEPT !.doomed = {x}] /\ UNCHANGED <<created, marked>>
      BY <1>3, <2>1 DEF Look, producerVars, riskVars
    <3>2. ret'.pass = ret.pass /\ ret'.doomed = {x} /\ ret'.cutoff = ret.cutoff /\ Pass' = Pass
      BY <3>1 DEF RetOK, Pass
    <3> QED
      BY <2>1, <3>1, <3>2 DEF DoomedInv, IsOld, LedgerIsOld, MarkerIsOld, EventIsOld
  <2>2. CASE ~IsOld(x)
    <3>1. ret'.doomed = {}
      BY <1>3, <2>2 DEF Look, RetOK
    <3> QED
      BY <1>1, <3>1
  <2> QED
    BY <2>1, <2>2
<1>4. CASE StartRun \/ NextPass \/ PassError \/ Killed \/ \E x \in ret.todo : Delete(x)
  <2>1. CASE NextPass
    <3>1. ret.doomed = {}
      BY <2>1 DEF NextPass, RetOK
    <3>2. ret' = Stopped \/ ret'.doomed = ret.doomed
      BY <2>1 DEF NextPass, RetOK
    <3> QED
      BY <1>1, <3>1, <3>2 DEF Stopped
  <2>2. CASE StartRun \/ PassError \/ Killed \/ \E x \in ret.todo : Delete(x)
    <3>1. CASE StartRun
      BY <1>1, <3>1 DEF StartRun
    <3>2. CASE Killed
      BY <1>1, <3>2 DEF Killed, Stopped
    <3>3. CASE PassError \/ \E x \in ret.todo : Delete(x)
      BY <1>1, <3>3 DEF PassError, Delete, RetOK
    <3> QED
      BY <2>2, <3>1, <3>2, <3>3
  <2> QED
    BY <1>4, <2>1, <2>2
<1>5. CASE UNCHANGED ret /\ ret.pass = 0
  BY <1>5 DEF DoomedInv
<1>6. UNCHANGED ret \/ StartRun \/ NextPass \/ PassError \/ Killed
      \/ \E x \in ret.todo : Look(x) \/ Delete(x)
  BY DEF Next, Surroundings, Run, Tick, WriteLine, Enqueue, Take, ScoreLine, Finish, vars
<1> QED
  BY <1>2, <1>3, <1>4, <1>5, <1>6

LEMMA IInvStep ==
    ASSUME IInv, [Next]_vars
    PROVE  IInv'
BY TypeStep, StampStep, FileStep, JobStep, TodoStep, CutoffStep, DoomedStep DEF IInv

LEMMA AlwaysIInv == Spec => []IInv
BY InitIInv, IInvStep, PTL DEF Spec

\* Every variable keeps its type, whatever the run meets.
THEOREM TypeCorrect == Spec => []TypeOK
<1>1. IInv => TypeOK
  BY TypeParts DEF IInv
<1> QED
  BY <1>1, AlwaysIInv, PTL

\* A pass never meets a file that has gone since it listed its directory, as
\* the run is the only one to remove what it lists, so that os.Remove and the
\* reads before it have no "not exist" to handle.
THEOREM ListedIsThere == Spec => []TodoIsThere
<1>1. IInv => TodoIsThere
  BY DEF IInv
<1> QED
  BY <1>1, AlwaysIInv, PTL

-----------------------------------------------------------------------------
(* With Prompt: the telemetry that is removed is of no use to anybody *)

\* Nothing starts to wait but by WriteLine.
LEMMA SettledStays ==
    ASSUME IInv, [Next]_vars, \A s \in Submissions : ~WriteLine(s),
           NEW s \in Submissions, Unsettled(s)'
    PROVE  Unsettled(s)
<1>1. place \in [Submissions ->
          {"none", "written", "pending", "processing", "done", "failed", "removed"}]
  BY DEF IInv, StoreOK
<1>2. CASE UNCHANGED place
  BY <1>2 DEF Unsettled
<1>3. ASSUME NEW r \in Submissions,
             NEW where \in {"written", "pending", "processing", "done", "failed", "removed"},
             place' = [place EXCEPT ![r] = where],
             place[r] \in {"done", "failed"} => where = "removed",
             place[r] # "none", place[r] # "removed"
      PROVE  Unsettled(s)
  BY <1>1, <1>3 DEF Unsettled
<1> QED
  BY <1>2, <1>3, PlaceStep

LEMMA InitPromptInv == Init => PromptInv
BY DEF Init, PromptInv, Unsettled, UnsettledHasTelemetry, Stopped

\* The window of a waiting event.
LEMMA WindowStep ==
    ASSUME Prompt, IInv, PromptInv, [Next]_vars
    PROVE  (\A s \in Submissions : Unsettled(s) => WithinWindow(s, clock))'
<1> USE StampsAreNumbers, TimeFacts DEF IInv
<1>1. CASE Tick
  BY <1>1 DEF Tick, producerVars, Unsettled, WithinWindow
<1>2. ASSUME NEW s \in Submissions, WriteLine(s)
      PROVE  (\A r \in Submissions : Unsettled(r) => WithinWindow(r, clock))'
  <2>1. /\ at' = [at EXCEPT ![s] = clock] /\ place' = [place EXCEPT ![s] = "written"]
        /\ clock' = clock /\ WithinWindow(s, clock)
    BY <1>2 DEF WriteLine, Goto
  <2>2. clock <= clock + Keep
    OBVIOUS
  <2> QED
    BY <2>1, <2>2 DEF PromptInv, Unsettled, WithinWindow, StoreOK
<1>3. CASE ~Tick /\ \A s \in Submissions : ~WriteLine(s)
  <2>1. at' = at /\ clock' = clock
    <3>1. clock' = clock
      BY <1>3 DEF Next, Surroundings, Run, WriteLine, Enqueue, Take, ScoreLine, Finish,
             StartRun, NextPass, PassError, Killed, Look, Delete, vars
    <3> QED
      BY <1>3, <3>1, TimeStep
  <2>2. \A s \in Submissions : Unsettled(s)' => Unsettled(s)
    BY <1>3, SettledStays
  <2> QED
    BY <2>1, <2>2 DEF PromptInv, WithinWindow
<1> QED
  BY <1>1, <1>2, <1>3

\* A telemetry file that is about to be removed has no line within the window
\* of a waiting event.
LEMMA DeletedIsOver ==
    ASSUME IInv, PromptInv, NEW m \in Matches, NEW x \in ret.todo, Delete(x),
           telemetry'[m] # telemetry[m]
    PROVE  /\ telemetry'[m] = <<>>
           /\ \A i \in DOMAIN telemetry[m] : at[telemetry[m][i]] + Keep < clock
           /\ \A s \in Submissions : MatchOf[s] = m => ~Unsettled(s)
<1> USE StampsAreNumbers, TimeFacts, DeletedIsThere DEF IInv
<1>1. Pass = "telemetry" /\ x = m /\ ret.pass # 0 /\ m \in ret.doomed
  BY DEF Delete, StoreOK
<1>2. telemetry'[m] = <<>>
  BY <1>1 DEF Delete, StoreOK
<1>3. ret.cutoff + Keep <= clock /\ ret.cutoff \in Nat
  BY <1>1 DEF CutoffInv, RetOK
<1>4. ASSUME NEW i \in DOMAIN telemetry[m]
      PROVE  /\ at[telemetry[m][i]] + Keep < clock
             /\ telemetry[m][i] \in Submissions /\ MatchOf[telemetry[m][i]] = m
             /\ at[telemetry[m][i]] # Never
  <2>1. telemetry[m] \in Seq(Submissions)
    BY DEF StoreOK
  <2>2. telemetry[m][i] \in Submissions /\ at[telemetry[m][i]] \in Nat
    BY <2>1
  <2>3. at[telemetry[m][i]] < ret.cutoff
    BY <1>1 DEF PromptInv
  <2> QED
    BY <1>3, <2>2, <2>3 DEF FileInv
<1>5. ASSUME NEW s \in Submissions, MatchOf[s] = m, Unsettled(s) PROVE FALSE
  <2>1. telemetry[m] \in Seq(Submissions) /\ telemetry[m] # <<>>
    BY <1>1 DEF StoreOK
  <2>2. 1 \in DOMAIN telemetry[m]
    BY <2>1
  <2> DEFINE r == telemetry[m][1]
  <2>3. r \in Submissions /\ at[r] + Keep < clock /\ MatchOf[r] = MatchOf[s] /\ at[r] # Never
    BY <1>4, <1>5, <2>2
  <2>4. WithinWindow(s, clock)
    BY <1>5 DEF PromptInv
  <2>5. clock <= at[r] + Keep
    BY <2>3, <2>4 DEF WithinWindow
  <2>6. at[r] \in Nat
    BY <2>3
  <2> QED
    BY <2>3, <2>5, <2>6
<1> QED
  BY <1>2, <1>4, <1>5

LEMMA LinesStep ==
    ASSUME Prompt, IInv, PromptInv, [Next]_vars
    PROVE  UnsettledHasTelemetry'
<1> USE MatchOfAssumption DEF IInv
<1>1. ASSUME NEW s \in Submissions, WriteLine(s) PROVE UnsettledHasTelemetry'
  <2> DEFINE m == MatchOf[s]
  <2>1. /\ telemetry' = [telemetry EXCEPT ![m] = Append(telemetry[m], s)]
        /\ place' = [place EXCEPT ![s] = "written"]
    BY <1>1 DEF WriteLine, Goto
  <2>2. m \in Matches /\ telemetry[m] \in Seq(Submissions)
    BY DEF StoreOK
  <2>3. Range(telemetry'[m]) = Range(telemetry[m]) \cup {s}
    <3>1. telemetry'[m] = Append(telemetry[m], s)
      BY <2>1, <2>2 DEF StoreOK
    <3> QED
      BY <2>2, <3>1 DEF Range
  <2>4. \A n \in Matches : n # m => telemetry'[n] = telemetry[n]
    BY <2>1 DEF StoreOK
  <2> HIDE DEF m
  <2>5. \A n \in Matches : Range(telemetry[n]) \subseteq Range(telemetry'[n])
    BY <2>3, <2>4
  <2>6. s \in Range(telemetry'[MatchOf[s]])
    BY <2>3 DEF m
  <2>7. \A r \in Submissions : Unsettled(r)' => r = s \/ Unsettled(r)
    BY <2>1 DEF Unsettled, StoreOK
  <2> QED
    BY <2>5, <2>6, <2>7 DEF UnsettledHasTelemetry, PromptInv
<1>2. CASE \A s \in Submissions : ~WriteLine(s)
  <2> SUFFICES ASSUME NEW s \in Submissions, Unsettled(s)'
               PROVE  s \in Range(telemetry'[MatchOf[s]])
    BY DEF UnsettledHasTelemetry
  <2>1. Unsettled(s)
    BY <1>2, SettledStays
  <2>2. telemetry'[MatchOf[s]] = telemetry[MatchOf[s]]
    <3>1. UNCHANGED telemetry \/ \E x \in ret.todo : Delete(x)
      BY <1>2 DEF Next, Surroundings, Run, Tick, Enqueue, Take, ScoreLine, Finish, StartRun,
             NextPass, PassError, Killed, Look, vars, producerVars
    <3> QED
      BY <2>1, <3>1, DeletedIsOver
  <2> QED
    BY <2>1, <2>2 DEF UnsettledHasTelemetry, PromptInv
<1> QED
  BY <1>1, <1>2

\* A telemetry file found old stays old: the next line for it would be out of
\* the window of its match.
LEMMA OldFileStep ==
    ASSUME Prompt, IInv, PromptInv, [Next]_vars
    PROVE  (ret.pass # 0 /\ Pass = "telemetry" =>
              \A m \in ret.doomed : \A i \in DOMAIN telemetry[m] :
                  at[telemetry[m][i]] < ret.cutoff)'
<1> USE StampsAreNumbers, TimeFacts, MatchOfAssumption DEF IInv
<1>1. CASE UNCHANGED ret
  <2> SUFFICES ASSUME ret.pass # 0, Pass = "telemetry", NEW m \in ret.doomed
               PROVE  \A i \in DOMAIN telemetry'[m] : at'[telemetry'[m][i]] < ret.cutoff
    BY <1>1 DEF Pass
  <2>1. /\ m \in Matches /\ telemetry[m] # <<>> /\ telemetry[m] \in Seq(Submissions)
        /\ m \in ret.todo
    BY DeletedIsThere DEF RetOK, StoreOK
  <2>2. 1 \in DOMAIN telemetry[m] /\ telemetry[m][1] \in Submissions
    BY <2>1
  <2>3. \A i \in DOMAIN telemetry[m] : at[telemetry[m][i]] < ret.cutoff
    BY DEF PromptInv
  <2>4. ASSUME NEW s \in Submissions, WriteLine(s)
        PROVE  \A i \in DOMAIN telemetry'[m] : at'[telemetry'[m][i]] < ret.cutoff
    <3> DEFINE r == telemetry[m][1]
    <3>1. MatchOf[s] # m
      <4>1. at[r] \in Nat /\ at[r] < ret.cutoff /\ MatchOf[r] = m /\ at[r] # Never
        BY <2>1, <2>2, <2>3 DEF FileInv
      <4>2. ret.cutoff + Keep <= clock /\ ret.cutoff \in Nat
        BY DEF CutoffInv, RetOK
      <4>3. WithinWindow(s, clock)
        BY <2>4 DEF WriteLine
      <4>4. MatchOf[s] = m => clock <= at[r] + Keep
        BY <2>2, <4>1, <4>3 DEF WithinWindow
      <4> QED
        BY <4>1, <4>2, <4>4
    <3>2. telemetry'[m] = telemetry[m] /\ at' = [at EXCEPT ![s] = clock] /\ at[s] = Never
      BY <2>1, <2>4, <3>1 DEF WriteLine, StoreOK, StampInv
    <3>3. \A i \in DOMAIN telemetry[m] :
             telemetry[m][i] \in Submissions /\ at[telemetry[m][i]] # Never
      BY <2>1 DEF FileInv
    <3> QED
      BY <2>3, <3>2, <3>3
  <2>5. CASE \A s \in Submissions : ~WriteLine(s)
    <3>1. at' = at
      BY <2>5, TimeStep
    <3>2. telemetry' = telemetry
      <4>1. ASSUME NEW x \in ret.todo, Delete(x) PROVE FALSE
        BY <1>1, <4>1 DEF Delete, RetOK
      <4> QED
        BY <2>5, <4>1 DEF Next, Surroundings, Run, Tick, Enqueue, Take, ScoreLine, Finish,
                   StartRun, NextPass, PassError, Killed, Look, vars, producerVars
    <3> QED
      BY <2>3, <3>1, <3>2
  <2> QED
    BY <2>4, <2>5
<1>2. ASSUME NEW x \in ret.todo, Look(x), IsOld(x), Pass = "telemetry"
      PROVE  \A m \in ret'.doomed : \A i \in DOMAIN telemetry'[m] :
                 at'[telemetry'[m][i]] < ret'.cutoff
  <2>1. /\ ret'.doomed = {x} /\ ret'.cutoff = ret.cutoff
        /\ telemetry' = telemetry /\ at' = at
    BY <1>2 DEF Look, RetOK, producerVars
  <2>2. x \in Matches /\ telemetry[x] # <<>> /\ telemetry[x] \in Seq(Submissions)
    BY <1>2, DeletedIsThere DEF StoreOK
  <2> DEFINE n == Len(telemetry[x])
  <2>3. n \in Nat /\ n > 0 /\ DOMAIN telemetry[x] = 1..n
    BY <2>2
  <2>4. at[telemetry[x][n]] < ret.cutoff
    BY <1>2 DEF IsOld, TelemetryIsOld, Last
  <2> HIDE DEF n
  <2>a. n \in 1..n /\ \A i \in 1..n : telemetry[x][i] \in Submissions
    BY <2>2, <2>3
  <2>5. ASSUME NEW i \in 1..n PROVE at[telemetry[x][i]] < ret.cutoff
    <3>1. at[telemetry[x][i]] \in Nat /\ at[telemetry[x][n]] \in Nat /\ ret.cutoff \in Nat
      BY <2>a DEF RetOK
    <3>2. i = n \/ at[telemetry[x][i]] <= at[telemetry[x][n]]
      <4>1. i = n \/ i < n
        BY <2>3
      <4> QED
        BY <2>2, <2>3, <2>a, <4>1 DEF FileInv
    <3> QED
      BY <2>4, <3>1, <3>2
  <2> QED
    BY <2>1, <2>3, <2>5
<1>3. CASE ret'.doomed = {}
  BY <1>3
<1>4. \/ UNCHANGED ret \/ ret'.doomed = {}
      \/ \E x \in ret.todo : Look(x) /\ IsOld(x) /\ ret'.pass = ret.pass
  <2>1. CASE NextPass
    <3>1. ret.doomed = {}
      BY <2>1 DEF NextPass, RetOK
    <3>2. ret' = Stopped \/ ret'.doomed = ret.doomed
      BY <2>1 DEF NextPass, RetOK
    <3> QED
      BY <3>1, <3>2 DEF Stopped
  <2>2. CASE StartRun
    BY <2>2 DEF StartRun
  <2>3. CASE Killed
    BY <2>3 DEF Killed, Stopped
  <2>4. CASE PassError \/ \E x \in ret.todo : Delete(x)
    BY <2>4 DEF PassError, Delete, RetOK
  <2>5. ASSUME NEW x \in ret.todo, Look(x)
        PROVE  \/ ret'.doomed = {}
               \/ IsOld(x) /\ ret'.pass = ret.pass
    BY <2>5 DEF Look, RetOK
  <2>6. CASE Surroundings \/ UNCHANGED vars
    BY <2>6 DEF Surroundings, Tick, WriteLine, Enqueue, Take, ScoreLine, Finish, vars
  <2> QED
    BY <2>1, <2>2, <2>3, <2>4, <2>5, <2>6 DEF Next, Run
<1> QED
  BY <1>1, <1>2, <1>3, <1>4 DEF Pass

LEMMA PromptInvStep ==
    ASSUME Prompt, IInv, PromptInv, [Next]_vars
    PROVE  PromptInv'
BY WindowStep, LinesStep, OldFileStep DEF PromptInv

LEMMA AlwaysPromptInv ==
    ASSUME Prompt
    PROVE  Spec => [](IInv /\ PromptInv)
BY InitIInv, InitPromptInv, IInvStep, PromptInvStep, PTL DEF Spec

\* If matches are finished within the window, no run takes away the telemetry
\* of an event that is still to be handled, whenever it is killed or fails.
THEOREM UnsettledKeepsTelemetry ==
    ASSUME Prompt
    PROVE  Spec => []UnsettledHasTelemetry
<1>1. PromptInv => UnsettledHasTelemetry
  BY DEF PromptInv
<1> QED
  BY <1>1, AlwaysPromptInv, PTL

\* The end of a day is later than everything in it.
LEMMA DayEnds ==
    ASSUME NEW t \in Nat
    PROVE  Day(t) \in Nat /\ t < (Day(t) + 1) * DayLength
BY TimeFacts DEF Day

LEMMA OnlyOldStep ==
    ASSUME IInv, PromptInv, Next
    PROVE  LET Old(t) == t + Keep < clock
           IN  /\ \A m \in Matches :
                     /\ telemetry'[m] = <<>> => \A s \in Range(telemetry[m]) : Old(at[s])
                     /\ marked[m] # Never /\ marked'[m] = Never => Old(marked[m])
               /\ \A x \in ledger \ ledger' : Old(x[2])
               /\ \A s \in Submissions :
                     place'[s] = "removed" /\ place[s] # "removed" => Old(created[s])
<1> USE StampsAreNumbers, TimeFacts DEF IInv
<1> DEFINE Old(t) == t + Keep < clock
<1>1. ret.pass # 0 =>
         /\ ret.cutoff \in Nat
         /\ \A t \in Nat : t < ret.cutoff => Old(t)
  BY DEF CutoffInv, RetOK
<1>2. CASE \A x \in ret.todo : ~Delete(x)
  <2>1. \A m \in Matches : telemetry'[m] = <<>> => telemetry[m] = <<>>
    <3>1. ASSUME NEW s \in Submissions, WriteLine(s), NEW m \in Matches
          PROVE  telemetry'[m] = <<>> => telemetry[m] = <<>>
      <4>1. telemetry' = [telemetry EXCEPT ![MatchOf[s]] = Append(telemetry[MatchOf[s]], s)]
        BY <3>1 DEF WriteLine
      <4>2. telemetry[MatchOf[s]] \in Seq(Submissions)
        BY MatchOfAssumption DEF StoreOK
      <4>3. Append(telemetry[MatchOf[s]], s) # <<>>
        BY <4>2
      <4> QED
        BY <4>1, <4>3 DEF StoreOK
    <3>2. UNCHANGED telemetry \/ \E s \in Submissions : WriteLine(s)
      BY <1>2 DEF Next, Surroundings, Run, Tick, Enqueue, Take, ScoreLine, Finish, StartRun,
             NextPass, PassError, Killed, Look, producerVars
    <3> QED
      BY <3>1, <3>2
  <2>2. \A m \in Matches : marked'[m] = Never => marked[m] = Never
    <3>1. ASSUME NEW s \in Submissions, Finish(s), NEW m \in Matches
          PROVE  marked'[m] = Never => marked[m] = Never
      BY <3>1 DEF Finish, StoreOK
    <3>2. UNCHANGED marked \/ \E s \in Submissions : Finish(s)
      BY <1>2 DEF Next, Surroundings, Run, Tick, WriteLine, Enqueue, Take, ScoreLine, StartRun,
             NextPass, PassError, Killed, Look, riskVars
    <3> QED
      BY <3>1, <3>2
  <2>3. ledger \subseteq ledger'
    BY <1>2 DEF Next, Surroundings, Run, Tick, WriteLine, Enqueue, Take, ScoreLine, Finish,
           StartRun, NextPass, PassError, Killed, Look, riskVars
  <2>4. \A s \in Submissions : place'[s] = "removed" => place[s] = "removed"
    BY <1>2 DEF Next, Surroundings, Run, Tick, WriteLine, Enqueue, Take, ScoreLine, Finish,
           Retire, Goto, StartRun, NextPass, PassError, Killed, Look, StoreOK
  <2>5. \A m \in Matches : telemetry[m] = <<>> => Range(telemetry[m]) = {}
    BY DEF Range
  <2> QED
    BY <2>1, <2>2, <2>3, <2>4, <2>5
<1>3. ASSUME NEW x \in ret.todo, Delete(x)
      PROVE  /\ \A m \in Matches :
                   /\ telemetry'[m] = <<>> => \A s \in Range(telemetry[m]) : Old(at[s])
                   /\ marked[m] # Never /\ marked'[m] = Never => Old(marked[m])
             /\ \A y \in ledger \ ledger' : Old(y[2])
             /\ \A s \in Submissions :
                   place'[s] = "removed" /\ place[s] # "removed" => Old(created[s])
  <2>0. x \in ret.doomed /\ ret.pass # 0
    BY <1>3, DeletedIsThere DEF Delete
  <2>1. ASSUME NEW m \in Matches, telemetry'[m] = <<>>, NEW s \in Range(telemetry[m])
        PROVE  Old(at[s])
    <3>1. PICK i \in DOMAIN telemetry[m] : s = telemetry[m][i]
      BY DEF Range
    <3>2. telemetry'[m] # telemetry[m]
      <4>1. telemetry[m] # <<>>
        BY <3>1
      <4> QED
        BY <2>1, <4>1
    <3> QED
      BY <1>3, <3>1, <3>2, DeletedIsOver
  <2>2. ASSUME NEW m \in Matches, marked[m] # Never, marked'[m] = Never PROVE Old(marked[m])
    <3>1. Pass = "applied" /\ x = m
      BY <1>3, <2>2 DEF Delete, StoreOK
    <3>2. marked[m] < ret.cutoff
      BY <2>0, <3>1 DEF DoomedInv, MarkerIsOld
    <3> QED
      BY <1>1, <2>0, <3>2
  <2>3. ASSUME NEW y \in ledger \ ledger' PROVE Old(y[2])
    <3>1. Pass = "ledger" /\ Day(y[2]) = x
      BY <1>3, <2>3 DEF Delete
    <3>2. y[2] \in Nat
      BY DEF StoreOK
    <3>3. (Day(y[2]) + 1) * DayLength < ret.cutoff
      BY <2>0, <3>1 DEF DoomedInv, LedgerIsOld
    <3>4. Day(y[2]) \in Nat /\ y[2] < (Day(y[2]) + 1) * DayLength
      BY <3>2, DayEnds
    <3> DEFINE end == (Day(y[2]) + 1) * DayLength
    <3>5. end \in Nat
      BY <3>4
    <3> HIDE DEF end
    <3>6. y[2] < ret.cutoff
      BY <1>1, <2>0, <3>2, <3>3, <3>4, <3>5 DEF end
    <3> QED
      BY <1>1, <2>0, <3>2, <3>6
  <2>4. ASSUME NEW s \in Submissions, place'[s] = "removed", place[s] # "removed"
        PROVE  Old(created[s])
    <3>1. Pass \in {"done", "failed"} /\ x = s
      BY <1>3, <2>4 DEF Delete, StoreOK
    <3>2. created[s] < ret.cutoff
      BY <2>0, <3>1 DEF DoomedInv, EventIsOld
    <3> QED
      BY <1>1, <2>0, <3>2
  <2> QED
    BY <2>1, <2>2, <2>3, <2>4
<1> QED
  BY <1>2, <1>3

\* What a run removes is older than the window at that moment, although
\* the files may have changed since the run looked at them, and whatever the
\* length of the day by which the ledger is filed.
THEOREM RemovesOnlyOld ==
    ASSUME Prompt
    PROVE  Spec => OnlyOldIsRemoved
<1>1. IInv /\ PromptInv /\ [Next]_vars =>
        [LET Old(t) == t + Keep < clock
         IN  /\ \A m \in Matches :
                   /\ telemetry'[m] = <<>> => \A s \in Range(telemetry[m]) : Old(at[s])
                   /\ marked[m] # Never /\ marked'[m] = Never => Old(marked[m])
             /\ \A x \in ledger \ ledger' : Old(x[2])
             /\ \A s \in Submissions :
                   place'[s] = "removed" /\ place[s] # "removed" => Old(created[s])]_vars
  BY OnlyOldStep
<1> QED
  BY <1>1, AlwaysPromptInv, PTL DEF Spec, OnlyOldIsRemoved

-----------------------------------------------------------------------------
(* With Prompt: no line is counted twice *)

LEMMA InitCountInv == Init => CountInv
<1> SUFFICES ASSUME Init PROVE CountInv
  OBVIOUS
<1>1. \A m \in Matches : marked[m] = Never
  BY DEF Init
<1>2. \A p \in Players, s \in Submissions : player[p].counted[s] = 0
  BY DEF Init, NewPlayer
<1> QED
  BY <1>1, <1>2 DEF CountInv, ScoredOnce

\* A stamp stays, and so does the end of a window.
LEMMA OverStays ==
    ASSUME IInv, [Next]_vars
    PROVE  /\ \A s \in Submissions : at[s] # Never => at'[s] = at[s]
           /\ \A m \in Matches : Over(m) => Over(m)'
<1> USE StampsAreNumbers, TimeFacts DEF IInv
<1>1. \A s \in Submissions : at[s] # Never => at'[s] = at[s]
  <2>1. ASSUME NEW s \in Submissions, WriteLine(s)
        PROVE  at' = [at EXCEPT ![s] = clock] /\ at[s] = Never
    BY <2>1 DEF WriteLine, StampInv
  <2> QED
    BY <2>1, TimeStep
<1>2. clock' \in Nat /\ clock <= clock'
  BY TimeStep
<1>3. ASSUME NEW m \in Matches, Over(m) PROVE Over(m)'
  <2>1. PICK s \in Submissions : MatchOf[s] = m /\ at[s] # Never /\ at[s] + Keep < clock
    BY <1>3 DEF Over
  <2>2. at[s] \in Nat /\ at'[s] = at[s]
    BY <1>1, <2>1
  <2>3. at[s] + Keep < clock'
    BY <1>2, <2>1, <2>2
  <2> QED
    BY <2>1, <2>2, <2>3 DEF Over
<1> QED
  BY <1>1, <1>3

LEMMA WaitingIsNotOver ==
    ASSUME IInv, PromptInv, NEW s \in Submissions, Unsettled(s)
    PROVE  ~Over(MatchOf[s])
<1> SUFFICES ASSUME NEW r \in Submissions, MatchOf[r] = MatchOf[s], at[r] # Never,
                    at[r] + Keep < clock
             PROVE  FALSE
  BY DEF Over
<1>1. clock <= at[r] + Keep
  BY DEF PromptInv, WithinWindow
<1>2. at[r] \in Nat /\ clock \in Nat /\ Keep \in Nat
  BY StampsAreNumbers, TimeFacts DEF IInv
<1> QED
  BY <1>1, <1>2

\* The parts of CountInv.
MarkerInv ==
    \A m \in Matches : marked[m] # Never =>
        \E s \in Submissions : MatchOf[s] = m /\ at[s] # Never /\ at[s] <= marked[m]

CountedOK(p, s) ==
    /\ player[p].counted[s] <= 1
    /\ player[p].counted[s] > 0 =>
          /\ PlayerOf[s] # Refused
          /\ \/ Over(MatchOf[s])
             \/ marked[MatchOf[s]] # Never
             \/ job.of # NoEvent /\ MatchOf[job.of] = MatchOf[s]
    /\ \A i \in DOMAIN job.lines : job.lines[i] = s => player[p].counted[s] = 0

LEMMA CountParts ==
    CountInv <=> MarkerInv /\ \A p \in Players, s \in Submissions : CountedOK(p, s)
BY DEF CountInv, ScoredOnce, MarkerInv, CountedOK

LEMMA CountPartsNext ==
    CountInv' <=> MarkerInv' /\ \A p \in Players, s \in Submissions : CountedOK(p, s)'
BY DEF CountInv, ScoredOnce, MarkerInv, CountedOK

LEMMA MarkerStep ==
    ASSUME IInv, MarkerInv, [Next]_vars
    PROVE  MarkerInv'
<1> USE StampsAreNumbers, TimeFacts, NoEventAssumption DEF IInv
<1>1. ASSUME NEW m \in Matches, marked'[m] = marked[m], marked'[m] # Never
      PROVE  \E s \in Submissions : MatchOf[s] = m /\ at'[s] # Never /\ at'[s] <= marked'[m]
  BY <1>1, OverStays DEF MarkerInv
<1>2. ASSUME NEW s \in Submissions, Finish(s)
      PROVE  MarkerInv'
  <2>1. marked' = [marked EXCEPT ![MatchOf[s]] = clock] /\ at' = at
    BY <1>2 DEF Finish, producerVars
  <2>2. at[s] # Never /\ at[s] <= clock
    BY <1>2 DEF Finish, JobInv, StampInv
  <2> QED
    BY <1>1, <2>1, <2>2 DEF MarkerInv, StoreOK
<1>3. ASSUME NEW x \in ret.todo, Delete(x) PROVE MarkerInv'
  <2>1. \A m \in Matches : marked'[m] = marked[m] \/ marked'[m] = Never
    BY <1>3 DEF Delete, StoreOK
  <2> QED
    BY <1>1, <2>1 DEF MarkerInv
<1>4. CASE UNCHANGED marked
  BY <1>1, <1>4 DEF MarkerInv
<1>5. UNCHANGED marked \/ (\E s \in Submissions : Finish(s)) \/ \E x \in ret.todo : Delete(x)
  BY DEF Next, Surroundings, Run, Tick, WriteLine, Enqueue, Take, ScoreLine, StartRun,
         NextPass, PassError, Killed, Look, vars, riskVars
<1> QED
  BY <1>2, <1>3, <1>4, <1>5

LEMMA CountStep ==
    ASSUME RefusedAsAWhole, IInv, PromptInv, CountInv, [Next]_vars,
           NEW p \in Players, NEW s \in Submissions
    PROVE  CountedOK(p, s)'
<1> USE StampsAreNumbers, TimeFacts, NoEventAssumption, MatchOfAssumption DEF IInv
<1> DEFINE m == MatchOf[s]
<1>0. /\ CountedOK(p, s) /\ m \in Matches /\ (Over(m) => Over(m)')
      /\ player[p].counted[s] \in Nat
  <2>1. CountedOK(p, s)
    BY CountParts
  <2>2. Over(m) => Over(m)'
    BY OverStays
  <2>3. player[p].counted[s] \in Nat
    BY DEF StoreOK
  <2> QED
    BY <2>1, <2>2, <2>3
<1>1. CASE UNCHANGED <<job, player, marked>>
  BY <1>0, <1>1 DEF CountedOK
<1>2. ASSUME NEW e \in Submissions, Take(e), job' # job PROVE CountedOK(p, s)'
  <2>1. /\ UNCHANGED <<player, marked>> /\ job = Idle /\ Unsettled(e)
        /\ marked[MatchOf[e]] = Never /\ job'.lines = telemetry[MatchOf[e]]
    BY <1>2 DEF Take, Unsettled
  <2>2. ASSUME NEW i \in DOMAIN job'.lines, job'.lines[i] = s PROVE player[p].counted[s] = 0
    <3>1. m = MatchOf[e]
      BY <2>1, <2>2 DEF FileInv
    <3>2. ~Over(m)
      BY <2>1, <3>1, WaitingIsNotOver
    <3>3. job.of = NoEvent
      BY <2>1 DEF Idle
    <3> QED
      BY <1>0, <2>1, <3>1, <3>2, <3>3 DEF CountedOK
  <2>3. job.of = NoEvent
    BY <2>1 DEF Idle
  <2> QED
    BY <1>0, <2>1, <2>2, <2>3 DEF CountedOK
<1>3. ASSUME NEW e \in Submissions, ScoreLine(e) PROVE CountedOK(p, s)'
  <2> DEFINE line == Head(job.lines)
             n == Len(job.lines)
  <2>1. /\ job.lines \in Seq(Submissions) /\ n \in Nat \ {0} /\ DOMAIN job.lines = 1..n
        /\ line = job.lines[1] /\ line \in Submissions /\ 1 \in DOMAIN job.lines
        /\ job.of = e /\ UNCHANGED marked
    BY <1>3 DEF ScoreLine, StoreOK
  <2>2. MatchOf[line] = MatchOf[e]
    BY <2>1 DEF JobInv
  <2>3. CASE PlayerOf[line] = Refused
    <3>1. job' = Idle /\ UNCHANGED player
      BY <1>3, <2>3 DEF ScoreLine
    <3>2. m = MatchOf[e] => PlayerOf[s] = Refused
      BY <2>1, <2>2, <2>3 DEF RefusedAsAWhole
    <3>3. DOMAIN job'.lines = {}
      BY <3>1 DEF Idle
    <3> QED
      BY <1>0, <2>1, <3>1, <3>2, <3>3 DEF CountedOK
  <2>4. CASE PlayerOf[line] # Refused
    <3> DEFINE q == PlayerOf[line]
    <3>1. /\ player' = [player EXCEPT ![q] = Counted(q, line)]
          /\ job' = [job EXCEPT !.lines = Tail(@)]
      BY <1>3, <2>4, LineIsTaken
    <3>2. /\ job'.of = e /\ job'.lines = Tail(job.lines)
          /\ q \in Players
      BY <2>1, <2>4, <3>1, PlayerOfAssumption DEF StoreOK
    <3>3. player[q].counted[line] = 0 /\ player[p].counted[line] = 0
      BY <2>1, <3>2, CountParts DEF CountedOK
    <3>4. \/ player'[p].counted[s] = player[p].counted[s]
          \/ s = line /\ player'[p].counted[s] = 1
      <4>1. player'[p] = IF p = q THEN Counted(q, line) ELSE player[p]
        BY <3>1 DEF StoreOK
      <4>2. player[q].counted \in [Submissions -> Nat]
        BY <3>2 DEF StoreOK
      <4> HIDE DEF q, line
      <4>3. Counted(q, line).counted = [player[q].counted EXCEPT ![line] = player[q].counted[line] + 1]
        BY DEF Counted
      <4> QED
        BY <3>3, <4>1, <4>2, <4>3
    <3>5. ASSUME NEW i \in DOMAIN job'.lines, job'.lines[i] = s
          PROVE  s # line /\ player[p].counted[s] = 0
      <4>1. i + 1 \in DOMAIN job.lines /\ job.lines[i + 1] = s /\ 1 < i + 1
        <5>1. DOMAIN Tail(job.lines) = 1..(n - 1)
              /\ \A k \in 1..(n - 1) : Tail(job.lines)[k] = job.lines[k + 1]
          BY <2>1
        <5> HIDE DEF n
        <5>2. i \in 1..(n - 1) /\ job.lines[i + 1] = s
          BY <3>2, <3>5, <5>1
        <5>3. n \in Nat /\ DOMAIN job.lines = 1..n
          BY <2>1
        <5>4. i + 1 \in 1..n /\ 1 < i + 1
          BY <5>2, <5>3
        <5> QED
          BY <5>2, <5>3, <5>4
      <4>2. s # job.lines[1]
        BY <2>1, <4>1 DEF JobInv
      <4> QED
        BY <1>0, <2>1, <4>1, <4>2 DEF CountedOK
    <3> HIDE DEF line
    <3>6. /\ job'.of # NoEvent /\ job.of # NoEvent /\ MatchOf[line] = MatchOf[job'.of]
          /\ job'.of = job.of /\ marked' = marked
      BY <2>1, <2>2, <3>2
    <3>7. player'[p].counted[s] <= 1
      BY <1>0, <3>4 DEF CountedOK
    <3>8. player'[p].counted[s] > 0 =>
             /\ PlayerOf[s] # Refused
             /\ \/ Over(m)'
                \/ marked'[m] # Never
                \/ MatchOf[job'.of] = m
      BY <1>0, <2>4, <3>4, <3>6 DEF CountedOK
    <3>9. \A i \in DOMAIN job'.lines : job'.lines[i] = s => player'[p].counted[s] = 0
      BY <3>4, <3>5
    <3> QED
      BY <3>6, <3>7, <3>8, <3>9 DEF CountedOK
  <2> QED
    BY <2>3, <2>4
<1>4. ASSUME NEW e \in Submissions, Finish(e) PROVE CountedOK(p, s)'
  <2>1. /\ marked' = [marked EXCEPT ![MatchOf[e]] = clock] /\ UNCHANGED player
        /\ job' = Idle /\ job.of = e
    BY <1>4 DEF Finish
  <2>2. DOMAIN job'.lines = {}
    BY <2>1 DEF Idle
  <2>3. \A n \in Matches :
           marked'[n] # Never <=> marked[n] # Never \/ n = MatchOf[e]
    BY <2>1 DEF StoreOK
  <2> QED
    BY <1>0, <2>1, <2>2, <2>3 DEF CountedOK
<1>5. ASSUME NEW x \in ret.todo, Delete(x) PROVE CountedOK(p, s)'
  <2>1. player'[p].counted[s] = player[p].counted[s] \/ player'[p].counted[s] = 0
    <3>1. NewPlayer.counted[s] = 0
      BY DEF NewPlayer
    <3> QED
      BY <1>5, <3>1 DEF Delete, StoreOK
  <2>2. marked[m] # Never /\ marked'[m] = Never => Over(m)
    <3> SUFFICES ASSUME marked[m] # Never, marked'[m] = Never PROVE Over(m)
      OBVIOUS
    <3>1. Pass = "applied" /\ x = m /\ ret.pass # 0
      BY <1>0, <1>5, DeletedIsThere DEF Delete, StoreOK
    <3>2. marked[m] < ret.cutoff /\ ret.cutoff + Keep <= clock /\ ret.cutoff \in Nat
      BY <1>5, <3>1 DEF Delete, DoomedInv, MarkerIsOld, CutoffInv, RetOK
    <3>3. PICK r \in Submissions : MatchOf[r] = m /\ at[r] # Never /\ at[r] <= marked[m]
      BY <1>0 DEF CountInv
    <3>4. at[r] \in Nat /\ marked[m] \in Nat
      BY <1>0
    <3>5. at[r] + Keep < clock
      BY <3>2, <3>3, <3>4
    <3> QED
      BY <3>3, <3>5 DEF Over
  <2>3. UNCHANGED job
    BY <1>5 DEF Delete
  <2> QED
    BY <1>0, <2>1, <2>2, <2>3 DEF CountedOK
<1>6. \/ UNCHANGED <<job, player, marked>>
      \/ \E e \in Submissions :
            \/ Take(e) /\ job' # job
            \/ ScoreLine(e) \/ Finish(e)
      \/ \E x \in ret.todo : Delete(x)
  BY DEF Next, Surroundings, Run, Tick, WriteLine, Enqueue, Take, StartRun,
         NextPass, PassError, Killed, Look, vars, riskVars
<1> QED
  BY <1>1, <1>2, <1>3, <1>4, <1>5, <1>6

\* If matches are finished within the window and the mapper refuses all lines
\* of a match or none, pruning the markers makes no worker count a line again.
THEOREM ScoresOnce ==
    ASSUME Prompt, RefusedAsAWhole
    PROVE  Spec => []ScoredOnce
<1>1. IInv /\ PromptInv /\ CountInv /\ [Next]_vars => CountInv'
  BY CountParts, CountPartsNext, MarkerStep, CountStep
<1>2. CountInv => ScoredOnce
  BY DEF CountInv
<1> QED
  BY <1>1, <1>2, InitCountInv, AlwaysPromptInv, PTL DEF Spec
=============================================================================
