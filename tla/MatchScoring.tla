---------------------------- MODULE MatchScoring ----------------------------
(***************************************************************************)
(* What risk scoring promises its users, without files or workers: a match *)
(* is scored in one step, once and for good.  The step takes some of the   *)
(* lines that have been written for the match, at least one, and counts    *)
(* each of their entries for its player; the match's entry in the ledger   *)
(* names each of these players once.  Lines that are written later do not  *)
(* count.                                                                  *)
(*                                                                         *)
(* Module RiskWorker implements this specification with one worker that    *)
(* meets no failure.  The step is then the creation of the marker.         *)
(***************************************************************************)
EXTENDS Naturals, FiniteSets

CONSTANTS Events, Matches, Players, MatchOf, PlayersOf  \* see RiskWorker

VARIABLES
    written,    \* the lines that can be scored
    scored,     \* the matches that have been scored
    history,    \* history[p]: the bag of lines that make up the risk of player p
    named       \* named[m]: the ledger's lines about match m

vars == <<written, scored, history, named>>

Init ==
    /\ written = {}
    /\ scored = {}
    /\ history = [p \in Players |-> [l \in Events |-> 0]]
    /\ named = [m \in Matches |-> <<>>]

Write(l) ==
    /\ l \notin written
    /\ written' = written \cup {l}
    /\ UNCHANGED <<scored, history, named>>

Entries(p, l) == {j \in DOMAIN PlayersOf[l] : PlayersOf[l][j] = p}

\* The players that are listed in lines, each with one line that lists her.
Naming(lines) ==
    [{p \in Players : \E l \in lines : Entries(p, l) # {}} -> lines]

Score(m, lines) ==
    /\ m \notin scored
    /\ lines # {}
    /\ scored' = scored \cup {m}
    /\ history' = [p \in Players |-> [l \in Events |->
                      IF l \in lines THEN Cardinality(Entries(p, l)) ELSE history[p][l]]]
    /\ \E line \in Naming(lines) :
          /\ \A p \in DOMAIN line : Entries(p, line[p]) # {}
          /\ named' = [named EXCEPT ![m] = <<{<<p, line[p]>> : p \in DOMAIN line}>>]
    /\ UNCHANGED written

Next ==
    \/ \E l \in Events : Write(l)
    \/ \E m \in Matches :
          \E lines \in SUBSET {l \in written : MatchOf[l] = m} : Score(m, lines)

Spec == Init /\ [][Next]_vars
=============================================================================
