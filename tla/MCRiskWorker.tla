---------------------------- MODULE MCRiskWorker ----------------------------
(***************************************************************************)
(* Small instances of RiskWorker for TLC.  Events are numbers; a match is  *)
(* about events that share it, and the lines share players.                *)
(***************************************************************************)
EXTENDS RiskWorker

CONSTANTS m1, m2, p1, p2

TwoEvents == 1..2
ThreeEvents == 1..3

\* Two submissions for one match.
OneMatch == 1 :> m1 @@ 2 :> m1
\* One submission for each of two matches.
TwoMatches == 1 :> m1 @@ 2 :> m2
\* Two submissions for m1 and one for m2, whose player is also in m1.
MixedMatches == 1 :> m1 @@ 2 :> m1 @@ 3 :> m2

TwoThenOne == 1 :> <<p1, p2>> @@ 2 :> <<p2>>
OneEach == 1 :> <<p1>> @@ 2 :> <<p1>>
NamelessSecond == 1 :> <<p1, Refused>> @@ 2 :> <<p1>>
Mixed == 1 :> <<p1, p2>> @@ 2 :> <<p2>> @@ 3 :> <<p1>>

AnyDisruption == {"stop", "crash", "io"}
CrashesOnly == {"crash"}
StopsOnly == {"stop"}
=============================================================================
