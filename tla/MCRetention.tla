----------------------------- MODULE MCRetention -----------------------------
(***************************************************************************)
(* Small instances of Retention for TLC.  Submissions are numbers.         *)
(***************************************************************************)
EXTENDS Retention, TLC

CONSTANTS m1, m2, p1

\* Two submissions for one match.
OneMatch == 1 :> m1 @@ 2 :> m1
\* Two matches with the same player.
TwoMatches == 1 :> m1 @@ 2 :> m2
\* Two submissions for m1, and one for m2 that the mapper refuses.
MixedMatches == 1 :> m1 @@ 2 :> m1 @@ 3 :> m2

BothScored == 1 :> p1 @@ 2 :> p1
LastRefused == 1 :> p1 @@ 2 :> p1 @@ 3 :> Refused
FirstRefused == 1 :> Refused @@ 2 :> p1
=============================================================================
