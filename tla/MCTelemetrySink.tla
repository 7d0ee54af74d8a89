--------------------------- MODULE MCTelemetrySink ---------------------------
(***************************************************************************)
(* A small instance of TelemetrySink for TLC.                              *)
(***************************************************************************)
EXTENDS TelemetrySink, TLC

CONSTANTS s1, s2, m1

OneMatch == s1 :> m1 @@ s2 :> m1
=============================================================================
