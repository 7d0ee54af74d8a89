------------------------------ MODULE MCOutbox ------------------------------
(***************************************************************************)
(* Small instances of Outbox for TLC: events are 1..n, so that names are   *)
(* ordered, and workers are model values.                                  *)
(***************************************************************************)
EXTENDS Outbox

TwoEvents == 1..2
AnyDisruption == {"stop", "crash", "io"}
=============================================================================
