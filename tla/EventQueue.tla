----------------------------- MODULE EventQueue -----------------------------
(***************************************************************************)
(* What the outbox promises its users, without files or directories.       *)
(*                                                                         *)
(* An event is published once, is held by at most one worker at a time,    *)
(* returns to the queue only from the worker that holds it, and keeps its  *)
(* verdict for ever.  A worker that dies, or whose final rename fails,     *)
(* abandons its event: the event stays claimed and nobody holds it.        *)
(* Module Outbox implements this specification with four directories and   *)
(* os.Rename.                                                              *)
(***************************************************************************)
CONSTANTS Events, Workers

VARIABLES
    status,     \* status[e]: where event e is in its life
    holders     \* holders[e]: the workers that hold e

vars == <<status, holders>>

Init ==
    /\ status = [e \in Events |-> "new"]
    /\ holders = [e \in Events |-> {}]

Publish(e) ==
    /\ status[e] = "new"
    /\ status' = [status EXCEPT ![e] = "queued"]
    /\ UNCHANGED holders

Claim(w, e) ==
    /\ status[e] = "queued"
    /\ status' = [status EXCEPT ![e] = "claimed"]
    /\ holders' = [holders EXCEPT ![e] = {w}]

\* The holder gives e up: back to the queue, with a verdict, or abandoned.
Release(w, e, s) ==
    /\ status[e] = "claimed"
    /\ holders[e] = {w}
    /\ status' = [status EXCEPT ![e] = s]
    /\ holders' = [holders EXCEPT ![e] = {}]

Next ==
    \/ \E e \in Events : Publish(e)
    \/ \E w \in Workers, e \in Events :
          \/ Claim(w, e)
          \/ \E s \in {"queued", "done", "failed", "claimed"} : Release(w, e, s)

Spec == Init /\ [][Next]_vars
=============================================================================
