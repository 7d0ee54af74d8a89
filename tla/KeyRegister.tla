---------------------------- MODULE KeyRegister ----------------------------
(***************************************************************************)
(* What the key store promises to trust-api processes, without files: a    *)
(* register that is written once, by the process that makes the key, and   *)
(* from which every process that serves has its key.  The promise is       *)
(* given up only when two processes make a key while there is none.        *)
(*                                                                         *)
(* Module KeyStore implements this specification.  The write is then the   *)
(* rename of the temporary file.                                           *)
(***************************************************************************)
CONSTANTS Processes, Keys, NoKey  \* see KeyStore

VARIABLES
    register,   \* the key, or NoKey
    served,     \* served[p]: the key process p signs with, or NoKey
    void        \* the promise has been given up

vars == <<register, served, void>>

Nobody == [p \in Processes |-> NoKey]

Init == register = NoKey /\ served = Nobody /\ void = FALSE

Write(p, k) ==
    /\ register = NoKey /\ ~void
    /\ register' = k
    /\ served' = [served EXCEPT ![p] = k]
    /\ UNCHANGED void

Read(p) ==
    /\ register # NoKey
    /\ served' = [served EXCEPT ![p] = register]
    /\ UNCHANGED <<register, void>>

Forget(p) ==
    /\ served' = [served EXCEPT ![p] = NoKey]
    /\ UNCHANGED <<register, void>>

GiveUp ==
    /\ register = NoKey /\ served = Nobody
    /\ void' = TRUE
    /\ UNCHANGED <<register, served>>

Next ==
    \/ \E p \in Processes : Read(p) \/ Forget(p) \/ \E k \in Keys : Write(p, k)
    \/ GiveUp

Spec == Init /\ [][Next]_vars
=============================================================================
