------------------------------ MODULE MCTrust ------------------------------
(***************************************************************************)
(* Instances of Trust.  Keys, nonces and processes are interchangeable.    *)
(***************************************************************************)
EXTENDS Trust, TLC

Symmetry ==
    Permutations(Keys) \cup Permutations(Nonces) \cup Permutations(Processes)
=============================================================================
