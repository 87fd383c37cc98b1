-------------------------- MODULE MCProbeMemStore --------------------------
(***************************************************************************)
(* A small instance of ProbeMemStore.                                      *)
(***************************************************************************)
EXTENDS ProbeMemStore, TLC

CONSTANTS h1, h2, h3, t1, t2, t3, none

StoreSymmetry == Permutations(Handlers) \cup Permutations(Tokens)

=============================================================================
