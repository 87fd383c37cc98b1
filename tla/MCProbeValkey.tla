--------------------------- MODULE MCProbeValkey ---------------------------
(* ProbeValkey for TLC.                                                    *)
EXTENDS ProbeValkey, TLC

(* One query is as good as another, and so is one report.                  *)
Symmetry == Permutations(Handlers) \cup Permutations(Reporters)

=============================================================================
