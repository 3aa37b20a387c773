--------------------------- MODULE MCDecisionLog ---------------------------
(* Invocations are interchangeable. *)
EXTENDS DecisionLog, TLC
CONSTANTS r1, r2, r3, r4
Interchangeable == Permutations(Runs)
=============================================================================
