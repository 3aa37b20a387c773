---------------------- MODULE MCWazuhIndexerTransport ----------------------
(* Small instances of WazuhIndexerTransport for TLC. *)
EXTENDS WazuhIndexerTransport, TLC

CONSTANTS q1, q2

\* One request selects every alert one by one, another only some of them.
MCMatches == [q \in Request |-> IF q = q1 THEN Record ELSE Record \ {1}]
MCLimitOf == [q \in Request |-> 1]
MCMatchesAll == [q \in Request |-> Record]
MCLimitTwo == [q \in Request |-> 2]

\* No caller is distinguished: sound for the invariants.
MCSymmetry == Permutations(Caller)
=============================================================================
