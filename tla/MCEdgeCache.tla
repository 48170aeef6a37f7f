---------------------------- MODULE MCEdgeCache ----------------------------
(* Values for TLC: three requests, two of them in the same process.         *)
EXTENDS EdgeCache, TLC

CONSTANTS r1, r2, r3, i1, i2

MCRequests  == {r1, r2, r3}
MCInstances == {i1, i2}
MCHome      == [r \in Requests |-> IF r = r3 THEN i2 ELSE i1]
(* The second version is shorter, so that leftovers of the first would show.*)
MCLength    == [v \in Versions |-> IF v = 1 THEN MaxChunks ELSE 1]

(* Requests of one process are interchangeable; only for safety.           *)
MCSymmetry == {p \in Permutations(MCRequests) : p[r3] = r3}

=============================================================================
