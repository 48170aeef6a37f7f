----------------------------- MODULE MCDelivery -----------------------------
(* Values for TLC: an old file and one that is being uploaded, each with   *)
(* two downloads.                                                          *)
EXTENDS Delivery, TLC

CONSTANTS old, fresh, d1, d2, d3, d4, e1, e2

MCTarget == [d \in Downloads |-> IF d \in {d3, d4} THEN old ELSE fresh]

(* Edges are alike, and so are the downloads of one file.                  *)
Symmetry == Permutations({e1, e2}) \cup Permutations({d1, d2}) \cup Permutations({d3, d4})

=============================================================================
