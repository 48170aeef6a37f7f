----------------------------- MODULE MCEdgePool -----------------------------
(* Values for TLC: one process, with one request more than it has threads. *)
EXTENDS EdgePool

CONSTANTS r1, r2, r3, i1

MCHome   == [r \in Requests |-> i1]
MCLength == [v \in Versions |-> 1]

=============================================================================
