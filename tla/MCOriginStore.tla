---------------------------- MODULE MCOriginStore ----------------------------
(* Values for TLC: two uploads, by one user or by two; everybody reads.     *)
EXTENDS OriginStore, TLC

CONSTANTS u1, u2, d1, d2, l1, alice

MCOwner       == [u \in Uploads |-> alice]
MCTarget      == [d \in Downloads |-> u1]
MCConditional == {d2} \cap Downloads
MCLister      == [l \in Listings |-> alice]

=============================================================================
