------------------------------ MODULE MCUsers ------------------------------
(* Values for TLC: one user, spelled in two ways, with a password of the   *)
(* greatest length and another one; and a login that grows past the column *)
(* when it is lowered.                                                     *)
EXTENDS Users

CONSTANTS r1, r2, r3, s1, s2, v1, alice, wide

Alice  == [login |-> alice, length |-> 5]
Spaced == [login |-> alice, length |-> 3]
Wide   == [login |-> wide, length |-> 255]

Longest  == [text |-> "first", length |-> 128, has |-> CharClasses]
Shortest == [text |-> "second", length |-> 12, has |-> CharClasses]

MCWidth     == [l \in Logins |-> IF l = wide THEN 510 ELSE 5]
MCPasswords == {Longest, Shortest}
MCName      == [r \in Requests |-> IF r = r3 THEN Wide ELSE IF r \in {r2, s2} THEN Spaced ELSE Alice]
MCPassword  == [r \in Requests |-> IF r \in {r2} THEN Shortest ELSE Longest]
MCLegacy    == [l \in {alice} |-> Longest]

=============================================================================
