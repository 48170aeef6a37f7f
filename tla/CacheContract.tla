---------------------------- MODULE CacheContract ----------------------------
(***************************************************************************)
(* What the cache of ONE file promises to its requests, whatever the files,*)
(* locks and processes behind it do: there is at most one entry, a version *)
(* of the content with a time it expires at; a request is answered from    *)
(* the entry while that is valid; an entry that is not is renewed, with a  *)
(* version no older, in the one step that answers the request renewing it. *)
(***************************************************************************)
EXTENDS Naturals

CONSTANT Requests

VARIABLES
  clock,
  entry,    \* the entry, [ver, exp], in a set that is empty without one
  answer    \* what each request was given

vars == <<clock, entry, answer>>

Waiting   == [kind |-> "waiting", ver |-> 0]
Failed    == [kind |-> "failed", ver |-> 0]
Served(v) == [kind |-> "served", ver |-> v]

Valid == \E e \in entry : clock < e.exp

Answer(r, given) == answer[r] = Waiting /\ answer' = [answer EXCEPT ![r] = given]

Init ==
  /\ clock = 0 /\ entry = {}
  /\ answer = [r \in Requests |-> Waiting]

(* A HIT.                                                                  *)
Hit(r) == \E e \in entry :
  /\ clock < e.exp
  /\ Answer(r, Served(e.ver))
  /\ UNCHANGED <<clock, entry>>

(* A MISS or a REVALIDATED.                                                *)
Renew(r) == \E e \in entry' :
  /\ entry' = {e} /\ ~Valid
  /\ \A old \in entry : old.ver <= e.ver /\ old.exp <= e.exp
  /\ Answer(r, Served(e.ver))
  /\ UNCHANGED clock

(* An error; a process that dies fails its requests at once.               *)
Fail(S) ==
  /\ \A r \in S : answer[r] = Waiting
  /\ answer' = [r \in Requests |-> IF r \in S THEN Failed ELSE answer[r]]
  /\ UNCHANGED <<clock, entry>>

Pass == clock' = clock + 1 /\ UNCHANGED <<entry, answer>>

Next ==
  \/ \E r \in Requests : Hit(r) \/ Renew(r)
  \/ \E S \in SUBSET Requests : Fail(S)
  \/ Pass

Spec == Init /\ [][Next]_vars

=============================================================================
