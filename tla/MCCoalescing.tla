---------------------------- MODULE MCCoalescing ----------------------------
(* README.md:3 of edge-cache-service says that parallel requests of a file *)
(* lead to a single request to the origin. Two history variables record    *)
(* which requests asked the origin and which were in progress together.    *)
EXTENDS MCEdgeCache

VARIABLES
  asked,     \* requests that contacted the origin
  together   \* pairs of requests in progress at the same time

HInit == Init /\ asked = {} /\ together = {}

HNext ==
  /\ Next
  /\ asked' = asked \cup {r \in Requests : AsksOrigin(r)}
  /\ together' = together \cup
       {{r, s} : r \in {q \in Requests : pc[q] = "idle" /\ pc'[q] # "idle"},
                s \in {q \in Requests : pc[q] \in Active}}

HSpec == HInit /\ [][HNext]_<<vars, asked, together>>

(* Of two parallel requests at most one contacts the origin.               *)
OneRequestToOrigin == \A r, s \in asked : {r, s} \in together => r = s

=============================================================================
