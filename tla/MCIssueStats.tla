---------------------------- MODULE MCIssueStats ----------------------------
(* Values for TLC: the turn of 2018, when the Monday 2018-12-31 begins the *)
(* first week of 2019.  A repository whose first page has no issue and     *)
(* whose first issue is linked to two pull requests, and an empty one.     *)
EXTENDS IssueStats

MCNoTime == -1
NewYear  == 2 * 365
MCMoments == <<NewYear - 9, NewYear + 5, NewYear + 14>>

Issue(created, closed, links) ==
  [kind |-> "issue", created |-> created, closed |-> closed, closes |-> {}, links |-> links]
Pull(created, closes) ==
  [kind |-> "pr", created |-> created, closed |-> MCNoTime, closes |-> closes, links |-> <<>>]

MCHistories ==
  {<<>>,
   <<Pull(NewYear - 20, {<<"other", 3>>}), Pull(NewYear - 16, {<<"this", 3>>}),
     Issue(NewYear - 15, MCNoTime, <<0, 1, 2>>), Issue(NewYear - 10, NewYear - 9, <<>>)>>}

Args(period, state, method, charts, matplotlib) ==
  [period |-> period, state |-> state, method |-> method, charts |-> charts,
   matplotlib |-> matplotlib]
MCAsked ==
  {Args("week", "all", "auto", {"counts"}, TRUE), Args("month", "all", "graphql", Charts, FALSE),
   Args("week", "all", "rest", {}, FALSE), Args("month", "open", "none", {}, FALSE)}

=============================================================================
