----------------------------- MODULE IssueStats -----------------------------
(***************************************************************************)
(* stats/main.py, one run of it: it pages through the issues and the pull  *)
(* requests of a repository on GitHub, asks for the timeline of each       *)
(* issue, adds the days of each issue up by periods and prints the table.  *)
(*                                                                         *)
(* A step of the script is one request; the repository goes on living      *)
(* between two of them, and every request may fail.  An issue or a pull    *)
(* request is known by its number, its place in items, which is also the   *)
(* order of creation the listings are asked for.                           *)
(***************************************************************************)
EXTENDS Periods, FiniteSets, SequencesExt

CONSTANTS
  Histories,        \* repositories at the start: sequences of items
  Asked,            \* the arguments of a run
  Moments,          \* the times of the run, in order
  PerPage,          \* items of a page of a listing
  TimelinePerPage,  \* events of a page of a timeline
  MaxItems,         \* bound: items of the repository
  MaxEvents,        \* bound: what happens to the repository during the run
  NoTime

Methods == {"auto", "graphql", "rest", "none"}
States  == {"all", "open", "closed"}
Charts  == {"counts", "avg"}
Metrics == {"open", "closed", "in_pr"}

Times == Nat \cup {NoTime}
Items == [kind : {"issue", "pr"}, created : Nat, closed : Times,
          closes : SUBSET ({"this", "other"} \X Nat), links : Seq(Nat)]

ASSUME HistoriesAssumption == Histories \subseteq Seq(Items)
ASSUME AskedAssumption ==
  Asked \subseteq [period : {"week", "month"}, state : States, method : Methods,
                   charts : SUBSET Charts, matplotlib : BOOLEAN]
ASSUME BoundsAssumption ==
  /\ PerPage \in Nat \ {0} /\ TimelinePerPage \in Nat \ {0}
  /\ MaxItems \in Nat /\ MaxEvents \in Nat
  /\ Moments \in Seq(Nat) \ {<<>>} /\ NoTime \notin Nat

(* The clock does not go back, and what the repository has at the start is *)
(* of before the run.                                                      *)
ASSUME MomentsAssumption ==
  /\ \A i, j \in DOMAIN Moments : i <= j => Moments[i] <= Moments[j]
  /\ \A i \in DOMAIN Moments : Day(Moments[i]) < YearStart(LastYear)
  /\ \A list \in Histories : \A n \in DOMAIN list :
       \A time \in {list[n].created, list[n].closed} \ {NoTime} : time <= Moments[1]

VARIABLES
  items,     \* [kind, created, closed, closes: its keywords, links: its timeline]
  clock,     \* moments passed
  events,    \* what happened to the repository during the run
  start,     \* the items the run began with
  asked,
  phase,     \* which request the script is at
  now,
  page,
  fetched,   \* issues_list
  index,     \* rest_in_pr_index
  graphql,   \* graphql_available
  cursor,
  earliest,  \* in the timeline at hand
  waits,     \* in_pr_at of the issues done
  saved,     \* charts written
  exit       \* exit code, or NoTime while it runs

world   == <<items, clock, events>>
fetches == <<page, fetched, index>>
queries == <<graphql, cursor, earliest, waits>>
results == <<saved, exit>>
vars    == <<world, start, asked, phase, now, fetches, queries, results>>

Time == Moments[clock]

Numbers(list) == DOMAIN list
Issues(list)  == {n \in Numbers(list) : list[n].kind = "issue"}
Pulls(list)   == {n \in Numbers(list) : list[n].kind = "pr"}

(* The closing keywords of a title and body: <<repository, number>>; those *)
(* of other repositories do not count.                                     *)
LinkedIssues(closes) == {c[2] : c \in {d \in closes : d[1] = "this"}}

-----------------------------------------------------------------------------
(* The repository.                                                         *)

Happens == events < MaxEvents /\ events' = events + 1 /\ UNCHANGED <<clock, start, asked, phase, now,
                                                                    fetches, queries, results>>

NewItem(kind, closes) ==
  [kind |-> kind, created |-> Time, closed |-> NoTime, closes |-> closes, links |-> <<>>]

Open ==
  /\ Happens /\ Len(items) < MaxItems
  /\ \/ items' = Append(items, NewItem("issue", {}))
     \/ \E where \in {"this", "other"}, n \in Issues(items) :
          items' = Append(items, NewItem("pr", {<<where, n>>}))

Close(n) ==
  /\ Happens /\ items[n].closed = NoTime
  /\ items' = [items EXCEPT ![n].closed = Time]

Reopen(n) ==
  /\ Happens /\ items[n].closed # NoTime
  /\ items' = [items EXCEPT ![n].closed = NoTime]

(* A pull request, or something else (0), mentions an issue.               *)
Link(n, p) ==
  /\ Happens
  /\ items' = [items EXCEPT ![n].links = Append(@, p)]

Tick ==
  /\ clock < Len(Moments) /\ clock' = clock + 1
  /\ UNCHANGED <<items, events, start, asked, phase, now, fetches, queries, results>>

-----------------------------------------------------------------------------
(* The answers of the listings.                                            *)

Listed(state) ==
  {n \in Numbers(items) : \/ state = "all"
                          \/ state = "open"   /\ items[n].closed = NoTime
                          \/ state = "closed" /\ items[n].closed # NoTime}

(* The place of an item in a listing, and a page of it, oldest first; the  *)
(* mutant asks for the newest first.                                       *)
Rank(list, n) == Cardinality({m \in list : m <= n})

Mutant_PageNewest(list, number, size) ==
  {n \in list : Cardinality({m \in list : m >= n}) \in (number - 1) * size + 1 .. number * size}
Page(list, number, size) ==
  {n \in list : Rank(list, n) \in (number - 1) * size + 1 .. number * size}

InOrder(list) == [i \in 1 .. Cardinality(list) |-> CHOOSE n \in list : Rank(list, n) = i]

RestAvailable == asked.method \in {"auto", "rest"}

-----------------------------------------------------------------------------
(* The requests of the script.                                             *)

Init ==
  /\ items \in Histories /\ start = items
  /\ asked \in Asked
  /\ clock = 1 /\ events = 0
  /\ phase = "start" /\ now = NoTime
  /\ page = 1 /\ fetched = <<>> /\ index = <<>>
  /\ graphql = (asked.method \in {"auto", "graphql"})
  /\ cursor = 0 /\ earliest = NoTime /\ waits = <<>>
  /\ saved = {} /\ exit = NoTime

(* now is read before the first request is sent.                           *)
Begin ==
  /\ phase = "start" /\ phase' = "issues" /\ now' = Time
  /\ UNCHANGED <<world, start, asked, fetches, queries, results>>

Snapshot(n) == [number |-> n, created |-> items[n].created, closed |-> items[n].closed]

(* The pages of the issues end with an empty one.  The listing has the     *)
(* pull requests too.  The mutant takes a page without issues for the end. *)
Mutant_FetchIssuesEarly ==
  LET answer == Page(Listed(asked.state), page, PerPage)
      found  == InOrder(answer \cap Issues(items))
  IN  /\ phase = "issues"
      /\ \/ /\ found # <<>>
            /\ fetched' = fetched \o [k \in DOMAIN found |-> Snapshot(found[k])]
            /\ page' = page + 1 /\ UNCHANGED phase
         \/ /\ found = <<>>
            /\ phase' = IF RestAvailable THEN "pulls" ELSE "timelines"
            /\ page' = 1 /\ UNCHANGED fetched
      /\ UNCHANGED <<world, start, asked, now, index, queries, results>>

FetchIssues ==
  LET answer == Page(Listed(asked.state), page, PerPage)
      found  == InOrder(answer \cap Issues(items))
  IN  /\ phase = "issues"
      /\ \/ /\ answer # {}
            /\ fetched' = fetched \o [k \in DOMAIN found |-> Snapshot(found[k])]
            /\ page' = page + 1 /\ UNCHANGED phase
         \/ /\ answer = {}
            /\ phase' = IF RestAvailable THEN "pulls" ELSE "timelines"
            /\ page' = 1 /\ UNCHANGED fetched
      /\ UNCHANGED <<world, start, asked, now, index, queries, results>>

(* The earlier of two times, of which either may be missing.               *)
Mutant_EarlierLast(old, new) == IF new = NoTime THEN old ELSE new
Earlier(old, new) ==
  IF new = NoTime THEN old ELSE IF old = NoTime \/ new < old THEN new ELSE old

EarliestOf(numbers) ==
  LET times == {items[p].created : p \in Pulls(items) \cap numbers}
  IN  IF times = {} THEN NoTime ELSE Min(times)

Indexed(n) == IF n \in DOMAIN index THEN index[n] ELSE NoTime

(* The index keeps the first pull request that closes an issue.  The       *)
(* mutant has every number in it.                                          *)
Mutant_IndexAll(answer) ==
  LET Of(n) == {p \in answer : n \in LinkedIssues(items[p].closes)}
  IN  [n \in Numbers(items) |-> Earlier(Indexed(n), EarliestOf(Of(n)))]
Index(answer) ==
  LET Of(n) == {p \in answer : n \in LinkedIssues(items[p].closes)}
  IN  [n \in DOMAIN index \cup UNION {LinkedIssues(items[p].closes) : p \in answer} |->
         Earlier(Indexed(n), EarliestOf(Of(n)))]

FetchPulls ==
  LET answer == Page(Pulls(items), page, PerPage)
  IN  /\ phase = "pulls"
      /\ \/ /\ answer # {}
            /\ index' = Index(answer)
            /\ page' = page + 1 /\ UNCHANGED phase
         \/ answer = {} /\ phase' = "timelines" /\ UNCHANGED <<page, index>>
      /\ UNCHANGED <<world, start, asked, now, fetched, queries, results>>

Current == Len(waits) + 1
Working == phase = "timelines" /\ Current <= Len(fetched)

(* The in_pr time of the issue at hand: that of its timeline, or else that *)
(* of the index.                                                           *)
Conclude(found) ==
  /\ waits' = Append(waits, IF found = NoTime /\ RestAvailable
                            THEN Indexed(fetched[Current].number) ELSE found)
  /\ cursor' = 0 /\ earliest' = NoTime

Quiet == UNCHANGED <<world, start, asked, phase, now, fetches, results>>

(* endCursor of a page, to ask for the next one; the mutant asks again.    *)
Mutant_EndCursorSame == cursor
EndCursor == cursor + TimelinePerPage

(* A page of the timeline: events that are not pull requests do not count. *)
QueryTimeline ==
  LET links == items[fetched[Current].number].links
      nodes == {links[k] : k \in {j \in DOMAIN links : cursor < j /\ j <= cursor + TimelinePerPage}}
      found == Earlier(earliest, EarliestOf(nodes))
  IN  /\ Working /\ graphql
      /\ \/ /\ EndCursor < Len(links)
            /\ cursor' = EndCursor /\ earliest' = found /\ UNCHANGED waits
         \/ EndCursor >= Len(links) /\ Conclude(found)
      /\ UNCHANGED graphql /\ Quiet

(* The timeline is refused: no issue after this one asks for its own.      *)
TimelineRefused ==
  /\ Working /\ graphql /\ asked.method = "auto"
  /\ graphql' = FALSE /\ Conclude(NoTime) /\ Quiet

NoTimeline ==
  /\ Working /\ ~graphql
  /\ Conclude(NoTime) /\ UNCHANGED graphql /\ Quiet

(* main: every other failure ends the run without a table.                 *)
Fail ==
  /\ phase \in {"issues", "pulls"} \/ (Working /\ graphql /\ asked.method = "graphql")
  /\ phase' = "end" /\ exit' = 1
  /\ UNCHANGED <<world, start, asked, now, fetches, queries, saved>>

-----------------------------------------------------------------------------
(* calculate_stats: the intervals an issue spends in each state.           *)

Began(metric, i) == CASE metric = "open"   -> fetched[i].created
                      [] metric = "closed" -> fetched[i].closed
                      [] metric = "in_pr"  -> waits[i]

Ended(metric, i) == IF metric = "closed" \/ fetched[i].closed = NoTime THEN now ELSE fetched[i].closed

Counted(metric) == {i \in DOMAIN fetched : Began(metric, i) # NoTime}

(* The period an issue enters a state in, and its days in the state.       *)
Entry(metric, i) == PeriodKey(PeriodFloor(Began(metric, i), asked.period), asked.period)
Parts(metric, i) ==
  IF i \in Counted(metric) THEN SplitInterval(Began(metric, i), Ended(metric, i), asked.period) ELSE <<>>

Keys == UNION {UNION {{Entry(m, i)} \cup {part.key : part \in ToSet(Parts(m, i))} : i \in Counted(m)} : m \in Metrics}

(* The numbers of a list, added up one after the other.                    *)
SumOf(list) ==
  LET UpTo[i \in 0 .. Len(list)] == IF i = 0 THEN 0 ELSE UpTo[i - 1] + list[i]
  IN  UpTo[Len(list)]

(* What the parts of an issue add to the days and to the parts of a period.*)
DaysIn(parts, key)  == SumOf([k \in DOMAIN parts |-> IF parts[k].key = key THEN parts[k].days ELSE 0])
PartsIn(parts, key) == SumOf([k \in DOMAIN parts |-> IF parts[k].key = key THEN 1 ELSE 0])

PeriodStats(key) ==
  [period |-> key,
   days   |-> [m \in Metrics |-> SumOf([i \in DOMAIN fetched |-> DaysIn(Parts(m, i), key)])],
   parts  |-> [m \in Metrics |-> SumOf([i \in DOMAIN fetched |-> PartsIn(Parts(m, i), key)])],
   count  |-> [m \in Metrics |-> Cardinality({i \in Counted(m) : Entry(m, i) = key})]]

(* The rows in the order of their periods, with the totals so far.  The    *)
(* mutant sorts by the number of the period before the year.               *)
Mutant_NthByNumber(keys, i) ==
  CHOOSE k \in keys : Cardinality({j \in keys : Before(<<j[2], j[1]>>, <<k[2], k[1]>>)}) = i - 1
Nth(keys, i) == CHOOSE k \in keys : Cardinality({j \in keys : Before(j, k)}) = i - 1

Total(list, metric, i) == SumOf([k \in 1 .. i |-> list[k].count[metric]])
Grouped(keys) == [i \in 1 .. Cardinality(keys) |-> PeriodStats(Nth(keys, i))]
Totalled(list) == [i \in DOMAIN list |->
  [period |-> list[i].period, days |-> list[i].days, parts |-> list[i].parts, count |-> list[i].count,
   total_open |-> Total(list, "open", i), total_closed |-> Total(list, "closed", i)]]
Rows == Totalled(Grouped(Keys))

(* print_table: the rows are those of Rows from here on.                  *)
Report ==
  /\ phase = "timelines" /\ Current > Len(fetched)
  /\ phase' = "charts"
  /\ UNCHANGED <<world, start, asked, now, fetches, queries, results>>

(* The charts asked for; none is drawn of a table without rows, and no run *)
(* without matplotlib that has one to draw exits with 0.  The mutant does. *)
Drawn == IF fetched = <<>> THEN {} ELSE asked.charts

Mutant_DrawNoMatplotlib ==
  /\ phase = "charts" /\ phase' = "end"
  /\ saved' = (IF asked.matplotlib THEN Drawn ELSE {}) /\ exit' = 0
  /\ UNCHANGED <<world, start, asked, now, fetches, queries>>
Draw ==
  /\ phase = "charts" /\ phase' = "end"
  /\ \/ (asked.matplotlib \/ Drawn = {}) /\ saved' = Drawn /\ exit' = 0
     \/ ~asked.matplotlib /\ Drawn # {} /\ exit' = 1 /\ UNCHANGED saved
  /\ UNCHANGED <<world, start, asked, now, fetches, queries>>

Script  == \/ Begin \/ FetchIssues \/ FetchPulls \/ QueryTimeline \/ NoTimeline \/ Report \/ Draw
Refused == TimelineRefused \/ Fail

Repository == \/ Open
              \/ \E n \in Numbers(items) : Close(n) \/ Reopen(n)
              \/ \E n \in Issues(items), p \in Pulls(items) \cup {0} : Link(n, p)
              \/ Tick

Next == Script \/ Refused \/ Repository

(* The script is one process, and its requests are answered or refused.    *)
Spec == Init /\ [][Next]_vars /\ WF_vars(Script)

-----------------------------------------------------------------------------
(* Properties.                                                             *)

(* Every variable keeps its type; an issue is done at most once.           *)
TypeOK ==
  /\ items \in Seq(Items) /\ start \in Histories
  /\ asked \in Asked /\ clock \in 1 .. Len(Moments) /\ events \in 0 .. MaxEvents
  /\ phase \in {"start", "issues", "pulls", "timelines", "charts", "end"}
  /\ now \in Times /\ page \in Nat \ {0}
  /\ fetched \in Seq([number : Nat, created : Nat, closed : Times])
  /\ DOMAIN index \subseteq Nat /\ \A n \in DOMAIN index : index[n] \in Nat
  /\ graphql \in BOOLEAN /\ cursor \in Nat /\ earliest \in Times
  /\ waits \in Seq(Times) /\ Len(waits) <= Len(fetched)
  /\ saved \subseteq asked.charts /\ exit \in {NoTime, 0, 1}

(* No issue is counted twice, whatever is opened, closed or reopened while *)
(* its pages are read (fetch_issues, of the state "all").                  *)
EachOnce ==
  asked.state = "all" => \A i, j \in DOMAIN fetched : fetched[i].number = fetched[j].number => i = j

(* A table has every issue there was when the run began.                   *)
NoneMissed ==
  (phase = "charts" /\ asked.state = "all") =>
     \A n \in Issues(start) : \E i \in DOMAIN waits : fetched[i].number = n

(* The in_pr time of an issue is the creation of a pull request linked to  *)
(* it, and no pull request linked before the run is earlier, in the source *)
(* the method asks; with auto, a closing keyword is found in either case.  *)
WaitsFromLinks ==
  \A i \in DOMAIN waits :
    LET n             == fetched[i].number
        Closing(list) == {p \in Pulls(list) : <<"this", n>> \in list[p].closes}
        Linked(list)  == Pulls(list) \cap ToSet(list[n].links)
        NotAfter(p)   == waits[i] # NoTime /\ waits[i] <= items[p].created
        Sources       == (IF RestAvailable THEN Closing(items) ELSE {}) \cup
                         (IF asked.method = "rest" THEN {} ELSE Linked(items))
    IN  /\ waits[i] # NoTime => \E p \in Sources : waits[i] = items[p].created
        /\ (graphql /\ n \in Numbers(start)) => \A p \in Linked(start) : NotAfter(p)
        /\ asked.method = "rest" => \A p \in Closing(start) : NotAfter(p)
        /\ (asked.method = "auto" /\ Closing(start) # {}) => waits[i] # NoTime
        /\ asked.method = "none" => waits[i] = NoTime

(* The days of a row are the half days of its period that the issues spent *)
(* in the state, and an issue has one part of the average if any: cutting  *)
(* an interval at the periods (split_interval_by_period) loses, repeats    *)
(* and misplaces no time.                                                  *)
Spent(metric) ==
  UNION {{<<j, t, PeriodKey(t, asked.period)>> : t \in Began(metric, j) .. Ended(metric, j) - 1} :
           j \in Counted(metric)}

DaysAddUp ==
  phase = "charts" =>
    \A rows \in {Rows}, m \in Metrics : \A spent \in {Spent(m)} :
      /\ \A i \in DOMAIN rows :
           LET here == {s \in spent : s[3] = rows[i].period}
           IN  /\ rows[i].days[m] = Cardinality(here)
               /\ rows[i].parts[m] = Cardinality({s[1] : s \in here})
      /\ {s[3] : s \in spent} \subseteq {rows[i].period : i \in DOMAIN rows}

(* The totals of a row are the issues opened and closed until the end of   *)
(* its period: the rows, sorted by the text of their keys, are in the      *)
(* order of time, over the end of a year too.                              *)
TotalsRun ==
  phase = "charts" =>
    \A rows \in {Rows} : \A i \in DOMAIN rows, metric \in {"open", "closed"} :
      LET entered == {j \in Counted(metric) :
                        \E t \in Began(metric, j) .. Moments[Len(Moments)] :
                           PeriodKey(t, asked.period) = rows[i].period}
      IN  Cardinality(entered) = IF metric = "open" THEN rows[i].total_open ELSE rows[i].total_closed

(* A run that exits with 0 has answered for every issue and saved every    *)
(* chart asked for, unless there was nothing to draw.                      *)
ExitTells ==
  exit = 0 => /\ Len(waits) = Len(fetched)
              /\ fetched = <<>> \/ saved = asked.charts

(* Every run ends: neither the pages of a listing nor those of a timeline  *)
(* go on for ever.                                                         *)
RunEnds == <>(exit # NoTime)

=============================================================================
