-------------------------- MODULE IssueStatsProofs --------------------------
EXTENDS IssueStats, PeriodsProofs, FiniteSetTheorems, TLAPS

-----------------------------------------------------------------------------
(* Places in a set of numbers.                                             *)

LEMMA RankType ==
  ASSUME NEW N \in Nat, NEW S \in SUBSET (1 .. N), NEW n \in Nat
  PROVE  /\ IsFiniteSet(S) /\ Cardinality(S) \in Nat
         /\ IsFiniteSet({m \in S : m <= n})
         /\ Rank(S, n) \in Nat /\ Rank(S, n) <= Cardinality(S)
         /\ \A m \in S : m \in 1 .. N /\ m \in Nat /\ m > 0
<1>1. IsFiniteSet(S) BY FS_Interval, FS_Subset, IsFiniteSet(1 .. N)
<1>2. IsFiniteSet({m \in S : m <= n}) /\ Cardinality({m \in S : m <= n}) <= Cardinality(S)
  BY <1>1, FS_Subset
<1> QED BY <1>1, <1>2, FS_CardinalityType DEF Rank

(* Each number of the set has a place of its own.                          *)
LEMMA RankStrict ==
  ASSUME NEW N \in Nat, NEW S \in SUBSET (1 .. N), NEW n \in S, NEW m \in Nat, m < n
  PROVE  Rank(S, m) < Rank(S, n)
<1> DEFINE A == {x \in S : x <= m}
           B == {x \in S : x <= n}
<1>1. IsFiniteSet(B) /\ IsFiniteSet(A) BY RankType
<1>0. n \in Nat /\ \A x \in S : x \in Nat BY RankType
<1>2. A \subseteq B /\ n \in B /\ n \notin A
  <2>1. \A x \in S : x <= m => x <= n BY <1>0
  <2>2. ~(n <= m) BY <1>0
  <2>3. n <= n BY <1>0
  <2>4. A \subseteq B BY <2>1
  <2>5. n \in B BY <2>3
  <2>6. n \notin A BY <2>2
  <2> QED BY <2>4, <2>5, <2>6
<1>3. Cardinality(A) <= Cardinality(B) /\ (Cardinality(A) = Cardinality(B) => A = B)
  BY <1>1, <1>2, FS_Subset
<1>4. Cardinality(A) \in Nat /\ Cardinality(B) \in Nat BY <1>1, FS_CardinalityType
<1> QED BY <1>2, <1>3, <1>4 DEF Rank

LEMMA RankIsPlace ==
  ASSUME NEW N \in Nat, NEW S \in SUBSET (1 .. N), NEW n \in S
  PROVE  Rank(S, n) \in 1 .. Cardinality(S)
<1>1. n \in Nat /\ n > 0 /\ 0 \in Nat BY RankType
<1>2. Rank(S, 0) < Rank(S, n) BY <1>1, RankStrict
<1>3. Rank(S, 0) \in Nat /\ Rank(S, n) \in Nat /\ Cardinality(S) \in Nat /\ Rank(S, n) <= Cardinality(S)
  BY <1>1, RankType
<1> QED BY <1>2, <1>3

(* And every place has a number.                                           *)
LEMMA RankOnto ==
  ASSUME NEW N \in Nat, NEW S \in SUBSET (1 .. N), NEW i \in 1 .. Cardinality(S)
  PROVE  \E n \in S : Rank(S, n) = i
<1> DEFINE T == {n \in Nat : i <= Rank(S, n)}
<1>0. /\ Cardinality(S) \in Nat /\ IsFiniteSet(S)
      /\ \A m \in S : m \in Nat /\ m > 0 /\ m <= N
  <2>1. 0 \in Nat OBVIOUS
  <2>2. Cardinality(S) \in Nat /\ IsFiniteSet(S) BY <2>1, RankType
  <2>3. \A m \in S : m \in Nat /\ m > 0 /\ m <= N OBVIOUS
  <2> QED BY <2>2, <2>3
<1>1. N \in T
  <2>1. {m \in S : m <= N} = S BY <1>0
  <2> QED BY <2>1, <1>0 DEF Rank
<1>2. PICK n \in T : \A m \in T : n <= m BY <1>1, LeastNat
<1>3. Rank(S, 0) = 0
  <2>0. \A m \in S : ~(m <= 0) BY <1>0
  <2>1. {m \in S : m <= 0} = {} BY <2>0
  <2> QED BY <2>1, FS_EmptySet DEF Rank
<1>4. n # 0 BY <1>2, <1>3, <1>0
<1>5. n - 1 \in Nat /\ n - 1 \notin T BY <1>2, <1>4
<1>6. Rank(S, n - 1) < i /\ Rank(S, n - 1) \in Nat /\ Rank(S, n) \in Nat /\ i <= Rank(S, n)
  <2>1. n \in Nat /\ n - 1 \in Nat BY <1>2, <1>5
  <2>2. Rank(S, n - 1) \in Nat /\ Rank(S, n) \in Nat BY <2>1, RankType
  <2> QED BY <1>2, <1>5, <2>2
<1> DEFINE A == {x \in S : x <= n - 1}
           B == {x \in S : x <= n}
<1>7. IsFiniteSet(A) BY <1>5, RankType
<1>8. n \in S
  <2>0. \A x \in S : x # n => (x <= n - 1 <=> x <= n) BY <1>0, <1>2
  <2>1. n \notin S => A = B BY <2>0
  <2> QED BY <2>1, <1>6 DEF Rank
<1>9. B = A \cup {n} /\ n \notin A
  <2>1. \A x \in S : x <= n <=> x <= n - 1 \/ x = n BY <1>0, <1>2
  <2>2. ~(n <= n - 1) BY <1>2
  <2> QED BY <1>8, <2>1, <2>2
<1>10. Cardinality(B) = Cardinality(A) + 1 BY <1>7, <1>9, FS_AddElement
<1>11. Rank(S, n) = Rank(S, n - 1) + 1 BY <1>10 DEF Rank
<1>12. i \in Nat BY <1>0
<1> QED BY <1>6, <1>8, <1>11, <1>12

(* Of the first numbers each is at its own place.                          *)
LEMMA RankOfAll ==
  ASSUME NEW N \in Nat, NEW n \in 1 .. N PROVE Rank(1 .. N, n) = n
<1>1. {m \in 1 .. N : m <= n} = 1 .. n OBVIOUS
<1>2. Cardinality(1 .. n) = n BY FS_Interval
<1> QED BY <1>1, <1>2 DEF Rank

LEMMA InOrderFacts ==
  ASSUME NEW N \in Nat, NEW S \in SUBSET (1 .. N)
  PROVE  /\ InOrder(S) \in Seq(S) /\ Len(InOrder(S)) = Cardinality(S)
         /\ \A i \in 1 .. Cardinality(S) : InOrder(S)[i] \in S /\ Rank(S, InOrder(S)[i]) = i
         /\ \A n \in S : \E i \in 1 .. Cardinality(S) : InOrder(S)[i] = n
<1>0. Cardinality(S) \in Nat BY RankType
<1>1. \A i \in 1 .. Cardinality(S) : InOrder(S)[i] \in S /\ Rank(S, InOrder(S)[i]) = i
  <2> TAKE i \in 1 .. Cardinality(S)
  <2>1. \E n \in S : Rank(S, n) = i BY RankOnto
  <2>2. InOrder(S)[i] = CHOOSE n \in S : Rank(S, n) = i BY DEF InOrder
  <2> QED BY <2>1, <2>2
<1>2. InOrder(S) \in [1 .. Cardinality(S) -> S] BY <1>1 DEF InOrder
<1>3. InOrder(S) \in Seq(S) /\ Len(InOrder(S)) = Cardinality(S) BY <1>0, <1>2
<1>4. ASSUME NEW n \in S PROVE \E i \in 1 .. Cardinality(S) : InOrder(S)[i] = n
  <2>1. Rank(S, n) \in 1 .. Cardinality(S) BY RankIsPlace
  <2> DEFINE m == InOrder(S)[Rank(S, n)]
  <2>2. m \in S /\ Rank(S, m) = Rank(S, n) BY <1>1, <2>1
  <2>3. m \in Nat /\ n \in Nat BY <2>2, RankType
  <2>4. ~(m < n) /\ ~(n < m)
    <3>1. Rank(S, n) \in Nat BY <2>1
    <3> HIDE DEF m
    <3>2. m < n => Rank(S, m) < Rank(S, n) BY <2>3, RankStrict
    <3>3. n < m => Rank(S, n) < Rank(S, m) BY <2>2, <2>3, RankStrict
    <3> QED BY <2>2, <3>1, <3>2, <3>3
  <2>5. m = n BY <2>3, <2>4
  <2> QED BY <2>1, <2>5
<1> QED BY <1>1, <1>3, <1>4


-----------------------------------------------------------------------------
(* Times and the repository.                                               *)

LEMMA TimeType == TypeOK => Time \in Nat
BY BoundsAssumption DEF TypeOK, Time

LEMMA ItemType ==
  ASSUME NEW list \in Seq(Items), NEW n \in DOMAIN list
  PROVE  /\ n \in Nat /\ n \in 1 .. Len(list) /\ list[n] \in Items
         /\ list[n].kind \in {"issue", "pr"} /\ list[n].created \in Nat /\ list[n].closed \in Times
         /\ list[n].links \in Seq(Nat) /\ LinkedIssues(list[n].closes) \subseteq Nat
<1>1. n \in 1 .. Len(list) /\ list[n] \in Items OBVIOUS
<1>2. list[n].closes \subseteq {"this", "other"} \X Nat BY <1>1 DEF Items
<1>3. LinkedIssues(list[n].closes) \subseteq Nat BY <1>2 DEF LinkedIssues
<1> QED BY <1>1, <1>3 DEF Items

LEMMA NumbersFacts ==
  ASSUME NEW list \in Seq(Items)
  PROVE  /\ Len(list) \in Nat /\ Numbers(list) = 1 .. Len(list)
         /\ Issues(list) \in SUBSET (1 .. Len(list)) /\ Pulls(list) \in SUBSET (1 .. Len(list))
BY DEF Numbers, Issues, Pulls

(* The earliest of some pull requests, if any.                             *)
LEMMA EarliestFacts ==
  ASSUME TypeOK, NEW numbers
  PROVE  /\ EarliestOf(numbers) \in Times
         /\ EarliestOf(numbers) # NoTime =>
              \E p \in Pulls(items) \cap numbers : EarliestOf(numbers) = items[p].created
         /\ \A p \in Pulls(items) \cap numbers :
              EarliestOf(numbers) # NoTime /\ EarliestOf(numbers) <= items[p].created
<1> DEFINE times == {items[p].created : p \in Pulls(items) \cap numbers}
<1>1. times \in SUBSET Nat
  <2>1. \A p \in Pulls(items) : items[p].created \in Nat
    BY ItemType DEF TypeOK, Pulls, Numbers
  <2> QED BY <2>1
<1>2. CASE times = {}
  <2>1. Pulls(items) \cap numbers = {} BY <1>2
  <2>2. EarliestOf(numbers) = NoTime BY <1>2 DEF EarliestOf
  <2> QED BY <2>1, <2>2 DEF Times
<1>3. CASE times # {}
  <2>1. \E x \in times : \A y \in times : x <= y BY <1>1, <1>3, LeastNat
  <2>2. EarliestOf(numbers) = Min(times) BY <1>3 DEF EarliestOf
  <2> HIDE DEF times
  <2>3. Min(times) \in times /\ \A y \in times : Min(times) <= y BY <2>1 DEF Min
  <2>4. Min(times) # NoTime BY <1>1, <2>3, BoundsAssumption
  <2> QED BY <1>1, <2>2, <2>3, <2>4 DEF Times, times
<1> QED BY <1>2, <1>3

LEMMA EarlierFacts ==
  ASSUME NEW old \in Times, NEW new \in Times
  PROVE  /\ Earlier(old, new) \in {old, new} /\ Earlier(old, new) \in Times
         /\ \A t \in {old, new} : t # NoTime => Earlier(old, new) # NoTime /\ Earlier(old, new) <= t
BY BoundsAssumption DEF Earlier, Times

(* Items are not taken back: what an item was opened with stays, and its   *)
(* timeline is only added to.                                              *)
Grows(old, new) ==
  /\ Len(old) <= Len(new)
  /\ \A n \in DOMAIN old :
       /\ new[n].kind = old[n].kind /\ new[n].created = old[n].created
       /\ new[n].closes = old[n].closes
       /\ \A k \in DOMAIN old[n].links : k \in DOMAIN new[n].links /\ new[n].links[k] = old[n].links[k]

LEMMA GrowsStep ==
  ASSUME NEW a \in Seq(Items), NEW b \in Seq(Items), NEW c \in Seq(Items), Grows(a, b), Grows(b, c)
  PROVE  Grows(a, c)
<1>1. DOMAIN a \subseteq DOMAIN b /\ DOMAIN b \subseteq DOMAIN c BY DEF Grows
<1>2. Len(a) <= Len(c) BY DEF Grows
<1> QED BY <1>1, <1>2 DEF Grows

LEMMA RepositoryStep ==
  ASSUME TypeOK, Repository
  PROVE  /\ items' \in Seq(Items) /\ Grows(items, items')
         /\ clock' \in 1 .. Len(Moments) /\ events' \in 0 .. MaxEvents
         /\ UNCHANGED <<start, asked, phase, now, fetches, queries, results>>
<1> USE DEF Happens, fetches, queries, results
<1>0. items \in Seq(Items) /\ Time \in Nat /\ NoTime \in Times BY TimeType DEF TypeOK, Times
<1>1. CASE Open
  <2>1. ASSUME NEW new \in Items, items' = Append(items, new)
        PROVE  items' \in Seq(Items) /\ Grows(items, items')
    BY <1>0, <2>1 DEF Grows
  <2>2. NewItem("issue", {}) \in Items BY <1>0 DEF NewItem, Items
  <2>3. ASSUME NEW where \in {"this", "other"}, NEW n \in Issues(items)
        PROVE  NewItem("pr", {<<where, n>>}) \in Items
    <3>1. n \in Nat BY <1>0, NumbersFacts
    <3>2. {<<where, n>>} \in SUBSET ({"this", "other"} \X Nat) BY <3>1
    <3> QED BY <1>0, <3>2 DEF NewItem, Items
  <2>4. items' \in Seq(Items) /\ Grows(items, items') BY <1>1, <2>1, <2>2, <2>3 DEF Open
  <2> QED BY <1>1, <2>4, BoundsAssumption DEF Open, TypeOK
<1>2. ASSUME NEW n \in Numbers(items), NEW t \in Times, items' = [items EXCEPT ![n].closed = t]
      PROVE  items' \in Seq(Items) /\ Grows(items, items')
  <2>1. n \in DOMAIN items /\ items[n] \in Items BY <1>0, ItemType DEF Numbers
  <2>2. [items[n] EXCEPT !.closed = t] \in Items BY <2>1 DEF Items
  <2>3. items' \in Seq(Items) BY <1>0, <1>2, <2>1, <2>2
  <2>4. \A m \in DOMAIN items : /\ items'[m].kind = items[m].kind /\ items'[m].created = items[m].created
                                /\ items'[m].closes = items[m].closes /\ items'[m].links = items[m].links
    BY <1>0, <1>2, <2>1 DEF Items
  <2>5. Len(items') = Len(items) BY <1>0, <1>2
  <2> QED BY <1>0, <2>3, <2>4, <2>5 DEF Grows
<1>3. ASSUME NEW n \in Numbers(items), Close(n) \/ Reopen(n) PROVE TRUE /\ items' \in Seq(Items) /\ Grows(items, items')
  BY <1>0, <1>2, <1>3 DEF Close, Reopen, Times
<1>4. ASSUME NEW n \in Issues(items), NEW p \in Pulls(items) \cup {0}, Link(n, p)
      PROVE  items' \in Seq(Items) /\ Grows(items, items')
  <2>1. n \in DOMAIN items /\ items[n] \in Items /\ p \in Nat /\ items[n].links \in Seq(Nat)
    BY <1>0, ItemType, NumbersFacts DEF Numbers, Issues
  <2>2. items' = [items EXCEPT ![n].links = Append(@, p)] BY <1>4 DEF Link
  <2>3. Append(items[n].links, p) \in Seq(Nat) BY <2>1
  <2>4. [items[n] EXCEPT !.links = Append(items[n].links, p)] \in Items BY <2>1, <2>3 DEF Items
  <2>5. items' \in Seq(Items) BY <1>0, <2>1, <2>2, <2>4
  <2>6. \A m \in DOMAIN items : /\ items'[m].kind = items[m].kind /\ items'[m].created = items[m].created
                                /\ items'[m].closes = items[m].closes
                                /\ items'[m].links = IF m = n THEN Append(items[m].links, p) ELSE items[m].links
    BY <1>0, <2>1, <2>2 DEF Items
  <2>7. Len(items') = Len(items) BY <1>0, <2>2
  <2>8. \A k \in DOMAIN items[n].links : /\ k \in DOMAIN Append(items[n].links, p)
                                         /\ Append(items[n].links, p)[k] = items[n].links[k]
    BY <2>1
  <2>9. \A m \in DOMAIN items : \A k \in DOMAIN items[m].links :
          k \in DOMAIN items'[m].links /\ items'[m].links[k] = items[m].links[k]
    BY <2>6, <2>8
  <2> QED BY <1>0, <2>5, <2>6, <2>7, <2>9 DEF Grows
<1>5. CASE Tick
  <2>1. Grows(items, items) BY <1>0 DEF Grows
  <2> QED BY <1>0, <1>5, <2>1 DEF Tick, TypeOK
<1>6. ASSUME (\E n \in Numbers(items) : Close(n) \/ Reopen(n)) \/
             (\E n \in Issues(items), p \in Pulls(items) \cup {0} : Link(n, p))
      PROVE  /\ clock' \in 1 .. Len(Moments) /\ events' \in 0 .. MaxEvents
             /\ UNCHANGED <<start, asked, phase, now, fetches, queries, results>>
  BY <1>6, BoundsAssumption DEF Close, Reopen, Link, TypeOK
<1> QED BY <1>1, <1>3, <1>4, <1>5, <1>6 DEF Repository

-----------------------------------------------------------------------------
(* Every variable keeps its type.                                          *)

LEMMA IndexFacts ==
  ASSUME TypeOK, NEW answer \in SUBSET Pulls(items)
  PROVE  /\ DOMAIN Index(answer) \subseteq Nat
         /\ \A n \in DOMAIN Index(answer) :
              /\ Index(answer)[n] \in Nat
              /\ \/ n \in DOMAIN index /\ Index(answer)[n] = index[n]
                 \/ \E p \in answer : n \in LinkedIssues(items[p].closes) /\ Index(answer)[n] = items[p].created
         /\ \A n \in DOMAIN index : n \in DOMAIN Index(answer) /\ Index(answer)[n] <= index[n]
         /\ \A p \in answer : \A n \in LinkedIssues(items[p].closes) :
              n \in DOMAIN Index(answer) /\ Index(answer)[n] <= items[p].created
<1> DEFINE Of(n)  == {p \in answer : n \in LinkedIssues(items[p].closes)}
           Linked == UNION {LinkedIssues(items[p].closes) : p \in answer}
<1>0. items \in Seq(Items) BY DEF TypeOK
<1>1. DOMAIN Index(answer) = DOMAIN index \cup Linked BY DEF Index
<1>2. \A n \in DOMAIN Index(answer) : Index(answer)[n] = Earlier(Indexed(n), EarliestOf(Of(n)))
  BY DEF Index
<1>3. Linked \subseteq Nat
  <2>1. \A p \in answer : LinkedIssues(items[p].closes) \subseteq Nat
    BY <1>0, ItemType DEF Pulls, Numbers
  <2> QED BY <2>1
<1>4. ASSUME NEW n \in DOMAIN Index(answer)
      PROVE  /\ Index(answer)[n] \in Nat
             /\ \/ n \in DOMAIN index /\ Index(answer)[n] = index[n]
                \/ \E p \in answer : n \in LinkedIssues(items[p].closes) /\ Index(answer)[n] = items[p].created
             /\ n \in DOMAIN index => Index(answer)[n] <= index[n]
             /\ \A p \in Of(n) : Index(answer)[n] <= items[p].created
  <2> DEFINE old == Indexed(n)
             new == EarliestOf(Of(n))
  <2>1. old = IF n \in DOMAIN index THEN index[n] ELSE NoTime BY DEF Indexed
  <2>2. old \in Times /\ (n \in DOMAIN index => old \in Nat)
    BY <2>1 DEF TypeOK, Times
  <2>3. /\ new \in Times
        /\ new # NoTime => \E p \in Pulls(items) \cap Of(n) : new = items[p].created
        /\ \A p \in Pulls(items) \cap Of(n) : new # NoTime /\ new <= items[p].created
    BY EarliestFacts
  <2>4. n \notin DOMAIN index => Of(n) # {} BY <1>1
  <2>5. Of(n) \subseteq Pulls(items) OBVIOUS
  <2>6. \A p \in Of(n) : items[p].created \in Nat
    BY <1>0, ItemType DEF Pulls, Numbers
  <2> HIDE DEF old, new
  <2>7. /\ Earlier(old, new) \in {old, new} /\ Earlier(old, new) \in Times
        /\ old # NoTime => Earlier(old, new) # NoTime /\ Earlier(old, new) <= old
        /\ new # NoTime => Earlier(old, new) # NoTime /\ Earlier(old, new) <= new
    BY <2>2, <2>3, EarlierFacts
  <2>8. Index(answer)[n] = Earlier(old, new) BY <1>2 DEF old, new
  <2>9. old # NoTime \/ new # NoTime
    <3>1. CASE n \in DOMAIN index BY <2>2, <3>1, BoundsAssumption
    <3>2. CASE n \notin DOMAIN index BY <2>3, <2>4, <2>5, <3>2
    <3> QED BY <3>1, <3>2
  <2>10. Index(answer)[n] # NoTime /\ Index(answer)[n] \in Nat BY <2>7, <2>8, <2>9 DEF Times
  <2>11. CASE Index(answer)[n] = old
    <3>1. n \in DOMAIN index /\ old = index[n] BY <2>1, <2>10, <2>11
    <3>2. \A p \in Of(n) : Index(answer)[n] <= items[p].created
      <4> TAKE p \in Of(n)
      <4>1. new # NoTime /\ new <= items[p].created BY <2>3, <2>5
      <4>2. new \in Nat BY <2>3, <4>1 DEF Times
      <4> QED BY <2>6, <2>7, <2>8, <2>10, <4>1, <4>2
    <3> QED BY <2>2, <2>10, <2>11, <3>1, <3>2
  <2>12. CASE Index(answer)[n] = new
    <3>1. \E p \in Of(n) : new = items[p].created BY <2>3, <2>10, <2>12
    <3>2. \A p \in Of(n) : Index(answer)[n] <= items[p].created BY <2>3, <2>5, <2>12
    <3>3. n \in DOMAIN index => Index(answer)[n] <= index[n]
      BY <2>1, <2>2, <2>7, <2>8, BoundsAssumption
    <3> QED BY <2>10, <2>12, <3>1, <3>2, <3>3
  <2> QED BY <2>7, <2>8, <2>11, <2>12
<1>5. ASSUME NEW p \in answer, NEW n \in LinkedIssues(items[p].closes)
      PROVE  n \in DOMAIN Index(answer) /\ Index(answer)[n] <= items[p].created
  <2>1. n \in DOMAIN Index(answer) /\ p \in Of(n) BY <1>1
  <2> QED BY <1>4, <2>1
<1> HIDE DEF Linked, Of
<1> QED BY <1>1, <1>3, <1>4, <1>5 DEF TypeOK

(* A page of a listing, and the place of the issues on it.                 *)
LEMMA PageFacts ==
  ASSUME TypeOK
  PROVE  /\ \A k, size : Page(Listed(asked.state), k, size) \cap Issues(items) \in SUBSET (1 .. Len(items))
         /\ \A k, size : Page(Pulls(items), k, size) \in SUBSET Pulls(items)
         /\ items \in Seq(Items) /\ Len(items) \in Nat
BY NumbersFacts DEF Page, TypeOK

LEMMA SnapshotType ==
  ASSUME TypeOK, NEW n \in Issues(items)
  PROVE  /\ Snapshot(n) \in [number : Nat, created : Nat, closed : Times]
         /\ Snapshot(n).number = n
<1>1. items \in Seq(Items) /\ n \in DOMAIN items BY DEF TypeOK, Issues, Numbers
<1> QED BY <1>1, ItemType DEF Snapshot

(* What is fetched in a step: the issues of the page, each once.           *)
LEMMA FetchFacts ==
  ASSUME TypeOK, NEW list \in SUBSET Issues(items)
  PROVE  LET found == InOrder(list)
             new   == [k \in DOMAIN found |-> Snapshot(found[k])]
         IN  /\ new \in Seq([number : Nat, created : Nat, closed : Times])
             /\ \A k \in DOMAIN new : new[k].number \in list
             /\ \A j, k \in DOMAIN new : new[j].number = new[k].number => j = k
             /\ \A n \in list : \E k \in DOMAIN new : new[k].number = n
<1> DEFINE found == InOrder(list)
           new   == [k \in DOMAIN found |-> Snapshot(found[k])]
           Fetched == [number : Nat, created : Nat, closed : Times]
<1>1. /\ found \in Seq(list) /\ Len(found) = Cardinality(list)
      /\ \A i \in 1 .. Cardinality(list) : found[i] \in list /\ Rank(list, found[i]) = i
      /\ \A n \in list : \E i \in 1 .. Cardinality(list) : found[i] = n
  <2>1. items \in Seq(Items) BY DEF TypeOK
  <2>2. list \in SUBSET (1 .. Len(items)) /\ Len(items) \in Nat BY <2>1, NumbersFacts
  <2> QED BY <2>2, InOrderFacts
<1> HIDE DEF found
<1>2. DOMAIN found = 1 .. Len(found) /\ Len(found) \in Nat BY <1>1
<1>3. \A k \in DOMAIN found : Snapshot(found[k]) \in Fetched /\ Snapshot(found[k]).number = found[k]
  BY <1>1, <1>2, SnapshotType
<1>4. \A j, k \in DOMAIN found : found[j] = found[k] => j = k BY <1>1, <1>2
<1>5. new \in [1 .. Len(found) -> Fetched] BY <1>2, <1>3
<1>6. new \in Seq(Fetched) BY <1>2, <1>5
<1>7. DOMAIN new = DOMAIN found /\ \A k \in DOMAIN new : new[k].number = found[k] BY <1>3
<1>8. \A k \in DOMAIN new : new[k].number \in list BY <1>1, <1>2, <1>7
<1>9. \A j, k \in DOMAIN new : new[j].number = new[k].number => j = k BY <1>4, <1>7
<1>10. \A n \in list : \E k \in DOMAIN new : new[k].number = n BY <1>1, <1>2, <1>7
<1> HIDE DEF new
<1> QED BY <1>6, <1>8, <1>9, <1>10 DEF found, new

LEMMA TypeInit == Init => TypeOK
<1> SUFFICES ASSUME Init PROVE TypeOK OBVIOUS
<1>1. items \in Seq(Items) BY HistoriesAssumption DEF Init
<1>2. asked \in Asked /\ asked.method \in Methods BY AskedAssumption DEF Init
<1>3. clock \in 1 .. Len(Moments) BY BoundsAssumption DEF Init
<1> QED BY <1>1, <1>2, <1>3, BoundsAssumption DEF Init, TypeOK, Times

LEMMA TypeStep == TypeOK /\ [Next]_vars => TypeOK'
<1> SUFFICES ASSUME TypeOK, [Next]_vars PROVE TypeOK' OBVIOUS
<1> DEFINE Fetched == [number : Nat, created : Nat, closed : Times]
<1>0. /\ NoTime \in Times /\ Time \in Nat /\ items \in Seq(Items) /\ fetched \in Seq(Fetched) /\ page \in Nat
      /\ \A t \in Nat : t \in Times
  BY TimeType DEF TypeOK, Times
<1>1. CASE Repository
  <2>1. /\ items' \in Seq(Items) /\ clock' \in 1 .. Len(Moments) /\ events' \in 0 .. MaxEvents
        /\ UNCHANGED <<start, asked, phase, now, fetches, queries, results>>
    BY <1>1, RepositoryStep
  <2> QED BY <2>1 DEF TypeOK, fetches, queries, results
<1>2. CASE Begin BY <1>2, <1>0 DEF TypeOK, Begin, world, fetches, queries, results
<1>3. CASE FetchIssues
  <2> DEFINE found == InOrder(Page(Listed(asked.state), page, PerPage) \cap Issues(items))
             new   == [k \in DOMAIN found |-> Snapshot(found[k])]
  <2>1. new \in Seq(Fetched)
    <3>1. Page(Listed(asked.state), page, PerPage) \cap Issues(items) \in SUBSET Issues(items) OBVIOUS
    <3> QED BY <3>1, FetchFacts
  <2>2. fetched' \in Seq(Fetched) /\ Len(fetched') >= Len(fetched)
    <3>1. fetched' = fetched \o new \/ fetched' = fetched BY <1>3 DEF FetchIssues
    <3> HIDE DEF new
    <3>2. fetched \o new \in Seq(Fetched) /\ Len(fetched \o new) = Len(fetched) + Len(new) /\ Len(new) \in Nat
      BY <1>0, <2>1
    <3>3. Len(fetched) \in Nat BY <1>0
    <3>4. CASE fetched' = fetched \o new
      <4>1. fetched' \in Seq(Fetched) BY <3>2, <3>4
      <4>2. Len(fetched') = Len(fetched) + Len(new) BY <3>2, <3>4
      <4> QED BY <3>2, <3>3, <4>1, <4>2
    <3>5. CASE fetched' = fetched BY <1>0, <3>3, <3>5
    <3> QED BY <3>1, <3>4, <3>5
  <2>3. phase' \in {"issues", "pulls", "timelines"} /\ page' \in Nat \ {0}
    BY <1>0, <1>3 DEF FetchIssues, TypeOK
  <2>4. UNCHANGED <<world, start, asked, now, index, queries, results>> BY <1>3 DEF FetchIssues
  <2> HIDE DEF new
  <2> QED BY <2>2, <2>3, <2>4 DEF TypeOK, world, queries, results
<1>4. CASE FetchPulls
  <2>1. Page(Pulls(items), page, PerPage) \in SUBSET Pulls(items) BY PageFacts
  <2>2. DOMAIN index' \subseteq Nat /\ \A n \in DOMAIN index' : index'[n] \in Nat
    <3>1. index' = index \/ index' = Index(Page(Pulls(items), page, PerPage)) BY <1>4 DEF FetchPulls
    <3> QED BY <2>1, <3>1, IndexFacts DEF TypeOK
  <2>3. phase' \in {"pulls", "timelines"} /\ page' \in Nat \ {0} BY <1>0, <1>4 DEF FetchPulls, TypeOK
  <2>4. UNCHANGED <<world, start, asked, now, fetched, queries, results>> BY <1>4 DEF FetchPulls
  <2> QED BY <2>2, <2>3, <2>4 DEF TypeOK, world, queries, results
<1>5. ASSUME NEW found \in Times, Working, Conclude(found)
      PROVE  /\ waits' \in Seq(Times) /\ Len(waits') <= Len(fetched)
             /\ cursor' \in Nat /\ earliest' \in Times
  <2>1. Indexed(fetched[Current].number) \in Times BY <1>0 DEF Indexed, TypeOK
  <2>2. \E t \in Times : waits' = Append(waits, t) BY <1>5, <2>1 DEF Conclude
  <2>3. waits' \in Seq(Times) /\ Len(waits') = Len(waits) + 1 BY <2>2 DEF TypeOK
  <2> QED BY <1>0, <1>5, <2>3 DEF Conclude, Working, Current
<1>6. CASE QueryTimeline
  <2> DEFINE links == items[fetched[Current].number].links
             nodes == {links[k] : k \in {j \in DOMAIN links : cursor < j /\ j <= cursor + TimelinePerPage}}
             found == Earlier(earliest, EarliestOf(nodes))
  <2>1. found \in Times
    <3>1. EarliestOf(nodes) \in Times BY EarliestFacts
    <3>2. earliest \in Times BY DEF TypeOK
    <3> HIDE DEF nodes
    <3> QED BY <3>1, <3>2, EarlierFacts
  <2>2. /\ Working /\ UNCHANGED graphql /\ Quiet
        /\ \/ cursor' = EndCursor /\ earliest' = found /\ UNCHANGED waits
           \/ Conclude(found)
    BY <1>6 DEF QueryTimeline
  <2> HIDE DEF found
  <2>3. /\ waits' \in Seq(Times) /\ Len(waits') <= Len(fetched) /\ cursor' \in Nat /\ earliest' \in Times
    <3>1. CASE Conclude(found) BY <1>5, <2>1, <2>2, <3>1
    <3>2. CASE cursor' = EndCursor /\ earliest' = found /\ UNCHANGED waits
      BY <2>1, <3>2, BoundsAssumption DEF TypeOK, EndCursor
    <3> QED BY <2>2, <3>1, <3>2
  <2> QED BY <2>2, <2>3 DEF TypeOK, Quiet, world, fetches, results
<1>7. CASE TimelineRefused \/ NoTimeline
  <2>1. /\ waits' \in Seq(Times) /\ Len(waits') <= Len(fetched) /\ cursor' \in Nat /\ earliest' \in Times
    BY <1>0, <1>5, <1>7 DEF TimelineRefused, NoTimeline
  <2>2. graphql' \in BOOLEAN /\ Quiet BY <1>7 DEF TimelineRefused, NoTimeline, TypeOK
  <2> QED BY <2>1, <2>2 DEF TypeOK, Quiet, world, fetches, results
<1>8. CASE Report BY <1>8 DEF Report, TypeOK, world, fetches, queries, results
<1>9. CASE Draw
  <2>1. saved' \subseteq asked.charts /\ exit' \in {NoTime, 0, 1} BY <1>9 DEF Draw, Drawn, TypeOK
  <2> QED BY <1>9, <2>1 DEF Draw, TypeOK, world, fetches, queries
<1>10. CASE Fail BY <1>10 DEF Fail, TypeOK, world, fetches, queries
<1>11. CASE UNCHANGED vars BY <1>11 DEF vars, TypeOK, world, fetches, queries, results
<1> QED
  BY <1>1, <1>2, <1>3, <1>4, <1>6, <1>7, <1>8, <1>9, <1>10, <1>11 DEF Next, Script, Refused

-----------------------------------------------------------------------------
(* The invariant.                                                          *)

Done == (page - 1) * PerPage

(* What the run began with is still there.                                 *)
GrowsInv == Grows(start, items)

(* What each phase has left, or not yet begun.                             *)
PhaseInv ==
  /\ phase = "start" => fetched = <<>> /\ page = 1
  /\ phase \in {"start", "issues", "pulls"} => waits = <<>> /\ cursor = 0 /\ earliest = NoTime
  /\ phase = "pulls" => RestAvailable
  /\ phase = "charts" => Len(waits) = Len(fetched)
  /\ exit # NoTime => phase = "end"
  /\ graphql => asked.method \in {"auto", "graphql"}

(* The pages of the issues: what was fetched is on the pages before, and   *)
(* of those, the issues there at the start were fetched.                   *)
FetchedInv == \A i \in DOMAIN fetched : fetched[i].number \in Issues(items)

HasFetched(n) == \E i \in DOMAIN fetched : fetched[i].number = n
ListedInv ==
  asked.state = "all" =>
    /\ phase = "issues" => \A i \in DOMAIN fetched : fetched[i].number <= Done
    /\ phase = "issues" => \A n \in Issues(start) : n <= Done => HasFetched(n)
    /\ phase \in {"pulls", "timelines", "charts"} => \A n \in Issues(start) : HasFetched(n)

(* The index has times of pull requests that close the issue, and has met  *)
(* those there at the start that are on the pages before.                  *)
Closes(list, p, n) == n \in LinkedIssues(list[p].closes)
Met(p) == \A n \in LinkedIssues(start[p].closes) : n \in DOMAIN index /\ index[n] <= start[p].created
IndexInv ==
  /\ \A n \in DOMAIN index : \E p \in Pulls(items) : Closes(items, p, n) /\ index[n] = items[p].created
  /\ phase = "pulls" => \A p \in Pulls(start) : Rank(Pulls(start), p) <= Done => Met(p)
  /\ phase = "timelines" /\ RestAvailable => \A p \in Pulls(start) : Met(p)

(* earliest is the time of a linked pull request, and no later than any of *)
(* those of the start on the pages of the timeline read so far.            *)
Links == items[fetched[Current].number].links
TimelineInv ==
  Working =>
    /\ cursor <= Len(Links)
    /\ earliest # NoTime =>
         /\ asked.method \in {"auto", "graphql"}
         /\ \E p \in Pulls(items) \cap ToSet(Links) : earliest = items[p].created
    /\ \A j \in DOMAIN Links : j <= cursor /\ Links[j] \in Pulls(start) =>
         earliest # NoTime /\ earliest <= start[Links[j]].created

(* The time of an issue that is done.                                      *)
RightWait(n, t) ==
  /\ t # NoTime =>
       \E p \in Pulls(items) : /\ t = items[p].created
                               /\ \/ RestAvailable /\ Closes(items, p, n)
                                  \/ asked.method # "rest" /\ p \in ToSet(items[n].links)
  /\ graphql /\ n \in Numbers(start) =>
       \A p \in Pulls(start) \cap ToSet(start[n].links) : t # NoTime /\ t <= start[p].created
  /\ asked.method = "rest" =>
       \A p \in Pulls(start) : Closes(start, p, n) => t # NoTime /\ t <= start[p].created
  /\ asked.method = "auto" => \A p \in Pulls(start) : Closes(start, p, n) => t # NoTime
  /\ asked.method = "none" => t = NoTime

WaitsInv == \A i \in DOMAIN waits : RightWait(fetched[i].number, waits[i])

StatsInv ==
  /\ TypeOK /\ GrowsInv /\ PhaseInv /\ FetchedInv /\ ListedInv /\ EachOnce
  /\ IndexInv /\ TimelineInv /\ WaitsInv /\ ExitTells

-----------------------------------------------------------------------------
(* What growing keeps.                                                     *)

LEMMA GrowsFacts ==
  ASSUME NEW a \in Seq(Items), NEW b \in Seq(Items), Grows(a, b)
  PROVE  /\ Pulls(a) \subseteq Pulls(b) /\ Issues(a) \subseteq Issues(b)
         /\ \A n \in DOMAIN a : /\ n \in DOMAIN b /\ b[n].created = a[n].created /\ b[n].closes = a[n].closes
                                /\ ToSet(a[n].links) \subseteq ToSet(b[n].links)
         /\ \A p \in Pulls(a) : Rank(Pulls(b), p) = Rank(Pulls(a), p)
<1>1. /\ Len(a) \in Nat /\ Len(b) \in Nat /\ DOMAIN a = 1 .. Len(a) /\ DOMAIN b = 1 .. Len(b)
      /\ Len(a) <= Len(b)
  BY DEF Grows
<1>2. \A n \in DOMAIN a : n \in DOMAIN b /\ b[n].kind = a[n].kind BY <1>1 DEF Grows
<1>3. Pulls(a) \subseteq Pulls(b) /\ Issues(a) \subseteq Issues(b)
  BY <1>2 DEF Pulls, Issues, Numbers
<1>4. ASSUME NEW n \in DOMAIN a PROVE ToSet(a[n].links) \subseteq ToSet(b[n].links)
  <2>1. \A k \in DOMAIN a[n].links : k \in DOMAIN b[n].links /\ b[n].links[k] = a[n].links[k] BY DEF Grows
  <2> QED BY <2>1 DEF ToSet
<1>5. ASSUME NEW p \in Pulls(a) PROVE Rank(Pulls(b), p) = Rank(Pulls(a), p)
  <2>1. p \in 1 .. Len(a) BY <1>1 DEF Pulls, Numbers
  <2>2. \A m \in Pulls(b) : m <= p => m \in Pulls(a)
    <3> SUFFICES ASSUME NEW m \in Pulls(b), m <= p PROVE m \in Pulls(a) OBVIOUS
    <3>1. m \in 1 .. Len(b) /\ b[m].kind = "pr" BY <1>1 DEF Pulls, Numbers
    <3>2. m \in DOMAIN a BY <1>1, <2>1, <3>1
    <3> QED BY <1>2, <3>1, <3>2 DEF Pulls, Numbers
  <2>3. {m \in Pulls(b) : m <= p} = {m \in Pulls(a) : m <= p} BY <1>3, <2>2
  <2> QED BY <2>3 DEF Rank
<1> QED BY <1>2, <1>3, <1>4, <1>5 DEF Grows

LEMMA StartType == TypeOK => start \in Seq(Items) /\ items \in Seq(Items)
BY HistoriesAssumption DEF TypeOK

(* What the invariant says of the items does not change as they grow.      *)
LEMMA RepositoryKeeps ==
  ASSUME StatsInv, Repository
  PROVE  GrowsInv' /\ FetchedInv' /\ IndexInv' /\ TimelineInv' /\ WaitsInv'
<1>1. /\ TypeOK /\ GrowsInv /\ FetchedInv /\ IndexInv /\ TimelineInv /\ WaitsInv
      /\ start \in Seq(Items) /\ items \in Seq(Items)
  BY StartType DEF StatsInv
<1>2. /\ items' \in Seq(Items) /\ Grows(items, items')
      /\ UNCHANGED <<start, asked, phase, now, fetches, queries, results>>
  BY <1>1, RepositoryStep
<1>3. /\ Pulls(items) \subseteq Pulls(items') /\ Issues(items) \subseteq Issues(items')
      /\ \A n \in DOMAIN items : /\ items'[n].created = items[n].created /\ items'[n].closes = items[n].closes
                                 /\ ToSet(items[n].links) \subseteq ToSet(items'[n].links)
  BY <1>1, <1>2, GrowsFacts
<1>4. /\ start' = start /\ asked' = asked /\ phase' = phase /\ page' = page /\ fetched' = fetched
      /\ index' = index /\ graphql' = graphql /\ cursor' = cursor /\ earliest' = earliest /\ waits' = waits
  BY <1>2 DEF fetches, queries
<1>5. GrowsInv'
  <2>1. Grows(start, items') BY <1>1, <1>2, GrowsStep DEF GrowsInv
  <2> QED BY <1>4, <2>1 DEF GrowsInv
<1>6. FetchedInv' BY <1>1, <1>3, <1>4 DEF FetchedInv
<1>7. \A p \in Pulls(items) : /\ p \in Pulls(items') /\ items'[p].created = items[p].created
                              /\ items'[p].closes = items[p].closes
  BY <1>3 DEF Pulls, Numbers
<1>8. IndexInv'
  <2>1. \A n \in DOMAIN index : \E p \in Pulls(items') : Closes(items', p, n) /\ index[n] = items'[p].created
    BY <1>1, <1>7 DEF IndexInv, Closes
  <2> QED BY <1>1, <1>4, <2>1 DEF IndexInv, Met, Done, RestAvailable, Closes
<1>9. TimelineInv'
  <2> SUFFICES ASSUME Working' PROVE TimelineInv' BY DEF TimelineInv
  <2>1. Working /\ Current' = Current BY <1>4 DEF Working, Current
  <2> DEFINE n == fetched[Current].number
  <2>2. n \in Issues(items)
    <3>1. Current \in DOMAIN fetched BY <1>1, <2>1 DEF TypeOK, Working, Current
    <3> QED BY <1>1, <3>1 DEF FetchedInv
  <2>3. n \in DOMAIN items BY <2>2 DEF Issues, Numbers
  <2>4. Links = items[n].links /\ Links' = items'[n].links BY <1>4, <2>1 DEF Links, Current
  <2> HIDE DEF n
  <2>5. /\ \A k \in DOMAIN Links : k \in DOMAIN Links' /\ Links'[k] = Links[k]
        /\ ToSet(Links) \subseteq ToSet(Links')
    BY <1>2, <1>3, <2>3, <2>4 DEF Grows
  <2>6. Links \in Seq(Nat) /\ Links' \in Seq(Nat)
    <3>1. n \in DOMAIN items' BY <1>1, <1>2, <2>3 DEF Grows
    <3> QED BY <1>1, <1>2, <2>3, <2>4, <3>1, ItemType
  <2>7. /\ Len(Links) \in Nat /\ Len(Links') \in Nat /\ DOMAIN Links = 1 .. Len(Links)
        /\ DOMAIN Links' = 1 .. Len(Links') /\ cursor \in Nat
    BY <1>1, <2>6 DEF TypeOK
  <2>8. cursor <= Len(Links) BY <1>1, <2>1 DEF TimelineInv
  <2>9. Len(Links) <= Len(Links')
    <3>1. CASE Len(Links) = 0 BY <2>7, <3>1
    <3>2. CASE Len(Links) # 0
      <4>1. Len(Links) \in DOMAIN Links BY <2>7, <3>2
      <4>2. Len(Links) \in DOMAIN Links' BY <2>5, <4>1
      <4> QED BY <2>7, <4>2
    <3> QED BY <3>1, <3>2
  <2>10. cursor <= Len(Links') BY <2>7, <2>8, <2>9
  <2>11. earliest # NoTime =>
           /\ asked.method \in {"auto", "graphql"}
           /\ \E p \in Pulls(items') \cap ToSet(Links') : earliest = items'[p].created
    <3> SUFFICES ASSUME earliest # NoTime
                 PROVE  /\ asked.method \in {"auto", "graphql"}
                        /\ \E p \in Pulls(items') \cap ToSet(Links') : earliest = items'[p].created
      OBVIOUS
    <3>1. asked.method \in {"auto", "graphql"} BY <1>1, <2>1 DEF TimelineInv
    <3>2. PICK p \in Pulls(items) \cap ToSet(Links) : earliest = items[p].created BY <1>1, <2>1 DEF TimelineInv
    <3> QED BY <1>7, <2>5, <3>1, <3>2
  <2>12. \A j \in DOMAIN Links' : j <= cursor /\ Links'[j] \in Pulls(start) =>
           earliest # NoTime /\ earliest <= start[Links'[j]].created
    <3> SUFFICES ASSUME NEW j \in DOMAIN Links', j <= cursor, Links'[j] \in Pulls(start)
                 PROVE  earliest # NoTime /\ earliest <= start[Links'[j]].created
      OBVIOUS
    <3>1. j \in DOMAIN Links BY <2>7, <2>8
    <3>2. Links'[j] = Links[j] BY <2>5, <3>1
    <3> QED BY <1>1, <2>1, <3>1, <3>2 DEF TimelineInv
  <2> QED BY <1>4, <2>10, <2>11, <2>12 DEF TimelineInv
<1>10. WaitsInv'
  <2> SUFFICES ASSUME NEW i \in DOMAIN waits PROVE RightWait(fetched[i].number, waits[i])'
    BY <1>4 DEF WaitsInv
  <2> DEFINE n == fetched[i].number
             t == waits[i]
  <2>1. RightWait(n, t) BY <1>1 DEF WaitsInv
  <2>2. n \in DOMAIN items
    <3>1. i \in DOMAIN fetched BY <1>1 DEF TypeOK
    <3> QED BY <1>1, <3>1 DEF FetchedInv, Issues, Numbers
  <2>3. n' = n /\ t' = t BY <1>4
  <2> HIDE DEF n, t
  <2>4. t # NoTime =>
          \E p \in Pulls(items') : /\ t = items'[p].created
                                   /\ \/ RestAvailable /\ Closes(items', p, n)
                                      \/ asked.method # "rest" /\ p \in ToSet(items'[n].links)
    <3> SUFFICES ASSUME t # NoTime
                 PROVE  \E p \in Pulls(items') :
                          /\ t = items'[p].created
                          /\ \/ RestAvailable /\ Closes(items', p, n)
                             \/ asked.method # "rest" /\ p \in ToSet(items'[n].links)
      OBVIOUS
    <3>1. PICK p \in Pulls(items) : /\ t = items[p].created
                                    /\ \/ RestAvailable /\ Closes(items, p, n)
                                       \/ asked.method # "rest" /\ p \in ToSet(items[n].links)
      BY <2>1 DEF RightWait
    <3>2. p \in Pulls(items') /\ t = items'[p].created BY <1>7, <3>1
    <3>3. Closes(items, p, n) => Closes(items', p, n) BY <1>7 DEF Closes
    <3>4. p \in ToSet(items[n].links) => p \in ToSet(items'[n].links) BY <1>3, <2>2
    <3> QED BY <3>1, <3>2, <3>3, <3>4
  <2>5. RightWait(n, t)' BY <1>4, <2>1, <2>3, <2>4 DEF RightWait, RestAvailable, Closes
  <2> QED BY <2>5 DEF n, t
<1> QED BY <1>5, <1>6, <1>8, <1>9, <1>10

(* The issue at hand is one of the repository.                             *)
LEMMA CurrentFacts ==
  ASSUME StatsInv, Working
  PROVE  /\ Current \in DOMAIN fetched /\ fetched[Current].number \in Issues(items)
         /\ fetched[Current].number \in DOMAIN items
         /\ Links \in Seq(Nat) /\ Len(Links) \in Nat /\ DOMAIN Links = 1 .. Len(Links)
<1>1. Current \in DOMAIN fetched BY DEF StatsInv, TypeOK, Working, Current
<1>2. fetched[Current].number \in Issues(items) BY <1>1 DEF StatsInv, FetchedInv
<1>3. fetched[Current].number \in DOMAIN items BY <1>2 DEF Issues, Numbers
<1>4. Links \in Seq(Nat) BY <1>3, StartType, ItemType DEF Links, StatsInv
<1> QED BY <1>1, <1>2, <1>3, <1>4

(* An issue is done with a right time, if its timeline was read whole or   *)
(* was refused.                                                            *)
LEMMA ConcludeKeeps ==
  ASSUME StatsInv, Working, Quiet, graphql' => graphql, NEW found \in Times, Conclude(found),
         found # NoTime => /\ asked.method \in {"auto", "graphql"}
                           /\ \E p \in Pulls(items) \cap ToSet(Links) : found = items[p].created,
         graphql' => \A j \in DOMAIN Links : Links[j] \in Pulls(start) =>
                        found # NoTime /\ found <= start[Links[j]].created
  PROVE  WaitsInv' /\ TimelineInv'
<1>0. PICK n, t : /\ n = fetched[Current].number
                  /\ t = IF found = NoTime /\ RestAvailable THEN Indexed(n) ELSE found
  OBVIOUS
<1>1. /\ TypeOK /\ GrowsInv /\ IndexInv /\ WaitsInv /\ start \in Seq(Items) /\ items \in Seq(Items)
      /\ phase = "timelines" /\ asked.method \in Methods
  BY StartType, AskedAssumption DEF StatsInv, Working, TypeOK
<1>2. /\ items' = items /\ start' = start /\ asked' = asked /\ phase' = phase /\ fetched' = fetched
      /\ index' = index /\ waits' = Append(waits, t) /\ cursor' = 0 /\ earliest' = NoTime
  BY <1>0 DEF Quiet, Conclude, world, fetches
<1>3. /\ n \in DOMAIN items /\ Links = items[n].links
      /\ Current \in DOMAIN fetched /\ DOMAIN Links = 1 .. Len(Links)
  BY <1>0, CurrentFacts DEF Links
<1>4. /\ Indexed(n) # NoTime => n \in DOMAIN index /\ Indexed(n) = index[n]
      /\ n \in DOMAIN index => Indexed(n) = index[n] /\ Indexed(n) # NoTime
  BY <1>1, BoundsAssumption DEF Indexed, TypeOK
<1>5. RestAvailable => \A p \in Pulls(start) :
        Closes(start, p, n) => Indexed(n) # NoTime /\ Indexed(n) <= start[p].created
  BY <1>1, <1>4 DEF IndexInv, Met, Closes
<1>6. t # NoTime =>
        \E p \in Pulls(items) : /\ t = items[p].created
                                /\ \/ RestAvailable /\ Closes(items, p, n)
                                   \/ asked.method # "rest" /\ p \in ToSet(items[n].links)
  <2>1. CASE found = NoTime /\ RestAvailable BY <1>0, <1>1, <1>4, <2>1 DEF IndexInv
  <2>2. CASE ~(found = NoTime /\ RestAvailable)
    <3> SUFFICES ASSUME found # NoTime
                 PROVE  \E p \in Pulls(items) : found = items[p].created /\ asked.method # "rest"
                                                /\ p \in ToSet(items[n].links)
      BY <1>0, <2>2
    <3> QED BY <1>3
  <2> QED BY <2>1, <2>2
<1>7. graphql' /\ n \in Numbers(start) =>
        \A p \in Pulls(start) \cap ToSet(start[n].links) : t # NoTime /\ t <= start[p].created
  <2> SUFFICES ASSUME graphql', n \in Numbers(start), NEW p \in Pulls(start) \cap ToSet(start[n].links)
               PROVE  t # NoTime /\ t <= start[p].created
    OBVIOUS
  <2>1. ToSet(start[n].links) \subseteq ToSet(items[n].links) BY <1>1, GrowsFacts DEF GrowsInv, Numbers
  <2>2. PICK j \in DOMAIN Links : Links[j] = p BY <1>3, <2>1 DEF ToSet
  <2> QED BY <1>0, <2>2
<1>8. asked.method = "rest" =>
        \A p \in Pulls(start) : Closes(start, p, n) => t # NoTime /\ t <= start[p].created
  BY <1>0, <1>5 DEF RestAvailable
<1>9. asked.method = "auto" => \A p \in Pulls(start) : Closes(start, p, n) => t # NoTime
  BY <1>0, <1>5 DEF RestAvailable
<1>10. asked.method = "none" => t = NoTime BY <1>0 DEF RestAvailable
<1>11. RightWait(n, t)' BY <1>2, <1>6, <1>7, <1>8, <1>9, <1>10 DEF RightWait, RestAvailable, Closes
<1>12. WaitsInv'
  <2> SUFFICES ASSUME NEW i \in DOMAIN waits' PROVE RightWait(fetched[i].number, waits[i])'
    BY <1>2 DEF WaitsInv
  <2>1. waits \in Seq(Times) /\ Len(waits) \in Nat /\ Current = Len(waits) + 1 BY <1>1 DEF TypeOK, Current
  <2>2. CASE i \in DOMAIN waits
    <3>1. PICK m, s : m = fetched[i].number /\ s = waits[i] OBVIOUS
    <3>2. fetched'[i].number = m /\ waits'[i] = s BY <1>2, <2>1, <2>2, <3>1
    <3>3. RightWait(m, s) BY <1>1, <2>2, <3>1 DEF WaitsInv
    <3>4. RightWait(m, s)' BY <1>2, <3>3 DEF RightWait, RestAvailable, Closes
    <3> QED BY <3>2, <3>4 DEF RightWait
  <2>3. CASE i \notin DOMAIN waits
    <3>1. i = Current BY <1>2, <2>1, <2>3
    <3>2. fetched'[i].number = n /\ waits'[i] = t BY <1>0, <1>2, <2>1, <3>1
    <3> QED BY <1>11, <3>2 DEF RightWait
  <2> QED BY <2>2, <2>3
<1>13. TimelineInv'
  <2> SUFFICES ASSUME Working' PROVE TimelineInv' BY DEF TimelineInv
  <2>1. Current' \in DOMAIN fetched BY <1>1, <1>2 DEF Working, Current, TypeOK
  <2>2. fetched[Current'].number \in DOMAIN items BY <2>1 DEF StatsInv, FetchedInv, Issues, Numbers
  <2>3. Links' \in Seq(Nat) BY <1>1, <1>2, <2>2, ItemType DEF Links
  <2>4. Len(Links') \in Nat /\ DOMAIN Links' = 1 .. Len(Links') BY <2>3
  <2> QED BY <1>2, <2>4 DEF TimelineInv
<1> QED BY <1>12, <1>13

(* A page of the timeline takes the earliest on, over the pull requests of *)
(* the page; the page that is the last one is where the issue is done.     *)
LEMMA QueryKeeps == StatsInv /\ QueryTimeline => WaitsInv' /\ TimelineInv'
<1> SUFFICES ASSUME StatsInv, QueryTimeline PROVE WaitsInv' /\ TimelineInv' OBVIOUS
<1> DEFINE upTo  == {j \in DOMAIN Links : cursor < j /\ j <= cursor + TimelinePerPage}
           nodes == {Links[k] : k \in upTo}
<1>0. PICK found : found = Earlier(earliest, EarliestOf(nodes)) OBVIOUS
<1>1. /\ Working /\ graphql /\ UNCHANGED graphql /\ Quiet
      /\ \/ EndCursor < Len(Links) /\ cursor' = EndCursor /\ earliest' = found /\ UNCHANGED waits
         \/ EndCursor >= Len(Links) /\ Conclude(found)
  BY <1>0 DEF QueryTimeline, Links
<1>2. /\ TypeOK /\ GrowsInv /\ TimelineInv /\ WaitsInv /\ start \in Seq(Items) /\ items \in Seq(Items)
      /\ earliest \in Times /\ cursor \in Nat /\ EndCursor = cursor + TimelinePerPage /\ EndCursor \in Nat
      /\ asked.method \in {"auto", "graphql"}
  <2>1. TypeOK /\ GrowsInv /\ PhaseInv /\ TimelineInv /\ WaitsInv BY DEF StatsInv
  <2>2. earliest \in Times /\ cursor \in Nat BY <2>1 DEF TypeOK
  <2>3. asked.method \in {"auto", "graphql"} BY <1>1, <2>1 DEF PhaseInv
  <2>4. EndCursor = cursor + TimelinePerPage /\ EndCursor \in Nat BY <2>2, BoundsAssumption DEF EndCursor
  <2> QED BY <2>1, <2>2, <2>3, <2>4, StartType
<1>3. Len(Links) \in Nat /\ DOMAIN Links = 1 .. Len(Links) BY <1>1, CurrentFacts
<1>4. /\ EarliestOf(nodes) \in Times
      /\ EarliestOf(nodes) # NoTime =>
           \E p \in Pulls(items) \cap nodes : EarliestOf(nodes) = items[p].created
      /\ \A p \in Pulls(items) \cap nodes : EarliestOf(nodes) # NoTime /\ EarliestOf(nodes) <= items[p].created
  BY <1>2, EarliestFacts
<1>5. nodes \subseteq ToSet(Links) /\ \A j \in DOMAIN Links : cursor < j /\ j <= EndCursor => Links[j] \in nodes
  BY <1>2 DEF ToSet
<1> HIDE DEF nodes, upTo
<1>6. PICK new : new = EarliestOf(nodes) OBVIOUS
<1>7. /\ found \in {earliest, new} /\ found \in Times
      /\ earliest # NoTime => found # NoTime /\ found <= earliest
      /\ new # NoTime => found # NoTime /\ found <= new
  BY <1>0, <1>2, <1>4, <1>6, EarlierFacts
<1>8. found # NoTime => \E p \in Pulls(items) \cap ToSet(Links) : found = items[p].created
  <2>1. CASE found = earliest BY <1>1, <1>2, <2>1 DEF TimelineInv
  <2>2. CASE found = new BY <1>4, <1>5, <1>6, <2>2
  <2> QED BY <1>7, <2>1, <2>2
<1>9. \A j \in DOMAIN Links : j <= EndCursor /\ Links[j] \in Pulls(start) =>
        found # NoTime /\ found <= start[Links[j]].created
  <2> SUFFICES ASSUME NEW j \in DOMAIN Links, j <= EndCursor, Links[j] \in Pulls(start)
               PROVE  found # NoTime /\ found <= start[Links[j]].created
    OBVIOUS
  <2>1. PICK p : p = Links[j] OBVIOUS
  <2>2. /\ p \in Pulls(items) /\ items[p].created = start[p].created /\ start[p].created \in Nat
    BY <1>2, <2>1, GrowsFacts, ItemType DEF GrowsInv, Pulls, Numbers
  <2>3. PICK bound \in Times : bound # NoTime /\ bound <= start[p].created /\ found # NoTime /\ found <= bound
    <3>1. CASE j <= cursor
      <4>1. earliest # NoTime /\ earliest <= start[p].created BY <1>1, <1>2, <2>1, <3>1 DEF TimelineInv
      <4> QED BY <1>2, <1>7, <4>1
    <3>2. CASE ~(j <= cursor)
      <4>1. cursor < j BY <1>2, <1>3, <3>2
      <4>2. p \in nodes BY <1>5, <2>1, <4>1
      <4>3. new # NoTime /\ new <= items[p].created BY <1>4, <1>6, <2>2, <4>2
      <4> QED BY <1>4, <1>6, <1>7, <2>2, <4>3
    <3> QED BY <3>1, <3>2
  <2>4. found \in Nat /\ bound \in Nat BY <1>7, <2>3 DEF Times
  <2> QED BY <2>1, <2>2, <2>3, <2>4
<1>10. CASE EndCursor < Len(Links) /\ cursor' = EndCursor /\ earliest' = found /\ UNCHANGED waits
  <2>1. /\ items' = items /\ start' = start /\ asked' = asked /\ phase' = phase /\ fetched' = fetched
        /\ index' = index /\ waits' = waits /\ graphql' = graphql
    BY <1>1, <1>10 DEF Quiet, world, fetches
  <2>2. Links' = Links /\ Current' = Current BY <2>1 DEF Links, Current
  <2>3. WaitsInv' BY <1>2, <2>1 DEF WaitsInv, RightWait, RestAvailable, Closes
  <2>4. TimelineInv' BY <1>2, <1>3, <1>8, <1>9, <1>10, <2>1, <2>2 DEF TimelineInv
  <2> QED BY <2>3, <2>4
<1>11. CASE EndCursor >= Len(Links) /\ Conclude(found)
  <2>1. \A j \in DOMAIN Links : Links[j] \in Pulls(start) =>
          found # NoTime /\ found <= start[Links[j]].created
    <3>1. \A j \in DOMAIN Links : j <= EndCursor BY <1>2, <1>3, <1>11
    <3> QED BY <1>9, <3>1
  <2> QED BY <1>1, <1>2, <1>7, <1>8, <1>11, <2>1, ConcludeKeeps
<1> QED BY <1>1, <1>10, <1>11

LEMMA WithoutTimelineKeeps == StatsInv /\ (TimelineRefused \/ NoTimeline) => WaitsInv' /\ TimelineInv'
<1> SUFFICES ASSUME StatsInv, TimelineRefused \/ NoTimeline PROVE WaitsInv' /\ TimelineInv' OBVIOUS
<1>1. Working /\ Quiet /\ Conclude(NoTime) /\ ~graphql' BY DEF TimelineRefused, NoTimeline
<1>2. NoTime \in Times BY DEF Times
<1> QED BY <1>1, <1>2, ConcludeKeeps

(* The pages of the listings.                                              *)
LEMMA DoneFacts ==
  ASSUME TypeOK
  PROVE  /\ Done \in Nat /\ Done + PerPage \in Nat /\ PerPage \in Nat /\ PerPage > 0
         /\ page * PerPage = Done + PerPage
         /\ page' = page + 1 => Done' = Done + PerPage
         /\ page' = 1 => Done' = 0
         /\ page' = page => Done' = Done
<1>1. page \in Nat /\ page > 0 /\ PerPage \in Nat /\ PerPage > 0 BY BoundsAssumption DEF TypeOK
<1>2. (page - 1) * PerPage \in Nat /\ page * PerPage = (page - 1) * PerPage + PerPage BY <1>1
<1>3. page' = page + 1 => (page' - 1) * PerPage = page * PerPage BY <1>1
<1>4. page' = 1 => (page' - 1) * PerPage = 0 BY <1>1
<1> QED BY <1>1, <1>2, <1>3, <1>4 DEF Done

LEMMA AllListed ==
  ASSUME TypeOK, asked.state = "all"
  PROVE  Page(Listed(asked.state), page, PerPage) = {n \in 1 .. Len(items) : Done < n /\ n <= Done + PerPage}
<1>1. Listed(asked.state) = 1 .. Len(items) /\ Len(items) \in Nat
  BY DEF Listed, Numbers, TypeOK
<1>2. \A n \in 1 .. Len(items) : Rank(1 .. Len(items), n) = n BY <1>1, RankOfAll
<1>3. \A n \in 1 .. Len(items) : n \in Done + 1 .. Done + PerPage <=> Done < n /\ n <= Done + PerPage
  BY <1>1, DoneFacts
<1>4. (page - 1) * PerPage + 1 .. page * PerPage = Done + 1 .. Done + PerPage BY DoneFacts DEF Done
<1> QED BY <1>1, <1>2, <1>3, <1>4 DEF Page

(* A page of the issues has those that come after the pages before.        *)
LEMMA FetchIssuesKeeps == StatsInv /\ FetchIssues => FetchedInv' /\ ListedInv' /\ EachOnce'
<1> SUFFICES ASSUME StatsInv, FetchIssues PROVE FetchedInv' /\ ListedInv' /\ EachOnce' OBVIOUS
<1>1. /\ TypeOK /\ FetchedInv /\ ListedInv /\ EachOnce /\ GrowsInv
      /\ start \in Seq(Items) /\ items \in Seq(Items) /\ Len(items) \in Nat
  BY StartType DEF StatsInv, TypeOK
<1> DEFINE Fetched == [number : Nat, created : Nat, closed : Times]
<1>2. PICK answer, list, new :
        /\ answer = Page(Listed(asked.state), page, PerPage) /\ list = answer \cap Issues(items)
        /\ new = [k \in DOMAIN InOrder(list) |-> Snapshot(InOrder(list)[k])]
  OBVIOUS
<1>3. /\ new \in Seq(Fetched)
      /\ \A k \in DOMAIN new : new[k].number \in list
      /\ \A j, k \in DOMAIN new : new[j].number = new[k].number => j = k
      /\ \A n \in list : \E k \in DOMAIN new : new[k].number = n
  <2>1. list \in SUBSET Issues(items) BY <1>2
  <2> DEFINE snapshots == [k \in DOMAIN InOrder(list) |-> Snapshot(InOrder(list)[k])]
  <2>2. /\ snapshots \in Seq(Fetched)
        /\ \A k \in DOMAIN snapshots : snapshots[k].number \in list
        /\ \A j, k \in DOMAIN snapshots : snapshots[j].number = snapshots[k].number => j = k
        /\ \A n \in list : \E k \in DOMAIN snapshots : snapshots[k].number = n
    BY <1>1, <2>1, FetchFacts
  <2>3. new = snapshots BY <1>2
  <2> HIDE DEF snapshots
  <2> QED BY <2>2, <2>3
<1>4. /\ phase = "issues" /\ UNCHANGED <<world, start, asked>>
      /\ \/ answer # {} /\ fetched' = fetched \o new /\ page' = page + 1 /\ phase' = "issues"
         \/ answer = {} /\ phase' \in {"pulls", "timelines"} /\ UNCHANGED fetched
  BY <1>2 DEF FetchIssues
<1>5. items' = items /\ start' = start /\ asked' = asked BY <1>4 DEF world
<1>6. CASE answer # {} /\ fetched' = fetched \o new /\ page' = page + 1 /\ phase' = "issues"
  <2>0. fetched \in Seq(Fetched) BY <1>1 DEF TypeOK
  <2>1. /\ Len(fetched) \in Nat /\ DOMAIN fetched = 1 .. Len(fetched)
        /\ Len(new) \in Nat /\ DOMAIN new = 1 .. Len(new)
        /\ DOMAIN fetched' = 1 .. Len(fetched) + Len(new)
        /\ \A i \in DOMAIN fetched : i \in DOMAIN fetched' /\ fetched'[i] = fetched[i]
        /\ \A k \in DOMAIN new : Len(fetched) + k \in DOMAIN fetched' /\ fetched'[Len(fetched) + k] = new[k]
        /\ \A i \in DOMAIN fetched' \ DOMAIN fetched :
             i - Len(fetched) \in DOMAIN new /\ fetched'[i] = new[i - Len(fetched)]
    <3> HIDE DEF Fetched
    <3>1. /\ Len(fetched) \in Nat /\ DOMAIN fetched = 1 .. Len(fetched)
          /\ Len(new) \in Nat /\ DOMAIN new = 1 .. Len(new)
      BY <1>3, <2>0
    <3>2. /\ fetched' \in Seq(Fetched) /\ Len(fetched') = Len(fetched) + Len(new)
          /\ DOMAIN fetched' = 1 .. Len(fetched) + Len(new)
      BY <1>3, <1>6, <2>0
    <3>3. \A i \in 1 .. Len(fetched) + Len(new) :
            fetched'[i] = IF i <= Len(fetched) THEN fetched[i] ELSE new[i - Len(fetched)]
      BY <1>3, <1>6, <2>0
    <3> QED BY <3>1, <3>2, <3>3
  <2>2. FetchedInv'
    <3>1. \A i \in DOMAIN fetched' : fetched'[i].number \in Issues(items)
      <4> TAKE i \in DOMAIN fetched'
      <4>1. CASE i \in DOMAIN fetched BY <1>1, <2>1, <4>1 DEF FetchedInv
      <4>2. CASE i \notin DOMAIN fetched
        <5>1. PICK k \in DOMAIN new : fetched'[i] = new[k] BY <2>1, <4>2
        <5>2. new[k].number \in list BY <1>3
        <5> QED BY <1>2, <5>1, <5>2
      <4> QED BY <4>1, <4>2
    <3> QED BY <1>5, <3>1 DEF FetchedInv
  <2> SUFFICES ASSUME asked.state = "all" PROVE ListedInv' /\ EachOnce'
    BY <1>5, <2>2 DEF ListedInv, EachOnce
  <2>3. /\ Done \in Nat /\ PerPage \in Nat /\ Done' = Done + PerPage
        /\ answer = {n \in 1 .. Len(items) : Done < n /\ n <= Done'}
    BY <1>1, <1>2, <1>6, DoneFacts, AllListed
  <2>4. \A i \in DOMAIN fetched : fetched[i].number \in Nat /\ fetched[i].number <= Done
    <3>1. \A i \in DOMAIN fetched : fetched[i].number <= Done BY <1>1, <1>4 DEF ListedInv
    <3>2. \A i \in DOMAIN fetched : fetched[i] \in Fetched
      <4> HIDE DEF Fetched
      <4> QED BY <2>0
    <3> QED BY <3>1, <3>2
  <2>5. \A k \in DOMAIN new : new[k].number \in Nat /\ Done < new[k].number /\ new[k].number <= Done'
    <3>1. \A n \in answer : n \in Nat /\ Done < n /\ n <= Done' BY <1>1, <2>3
    <3>2. \A k \in DOMAIN new : new[k].number \in answer BY <1>2, <1>3
    <3> QED BY <3>1, <3>2
  <2>6. \A i \in DOMAIN fetched' : fetched'[i].number <= Done' BY <2>1, <2>3, <2>4, <2>5
  <2>7. ASSUME NEW n \in Issues(start), n <= Done' PROVE HasFetched(n)'
    <3>1. CASE n <= Done
      <4>1. HasFetched(n) BY <1>1, <1>4, <3>1 DEF ListedInv
      <4> QED BY <2>1, <4>1 DEF HasFetched
    <3>2. CASE ~(n <= Done)
      <4>1. n \in Issues(items) /\ n \in 1 .. Len(items)
        BY <1>1, GrowsFacts, NumbersFacts DEF GrowsInv
      <4>2. n \in list BY <1>2, <2>3, <2>7, <3>2, <4>1
      <4>3. PICK k \in DOMAIN new : new[k].number = n BY <1>3, <4>2
      <4> QED BY <2>1, <4>3 DEF HasFetched
    <3> QED BY <3>1, <3>2
  <2>8. ListedInv' BY <1>5, <1>6, <2>6, <2>7 DEF ListedInv
  <2>9. ASSUME NEW i \in DOMAIN fetched', NEW j \in DOMAIN fetched', fetched'[i].number = fetched'[j].number
        PROVE  i = j
    <3>1. CASE i \in DOMAIN fetched /\ j \in DOMAIN fetched
      BY <1>1, <2>1, <2>9, <3>1 DEF EachOnce
    <3>2. CASE i \notin DOMAIN fetched /\ j \notin DOMAIN fetched
      <4>0. /\ i - Len(fetched) \in DOMAIN new /\ fetched'[i] = new[i - Len(fetched)]
            /\ j - Len(fetched) \in DOMAIN new /\ fetched'[j] = new[j - Len(fetched)]
        BY <2>1, <3>2
      <4>1. i - Len(fetched) = j - Len(fetched) BY <1>3, <2>9, <4>0
      <4> QED BY <2>1, <4>1
    <3>3. CASE i \in DOMAIN fetched <=> j \notin DOMAIN fetched
      BY <2>1, <2>3, <2>4, <2>5, <2>9, <3>3
    <3> QED BY <3>1, <3>2, <3>3
  <2>10. EachOnce' BY <2>9 DEF EachOnce
  <2> QED BY <2>8, <2>10
<1>7. CASE answer = {} /\ phase' \in {"pulls", "timelines"} /\ UNCHANGED fetched
  <2>1. FetchedInv' /\ EachOnce' BY <1>1, <1>5, <1>7 DEF FetchedInv, EachOnce
  <2>2. ListedInv'
    <3> SUFFICES ASSUME asked.state = "all", NEW n \in Issues(start) PROVE HasFetched(n)
      BY <1>5, <1>7 DEF ListedInv, HasFetched
    <3>1. n \in 1 .. Len(items) BY <1>1, GrowsFacts, NumbersFacts DEF GrowsInv
    <3>2. Done + 1 \notin answer BY <1>7
    <3>3. n <= Done BY <1>1, <1>2, <3>1, <3>2, DoneFacts, AllListed
    <3> QED BY <1>1, <1>4, <3>3 DEF ListedInv
  <2> QED BY <2>1, <2>2
<1> QED BY <1>4, <1>6, <1>7

(* A page of the pull requests has the next of those of the start; after   *)
(* an empty one there are none left.                                       *)
LEMMA FetchPullsKeeps == StatsInv /\ FetchPulls => IndexInv'
<1> SUFFICES ASSUME StatsInv, FetchPulls PROVE IndexInv' OBVIOUS
<1>1. /\ TypeOK /\ GrowsInv /\ IndexInv /\ start \in Seq(Items) /\ items \in Seq(Items) /\ phase = "pulls"
  BY StartType DEF StatsInv, FetchPulls
<1>2. PICK answer : answer = Page(Pulls(items), page, PerPage) OBVIOUS
<1>3. /\ items' = items /\ start' = start /\ asked' = asked
      /\ \/ answer # {} /\ index' = Index(answer) /\ page' = page + 1 /\ phase' = "pulls"
         \/ answer = {} /\ phase' = "timelines" /\ index' = index
  BY <1>2 DEF FetchPulls, world
<1>4. /\ Done \in Nat /\ PerPage \in Nat /\ PerPage > 0
      /\ answer = {p \in Pulls(items) : Rank(Pulls(items), p) \in Done + 1 .. Done + PerPage}
  <2>1. (page - 1) * PerPage + 1 .. page * PerPage = Done + 1 .. Done + PerPage
    BY <1>1, DoneFacts DEF Done
  <2> QED BY <1>1, <1>2, <2>1, DoneFacts DEF Page
<1>5. \A p \in Pulls(start) : /\ p \in Pulls(items) /\ Rank(Pulls(items), p) = Rank(Pulls(start), p)
                              /\ items[p].created = start[p].created /\ items[p].closes = start[p].closes
  BY <1>1, GrowsFacts DEF GrowsInv, Pulls, Numbers
<1>6. Len(items) \in Nat /\ Pulls(items) \in SUBSET (1 .. Len(items)) BY <1>1, NumbersFacts
<1>7. \A p \in Pulls(items) : Rank(Pulls(items), p) \in 1 .. Cardinality(Pulls(items))
  BY <1>6, RankIsPlace
<1>8. Cardinality(Pulls(items)) \in Nat BY <1>6, RankType
<1>9. CASE answer # {} /\ index' = Index(answer) /\ page' = page + 1 /\ phase' = "pulls"
  <2>1. answer \in SUBSET Pulls(items) BY <1>4
  <2>2. /\ DOMAIN index' \subseteq Nat
        /\ \A n \in DOMAIN index' :
             /\ index'[n] \in Nat
             /\ \/ n \in DOMAIN index /\ index'[n] = index[n]
                \/ \E p \in answer : n \in LinkedIssues(items[p].closes) /\ index'[n] = items[p].created
        /\ \A n \in DOMAIN index : n \in DOMAIN index' /\ index'[n] <= index[n]
        /\ \A p \in answer : \A n \in LinkedIssues(items[p].closes) :
             n \in DOMAIN index' /\ index'[n] <= items[p].created
    BY <1>1, <1>9, <2>1, IndexFacts
  <2>3. \A n \in DOMAIN index' : \E p \in Pulls(items) : Closes(items, p, n) /\ index'[n] = items[p].created
    <3> TAKE n \in DOMAIN index'
    <3>1. CASE n \in DOMAIN index /\ index'[n] = index[n] BY <1>1, <3>1 DEF IndexInv
    <3>2. CASE \E p \in answer : n \in LinkedIssues(items[p].closes) /\ index'[n] = items[p].created
      BY <2>1, <3>2 DEF Closes
    <3> QED BY <2>2, <3>1, <3>2
  <2>4. ASSUME NEW p \in Pulls(start), Rank(Pulls(start), p) <= Done' PROVE Met(p)'
    <3>0. Done' = Done + PerPage BY <1>1, <1>9, DoneFacts
    <3> SUFFICES ASSUME NEW n \in LinkedIssues(start[p].closes)
                 PROVE  n \in DOMAIN index' /\ index'[n] <= start[p].created
      BY <1>3 DEF Met
    <3>1. Rank(Pulls(start), p) \in Nat /\ Rank(Pulls(start), p) >= 1 BY <1>5, <1>7, <1>8
    <3>2. CASE Rank(Pulls(start), p) <= Done
      <4>1. n \in DOMAIN index /\ index[n] <= start[p].created BY <1>1, <3>2 DEF IndexInv, Met
      <4>2. n \in DOMAIN index' /\ index'[n] <= index[n] /\ index'[n] \in Nat BY <2>2, <4>1
      <4>3. index[n] \in Nat /\ start[p].created \in Nat
        BY <1>1, <4>1, ItemType DEF TypeOK, Pulls, Numbers
      <4> QED BY <4>1, <4>2, <4>3
    <3>3. CASE ~(Rank(Pulls(start), p) <= Done)
      <4>1. p \in answer BY <1>4, <1>5, <2>4, <3>0, <3>1, <3>3
      <4> QED BY <1>5, <2>2, <4>1
    <3> QED BY <3>2, <3>3
  <2> QED BY <1>3, <1>9, <2>3, <2>4 DEF IndexInv, Closes
<1>10. CASE answer = {} /\ phase' = "timelines" /\ index' = index
  <2>1. ASSUME NEW p \in Pulls(start) PROVE Met(p)'
    <3>1. Rank(Pulls(start), p) <= Done
      <4> SUFFICES ASSUME ~(Rank(Pulls(start), p) <= Done) PROVE FALSE OBVIOUS
      <4>1. Done + 1 \in 1 .. Cardinality(Pulls(items)) BY <1>4, <1>5, <1>7, <1>8
      <4>2. PICK q \in Pulls(items) : Rank(Pulls(items), q) = Done + 1 BY <1>6, <4>1, RankOnto
      <4> QED BY <1>4, <1>10, <4>2
    <3>2. Met(p) BY <1>1, <3>1 DEF IndexInv
    <3> QED BY <1>3, <1>10, <3>2 DEF Met
  <2> QED BY <1>1, <1>3, <1>10, <2>1 DEF IndexInv, Closes
<1> QED BY <1>3, <1>9, <1>10

LEMMA StatsInit == Init => StatsInv
<1> SUFFICES ASSUME Init PROVE StatsInv OBVIOUS
<1>1. TypeOK BY TypeInit
<1>2. items \in Seq(Items) /\ start = items BY <1>1, StartType DEF Init
<1>3. GrowsInv BY <1>2 DEF GrowsInv, Grows
<1>4. PhaseInv
  <2>1. graphql => asked.method \in {"auto", "graphql"} BY DEF Init
  <2>2. phase = "start" /\ fetched = <<>> /\ waits = <<>> /\ cursor = 0 /\ earliest = NoTime /\ exit = NoTime
      /\ page = 1
    BY DEF Init
  <2> QED BY <2>1, <2>2 DEF PhaseInv
<1>6. FetchedInv /\ ListedInv /\ EachOnce /\ ExitTells
  BY BoundsAssumption DEF Init, FetchedInv, ListedInv, EachOnce, ExitTells
<1>5. IndexInv /\ TimelineInv /\ WaitsInv BY DEF Init, IndexInv, TimelineInv, WaitsInv, Working
<1> QED BY <1>1, <1>3, <1>4, <1>5, <1>6 DEF StatsInv

(* What a phase has left or not yet begun, and what the exit code tells.   *)
LEMMA PhaseStep == StatsInv /\ [Next]_vars => PhaseInv' /\ ExitTells'
<1> SUFFICES ASSUME StatsInv, [Next]_vars PROVE PhaseInv' /\ ExitTells' OBVIOUS
<1> USE DEF PhaseInv, ExitTells, RestAvailable
<1>1. TypeOK /\ PhaseInv /\ ExitTells BY DEF StatsInv
<1>2. CASE UNCHANGED <<start, asked, phase, now, fetches, queries, results>>
  BY <1>1, <1>2 DEF fetches, queries, results
<1>3. CASE Repository BY <1>1, <1>2, <1>3, RepositoryStep
<1>4. CASE Begin BY <1>1, <1>4 DEF Begin, fetches, queries, results
<1>5. CASE FetchIssues
  <2>1. /\ phase = "issues" /\ phase' \in {"issues", "pulls", "timelines"} /\ (phase' = "pulls" => RestAvailable)
        /\ UNCHANGED <<asked, queries, results>>
    BY <1>5 DEF FetchIssues
  <2>2. /\ waits' = waits /\ graphql' = graphql /\ cursor' = cursor /\ earliest' = earliest
        /\ exit' = exit /\ asked' = asked
    BY <2>1 DEF queries, results
  <2>3. waits' = <<>> /\ cursor' = 0 /\ earliest' = NoTime BY <1>1, <2>1, <2>2
  <2>4. exit' = NoTime BY <1>1, <2>1, <2>2
  <2>5. graphql' => asked'.method \in {"auto", "graphql"} BY <1>1, <2>2
  <2> QED BY <2>1, <2>2, <2>3, <2>4, <2>5, BoundsAssumption
<1>6. CASE FetchPulls BY <1>1, <1>6 DEF FetchPulls, queries, results
<1>7. CASE QueryTimeline \/ NoTimeline \/ TimelineRefused
  <2>1. /\ phase = "timelines" /\ UNCHANGED <<asked, phase, results>> /\ (graphql' => graphql)
    BY <1>7 DEF QueryTimeline, NoTimeline, TimelineRefused, Quiet, Working
  <2>2. exit' = exit /\ saved' = saved /\ asked' = asked /\ phase' = phase BY <2>1 DEF results
  <2>3. graphql' => asked'.method \in {"auto", "graphql"} BY <1>1, <2>1, <2>2
  <2>4. exit = NoTime BY <1>1, <2>1
  <2> QED BY <2>1, <2>2, <2>3, <2>4, BoundsAssumption
<1>8. CASE Report
  <2>1. Len(waits) = Len(fetched) BY <1>1, <1>8 DEF Report, Current, TypeOK
  <2> QED BY <1>1, <1>8, <2>1 DEF Report, fetches, queries, results
<1>9. CASE Draw BY <1>1, <1>9, BoundsAssumption DEF Draw, Drawn, fetches, queries
<1>10. CASE Fail BY <1>1, <1>10 DEF Fail, Working, fetches, queries
<1> QED BY <1>2, <1>3, <1>4, <1>5, <1>6, <1>7, <1>8, <1>9, <1>10 DEF Next, Script, Refused, vars

LEMMA StatsStep == StatsInv /\ [Next]_vars => StatsInv'
<1> SUFFICES ASSUME StatsInv, [Next]_vars PROVE StatsInv' OBVIOUS
<1>0. TypeOK' /\ PhaseInv' /\ ExitTells' BY TypeStep, PhaseStep DEF StatsInv
<1>1. /\ TypeOK /\ GrowsInv /\ PhaseInv /\ FetchedInv /\ ListedInv /\ EachOnce /\ IndexInv /\ TimelineInv
      /\ WaitsInv
  BY DEF StatsInv
<1>2. UNCHANGED <<items, start>> => GrowsInv' BY <1>1 DEF GrowsInv
<1>3. UNCHANGED <<items, fetched>> => FetchedInv' BY <1>1 DEF FetchedInv
<1>4. UNCHANGED <<asked, fetched>> => EachOnce' BY <1>1 DEF EachOnce
<1>5. waits' = <<>> => WaitsInv' BY DEF WaitsInv
<1>6. UNCHANGED <<items, start, asked, fetched, index, graphql, waits>> => WaitsInv'
  BY <1>1 DEF WaitsInv, RightWait, RestAvailable, Closes
<1>7. phase' # "timelines" => TimelineInv' BY DEF TimelineInv, Working
<1>8. waits' = <<>> /\ cursor' = 0 /\ earliest' = NoTime /\ FetchedInv' => TimelineInv'
  <2> SUFFICES ASSUME cursor' = 0, earliest' = NoTime, FetchedInv', Working' PROVE TimelineInv'
    BY DEF TimelineInv
  <2>1. Current' \in DOMAIN fetched' BY <1>0 DEF Working, Current, TypeOK
  <2>2. (fetched[Current].number \in DOMAIN items)' BY <2>1 DEF FetchedInv, Issues, Numbers
  <2>3. (Links \in Seq(Nat))' BY <1>0, <2>2, ItemType DEF Links, TypeOK
  <2>4. Len(Links') \in Nat /\ DOMAIN Links' = 1 .. Len(Links') BY <2>3
  <2> QED BY <2>4 DEF TimelineInv
<1>9. /\ UNCHANGED <<items, start, asked, index>> /\ phase' \notin {"pulls", "timelines"} => IndexInv'
      /\ UNCHANGED <<items, start, asked, index, phase>> /\ phase # "pulls" => IndexInv'
  BY <1>1 DEF IndexInv, Met, Closes, RestAvailable
<1>10. CASE Repository
  <2>1. GrowsInv' /\ FetchedInv' /\ IndexInv' /\ TimelineInv' /\ WaitsInv' BY <1>10, RepositoryKeeps
  <2>2. UNCHANGED <<start, asked, phase, fetches>> BY <1>1, <1>10, RepositoryStep
  <2>3. ListedInv' /\ EachOnce' BY <1>1, <1>4, <2>2 DEF ListedInv, HasFetched, Done, fetches
  <2> QED BY <1>0, <2>1, <2>3 DEF StatsInv
<1>11. CASE Begin
  <2>1. /\ UNCHANGED <<items, start, asked, fetched, index, graphql, waits, cursor, earliest>>
        /\ phase' = "issues" /\ fetched = <<>> /\ UNCHANGED page /\ phase = "start"
    BY <1>1, <1>11 DEF Begin, world, fetches, queries, PhaseInv
  <2>2. ListedInv'
    <3>1. page' = 1 BY <1>1, <2>1 DEF PhaseInv
    <3>2. Done' = 0 BY <1>1, <3>1, DoneFacts
    <3>3. start \in Seq(Items) BY <1>1, StartType
    <3>4. \A n \in Issues(start) : ~(n <= 0) BY <3>3, NumbersFacts
    <3> QED BY <2>1, <3>2, <3>4 DEF ListedInv
  <2> QED BY <1>0, <1>2, <1>3, <1>4, <1>6, <1>7, <1>9, <2>1, <2>2 DEF StatsInv
<1>12. CASE FetchIssues
  <2>1. FetchedInv' /\ ListedInv' /\ EachOnce' BY <1>12, FetchIssuesKeeps
  <2>2. /\ UNCHANGED <<items, start, asked, index, waits, cursor, earliest>>
        /\ waits = <<>> /\ cursor = 0 /\ earliest = NoTime
    BY <1>1, <1>12 DEF FetchIssues, world, queries, PhaseInv
  <2>3. IndexInv'
    <3>1. phase' \in {"issues", "pulls"} \/ (phase' = "timelines" /\ ~RestAvailable)
      BY <1>12 DEF FetchIssues
    <3>2. phase' = "pulls" => Done' = 0
      <4>1. phase' = "pulls" => page' = 1 BY <1>12 DEF FetchIssues
      <4> QED BY <1>1, <4>1, DoneFacts
    <3>3. \A p \in Pulls(start) : ~(Rank(Pulls(start), p) <= 0)
      <4>1. start \in Seq(Items) BY <1>1, StartType
      <4>2. Len(start) \in Nat /\ Pulls(start) \in SUBSET (1 .. Len(start)) BY <4>1, NumbersFacts
      <4>3. Cardinality(Pulls(start)) \in Nat BY <4>2, RankType
      <4>4. \A p \in Pulls(start) : Rank(Pulls(start), p) \in 1 .. Cardinality(Pulls(start))
        BY <4>2, RankIsPlace
      <4> QED BY <4>3, <4>4
    <3>4. \A n \in DOMAIN index : \E p \in Pulls(items) : Closes(items, p, n) /\ index[n] = items[p].created
      BY <1>1 DEF IndexInv
    <3>5. UNCHANGED RestAvailable BY <2>2 DEF RestAvailable
    <3> QED BY <2>2, <3>1, <3>2, <3>3, <3>4, <3>5 DEF IndexInv, Closes
  <2> QED BY <1>0, <1>2, <1>5, <1>8, <2>1, <2>2, <2>3 DEF StatsInv
<1>13. CASE FetchPulls
  <2>1. /\ UNCHANGED <<items, start, asked, fetched, waits, cursor, earliest>>
        /\ waits = <<>> /\ cursor = 0 /\ earliest = NoTime /\ phase = "pulls" /\ phase' \in {"pulls", "timelines"}
    BY <1>1, <1>13 DEF FetchPulls, world, queries, PhaseInv
  <2>2. IndexInv' BY <1>13, FetchPullsKeeps
  <2>3. ListedInv' BY <1>1, <2>1 DEF ListedInv, HasFetched
  <2> QED BY <1>0, <1>2, <1>3, <1>4, <1>5, <1>8, <2>1, <2>2, <2>3 DEF StatsInv
<1>14. CASE QueryTimeline \/ NoTimeline \/ TimelineRefused
  <2>1. WaitsInv' /\ TimelineInv' BY <1>14, QueryKeeps, WithoutTimelineKeeps
  <2>2. UNCHANGED <<items, start, asked, phase, fetched, index>> /\ phase = "timelines"
    BY <1>14 DEF QueryTimeline, NoTimeline, TimelineRefused, Quiet, Working, world, fetches
  <2>3. ListedInv' BY <1>1, <2>2 DEF ListedInv, HasFetched
  <2> QED BY <1>0, <1>2, <1>3, <1>4, <1>9, <2>1, <2>2, <2>3 DEF StatsInv
<1>15. CASE Report \/ Draw \/ Fail
  <2>1. /\ UNCHANGED <<items, start, asked, fetched, index, graphql, waits>>
        /\ (phase' = "charts" /\ phase = "timelines") \/ phase' = "end"
    BY <1>15 DEF Report, Draw, Fail, world, fetches, queries
  <2>2. ListedInv' BY <1>1, <2>1 DEF ListedInv, HasFetched
  <2> QED BY <1>0, <1>2, <1>3, <1>4, <1>6, <1>7, <1>9, <2>1, <2>2 DEF StatsInv
<1>16. CASE UNCHANGED vars
  <2>1. UNCHANGED <<items, start, asked, phase, page, fetched, index, graphql, cursor, earliest, waits>>
    BY <1>16 DEF vars, world, fetches, queries
  <2>2. ListedInv' /\ IndexInv' /\ TimelineInv'
    BY <1>1, <2>1 DEF ListedInv, HasFetched, Done, IndexInv, Met, Closes, RestAvailable, TimelineInv,
       Working, Current, Links
  <2> QED BY <1>0, <1>2, <1>3, <1>4, <1>6, <2>1, <2>2 DEF StatsInv
<1> QED
  BY <1>10, <1>11, <1>12, <1>13, <1>14, <1>15, <1>16 DEF Next, Script, Refused

THEOREM StatsInvariant == Spec => []StatsInv
<1>1. Init => StatsInv BY StatsInit
<1>2. StatsInv /\ [Next]_vars => StatsInv' BY StatsStep
<1> QED BY <1>1, <1>2, PTL DEF Spec

(* Every variable of a run of the script keeps its type (main.py, main).   *)
THEOREM TypeCorrect == Spec => []TypeOK
<1>1. StatsInv => TypeOK BY DEF StatsInv
<1> QED BY <1>1, StatsInvariant, PTL

(* fetch_issues takes no issue twice, however the repository grows between *)
(* its pages: listed by creation, what is opened comes behind what was     *)
(* read.                                                                   *)
THEOREM CountedOnce == Spec => []EachOnce
<1>1. StatsInv => EachOnce BY DEF StatsInv
<1> QED BY <1>1, StatsInvariant, PTL

(* fetch_issues and the loop over the timelines leave out no issue that    *)
(* was there when the run began: the pages are full up to an empty one.    *)
THEOREM NoneLost == Spec => []NoneMissed
<1>1. StatsInv => NoneMissed
  <2> SUFFICES ASSUME StatsInv, phase = "charts", asked.state = "all", NEW n \in Issues(start)
               PROVE  \E i \in DOMAIN waits : fetched[i].number = n
    BY DEF NoneMissed
  <2>1. Len(waits) = Len(fetched) BY DEF StatsInv, PhaseInv
  <2>2. DOMAIN waits = DOMAIN fetched BY <2>1 DEF StatsInv, TypeOK
  <2> QED BY <2>2 DEF StatsInv, ListedInv, HasFetched
<1> QED BY <1>1, StatsInvariant, PTL

(* The in_pr time an issue is given is that of a pull request linked to    *)
(* it, and of those linked before the run the first, in the source the     *)
(* method asks (fetch_in_pr_at_graphql, build_rest_in_pr_index, main).     *)
THEOREM WaitsAreLinked == Spec => []WaitsFromLinks
<1>1. StatsInv => WaitsFromLinks
  <2> SUFFICES ASSUME StatsInv, NEW i \in DOMAIN waits
               PROVE  LET n             == fetched[i].number
                          Closing(list) == {p \in Pulls(list) : <<"this", n>> \in list[p].closes}
                          Linked(list)  == Pulls(list) \cap ToSet(list[n].links)
                          NotAfter(p)   == waits[i] # NoTime /\ waits[i] <= items[p].created
                          Sources       == (IF RestAvailable THEN Closing(items) ELSE {}) \cup
                                           (IF asked.method = "rest" THEN {} ELSE Linked(items))
                      IN  /\ waits[i] # NoTime => \E p \in Sources : waits[i] = items[p].created
                          /\ (graphql /\ n \in Numbers(start)) => \A p \in Linked(start) : NotAfter(p)
                          /\ asked.method = "rest" => \A p \in Closing(start) : NotAfter(p)
                          /\ (asked.method = "auto" /\ Closing(start) # {}) => waits[i] # NoTime
                          /\ asked.method = "none" => waits[i] = NoTime
    BY DEF WaitsFromLinks
  <2>1. PICK n, t : n = fetched[i].number /\ t = waits[i] OBVIOUS
  <2>2. RightWait(n, t) BY <2>1 DEF StatsInv, WaitsInv
  <2>3. start \in Seq(Items) /\ items \in Seq(Items) /\ Grows(start, items)
    BY StartType DEF StatsInv, GrowsInv
  <2>4. \A list \in {start, items} : \A p \in Pulls(list) : <<"this", n>> \in list[p].closes <=> Closes(list, p, n)
    <3> SUFFICES ASSUME NEW list \in {start, items}, NEW p \in Pulls(list)
                 PROVE  <<"this", n>> \in list[p].closes <=> Closes(list, p, n)
      OBVIOUS
    <3>1. list[p] \in Items BY <2>3, ItemType DEF Pulls, Numbers
    <3>2. list[p].closes \subseteq {"this", "other"} \X Nat BY <3>1 DEF Items
    <3>3. \A c \in list[p].closes : c[1] = "this" /\ c[2] = n => c = <<"this", n>> BY <3>2
    <3> QED BY <3>3 DEF Closes, LinkedIssues
  <2>5. \A p \in Pulls(start) : items[p].created = start[p].created
    BY <2>3, GrowsFacts DEF Pulls, Numbers
  <2> QED BY <2>1, <2>2, <2>4, <2>5 DEF RightWait
<1> QED BY <1>1, StatsInvariant, PTL

(* A run of the script that exits with 0 has answered for every issue and  *)
(* saved the charts (main, and the ImportError of draw_chart).             *)
THEOREM ExitMeansDone == Spec => []ExitTells
<1>1. StatsInv => ExitTells BY DEF StatsInv
<1> QED BY <1>1, StatsInvariant, PTL

=============================================================================
