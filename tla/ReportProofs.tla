---------------------------- MODULE ReportProofs ----------------------------
(* Theorems about the rows of the table of IssueStats: that its days are    *)
(* those of the intervals, and its totals those of the issues so far.       *)
EXTENDS IssueStatsProofs

-----------------------------------------------------------------------------
(* Sums.                                                                    *)

UpToOf(list, UpTo) ==
  /\ UpTo[0] = 0
  /\ \A i \in 1 .. Len(list) : UpTo[i] = UpTo[i - 1] + list[i]

(* The recursion of SumOf has a solution, of which the sum is the last.     *)
LEMMA SumFacts ==
  ASSUME NEW list, Len(list) \in Nat
  PROVE  \E UpTo : UpToOf(list, UpTo) /\ SumOf(list) = UpTo[Len(list)]
<1> DEFINE N == Len(list)
           Body(f, i)   == IF i = 0 THEN 0 ELSE f[i - 1] + list[i]
           Solves(f, n) == f = [i \in 0 .. n |-> Body(f, i)]
           Bad == {n \in Nat : n <= N /\ ~\E f : Solves(f, n)}
<1>1. Bad = {}
  <2> SUFFICES ASSUME Bad # {} PROVE FALSE OBVIOUS
  <2>1. PICK n \in Bad : \A k \in Bad : n <= k BY LeastNat
  <2>2. n \in Nat /\ n <= N /\ ~\E f : Solves(f, n) BY <2>1
  <2>3. n # 0
    <3> SUFFICES ASSUME n = 0 PROVE FALSE OBVIOUS
    <3> DEFINE f == [i \in 0 .. 0 |-> 0]
    <3>1. Solves(f, 0) OBVIOUS
    <3> HIDE DEF Solves
    <3> QED BY <2>2, <3>1
  <2>4. n - 1 \in Nat /\ n - 1 <= N /\ n - 1 \notin Bad
    <3>1. n - 1 \in Nat /\ n - 1 <= N /\ ~(n <= n - 1) BY <2>2, <2>3
    <3> QED BY <2>1, <3>1
  <2>5. PICK f : Solves(f, n - 1) BY <2>4
  <2> DEFINE g == [i \in 0 .. n |-> IF i = n THEN f[n - 1] + list[n] ELSE f[i]]
  <2>6. ASSUME NEW i \in 0 .. n PROVE g[i] = Body(g, i)
    <3>1. CASE i = n
      <4>1. n - 1 \in 0 .. n /\ n - 1 # n BY <2>2, <2>3
      <4>2. g[n - 1] = f[n - 1] BY <4>1
      <4> QED BY <2>3, <3>1, <4>2
    <3>2. CASE i # n
      <4>1. i \in 0 .. (n - 1) BY <2>2, <3>2
      <4>2. f[i] = Body(f, i) BY <2>5, <4>1
      <4>3. g[i] = f[i] BY <3>2
      <4>4. i # 0 => i - 1 \in 0 .. n /\ i - 1 # n BY <2>2
      <4>5. i # 0 => g[i - 1] = f[i - 1] BY <4>4
      <4> QED BY <4>2, <4>3, <4>5
    <3> QED BY <3>1, <3>2
  <2>7. Solves(g, n)
    <3> HIDE DEF g, Body
    <3>1. g = [i \in 0 .. n |-> g[i]] BY DEF g
    <3> QED BY <2>6, <3>1
  <2> HIDE DEF g, Solves
  <2> QED BY <2>2, <2>7
<1>2. N \notin Bad /\ N <= N BY <1>1
<1>3. \E f : Solves(f, N) BY <1>2
<1> DEFINE UpTo == CHOOSE f : Solves(f, N)
<1>4. Solves(UpTo, N)
  <2> HIDE DEF Solves
  <2> QED BY <1>3
<1>5. SumOf(list) = UpTo[N] BY DEF SumOf
<1> HIDE DEF UpTo
<1>6. ASSUME NEW i \in 0 .. N PROVE UpTo[i] = Body(UpTo, i)
  <2> HIDE DEF Body
  <2> QED BY <1>4
<1>7. UpToOf(list, UpTo)
  <2>1. 0 \in 0 .. N /\ \A i \in 1 .. N : i \in 0 .. N /\ i # 0 OBVIOUS
  <2> QED BY <1>6, <2>1 DEF UpToOf
<1> QED BY <1>5, <1>7

(* Numbers that are the sizes of sets apart from each other add up to the   *)
(* size of their union.                                                     *)
LEMMA SumOfSizes ==
  ASSUME NEW list, Len(list) \in Nat, NEW Set,
         \A i \in 1 .. Len(list) : IsFiniteSet(Set[i]) /\ list[i] = Cardinality(Set[i]),
         \A i, j \in 1 .. Len(list) : i # j => Set[i] \cap Set[j] = {},
         NEW All, \A x : x \in All <=> \E i \in 1 .. Len(list) : x \in Set[i]
  PROVE  IsFiniteSet(All) /\ SumOf(list) = Cardinality(All)
<1>1. PICK UpTo : UpToOf(list, UpTo) /\ SumOf(list) = UpTo[Len(list)] BY SumFacts
<1> DEFINE N == Len(list)
           First(n) == UNION {Set[i] : i \in 1 .. n}
           Good(n) == IsFiniteSet(First(n)) /\ UpTo[n] = Cardinality(First(n))
           Bad == {n \in Nat : n <= N /\ ~Good(n)}
<1>2. Bad = {}
  <2> SUFFICES ASSUME Bad # {} PROVE FALSE OBVIOUS
  <2>1. PICK n \in Bad : \A k \in Bad : n <= k BY LeastNat
  <2>2. n \in Nat /\ n <= N /\ ~Good(n) BY <2>1
  <2>3. n # 0
    <3> SUFFICES ASSUME n = 0 PROVE FALSE OBVIOUS
    <3>1. 1 .. 0 = {} OBVIOUS
    <3>2. First(0) = {} BY <3>1
    <3>3. UpTo[0] = 0 BY <1>1 DEF UpToOf
    <3> QED BY <2>2, <3>2, <3>3, FS_EmptySet
  <2>4. n - 1 \in Nat /\ n - 1 <= N /\ n - 1 \notin Bad /\ n \in 1 .. N
    <3>1. n - 1 \in Nat /\ n - 1 <= N /\ ~(n <= n - 1) /\ n \in 1 .. N BY <2>2, <2>3
    <3> QED BY <2>1, <3>1
  <2>5. Good(n - 1) BY <2>4
  <2>6. First(n) = First(n - 1) \cup Set[n]
    <3>1. \A i : i \in 1 .. n <=> i \in 1 .. (n - 1) \/ i = n BY <2>2, <2>3
    <3> QED BY <3>1
  <2>7. First(n - 1) \cap Set[n] = {}
    <3> SUFFICES ASSUME NEW i \in 1 .. (n - 1) PROVE Set[i] \cap Set[n] = {} OBVIOUS
    <3>1. i \in 1 .. N /\ i # n BY <2>2, <2>4
    <3> QED BY <2>4, <3>1
  <2>8. PICK A, B : A = First(n - 1) /\ B = Set[n] OBVIOUS
  <2>9. IsFiniteSet(A) /\ IsFiniteSet(B) /\ A \cap B = {} BY <2>4, <2>5, <2>7, <2>8
  <2>10. IsFiniteSet(A \cup B) /\ Cardinality(A \cup B) = Cardinality(A) + Cardinality(B)
    <3>1. /\ IsFiniteSet(A \cup B)
          /\ Cardinality(A \cup B) = Cardinality(A) + Cardinality(B) - Cardinality(A \cap B)
      BY <2>9, FS_Union
    <3>2. Cardinality(A) \in Nat /\ Cardinality(B) \in Nat BY <2>9, FS_CardinalityType
    <3>3. Cardinality(A \cap B) = 0 BY <2>9, FS_EmptySet
    <3> QED BY <3>1, <3>2, <3>3
  <2>11. UpTo[n] = UpTo[n - 1] + list[n] /\ list[n] = Cardinality(B)
    BY <1>1, <2>4, <2>8 DEF UpToOf
  <2>12. UpTo[n - 1] = Cardinality(A) BY <2>5, <2>8
  <2>13. First(n) = A \cup B BY <2>6, <2>8
  <2> QED BY <2>2, <2>10, <2>11, <2>12, <2>13
<1>3. Good(N)
  <2> HIDE DEF Good
  <2> QED BY <1>2
<1>4. First(N) = All OBVIOUS
<1> QED BY <1>1, <1>3, <1>4

(* What counts the issues or the parts that have a property.                *)
LEMMA SumOfOnes ==
  ASSUME NEW list, Len(list) \in Nat, NEW S \in SUBSET (1 .. Len(list)),
         \A i \in 1 .. Len(list) : list[i] = IF i \in S THEN 1 ELSE 0
  PROVE  SumOf(list) = Cardinality(S) /\ IsFiniteSet(S)
<1> DEFINE Set == [i \in 1 .. Len(list) |-> IF i \in S THEN {i} ELSE {}]
<1>1. \A i \in 1 .. Len(list) : IsFiniteSet(Set[i]) /\ list[i] = Cardinality(Set[i])
  <2> TAKE i \in 1 .. Len(list)
  <2>1. CASE i \in S
    <3>1. Set[i] = {i} /\ list[i] = 1 BY <2>1
    <3> HIDE DEF Set
    <3> QED BY <3>1, FS_Singleton
  <2>2. CASE i \notin S
    <3>1. Set[i] = {} /\ list[i] = 0 BY <2>2
    <3> HIDE DEF Set
    <3> QED BY <3>1, FS_EmptySet
  <2> QED BY <2>1, <2>2
<1>2. \A i, j \in 1 .. Len(list) : i # j => Set[i] \cap Set[j] = {} OBVIOUS
<1>3. \A x : x \in S <=> \E i \in 1 .. Len(list) : x \in Set[i] OBVIOUS
<1> HIDE DEF Set
<1> QED BY <1>1, <1>2, <1>3, SumOfSizes

-----------------------------------------------------------------------------
(* The order of the rows.                                                   *)

LEMMA BeforeFacts ==
  ASSUME NEW j \in Int \X Int, NEW k \in Int \X Int
  PROVE  /\ Before(j, k) \/ Before(k, j) \/ j = k
         /\ ~(Before(j, k) /\ Before(k, j)) /\ ~Before(k, k)
         /\ \A l \in Int \X Int : Before(l, j) /\ Before(j, k) => Before(l, k)
<1>1. /\ j[1] \in Int /\ j[2] \in Int /\ j = <<j[1], j[2]>>
      /\ k[1] \in Int /\ k[2] \in Int /\ k = <<k[1], k[2]>>
      /\ \A l \in Int \X Int : l[1] \in Int /\ l[2] \in Int
  OBVIOUS
<1>2. Before(j, k) \/ Before(k, j) \/ j = k BY <1>1 DEF Before
<1>3. ~(Before(j, k) /\ Before(k, j)) /\ ~Before(k, k) BY <1>1 DEF Before
<1>4. ASSUME NEW l \in Int \X Int, Before(l, j), Before(j, k) PROVE Before(l, k)
  BY <1>1, <1>4 DEF Before
<1> QED BY <1>2, <1>3, <1>4

(* How many keys come before one, which tells them apart.                   *)
PlaceOf(keys, k) == Cardinality({j \in keys : Before(j, k)})

LEMMA PlaceFacts ==
  ASSUME NEW keys \in SUBSET (Int \X Int), IsFiniteSet(keys), NEW k \in keys
  PROVE  /\ PlaceOf(keys, k) \in 0 .. (Cardinality(keys) - 1)
         /\ \A j \in keys : Before(j, k) => PlaceOf(keys, j) < PlaceOf(keys, k)
<1> DEFINE Lower(x) == {j \in keys : Before(j, x)}
<1>1. \A x : IsFiniteSet(Lower(x)) /\ Cardinality(Lower(x)) \in Nat BY FS_Subset, FS_CardinalityType
<1>2. Cardinality(Lower(k)) < Cardinality(keys)
  <2>1. k \notin Lower(k) BY BeforeFacts
  <2>2. Lower(k) \in SUBSET keys /\ Lower(k) # keys BY <2>1
  <2>3. PICK A : A = Lower(k) OBVIOUS
  <2>4. A \in SUBSET keys /\ A # keys /\ Cardinality(A) \in Nat /\ Cardinality(keys) \in Nat
    BY <1>1, <2>2, <2>3, FS_CardinalityType
  <2>5. Cardinality(A) <= Cardinality(keys) /\ Cardinality(A) # Cardinality(keys) BY <2>4, FS_Subset
  <2> QED BY <2>3, <2>4, <2>5
<1>3. ASSUME NEW j \in keys, Before(j, k) PROVE Cardinality(Lower(j)) < Cardinality(Lower(k))
  <2>1. Lower(j) \subseteq Lower(k) BY <1>3, BeforeFacts
  <2>2. j \in Lower(k) /\ j \notin Lower(j) BY <1>3, BeforeFacts
  <2>3. PICK A, B : A = Lower(j) /\ B = Lower(k) OBVIOUS
  <2>4. IsFiniteSet(B) /\ Cardinality(A) \in Nat /\ Cardinality(B) \in Nat BY <1>1, <2>3
  <2>5. A \in SUBSET B /\ A # B BY <2>1, <2>2, <2>3
  <2> QED BY <2>3, <2>4, <2>5, FS_Subset
<1>4. \A x : PlaceOf(keys, x) = Cardinality(Lower(x)) BY DEF PlaceOf
<1>5. PlaceOf(keys, k) \in 0 .. (Cardinality(keys) - 1)
  <2>1. PICK m \in Nat : m = Cardinality(Lower(k)) BY <1>1
  <2>2. PICK n \in Nat : n = Cardinality(keys) BY FS_CardinalityType
  <2>3. m < n BY <1>2, <2>1, <2>2
  <2>4. m \in 0 .. (n - 1) BY <2>3
  <2> QED BY <1>4, <2>1, <2>2, <2>4
<1>6. ASSUME NEW j \in keys, Before(j, k) PROVE PlaceOf(keys, j) < PlaceOf(keys, k)
  BY <1>3, <1>6 DEF PlaceOf
<1> QED BY <1>5, <1>6

(* The rows have each key once and in order.                                *)
LEMMA NthFacts ==
  ASSUME NEW keys \in SUBSET (Int \X Int), IsFiniteSet(keys)
  PROVE  LET n == Cardinality(keys)
         IN  /\ n \in Nat
             /\ \A i \in 1 .. n : Nth(keys, i) \in keys
             /\ \A i, j \in 1 .. n : i < j => Before(Nth(keys, i), Nth(keys, j))
             /\ \A k \in keys : \E i \in 1 .. n : Nth(keys, i) = k
<1> DEFINE n == Cardinality(keys)
           place == [k \in keys |-> PlaceOf(keys, k)]
<1>1. n \in Nat BY FS_CardinalityType
<1>2. ASSUME NEW j \in keys, NEW k \in keys, j # k PROVE PlaceOf(keys, j) # PlaceOf(keys, k)
  <2>1. Before(j, k) \/ Before(k, j) BY <1>2, BeforeFacts
  <2>2. PlaceOf(keys, j) \in Int /\ PlaceOf(keys, k) \in Int BY PlaceFacts
  <2>3. PlaceOf(keys, j) < PlaceOf(keys, k) \/ PlaceOf(keys, k) < PlaceOf(keys, j)
    BY <2>1, PlaceFacts
  <2> QED BY <2>2, <2>3
<1>3. place \in Injection(keys, 0 .. (n - 1))
  <2>1. place \in [keys -> 0 .. (n - 1)] BY PlaceFacts
  <2> QED BY <1>2, <2>1 DEF Injection, IsInjective
<1>4. IsFiniteSet(0 .. (n - 1)) /\ Cardinality(0 .. (n - 1)) = n
  <2>1. PICK m \in Nat : m = n BY <1>1
  <2>2. /\ IsFiniteSet(0 .. (m - 1))
        /\ Cardinality(0 .. (m - 1)) = IF 0 > m - 1 THEN 0 ELSE (m - 1) - 0 + 1
    BY FS_Interval
  <2> QED BY <2>1, <2>2
<1>5. place \in Surjection(keys, 0 .. (n - 1))
  <2> HIDE DEF place
  <2> QED BY <1>3, <1>4, FS_Injection
<1>6. \A i \in 0 .. (n - 1) : \E k \in keys : PlaceOf(keys, k) = i
  BY <1>5 DEF Surjection
<1>7. ASSUME NEW i \in 1 .. n PROVE Nth(keys, i) \in keys /\ PlaceOf(keys, Nth(keys, i)) = i - 1
  <2>1. i - 1 \in 0 .. (n - 1) BY <1>1
  <2>2. \E k \in keys : PlaceOf(keys, k) = i - 1 BY <1>6, <2>1
  <2>3. Nth(keys, i) = CHOOSE k \in keys : PlaceOf(keys, k) = i - 1 BY DEF Nth, PlaceOf
  <2> QED BY <2>2, <2>3
<1>8. ASSUME NEW i \in 1 .. n, NEW j \in 1 .. n, i < j PROVE Before(Nth(keys, i), Nth(keys, j))
  <2>1. PICK a \in keys, b \in keys : a = Nth(keys, i) /\ b = Nth(keys, j) BY <1>7
  <2>2. PlaceOf(keys, a) = i - 1 /\ PlaceOf(keys, b) = j - 1 BY <1>7, <2>1
  <2>3. ~Before(b, a)
    <3> SUFFICES ASSUME Before(b, a) PROVE FALSE OBVIOUS
    <3>1. PlaceOf(keys, b) < PlaceOf(keys, a) BY PlaceFacts
    <3> QED BY <1>1, <1>8, <2>2, <3>1
  <2>4. a # b BY <1>1, <1>8, <2>2
  <2> QED BY <2>1, <2>3, <2>4, BeforeFacts
<1>9. ASSUME NEW k \in keys PROVE \E i \in 1 .. n : Nth(keys, i) = k
  <2>1. PICK i \in 1 .. n : i = PlaceOf(keys, k) + 1
    <3>1. PlaceOf(keys, k) \in 0 .. (n - 1) BY PlaceFacts
    <3> QED BY <1>1, <3>1
  <2>2. Nth(keys, i) \in keys /\ PlaceOf(keys, Nth(keys, i)) = PlaceOf(keys, k)
    <3>1. PlaceOf(keys, k) \in Int BY PlaceFacts
    <3> QED BY <1>7, <2>1, <3>1
  <2> QED BY <1>2, <2>2
<1> QED BY <1>1, <1>7, <1>8, <1>9

-----------------------------------------------------------------------------
(* The times of a run.                                                      *)

LastMoment == Moments[Len(Moments)]

NoLater(time) == time # NoTime => time <= LastMoment

(* No time is after the last moment, and now has been read.                 *)
PastInv ==
  /\ \A n \in DOMAIN items : NoLater(items[n].created) /\ NoLater(items[n].closed)
  /\ \A i \in DOMAIN fetched : NoLater(fetched[i].created) /\ NoLater(fetched[i].closed)
  /\ NoLater(now) /\ (phase # "start" /\ phase # "end" => now # NoTime)

LEMMA MomentsType ==
  /\ Len(Moments) \in Nat /\ Len(Moments) \in DOMAIN Moments /\ DOMAIN Moments = 1 .. Len(Moments)
  /\ 1 \in DOMAIN Moments /\ LastMoment \in Nat /\ Moments[1] <= LastMoment /\ LastMoment \in Moment
  /\ \A i \in DOMAIN Moments : Moments[i] \in Nat /\ Moments[i] <= LastMoment
<1>1. /\ Moments \in Seq(Nat) /\ Moments # <<>> BY BoundsAssumption
<1>2. /\ Len(Moments) \in Nat /\ DOMAIN Moments = 1 .. Len(Moments) /\ Len(Moments) # 0
      /\ \A i \in DOMAIN Moments : Moments[i] \in Nat
  BY <1>1
<1>3. Len(Moments) \in DOMAIN Moments /\ 1 \in DOMAIN Moments /\ \A i \in DOMAIN Moments : i <= Len(Moments)
  BY <1>2
<1>4. \A i \in DOMAIN Moments : Moments[i] <= LastMoment BY <1>3, MomentsAssumption DEF LastMoment
<1>5. LastMoment \in Moment BY <1>2, <1>3, MomentsAssumption DEF LastMoment, Moment
<1> QED BY <1>2, <1>3, <1>4, <1>5 DEF LastMoment

LEMMA PastInit == Init => PastInv
<1> SUFFICES ASSUME Init PROVE PastInv OBVIOUS
<1>1. items \in Histories /\ items \in Seq(Items) /\ fetched = <<>> /\ now = NoTime /\ phase = "start"
  BY HistoriesAssumption DEF Init
<1>2. ASSUME NEW n \in DOMAIN items PROVE NoLater(items[n].created) /\ NoLater(items[n].closed)
  <2>1. /\ items[n].created # NoTime => items[n].created <= Moments[1]
        /\ items[n].closed # NoTime => items[n].closed <= Moments[1]
    BY <1>1, MomentsAssumption
  <2>2. items[n].created \in Nat /\ items[n].closed \in Times BY <1>1, ItemType
  <2> QED BY <2>1, <2>2, MomentsType, BoundsAssumption DEF NoLater, Times
<1> QED BY <1>1, <1>2 DEF PastInv, NoLater

(* What the script fetches is as old as what the repository has.            *)
LEMMA PastFetched == StatsInv /\ PastInv /\ FetchIssues => PastInv'
<1> SUFFICES ASSUME StatsInv, PastInv, FetchIssues PROVE PastInv' OBVIOUS
<1>1. TypeOK /\ items \in Seq(Items) /\ fetched \in Seq([number : Nat, created : Nat, closed : Times])
  BY DEF StatsInv, TypeOK
<1>2. PICK list, found, new :
        /\ list = Page(Listed(asked.state), page, PerPage) \cap Issues(items) /\ found = InOrder(list)
        /\ new = [k \in DOMAIN found |-> Snapshot(found[k])]
  OBVIOUS
<1>3. /\ phase = "issues" /\ items' = items /\ now' = now
      /\ phase' \in {"issues", "pulls", "timelines"}
      /\ fetched' = fetched \o new \/ fetched' = fetched
  BY <1>2 DEF FetchIssues, world
<1>4. new \in Seq([number : Nat, created : Nat, closed : Times])
  <2>1. list \in SUBSET Issues(items) BY <1>2
  <2> DEFINE snapshots == [k \in DOMAIN InOrder(list) |-> Snapshot(InOrder(list)[k])]
  <2>2. snapshots \in Seq([number : Nat, created : Nat, closed : Times]) BY <1>1, <2>1, FetchFacts
  <2>3. new = snapshots BY <1>2
  <2> QED BY <2>2, <2>3
<1>5. ASSUME NEW k \in DOMAIN new PROVE NoLater(new[k].created) /\ NoLater(new[k].closed)
  <2>1. list \in SUBSET (1 .. Len(items)) /\ Len(items) \in Nat BY <1>1, <1>2, PageFacts
  <2>2. /\ found \in Seq(list) /\ Len(found) = Cardinality(list) BY <1>2, <2>1, InOrderFacts
  <2>3. k \in DOMAIN found BY <1>2
  <2>4. found[k] \in list BY <2>2, <2>3
  <2>5. found[k] \in DOMAIN items
    <3>1. DOMAIN items = 1 .. Len(items) BY <1>1
    <3> QED BY <2>1, <2>4, <3>1
  <2>6. new[k] = Snapshot(found[k]) BY <1>2, <2>3
  <2> QED BY <2>5, <2>6 DEF PastInv, Snapshot
<1>6. ASSUME NEW i \in DOMAIN fetched' PROVE NoLater(fetched'[i].created) /\ NoLater(fetched'[i].closed)
  <2>1. CASE fetched' = fetched BY <1>6, <2>1 DEF PastInv
  <2>2. CASE fetched' = fetched \o new
    <3>1. \/ i \in DOMAIN fetched /\ fetched'[i] = fetched[i]
          \/ \E k \in DOMAIN new : fetched'[i] = new[k]
      <4>1. /\ Len(fetched) \in Nat /\ Len(new) \in Nat /\ DOMAIN fetched = 1 .. Len(fetched)
            /\ DOMAIN new = 1 .. Len(new) /\ i \in 1 .. Len(fetched) + Len(new)
        BY <1>1, <1>4, <1>6, <2>2
      <4>2. fetched'[i] = IF i <= Len(fetched) THEN fetched[i] ELSE new[i - Len(fetched)]
        BY <1>1, <1>4, <2>2, <4>1
      <4>3. CASE i <= Len(fetched) BY <4>1, <4>2, <4>3
      <4>4. CASE ~(i <= Len(fetched))
        <5>1. i - Len(fetched) \in DOMAIN new BY <4>1, <4>4
        <5> QED BY <4>2, <4>4, <5>1
      <4> QED BY <4>3, <4>4
    <3> QED BY <1>5, <3>1 DEF PastInv
  <2> QED BY <1>3, <2>1, <2>2
<1>7. NoLater(now') /\ now' # NoTime BY <1>3 DEF PastInv
<1>8. \A n \in DOMAIN items' : NoLater(items'[n].created) /\ NoLater(items'[n].closed) BY <1>3 DEF PastInv
<1> QED BY <1>6, <1>7, <1>8 DEF PastInv, NoLater

(* What the repository does is of its time.                                 *)
LEMMA PastRepository == StatsInv /\ PastInv /\ Repository => PastInv'
<1> SUFFICES ASSUME StatsInv, PastInv, Repository PROVE PastInv' OBVIOUS
<1>1. TypeOK /\ items \in Seq(Items) /\ clock \in DOMAIN Moments BY MomentsType DEF StatsInv, TypeOK
<1>2. Time \in Nat /\ NoLater(Time) BY <1>1, MomentsType DEF Time, NoLater
<1>3. /\ fetched' = fetched /\ now' = now /\ phase' = phase
  BY <1>1, RepositoryStep DEF fetches
<1>4. NoLater(NoTime) BY DEF NoLater
<1>5. ASSUME NEW n \in DOMAIN items' PROVE NoLater(items'[n].created) /\ NoLater(items'[n].closed)
  <2>0. /\ \A m \in DOMAIN items : items[m] \in Items
        /\ \A m \in DOMAIN items : NoLater(items[m].created) /\ NoLater(items[m].closed)
    BY <1>1 DEF PastInv
  <2>1. ASSUME NEW item, item.created = Time, item.closed = NoTime, items' = Append(items, item)
        PROVE  NoLater(items'[n].created) /\ NoLater(items'[n].closed)
    <3>1. (n \in DOMAIN items /\ items'[n] = items[n]) \/ items'[n] = item
      <4>1. Len(items) \in Nat /\ n \in 1 .. Len(items) + 1 /\ DOMAIN items = 1 .. Len(items)
        BY <1>1, <1>5, <2>1
      <4> QED BY <1>1, <2>1, <4>1
    <3> QED BY <1>2, <1>4, <2>0, <2>1, <3>1
  <2>2. CASE Open
    <3>1. \E kind, closes : items' = Append(items, NewItem(kind, closes)) BY <2>2 DEF Open
    <3>2. PICK kind, closes : items' = Append(items, NewItem(kind, closes)) BY <3>1
    <3>3. NewItem(kind, closes).created = Time /\ NewItem(kind, closes).closed = NoTime BY DEF NewItem
    <3> QED BY <2>1, <3>2, <3>3
  <2>3. ASSUME NEW m, NEW t \in {Time, NoTime}, items' = [items EXCEPT ![m].closed = t]
        PROVE  NoLater(items'[n].created) /\ NoLater(items'[n].closed)
    <3>1. n \in DOMAIN items BY <1>1, <1>5, <2>3
    <3>2. items'[n].created = items[n].created /\ items'[n].closed \in {items[n].closed, t}
      BY <1>1, <2>0, <2>3, <3>1 DEF Items
    <3> QED BY <1>2, <1>4, <2>0, <2>3, <3>1, <3>2
  <2>4. CASE \E m \in Numbers(items) : Close(m) \/ Reopen(m) BY <2>3, <2>4 DEF Close, Reopen
  <2>5. CASE \E m \in Issues(items), p \in Pulls(items) \cup {0} : Link(m, p)
    <3>1. PICK m, p : items' = [items EXCEPT ![m].links = Append(@, p)] BY <2>5 DEF Link
    <3>2. n \in DOMAIN items BY <1>1, <1>5, <3>1
    <3>3. items'[n].created = items[n].created /\ items'[n].closed = items[n].closed
      BY <1>1, <2>0, <3>1, <3>2 DEF Items
    <3> QED BY <2>0, <3>2, <3>3
  <2>6. CASE Tick BY <1>5, <2>0, <2>6 DEF Tick
  <2> QED BY <2>2, <2>4, <2>5, <2>6 DEF Repository
<1> QED BY <1>3, <1>5 DEF PastInv, NoLater

LEMMA PastStep == StatsInv /\ PastInv /\ [Next]_vars => PastInv'
<1> SUFFICES ASSUME StatsInv, PastInv, [Next]_vars PROVE PastInv' OBVIOUS
<1>1. CASE Repository BY <1>1, PastRepository
<1>2. CASE FetchIssues BY <1>2, PastFetched
<1>3. CASE Begin
  <2>1. Time \in Nat /\ NoLater(Time) /\ Time # NoTime
    BY MomentsType, BoundsAssumption DEF StatsInv, TypeOK, Time, NoLater
  <2> QED BY <1>3, <2>1 DEF Begin, world, fetches, PastInv, NoLater
<1>4. CASE \/ FetchPulls \/ QueryTimeline \/ NoTimeline \/ TimelineRefused \/ Report \/ Draw \/ Fail
           \/ UNCHANGED vars
  <2>1. items' = items /\ fetched' = fetched /\ now' = now
    BY <1>4 DEF FetchPulls, QueryTimeline, NoTimeline, TimelineRefused, Report, Draw, Fail, Quiet, vars,
                world, fetches
  <2>2. phase' # "start" /\ phase' # "end" => phase # "start" /\ phase # "end"
    BY <1>4 DEF FetchPulls, QueryTimeline, NoTimeline, TimelineRefused, Report, Draw, Fail, Quiet, vars,
                Working
  <2> QED BY <2>1, <2>2 DEF PastInv, NoLater
<1> QED BY <1>1, <1>2, <1>3, <1>4 DEF Next, Script, Refused

LEMMA PastInvariant == Spec => [](StatsInv /\ PastInv)
<1>1. Init => StatsInv /\ PastInv BY StatsInit, PastInit
<1>2. StatsInv /\ PastInv /\ [Next]_vars => (StatsInv /\ PastInv)' BY StatsStep, PastStep
<1> QED BY <1>1, <1>2, PTL DEF Spec

-----------------------------------------------------------------------------
(* The intervals of an issue, and what they add to a period.                *)

Charted == StatsInv /\ PastInv /\ phase = "charts"

LEMMA IntervalFacts ==
  ASSUME Charted, NEW m \in Metrics, NEW i \in Counted(m)
  PROVE  /\ i \in 1 .. Len(fetched) /\ asked.period \in Kinds
         /\ Began(m, i) \in Moment /\ Began(m, i) \in Nat /\ Began(m, i) <= LastMoment
         /\ Ended(m, i) \in Moment /\ Ended(m, i) \in Nat /\ Ended(m, i) <= LastMoment
<1>1. /\ TypeOK /\ PastInv /\ WaitsInv /\ phase = "charts" /\ Len(waits) = Len(fetched)
  BY DEF Charted, StatsInv, PhaseInv
<1>2. /\ fetched \in Seq([number : Nat, created : Nat, closed : Times]) /\ waits \in Seq(Times)
      /\ now \in Times /\ asked \in Asked /\ items \in Seq(Items)
  BY <1>1 DEF TypeOK
<1>3. asked.period \in Kinds BY <1>2, AskedAssumption DEF Kinds
<1>4. i \in DOMAIN fetched /\ DOMAIN fetched = 1 .. Len(fetched) /\ i \in DOMAIN waits
      /\ Began(m, i) # NoTime
  BY <1>1, <1>2 DEF Counted
<1>5. /\ fetched[i].created \in Nat /\ fetched[i].closed \in Times /\ waits[i] \in Times
      /\ NoLater(fetched[i].created) /\ NoLater(fetched[i].closed) /\ NoLater(now) /\ now \in Nat
  <2>1. NoLater(fetched[i].created) /\ NoLater(fetched[i].closed) /\ NoLater(now) /\ now # NoTime
    BY <1>1, <1>4 DEF PastInv
  <2>2. fetched[i] \in [number : Nat, created : Nat, closed : Times] /\ waits[i] \in Times
    <3> DEFINE Fetched == [number : Nat, created : Nat, closed : Times]
    <3>1. fetched \in Seq(Fetched) /\ waits \in Seq(Times) BY <1>2
    <3> HIDE DEF Fetched
    <3>2. fetched[i] \in Fetched /\ waits[i] \in Times BY <1>4, <3>1
    <3> QED BY <3>2 DEF Fetched
  <2>3. now \in Nat BY <1>2, <2>1 DEF Times
  <2> QED BY <2>1, <2>2, <2>3
<1>6. NoLater(waits[i])
  <2> SUFFICES ASSUME waits[i] # NoTime PROVE waits[i] <= LastMoment BY DEF NoLater
  <2>1. PICK p \in Pulls(items) : waits[i] = items[p].created BY <1>1, <1>4 DEF WaitsInv, RightWait
  <2>2. p \in DOMAIN items BY DEF Pulls, Numbers
  <2> QED BY <1>1, <2>1, <2>2 DEF PastInv, NoLater
<1>7. Began(m, i) \in Times /\ NoLater(Began(m, i))
  <2>1. CASE m = "open"   BY <1>5, <2>1 DEF Began, Times
  <2>2. CASE m = "closed" BY <1>5, <2>2 DEF Began
  <2>3. CASE m = "in_pr"  BY <1>5, <1>6, <2>3 DEF Began
  <2> QED BY <2>1, <2>2, <2>3 DEF Metrics
<1>8. Ended(m, i) \in Nat /\ NoLater(Ended(m, i)) BY <1>5 DEF Ended, Times
<1>9. /\ Began(m, i) \in Nat /\ Began(m, i) <= LastMoment /\ Ended(m, i) \in Nat /\ Ended(m, i) <= LastMoment
  BY <1>4, <1>7, <1>8, BoundsAssumption DEF Times, NoLater
<1>10. \A t \in Nat : t <= LastMoment => t \in Moment BY MomentsType, MomentsBefore
<1> QED BY <1>3, <1>4, <1>9, <1>10

(* The half days of an issue that are of a period.                          *)
Half(m, i, key) ==
  IF i \in Counted(m) THEN TimesOf(key, Began(m, i), Ended(m, i), asked.period) ELSE {}

(* The parts of an interval add to a period the times of it, and count once *)
(* if there are any.                                                        *)
LEMMA PartsAdd ==
  ASSUME NEW parts, NEW from \in Nat, NEW end \in Nat, NEW period \in Kinds,
         Exact(parts, from, end, period), NEW key
  PROVE  LET times == TimesOf(key, from, end, period)
         IN  /\ IsFiniteSet(times) /\ DaysIn(parts, key) = Cardinality(times)
             /\ PartsIn(parts, key) = IF times # {} THEN 1 ELSE 0
<1> DEFINE times == TimesOf(key, from, end, period)
           size  == [k \in DOMAIN parts |-> IF parts[k].key = key THEN parts[k].days ELSE 0]
           one   == [k \in DOMAIN parts |-> IF parts[k].key = key THEN 1 ELSE 0]
           Set   == [k \in DOMAIN parts |-> IF parts[k].key = key THEN times ELSE {}]
           Here  == {k \in DOMAIN parts : parts[k].key = key}
<1>1. /\ parts \in Seq(PartSet) /\ Len(parts) \in Nat /\ DOMAIN parts = 1 .. Len(parts)
      /\ Len(size) = Len(parts) /\ Len(one) = Len(parts)
  BY DEF Exact
<1>2. IsFiniteSet(times)
  <2>1. times \in SUBSET (from .. (end - 1)) BY DEF TimesOf
  <2>2. IsFiniteSet(from .. (end - 1)) BY FS_Interval
  <2> HIDE DEF times
  <2> QED BY <2>1, <2>2, FS_Subset
<1>3. ASSUME NEW j \in DOMAIN parts, NEW k \in DOMAIN parts, parts[j].key = parts[k].key PROVE j = k
  <2>0. parts[j] \in PartSet /\ parts[k] \in PartSet BY <1>1
  <2>1. /\ parts[j].key \in Int \X Int /\ parts[k].key \in Int \X Int /\ j \in Int /\ k \in Int
        /\ j \in 1 .. Len(parts) /\ k \in 1 .. Len(parts)
    BY <1>1, <2>0 DEF PartSet
  <2>2. j < k => Before(parts[j].key, parts[k].key) BY <2>1 DEF Exact
  <2>3. k < j => Before(parts[k].key, parts[j].key) BY <2>1 DEF Exact
  <2>4. ~Before(parts[j].key, parts[j].key) BY <2>1, BeforeFacts
  <2> QED BY <1>3, <2>1, <2>2, <2>3, <2>4
<1>4. \A k \in DOMAIN parts : parts[k].key = key => times # {} /\ parts[k].days = Cardinality(times)
  BY <1>1 DEF Exact
<1>5. times # {} => \E k \in DOMAIN parts : parts[k].key = key BY <1>1 DEF Exact, TimesOf
<1> HIDE DEF times
<1>6. SumOf(size) = Cardinality(times)
  <2>1. \A k \in 1 .. Len(size) : IsFiniteSet(Set[k]) /\ size[k] = Cardinality(Set[k])
    BY <1>1, <1>2, <1>4, FS_EmptySet
  <2>2. \A j, k \in 1 .. Len(size) : j # k => Set[j] \cap Set[k] = {}
    <3> TAKE j, k \in 1 .. Len(size)
    <3>1. j # k => parts[j].key # key \/ parts[k].key # key BY <1>1, <1>3
    <3> QED BY <1>1, <3>1
  <2>3. \A t : t \in times <=> \E k \in 1 .. Len(size) : t \in Set[k]
    <3>1. ASSUME NEW t \in times PROVE \E k \in 1 .. Len(size) : t \in Set[k]
      <4>1. PICK k \in DOMAIN parts : parts[k].key = key BY <1>5, <3>1
      <4>2. k \in 1 .. Len(size) /\ Set[k] = times BY <1>1, <4>1
      <4> QED BY <3>1, <4>2
    <3>2. ASSUME NEW k \in 1 .. Len(size) PROVE Set[k] \subseteq times BY <1>1
    <3> HIDE DEF Set, size
    <3> QED BY <3>1, <3>2
  <2>4. Len(size) \in Nat BY <1>1
  <2> HIDE DEF Set, size
  <2> QED BY <2>1, <2>2, <2>3, <2>4, SumOfSizes
<1>7. SumOf(one) = Cardinality(Here)
  <2>1. Here \in SUBSET (1 .. Len(one)) /\ Len(one) \in Nat BY <1>1
  <2>2. \A k \in 1 .. Len(one) : one[k] = IF k \in Here THEN 1 ELSE 0 BY <1>1
  <2> HIDE DEF Here, one
  <2> QED BY <2>1, <2>2, SumOfOnes
<1>8. Cardinality(Here) = IF times # {} THEN 1 ELSE 0
  <2>1. CASE times = {}
    <3>1. Here = {} BY <1>4, <2>1
    <3> QED BY <2>1, <3>1, FS_EmptySet
  <2>2. CASE times # {}
    <3>1. PICK k \in DOMAIN parts : parts[k].key = key BY <1>5, <2>2
    <3>2. Here = {k} BY <1>3, <3>1
    <3> QED BY <2>2, <3>2, FS_Singleton
  <2> QED BY <2>1, <2>2
<1>9. DaysIn(parts, key) = SumOf(size) /\ PartsIn(parts, key) = SumOf(one) BY DEF DaysIn, PartsIn
<1> QED BY <1>2, <1>6, <1>7, <1>8, <1>9 DEF times

LEMMA IssueAdds ==
  ASSUME Charted, NEW m \in Metrics, NEW i \in DOMAIN fetched, NEW key
  PROVE  /\ IsFiniteSet(Half(m, i, key)) /\ DaysIn(Parts(m, i), key) = Cardinality(Half(m, i, key))
         /\ PartsIn(Parts(m, i), key) = IF Half(m, i, key) # {} THEN 1 ELSE 0
<1>1. CASE i \in Counted(m)
  <2>1. PICK s \in Moment, e \in Moment : s = Began(m, i) /\ e = Ended(m, i) BY <1>1, IntervalFacts
  <2>2. asked.period \in Kinds /\ s \in Nat /\ e \in Nat BY <1>1, <2>1, IntervalFacts
  <2>3. Parts(m, i) = SplitInterval(s, e, asked.period) BY <1>1, <2>1 DEF Parts
  <2>4. Exact(Parts(m, i), s, e, asked.period) BY <2>2, <2>3, SplitExact
  <2>5. Half(m, i, key) = TimesOf(key, s, e, asked.period) BY <1>1, <2>1 DEF Half
  <2> QED BY <2>2, <2>4, <2>5, PartsAdd
<1>2. CASE i \notin Counted(m)
  <2>1. Parts(m, i) = <<>> /\ Half(m, i, key) = {} BY <1>2 DEF Parts, Half
  <2>2. 0 .. (0 - 1) = {} OBVIOUS
  <2>3. Exact(<<>>, 0, 0, "week") /\ TimesOf(key, 0, 0, "week") = {} BY <2>2 DEF Exact, TimesOf
  <2>4. PICK none, zero, period : /\ none = <<>> /\ zero = 0 /\ period = "week"
                                  /\ zero \in Nat /\ period \in Kinds
    BY DEF Kinds
  <2>5. /\ IsFiniteSet(TimesOf(key, zero, zero, period))
        /\ DaysIn(none, key) = Cardinality(TimesOf(key, zero, zero, period))
        /\ PartsIn(none, key) = IF TimesOf(key, zero, zero, period) # {} THEN 1 ELSE 0
    BY <2>3, <2>4, PartsAdd
  <2> QED BY <2>1, <2>3, <2>4, <2>5
<1> QED BY <1>1, <1>2

-----------------------------------------------------------------------------
(* The rows.                                                                *)

(* The keys are those of times of the intervals, until the last moment.     *)
LEMMA KeysFacts ==
  ASSUME Charted
  PROVE  /\ Keys \in SUBSET (Int \X Int) /\ IsFiniteSet(Keys)
         /\ \A key \in Keys : \E t \in Moment : t <= LastMoment /\ PeriodKey(t, asked.period) = key
         /\ \A m \in Metrics : \A i \in Counted(m) :
              Entry(m, i) = PeriodKey(Began(m, i), asked.period) /\ Entry(m, i) \in Keys
         /\ \A m \in Metrics : \A i \in DOMAIN fetched : \A key : Half(m, i, key) # {} => key \in Keys
<1>1. ASSUME NEW m \in Metrics, NEW i \in Counted(m)
      PROVE  Entry(m, i) = PeriodKey(Began(m, i), asked.period) /\ Entry(m, i) \in Keys
  <2>1. asked.period \in Kinds /\ Began(m, i) \in Moment BY IntervalFacts
  <2>2. Entry(m, i) = PeriodKey(Began(m, i), asked.period) BY <2>1, PeriodFacts DEF Entry
  <2> QED BY <2>2 DEF Keys
<1>2. ASSUME NEW m \in Metrics, NEW i \in Counted(m)
      PROVE  Exact(Parts(m, i), Began(m, i), Ended(m, i), asked.period)
  <2>1. asked.period \in Kinds /\ Began(m, i) \in Moment /\ Ended(m, i) \in Moment BY IntervalFacts
  <2>2. Parts(m, i) = SplitInterval(Began(m, i), Ended(m, i), asked.period) BY DEF Parts
  <2> QED BY <2>1, <2>2, SplitExact
<1>3. ASSUME NEW m \in Metrics, NEW i \in DOMAIN fetched, NEW key, Half(m, i, key) # {}
      PROVE  key \in Keys
  <2>1. i \in Counted(m) BY <1>3 DEF Half
  <2>2. PICK t \in Began(m, i) .. (Ended(m, i) - 1) : PeriodKey(t, asked.period) = key
    BY <1>3, <2>1 DEF Half, TimesOf
  <2>3. PICK k \in 1 .. Len(Parts(m, i)) : Parts(m, i)[k].key = key BY <1>2, <2>1, <2>2 DEF Exact
  <2>4. Parts(m, i)[k] \in ToSet(Parts(m, i))
    <3>1. DOMAIN Parts(m, i) = 1 .. Len(Parts(m, i)) BY <1>2, <2>1 DEF Exact
    <3> QED BY <2>3, <3>1 DEF ToSet
  <2> QED BY <2>1, <2>3, <2>4 DEF Keys
<1>4. ASSUME NEW key \in Keys PROVE \E t \in Moment : t <= LastMoment /\ PeriodKey(t, asked.period) = key
  <2>0. PICK m \in Metrics : \E i \in Counted(m) :
          key = Entry(m, i) \/ \E part \in ToSet(Parts(m, i)) : key = part.key
    BY DEF Keys
  <2>1. PICK i \in Counted(m) : key = Entry(m, i) \/ \E part \in ToSet(Parts(m, i)) : key = part.key
    BY <2>0
  <2>2. CASE key = Entry(m, i) BY <1>1, <2>2, IntervalFacts
  <2>3. CASE \E part \in ToSet(Parts(m, i)) : key = part.key
    <3>1. PICK k \in DOMAIN Parts(m, i) : key = Parts(m, i)[k].key BY <2>3 DEF ToSet
    <3>2. k \in 1 .. Len(Parts(m, i)) BY <1>2, <3>1 DEF Exact
    <3>3. TimesOf(key, Began(m, i), Ended(m, i), asked.period) # {} BY <1>2, <3>1, <3>2 DEF Exact
    <3>4. PICK t \in Began(m, i) .. (Ended(m, i) - 1) : PeriodKey(t, asked.period) = key
      BY <3>3 DEF TimesOf
    <3>5. /\ Began(m, i) \in Nat /\ Ended(m, i) \in Nat /\ Ended(m, i) <= LastMoment /\ LastMoment \in Moment
          /\ LastMoment \in Nat
      BY IntervalFacts, MomentsType
    <3>6. t \in Nat /\ t <= LastMoment BY <3>5
    <3>7. t \in Moment BY <3>5, <3>6, MomentsBefore
    <3> QED BY <3>4, <3>6, <3>7
  <2> QED BY <2>1, <2>2, <2>3
<1>5. IsFiniteSet(Keys)
  <2> DEFINE f == [t \in 0 .. LastMoment |-> PeriodKey(t, asked.period)]
             All == {PeriodKey(t, asked.period) : t \in 0 .. LastMoment}
  <2>1. f \in Surjection(0 .. LastMoment, All) BY DEF Surjection
  <2>2. LastMoment \in Nat /\ IsFiniteSet(0 .. LastMoment)
    <3>1. LastMoment \in Nat BY MomentsType
    <3> QED BY <3>1, FS_Interval
  <2>3. IsFiniteSet(All)
    <3> HIDE DEF f, All
    <3> QED BY <2>1, <2>2, FS_Surjection
  <2>4. Keys \in SUBSET All
    <3> SUFFICES ASSUME NEW key \in Keys PROVE key \in All OBVIOUS
    <3>1. PICK t \in Moment : t <= LastMoment /\ PeriodKey(t, asked.period) = key BY <1>4
    <3>2. t \in 0 .. LastMoment BY <2>2, <3>1, MomentFacts
    <3> QED BY <3>1, <3>2
  <2> HIDE DEF All
  <2> QED BY <2>3, <2>4, FS_Subset
<1>6. Keys \in SUBSET (Int \X Int)
  <2> SUFFICES ASSUME NEW key \in Keys PROVE key \in Int \X Int OBVIOUS
  <2>1. PICK t \in Moment : PeriodKey(t, asked.period) = key BY <1>4
  <2>2. asked.period \in Kinds BY AskedAssumption DEF Charted, StatsInv, TypeOK, Kinds
  <2> QED BY <2>1, <2>2, KeyType
<1> QED BY <1>1, <1>3, <1>4, <1>5, <1>6

LEMMA RowFacts ==
  /\ DOMAIN Rows = 1 .. Cardinality(Keys)
  /\ \A i \in DOMAIN Rows :
       /\ Rows[i].period = Nth(Keys, i)
       /\ Rows[i].days = PeriodStats(Nth(Keys, i)).days
       /\ Rows[i].parts = PeriodStats(Nth(Keys, i)).parts
       /\ Rows[i].total_open = Total(Grouped(Keys), "open", i)
       /\ Rows[i].total_closed = Total(Grouped(Keys), "closed", i)
<1> DEFINE n == Cardinality(Keys)
<1>1. DOMAIN Grouped(Keys) = 1 .. n /\ \A i \in 1 .. n : Grouped(Keys)[i] = PeriodStats(Nth(Keys, i))
  BY DEF Grouped
<1>2. DOMAIN Rows = 1 .. n BY <1>1 DEF Rows, Totalled
<1>3. ASSUME NEW i \in 1 .. n
      PROVE  Rows[i] = [period |-> Grouped(Keys)[i].period, days |-> Grouped(Keys)[i].days,
                        parts |-> Grouped(Keys)[i].parts, count |-> Grouped(Keys)[i].count,
                        total_open |-> Total(Grouped(Keys), "open", i),
                        total_closed |-> Total(Grouped(Keys), "closed", i)]
  BY <1>1 DEF Rows, Totalled
<1>4. \A key : PeriodStats(key).period = key BY DEF PeriodStats
<1> QED BY <1>1, <1>2, <1>3, <1>4

LEMMA FetchedLength == Charted => Len(fetched) \in Nat /\ DOMAIN fetched = 1 .. Len(fetched)
BY DEF Charted, StatsInv, TypeOK

LEMMA SpentFacts ==
  ASSUME NEW m
  PROVE  \A key, x : x \in Spent(m) /\ x[3] = key
           <=> \E i \in DOMAIN fetched : \E t \in Half(m, i, key) : x = <<i, t, key>>
<1> TAKE key, x
<1>1. ASSUME x \in Spent(m), x[3] = key
      PROVE  \E i \in DOMAIN fetched : \E t \in Half(m, i, key) : x = <<i, t, key>>
  <2>1. PICK i \in Counted(m) :
          \E t \in Began(m, i) .. Ended(m, i) - 1 : x = <<i, t, PeriodKey(t, asked.period)>>
    BY <1>1 DEF Spent
  <2>2. PICK t \in Began(m, i) .. Ended(m, i) - 1 : x = <<i, t, PeriodKey(t, asked.period)>> BY <2>1
  <2>3. PeriodKey(t, asked.period) = key BY <1>1, <2>2
  <2>4. t \in Half(m, i, key) BY <2>3 DEF Half, TimesOf
  <2> QED BY <2>2, <2>3, <2>4 DEF Counted
<1>2. ASSUME NEW i \in DOMAIN fetched, NEW t \in Half(m, i, key), x = <<i, t, key>>
      PROVE  x \in Spent(m) /\ x[3] = key
  <2>1. i \in Counted(m) BY DEF Half
  <2>2. t \in Began(m, i) .. Ended(m, i) - 1 /\ PeriodKey(t, asked.period) = key
    BY <2>1 DEF Half, TimesOf
  <2> QED BY <1>2, <2>1, <2>2 DEF Spent
<1> QED BY <1>1, <1>2

(* The days of a period are as many as there are half days of issues in it, *)
(* and its parts as many as there are issues.                               *)
LEMMA PeriodAdds ==
  ASSUME Charted, NEW m \in Metrics, NEW key
  PROVE  LET here == {x \in Spent(m) : x[3] = key}
         IN  /\ PeriodStats(key).days[m] = Cardinality(here)
             /\ PeriodStats(key).parts[m] = Cardinality({x[1] : x \in here})
<1> DEFINE N == Len(fetched)
           size == [i \in DOMAIN fetched |-> DaysIn(Parts(m, i), key)]
           one  == [i \in DOMAIN fetched |-> PartsIn(Parts(m, i), key)]
           Set  == [i \in DOMAIN fetched |-> {<<i, t, key>> : t \in Half(m, i, key)}]
           here == {x \in Spent(m) : x[3] = key}
           Has  == {i \in 1 .. N : Half(m, i, key) # {}}
<1>1. N \in Nat /\ DOMAIN fetched = 1 .. N /\ Len(size) = N /\ Len(one) = N BY FetchedLength
<1>2. PeriodStats(key).days[m] = SumOf(size) /\ PeriodStats(key).parts[m] = SumOf(one)
  BY DEF PeriodStats
<1>3. \A x : x \in here <=> \E i \in 1 .. N : \E t \in Half(m, i, key) : x = <<i, t, key>>
  <2>1. \A x : x \in here <=> x \in Spent(m) /\ x[3] = key OBVIOUS
  <2>2. \A x : x \in Spent(m) /\ x[3] = key
           <=> \E i \in DOMAIN fetched : \E t \in Half(m, i, key) : x = <<i, t, key>>
    BY SpentFacts
  <2>3. DOMAIN fetched = 1 .. N BY <1>1
  <2> HIDE DEF here, N
  <2> QED BY <2>1, <2>2, <2>3
<1> HIDE DEF here
<1>4. ASSUME NEW i \in 1 .. N PROVE IsFiniteSet(Set[i]) /\ size[i] = Cardinality(Set[i])
  <2>1. PICK H : H = Half(m, i, key) OBVIOUS
  <2>2. IsFiniteSet(H) /\ size[i] = Cardinality(H) BY <1>1, <2>1, IssueAdds
  <2> DEFINE f == [t \in H |-> <<i, t, key>>]
             T == {<<i, t, key>> : t \in H}
  <2>3. f \in Bijection(H, T)
    BY DEF Bijection, Injection, IsInjective, Surjection
  <2>4. IsFiniteSet(T) /\ Cardinality(T) = Cardinality(H)
    <3> HIDE DEF f, T
    <3> QED BY <2>2, <2>3, FS_Bijection DEF ExistsBijection
  <2>5. Set[i] = T BY <1>1, <2>1
  <2> QED BY <2>2, <2>4, <2>5
<1>5. SumOf(size) = Cardinality(here)
  <2>1. \A i, j \in 1 .. N : i # j => Set[i] \cap Set[j] = {} BY <1>1
  <2>2. \A x : x \in here <=> \E i \in 1 .. N : x \in Set[i] BY <1>1, <1>3
  <2>3. \A i \in 1 .. N : IsFiniteSet(Set[i]) /\ size[i] = Cardinality(Set[i]) BY <1>4
  <2>4. Len(size) = N /\ N \in Nat BY <1>1
  <2> HIDE DEF Set, size, N
  <2> QED BY <2>1, <2>2, <2>3, <2>4, SumOfSizes
<1>6. SumOf(one) = Cardinality(Has)
  <2>1. \A i \in 1 .. N : one[i] = IF i \in Has THEN 1 ELSE 0 BY <1>1, IssueAdds
  <2>2. Has \in SUBSET (1 .. N) /\ Len(one) = N /\ N \in Nat BY <1>1
  <2> HIDE DEF one, Has, N
  <2> QED BY <2>1, <2>2, SumOfOnes
<1>7. {x[1] : x \in here} = Has
  <2>1. ASSUME NEW x \in here PROVE x[1] \in Has
    <3>1. PICK i \in 1 .. N : \E t \in Half(m, i, key) : x = <<i, t, key>> BY <1>3, <2>1
    <3> QED BY <3>1
  <2>2. ASSUME NEW i \in Has PROVE \E x \in here : x[1] = i
    <3>1. PICK t : t \in Half(m, i, key) BY <2>2
    <3>2. <<i, t, key>> \in here BY <1>3, <2>2, <3>1
    <3> QED BY <3>2
  <2> HIDE DEF Has
  <2> QED BY <2>1, <2>2
<1> QED BY <1>2, <1>5, <1>6, <1>7 DEF here

LEMMA ChartedDaysAddUp == StatsInv /\ PastInv => DaysAddUp
<1> SUFFICES ASSUME StatsInv, PastInv, phase = "charts", NEW rows \in {Rows}, NEW m \in Metrics,
                    NEW spent \in {Spent(m)}
             PROVE  /\ \A i \in DOMAIN rows :
                         LET here == {s \in spent : s[3] = rows[i].period}
                         IN  /\ rows[i].days[m] = Cardinality(here)
                             /\ rows[i].parts[m] = Cardinality({s[1] : s \in here})
                    /\ {s[3] : s \in spent} \subseteq {rows[i].period : i \in DOMAIN rows}
  BY DEF DaysAddUp
<1>0. Charted /\ rows = Rows /\ spent = Spent(m) BY DEF Charted
<1>1. ASSUME NEW i \in DOMAIN rows
      PROVE  LET here == {s \in spent : s[3] = rows[i].period}
             IN  /\ rows[i].days[m] = Cardinality(here)
                 /\ rows[i].parts[m] = Cardinality({s[1] : s \in here})
  <2>1. PICK key : key = Nth(Keys, i) OBVIOUS
  <2>2. /\ rows[i].period = key /\ rows[i].days[m] = PeriodStats(key).days[m]
        /\ rows[i].parts[m] = PeriodStats(key).parts[m]
    BY <1>0, <2>1, RowFacts
  <2>3. /\ PeriodStats(key).days[m] = Cardinality({x \in Spent(m) : x[3] = key})
        /\ PeriodStats(key).parts[m] = Cardinality({x[1] : x \in {y \in Spent(m) : y[3] = key}})
    BY <1>0, PeriodAdds
  <2> QED BY <1>0, <2>2, <2>3
<1>2. ASSUME NEW s \in spent PROVE \E i \in DOMAIN rows : s[3] = rows[i].period
  <2>1. PICK key : key = s[3] OBVIOUS
  <2>2. PICK i \in DOMAIN fetched : Half(m, i, key) # {} BY <1>0, <2>1, SpentFacts
  <2>3. key \in Keys /\ Keys \in SUBSET (Int \X Int) /\ IsFiniteSet(Keys) BY <1>0, <2>2, KeysFacts
  <2>4. PICK k \in 1 .. Cardinality(Keys) : Nth(Keys, k) = key BY <2>3, NthFacts
  <2>5. k \in DOMAIN rows /\ rows[k].period = key BY <1>0, <2>4, RowFacts
  <2> QED BY <2>1, <2>5
<1> QED BY <1>1, <1>2

(* The days of a row are those of the intervals of the issues in its        *)
(* period, of each issue once: calculate_stats, adding the parts of         *)
(* split_interval_by_period up, loses, repeats and misplaces no time.       *)
THEOREM DaysAreExact == Spec => []DaysAddUp
BY PastInvariant, ChartedDaysAddUp, PTL

(* A total is of the issues whose entries are in the rows so far.           *)
LEMMA TotalFacts ==
  ASSUME Charted, NEW m \in Metrics, NEW i \in 1 .. Cardinality(Keys)
  PROVE  Total(Grouped(Keys), m, i) =
           Cardinality({j \in Counted(m) : \E k \in 1 .. i : Entry(m, j) = Nth(Keys, k)})
<1> DEFINE n == Cardinality(Keys)
           sizes == [k \in 1 .. i |-> Grouped(Keys)[k].count[m]]
           Set   == [k \in 1 .. i |-> {j \in Counted(m) : Entry(m, j) = Nth(Keys, k)}]
           All   == {j \in Counted(m) : \E k \in 1 .. i : Entry(m, j) = Nth(Keys, k)}
<1>1. /\ Keys \in SUBSET (Int \X Int) /\ IsFiniteSet(Keys) /\ n \in Nat
      /\ \A k \in 1 .. n : Nth(Keys, k) \in Keys
      /\ \A j, k \in 1 .. n : j < k => Before(Nth(Keys, j), Nth(Keys, k))
  BY KeysFacts, NthFacts
<1>2. i \in Nat /\ \A k \in 1 .. i : k \in 1 .. n BY <1>1
<1>3. Total(Grouped(Keys), m, i) = SumOf(sizes) BY DEF Total
<1>4. Len(sizes) = i BY <1>2
<1>5. IsFiniteSet(Counted(m))
  <2>1. Len(fetched) \in Nat /\ DOMAIN fetched = 1 .. Len(fetched) BY FetchedLength
  <2>2. Counted(m) \in SUBSET (1 .. Len(fetched)) BY <2>1 DEF Counted
  <2>3. IsFiniteSet(1 .. Len(fetched)) BY <2>1, FS_Interval
  <2> QED BY <2>2, <2>3, FS_Subset
<1>6. ASSUME NEW k \in 1 .. i PROVE IsFiniteSet(Set[k]) /\ sizes[k] = Cardinality(Set[k])
  <2>1. Set[k] \in SUBSET Counted(m) OBVIOUS
  <2>2. Grouped(Keys)[k] = PeriodStats(Nth(Keys, k)) BY <1>2 DEF Grouped
  <2>3. sizes[k] = Cardinality(Set[k]) BY <2>2 DEF PeriodStats
  <2> HIDE DEF Set, sizes
  <2> QED BY <1>5, <2>1, <2>3, FS_Subset
<1>7. \A j, k \in 1 .. i : j # k => Set[j] \cap Set[k] = {}
  <2> SUFFICES ASSUME NEW j \in 1 .. i, NEW k \in 1 .. i, j # k PROVE Nth(Keys, j) # Nth(Keys, k)
    OBVIOUS
  <2>1. j < k \/ k < j BY <1>2
  <2>2. Nth(Keys, j) \in Int \X Int /\ Nth(Keys, k) \in Int \X Int BY <1>1, <1>2
  <2>3. Before(Nth(Keys, j), Nth(Keys, k)) \/ Before(Nth(Keys, k), Nth(Keys, j)) BY <1>1, <1>2, <2>1
  <2> QED BY <2>2, <2>3, BeforeFacts
<1>8. \A x : x \in All <=> \E k \in 1 .. i : x \in Set[k] OBVIOUS
<1> HIDE DEF sizes, Set, All
<1>9. SumOf(sizes) = Cardinality(All) BY <1>2, <1>4, <1>6, <1>7, <1>8, SumOfSizes
<1> QED BY <1>3, <1>9 DEF All

LEMMA ChartedTotalsRun == StatsInv /\ PastInv => TotalsRun
<1> SUFFICES ASSUME StatsInv, PastInv, phase = "charts", NEW rows \in {Rows}, NEW i \in DOMAIN rows,
                    NEW metric \in {"open", "closed"}
             PROVE  LET entered == {j \in Counted(metric) :
                                      \E t \in Began(metric, j) .. Moments[Len(Moments)] :
                                         PeriodKey(t, asked.period) = rows[i].period}
                    IN  Cardinality(entered) = IF metric = "open" THEN rows[i].total_open
                                                                  ELSE rows[i].total_closed
  BY DEF TotalsRun
<1>0. Charted /\ rows = Rows /\ metric \in Metrics /\ i \in 1 .. Cardinality(Keys)
  BY RowFacts DEF Charted, Metrics
<1> DEFINE n == Cardinality(Keys)
           entered == {j \in Counted(metric) : \E t \in Began(metric, j) .. Moments[Len(Moments)] :
                         PeriodKey(t, asked.period) = rows[i].period}
           counted == {j \in Counted(metric) : \E k \in 1 .. i : Entry(metric, j) = Nth(Keys, k)}
<1>1. /\ Keys \in SUBSET (Int \X Int) /\ IsFiniteSet(Keys) /\ n \in Nat /\ i \in Nat
      /\ \A k \in 1 .. n : Nth(Keys, k) \in Keys
      /\ \A j, k \in 1 .. n : j < k => Before(Nth(Keys, j), Nth(Keys, k))
      /\ \A k \in Keys : \E j \in 1 .. n : Nth(Keys, j) = k
  BY <1>0, KeysFacts, NthFacts
<1>2. PICK key \in Keys : key = Nth(Keys, i) /\ key = rows[i].period BY <1>0, <1>1, RowFacts
<1>3. PICK last \in Moment : last <= LastMoment /\ PeriodKey(last, asked.period) = key BY <1>0, KeysFacts
<1>4. asked.period \in Kinds BY AskedAssumption DEF StatsInv, TypeOK, Kinds
<1>5. ASSUME NEW j \in Counted(metric)
      PROVE  (\E k \in 1 .. i : Entry(metric, j) = Nth(Keys, k))
               <=> Entry(metric, j) = key \/ Before(Entry(metric, j), key)
  <2>1. PICK e \in Keys : e = Entry(metric, j) BY <1>0, KeysFacts
  <2>2. PICK k \in 1 .. n : Nth(Keys, k) = e BY <1>1, <2>1
  <2>3. e \in Int \X Int /\ key \in Int \X Int BY <1>1, <1>2, <2>1
  <2>4. CASE k < i
    <3>0. k \in 1 .. i /\ i \in 1 .. n BY <1>0, <1>1, <2>4
    <3>1. Before(e, key) /\ k \in 1 .. i BY <1>1, <1>2, <2>2, <2>4, <3>0
    <3> QED BY <2>1, <2>2, <3>1
  <2>5. CASE k = i
    <3>1. i \in 1 .. i BY <1>0, <1>1
    <3> QED BY <1>2, <2>1, <2>2, <2>5, <3>1
  <2>6. CASE i < k
    <3>1. Before(key, e) BY <1>0, <1>1, <1>2, <2>2, <2>6
    <3>2. ~(e = key) /\ ~Before(e, key) BY <2>3, <3>1, BeforeFacts
    <3>3. ASSUME NEW l \in 1 .. i, e = Nth(Keys, l) PROVE FALSE
      <4>1. l \in 1 .. n /\ l < k BY <1>0, <1>1, <2>2, <2>6
      <4>2. Before(e, e) BY <1>1, <2>2, <3>3, <4>1
      <4> QED BY <2>3, <4>2, BeforeFacts
    <3> QED BY <2>1, <3>2, <3>3
  <2>7. k \in Int /\ i \in Int BY <1>1, <2>2
  <2> QED BY <2>4, <2>5, <2>6, <2>7
<1>6. ASSUME NEW j \in Counted(metric)
      PROVE  (\E t \in Began(metric, j) .. LastMoment : PeriodKey(t, asked.period) = key)
               <=> Entry(metric, j) = key \/ Before(Entry(metric, j), key)
  <2>1. PICK b \in Moment : b = Began(metric, j) BY <1>0, IntervalFacts
  <2>2. /\ b \in Nat /\ b <= LastMoment /\ LastMoment \in Nat /\ LastMoment \in Moment /\ last \in Nat
        /\ Entry(metric, j) = PeriodKey(b, asked.period)
    BY <1>0, <2>1, IntervalFacts, KeysFacts, MomentsType, MomentFacts
  <2>3. ASSUME NEW t \in b .. LastMoment, PeriodKey(t, asked.period) = key
        PROVE  PeriodKey(b, asked.period) = key \/ Before(PeriodKey(b, asked.period), key)
    <3>1. t \in Nat /\ t <= LastMoment /\ b <= t BY <2>2
    <3>2. t \in Moment BY <2>2, <3>1, MomentsBefore
    <3>3. b = t \/ b < t BY <2>2, <3>1
    <3> QED BY <1>4, <2>3, <3>2, <3>3, KeysInOrder
  <2>4. ASSUME PeriodKey(b, asked.period) = key
        PROVE  \E t \in b .. LastMoment : PeriodKey(t, asked.period) = key
    BY <2>2, <2>4
  <2>5. ASSUME Before(PeriodKey(b, asked.period), key)
        PROVE  \E t \in b .. LastMoment : PeriodKey(t, asked.period) = key
    <3>1. b < last BY <1>3, <1>4, <2>5, KeysInOrder
    <3>2. last \in b .. LastMoment BY <1>3, <2>2, <3>1
    <3> QED BY <1>3, <3>2
  <2> QED BY <2>1, <2>2, <2>3, <2>4, <2>5
<1>7. entered = counted
  <2>1. Moments[Len(Moments)] = LastMoment BY DEF LastMoment
  <2> QED BY <1>2, <1>5, <1>6, <2>1
<1>8. Total(Grouped(Keys), metric, i) = Cardinality(counted) BY <1>0, TotalFacts
<1>9. (IF metric = "open" THEN rows[i].total_open ELSE rows[i].total_closed) = Total(Grouped(Keys), metric, i)
  BY <1>0, RowFacts
<1> QED BY <1>7, <1>8, <1>9

(* The running totals of calculate_stats count the issues opened and closed *)
(* until the end of the period of the row: the rows, sorted by the text of  *)
(* their keys, are in the order of time.                                    *)
THEOREM TotalsAreRunning == Spec => []TotalsRun
BY PastInvariant, ChartedTotalsRun, PTL

=============================================================================
