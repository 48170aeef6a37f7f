---------------------------- MODULE PeriodsProofs ----------------------------
(* Theorems about Periods: that an interval is cut at the periods with      *)
(* nothing lost, repeated or misplaced.                                     *)
EXTENDS Periods, FiniteSetTheorems, WellFoundedInduction, TLAPS

-----------------------------------------------------------------------------
(* A set of natural numbers that is not empty has a least one.              *)
LEMMA LeastNat ==
  ASSUME NEW S \in SUBSET Nat, S # {} PROVE \E x \in S : \A y \in S : x <= y
<1> DEFINE Less == {pair \in Nat \X Nat : pair[1] < pair[2]}
<1>1. IsWellFoundedOn(Less, Nat) BY NatLessThanWellFounded DEF OpToRel
<1>2. PICK x \in S : \A y \in S : ~(<<y, x>> \in Less) BY <1>1, WFMin
<1>3. x \in Nat /\ \A y \in S : y \in Nat OBVIOUS
<1>4. \A y \in S : ~(x > y)
  <2> SUFFICES ASSUME NEW y \in S, y < x PROVE FALSE BY <1>3
  <2>1. <<y, x>> \in Less BY <1>3
  <2> QED BY <1>2, <2>1
<1> QED BY <1>3, <1>4

-----------------------------------------------------------------------------
(* The calendar.                                                            *)

Years == FirstYear .. LastYear
Dates == {day \in Nat : day < YearStart(LastYear + 1)}

LEMMA YearTable ==
  /\ YearStart(2018) = 0 /\ YearStart(2019) = 365 /\ YearStart(2020) = 730
  /\ YearStart(2021) = 1096 /\ YearStart(2022) = 1461 /\ YearStart(2023) = 1826
  /\ YearStart(2024) = 2191 /\ YearStart(2025) = 2557 /\ YearStart(2026) = 2922
  /\ YearStart(2027) = 3287 /\ YearStart(2028) = 3652 /\ YearStart(2029) = 4018
  /\ YearStart(2030) = 4383 /\ YearStart(2031) = 4748
BY DEF YearStart, LeapsBefore, FirstYear

LEMMA LeapTable == \A y \in Years : Leap(y) <=> y \in {2020, 2024, 2028}
BY DEF Leap, Years, FirstYear, LastYear

LEMMA YearCases ==
  ASSUME NEW y \in Years
  PROVE  \/ y = 2018 \/ y = 2019 \/ y = 2020 \/ y = 2021 \/ y = 2022 \/ y = 2023 \/ y = 2024
         \/ y = 2025 \/ y = 2026 \/ y = 2027 \/ y = 2028 \/ y = 2029 \/ y = 2030
BY DEF Years, FirstYear, LastYear

LEMMA YearLength ==
  ASSUME NEW y \in Years
  PROVE  /\ YearStart(y) \in Nat
         /\ YearStart(y + 1) = YearStart(y) + (IF Leap(y) THEN 366 ELSE 365)
<1>1. Leap(y) <=> y \in {2020, 2024, 2028} BY LeapTable
<1>2. CASE y = 2018 BY <1>1, <1>2, YearTable
<1>3. CASE y = 2019 BY <1>1, <1>3, YearTable
<1>4. CASE y = 2020 BY <1>1, <1>4, YearTable
<1>5. CASE y = 2021 BY <1>1, <1>5, YearTable
<1>6. CASE y = 2022 BY <1>1, <1>6, YearTable
<1>7. CASE y = 2023 BY <1>1, <1>7, YearTable
<1>8. CASE y = 2024 BY <1>1, <1>8, YearTable
<1>9. CASE y = 2025 BY <1>1, <1>9, YearTable
<1>10. CASE y = 2026 BY <1>1, <1>10, YearTable
<1>11. CASE y = 2027 BY <1>1, <1>11, YearTable
<1>12. CASE y = 2028 BY <1>1, <1>12, YearTable
<1>13. CASE y = 2029 BY <1>1, <1>13, YearTable
<1>14. CASE y = 2030 BY <1>1, <1>14, YearTable
<1> QED BY YearCases, <1>2, <1>3, <1>4, <1>5, <1>6, <1>7, <1>8, <1>9, <1>10, <1>11, <1>12, <1>13, <1>14

LEMMA YearOrder ==
  ASSUME NEW y \in Years, NEW z \in Years, y < z
  PROVE  YearStart(y + 1) <= YearStart(z)
<1>1. y \in Int /\ z \in Int BY DEF Years, FirstYear, LastYear
<1> QED BY <1>1, YearTable, YearCases

(* A day has one year.                                                      *)
LEMMA YearOfDay ==
  ASSUME NEW day \in Dates
  PROVE  /\ YearOf(day) \in Years
         /\ YearStart(YearOf(day)) <= day /\ day < YearStart(YearOf(day) + 1)
         /\ \A y \in Years : YearStart(y) <= day /\ day < YearStart(y + 1) => y = YearOf(day)
<1>0. day \in Nat /\ day < YearStart(2031) BY DEF Dates, LastYear
<1>1. \E y \in Years : YearStart(y) <= day /\ day < YearStart(y + 1)
  <2>1. {2018, 2019, 2020, 2021, 2022, 2023, 2024, 2025, 2026, 2027, 2028, 2029, 2030} \subseteq Years
    BY DEF Years, FirstYear, LastYear
  <2> DEFINE In(y) == YearStart(y) <= day /\ day < YearStart(y + 1)
  <2>2. \/ In(2018) \/ In(2019) \/ In(2020) \/ In(2021) \/ In(2022) \/ In(2023) \/ In(2024)
        \/ In(2025) \/ In(2026) \/ In(2027) \/ In(2028) \/ In(2029) \/ In(2030)
    BY <1>0, YearTable
  <2> QED BY <2>1, <2>2
<1>2. /\ YearOf(day) \in Years
      /\ YearStart(YearOf(day)) <= day /\ day < YearStart(YearOf(day) + 1)
  BY <1>1 DEF YearOf, Years
<1>3. ASSUME NEW y \in Years, YearStart(y) <= day, day < YearStart(y + 1) PROVE y = YearOf(day)
  <2>0. y \in Int /\ YearOf(day) \in Int BY <1>2 DEF Years, FirstYear, LastYear
  <2>1. /\ YearStart(y) \in Nat /\ YearStart(y + 1) \in Nat
        /\ YearStart(YearOf(day)) \in Nat /\ YearStart(YearOf(day) + 1) \in Nat
    BY <1>2, YearLength
  <2>2. ~(y < YearOf(day)) BY <1>0, <1>2, <1>3, <2>1, YearOrder
  <2>3. ~(YearOf(day) < y) BY <1>0, <1>2, <1>3, <2>1, YearOrder
  <2> QED BY <2>0, <2>2, <2>3
<1> QED BY <1>2, <1>3

LEMMA MonthTable ==
  ASSUME NEW y \in Years
  PROVE  LET leap == IF Leap(y) THEN 1 ELSE 0
         IN  /\ MonthStart(y, 1) = YearStart(y) /\ MonthStart(y, 2) = YearStart(y) + 31
             /\ MonthStart(y, 3) = YearStart(y) + 59 + leap /\ MonthStart(y, 4) = YearStart(y) + 90 + leap
             /\ MonthStart(y, 5) = YearStart(y) + 120 + leap /\ MonthStart(y, 6) = YearStart(y) + 151 + leap
             /\ MonthStart(y, 7) = YearStart(y) + 181 + leap /\ MonthStart(y, 8) = YearStart(y) + 212 + leap
             /\ MonthStart(y, 9) = YearStart(y) + 243 + leap /\ MonthStart(y, 10) = YearStart(y) + 273 + leap
             /\ MonthStart(y, 11) = YearStart(y) + 304 + leap /\ MonthStart(y, 12) = YearStart(y) + 334 + leap
<1>1. YearStart(y) \in Nat BY YearLength
<1> QED BY <1>1 DEF MonthStart, MonthOffsets

LEMMA MonthCases ==
  ASSUME NEW m \in 1 .. 12
  PROVE  m = 1 \/ m = 2 \/ m = 3 \/ m = 4 \/ m = 5 \/ m = 6 \/ m = 7 \/ m = 8 \/ m = 9 \/ m = 10 \/ m = 11 \/ m = 12
OBVIOUS

(* The end of a month of a year: the start of the next, or of the next year.*)
MonthEnd(y, m) == IF m = 12 THEN YearStart(y + 1) ELSE MonthStart(y, m + 1)

LEMMA MonthLength ==
  ASSUME NEW y \in Years, NEW m \in 1 .. 12
  PROVE  /\ MonthStart(y, m) \in Nat /\ MonthEnd(y, m) \in Nat
         /\ YearStart(y) <= MonthStart(y, m) /\ MonthStart(y, m) < MonthEnd(y, m)
         /\ MonthEnd(y, m) <= YearStart(y + 1)
         /\ \A k \in 1 .. 12 : m < k => MonthEnd(y, m) <= MonthStart(y, k)
<1>1. /\ YearStart(y) \in Nat /\ YearStart(y + 1) = YearStart(y) + (IF Leap(y) THEN 366 ELSE 365)
  BY YearLength
<1> DEFINE leap == IF Leap(y) THEN 1 ELSE 0
<1>2. leap \in {0, 1} /\ YearStart(y + 1) = YearStart(y) + 365 + leap BY <1>1
<1>3. /\ MonthStart(y, 1) = YearStart(y) /\ MonthStart(y, 2) = YearStart(y) + 31
      /\ MonthStart(y, 3) = YearStart(y) + 59 + leap /\ MonthStart(y, 4) = YearStart(y) + 90 + leap
      /\ MonthStart(y, 5) = YearStart(y) + 120 + leap /\ MonthStart(y, 6) = YearStart(y) + 151 + leap
      /\ MonthStart(y, 7) = YearStart(y) + 181 + leap /\ MonthStart(y, 8) = YearStart(y) + 212 + leap
      /\ MonthStart(y, 9) = YearStart(y) + 243 + leap /\ MonthStart(y, 10) = YearStart(y) + 273 + leap
      /\ MonthStart(y, 11) = YearStart(y) + 304 + leap /\ MonthStart(y, 12) = YearStart(y) + 334 + leap
  BY MonthTable
<1> HIDE DEF leap
<1>4. /\ MonthStart(y, m) \in Nat /\ MonthEnd(y, m) \in Nat
      /\ YearStart(y) <= MonthStart(y, m) /\ MonthStart(y, m) < MonthEnd(y, m)
      /\ MonthEnd(y, m) <= YearStart(y + 1)
  BY <1>1, <1>2, <1>3, MonthCases DEF MonthEnd
<1>5. ASSUME NEW k \in 1 .. 12, m < k PROVE MonthEnd(y, m) <= MonthStart(y, k)
  BY <1>1, <1>2, <1>3, <1>5, MonthCases DEF MonthEnd
<1> QED BY <1>4, <1>5

(* A day has one month of its year.                                         *)
LEMMA MonthOfDay ==
  ASSUME NEW day \in Dates
  PROVE  /\ MonthOf(day) \in 1 .. 12
         /\ MonthStart(YearOf(day), MonthOf(day)) <= day /\ day < MonthEnd(YearOf(day), MonthOf(day))
         /\ \A m \in 1 .. 12 : MonthStart(YearOf(day), m) <= day /\ day < MonthEnd(YearOf(day), m)
                                 => m = MonthOf(day)
<1>1. PICK y : y = YearOf(day) OBVIOUS
<1>2. /\ y \in Years /\ YearStart(y) <= day /\ day < YearStart(y + 1) /\ day \in Nat
  BY <1>1, YearOfDay DEF Dates
<1>3. \A m \in 1 .. 12 : /\ MonthStart(y, m) \in Nat /\ MonthEnd(y, m) \in Nat
                         /\ \A k \in 1 .. 12 : m < k => MonthEnd(y, m) <= MonthStart(y, k)
  BY <1>2, MonthLength
<1> DEFINE In(m) == MonthStart(y, m) <= day /\ (m = 12 \/ day < MonthStart(y, m + 1))
<1>4. \A m \in 1 .. 12 : In(m) <=> MonthStart(y, m) <= day /\ day < MonthEnd(y, m)
  BY <1>2 DEF MonthEnd
<1>5. \E m \in 1 .. 12 : In(m)
  <2>0. YearStart(y) \in Nat /\ MonthStart(y, 1) = YearStart(y) BY <1>2, YearLength, MonthTable
  <2>1. \/ In(1) \/ In(2) \/ In(3) \/ In(4) \/ In(5) \/ In(6) \/ In(7) \/ In(8) \/ In(9) \/ In(10) \/ In(11) \/ In(12)
    <3>1. \A m \in 1 .. 12 : MonthStart(y, m) \in Nat BY <1>3
    <3>2. /\ MonthStart(y, 2) \in Nat /\ MonthStart(y, 3) \in Nat /\ MonthStart(y, 4) \in Nat
          /\ MonthStart(y, 5) \in Nat /\ MonthStart(y, 6) \in Nat /\ MonthStart(y, 7) \in Nat
          /\ MonthStart(y, 8) \in Nat /\ MonthStart(y, 9) \in Nat /\ MonthStart(y, 10) \in Nat
          /\ MonthStart(y, 11) \in Nat /\ MonthStart(y, 12) \in Nat
      BY <3>1
    <3> QED BY <1>2, <2>0, <3>2
  <2>2. /\ 1 \in 1 .. 12 /\ 2 \in 1 .. 12 /\ 3 \in 1 .. 12 /\ 4 \in 1 .. 12 /\ 5 \in 1 .. 12 /\ 6 \in 1 .. 12
        /\ 7 \in 1 .. 12 /\ 8 \in 1 .. 12 /\ 9 \in 1 .. 12 /\ 10 \in 1 .. 12 /\ 11 \in 1 .. 12 /\ 12 \in 1 .. 12
    OBVIOUS
  <2> HIDE DEF In
  <2> QED BY <2>1, <2>2
<1>6. MonthOf(day) = CHOOSE m \in 1 .. 12 : In(m) BY <1>1 DEF MonthOf
<1> HIDE DEF In
<1>7. MonthOf(day) \in 1 .. 12 /\ In(MonthOf(day)) BY <1>5, <1>6
<1>8. ASSUME NEW m \in 1 .. 12, In(m) PROVE m = MonthOf(day)
  <2>1. PICK k \in 1 .. 12 : k = MonthOf(day) BY <1>7
  <2>2. ~(m < k) BY <1>2, <1>3, <1>4, <1>7, <1>8, <2>1
  <2>3. ~(k < m) BY <1>2, <1>3, <1>4, <1>7, <1>8, <2>1
  <2> QED BY <2>1, <2>2, <2>3
<1> QED BY <1>1, <1>4, <1>7, <1>8

-----------------------------------------------------------------------------
(* The periods.                                                             *)

(* The times the modules use, in half days, and the end of a period.        *)
Moment == {time \in Nat : Day(time) < YearStart(LastYear)}
Kinds  == {"week", "month"}

LEMMA MomentFacts ==
  ASSUME NEW time \in Moment
  PROVE  /\ time \in Nat /\ Day(time) \in Nat
         /\ 2 * Day(time) <= time /\ time < 2 * Day(time) + 2
         /\ Day(time) \in Dates /\ Thursday(Day(time)) \in Dates
         /\ Weekday(Day(time)) \in 0 .. 6
<1>1. YearStart(2030) = 4383 /\ YearStart(2031) = 4748 BY YearTable
<1>2. time \in Nat /\ Day(time) < 4383 BY <1>1 DEF Moment, LastYear
<1>3. Day(time) \in Nat /\ 2 * Day(time) <= time /\ time < 2 * Day(time) + 2 BY <1>2 DEF Day
<1>4. Weekday(Day(time)) \in 0 .. 6 BY <1>3 DEF Weekday
<1>5. Weekday(Day(time)) <= Day(time) BY <1>3 DEF Weekday
<1>6. Thursday(Day(time)) \in Nat /\ Thursday(Day(time)) < 4748 BY <1>2, <1>3, <1>4, <1>5 DEF Thursday
<1> QED BY <1>1, <1>2, <1>3, <1>4, <1>6 DEF Dates, LastYear

(* Two times have one key if they have one floor, and only then.            *)
LEMMA WeekFacts ==
  ASSUME NEW time \in Moment
  PROVE  /\ PeriodFloor(time, "week") \in Nat /\ PeriodFloor(time, "week") <= time
         /\ time < PeriodFloor(time, "week") + 14
         /\ PeriodFloor(time, "week") = 2 * (Thursday(Day(time)) - 3)
         /\ \E w \in Nat : PeriodFloor(time, "week") = 14 * w
<1>1. /\ time \in Nat /\ Day(time) \in Nat /\ 2 * Day(time) <= time /\ time < 2 * Day(time) + 2
      /\ Weekday(Day(time)) \in 0 .. 6
  BY MomentFacts
<1>2. PICK day \in Nat : day = Day(time) BY <1>1
<1>3. Weekday(day) = day - 7 * (day \div 7) /\ day \div 7 \in Nat
  <2>1. day \div 7 \in Nat OBVIOUS
  <2>2. day % 7 = day - 7 * (day \div 7) OBVIOUS
  <2> QED BY <2>1, <2>2 DEF Weekday
<1>4. PeriodFloor(time, "week") = 2 * (day - Weekday(day)) BY <1>2 DEF PeriodFloor
<1>5. PeriodFloor(time, "week") = 14 * (day \div 7) BY <1>3, <1>4
<1>6. PeriodFloor(time, "week") = 2 * (Thursday(day) - 3) BY <1>1, <1>2, <1>4 DEF Thursday
<1>7. PICK w \in Nat : w = day \div 7 BY <1>3
<1>8. PeriodFloor(time, "week") = 14 * w BY <1>5, <1>7
<1>9. 7 * w = day - Weekday(day) /\ Weekday(day) \in 0 .. 6 BY <1>1, <1>2, <1>3, <1>7
<1>10. PeriodFloor(time, "week") \in Nat /\ PeriodFloor(time, "week") <= time
  BY <1>1, <1>2, <1>8, <1>9
<1>11. time < PeriodFloor(time, "week") + 14 BY <1>1, <1>2, <1>8, <1>9
<1> QED BY <1>2, <1>6, <1>8, <1>10, <1>11

LEMMA SameWeek ==
  ASSUME NEW s \in Moment, NEW t \in Moment
  PROVE  PeriodKey(s, "week") = PeriodKey(t, "week") <=> PeriodFloor(s, "week") = PeriodFloor(t, "week")
<1> DEFINE ThS == Thursday(Day(s))
           ThT == Thursday(Day(t))
<1>1. ThS \in Dates /\ ThT \in Dates /\ ThS \in Nat /\ ThT \in Nat BY MomentFacts DEF Dates
<1>2. PICK v \in Nat : PeriodFloor(s, "week") = 14 * v BY WeekFacts
<1>3. PICK w \in Nat : PeriodFloor(t, "week") = 14 * w BY WeekFacts
<1>4. PeriodFloor(s, "week") = 2 * (ThS - 3) /\ PeriodFloor(t, "week") = 2 * (ThT - 3) BY WeekFacts
<1>5. ThS = 7 * v + 3 /\ ThT = 7 * w + 3 BY <1>1, <1>2, <1>3, <1>4
<1>6. /\ PeriodKey(s, "week") = <<YearOf(ThS), (ThS - YearStart(YearOf(ThS))) \div 7 + 1>>
      /\ PeriodKey(t, "week") = <<YearOf(ThT), (ThT - YearStart(YearOf(ThT))) \div 7 + 1>>
  BY DEF PeriodKey, IsoYear, IsoWeek
<1>7. YearOf(ThS) \in Years /\ YearOf(ThT) \in Years BY <1>1, YearOfDay
<1>8. YearStart(YearOf(ThS)) \in Nat /\ YearStart(YearOf(ThT)) \in Nat BY <1>7, YearLength
<1>9. PICK a, b, x, y : a = ThS /\ b = ThT /\ x = YearOf(ThS) /\ y = YearOf(ThT) OBVIOUS
<1> HIDE DEF ThS, ThT
<1>10. ASSUME PeriodKey(s, "week") = PeriodKey(t, "week") PROVE v = w
  <2>1. x = y /\ (a - YearStart(x)) \div 7 + 1 = (b - YearStart(y)) \div 7 + 1 BY <1>6, <1>9, <1>10
  <2>2. PICK n \in Nat : n = YearStart(x) BY <1>8, <1>9
  <2>3. (7 * v + 3 - n) \div 7 = (7 * w + 3 - n) \div 7
    <3>1. (a - n) \div 7 \in Int /\ (b - n) \div 7 \in Int BY <1>1, <1>9
    <3> QED BY <1>5, <1>9, <2>1, <2>2, <3>1
  <2> QED BY <2>3
<1>11. ASSUME v = w PROVE PeriodKey(s, "week") = PeriodKey(t, "week") BY <1>5, <1>6, <1>11
<1> QED BY <1>2, <1>3, <1>10, <1>11

(* A week: the times of one key are those from its start to the next one.   *)
LEMMA WeekPeriod ==
  ASSUME NEW time \in Moment
  PROVE  LET floor == PeriodFloor(time, "week")
             next  == NextPeriodStart(floor, "week")
         IN  /\ floor \in Moment /\ next \in Nat /\ floor <= time /\ time < next
             /\ \A s \in Moment : PeriodKey(s, "week") = PeriodKey(time, "week")
                                    <=> floor <= s /\ s < next
<1>1. PICK w \in Nat : PeriodFloor(time, "week") = 14 * w BY WeekFacts
<1>2. time \in Nat /\ 14 * w <= time /\ time < 14 * w + 14 BY <1>1, WeekFacts, MomentFacts
<1>3. NextPeriodStart(14 * w, "week") = 14 * w + 14 BY DEF NextPeriodStart
<1>4. 14 * w \in Moment
  <2>1. Day(time) < YearStart(LastYear) /\ Day(time) \in Nat BY MomentFacts DEF Moment
  <2>2. Day(14 * w) <= Day(time) /\ Day(14 * w) \in Nat BY <1>2 DEF Day
  <2>3. YearStart(LastYear) \in Nat BY YearTable DEF LastYear
  <2> QED BY <2>1, <2>2, <2>3 DEF Moment
<1>5. ASSUME NEW s \in Moment
      PROVE  PeriodKey(s, "week") = PeriodKey(time, "week") <=> 14 * w <= s /\ s < 14 * w + 14
  <2>1. PICK v \in Nat : PeriodFloor(s, "week") = 14 * v BY WeekFacts
  <2>2. s \in Nat /\ 14 * v <= s /\ s < 14 * v + 14 BY <2>1, WeekFacts, MomentFacts
  <2>3. PeriodKey(s, "week") = PeriodKey(time, "week") <=> 14 * v = 14 * w
    BY <1>1, <2>1, SameWeek
  <2> QED BY <2>2, <2>3
<1> QED BY <1>1, <1>2, <1>3, <1>4, <1>5

(* The same of a month.                                                     *)
LEMMA MonthPeriod ==
  ASSUME NEW time \in Moment
  PROVE  LET floor == PeriodFloor(time, "month")
             next  == NextPeriodStart(floor, "month")
         IN  /\ floor \in Moment /\ next \in Nat /\ floor <= time /\ time < next
             /\ \A s \in Moment : PeriodKey(s, "month") = PeriodKey(time, "month")
                                    <=> floor <= s /\ s < next
<1>1. PICK day \in Dates : day = Day(time) BY MomentFacts
<1>2. PICK y \in Years : y = YearOf(day) BY YearOfDay
<1>3. PICK m \in 1 .. 12 : m = MonthOf(day) BY MonthOfDay
<1>4. /\ day \in Nat /\ MonthStart(y, m) <= day /\ day < MonthEnd(y, m)
      /\ YearStart(y) <= day /\ day < YearStart(y + 1)
  BY <1>2, <1>3, MonthOfDay, YearOfDay DEF Dates
<1>5. PICK a \in Nat : a = MonthStart(y, m) BY MonthLength
<1>6. PICK b \in Nat : b = MonthEnd(y, m) BY MonthLength
<1>7. PICK c \in Nat, d \in Nat : c = YearStart(y) /\ d = YearStart(y + 1)
  <2>1. YearStart(y) \in Nat /\ YearStart(y + 1) \in Nat BY YearLength
  <2> QED BY <2>1
<1>8. c <= a /\ a < b /\ b <= d /\ a <= day /\ day < b
  BY <1>4, <1>5, <1>6, <1>7, MonthLength
<1>9. time \in Nat /\ 2 * day <= time /\ time < 2 * day + 2 BY <1>1, MomentFacts
<1>10. PeriodFloor(time, "month") = 2 * a BY <1>1, <1>2, <1>3, <1>5 DEF PeriodFloor
<1>11. Day(2 * a) = a BY DEF Day
<1>12. 2 * a \in Moment
  <2>1. day < YearStart(LastYear) BY <1>1 DEF Moment
  <2>2. YearStart(LastYear) \in Nat BY YearTable DEF LastYear
  <2> QED BY <1>4, <1>8, <1>11, <2>1, <2>2 DEF Moment
<1>13. a \in Dates BY <1>11, <1>12, MomentFacts
<1>14. ASSUME NEW s \in Moment
       PROVE  PeriodKey(s, "month") = <<y, m>> <=> 2 * a <= s /\ s < 2 * b
  <2>1. PICK e \in Dates : e = Day(s) BY MomentFacts
  <2>2. s \in Nat /\ e \in Nat /\ 2 * e <= s /\ s < 2 * e + 2 BY <2>1, MomentFacts DEF Dates
  <2>3. PeriodKey(s, "month") = <<YearOf(e), MonthOf(e)>> BY <2>1 DEF PeriodKey
  <2>4. a <= e /\ e < b <=> 2 * a <= s /\ s < 2 * b BY <2>2
  <2>5. ASSUME a <= e, e < b PROVE YearOf(e) = y /\ MonthOf(e) = m
    <3>1. y = YearOf(e) BY <1>7, <1>8, <2>2, <2>5, YearOfDay
    <3> QED BY <1>5, <1>6, <2>5, <3>1, MonthOfDay
  <2>6. ASSUME YearOf(e) = y, MonthOf(e) = m PROVE a <= e /\ e < b
    BY <1>5, <1>6, <2>6, MonthOfDay
  <2> QED BY <2>3, <2>4, <2>5, <2>6
<1>15. PeriodKey(time, "month") = <<y, m>> BY <1>1, <1>2, <1>3 DEF PeriodKey
<1>16. NextPeriodStart(2 * a, "month") = 2 * b
  <2>1. YearOf(a) = y BY <1>7, <1>8, <1>13, YearOfDay
  <2>2. MonthOf(a) = m BY <1>5, <1>6, <1>8, <1>13, <2>1, MonthOfDay
  <2>3. NextPeriodStart(2 * a, "month") = 2 * (IF m = 12 THEN MonthStart(y + 1, 1) ELSE MonthStart(y, m + 1))
    BY <1>11, <2>1, <2>2 DEF NextPeriodStart
  <2>4. MonthStart(y + 1, 1) = YearStart(y + 1) BY <1>7 DEF MonthStart, MonthOffsets
  <2> QED BY <1>6, <2>3, <2>4 DEF MonthEnd
<1>17. 2 * a <= time /\ time < 2 * b /\ 2 * b \in Nat BY <1>4, <1>8, <1>9
<1> QED BY <1>10, <1>12, <1>14, <1>15, <1>16, <1>17

(* A period starts at or before the time it is of and ends after it, and    *)
(* the times of its key are the times between.                              *)
LEMMA PeriodFacts ==
  ASSUME NEW period \in Kinds, NEW time \in Moment
  PROVE  LET floor == PeriodFloor(time, period)
             next  == NextPeriodStart(floor, period)
         IN  /\ floor \in Moment /\ next \in Nat /\ floor <= time /\ time < next
             /\ PeriodKey(floor, period) = PeriodKey(time, period)
             /\ \A s \in Moment : PeriodKey(s, period) = PeriodKey(time, period)
                                    <=> floor <= s /\ s < next
<1>1. LET floor == PeriodFloor(time, period)
          next  == NextPeriodStart(floor, period)
      IN  /\ floor \in Moment /\ next \in Nat /\ floor <= time /\ time < next
          /\ \A s \in Moment : PeriodKey(s, period) = PeriodKey(time, period)
                                 <=> floor <= s /\ s < next
  BY WeekPeriod, MonthPeriod DEF Kinds
<1>2. time \in Nat /\ PeriodFloor(time, period) \in Nat BY <1>1, MomentFacts
<1>3. PeriodFloor(time, period) < NextPeriodStart(PeriodFloor(time, period), period) BY <1>1, <1>2
<1> QED BY <1>1, <1>2, <1>3

-----------------------------------------------------------------------------
(* split_interval_by_period.                                                *)

(* Where the part of a time ends, and the part.                             *)
Stop(current, end, period) ==
  LET next == NextPeriodStart(PeriodFloor(current, period), period)
  IN  IF end < next THEN end ELSE next
Part(current, end, period) ==
  [key  |-> PeriodKey(PeriodFloor(current, period), period),
   days |-> Stop(current, end, period) - current]

(* The body of the loop, for the parts of the later times in a function.    *)
Rest(parts, current, end, period) ==
  IF current >= end THEN <<>>
  ELSE <<Part(current, end, period)>> \o parts[Stop(current, end, period)]

(* A part is of one period, that of the first of its times, and ends in the *)
(* interval.                                                                *)
LEMMA PartFacts ==
  ASSUME NEW period \in Kinds, NEW end \in Nat, NEW current \in Moment, current < end
  PROVE  LET stop == Stop(current, end, period)
         IN  /\ stop \in Nat /\ current < stop /\ stop <= end
             /\ Part(current, end, period) = [key  |-> PeriodKey(current, period), days |-> stop - current]
             /\ \A t \in Moment : current <= t /\ t < end =>
                  (PeriodKey(t, period) = PeriodKey(current, period) <=> t < stop)
<1> DEFINE floor == PeriodFloor(current, period)
           next  == NextPeriodStart(floor, period)
<1>1. /\ floor \in Moment /\ next \in Nat /\ floor <= current /\ current < next
      /\ PeriodKey(floor, period) = PeriodKey(current, period)
      /\ \A s \in Moment : PeriodKey(s, period) = PeriodKey(current, period) <=> floor <= s /\ s < next
  BY PeriodFacts
<1>2. Stop(current, end, period) = (IF end < next THEN end ELSE next) BY DEF Stop
<1>3. current \in Nat /\ floor \in Nat BY <1>1, MomentFacts
<1>4. Part(current, end, period) =
        [key |-> PeriodKey(current, period), days |-> Stop(current, end, period) - current]
  BY <1>1 DEF Part
<1> HIDE DEF floor, next
<1>5. ASSUME NEW t \in Moment, current <= t, t < end
      PROVE  PeriodKey(t, period) = PeriodKey(current, period) <=> t < Stop(current, end, period)
  <2>1. t \in Nat BY MomentFacts
  <2> QED BY <1>1, <1>2, <1>3, <1>5, <2>1
<1> QED BY <1>1, <1>2, <1>3, <1>4, <1>5

(* An earlier time is in the range of a time that is.                       *)
LEMMA MomentsBefore ==
  ASSUME NEW time \in Moment, NEW s \in Nat, s <= time PROVE s \in Moment
<1>1. Day(time) < YearStart(LastYear) /\ Day(time) \in Nat /\ time \in Nat BY MomentFacts DEF Moment
<1>2. Day(s) <= Day(time) /\ Day(s) \in Nat BY <1>1 DEF Day
<1>3. YearStart(LastYear) \in Nat BY YearTable DEF LastYear
<1> QED BY <1>1, <1>2, <1>3 DEF Moment

(* The recursion of SplitInterval has a solution.                           *)
LEMMA SplitDefined ==
  ASSUME NEW period \in Kinds, NEW end \in Moment, NEW start \in Moment, start < end
  PROVE  \E parts : parts = [current \in start .. end |-> Rest(parts, current, end, period)]
<1>0. start \in Nat /\ end \in Nat BY MomentFacts
<1> DEFINE Solved(n) ==
      \E parts : parts = [current \in n .. end |-> Rest(parts, current, end, period)]
<1> DEFINE Bad == {n \in Nat : n <= end - start /\ ~Solved(end - n)}
<1>1. SUFFICES ASSUME Bad # {} PROVE FALSE
  <2>1. end - start \in Nat /\ end - (end - start) = start BY <1>0
  <2>2. Solved(end - (end - start)) BY <1>1, <2>1
  <2> QED BY <2>1, <2>2
<1>2. PICK n \in Bad : \A k \in Bad : n <= k BY <1>1, LeastNat
<1>3. n # 0
  <2> SUFFICES ASSUME n = 0 PROVE FALSE OBVIOUS
  <2> DEFINE parts == [current \in end .. end |-> <<>>]
  <2>1. \A current \in end .. end : Rest(parts, current, end, period) = <<>> BY <1>0 DEF Rest
  <2>2. parts = [current \in end .. end |-> Rest(parts, current, end, period)] BY <2>1
  <2>3. Solved(end) BY <2>2
  <2> QED BY <1>0, <1>2, <2>3
<1>4. PICK at \in Nat : at = end - n /\ start <= at /\ at < end
  <2>1. n \in Nat /\ n <= end - start BY <1>2
  <2> QED BY <1>0, <1>3, <2>1
<1>5. Solved(at + 1)
  <2>1. n - 1 \in Nat /\ n - 1 <= end - start /\ end - (n - 1) = at + 1 BY <1>0, <1>2, <1>3, <1>4
  <2>2. n - 1 \notin Bad BY <1>2, <2>1
  <2> QED BY <2>1, <2>2
<1>6. PICK later : later = [current \in (at + 1) .. end |-> Rest(later, current, end, period)]
  BY <1>5
<1> DEFINE parts == [current \in at .. end |->
              IF current = at THEN Rest(later, at, end, period) ELSE later[current]]
<1>7. ASSUME NEW current \in at .. end PROVE parts[current] = Rest(parts, current, end, period)
  <2>1. current \in Nat BY <1>4
  <2>2. CASE current >= end
    <3>1. current = end /\ current # at /\ current \in (at + 1) .. end BY <1>0, <1>4, <2>1, <2>2
    <3>2. later[current] = Rest(later, current, end, period) BY <1>6, <3>1
    <3> QED BY <2>2, <3>1, <3>2 DEF Rest
  <2>3. CASE ~(current >= end)
    <3>1. current \in Moment BY <1>0, <2>1, MomentsBefore
    <3>2. PICK stop \in Nat : /\ stop = Stop(current, end, period)
                              /\ current < stop /\ stop <= end
      BY <1>0, <2>1, <2>3, <3>1, PartFacts
    <3>3. stop \in at .. end /\ stop # at /\ stop \in (at + 1) .. end BY <1>0, <1>4, <2>1, <3>2
    <3>4. parts[stop] = later[stop] BY <3>3
    <3>5. Rest(parts, current, end, period) = Rest(later, current, end, period)
      BY <3>2, <3>4 DEF Rest
    <3>6. CASE current = at BY <3>5, <3>6
    <3>7. CASE current # at
      <4>1. current \in (at + 1) .. end BY <1>0, <1>4, <2>1, <3>7
      <4>2. later[current] = Rest(later, current, end, period) BY <1>6, <4>1
      <4> QED BY <3>5, <3>7, <4>2
    <3> QED BY <3>6, <3>7
  <2> QED BY <2>2, <2>3
<1>8. parts = [current \in at .. end |-> Rest(parts, current, end, period)]
  <2> HIDE DEF parts
  <2>1. parts = [current \in at .. end |-> parts[current]] BY DEF parts
  <2> QED BY <1>7, <2>1
<1>9. Solved(at)
  <2> HIDE DEF parts
  <2> QED BY <1>8
<1> QED BY <1>2, <1>4, <1>9

-----------------------------------------------------------------------------
(* The order of the keys.                                                   *)

LEMMA YearsInOrder ==
  ASSUME NEW d \in Dates, NEW e \in Dates, d <= e PROVE YearOf(d) <= YearOf(e)
<1>1. PICK y \in Years, z \in Years : y = YearOf(d) /\ z = YearOf(e) BY YearOfDay
<1>2. y \in Int /\ z \in Int /\ d \in Nat /\ e \in Nat BY DEF Years, Dates, FirstYear, LastYear
<1>3. YearStart(y) \in Nat /\ YearStart(z + 1) \in Nat
  <2>1. YearStart(z) \in Nat /\ YearStart(z + 1) = YearStart(z) + (IF Leap(z) THEN 366 ELSE 365)
    BY YearLength
  <2> QED BY <2>1, YearLength
<1>4. YearStart(y) <= d /\ e < YearStart(z + 1) BY <1>1, YearOfDay
<1>5. ~(z < y)
  <2> SUFFICES ASSUME z < y PROVE FALSE OBVIOUS
  <2>1. YearStart(z + 1) <= YearStart(y) BY YearOrder
  <2> QED BY <1>2, <1>3, <1>4, <2>1
<1> QED BY <1>1, <1>2, <1>5

LEMMA WeeksInOrder ==
  ASSUME NEW s \in Moment, NEW t \in Moment, s <= t
  PROVE  \/ PeriodKey(s, "week") = PeriodKey(t, "week")
         \/ Before(PeriodKey(s, "week"), PeriodKey(t, "week"))
<1>1. PICK a \in Dates, b \in Dates : a = Thursday(Day(s)) /\ b = Thursday(Day(t)) BY MomentFacts
<1>2. PICK v \in Nat, w \in Nat : PeriodFloor(s, "week") = 14 * v /\ PeriodFloor(t, "week") = 14 * w
  <2>1. PICK v \in Nat : PeriodFloor(s, "week") = 14 * v BY WeekFacts
  <2>2. PICK w \in Nat : PeriodFloor(t, "week") = 14 * w BY WeekFacts
  <2> QED BY <2>1, <2>2
<1>3. 14 * v = 2 * (a - 3) /\ 14 * w = 2 * (b - 3) BY <1>1, <1>2, WeekFacts
<1>4. v <= w
  <2>1. 14 * v <= s /\ t < 14 * w + 14 BY <1>2, WeekFacts
  <2>2. s \in Nat /\ t \in Nat BY MomentFacts
  <2> QED BY <2>1, <2>2
<1>5. a \in Nat /\ b \in Nat BY DEF Dates
<1>6. a <= b BY <1>3, <1>4, <1>5
<1>7. PICK y \in Years, z \in Years : y = YearOf(a) /\ z = YearOf(b) BY YearOfDay
<1>8. y <= z /\ y \in Int /\ z \in Int BY <1>6, <1>7, YearsInOrder DEF Years, FirstYear, LastYear
<1>9. PICK n \in Nat : n = YearStart(y) BY YearLength
<1>10. /\ PeriodKey(s, "week") = <<y, (a - YearStart(y)) \div 7 + 1>>
       /\ PeriodKey(t, "week") = <<z, (b - YearStart(z)) \div 7 + 1>>
  BY <1>1, <1>7 DEF PeriodKey, IsoYear, IsoWeek
<1>11. CASE y < z BY <1>10, <1>11 DEF Before
<1>12. CASE y = z
  <2>1. PICK i \in Int, j \in Int : i = (a - n) \div 7 + 1 /\ j = (b - n) \div 7 + 1 BY <1>5
  <2>2. (a - n) \div 7 <= (b - n) \div 7 BY <1>5, <1>6
  <2>3. i <= j BY <1>5, <2>1, <2>2
  <2>4. PeriodKey(s, "week") = <<y, i>> /\ PeriodKey(t, "week") = <<y, j>>
    BY <1>9, <1>10, <1>12, <2>1
  <2> QED BY <2>3, <2>4 DEF Before
<1> QED BY <1>8, <1>11, <1>12

LEMMA MonthsInOrder ==
  ASSUME NEW s \in Moment, NEW t \in Moment, s <= t
  PROVE  \/ PeriodKey(s, "month") = PeriodKey(t, "month")
         \/ Before(PeriodKey(s, "month"), PeriodKey(t, "month"))
<1>1. PICK d \in Dates, e \in Dates : d = Day(s) /\ e = Day(t) BY MomentFacts
<1>2. d <= e
  <2>1. s \in Nat /\ t \in Nat BY MomentFacts
  <2> QED BY <1>1, <2>1 DEF Day
<1>3. PICK y \in Years, z \in Years : y = YearOf(d) /\ z = YearOf(e) BY YearOfDay
<1>4. PICK k \in 1 .. 12, m \in 1 .. 12 : k = MonthOf(d) /\ m = MonthOf(e) BY MonthOfDay
<1>5. y <= z /\ y \in Int /\ z \in Int BY <1>2, <1>3, YearsInOrder DEF Years, FirstYear, LastYear
<1>6. PeriodKey(s, "month") = <<y, k>> /\ PeriodKey(t, "month") = <<z, m>>
  BY <1>1, <1>3, <1>4 DEF PeriodKey
<1>7. CASE y < z BY <1>6, <1>7 DEF Before
<1>8. CASE y = z
  <2>1. MonthStart(y, k) <= d /\ e < MonthEnd(y, m) BY <1>3, <1>4, <1>8, MonthOfDay
  <2>2. MonthStart(y, k) \in Nat /\ MonthEnd(y, m) \in Nat /\ d \in Nat /\ e \in Nat
    BY MonthLength DEF Dates
  <2>3. ~(m < k)
    <3> SUFFICES ASSUME m < k PROVE FALSE OBVIOUS
    <3>1. MonthEnd(y, m) <= MonthStart(y, k) BY MonthLength
    <3> QED BY <1>2, <2>1, <2>2, <3>1
  <2> QED BY <1>6, <1>8, <2>3 DEF Before
<1> QED BY <1>5, <1>7, <1>8

(* Keys are pairs of numbers.                                               *)
LEMMA KeyType ==
  ASSUME NEW period \in Kinds, NEW time \in Moment PROVE PeriodKey(time, period) \in Int \X Int
<1>1. PICK d \in Dates, e \in Dates : d = Day(time) /\ e = Thursday(Day(time)) BY MomentFacts
<1>2. YearOf(d) \in Years /\ YearOf(e) \in Years /\ MonthOf(d) \in 1 .. 12
  BY YearOfDay, MonthOfDay
<1>3. YearOf(d) \in Int /\ YearOf(e) \in Int /\ YearStart(YearOf(e)) \in Nat /\ e \in Nat
  BY <1>2, YearLength DEF Years, Dates, FirstYear, LastYear
<1>4. CASE period = "week"
  <2>1. PICK n \in Nat : n = YearStart(YearOf(e)) BY <1>3
  <2>2. (e - n) \div 7 + 1 \in Int BY <1>3
  <2>3. PeriodKey(time, period) = <<YearOf(e), (e - n) \div 7 + 1>>
    BY <1>1, <1>4, <2>1 DEF PeriodKey, IsoYear, IsoWeek
  <2> QED BY <1>3, <2>2, <2>3
<1>5. CASE period = "month"
  <2>1. PeriodKey(time, period) = <<YearOf(d), MonthOf(d)>> BY <1>1, <1>5 DEF PeriodKey
  <2> QED BY <1>2, <1>3, <2>1
<1> QED BY <1>4, <1>5 DEF Kinds

(* The keys of two times have the order of the times, as the rows of the    *)
(* report, sorted by key, need.                                             *)
THEOREM KeysInOrder ==
  ASSUME NEW period \in Kinds, NEW s \in Moment, NEW t \in Moment
  PROVE  Before(PeriodKey(s, period), PeriodKey(t, period))
           <=> s < t /\ PeriodKey(s, period) # PeriodKey(t, period)
<1>1. s \in Nat /\ t \in Nat BY MomentFacts
<1>2. \A u \in Moment, v \in Moment : u <= v => \/ PeriodKey(u, period) = PeriodKey(v, period)
                                                \/ Before(PeriodKey(u, period), PeriodKey(v, period))
  BY WeeksInOrder, MonthsInOrder DEF Kinds
<1>3. PICK j \in Int \X Int, k \in Int \X Int : j = PeriodKey(s, period) /\ k = PeriodKey(t, period)
  BY KeyType
<1>4. ~Before(j, j) /\ ~(Before(j, k) /\ Before(k, j)) BY DEF Before
<1> QED BY <1>1, <1>2, <1>3, <1>4

-----------------------------------------------------------------------------
(* What the parts of an interval say.                                       *)

PartSet == [key : Int \X Int, days : Nat]

TimesOf(key, start, end, period) == {t \in start .. (end - 1) : PeriodKey(t, period) = key}

(* Every time of the interval has a part of its period; a part counts the   *)
(* times of its period, and has one; and the parts are in order.            *)
Exact(parts, start, end, period) ==
  /\ parts \in Seq(PartSet)
  /\ \A t \in start .. (end - 1) : \E i \in 1 .. Len(parts) : parts[i].key = PeriodKey(t, period)
  /\ \A i \in 1 .. Len(parts) :
       /\ TimesOf(parts[i].key, start, end, period) # {}
       /\ parts[i].days = Cardinality(TimesOf(parts[i].key, start, end, period))
  /\ \A i, j \in 1 .. Len(parts) : i < j => Before(parts[i].key, parts[j].key)

(* One pass of the loop: the part of the first time, and the parts of the   *)
(* times from its end.                                                      *)
LEMMA PartThenRest ==
  ASSUME NEW period \in Kinds, NEW end \in Moment, NEW start \in Moment, start < end, NEW tail,
         Exact(tail, Stop(start, end, period), end, period)
  PROVE  Exact(<<Part(start, end, period)>> \o tail, start, end, period)
<1>0. start \in Nat /\ end \in Nat BY MomentFacts
<1>1. PICK stop \in Nat :
        /\ stop = Stop(start, end, period) /\ start < stop /\ stop <= end
        /\ Part(start, end, period) = [key |-> PeriodKey(start, period), days |-> stop - start]
        /\ \A t \in Moment : start <= t /\ t < end =>
             (PeriodKey(t, period) = PeriodKey(start, period) <=> t < stop)
  BY <1>0, PartFacts
<1>2. PICK key \in Int \X Int : key = PeriodKey(start, period) BY KeyType
<1>3. PICK first \in PartSet : first = Part(start, end, period) /\ first.key = key /\ first.days = stop - start
  BY <1>0, <1>1, <1>2 DEF PartSet
<1> DEFINE parts == <<Part(start, end, period)>> \o tail
<1>4. tail \in Seq(PartSet) BY DEF Exact
<1>5. /\ parts \in Seq(PartSet) /\ Len(parts) = Len(tail) + 1 /\ Len(tail) \in Nat
      /\ parts[1] = first /\ \A i \in 1 .. Len(tail) : parts[i + 1] = tail[i]
  BY <1>3, <1>4
<1> HIDE DEF parts
<1>6. \A t \in start .. (end - 1) :
        /\ t \in Moment /\ t \in Nat /\ start <= t /\ t < end
        /\ PeriodKey(t, period) = key <=> t < stop
  <2> SUFFICES ASSUME NEW t \in start .. (end - 1)
               PROVE  /\ t \in Moment /\ t \in Nat /\ start <= t /\ t < end
                      /\ PeriodKey(t, period) = key <=> t < stop
    OBVIOUS
  <2>1. t \in Nat /\ start <= t /\ t < end BY <1>0
  <2>2. t \in Moment BY <1>0, <2>1, MomentsBefore
  <2> QED BY <1>1, <1>2, <2>1, <2>2
<1>7. TimesOf(key, start, end, period) = start .. (stop - 1)
  <2>1. ASSUME NEW t \in start .. (stop - 1) PROVE t \in start .. (end - 1) /\ t < stop BY <1>0, <1>1
  <2>2. ASSUME NEW t \in start .. (end - 1), t < stop PROVE t \in start .. (stop - 1) BY <1>0, <1>1, <2>2
  <2> QED BY <1>6, <2>1, <2>2 DEF TimesOf
<1>8. Cardinality(start .. (stop - 1)) = stop - start /\ start \in start .. (stop - 1)
  <2>1. start <= stop - 1 /\ stop - 1 \in Int BY <1>0, <1>1
  <2>2. Cardinality(start .. (stop - 1)) = (stop - 1) - start + 1 BY <1>0, <2>1, FS_Interval
  <2> QED BY <1>0, <1>1, <2>1, <2>2
<1>9. ASSUME NEW i \in 1 .. Len(tail)
      PROVE  /\ tail[i].key # key /\ Before(key, tail[i].key)
             /\ TimesOf(tail[i].key, start, end, period) = TimesOf(tail[i].key, stop, end, period)
  <2>1. TimesOf(tail[i].key, stop, end, period) # {} BY <1>1 DEF Exact
  <2>2. PICK t \in stop .. (end - 1) : PeriodKey(t, period) = tail[i].key BY <2>1 DEF TimesOf
  <2>3. t \in start .. (end - 1) /\ ~(t < stop) /\ start < t BY <1>0, <1>1
  <2>4. tail[i].key # key BY <1>6, <2>2, <2>3
  <2>5. Before(key, tail[i].key) BY <1>2, <1>6, <2>2, <2>3, <2>4, KeysInOrder
  <2>6. \A u \in stop .. (end - 1) : u \in start .. (end - 1) BY <1>0, <1>1
  <2>7. ASSUME NEW u \in start .. (end - 1), PeriodKey(u, period) = tail[i].key
        PROVE  u \in stop .. (end - 1)
    <3>1. ~(u < stop) /\ u \in Nat /\ u < end BY <1>6, <2>4, <2>7
    <3> QED BY <1>0, <3>1
  <2> QED BY <2>4, <2>5, <2>6, <2>7 DEF TimesOf
<1>10. ASSUME NEW t \in start .. (end - 1)
       PROVE  \E i \in 1 .. Len(parts) : parts[i].key = PeriodKey(t, period)
  <2>1. CASE t < stop
    <3>1. PeriodKey(t, period) = key BY <1>6, <2>1
    <3>2. 1 \in 1 .. Len(parts) BY <1>5
    <3> QED BY <1>3, <1>5, <3>1, <3>2
  <2>2. CASE ~(t < stop)
    <3>1. t \in stop .. (end - 1) BY <1>0, <1>6, <2>2
    <3>2. PICK i \in 1 .. Len(tail) : tail[i].key = PeriodKey(t, period) BY <1>1, <3>1 DEF Exact
    <3>3. i + 1 \in 1 .. Len(parts) /\ parts[i + 1] = tail[i] BY <1>5, <3>2
    <3> QED BY <3>2, <3>3
  <2> QED BY <2>1, <2>2
<1>11. ASSUME NEW i \in 1 .. Len(parts), i # 1
       PROVE  i - 1 \in 1 .. Len(tail) /\ parts[i] = tail[i - 1]
  <2>1. i - 1 \in 1 .. Len(tail) /\ (i - 1) + 1 = i BY <1>5, <1>11
  <2> QED BY <1>5, <2>1
<1>12. ASSUME NEW i \in 1 .. Len(parts)
       PROVE  /\ TimesOf(parts[i].key, start, end, period) # {}
              /\ parts[i].days = Cardinality(TimesOf(parts[i].key, start, end, period))
  <2>1. CASE i = 1 BY <1>3, <1>5, <1>7, <1>8, <2>1
  <2>2. CASE i # 1
    <3>1. PICK k \in 1 .. Len(tail) : parts[i] = tail[k] BY <1>11, <2>2
    <3>2. /\ TimesOf(tail[k].key, stop, end, period) # {}
          /\ tail[k].days = Cardinality(TimesOf(tail[k].key, stop, end, period))
      BY <1>1, <3>1 DEF Exact
    <3> QED BY <1>9, <3>1, <3>2
  <2> QED BY <2>1, <2>2
<1>13. ASSUME NEW i \in 1 .. Len(parts), NEW j \in 1 .. Len(parts), i < j
       PROVE  Before(parts[i].key, parts[j].key)
  <2>1. j # 1 BY <1>13
  <2>2. j - 1 \in 1 .. Len(tail) /\ parts[j] = tail[j - 1] BY <1>11, <2>1
  <2>3. CASE i = 1 BY <1>3, <1>5, <1>9, <2>2, <2>3
  <2>4. CASE i # 1
    <3>1. i - 1 \in 1 .. Len(tail) /\ parts[i] = tail[i - 1] BY <1>11, <2>4
    <3>2. i - 1 < j - 1 BY <1>13
    <3> QED BY <2>2, <3>1, <3>2 DEF Exact
  <2> QED BY <2>3, <2>4
<1> QED BY <1>5, <1>10, <1>12, <1>13 DEF Exact, parts

(* split_interval_by_period cuts an interval of times before the end of     *)
(* 2029 without loss: every half day of it is in the part of its own week   *)
(* or month, once, a part has as many as it says, none is empty, and the    *)
(* parts are in the order of their keys, so that no key has two.            *)
THEOREM SplitExact ==
  ASSUME NEW period \in Kinds, NEW start \in Moment, NEW end \in Moment
  PROVE  Exact(SplitInterval(start, end, period), start, end, period)
<1>0. start \in Nat /\ end \in Nat BY MomentFacts
<1>1. ASSUME NEW n \in Nat, end <= n PROVE Exact(<<>>, n, end, period)
  <2>1. n .. (end - 1) = {} BY <1>0, <1>1
  <2> QED BY <2>1 DEF Exact
<1>2. CASE end <= start
  <2>1. SplitInterval(start, end, period) = <<>> BY <1>2 DEF SplitInterval
  <2> QED BY <1>0, <1>1, <1>2, <2>1
<1>3. CASE ~(end <= start)
  <2>0. start < end BY <1>0, <1>3
  <2> DEFINE Body(parts, current) ==
        IF current >= end THEN <<>>
        ELSE LET bucket == PeriodFloor(current, period)
                 next   == NextPeriodStart(bucket, period)
                 stop   == IF end < next THEN end ELSE next
             IN  <<[key |-> PeriodKey(bucket, period), days |-> stop - current]>> \o parts[stop]
  <2>1. \A parts, current : Body(parts, current) = Rest(parts, current, end, period)
    BY DEF Rest, Part, Stop
  <2> DEFINE Parts == CHOOSE parts : parts = [current \in start .. end |-> Body(parts, current)]
  <2>2. SplitInterval(start, end, period) = Parts[start] BY <1>3 DEF SplitInterval
  <2>3. PICK solved : solved = [current \in start .. end |-> Rest(solved, current, end, period)]
    BY <2>0, SplitDefined
  <2>4. solved = [current \in start .. end |-> Body(solved, current)] BY <2>1, <2>3
  <2>5. Parts = [current \in start .. end |-> Body(Parts, current)]
    <3> HIDE DEF Body
    <3> QED BY <2>4
  <2> HIDE DEF Parts
  <2>6. \A current \in start .. end : Parts[current] = Rest(Parts, current, end, period)
    <3> HIDE DEF Body
    <3> QED BY <2>1, <2>5
  <2> HIDE DEF Body
  <2> DEFINE Good(current) == Exact(Parts[current], current, end, period)
             Bad == {n \in Nat : n <= end - start /\ ~Good(end - n)}
  <2>7. Bad = {}
    <3> SUFFICES ASSUME Bad # {} PROVE FALSE OBVIOUS
    <3>1. PICK n \in Bad : \A k \in Bad : n <= k BY LeastNat
    <3>2. n \in Nat /\ n <= end - start /\ ~Good(end - n) BY <3>1
    <3>3. PICK at \in Nat : at = end - n /\ start <= at /\ at <= end BY <1>0, <3>2
    <3>4. Parts[at] = Rest(Parts, at, end, period) BY <1>0, <2>6, <3>3
    <3>5. at < end
      <4> SUFFICES ASSUME at = end PROVE FALSE BY <1>0, <3>3
      <4>1. Parts[at] = <<>> BY <1>0, <3>4 DEF Rest
      <4> QED BY <1>0, <1>1, <3>2, <3>3, <4>1
    <3>6. at \in Moment BY <1>0, <3>3, MomentsBefore
    <3>7. PICK stop \in Nat : stop = Stop(at, end, period) /\ at < stop /\ stop <= end
      BY <1>0, <3>5, <3>6, PartFacts
    <3>8. Parts[at] = <<Part(at, end, period)>> \o Parts[stop] BY <1>0, <3>3, <3>4, <3>5, <3>7 DEF Rest
    <3>9. Good(stop)
      <4>1. end - stop \in Nat /\ end - stop <= end - start /\ end - stop < n /\ end - (end - stop) = stop
        BY <1>0, <3>2, <3>3, <3>7
      <4>2. end - stop \notin Bad BY <3>1, <3>2, <4>1
      <4> QED BY <4>1, <4>2
    <3>10. Exact(Parts[stop], Stop(at, end, period), end, period) BY <3>7, <3>9
    <3>11. Good(at) BY <3>5, <3>6, <3>8, <3>10, PartThenRest
    <3> QED BY <3>2, <3>3, <3>11
  <2>8. end - start \in Nat /\ end - (end - start) = start /\ end - start <= end - start BY <1>0, <2>0
  <2>9. Good(start) BY <2>7, <2>8
  <2> QED BY <2>2, <2>9
<1> QED BY <1>2, <1>3

=============================================================================
