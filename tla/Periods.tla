------------------------------- MODULE Periods -------------------------------
(***************************************************************************)
(* How stats/main.py cuts time into weeks or months: period_key,           *)
(* period_floor, next_period_start and split_interval_by_period, with what *)
(* they use of datetime.  A time is a number of half days since the        *)
(* Monday 2018-01-01 00:00 UTC.                                            *)
(***************************************************************************)
EXTENDS Integers, Sequences

FirstYear == 2018
LastYear  == 2030   \* bound: no date from here on

-----------------------------------------------------------------------------
(* datetime: years, months and weekdays of days.                           *)

Leap(year) == (year % 4 = 0 /\ year % 100 # 0) \/ year % 400 = 0

LeapsBefore(year) == (year - 1) \div 4 - (year - 1) \div 100 + (year - 1) \div 400
YearStart(year)   == 365 * (year - FirstYear) + LeapsBefore(year) - LeapsBefore(FirstYear)
YearOf(day)       == CHOOSE y \in FirstYear .. LastYear : YearStart(y) <= day /\ day < YearStart(y + 1)

MonthOffsets == <<0, 31, 59, 90, 120, 151, 181, 212, 243, 273, 304, 334>>
MonthStart(year, month) ==
  YearStart(year) + MonthOffsets[month] + (IF month > 2 /\ Leap(year) THEN 1 ELSE 0)
MonthOf(day) == CHOOSE m \in 1 .. 12 :
                  /\ MonthStart(YearOf(day), m) <= day
                  /\ m = 12 \/ day < MonthStart(YearOf(day), m + 1)

Weekday(day) == day % 7

(* isocalendar: a week belongs to the year of its Thursday, and the first  *)
(* one is that of the first Thursday.                                      *)
Thursday(day) == day - Weekday(day) + 3
IsoYear(day)  == YearOf(Thursday(day))
IsoWeek(day)  == (Thursday(day) - YearStart(IsoYear(day))) \div 7 + 1

Day(time) == time \div 2

-----------------------------------------------------------------------------
(* The key of a period, whose text has the order of the pair.              *)
PeriodKey(time, period) ==
  IF period = "week" THEN <<IsoYear(Day(time)), IsoWeek(Day(time))>>
                     ELSE <<YearOf(Day(time)), MonthOf(Day(time))>>

Before(key1, key2) == \/ key1[1] < key2[1]
                      \/ key1[1] = key2[1] /\ key1[2] < key2[2]

(* The start of the period a time is in.  The mutant keeps the time of day.*)
Mutant_PeriodFloorOfTime(time, period) ==
  IF period = "week" THEN time - 2 * Weekday(Day(time))
                     ELSE 2 * MonthStart(YearOf(Day(time)), MonthOf(Day(time))) + (time % 2)
PeriodFloor(time, period) ==
  2 * (IF period = "week" THEN Day(time) - Weekday(Day(time))
                          ELSE MonthStart(YearOf(Day(time)), MonthOf(Day(time))))

(* The start of the next one, of a start.                                  *)
NextPeriodStart(start, period) ==
  IF period = "week" THEN start + 14
  ELSE LET y == YearOf(Day(start))
           m == MonthOf(Day(start))
       IN  2 * (IF m = 12 THEN MonthStart(y + 1, 1) ELSE MonthStart(y, m + 1))

(* split_interval_by_period: the parts of an interval, in order.           *)
SplitInterval(start, end, period) ==
  LET Parts[current \in start .. end] ==
        IF current >= end THEN <<>>
        ELSE LET bucket == PeriodFloor(current, period)
                 next   == NextPeriodStart(bucket, period)
                 stop   == IF end < next THEN end ELSE next
             IN  <<[key |-> PeriodKey(bucket, period), days |-> stop - current]>> \o Parts[stop]
  IN  IF end <= start THEN <<>> ELSE Parts[start]

=============================================================================
