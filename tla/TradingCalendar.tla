-------------------------- MODULE TradingCalendar ---------------------------
(***************************************************************************)
(* utils/marketCalendar.ts, utils/dates.ts, the verdict of services/       *)
(* dataFreshnessService.ts, and the dates of the mock provider.            *)
(*                                                                         *)
(* A date is the number of days since 1970-01-01 (a Thursday), which is    *)
(* what a JavaScript Date at midnight UTC holds; the operators of that     *)
(* class are external.                                                     *)
(***************************************************************************)
EXTENDS Integers, FiniteSets, Sequences

(* Date.UTC, with months from 1: a month or a day out of range runs over   *)
(* into the ones after, or before.                                         *)
UTC(year, month, day) ==
  LET m == (month + 9) % 12                           \* months and years from March
      y == year + (month - 3) \div 12
  IN  365 * y + y \div 4 - y \div 100 + y \div 400 + (153 * m + 2) \div 5 + day - 719469

(* getUTCDay(): 0 is Sunday.                                               *)
Weekday(date) == (date + 4) % 7

YearOf(date) ==
  LET guess == 1970 + date \div 365
  IN  CHOOSE y \in guess - 1 .. guess : UTC(y, 1, 1) <= date /\ date < UTC(y + 1, 1, 1)

MonthOf(date) ==
  CHOOSE m \in 1 .. 12 : /\ UTC(YearOf(date), m, 1) <= date
                         /\ m = 12 \/ date < UTC(YearOf(date), m + 1, 1)

DayOf(date) == date - UTC(YearOf(date), MonthOf(date), 1) + 1

-----------------------------------------------------------------------------
(* dates.ts: the components of a string go through Date.UTC and back.      *)

IsRealDate(year, month, day) ==
  LET date == UTC(year, month, day)
  IN  YearOf(date) = year /\ MonthOf(date) = month /\ DayOf(date) = day

-----------------------------------------------------------------------------
(* marketCalendar.ts                                                       *)

(* Meeus, Jones and Butcher.                                               *)
EasterSunday(year) ==
  LET a == year % 19
      b == year \div 100
      c == year % 100
      d == b \div 4
      e == b % 4
      f == (b + 8) \div 25
      g == (b - f + 1) \div 3
      h == (19 * a + b - d - g + 15) % 30
      i == c \div 4
      k == c % 4
      l == (32 + 2 * e + 2 * i - h - k) % 7
      m == (a + 11 * h + 22 * l) \div 451
      n == h + l - 7 * m + 114
  IN  UTC(year, n \div 31, (n % 31) + 1)

NthWeekdayOfMonth(year, month, weekday, n) ==
  LET first == UTC(year, month, 1)
  IN  first + ((7 + weekday - Weekday(first)) % 7) + (n - 1) * 7

LastWeekdayOfMonth(year, month, weekday) ==
  LET last == UTC(year, month + 1, 0)
  IN  last - ((7 + Weekday(last) - weekday) % 7)

(* Faulty variant: a holiday on a Sunday is not moved.                     *)
ObservedSaturdayOnly(year, month, day) ==
  LET date == UTC(year, month, day) IN IF Weekday(date) = 6 THEN date - 1 ELSE date

(* A Saturday goes to the Friday before, a Sunday to the Monday after.     *)
ObservedFixed(year, month, day) ==
  LET date == UTC(year, month, day)
  IN  CASE Weekday(date) = 6 -> date - 1
        [] Weekday(date) = 0 -> date + 1
        [] OTHER -> date

Sunday == 0
Monday == 1
Thursday == 4

UsMarketHolidays(year) ==
  {ObservedFixed(year, md[1], md[2]) : md \in {<<1, 1>>, <<6, 19>>, <<7, 4>>, <<12, 25>>}}
  \cup {NthWeekdayOfMonth(year, 1, Monday, 3), NthWeekdayOfMonth(year, 2, Monday, 3),
        LastWeekdayOfMonth(year, 5, Monday), NthWeekdayOfMonth(year, 9, Monday, 1),
        NthWeekdayOfMonth(year, 11, Thursday, 4), EasterSunday(year) - 2}

IsWeekend(date) == Weekday(date) \in {0, 6}

(* The holidays are looked up in the set of the year of the date.          *)
IsTradingDay(date) == ~IsWeekend(date) /\ date \notin UsMarketHolidays(YearOf(date))

(* Walks back from `date` to a trading day.                                *)
LatestTradingDay(date) ==
  LET back[d \in Int] == IF IsTradingDay(d) THEN d ELSE back[d - 1] IN back[date]

(* Starts from yesterday, for today's bar may not be out.                  *)
ExpectedLatestCompletedTradingDay(today) == LatestTradingDay(today - 1)

(* dataFreshnessService.ts.                                                *)
IsStale(latest, today) == latest < ExpectedLatestCompletedTradingDay(today)

(* mockStockDataProvider.ts: the last `count` trading dates up to anchor.  *)
TradingDatesEndingAt(anchor, count) ==
  LET dates[n \in Nat] == IF n = 0 THEN <<>>
                          ELSE IF n = 1 THEN <<LatestTradingDay(anchor)>>
                          ELSE <<LatestTradingDay(Head(dates[n - 1]) - 1)>> \o dates[n - 1]
  IN  dates[count]

-----------------------------------------------------------------------------
(* The rule of the exchange, stated on the face of a date.                 *)

(* The day of the year (in March or April) of the paschal full moon, for   *)
(* the golden number of a year from 1900 to 2199.                          *)
PaschalFullMoon == <<<<4, 14>>, <<4, 3>>, <<3, 23>>, <<4, 11>>, <<3, 31>>, <<4, 18>>, <<4, 8>>,
                     <<3, 28>>, <<4, 16>>, <<4, 5>>, <<3, 25>>, <<4, 13>>, <<4, 2>>, <<3, 22>>,
                     <<4, 10>>, <<3, 30>>, <<4, 17>>, <<4, 7>>, <<3, 27>>>>

(* Good Friday lies two days before the first Sunday after the full moon.  *)
IsGoodFriday(date, year) ==
  LET md == PaschalFullMoon[(year % 19) + 1]
      moon == UTC(year, md[1], md[2])
  IN  Weekday(date) = 5 /\ date + 2 \in moon + 1 .. moon + 7

(* A fixed holiday closes its day, or the Friday before its Saturday, or   *)
(* the Monday after its Sunday - but no Friday for a New Year's Day.       *)
ClosedByRule(date, year, month, day) ==
  LET w == Weekday(date)
      Fixed(m, d) == \/ month = m /\ day = d
                     \/ month = m /\ day = d - 1 /\ w = 5
                     \/ month = m /\ day = d + 1 /\ w = 1
  IN  \/ Fixed(1, 1) \/ Fixed(6, 19) \/ Fixed(7, 4) \/ Fixed(12, 25)
      \/ w = 1 /\ month \in {1, 2} /\ day \in 15 .. 21
      \/ w = 1 /\ month = 5 /\ day \in 25 .. 31
      \/ w = 1 /\ month = 9 /\ day \in 1 .. 7
      \/ w = 4 /\ month = 11 /\ day \in 22 .. 28
      \/ IsGoodFriday(date, year)

DaysIn(year, month) ==
  CASE month = 2 -> IF year % 4 = 0 /\ (year % 100 # 0 \/ year % 400 = 0) THEN 29 ELSE 28
    [] month \in {4, 6, 9, 11} -> 30
    [] OTHER -> 31

OpenByRule(date) ==
  /\ Weekday(date) \in 1 .. 5
  /\ ~ClosedByRule(date, YearOf(date), MonthOf(date), DayOf(date))

(* On every day the calendar computes exactly the closures of the rule,    *)
(* New Year's included, although the holidays are looked up by the year of *)
(* the observed date; the day expected to be stored is the last open one   *)
(* before today, so data is stale only when an open day has passed without *)
(* a bar; the dates of the mock series are consecutive open days; and the  *)
(* round trip through Date.UTC accepts the days that exist and no others   *)
(* (marketCalendar.ts:22-120, dates.ts:17-24, dataFreshnessService.ts).    *)
CalendarHolds(today) ==
  /\ IsTradingDay(today) <=> OpenByRule(today)
  /\ LET e == ExpectedLatestCompletedTradingDay(today)
     IN  /\ e < today /\ OpenByRule(e)
         /\ \A d \in e + 1 .. today - 1 : ~OpenByRule(d)
         /\ \A d \in today - 6 .. today :
              IsStale(d, today) <=> \E open \in d + 1 .. today - 1 : OpenByRule(open)
  /\ DayOf(today) = 1 =>
       /\ LET mock == TradingDatesEndingAt(today, 3)
          IN  /\ Len(mock) = 3 /\ mock[1] < mock[2] /\ mock[2] < mock[3] /\ mock[3] <= today
              /\ {d \in mock[1] .. today : OpenByRule(d)} = {mock[i] : i \in 1 .. 3}
       /\ \A month \in 0 .. 13, day \in 0 .. 32 :
            IsRealDate(YearOf(today), month, day) <=>
              month \in 1 .. 12 /\ day \in 1 .. DaysIn(YearOf(today), month)

=============================================================================
