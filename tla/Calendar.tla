----------------------------- MODULE Calendar -----------------------------
(***************************************************************************)
(* The conversions of dates and times of include/Utill.h, against the      *)
(* calendar itself: a walk over the days, forwards and backwards from      *)
(* 1970-01-01 = day 0, that knows only how a month and a year end.         *)
(*                                                                         *)
(* ParseX turns what the server sends into a date and a time of day (the   *)
(* matrices and the date vectors use it), CountX turns the text of an R    *)
(* date into what is uploaded (scalars use it; vectors send the number R   *)
(* keeps, so the two must agree).  The text itself is abstracted to its    *)
(* fields; division and remainder truncate towards zero, as in C++.        *)
(***************************************************************************)
EXTENDS Integers, Sequences

CONSTANTS Back, Ahead,  \* how far the walk goes from day 0: within years 0 and 9999
          Times,        \* the times of day looked at, in seconds
          Milli, Nano,  \* the units in a second: 1000 and 10^9 in the code
          LongDays,     \* days whose units TLC can count (its integers have 32 bits)
          Precision,    \* the integers below it are doubles: 2^53 in the code
          Powers        \* powers of two: 1 to 2^16 in the code

ASSUME WalkAssumption ==
  /\ Back \in Nat /\ Ahead \in Nat /\ LongDays \in Nat
  /\ Back =< 719528 /\ Ahead =< 2932896
  /\ \A t \in Times : t \in Nat /\ t < 86400
  /\ Milli \in Nat \ {0} /\ Nano \in Nat \ {0}

NanosPerDay == 86400 * Nano

\* How often Precision goes into the units looked at: up to 2^10 in the code.
Span == ((LongDays + 1) * NanosPerDay) \div Precision

\* There are powers enough for those units and days, and every midnight is a
\* double (86400 * 10^9 is a multiple of 2^16).
ASSUME DoubleAssumption ==
  /\ Precision \in Nat \ {0} /\ Powers \subseteq 1 .. Precision - 1
  /\ \A x \in (1 .. LongDays + 1) \cup (1 .. Span) : \E p \in Powers : p =< x /\ x < 2 * p
  /\ \A p \in Powers : p =< Span => NanosPerDay % (2 * p) = 0

VARIABLES days, date

vars == <<days, date>>

-----------------------------------------------------------------------------
(* The calendar.                                                           *)

Leap(y) == (y % 4 = 0 /\ y % 100 # 0) \/ y % 400 = 0

MonthDays(y, m) ==
  CASE m = 2               -> IF Leap(y) THEN 29 ELSE 28
    [] m \in {4, 6, 9, 11} -> 30
    [] OTHER               -> 31

Init == days = 0 /\ date = [y |-> 1970, m |-> 1, d |-> 1]

NextDay ==
  /\ days < Ahead
  /\ days' = days + 1
  /\ date' = IF date.d < MonthDays(date.y, date.m) THEN [date EXCEPT !.d = @ + 1]
             ELSE IF date.m < 12 THEN [date EXCEPT !.m = @ + 1, !.d = 1]
             ELSE [y |-> date.y + 1, m |-> 1, d |-> 1]

PreviousDay ==
  /\ days > -Back
  /\ days' = days - 1
  /\ date' = IF date.d > 1 THEN [date EXCEPT !.d = @ - 1]
             ELSE IF date.m > 1
             THEN [date EXCEPT !.m = @ - 1, !.d = MonthDays(date.y, date.m - 1)]
             ELSE [y |-> date.y - 1, m |-> 12, d |-> 31]

Next == NextDay \/ PreviousDay

Spec == Init /\ [][Next]_vars

-----------------------------------------------------------------------------
(* Utill.h.                                                                *)

\* a / b and a % b of C++, for b > 0.
Quot(a, b) == IF a >= 0 THEN a \div b ELSE -((-a) \div b)
Rem(a, b)  == a - b * Quot(a, b)

cumMonthDays     == <<0, 31, 59, 90, 120, 151, 181, 212, 243, 273, 304, 334, 365>>
cumLeapMonthDays == <<0, 31, 60, 91, 121, 152, 182, 213, 244, 274, 305, 335, 366>>

Cumulated(y) == IF Leap(y) THEN cumLeapMonthDays ELSE cumMonthDays

\* The leap days in n years of a cycle of 400; a mutant that forgets the
\* century years, and the code.
LeapDaysJulian(n) == IF n > 0 THEN (n - 1) \div 4 + 1 ELSE 0

LeapDays(n) == IF n > 0 THEN (n - 1) \div 4 + 1 - (n - 1) \div 100 ELSE 0

ParseDate(n) ==
  LET all     == n + 719529
      cycle   == Quot(all, 146097)
      offset  == Rem(all, 146097)
      similar == Quot(offset, 365)
      tmpDays == similar * 365 + LeapDays(similar)
      year    == 400 * cycle + (IF tmpDays >= offset THEN similar - 1 ELSE similar)
      rest    == all - cycle * 146097 - tmpDays
      day     == IF rest > 0 THEN rest ELSE rest + (IF Leap(year) THEN 366 ELSE 365)
      cum     == Cumulated(year)
      guess   == day \div 32 + 1
      month   == IF day > cum[guess + 1] THEN guess + 1 ELSE guess
  IN  [y |-> year, m |-> month, d |-> day - cum[month]]

ParseMonth(n) == [y |-> Quot(n, 12), m |-> Rem(n, 12) + 1, d |-> 1]

\* DDB_NULL_INTEGER, and the text "NA", which is that of no date.
NullInteger == -2147483647 - 1
NA          == [y |-> 0, m |-> 0, d |-> 0]

\* The text of a date, cut where the fields of one with a year of four
\* characters are: behind five characters a month starts with the separator.
CutText(at) ==
  IF at.y =< 9999 THEN at
  ELSE [y |-> at.y \div 10, m |-> -(at.m \div 10), d |-> -(at.d \div 10)]

CountDays(at) ==
  LET cut    == CutText(at)
      cycle  == Quot(cut.y, 400)
      offset == Rem(cut.y, 400)
      before == cycle * 146097 + offset * 365 - 719529 + LeapDays(offset)
  IN  IF at = NA \/ cut.m \notin 1 .. 12 \/ cut.d \notin 0 .. MonthDays(cut.y, cut.m)
      THEN NullInteger
      ELSE before + Cumulated(cut.y)[cut.m] + cut.d

\* A mutant: the minutes are not scaled.
CountSecondsUnscaled(at, time) == CountDays(at) * 86400 + time.h * 3600 + time.m + time.s

CountSeconds(at, time) ==
  IF at = NA THEN NullInteger
  ELSE CountDays(at) * 86400 + (time.h * 60 + time.m) * 60 + time.s

\* A time of day of so many seconds.
Clock(n) == [h |-> Quot(n, 3600), m |-> Quot(Rem(n, 3600), 60), s |-> Rem(Rem(n, 3600), 60)]

ParseDateTime(n) ==
  <<ParseDate(IF n >= 0 THEN Quot(n, 86400) ELSE Quot(n, 86400) - 1), Clock(Rem(n, 86400))>>

\* A mutant: the hour is reduced to that of a day before it is divided.
ParseTimeOfHalfDays(n) ==
  [h |-> Rem(Quot(n, 3600 * Milli), 12), m |-> Rem(Quot(n, 60 * Milli), 60),
   s |-> Rem(Quot(n, Milli), 60)]

ParseTime(n) ==
  [h |-> Quot(n, 3600 * Milli), m |-> Rem(Quot(n, 60 * Milli), 60), s |-> Rem(Quot(n, Milli), 60)]

ParseMinute(n) == [h |-> Quot(n, 60), m |-> Rem(n, 60), s |-> 0]

\* Hours, minutes and seconds are taken off n one after the other.
ParseNanotime(n) ==
  LET hours   == Quot(n, 3600 * Nano)
      minutes == Quot(n - hours * 3600 * Nano, 60 * Nano)
  IN  [h |-> hours, m |-> minutes,
       s |-> Quot(n - hours * 3600 * Nano - minutes * 60 * Nano, Nano)]

\* The time of day of n units, of which there are "unit" in a second.
DayTime(n, unit) ==
  LET rest == Rem(n, 86400 * unit)
  IN  Clock(Quot(IF rest < 0 THEN rest + 86400 * unit ELSE rest, unit))

\* A mutant: the quotient is truncated, not rounded down.
ParseTimestampTruncates(n) == <<ParseDate(Quot(n, 86400 * Milli)), DayTime(n, Milli)>>

\* floor((double) n / 86400000.0) is exact: milliseconds fit into a double.
ParseTimestamp(n) == <<ParseDate(n \div (86400 * Milli)), DayTime(n, Milli)>>

\* The largest power of two that is not above x.
Power(x) == IF x = 0 THEN 0 ELSE CHOOSE p \in Powers : p =< x /\ x < 2 * p

\* (double) n: the nearest multiple of the distance of the doubles around n, of
\* two the even one.
Ulp(n) == IF n < Precision THEN 1 ELSE 2 * Power(n \div Precision)

Nearest(n) ==
  LET g == Ulp(n)
      r == n % g
  IN  IF 2 * r < g \/ (2 * r = g /\ (n \div g) % 2 = 0) THEN n - r ELSE (n - r) + g

Double(n) == IF n >= 0 THEN Nearest(n) ELSE -Nearest(-n)

\* Half the distance of the doubles around a quotient of k days and a part of
\* one, in units.
HalfPlace(k) == (NanosPerDay * Power(k)) \div Precision

\* floor((double) n / NANOS_PER_DAY): a quotient as near as that to the next
\* midnight is rounded to it.
DoubleDay(n) ==
  LET k    == Double(n) \div NanosPerDay
      room == NanosPerDay - (Double(n) % NanosPerDay)
  IN  IF room =< HalfPlace(IF k >= 0 THEN k ELSE -(k + 1)) THEN k + 1 ELSE k

\* A mutant: the time of day is that of the rounded number too.
ParseNanotimestampRounded(n) == <<ParseDate(DoubleDay(n)), DayTime(Double(n), Nano)>>

ParseNanotimestamp(n) == <<ParseDate(DoubleDay(n)), DayTime(n, Nano)>>

-----------------------------------------------------------------------------
(* Correctness.                                                            *)

\* ParseDate and CountDays are the calendar, in both directions and over
\* every leap rule, so that a date survives an upload and a download, and a
\* date sent as a scalar (through CountDays) is the one sent in a vector (as
\* the number of days R keeps).  From year 10000 on it is not: the text has
\* a character more, and the scalar is sent as a null.
DatesSurvive ==
  /\ ParseDate(days) = date /\ CountDays(date) = days
  /\ CountDays([date EXCEPT !.y = @ + 8000]) =
       IF date.y < 2000 THEN days + 20 * 146097 ELSE NullInteger
  /\ ParseMonth(12 * date.y + date.m - 1) = [date EXCEPT !.d = 1]

\* The four readers of a time of day (TIME, MINUTE, SECOND, NANOTIME) agree on
\* every second of it, to the last unit of the second.  The number of the day
\* the walk is at serves as the number of seconds.
TimesSurvive ==
  LET t == days % 86400
  IN  /\ \A part \in {0, Milli - 1} : ParseTime(t * Milli + part) = Clock(t)
      /\ \A part \in {0, Nano - 1} : ParseNanotime(t * Nano + part) = Clock(t)
      /\ ParseMinute(t \div 60) = [Clock(t) EXCEPT !.s = 0]

\* A DATETIME from 1970 on, as far as 32 bits go, is read back as the date and
\* time it was uploaded from.  Before 1970 (README.md gives it as the same date
\* and time in R) it is not, by exactly a day at midnight, and at any other
\* time by a clock that counts back from the next midnight.
DateTimesSurvive ==
  /\ 0 =< days /\ days =< 24854 =>
       \A t \in Times : ParseDateTime(CountSeconds(date, Clock(t))) = <<date, Clock(t)>>
  /\ -24855 =< days /\ days < 0 =>
       \A t \in Times : ParseDateTime(days * 86400 + t) =
         IF t = 0 THEN <<ParseDate(days - 1), Clock(0)>> ELSE <<date, Clock(t - 86400)>>

\* A TIMESTAMP is cut into its day and its time of day, before 1970 too and
\* on either side of midnight.
TimestampsSurvive ==
  days \in -LongDays .. LongDays =>
    \A t \in Times, part \in {0, Milli - 1} :
      ParseTimestamp((days * 86400 + t) * Milli + part) = <<date, Clock(t)>>

\* A NANOTIMESTAMP is cut into its day and its time of day, before 1970 too.
\* Only within the two roundings of the next midnight, of the number and of its
\* quotient, may it get the date of the next day with the clock of its own, a
\* day late: never while the number is a double, always in the last unit of a
\* day when it is not.
NanotimestampsSurvive ==
  days \in -LongDays .. LongDays =>
    \A t \in Times, part \in 0 .. Nano - 1 :
      LET n     == (days * 86400 + t) * Nano + part
          size  == IF n >= 0 THEN n ELSE -n
          whole == IF days >= 0 THEN days ELSE -(days + 1)
          left  == NanosPerDay - (t * Nano + part)
          late  == <<ParseDate(days + 1), Clock(t)>>
      IN  \/ ParseNanotimestamp(n) = <<date, Clock(t)>> /\ (left = 1 => size < Precision)
          \/ /\ ParseNanotimestamp(n) = late /\ size >= Precision
             /\ left =< Ulp(size) \div 2 + HalfPlace(whole)

=============================================================================
