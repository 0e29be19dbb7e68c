--------------------------- MODULE CalendarProofs ---------------------------
(***************************************************************************)
(* The conversions of Calendar for every day from year 0 on, every time of *)
(* day and units of any size, those of the code included.                  *)
(***************************************************************************)
EXTENDS Calendar, TLAPS

\* The days before year y, counted from year 0, and those of the year.
YearStart(y) == 146097 * (y \div 400) + 365 * (y % 400) + LeapDays(y % 400)
YearDays(y)  == IF Leap(y) THEN 366 ELSE 365

Date == [y : Nat, m : 1 .. 12, d : Nat]

\* The walk is at a day of the calendar, and CountDays numbers it.
IInv ==
  /\ days \in -Back .. Ahead
  /\ date \in Date /\ date.d \in 1 .. MonthDays(date.y, date.m)
  /\ YearStart(date.y) + Cumulated(date.y)[date.m] + date.d = days + 719529

-----------------------------------------------------------------------------
(* Months and years.                                                       *)

LEMMA Tables ==
  /\ cumMonthDays[1] = 0 /\ cumMonthDays[2] = 31 /\ cumMonthDays[3] = 59 /\ cumMonthDays[4] = 90
  /\ cumMonthDays[5] = 120 /\ cumMonthDays[6] = 151 /\ cumMonthDays[7] = 181 /\ cumMonthDays[8] = 212
  /\ cumMonthDays[9] = 243 /\ cumMonthDays[10] = 273 /\ cumMonthDays[11] = 304 /\ cumMonthDays[12] = 334
  /\ cumMonthDays[13] = 365
  /\ cumLeapMonthDays[1] = 0 /\ cumLeapMonthDays[2] = 31 /\ cumLeapMonthDays[3] = 60
  /\ cumLeapMonthDays[4] = 91 /\ cumLeapMonthDays[5] = 121 /\ cumLeapMonthDays[6] = 152
  /\ cumLeapMonthDays[7] = 182 /\ cumLeapMonthDays[8] = 213 /\ cumLeapMonthDays[9] = 244
  /\ cumLeapMonthDays[10] = 274 /\ cumLeapMonthDays[11] = 305 /\ cumLeapMonthDays[12] = 335
  /\ cumLeapMonthDays[13] = 366
<1>. QED  BY DEF cumMonthDays, cumLeapMonthDays

\* A month of a year: where it starts, where it ends, and the guess of ParseDate.
LEMMA Month ==
  ASSUME NEW y, NEW m \in 1 .. 12
  PROVE  /\ Cumulated(y)[m] \in Nat /\ Cumulated(y)[m] =< 335 /\ MonthDays(y, m) \in 28 .. 31
         /\ Cumulated(y)[m + 1] = Cumulated(y)[m] + MonthDays(y, m)
         /\ Cumulated(y)[m + 1] =< YearDays(y)
         /\ Cumulated(y)[1] = 0 /\ Cumulated(y)[13] = YearDays(y)
         /\ MonthDays(y, 12) = 31
         /\ Cumulated(y)[m] + 1 >= 32 * (m - 2) /\ Cumulated(y)[m + 1] < 32 * m
<1>1. m = 1 \/ m = 2 \/ m = 3 \/ m = 4 \/ m = 5 \/ m = 6 \/ m = 7 \/ m = 8 \/ m = 9 \/ m = 10 \/ m = 11 \/ m = 12
  OBVIOUS
<1>2. CASE Leap(y)
  <2>1. Cumulated(y) = cumLeapMonthDays /\ YearDays(y) = 366
    BY <1>2 DEF Cumulated, YearDays
  <2>. QED  BY <1>1, <1>2, <2>1, Tables DEF MonthDays
<1>3. CASE ~Leap(y)
  <2>1. Cumulated(y) = cumMonthDays /\ YearDays(y) = 365
    BY <1>3 DEF Cumulated, YearDays
  <2>. QED  BY <1>1, <1>3, <2>1, Tables DEF MonthDays
<1>. QED  BY <1>2, <1>3

LEMMA Cycle ==
  ASSUME NEW y \in Nat
  PROVE  /\ y \div 400 \in Nat /\ y % 400 \in Nat /\ y % 400 < 400 /\ y = 400 * (y \div 400) + (y % 400)
         /\ Leap(y) <=> ((y % 400) % 4 = 0 /\ (y % 400) % 100 # 0) \/ y % 400 = 0
<1>1. /\ y \div 400 \in Nat /\ y % 400 \in Nat /\ y % 400 < 400 /\ y = 400 * (y \div 400) + (y % 400)
  OBVIOUS
<1>2. y % 4 = (y % 400) % 4 /\ y % 100 = (y % 400) % 100
  OBVIOUS
<1>. QED  BY <1>1, <1>2 DEF Leap

LEMMA LeapDaysStep ==
  ASSUME NEW o \in Nat
  PROVE  LeapDays(o + 1) = LeapDays(o) + IF (o % 4 = 0 /\ o % 100 # 0) \/ o = 0 THEN 1 ELSE 0
<1>1. CASE o = 0
  BY <1>1 DEF LeapDays
<1>2. CASE o > 0
  <2>1. o \div 4 = (o - 1) \div 4 + IF o % 4 = 0 THEN 1 ELSE 0
    BY <1>2
  <2>2. o \div 100 = (o - 1) \div 100 + IF o % 100 = 0 THEN 1 ELSE 0
    BY <1>2
  <2>3. o % 100 = 0 => o % 4 = 0
    BY <1>2
  <2>. QED  BY <1>2, <2>1, <2>2, <2>3 DEF LeapDays
<1>. QED  BY <1>1, <1>2

LEMMA LeapDaysAre == 
  /\ \A o \in Nat : LeapDays(o) \in Nat /\ LeapDays(o) =< o /\ (o < 400 => LeapDays(o) =< 97)
  /\ LeapDays(399) = 97
<1>. QED  BY DEF LeapDays

LEMMA Year == ASSUME NEW y \in Nat PROVE YearStart(y) \in Nat /\ YearStart(y + 1) = YearStart(y) + YearDays(y)
<1>. DEFINE c == y \div 400
            o == y % 400
<1>1. c \in Nat /\ o \in Nat /\ o < 400 /\ y = 400 * c + o
  BY Cycle
<1>2. YearDays(y) = 365 + IF (o % 4 = 0 /\ o % 100 # 0) \/ o = 0 THEN 1 ELSE 0
  BY Cycle DEF YearDays
<1>3. YearStart(y) = 146097 * c + 365 * o + LeapDays(o)
  BY DEF YearStart
<1>. HIDE DEF c, o
<1>4. LeapDays(o) \in Nat
  BY <1>1, LeapDaysAre
<1>5. CASE o < 399
  <2>1. (y + 1) \div 400 = c /\ (y + 1) % 400 = o + 1
    BY <1>1, <1>5
  <2>2. YearStart(y + 1) = 146097 * c + 365 * (o + 1) + LeapDays(o + 1)
    BY <2>1 DEF YearStart
  <2>3. LeapDays(o + 1) = LeapDays(o) + IF (o % 4 = 0 /\ o % 100 # 0) \/ o = 0 THEN 1 ELSE 0
    BY <1>1, LeapDaysStep
  <2>. QED  BY <1>1, <1>2, <1>3, <1>4, <2>2, <2>3
<1>6. CASE o = 399
  <2>1. (y + 1) \div 400 = c + 1 /\ (y + 1) % 400 = 0
    BY <1>1, <1>6
  <2>2. YearStart(y + 1) = 146097 * (c + 1)
    BY <1>1, <2>1 DEF YearStart, LeapDays
  <2>3. LeapDays(o) = 97 /\ YearDays(y) = 365
    BY <1>2, <1>6, LeapDaysAre
  <2>. QED  BY <1>1, <1>3, <1>6, <2>2, <2>3
<1>. QED  BY <1>1, <1>5, <1>6

-----------------------------------------------------------------------------
(* The walk.                                                               *)

LEMMA FirstYear == YearStart(0) = 0
<1>. QED  BY DEF YearStart, LeapDays

LEMMA Bounds ==
  /\ Back \in Int /\ 0 =< Back /\ Back =< 719528
  /\ Ahead \in Int /\ 0 =< Ahead /\ Ahead =< 2932896
<1>. QED  BY WalkAssumption, SMT

LEMMA InitIInv == Init => IInv
<1>. SUFFICES ASSUME Init PROVE IInv
  OBVIOUS
<1>1. days = 0 /\ date.y = 1970 /\ date.m = 1 /\ date.d = 1 /\ date \in Date
  BY DEF Init, Date
<1>2. YearStart(1970) = 719528
  <2>1. 1970 \div 400 = 4 /\ 1970 % 400 = 370 /\ LeapDays(370) = 90
    BY DEF LeapDays
  <2>. QED  BY <2>1 DEF YearStart
<1>3. Cumulated(1970)[1] = 0 /\ MonthDays(1970, 1) \in 28 .. 31
  BY Month
<1>4. days \in -Back .. Ahead
  BY <1>1, Bounds, SMT
<1>5. date.d \in 1 .. MonthDays(date.y, date.m)
  BY <1>1, <1>3, SMT
<1>6. YearStart(date.y) + Cumulated(date.y)[date.m] + date.d = days + 719529
  BY <1>1, <1>2, <1>3, SMT
<1>. QED  BY <1>1, <1>4, <1>5, <1>6, SMT DEF IInv

LEMMA NextDayStep == ASSUME IInv, NextDay PROVE IInv'
<1>1. /\ days \in -Back .. Ahead /\ date \in Date /\ date.d \in 1 .. MonthDays(date.y, date.m)
      /\ YearStart(date.y) + Cumulated(date.y)[date.m] + date.d = days + 719529
  BY DEF IInv
<1>2. days < Ahead /\ days' = days + 1
  BY DEF NextDay
<1>3. days' \in -Back .. Ahead
  BY <1>1, <1>2, Bounds, SMT
<1>4. PICK y, m, d : y = date.y /\ m = date.m /\ d = date.d
  OBVIOUS
<1>5. y \in Nat /\ m \in 1 .. 12 /\ d \in Nat /\ d \in 1 .. MonthDays(y, m) /\ date = [y |-> y, m |-> m, d |-> d]
  BY <1>1, <1>4 DEF Date
<1>6. /\ Cumulated(y)[m] \in Nat /\ Cumulated(y)[m] =< 335 /\ MonthDays(y, m) \in 28 .. 31
      /\ Cumulated(y)[m + 1] = Cumulated(y)[m] + MonthDays(y, m)
      /\ Cumulated(y)[13] = YearDays(y)
  BY <1>5, Month
<1>7. YearStart(y) \in Nat /\ YearStart(y + 1) = YearStart(y) + YearDays(y)
  BY <1>5, Year
<1>8. YearStart(y) + Cumulated(y)[m] + d = days + 719529 /\ days \in Int
  BY <1>1, <1>4, Bounds, SMT
<1>9. CASE d < MonthDays(y, m)
  <2>1. date' = [y |-> y, m |-> m, d |-> d + 1]
    BY <1>4, <1>5, <1>9 DEF NextDay
  <2>2. d + 1 \in 1 .. MonthDays(y, m) /\ d + 1 \in Nat
    BY <1>5, <1>6, <1>9
  <2>3. YearStart(y) + Cumulated(y)[m] + (d + 1) = days' + 719529
    BY <1>2, <1>5, <1>6, <1>7, <1>8, SMT
  <2>. QED  BY <1>3, <1>5, <2>1, <2>2, <2>3 DEF IInv, Date
<1>10. CASE ~(d < MonthDays(y, m)) /\ m < 12
  <2>1. date' = [y |-> y, m |-> m + 1, d |-> 1]
    BY <1>4, <1>5, <1>10 DEF NextDay
  <2>2. m + 1 \in 1 .. 12 /\ d = MonthDays(y, m)
    BY <1>5, <1>6, <1>10
  <2>3. MonthDays(y, m + 1) \in 28 .. 31
    BY <2>2, Month
  <2>4. YearStart(y) + Cumulated(y)[m + 1] + 1 = days' + 719529
    BY <1>2, <1>5, <1>6, <1>7, <1>8, <2>2, SMT
  <2>. QED  BY <1>3, <1>5, <2>1, <2>2, <2>3, <2>4 DEF IInv, Date
<1>11. CASE ~(d < MonthDays(y, m)) /\ ~(m < 12)
  <2>1. date' = [y |-> y + 1, m |-> 1, d |-> 1]
    BY <1>4, <1>5, <1>11 DEF NextDay
  <2>2. m = 12 /\ d = MonthDays(y, m)
    BY <1>5, <1>6, <1>11
  <2>3. MonthDays(y + 1, 1) \in 28 .. 31 /\ Cumulated(y + 1)[1] = 0
    BY Month
  <2>4. YearStart(y + 1) + 0 + 1 = days' + 719529
    <3>1. Cumulated(y)[m] + d = YearDays(y)
      BY <1>6, <2>2
    <3>2. YearStart(y) + (Cumulated(y)[m] + d) = days + 719529
      BY <1>5, <1>6, <1>7, <1>8
    <3>. QED  BY <1>2, <1>7, <1>8, <3>1, <3>2, SMT
  <2>5. y + 1 \in Nat
    BY <1>5
  <2>. QED  BY <1>3, <2>1, <2>3, <2>4, <2>5 DEF IInv, Date
<1>. QED  BY <1>9, <1>10, <1>11

LEMMA PreviousDayStep == ASSUME IInv, PreviousDay PROVE IInv'
<1>1. /\ days \in -Back .. Ahead /\ date \in Date /\ date.d \in 1 .. MonthDays(date.y, date.m)
      /\ YearStart(date.y) + Cumulated(date.y)[date.m] + date.d = days + 719529
  BY DEF IInv
<1>2. days > -Back /\ days' = days - 1
  BY DEF PreviousDay
<1>3. days' \in -Back .. Ahead /\ days > -719528
  BY <1>1, <1>2, Bounds, SMT
<1>4. PICK y, m, d : y = date.y /\ m = date.m /\ d = date.d
  OBVIOUS
<1>5. y \in Nat /\ m \in 1 .. 12 /\ d \in Nat /\ d \in 1 .. MonthDays(y, m) /\ date = [y |-> y, m |-> m, d |-> d]
  BY <1>1, <1>4 DEF Date
<1>6. Cumulated(y)[m] \in Nat /\ MonthDays(y, m) \in 28 .. 31 /\ Cumulated(y)[1] = 0
  BY <1>5, Month
<1>7. YearStart(y) \in Nat
  BY <1>5, Year
<1>8. YearStart(y) + Cumulated(y)[m] + d = days + 719529 /\ days \in Int
  BY <1>1, <1>4, Bounds, SMT
<1>9. CASE d > 1
  <2>1. date' = [y |-> y, m |-> m, d |-> d - 1]
    BY <1>4, <1>5, <1>9 DEF PreviousDay
  <2>2. d - 1 \in 1 .. MonthDays(y, m) /\ d - 1 \in Nat
    BY <1>5, <1>6, <1>9
  <2>3. YearStart(y) + Cumulated(y)[m] + (d - 1) = days' + 719529
    BY <1>2, <1>5, <1>6, <1>7, <1>8, SMT
  <2>. QED  BY <1>3, <1>5, <2>1, <2>2, <2>3 DEF IInv, Date
<1>10. CASE ~(d > 1) /\ m > 1
  <2>1. date' = [y |-> y, m |-> m - 1, d |-> MonthDays(y, m - 1)]
    BY <1>4, <1>5, <1>10 DEF PreviousDay
  <2>2. m - 1 \in 1 .. 12 /\ (m - 1) + 1 = m /\ d = 1
    BY <1>5, <1>6, <1>10
  <2>3. /\ MonthDays(y, m - 1) \in 28 .. 31 /\ Cumulated(y)[m - 1] \in Nat
        /\ Cumulated(y)[m] = Cumulated(y)[m - 1] + MonthDays(y, m - 1)
    BY <2>2, Month
  <2>4. YearStart(y) + Cumulated(y)[m - 1] + MonthDays(y, m - 1) = days' + 719529
    BY <1>2, <1>7, <1>8, <2>2, <2>3, SMT
  <2>5. MonthDays(y, m - 1) \in 1 .. MonthDays(y, m - 1) /\ MonthDays(y, m - 1) \in Nat
    BY <2>3
  <2>. QED  BY <1>3, <1>5, <2>1, <2>2, <2>4, <2>5 DEF IInv, Date
<1>11. CASE ~(d > 1) /\ ~(m > 1)
  <2>1. date' = [y |-> y - 1, m |-> 12, d |-> 31]
    BY <1>4, <1>5, <1>11 DEF PreviousDay
  <2>2. m = 1 /\ d = 1
    BY <1>5, <1>6, <1>11
  <2>3. YearStart(y) + 1 = days + 719529
    BY <1>6, <1>7, <1>8, <2>2
  <2>4. y - 1 \in Nat /\ (y - 1) + 1 = y
    <3>1. y # 0
      BY <1>3, <1>8, <2>3, FirstYear, SMT
    <3>. QED  BY <1>5, <3>1
  <2>5. YearStart(y - 1) \in Nat /\ YearStart(y) = YearStart(y - 1) + YearDays(y - 1)
    BY <2>4, Year
  <2>6. /\ Cumulated(y - 1)[12] \in Nat /\ MonthDays(y - 1, 12) = 31
        /\ Cumulated(y - 1)[12 + 1] = Cumulated(y - 1)[12] + MonthDays(y - 1, 12)
        /\ Cumulated(y - 1)[13] = YearDays(y - 1)
    BY Month
  <2>7. YearDays(y - 1) = Cumulated(y - 1)[12] + 31
    BY <2>6
  <2>8. YearStart(y - 1) + Cumulated(y - 1)[12] + 31 = days' + 719529
    BY <1>2, <1>8, <2>3, <2>5, <2>6, <2>7, SMT
  <2>. QED  BY <1>3, <2>1, <2>4, <2>6, <2>8 DEF IInv, Date
<1>. QED  BY <1>9, <1>10, <1>11

LEMMA NextIInv == IInv /\ [Next]_vars => IInv'
<1>. SUFFICES ASSUME IInv, [Next]_vars PROVE IInv'
  OBVIOUS
<1>1. CASE NextDay
  BY <1>1, NextDayStep
<1>2. CASE PreviousDay
  BY <1>2, PreviousDayStep
<1>3. CASE UNCHANGED vars
  BY <1>3 DEF vars, IInv
<1>. QED  BY <1>1, <1>2, <1>3 DEF Next

LEMMA Invariance == Spec => []IInv
<1>. QED  BY InitIInv, NextIInv, PTL DEF Spec

-----------------------------------------------------------------------------
(* Dates.                                                                  *)

\* What ParseDate computes of the position of a day in its year.
LEMMA MonthOf ==
  ASSUME NEW y, NEW m \in 1 .. 12, NEW d \in 1 .. MonthDays(y, m), NEW day \in Nat,
         day = Cumulated(y)[m] + d
  PROVE  /\ day \div 32 + 1 \in Nat
         /\ m = IF day > Cumulated(y)[(day \div 32 + 1) + 1] THEN (day \div 32 + 1) + 1 ELSE day \div 32 + 1
<1>1. /\ Cumulated(y)[m] \in Nat /\ MonthDays(y, m) \in 28 .. 31
      /\ Cumulated(y)[m + 1] = Cumulated(y)[m] + MonthDays(y, m)
      /\ Cumulated(y)[m] + 1 >= 32 * (m - 2) /\ Cumulated(y)[m + 1] < 32 * m
  BY Month
<1>2. d \in Nat /\ d >= 1 /\ d =< MonthDays(y, m)
  BY <1>1
<1>3. day >= 32 * (m - 2) /\ day < 32 * m /\ day =< Cumulated(y)[m + 1] /\ day > Cumulated(y)[m]
  BY <1>1, <1>2
<1>4. PICK g \in Int : g = day \div 32 + 1
  OBVIOUS
<1>5. g >= 1 /\ (g = m - 1 \/ g = m)
  BY <1>3, <1>4
<1>6. m = IF day > Cumulated(y)[g + 1] THEN g + 1 ELSE g
  <2>1. CASE g = m
    BY <1>1, <1>3, <2>1
  <2>2. CASE g = m - 1
    <3>1. g + 1 = m
      BY <2>2
    <3>. QED  BY <1>3, <3>1
  <2>. QED  BY <1>5, <2>1, <2>2
<1>. QED  BY <1>4, <1>5, <1>6

\* Quotients and remainders of what is not negative.
LEMMA OfDates ==
  \A a \in Nat : /\ Quot(a, 146097) = a \div 146097 /\ Rem(a, 146097) = a % 146097
                /\ Quot(a, 365) = a \div 365
                /\ Quot(a, 400) = a \div 400 /\ Rem(a, 400) = a % 400
<1>. QED  BY SMT DEF Quot, Rem

LEMMA CycleOf ==
  \A c \in Nat, x \in Nat : x < 146097 =>
    (146097 * c + x) \div 146097 = c /\ (146097 * c + x) % 146097 = x
<1>. QED  BY SMT

LEMMA Quotients ==
  ASSUME NEW a \in Nat, NEW b \in Nat \ {0}
  PROVE  Quot(a, b) = a \div b /\ Rem(a, b) = a % b
<1>1. Quot(a, b) = a \div b
  BY DEF Quot
<1>2. a = b * (a \div b) + (a % b) /\ a \div b \in Int /\ a % b \in Int
  OBVIOUS
<1>. QED  BY <1>1, <1>2 DEF Rem

\* The day at position yd of year y is found, whether the quotient by 365 is
\* the year's place in its cycle, the place of the next, or a cycle too far.
LEMMA YearOf ==
  ASSUME NEW y \in Nat, NEW yd \in Nat, 1 =< yd, yd =< YearDays(y),
         NEW all \in Int, all = YearStart(y) + yd,
         NEW cycle, cycle = Quot(all, 146097), NEW offset, offset = Rem(all, 146097),
         NEW similar, similar = Quot(offset, 365),
         NEW tmpDays, tmpDays = similar * 365 + LeapDays(similar),
         NEW rest, rest = all - cycle * 146097 - tmpDays
  PROVE  /\ 400 * cycle + (IF tmpDays >= offset THEN similar - 1 ELSE similar) = y
         /\ (IF rest > 0 THEN rest ELSE rest + YearDays(y)) = yd
<1>1. PICK c \in Nat, o \in Nat : c = y \div 400 /\ o = y % 400 /\ o < 400 /\ y = 400 * c + o
  BY Cycle
<1>2. PICK l \in Nat : l = LeapDays(o) /\ l =< 97 /\ (o = 399 => l = 97)
  BY <1>1, LeapDaysAre
<1>3. all = 146097 * c + 365 * o + l + yd
  BY <1>1, <1>2, SMT DEF YearStart
<1>4. /\ YearDays(y) = 365 \/ (YearDays(y) = 366 /\ o # 399)
      /\ LeapDays(o + 1) = l + YearDays(y) - 365
  <2>1. Leap(y) <=> (o % 4 = 0 /\ o % 100 # 0) \/ o = 0
    BY <1>1, Cycle
  <2>2. LeapDays(o + 1) = l + IF (o % 4 = 0 /\ o % 100 # 0) \/ o = 0 THEN 1 ELSE 0
    BY <1>2, LeapDaysStep
  <2>3. CASE Leap(y)
    BY <1>1, <2>1, <2>2, <2>3 DEF YearDays
  <2>4. CASE ~Leap(y)
    BY <1>2, <2>1, <2>2, <2>4 DEF YearDays
  <2>. QED  BY <2>3, <2>4
<1>5. all \in Nat
  BY <1>3, <1>2, SMT
<1>6. cycle = all \div 146097 /\ offset = all % 146097
  BY <1>5, OfDates, SMT
<1>7. CASE o = 399 /\ yd = 365
  <2>1. all = 146097 * (c + 1)
    BY <1>2, <1>3, <1>7, SMT
  <2>2. cycle = c + 1 /\ offset = 0
    BY <1>1, <1>6, <2>1, SMT
  <2>3. similar = 0 /\ tmpDays = 0
    <3>1. Quot(0, 365) = 0 /\ LeapDays(0) = 0
      BY DEF Quot, LeapDays
    <3>. QED  BY <2>2, <3>1, SMT
  <2>4. rest = 0 /\ YearDays(y) = 365
    BY <1>4, <1>7, <2>1, <2>2, <2>3, <1>1, SMT
  <2>5. 400 * cycle + (similar - 1) = y /\ tmpDays >= offset
    BY <1>1, <1>7, <2>2, <2>3, SMT
  <2>6. ~(rest > 0) /\ rest + YearDays(y) = yd
    BY <1>7, <2>4, SMT
  <2>. QED  BY <2>5, <2>6
<1>8. CASE ~(o = 399 /\ yd = 365)
  <2>1. 365 * o + l + yd < 146097 /\ l + yd < 730
    BY <1>1, <1>2, <1>4, <1>8, SMT
  <2>2. cycle = c /\ offset = 365 * o + l + yd
    <3>1. PICK x \in Nat : x = 365 * o + l + yd
      BY SMT
    <3>2. x < 146097 /\ all = 146097 * c + x
      BY <1>3, <2>1, <3>1, SMT
    <3>. QED  BY <1>6, <3>1, <3>2, CycleOf
  <2>3. offset \in Nat /\ similar = offset \div 365
    BY <1>2, <2>2, OfDates, SMT
  <2>4. CASE l + yd < 365
    <3>1. similar = o /\ tmpDays = 365 * o + l
      BY <1>2, <2>2, <2>3, <2>4, SMT
    <3>2. rest = yd
      BY <1>3, <2>2, <3>1, SMT
    <3>. QED  BY <1>1, <2>2, <3>1, <3>2, SMT
  <2>5. CASE l + yd >= 365
    <3>1. similar = o + 1
      BY <1>2, <2>1, <2>2, <2>3, <2>5, SMT
    <3>2. tmpDays = 365 * o + l + YearDays(y)
      BY <1>4, <3>1, SMT
    <3>3. rest = yd - YearDays(y)
      BY <1>3, <1>4, <2>2, <3>2, SMT
    <3>4. 400 * cycle + (similar - 1) = y
      BY <1>1, <2>2, <3>1, SMT
    <3>5. tmpDays >= offset
      BY <1>4, <2>2, <3>2, SMT
    <3>6. ~(rest > 0) /\ rest + YearDays(y) = yd
      BY <1>4, <3>3, SMT
    <3>. QED  BY <3>4, <3>5, <3>6
  <2>. QED  BY <2>1, <1>2, <2>4, <2>5, SMT
<1>. QED  BY <1>7, <1>8

LEMMA ParseDateIs ==
  ASSUME NEW y \in Nat, NEW m \in 1 .. 12, NEW d \in 1 .. MonthDays(y, m), NEW n \in Int,
         YearStart(y) + Cumulated(y)[m] + d = n + 719529
  PROVE  ParseDate(n) = [y |-> y, m |-> m, d |-> d]
<1>. DEFINE all     == n + 719529
            cycle   == Quot(all, 146097)
            offset  == Rem(all, 146097)
            similar == Quot(offset, 365)
            tmpDays == similar * 365 + LeapDays(similar)
            year    == 400 * cycle + (IF tmpDays >= offset THEN similar - 1 ELSE similar)
            rest    == all - cycle * 146097 - tmpDays
            day     == IF rest > 0 THEN rest ELSE rest + (IF Leap(year) THEN 366 ELSE 365)
            cum     == Cumulated(year)
            guess   == day \div 32 + 1
            month   == IF day > cum[guess + 1] THEN guess + 1 ELSE guess
<1>1. ParseDate(n) = [y |-> year, m |-> month, d |-> day - cum[month]]
  BY DEF ParseDate
<1>2. /\ Cumulated(y)[m] \in Nat /\ MonthDays(y, m) \in 28 .. 31
      /\ Cumulated(y)[m] + MonthDays(y, m) =< YearDays(y)
  BY Month
<1>3. PICK yd \in Nat : yd = Cumulated(y)[m] + d
  BY <1>2
<1>4. d \in Nat /\ d >= 1 /\ d =< MonthDays(y, m) /\ YearStart(y) \in Nat /\ YearDays(y) \in Nat
  BY <1>2, Year DEF YearDays
<1>5. 1 =< yd /\ yd =< YearDays(y)
  BY <1>2, <1>3, <1>4
<1>6. all \in Int /\ all = YearStart(y) + yd
  BY <1>2, <1>3, <1>4, SMT
<1>7. year = y /\ (IF rest > 0 THEN rest ELSE rest + YearDays(y)) = yd
  <2>1. /\ cycle = Quot(all, 146097) /\ offset = Rem(all, 146097)
        /\ similar = Quot(offset, 365) /\ tmpDays = similar * 365 + LeapDays(similar)
        /\ rest = all - cycle * 146097 - tmpDays
    OBVIOUS
  <2>. HIDE DEF all, cycle, offset, similar, tmpDays, rest
  <2>. QED  BY <1>5, <1>6, <2>1, YearOf, SMT
<1>8. day = yd
  <2>. HIDE DEF year, rest
  <2>. QED  BY <1>7 DEF YearDays
<1>9. cum = Cumulated(y)
  BY <1>7
<1>. HIDE DEF year, day, cum
<1>10. guess = yd \div 32 + 1
  BY <1>8
<1>11. month = m
  <2>1. m = IF yd > Cumulated(y)[(yd \div 32 + 1) + 1] THEN (yd \div 32 + 1) + 1 ELSE yd \div 32 + 1
    BY <1>3, MonthOf
  <2>. QED  BY <1>8, <1>9, <1>10, <2>1
<1>12. day - cum[month] = d
  BY <1>2, <1>3, <1>4, <1>8, <1>9, <1>11
<1>. QED  BY <1>1, <1>7, <1>11, <1>12

LEMMA CountDaysIs ==
  ASSUME NEW y \in Nat, NEW m \in 1 .. 12, NEW d \in 1 .. MonthDays(y, m), y =< 9999
  PROVE  CountDays([y |-> y, m |-> m, d |-> d]) = YearStart(y) + Cumulated(y)[m] + d - 719529
<1>1. Quot(y, 400) = y \div 400 /\ Rem(y, 400) = y % 400
  BY OfDates
<1>2. PICK c \in Nat, o \in Nat : c = y \div 400 /\ o = y % 400
  BY Cycle
<1>3. PICK l \in Nat : l = LeapDays(o)
  BY LeapDaysAre
<1>4. PICK k \in Nat : k = Cumulated(y)[m]
  BY Month
<1>5. YearStart(y) = 146097 * c + 365 * o + l
  BY <1>2, <1>3, SMT DEF YearStart
<1>6. d \in Nat /\ d \in 0 .. MonthDays(y, m)
  BY Month, SMT
<1>. DEFINE at == [y |-> y, m |-> m, d |-> d]
<1>7. CutText(at) = at /\ at # NA
  BY SMT DEF CutText, NA
<1>8. CountDays(at) = c * 146097 + o * 365 - 719529 + l + k + d
  BY <1>1, <1>2, <1>3, <1>4, <1>6, <1>7, SMT DEF CountDays
<1>. QED  BY <1>4, <1>5, <1>6, <1>8, SMT

\* The month of a date with a longer year is read as none.
LEMMA LongYear ==
  ASSUME NEW y \in Nat, NEW m \in 1 .. 12, NEW d, y > 9999
  PROVE  CountDays([y |-> y, m |-> m, d |-> d]) = NullInteger
<1>1. CutText([y |-> y, m |-> m, d |-> d]).m = -(m \div 10)
  BY SMT DEF CutText
<1>2. -(m \div 10) \notin 1 .. 12
  BY SMT
<1>. QED  BY <1>1, <1>2, SMT DEF CountDays

\* Twenty cycles of the calendar later it is the same day.
LEMMA Later ==
  ASSUME NEW y \in Nat, NEW m \in 1 .. 12
  PROVE  /\ YearStart(y + 8000) = YearStart(y) + 20 * 146097
         /\ Cumulated(y + 8000) = Cumulated(y) /\ MonthDays(y + 8000, m) = MonthDays(y, m)
<1>1. PICK z \in Nat : z = y + 8000
  BY SMT
<1>2. PICK c \in Nat, o \in Nat : c = y \div 400 /\ o = y % 400 /\ y = 400 * c + o /\ o < 400
  BY Cycle, SMT
<1>3. z \div 400 = c + 20 /\ z % 400 = o
  BY <1>1, <1>2, SMT
<1>4. Leap(z) <=> Leap(y)
  BY <1>2, <1>3, Cycle, SMT
<1>5. PICK l \in Nat : l = LeapDays(o)
  BY <1>2, LeapDaysAre
<1>6. YearStart(y) = 146097 * c + 365 * o + l /\ YearStart(z) = 146097 * (c + 20) + 365 * o + l
  BY <1>2, <1>3, <1>5, SMT DEF YearStart
<1>7. YearStart(z) = YearStart(y) + 20 * 146097
  BY <1>2, <1>5, <1>6, SMT
<1>8. Cumulated(z) = Cumulated(y) /\ MonthDays(z, m) = MonthDays(y, m)
  BY <1>4, Zenon DEF Cumulated, MonthDays
<1>. QED  BY <1>1, <1>7, <1>8, SMT

\* The walk does not leave the years of four digits.
LEMMA FourDigits == ASSUME IInv PROVE date.y =< 9999
<1>. SUFFICES ASSUME date.y >= 10000 PROVE FALSE
  BY SMT DEF IInv, Date
<1>1. /\ date.y \in Nat /\ date.m \in 1 .. 12 /\ date.d \in Nat /\ date.d >= 1 /\ days =< Ahead /\ days \in Int
      /\ YearStart(date.y) + Cumulated(date.y)[date.m] + date.d = days + 719529
  <2>1. date.y \in Nat /\ date.m \in 1 .. 12 /\ date.d \in Nat
    BY DEF IInv, Date
  <2>2. MonthDays(date.y, date.m) \in 28 .. 31
    BY <2>1, Month
  <2>. QED  BY <2>1, <2>2, Bounds, SMT DEF IInv
<1>2. PICK c \in Nat, o \in Nat : c = date.y \div 400 /\ o = date.y % 400 /\ c >= 25
  BY <1>1, SMT
<1>3. PICK l \in Nat : l = LeapDays(o)
  BY LeapDaysAre
<1>4. YearStart(date.y) = 146097 * c + 365 * o + l
  BY <1>2, <1>3, SMT DEF YearStart
<1>5. PICK k \in Nat : k = Cumulated(date.y)[date.m]
  BY <1>1, Month
<1>. QED  BY <1>1, <1>2, <1>4, <1>5, Bounds, SMT

LEMMA ParseMonthIs ==
  ASSUME NEW y \in Nat, NEW m \in 1 .. 12
  PROVE  ParseMonth(12 * y + m - 1) = [y |-> y, m |-> m, d |-> 1]
<1>1. PICK n \in Nat : n = 12 * y + m - 1
  OBVIOUS
<1>2. Quot(n, 12) = y
  BY <1>1 DEF Quot
<1>3. Rem(n, 12) + 1 = m
  BY <1>1, <1>2 DEF Rem
<1>. QED  BY <1>1, <1>2, <1>3 DEF ParseMonth

LEMMA Dates == IInv => DatesSurvive
<1>. SUFFICES ASSUME IInv PROVE DatesSurvive
  OBVIOUS
<1>1. PICK y, m, d : y = date.y /\ m = date.m /\ d = date.d
  OBVIOUS
<1>2. y \in Nat /\ m \in 1 .. 12 /\ d \in Nat /\ d \in 1 .. MonthDays(y, m) /\ date = [y |-> y, m |-> m, d |-> d]
  BY <1>1 DEF IInv, Date
<1>3. days \in Int /\ YearStart(y) + Cumulated(y)[m] + d = days + 719529
  BY <1>1, Bounds, SMT DEF IInv
<1>4. ParseDate(days) = date
  BY <1>2, <1>3, ParseDateIs
<1>5. CountDays(date) = days
  <2>1. CountDays(date) = YearStart(y) + Cumulated(y)[m] + d - 719529
    BY <1>1, <1>2, CountDaysIs, FourDigits, SMT
  <2>2. YearStart(y) \in Nat /\ Cumulated(y)[m] \in Nat
    BY <1>2, Year, Month
  <2>. QED  BY <1>2, <1>3, <2>1, <2>2, SMT
<1>6. ParseMonth(12 * date.y + date.m - 1) = [date EXCEPT !.d = 1]
  <2>1. ParseMonth(12 * y + m - 1) = [y |-> y, m |-> m, d |-> 1]
    BY <1>2, ParseMonthIs
  <2>2. [date EXCEPT !.d = 1] = [y |-> y, m |-> m, d |-> 1]
    BY <1>2
  <2>. QED  BY <1>1, <2>1, <2>2
<1>7. CountDays([date EXCEPT !.y = @ + 8000]) = IF date.y < 2000 THEN days + 20 * 146097 ELSE NullInteger
  <2>1. PICK z \in Nat : z = y + 8000
    BY <1>2, SMT
  <2>2. [date EXCEPT !.y = @ + 8000] = [y |-> z, m |-> m, d |-> d]
    BY <1>2, <2>1, SMT
  <2>3. CASE date.y < 2000
    <3>1. z =< 9999 /\ d \in 1 .. MonthDays(z, m) /\ YearStart(z) = YearStart(y) + 20 * 146097
          /\ Cumulated(z) = Cumulated(y)
      BY <1>1, <1>2, <2>1, <2>3, Later, SMT
    <3>2. CountDays([y |-> z, m |-> m, d |-> d]) = YearStart(z) + Cumulated(z)[m] + d - 719529
      BY <1>2, <3>1, CountDaysIs, SMT
    <3>3. YearStart(y) \in Nat /\ Cumulated(y)[m] \in Nat
      BY <1>2, Year, Month
    <3>4. CountDays([y |-> z, m |-> m, d |-> d]) = YearStart(y) + 20 * 146097 + Cumulated(y)[m] + d - 719529
      BY <3>1, <3>2, SMT
    <3>5. CountDays([y |-> z, m |-> m, d |-> d]) = days + 20 * 146097
      BY <1>2, <1>3, <3>3, <3>4, SMT
    <3>. QED  BY <2>2, <2>3, <3>5, SMT
  <2>4. CASE ~(date.y < 2000)
    <3>1. z > 9999
      BY <1>1, <1>2, <2>1, <2>4, SMT
    <3>. QED  BY <1>2, <2>2, <2>4, <3>1, LongYear, SMT
  <2>. QED  BY <2>3, <2>4
<1>. QED  BY <1>4, <1>5, <1>6, <1>7, SMT DEF DatesSurvive

\* From year 0 on, ParseDate, CountDays and ParseMonth are the calendar.
THEOREM DatesCorrect == Spec => []DatesSurvive
<1>. QED  BY Dates, Invariance, PTL

-----------------------------------------------------------------------------
(* Times of day.  The units in a second are a constant: products of        *)
(* variables are taken one inequality at a time.                           *)

LEMMA Product == \A a \in Nat, b \in Nat : a * b \in Nat
<1>. QED  OBVIOUS

LEMMA TimesMonotonic ==
  ASSUME NEW a \in Int, NEW b \in Int, NEW u \in Nat, a =< b PROVE a * u =< b * u
<1>1. b - a \in Nat
  OBVIOUS
<1>2. (b - a) * u \in Nat
  BY <1>1, Product
<1>3. (b - a) * u = b * u - a * u
  OBVIOUS
<1>. QED  BY <1>2, <1>3

LEMMA DivUnique ==
  ASSUME NEW a \in Int, NEW b \in Nat \ {0}, NEW q \in Int, NEW r \in Nat, r < b, a = b * q + r
  PROVE  a \div b = q /\ a % b = r
<1>1. PICK p \in Int, s \in Int : p = a \div b /\ s = a % b /\ 0 =< s /\ s < b /\ a = b * p + s
  OBVIOUS
<1>2. b * q + r = b * p + s
  BY <1>1
<1>3. ~(q < p)
  <2>. SUFFICES ASSUME q < p PROVE FALSE
    OBVIOUS
  <2>1. (q + 1) * b =< p * b
    BY TimesMonotonic
  <2>2. (q + 1) * b = b * q + b /\ p * b = b * p
    OBVIOUS
  <2>. QED  BY <1>1, <1>2, <2>1, <2>2
<1>4. ~(p < q)
  <2>. SUFFICES ASSUME p < q PROVE FALSE
    OBVIOUS
  <2>1. (p + 1) * b =< q * b
    BY TimesMonotonic
  <2>2. (p + 1) * b = b * p + b /\ q * b = b * q
    OBVIOUS
  <2>. QED  BY <1>1, <1>2, <2>1, <2>2
<1>5. p = q
  BY <1>1, <1>3, <1>4
<1>. QED  BY <1>1, <1>2, <1>5

\* s seconds and p units of which there are u in a second, and k seconds.
Units(s, u, p) == s * u + p
Group(k, u)    == k * u

\* Units counted in groups of k * u are the seconds counted in groups of k.
LEMMA Scaled ==
  ASSUME NEW s \in Int, NEW k \in Nat \ {0}, NEW u \in Nat \ {0}, NEW p \in Nat, p < u
  PROVE  /\ Units(s, u, p) \div Group(k, u) = s \div k
         /\ Units(s, u, p) % Group(k, u) = Units(s % k, u, p)
         /\ Units(s, u, p) \in Int /\ Group(k, u) \in Nat \ {0}
<1>1. PICK q \in Int, r \in Nat : q = s \div k /\ r = s % k /\ r < k /\ s = k * q + r
  OBVIOUS
<1>2. PICK a \in Int, b \in Nat, x \in Nat : a = s * u + p /\ b = k * u /\ x = r * u + p
  <2>1. s * u + p \in Int
    OBVIOUS
  <2>2. k * u \in Nat /\ r * u \in Nat
    BY <1>1, Product
  <2>. QED  BY <2>1, <2>2
<1>3. x < b /\ b # 0
  <2>1. (r + 1) * u =< k * u
    BY <1>1, TimesMonotonic
  <2>2. (r + 1) * u = r * u + u
    OBVIOUS
  <2>. QED  BY <1>2, <2>1, <2>2
<1>4. a = b * q + x
  <2>1. s * u = (k * q + r) * u
    BY <1>1
  <2>2. (k * q + r) * u = (k * u) * q + r * u
    OBVIOUS
  <2>. QED  BY <1>2, <2>1, <2>2
<1>5. a \div b = q /\ a % b = x
  <2>1. b \in Nat \ {0}
    BY <1>3
  <2>. QED  BY <1>3, <1>4, <2>1, DivUnique
<1>6. Units(s, u, p) = a /\ Group(k, u) = b /\ Units(s % k, u, p) = x
  BY <1>1, <1>2 DEF Units, Group
<1>. QED  BY <1>1, <1>3, <1>5, <1>6

\* The remainder of C++, lifted when it is negative, is that of the calendar.
LEMMA Lifted ==
  ASSUME NEW n \in Int, NEW b \in Nat \ {0}
  PROVE  (IF Rem(n, b) < 0 THEN Rem(n, b) + b ELSE Rem(n, b)) = n % b
<1>1. PICK q \in Int, r \in Nat : q = n \div b /\ r = n % b /\ r < b /\ n = b * q + r
  OBVIOUS
<1>2. CASE n >= 0
  <2>1. Rem(n, b) = n - b * q
    BY <1>1, <1>2 DEF Rem, Quot
  <2>. QED  BY <1>1, <2>1
<1>3. CASE n < 0 /\ r = 0
  <2>1. -n = b * (-q) + 0
    BY <1>1, <1>3
  <2>2. (-n) \div b = -q
    BY <2>1, DivUnique
  <2>3. Rem(n, b) = n - b * q
    BY <1>3, <2>2 DEF Rem, Quot
  <2>. QED  BY <1>1, <1>3, <2>3
<1>4. CASE n < 0 /\ r # 0
  <2>1. -n = b * (-q - 1) + (b - r) /\ b - r \in Nat /\ b - r < b
    <3>1. b * (-q - 1) = -(b * q) - b
      OBVIOUS
    <3>. QED  BY <1>1, <1>4, <3>1
  <2>2. (-n) \div b = -q - 1
    BY <2>1, DivUnique
  <2>3. Rem(n, b) = n - b * (q + 1)
    BY <1>4, <2>2 DEF Rem, Quot
  <2>4. b * (q + 1) = b * q + b
    OBVIOUS
  <2>. QED  BY <1>1, <1>4, <2>3, <2>4
<1>. QED  BY <1>1, <1>2, <1>3, <1>4

LEMMA ClockIs ==
  ASSUME NEW t \in Nat
  PROVE  /\ Clock(t) = [h |-> t \div 3600, m |-> (t % 3600) \div 60, s |-> (t % 3600) % 60]
         /\ Clock(t) = [h |-> t \div 3600, m |-> (t \div 60) % 60, s |-> t % 60]
<1>1. /\ Quot(t, 3600) = t \div 3600 /\ Rem(t, 3600) = t % 3600
      /\ \A x \in Nat : Quot(x, 60) = x \div 60 /\ Rem(x, 60) = x % 60
  BY DEF Quot, Rem
<1>2. t % 3600 \in Nat
  OBVIOUS
<1>3. (t % 3600) \div 60 = (t \div 60) % 60 /\ (t % 3600) % 60 = t % 60
  OBVIOUS
<1>. QED  BY <1>1, <1>2, <1>3 DEF Clock

LEMMA Groups ==
  ASSUME NEW s \in Nat, NEW k \in Nat \ {0}, NEW u \in Nat \ {0}, NEW p \in Nat, p < u
  PROVE  /\ Quot(Units(s, u, p), Group(k, u)) = s \div k /\ Quot(Units(s, u, p), u) = s
         /\ Units(s, u, p) \in Nat
<1>1. PICK n, b : n = Units(s, u, p) /\ b = Group(k, u)
  OBVIOUS
<1>2. n \in Nat /\ n = u * s + p
  <2>1. s * u \in Nat
    BY Product
  <2>. QED  BY <1>1, <2>1 DEF Units
<1>3. n \div b = s \div k /\ b \in Nat \ {0}
  <2>1. Units(s, u, p) \div Group(k, u) = s \div k /\ Group(k, u) \in Nat \ {0}
    <3>1. s \in Int
      OBVIOUS
    <3>. QED  BY <3>1, Scaled, Zenon
  <2>. QED  BY <1>1, <2>1
<1>4. n \div u = s
  BY <1>2, DivUnique
<1>5. Quot(n, b) = n \div b /\ Quot(n, u) = n \div u
  BY <1>2, <1>3, Quotients
<1>. QED  BY <1>1, <1>2, <1>3, <1>4, <1>5

LEMMA ParseTimeIs ==
  ASSUME NEW t \in Nat, NEW part \in Nat, part < Milli
  PROVE  ParseTime(t * Milli + part) = Clock(t)
<1>1. Milli \in Nat \ {0}
  BY WalkAssumption
<1>2. PICK n : n = Units(t, Milli, part)
  OBVIOUS
<1>3. t * Milli + part = n
  BY <1>2 DEF Units
<1>4. /\ Quot(n, Group(3600, Milli)) = t \div 3600 /\ Quot(n, Group(60, Milli)) = t \div 60
      /\ Quot(n, Milli) = t
  <2>1. PICK k \in Nat \ {0}, l \in Nat \ {0} : k = 3600 /\ l = 60
    OBVIOUS
  <2>2. /\ Quot(Units(t, Milli, part), Group(k, Milli)) = t \div k
        /\ Quot(Units(t, Milli, part), Group(l, Milli)) = t \div l
        /\ Quot(Units(t, Milli, part), Milli) = t
    BY <1>1, Groups, Zenon
  <2>. QED  BY <1>2, <2>1, <2>2
<1>5. Quot(n, 3600 * Milli) = t \div 3600 /\ Quot(n, 60 * Milli) = t \div 60
  BY <1>4 DEF Group
<1>6. t \div 60 \in Nat /\ Rem(t \div 60, 60) = (t \div 60) % 60 /\ Rem(t, 60) = t % 60
  <2>1. t \div 60 \in Nat
    OBVIOUS
  <2>. QED  BY <2>1 DEF Rem, Quot
<1>7. ParseTime(n) = [h |-> t \div 3600, m |-> (t \div 60) % 60, s |-> t % 60]
  BY <1>4, <1>5, <1>6 DEF ParseTime
<1>8. Clock(t) = [h |-> t \div 3600, m |-> (t \div 60) % 60, s |-> t % 60]
  BY ClockIs
<1>. QED  BY <1>3, <1>7, <1>8

LEMMA ParseNanotimeIs ==
  ASSUME NEW t \in Nat, NEW part \in Nat, part < Nano
  PROVE  ParseNanotime(t * Nano + part) = Clock(t)
<1>1. Nano \in Nat \ {0}
  BY WalkAssumption
<1>2. PICK h \in Nat, r \in Nat, m \in Nat, s \in Nat :
        /\ h = t \div 3600 /\ r = t % 3600 /\ m = r \div 60 /\ s = r % 60
        /\ t = 3600 * h + r /\ r = 60 * m + s
  OBVIOUS
<1>3. PICK n, n1, n2 : n = Units(t, Nano, part) /\ n1 = Units(r, Nano, part) /\ n2 = Units(s, Nano, part)
  OBVIOUS
<1>4. n = t * Nano + part /\ n1 = r * Nano + part /\ n2 = s * Nano + part
  BY <1>3 DEF Units
<1>5. Quot(n, Group(3600, Nano)) = h /\ Quot(n1, Group(60, Nano)) = m /\ Quot(n2, Nano) = s
  <2>1. PICK k \in Nat \ {0}, l \in Nat \ {0} : k = 3600 /\ l = 60
    OBVIOUS
  <2>2. /\ Quot(Units(t, Nano, part), Group(k, Nano)) = t \div k
        /\ Quot(Units(r, Nano, part), Group(l, Nano)) = r \div l
        /\ Quot(Units(s, Nano, part), Nano) = s
    BY <1>1, Groups, Zenon
  <2>. QED  BY <1>2, <1>3, <2>1, <2>2
<1>6. Quot(n, 3600 * Nano) = h /\ Quot(n1, 60 * Nano) = m
  BY <1>5 DEF Group
<1>7. n - h * 3600 * Nano = n1
  <2>1. t * Nano = (3600 * h + r) * Nano
    BY <1>2
  <2>2. (3600 * h + r) * Nano = h * 3600 * Nano + r * Nano
    BY <1>1
  <2>. QED  BY <1>1, <1>4, <2>1, <2>2
<1>8. n - h * 3600 * Nano - m * 60 * Nano = n2
  <2>1. r * Nano = (60 * m + s) * Nano
    BY <1>2
  <2>2. (60 * m + s) * Nano = m * 60 * Nano + s * Nano
    BY <1>1
  <2>. QED  BY <1>1, <1>4, <1>7, <2>1, <2>2
<1>9. ParseNanotime(n) = [h |-> h, m |-> m, s |-> s]
  BY <1>5, <1>6, <1>7, <1>8 DEF ParseNanotime
<1>10. Clock(t) = [h |-> h, m |-> m, s |-> s]
  BY <1>2, ClockIs
<1>. QED  BY <1>4, <1>9, <1>10

LEMMA ParseMinuteIs ==
  ASSUME NEW t \in Nat
  PROVE  ParseMinute(t \div 60) = [Clock(t) EXCEPT !.s = 0]
<1>1. PICK n \in Nat : n = t \div 60
  OBVIOUS
<1>2. Quot(n, 60) = t \div 3600 /\ Rem(n, 60) = (t \div 60) % 60
  BY <1>1 DEF Quot, Rem
<1>3. ParseMinute(n) = [h |-> t \div 3600, m |-> (t \div 60) % 60, s |-> 0]
  BY <1>2 DEF ParseMinute
<1>. QED  BY <1>1, <1>3, ClockIs

\* The readers of a time of day agree, whatever the units in a second.
THEOREM TimesCorrect == Spec => []TimesSurvive
<1>1. IInv => TimesSurvive
  <2>. SUFFICES ASSUME IInv PROVE TimesSurvive
    OBVIOUS
  <2>1. PICK t \in Nat : t = days % 86400
    <3>1. days \in Int
      BY Bounds, SMT DEF IInv
    <3>. QED  BY <3>1, SMT
  <2>2. Milli \in Nat \ {0} /\ Nano \in Nat \ {0}
    BY WalkAssumption, SMT
  <2>3. \A part \in {0, Milli - 1} : ParseTime(t * Milli + part) = Clock(t)
    <3>1. \A part \in {0, Milli - 1} : part \in Nat /\ part < Milli
      BY <2>2
    <3>. QED  BY <3>1, ParseTimeIs, Zenon
  <2>4. \A part \in {0, Nano - 1} : ParseNanotime(t * Nano + part) = Clock(t)
    <3>1. \A part \in {0, Nano - 1} : part \in Nat /\ part < Nano
      BY <2>2
    <3>. QED  BY <3>1, ParseNanotimeIs, Zenon
  <2>5. ParseMinute(t \div 60) = [Clock(t) EXCEPT !.s = 0]
    BY ParseMinuteIs
  <2>6. TimesSurvive = /\ \A part \in {0, Milli - 1} : ParseTime(t * Milli + part) = Clock(t)
                       /\ \A part \in {0, Nano - 1} : ParseNanotime(t * Nano + part) = Clock(t)
                       /\ ParseMinute(t \div 60) = [Clock(t) EXCEPT !.s = 0]
    BY <2>1, SMT DEF TimesSurvive
  <2>. QED  BY <2>3, <2>4, <2>5, <2>6
<1>. QED  BY <1>1, Invariance, PTL

-----------------------------------------------------------------------------
(* Dates with times.                                                       *)

LEMMA CountSecondsIs ==
  ASSUME NEW at, at # NA, CountDays(at) \in Int, NEW t \in Nat
  PROVE  CountSeconds(at, Clock(t)) = CountDays(at) * 86400 + t
<1>1. PICK h \in Nat, m \in Nat, s \in Nat :
        /\ h = t \div 3600 /\ m = (t % 3600) \div 60 /\ s = (t % 3600) % 60
        /\ t = (h * 60 + m) * 60 + s
  OBVIOUS
<1>2. Clock(t) = [h |-> h, m |-> m, s |-> s]
  <2>1. Clock(t) = [h |-> t \div 3600, m |-> (t % 3600) \div 60, s |-> (t % 3600) % 60]
    BY ClockIs
  <2>. QED  BY <1>1, <2>1
<1>. QED  BY <1>1, <1>2 DEF CountSeconds

Seconds(n, t) == n * 86400 + t

LEMMA From1970 ==
  ASSUME NEW n \in Nat, NEW t \in Nat, t < 86400
  PROVE  ParseDateTime(Seconds(n, t)) = <<ParseDate(n), Clock(t)>>
<1>1. PICK x \in Int : x = n * 86400 + t /\ x = Seconds(n, t)
  BY DEF Seconds
<1>2. x >= 0 /\ Quot(x, 86400) = n /\ Rem(x, 86400) = t
  BY <1>1, SMT DEF Quot, Rem
<1>. QED  BY <1>1, <1>2, SMT DEF ParseDateTime

LEMMA MidnightBefore1970 ==
  ASSUME NEW n \in Int, n < 0
  PROVE  ParseDateTime(Seconds(n, 0)) = <<ParseDate(n - 1), Clock(0)>>
<1>1. PICK x \in Int : x = n * 86400 /\ x = Seconds(n, 0)
  BY SMT DEF Seconds
<1>2. ~(x >= 0) /\ Quot(x, 86400) = n /\ Rem(x, 86400) = 0
  BY <1>1, SMT DEF Quot, Rem
<1>. QED  BY <1>1, <1>2, SMT DEF ParseDateTime

LEMMA Before1970 ==
  ASSUME NEW n \in Int, n < 0, NEW t \in Nat, t < 86400, t # 0
  PROVE  ParseDateTime(Seconds(n, t)) = <<ParseDate(n), Clock(t - 86400)>>
<1>1. PICK x \in Int : x = n * 86400 + t /\ x = Seconds(n, t)
  BY DEF Seconds
<1>2. ~(x >= 0) /\ Quot(x, 86400) - 1 = n /\ Rem(x, 86400) = t - 86400
  BY <1>1, SMT DEF Quot, Rem
<1>. QED  BY <1>1, <1>2, SMT DEF ParseDateTime

\* A DATETIME from 1970 on is read back as it was uploaded, and before 1970 a
\* midnight a day too early and any other time by a clock that runs backwards.
THEOREM DateTimesCorrect == Spec => []DateTimesSurvive
<1>1. IInv => DateTimesSurvive
  <2>. SUFFICES ASSUME IInv PROVE DateTimesSurvive
    OBVIOUS
  <2>1. days \in Int
    BY Bounds, SMT DEF IInv
  <2>2. ParseDate(days) = date /\ CountDays(date) = days
    BY Dates, SMT DEF DatesSurvive
  <2>3. \A t \in Times : t \in Nat /\ t < 86400
    BY WalkAssumption, SMT
  <2>4. ASSUME 0 =< days, NEW t \in Times
        PROVE  ParseDateTime(CountSeconds(date, Clock(t))) = <<date, Clock(t)>>
    <3>1. t \in Nat /\ t < 86400
      BY <2>3
    <3>2. CountSeconds(date, Clock(t)) = days * 86400 + t
      <4>1. date # NA
        BY SMT DEF IInv, Date, NA
      <4>. QED  BY <2>1, <2>2, <3>1, <4>1, CountSecondsIs
    <3>3. ParseDateTime(Seconds(days, t)) = <<ParseDate(days), Clock(t)>>
      <4>1. days \in Nat
        BY <2>1, <2>4
      <4>. QED  BY <3>1, <4>1, From1970, SMT
    <3>. QED  BY <2>2, <3>2, <3>3, SMT DEF Seconds
  <2>5. ASSUME days < 0, NEW t \in Times
        PROVE  ParseDateTime(Seconds(days, t)) =
                 IF t = 0 THEN <<ParseDate(days - 1), Clock(0)>> ELSE <<date, Clock(t - 86400)>>
    <3>1. t \in Nat /\ t < 86400
      BY <2>3
    <3>2. CASE t = 0
      BY <2>1, <2>5, <3>2, MidnightBefore1970, SMT
    <3>3. CASE t # 0
      <4>1. ParseDateTime(Seconds(days, t)) = <<ParseDate(days), Clock(t - 86400)>>
        BY <2>1, <2>5, <3>1, <3>3, Before1970, SMT
      <4>2. ParseDateTime(Seconds(days, t)) = <<date, Clock(t - 86400)>>
        BY <2>1, <2>2, <3>1, <4>1, SMT
      <4>. QED  BY <3>3, <4>2, SMT
    <3>. QED  BY <3>2, <3>3
  <2>6. ASSUME days < 0, NEW t \in Times
        PROVE  ParseDateTime(days * 86400 + t) =
                 IF t = 0 THEN <<ParseDate(days - 1), Clock(0)>> ELSE <<date, Clock(t - 86400)>>
    BY <2>5, <2>6, SMT DEF Seconds
  <2>. QED  BY <2>4, <2>6, SMT DEF DateTimesSurvive
<1>. QED  BY <1>1, Invariance, PTL

\* The group the unit s is in, and the place of s in it, as the code finds it.
LEMMA Rest ==
  ASSUME NEW s \in Int, NEW k \in Nat \ {0}, NEW u \in Nat \ {0}, NEW p \in Nat, p < u
  PROVE  LET x == Units(s, u, p)
             b == Group(k, u)
         IN  /\ x \in Int /\ b \in Nat \ {0} /\ x \div b = s \div k /\ x % b = Units(s % k, u, p)
             /\ Quot(IF Rem(x, b) < 0 THEN Rem(x, b) + b ELSE Rem(x, b), u) = s % k
<1>. DEFINE x == Units(s, u, p)
            b == Group(k, u)
<1>1. /\ Units(s, u, p) \div Group(k, u) = s \div k
      /\ Units(s, u, p) % Group(k, u) = Units(s % k, u, p)
      /\ Units(s, u, p) \in Int /\ Group(k, u) \in Nat \ {0}
  BY Scaled, Zenon
<1>2. x \in Int /\ b \in Nat \ {0} /\ x \div b = s \div k /\ x % b = Units(s % k, u, p)
  BY <1>1, Zenon
<1>. HIDE DEF x, b
<1>3. (IF Rem(x, b) < 0 THEN Rem(x, b) + b ELSE Rem(x, b)) = x % b
  BY <1>2, Lifted, Zenon
<1>4. s % k \in Nat
  BY SMT
<1>5. Quot(Units(s % k, u, p), u) = s % k
  BY <1>4, Groups, Zenon
<1>6. Quot(IF Rem(x, b) < 0 THEN Rem(x, b) + b ELSE Rem(x, b), u) = s % k
  BY <1>2, <1>3, <1>5, Zenon
<1>. QED  BY <1>2, <1>6, Zenon DEF x, b

Day == 86400

LEMMA DayTimeIs ==
  ASSUME NEW n \in Int, NEW t \in Nat, t < Day, NEW u \in Nat \ {0}, NEW p \in Nat, p < u,
         NEW x, x = Units(Seconds(n, t), u, p), NEW b, b = Group(Day, u)
  PROVE  /\ x \in Int /\ b \in Nat \ {0} /\ x \div b = n /\ x % b = Units(t, u, p)
         /\ DayTime(x, u) = Clock(t)
<1>1. Day \in Nat \ {0}
  BY SMT DEF Day
<1>2. Seconds(n, t) \in Int /\ Seconds(n, t) \div Day = n /\ Seconds(n, t) % Day = t
  BY SMT DEF Seconds, Day
<1>3. /\ x \in Int /\ b \in Nat \ {0} /\ x \div b = Seconds(n, t) \div Day
      /\ x % b = Units(Seconds(n, t) % Day, u, p)
      /\ Quot(IF Rem(x, b) < 0 THEN Rem(x, b) + b ELSE Rem(x, b), u) = Seconds(n, t) % Day
  <2>1. PICK s \in Int, k \in Nat \ {0} : s = Seconds(n, t) /\ k = Day
    BY <1>1, <1>2, Zenon
  <2>2. LET y == Units(s, u, p)
            c == Group(k, u)
        IN  /\ y \in Int /\ c \in Nat \ {0} /\ y \div c = s \div k /\ y % c = Units(s % k, u, p)
            /\ Quot(IF Rem(y, c) < 0 THEN Rem(y, c) + c ELSE Rem(y, c), u) = s % k
    BY Rest, Zenon
  <2>. QED  BY <2>1, <2>2, Zenon
<1>4. b = 86400 * u
  BY SMT DEF Group, Day
<1>5. DayTime(x, u) = Clock(Quot(IF Rem(x, b) < 0 THEN Rem(x, b) + b ELSE Rem(x, b), u))
  BY <1>4, SMT DEF DayTime
<1>. QED  BY <1>2, <1>3, <1>5, Zenon

\* A TIMESTAMP is cut into its day and its time of day, before 1970 too.
THEOREM TimestampsCorrect == Spec => []TimestampsSurvive
<1>1. IInv => TimestampsSurvive
  <2>. SUFFICES ASSUME IInv PROVE TimestampsSurvive
    OBVIOUS
  <2>1. days \in Int /\ Milli \in Nat \ {0}
    BY Bounds, WalkAssumption, SMT DEF IInv
  <2>2. ParseDate(days) = date
    BY Dates, SMT DEF DatesSurvive
  <2>3. ASSUME NEW t \in Times, NEW part \in {0, Milli - 1}
        PROVE  ParseTimestamp((days * 86400 + t) * Milli + part) = <<date, Clock(t)>>
    <3>1. t \in Nat /\ t < Day /\ part \in Nat /\ part < Milli
      BY <2>1, WalkAssumption, SMT DEF Day
    <3>2. PICK n, b : n = Units(Seconds(days, t), Milli, part) /\ b = Group(Day, Milli)
      BY SMT
    <3>3. n = (days * 86400 + t) * Milli + part
      BY <2>1, <3>1, <3>2, SMT DEF Units, Seconds
    <3>4. n \div b = days /\ DayTime(n, Milli) = Clock(t)
      BY <2>1, <3>1, <3>2, DayTimeIs
    <3>5. ParseTimestamp(n) = <<ParseDate(days), Clock(t)>>
      BY <3>2, <3>4, SMT DEF ParseTimestamp, Group, Day
    <3>6. ParseTimestamp(n) = <<date, Clock(t)>>
      BY <2>2, <3>5, SMT
    <3>. QED  BY <2>1, <3>1, <3>3, <3>6, SMT
  <2>. QED  BY <2>3, SMT DEF TimestampsSurvive
<1>. QED  BY <1>1, Invariance, PTL

-----------------------------------------------------------------------------
(* Nanoseconds as doubles.                                                 *)

LEMMA NanosAre ==
  /\ Nano \in Nat \ {0} /\ LongDays \in Nat /\ Precision \in Nat \ {0}
  /\ NanosPerDay \in Nat \ {0} /\ NanosPerDay > 1
<1>. QED  BY WalkAssumption, DoubleAssumption, SMT DEF NanosPerDay

LEMMA DivMonotonic ==
  ASSUME NEW a \in Nat, NEW b \in Nat, a =< b, NEW c \in Nat \ {0}
  PROVE  a \div c \in Nat /\ b \div c \in Nat /\ a \div c =< b \div c
<1>1. PICK p \in Nat, r \in Nat : p = a \div c /\ r < c /\ a = c * p + r
  OBVIOUS
<1>2. PICK q \in Nat, s \in Nat : q = b \div c /\ s < c /\ b = c * q + s
  OBVIOUS
<1>3. ~(q < p)
  <2>. SUFFICES ASSUME q < p PROVE FALSE
    OBVIOUS
  <2>1. (q + 1) * c =< p * c
    BY TimesMonotonic
  <2>2. (q + 1) * c = c * q + c /\ p * c = c * p
    OBVIOUS
  <2>. QED  BY <1>1, <1>2, <2>1, <2>2
<1>. QED  BY <1>1, <1>2, <1>3

LEMMA DivBelow ==
  ASSUME NEW a \in Nat, NEW b \in Nat, NEW c \in Nat \ {0}, a < b * c
  PROVE  a \div c \in Nat /\ a \div c < b
<1>1. PICK p \in Nat, r \in Nat : p = a \div c /\ a = c * p + r
  OBVIOUS
<1>2. ~(b =< p)
  <2>. SUFFICES ASSUME b =< p PROVE FALSE
    OBVIOUS
  <2>1. b * c =< p * c
    BY TimesMonotonic
  <2>2. p * c = c * p /\ b * c \in Nat /\ c * p \in Nat
    BY Product
  <2>. QED  BY <1>1, <2>1, <2>2
<1>. QED  BY <1>1, <1>2

LEMMA Divides ==
  ASSUME NEW a \in Nat, NEW b \in Nat \ {0}, a % b = 0 PROVE \E h \in Nat : a = b * h
<1>1. PICK q \in Nat, r \in Nat : q = a \div b /\ r = a % b /\ a = b * q + r
  OBVIOUS
<1>2. b * q \in Nat
  BY Product
<1>. QED  BY <1>1, <1>2

LEMMA PowerIs ==
  ASSUME NEW x \in Nat \ {0}, x =< LongDays + 1 \/ x =< Span, Span \in Nat
  PROVE  /\ Power(x) \in Nat \ {0} /\ Power(x) < Precision /\ Power(x) =< x
         /\ Power(x) =< Span => NanosPerDay % (2 * Power(x)) = 0
<1>1. x \in (1 .. LongDays + 1) \cup (1 .. Span)
  BY NanosAre
<1>2. \E p \in Powers : p =< x /\ x < 2 * p
  BY <1>1, DoubleAssumption
<1>3. PICK p \in Powers : p = Power(x) /\ p =< x
  BY <1>2 DEF Power
<1>4. p \in 1 .. Precision - 1
  BY <1>3, DoubleAssumption
<1>5. p =< Span => NanosPerDay % (2 * p) = 0
  BY <1>3, DoubleAssumption, SMT DEF NanosPerDay
<1>. QED  BY <1>3, <1>4, <1>5, NanosAre

\* The doubles around n are as far apart as a divisor of a day.
LEMMA UlpIs ==
  ASSUME NEW n \in Nat, n =< (LongDays + 1) * NanosPerDay
  PROVE  /\ Ulp(n) \in Nat \ {0}
         /\ n < Precision => Ulp(n) = 1
         /\ n >= Precision => \E p \in Nat \ {0} : Ulp(n) = 2 * p
         /\ \E h \in Nat \ {0} : NanosPerDay = Ulp(n) * h
<1>1. CASE n < Precision
  <2>1. Ulp(n) = 1
    BY <1>1 DEF Ulp
  <2>. QED  BY <1>1, <2>1, NanosAre
<1>2. CASE n >= Precision
  <2>1. PICK N \in Nat : N = (LongDays + 1) * NanosPerDay /\ n =< N /\ Span = N \div Precision
    <3>1. (LongDays + 1) * NanosPerDay \in Nat
      BY NanosAre, Product
    <3>. QED  BY <3>1 DEF Span
  <2>2. PICK x \in Nat : x = n \div Precision /\ x =< Span /\ Span \in Nat
    BY <2>1, NanosAre, DivMonotonic
  <2>3. x # 0
    BY <1>2, <2>2, NanosAre
  <2>4. PICK p \in Nat \ {0} : p = Power(x) /\ NanosPerDay % (2 * p) = 0
    BY <2>2, <2>3, PowerIs
  <2>5. PICK g \in Nat \ {0} : g = 2 * p /\ g = Ulp(n)
    BY <1>2, <2>2, <2>4, NanosAre DEF Ulp
  <2>6. PICK h \in Nat : NanosPerDay = g * h
    <3>1. NanosPerDay % g = 0
      BY <2>4, <2>5, Zenon
    <3>2. PICK b : b = NanosPerDay
      OBVIOUS
    <3>. QED  BY <3>1, <3>2, NanosAre, Divides
  <2>7. h # 0
    BY <2>6, NanosAre
  <2>. QED  BY <1>2, <2>4, <2>5, <2>6, <2>7, NanosAre
<1>. QED  BY <1>1, <1>2, NanosAre

\* The nearest double stays within the multiples of the distance.
LEMMA NearestIs ==
  ASSUME NEW n \in Nat, NEW g \in Nat \ {0}, g = Ulp(n)
  PROVE  /\ Nearest(n) \in Int /\ 2 * (Nearest(n) - n) =< g /\ 2 * (n - Nearest(n)) =< g
         /\ g = 1 => Nearest(n) = n
         /\ \A m \in Int : (m * g =< n => m * g =< Nearest(n)) /\ (n =< m * g => Nearest(n) =< m * g)
<1>1. PICK q \in Nat, r \in Nat : q = n \div g /\ r = n % g /\ r < g /\ n = g * q + r
  OBVIOUS
<1>2. PICK x \in Nat : x = g * q /\ n = x + r
  BY <1>1, Product
<1>3. /\ n = x + r /\ r < g
      /\ (Nearest(n) = x /\ 2 * r =< g) \/ (Nearest(n) = x + g /\ 2 * r >= g)
  <2>1. Nearest(n) = IF 2 * r < g \/ (2 * r = g /\ q % 2 = 0) THEN x ELSE x + g
    <3>1. Nearest(n) = IF 2 * r < g \/ (2 * r = g /\ q % 2 = 0) THEN n - r ELSE (n - r) + g
      BY <1>1, Zenon DEF Nearest
    <3>2. n - r = x
      BY <1>2
    <3>. QED  BY <3>1, <3>2, Zenon
  <2>2. CASE 2 * r < g \/ (2 * r = g /\ q % 2 = 0)
    <3>1. Nearest(n) = x
      BY <2>1, <2>2, Zenon
    <3>2. 2 * r =< g
      <4>1. 2 * r < g \/ 2 * r = g
        BY <2>2, Zenon
      <4>. QED  BY <4>1
    <3>. QED  BY <1>1, <1>2, <3>1, <3>2, Zenon
  <2>3. CASE ~(2 * r < g \/ (2 * r = g /\ q % 2 = 0))
    <3>1. Nearest(n) = x + g
      BY <2>1, <2>3, Zenon
    <3>2. 2 * r >= g
      <4>1. ~(2 * r < g)
        BY <2>3, Zenon
      <4>. QED  BY <1>1, <4>1
    <3>. QED  BY <1>1, <1>2, <3>1, <3>2, Zenon
  <2>. QED  BY <2>2, <2>3
<1>4. ASSUME NEW m \in Int PROVE (m * g =< n => m =< q) /\ (n =< m * g => q =< m /\ (r > 0 => q + 1 =< m))
  <2>1. ASSUME NEW a \in Int, NEW b \in Int, a < b PROVE a * g + g =< b * g
    <3>1. (a + 1) * g =< b * g
      BY <2>1, TimesMonotonic
    <3>2. (a + 1) * g = a * g + g
      OBVIOUS
    <3>. QED  BY <3>1, <3>2
  <2>2. PICK y \in Int : y = m * g /\ q * g = x
    BY <1>2
  <2>3. ASSUME y =< n, q < m PROVE FALSE
    <3>1. x + g =< y
      BY <2>1, <2>2, <2>3
    <3>. QED  BY <1>1, <1>2, <2>3, <3>1
  <2>4. ASSUME n =< y, m < q PROVE FALSE
    <3>1. y + g =< x
      BY <2>1, <2>2, <2>4
    <3>. QED  BY <1>1, <1>2, <2>4, <3>1
  <2>5. ASSUME n =< y, r > 0, m = q PROVE FALSE
    <3>1. y = x
      BY <2>2, <2>5
    <3>. QED  BY <1>1, <1>2, <2>5, <3>1
  <2>. QED  BY <2>2, <2>3, <2>4, <2>5
<1>5. ASSUME NEW m \in Int
      PROVE  (m * g =< n => m * g =< Nearest(n)) /\ (n =< m * g => Nearest(n) =< m * g)
  <2>. PICK y \in Int : y = m * g
    OBVIOUS
  <2>1. ASSUME y =< n PROVE y =< x
    <3>1. m * g =< q * g
      BY <1>4, <2>1, TimesMonotonic
    <3>2. q * g = x
      BY <1>2
    <3>. QED  BY <3>1, <3>2
  <2>2. ASSUME n =< y PROVE x =< y /\ (r > 0 => x + g =< y)
    <3>1. q * g =< m * g
      BY <1>4, <2>2, TimesMonotonic
    <3>2. r > 0 => (q + 1) * g =< m * g
      BY <1>4, <2>2, TimesMonotonic
    <3>3. q * g = x /\ (q + 1) * g = x + g
      BY <1>2
    <3>. QED  BY <3>1, <3>2, <3>3
  <2>3. (y =< n => y =< Nearest(n)) /\ (n =< y => Nearest(n) =< y)
    <3>1. PICK z : z = Nearest(n)
      OBVIOUS
    <3>2. (z = x /\ 2 * r =< g) \/ (z = x + g /\ 2 * r >= g)
      BY <1>3, <3>1, Zenon
    <3>. QED  BY <1>3, <2>1, <2>2, <3>1, <3>2
  <2>. QED  BY <2>3
<1>6. /\ Nearest(n) \in Int /\ 2 * (Nearest(n) - n) =< g /\ 2 * (n - Nearest(n)) =< g
      /\ g = 1 => Nearest(n) = n
  <2>1. PICK z : z = Nearest(n)
    OBVIOUS
  <2>2. (z = x /\ 2 * r =< g) \/ (z = x + g /\ 2 * r >= g)
    BY <1>3, <2>1, Zenon
  <2>. QED  BY <1>3, <2>1, <2>2
<1>. QED  BY <1>5, <1>6

\* Between two midnights the nearest double is too.
LEMMA NearestBetween ==
  ASSUME NEW n \in Nat, n =< (LongDays + 1) * NanosPerDay, NEW k \in Int,
         k * NanosPerDay =< n, n =< (k + 1) * NanosPerDay
  PROVE  /\ Nearest(n) \in Int
         /\ k * NanosPerDay =< Nearest(n) /\ Nearest(n) =< (k + 1) * NanosPerDay
         /\ 2 * (Nearest(n) - n) =< Ulp(n) /\ 2 * (n - Nearest(n)) =< Ulp(n)
         /\ n < Precision => Nearest(n) = n
<1>1. PICK g \in Nat \ {0}, h \in Nat \ {0} : g = Ulp(n) /\ NanosPerDay = g * h /\ (n < Precision => g = 1)
  <2>1. PICK h \in Nat \ {0} : NanosPerDay = Ulp(n) * h
    BY UlpIs
  <2>2. Ulp(n) \in Nat \ {0} /\ (n < Precision => Ulp(n) = 1)
    BY UlpIs, Zenon
  <2>. QED  BY <2>1, <2>2, Zenon
<1>2. ASSUME NEW m \in Int
      PROVE  (m * NanosPerDay =< n => m * NanosPerDay =< Nearest(n))
             /\ (n =< m * NanosPerDay => Nearest(n) =< m * NanosPerDay)
  <2>1. PICK j \in Int : j = m * h /\ j * g = m * NanosPerDay
    <3>1. (m * h) * g = m * (g * h)
      OBVIOUS
    <3>. QED  BY <1>1, <3>1
  <2>2. (j * g =< n => j * g =< Nearest(n)) /\ (n =< j * g => Nearest(n) =< j * g)
    BY <1>1, NearestIs
  <2>. QED  BY <2>1, <2>2
<1>3. /\ Nearest(n) \in Int /\ 2 * (Nearest(n) - n) =< g /\ 2 * (n - Nearest(n)) =< g
      /\ g = 1 => Nearest(n) = n
  BY <1>1, NearestIs
<1>4. k * NanosPerDay =< Nearest(n)
  BY <1>2
<1>5. Nearest(n) =< (k + 1) * NanosPerDay
  BY <1>2
<1>. QED  BY <1>1, <1>3, <1>4, <1>5, Zenon

Size(n) == IF n >= 0 THEN n ELSE -n

\* So is the double of any number of nanoseconds, of either sign.
LEMMA DoubleIs ==
  ASSUME NEW k \in -LongDays .. LongDays, NEW r \in Nat, r < NanosPerDay,
         NEW n \in Int, n = k * NanosPerDay + r
  PROVE  /\ Size(n) \in Nat /\ Size(n) =< (LongDays + 1) * NanosPerDay
         /\ Double(n) \in Int
         /\ k * NanosPerDay =< Double(n) /\ Double(n) =< (k + 1) * NanosPerDay
         /\ 2 * (Double(n) - n) =< Ulp(Size(n))
         /\ Size(n) < Precision => Double(n) = n
<1>1. PICK b \in Nat \ {0} : b = NanosPerDay /\ LongDays \in Nat
  BY NanosAre
<1>2. k \in Int /\ -LongDays =< k /\ k =< LongDays
  BY <1>1
<1>3. PICK l \in Nat, x \in Int : l = LongDays * b /\ x = k * b /\ -l =< x /\ x =< l
  <2>1. (-LongDays) * b =< k * b /\ k * b =< LongDays * b
    BY <1>1, <1>2, TimesMonotonic
  <2>2. LongDays * b \in Nat /\ k * b \in Int /\ (-LongDays) * b = -(LongDays * b)
    BY <1>1, <1>2, Product
  <2>. QED  BY <2>1, <2>2
<1>4. (k + 1) * b = x + b /\ (LongDays + 1) * b = l + b
  BY <1>1, <1>2, <1>3
<1>5. n = x + r /\ r < b
  BY <1>1, <1>3
<1>6. CASE n >= 0
  <2>1. n \in Nat /\ n =< (LongDays + 1) * NanosPerDay /\ k * NanosPerDay =< n /\ n =< (k + 1) * NanosPerDay
    BY <1>1, <1>3, <1>4, <1>5, <1>6
  <2>2. Size(n) = n /\ Double(n) = Nearest(n)
    BY <1>6, Zenon DEF Size, Double
  <2>. QED  BY <1>2, <2>1, <2>2, NearestBetween
<1>7. CASE ~(n >= 0)
  <2>1. PICK m \in Nat, j \in Int : m = -n /\ j = -(k + 1)
    BY <1>2, <1>7
  <2>2. j * b = -(x + b) /\ (j + 1) * b = -x
    <3>1. (-(k + 1)) * b = -((k + 1) * b) /\ (-(k + 1) + 1) * b = -(k * b)
      BY <1>1, <1>2
    <3>. QED  BY <1>3, <1>4, <2>1, <3>1
  <2>3. m =< (LongDays + 1) * NanosPerDay /\ j * NanosPerDay =< m /\ m =< (j + 1) * NanosPerDay
    BY <1>1, <1>3, <1>4, <1>5, <1>7, <2>1, <2>2
  <2>4. Size(n) = m /\ Double(n) = -Nearest(m)
    BY <1>7, <2>1, Zenon DEF Size, Double
  <2>5. PICK y \in Int : /\ y = Nearest(m) /\ j * b =< y /\ y =< (j + 1) * b
                        /\ 2 * (m - y) =< Ulp(m) /\ (m < Precision => y = m)
    BY <1>1, <2>3, NearestBetween
  <2>6. k * NanosPerDay =< -y /\ -y =< (k + 1) * NanosPerDay
    BY <1>1, <1>3, <1>4, <2>2, <2>5
  <2>7. -y - n = m - y /\ (y = m => -y = n)
    BY <2>1
  <2>. QED  BY <2>3, <2>4, <2>5, <2>6, <2>7
<1>. QED  BY <1>6, <1>7

LEMMA HalfPlaceIs ==
  ASSUME NEW k \in Nat, k =< LongDays + 1
  PROVE  /\ HalfPlace(k) \in Nat /\ HalfPlace(k) < NanosPerDay
         /\ k * NanosPerDay < Precision => HalfPlace(k) = 0
<1>1. HalfPlace(k) = (NanosPerDay * Power(k)) \div Precision
  BY Zenon DEF HalfPlace
<1>2. Power(k) \in Nat /\ Power(k) < Precision /\ Power(k) =< k
  <2>1. CASE k = 0
    BY <2>1, NanosAre DEF Power
  <2>2. CASE k # 0
    <3>1. Span \in Nat
      <4>1. PICK N \in Nat : N = (LongDays + 1) * NanosPerDay
        BY NanosAre, Product
      <4>2. N \div Precision \in Nat
        BY NanosAre, DivMonotonic
      <4>. QED  BY <4>1, <4>2, Zenon DEF Span
    <3>. QED  BY <2>2, <3>1, PowerIs, NanosAre
  <2>. QED  BY <2>1, <2>2
<1>3. PICK p \in Nat, b \in Nat \ {0} : p = Power(k) /\ b = NanosPerDay
  BY <1>2, NanosAre
<1>4. PICK a \in Nat : a = b * p /\ a = p * b
  BY Product
<1>5. HalfPlace(k) \in Nat /\ HalfPlace(k) < b
  <2>1. (p + 1) * b =< Precision * b
    BY <1>2, <1>3, NanosAre, TimesMonotonic
  <2>2. (p + 1) * b = p * b + b /\ Precision * b = b * Precision
    BY NanosAre
  <2>3. a < b * Precision
    <3>1. PICK c \in Nat : c = b * Precision
      BY NanosAre, Product
    <3>. QED  BY <1>4, <2>1, <2>2, <3>1
  <2>. QED  BY <1>1, <1>3, <1>4, <2>3, NanosAre, DivBelow
<1>6. ASSUME k * NanosPerDay < Precision PROVE HalfPlace(k) = 0
  <2>1. p * b =< k * b
    BY <1>2, <1>3, TimesMonotonic
  <2>2. a < 1 * Precision
    BY <1>3, <1>4, <1>6, <2>1, NanosAre
  <2>3. a \div Precision \in Nat /\ a \div Precision < 1
    BY <2>2, NanosAre, DivBelow
  <2>. QED  BY <1>1, <1>3, <1>4, <2>3
<1>. QED  BY <1>3, <1>5, <1>6

Whole(k) == IF k >= 0 THEN k ELSE -(k + 1)

LEMMA WholeIs ==
  ASSUME NEW k \in -LongDays .. LongDays, NEW r \in Nat, r < NanosPerDay,
         NEW n \in Int, n = k * NanosPerDay + r
  PROVE  Whole(k) \in Nat /\ Whole(k) =< LongDays /\ Whole(k) * NanosPerDay =< Size(n)
<1>1. PICK b \in Nat \ {0} : b = NanosPerDay
  BY NanosAre
<1>2. k \in Int /\ -LongDays =< k /\ k =< LongDays /\ LongDays \in Nat
  BY NanosAre
<1>3. CASE k >= 0
  <2>1. Whole(k) = k /\ k * b \in Nat
    BY <1>2, <1>3, Product DEF Whole
  <2>. QED  BY <1>1, <1>2, <1>3, <2>1 DEF Size
<1>4. CASE ~(k >= 0)
  <2>1. PICK j \in Nat : j = -(k + 1) /\ j = Whole(k)
    BY <1>2, <1>4 DEF Whole
  <2>2. PICK x \in Nat : x = j * b
    BY Product
  <2>3. k * b = -x - b
    BY <1>2, <2>1, <2>2
  <2>4. n < 0 /\ -n >= x
    BY <1>1, <2>2, <2>3
  <2>. QED  BY <1>1, <1>2, <1>4, <2>1, <2>2, <2>4 DEF Size
<1>. QED  BY <1>3, <1>4

\* The day of a double is that of the number, or the next one within the two
\* roundings of midnight.
LEMMA DoubleDayIs ==
  ASSUME NEW k \in -LongDays .. LongDays, NEW r \in Nat, r < NanosPerDay,
         NEW n \in Int, n = k * NanosPerDay + r
  PROVE  /\ \/ DoubleDay(n) = k
            \/ /\ DoubleDay(n) = k + 1 /\ Size(n) >= Precision
               /\ NanosPerDay - r =< Ulp(Size(n)) \div 2 + HalfPlace(Whole(k))
         /\ Double(n) = (k + 1) * NanosPerDay => DoubleDay(n) = k + 1
<1>1. PICK b \in Nat \ {0} : b = NanosPerDay /\ r < b
  BY NanosAre
<1>2. k \in Int /\ -LongDays =< k /\ k =< LongDays /\ LongDays \in Nat
  BY NanosAre
<1>3. PICK x \in Int : x = k * b /\ (k + 1) * b = x + b /\ n = x + r
  BY <1>1, <1>2
<1>4. PICK D \in Int : /\ D = Double(n) /\ x =< D /\ D =< x + b /\ 2 * (D - n) =< Ulp(Size(n))
                      /\ (Size(n) < Precision => D = n)
  BY <1>1, <1>3, DoubleIs
<1>5. Size(n) \in Nat /\ Size(n) =< (LongDays + 1) * NanosPerDay
  BY DoubleIs
<1>6. PICK g \in Nat \ {0} : g = Ulp(Size(n))
  BY <1>5, UlpIs, Zenon
<1>7. PICK half \in Nat : /\ half = HalfPlace(Whole(k)) /\ half < b
                         /\ (Size(n) < Precision => half = 0)
  <2>1. PICK w \in Nat : w = Whole(k) /\ w =< LongDays /\ w * NanosPerDay =< Size(n)
    BY WholeIs
  <2>2. HalfPlace(w) \in Nat /\ HalfPlace(w) < NanosPerDay /\ (w * NanosPerDay < Precision => HalfPlace(w) = 0)
    BY <1>2, <2>1, HalfPlaceIs
  <2>3. w * NanosPerDay \in Nat
    BY <1>1, Product
  <2>. QED  BY <1>1, <1>5, <2>1, <2>2, <2>3, NanosAre
<1>8. DoubleDay(n) = IF b - (D % b) =< HalfPlace(Whole(D \div b)) THEN D \div b + 1 ELSE D \div b
  BY <1>1, <1>4, Zenon DEF DoubleDay, Whole
<1>9. CASE D = x + b
  <2>1. D = b * (k + 1) + 0
    BY <1>1, <1>2, <1>3, <1>9
  <2>2. D \div b = k + 1 /\ D % b = 0
    BY <1>2, <2>1, DivUnique
  <2>3. ~(b =< HalfPlace(Whole(k + 1)))
    <3>1. Whole(k + 1) \in Nat /\ Whole(k + 1) =< LongDays + 1
      BY <1>2 DEF Whole
    <3>. QED  BY <1>1, <3>1, HalfPlaceIs
  <2>4. DoubleDay(n) = k + 1
    BY <1>8, <2>2, <2>3
  <2>5. b - r =< g \div 2
    BY <1>1, <1>3, <1>4, <1>6, <1>9
  <2>6. Size(n) >= Precision
    BY <1>1, <1>3, <1>4, <1>5, <1>9, NanosAre
  <2>7. b - r =< g \div 2 + half
    BY <1>1, <1>6, <1>7, <2>5
  <2>. QED  BY <1>1, <1>6, <1>7, <2>4, <2>6, <2>7, Zenon
<1>10. CASE D # x + b
  <2>1. PICK e \in Nat : e = D - x /\ e < b
    BY <1>1, <1>4, <1>10
  <2>2. D = b * k + e
    BY <1>1, <1>2, <1>3, <2>1
  <2>3. D \div b = k /\ D % b = e
    BY <1>2, <2>1, <2>2, DivUnique
  <2>4. DoubleDay(n) = IF b - e =< half THEN k + 1 ELSE k
    BY <1>7, <1>8, <2>3, Zenon
  <2>5. CASE b - e =< half
    <3>1. DoubleDay(n) = k + 1
      BY <2>4, <2>5, Zenon
    <3>2. b - r =< g \div 2 + half
      BY <1>1, <1>3, <1>4, <1>6, <2>1, <2>5
    <3>3. Size(n) >= Precision
      BY <1>1, <1>5, <1>7, <2>1, <2>5, NanosAre
    <3>. QED  BY <1>1, <1>6, <1>7, <3>1, <3>2, <3>3, Zenon
  <2>6. CASE ~(b - e =< half)
    BY <1>1, <1>3, <1>4, <1>10, <2>4, <2>6, Zenon
  <2>. QED  BY <2>5, <2>6
<1>. QED  BY <1>9, <1>10

\* The last nanosecond of a day beyond Precision is no double, and the next
\* midnight is the even one of its neighbours.
LEMMA LastIs ==
  ASSUME NEW k \in -LongDays .. LongDays, NEW n \in Int, n = k * NanosPerDay + (NanosPerDay - 1),
         Size(n) >= Precision
  PROVE  Double(n) = (k + 1) * NanosPerDay
<1>1. PICK b \in Nat \ {0} : b = NanosPerDay /\ b > 1
  BY NanosAre
<1>2. k \in Int /\ -LongDays =< k /\ k =< LongDays /\ LongDays \in Nat
  BY NanosAre
<1>3. Size(n) \in Nat /\ Size(n) =< (LongDays + 1) * NanosPerDay
  BY <1>1, DoubleIs
<1>4. PICK g \in Nat \ {0}, p \in Nat \ {0}, h \in Nat \ {0} : g = Ulp(Size(n)) /\ g = 2 * p /\ b = g * h
  <2>1. PICK p \in Nat \ {0} : Ulp(Size(n)) = 2 * p
    BY <1>3, UlpIs
  <2>2. PICK h \in Nat \ {0} : NanosPerDay = Ulp(Size(n)) * h
    BY <1>3, UlpIs
  <2>3. Ulp(Size(n)) \in Nat \ {0}
    BY <1>3, UlpIs, Zenon
  <2>. QED  BY <1>1, <2>1, <2>2, <2>3, Zenon
<1>5. PICK j \in Int : j = (k + 1) * h
  BY <1>2
<1>6. PICK y \in Int : y = (k + 1) * b /\ n = y - 1 /\ y = g * j
  <2>1. (k + 1) * (g * h) = g * ((k + 1) * h) /\ (k + 1) * b = k * b + b
    BY <1>2
  <2>. QED  BY <1>1, <1>2, <1>4, <1>5, <2>1
<1>7. g = 2 => j % 2 = 0
  <2>. SUFFICES ASSUME g = 2 PROVE j % 2 = 0
    OBVIOUS
  <2>1. 2 * h = 86400 * Nano /\ Nano \in Nat
    BY <1>1, <1>4, NanosAre, SMT DEF NanosPerDay
  <2>2. h = 2 * (21600 * Nano)
    BY <2>1, SMT
  <2>3. PICK w \in Int : w = (k + 1) * (21600 * Nano)
    BY <1>2, <2>1, SMT
  <2>4. (k + 1) * (2 * (21600 * Nano)) = 2 * ((k + 1) * (21600 * Nano))
    BY <1>2, <2>1, SMT
  <2>5. j = 2 * w
    <3>1. j = (k + 1) * (2 * (21600 * Nano))
      BY <1>5, <2>2, SMT
    <3>. QED  BY <2>3, <2>4, <3>1, SMT
  <2>. QED  BY <2>5
<1>8. CASE n >= 0
  <2>1. Size(n) = n /\ Double(n) = Nearest(n)
    BY <1>8, Zenon DEF Size, Double
  <2>2. PICK i \in Int, e \in Nat : i = j - 1 /\ e = g - 1 /\ e < g
    OBVIOUS
  <2>3. n = g * i + e
    <3>1. g * (j - 1) = g * j - g
      OBVIOUS
    <3>. QED  BY <1>6, <2>2, <3>1
  <2>4. n \div g = i /\ n % g = e
    BY <2>2, <2>3, DivUnique
  <2>5. ~(2 * e < g) /\ ~(2 * e = g /\ i % 2 = 0)
    <3>1. g >= 2 /\ (2 * e = g => g = 2) /\ ~(2 * e < g)
      BY <1>4, <2>2
    <3>2. g = 2 => i % 2 # 0
      BY <1>7, <2>2
    <3>. QED  BY <3>1, <3>2
  <2>6. Nearest(n) = (n - e) + g
    BY <1>4, <2>1, <2>4, <2>5, Zenon DEF Nearest
  <2>7. (n - e) + g = n + 1
    BY <2>2
  <2>8. Nearest(n) = y
    BY <1>6, <2>6, <2>7
  <2>. QED  BY <1>1, <1>6, <2>1, <2>8
<1>9. CASE ~(n >= 0)
  <2>1. PICK m \in Nat : m = -n
    BY <1>9
  <2>2. Size(n) = m /\ Double(n) = -Nearest(m)
    BY <1>9, <2>1, Zenon DEF Size, Double
  <2>3. m = g * (-j) + 1 /\ 1 < g
    BY <1>4, <1>6, <2>1
  <2>4. m \div g = -j /\ m % g = 1
    BY <2>3, DivUnique
  <2>5. 2 * 1 < g \/ (2 * 1 = g /\ (-j) % 2 = 0)
    BY <1>4, <1>7
  <2>6. Nearest(m) = m - 1
    BY <1>4, <2>2, <2>4, <2>5, Zenon DEF Nearest
  <2>. QED  BY <1>1, <1>6, <2>1, <2>2, <2>6
<1>. QED  BY <1>8, <1>9

LEMMA DivisionIs ==
  ASSUME NEW a \in Int, NEW b \in Nat \ {0}
  PROVE  \E q \in Int, r \in Nat : q = a \div b /\ r = a % b /\ r < b /\ a = b * q + r
<1>. QED  OBVIOUS

\* n, "left" before the next midnight, is read as today or, rounded, as tomorrow.
TodayOrRounded(n, t, left) ==
  \/ ParseNanotimestamp(n) = <<date, Clock(t)>> /\ (left = 1 => Size(n) < Precision)
  \/ /\ ParseNanotimestamp(n) = <<ParseDate(days + 1), Clock(t)>> /\ Size(n) >= Precision
     /\ left =< Ulp(Size(n)) \div 2 + HalfPlace(Whole(days))

\* A NANOTIMESTAMP is cut into its day and its time of day, but within the
\* roundings of its number to a double and of the quotient the day may be the
\* next one, and in the last unit of a day that is no double it always is.
THEOREM NanotimestampsCorrect == Spec => []NanotimestampsSurvive
<1>1. IInv => NanotimestampsSurvive
  <2>. SUFFICES ASSUME IInv PROVE NanotimestampsSurvive
    OBVIOUS
  <2>1. days \in Int
    BY Bounds, SMT DEF IInv
  <2>2. ParseDate(days) = date
    BY Dates, SMT DEF DatesSurvive
  <2>3. ASSUME days \in -LongDays .. LongDays, NEW t \in Times, NEW part \in 0 .. Nano - 1
        PROVE  TodayOrRounded((days * 86400 + t) * Nano + part, t, NanosPerDay - (t * Nano + part))
    <3>1. t \in Nat /\ t < Day /\ part \in Nat /\ part < Nano
      BY <2>3, NanosAre, WalkAssumption, SMT DEF Day
    <3>2. PICK n, b : n = Units(Seconds(days, t), Nano, part) /\ b = Group(Day, Nano)
      BY Zenon
    <3>3. n = (days * 86400 + t) * Nano + part
      BY <2>1, <3>1, <3>2, SMT DEF Units, Seconds
    <3>4. b = NanosPerDay
      BY <3>2, SMT DEF Group, Day, NanosPerDay
    <3>5. /\ n \in Int /\ b \in Nat \ {0} /\ n \div b = days /\ n % b = Units(t, Nano, part)
          /\ DayTime(n, Nano) = Clock(t)
      BY <2>1, <3>1, <3>2, NanosAre, DayTimeIs
    <3>6. PICK r \in Nat : r < NanosPerDay /\ r = t * Nano + part /\ n = days * NanosPerDay + r
      <4>1. PICK q \in Int, e \in Nat : q = n \div b /\ e = n % b /\ e < b /\ n = b * q + e
        BY <3>5, DivisionIs
      <4>2. q = days /\ e = t * Nano + part
        BY <3>5, <4>1, Zenon DEF Units
      <4>3. n = b * days + e
        BY <4>1, <4>2, Zenon
      <4>4. b * days = days * b
        BY <2>1, <3>5
      <4>5. n = days * NanosPerDay + e
        BY <3>4, <4>3, <4>4, Zenon
      <4>. QED  BY <3>4, <4>1, <4>2, <4>5, Zenon
    <3>7. ParseNanotimestamp(n) = <<ParseDate(DoubleDay(n)), Clock(t)>>
      BY <3>5, Zenon DEF ParseNanotimestamp
    <3>8. /\ \/ DoubleDay(n) = days
             \/ /\ DoubleDay(n) = days + 1 /\ Size(n) >= Precision
                /\ NanosPerDay - r =< Ulp(Size(n)) \div 2 + HalfPlace(Whole(days))
          /\ Double(n) = (days + 1) * NanosPerDay => DoubleDay(n) = days + 1
      BY <2>3, <3>5, <3>6, DoubleDayIs
    <3>9. Size(n) >= Precision /\ NanosPerDay - r = 1 => DoubleDay(n) # days
      <4>. SUFFICES ASSUME Size(n) >= Precision, NanosPerDay - r = 1 PROVE DoubleDay(n) = days + 1 /\ days + 1 # days
        BY Zenon
      <4>1. n = days * NanosPerDay + (NanosPerDay - 1)
        BY <3>6, NanosAre
      <4>2. Double(n) = (days + 1) * NanosPerDay
        BY <2>3, <3>5, <4>1, LastIs
      <4>. QED  BY <2>1, <3>8, <4>2
    <3>10. Size(n) \in Nat
      BY <3>5 DEF Size
    <3>. SUFFICES TodayOrRounded(n, t, NanosPerDay - r)
      BY <3>3, <3>6, SMT
    <3>11. CASE DoubleDay(n) = days
      <4>1. ParseNanotimestamp(n) = <<date, Clock(t)>>
        BY <2>2, <3>7, <3>11, Zenon
      <4>2. NanosPerDay - r = 1 => Size(n) < Precision
        BY <3>9, <3>10, <3>11, NanosAre
      <4>. QED  BY <4>1, <4>2, Zenon DEF TodayOrRounded
    <3>12. CASE DoubleDay(n) # days
      <4>1. ParseNanotimestamp(n) = <<ParseDate(days + 1), Clock(t)>>
        BY <3>7, <3>8, <3>12, Zenon
      <4>. QED  BY <3>8, <3>12, <4>1, Zenon DEF TodayOrRounded
    <3>. QED  BY <3>11, <3>12, Zenon
  <2>. QED  BY <2>3, SMT DEF NanotimestampsSurvive, TodayOrRounded, Size, Whole
<1>. QED  BY <1>1, Invariance, PTL

=============================================================================
