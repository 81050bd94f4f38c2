--------------------------- MODULE Calendar_proofs ---------------------------
(***************************************************************************)
(* The local time and the week day of Calendar, proved for every instant,  *)
(* zone and order of calls: its carries and its counts of days agree with  *)
(* the Gregorian calendar.                                                 *)
(***************************************************************************)
EXTENDS MCCalendar, WellFoundedInduction, TLAPS

(* A date that exists.                                                     *)
IsDate(y, m, d) == y \in Int /\ m \in 1 .. 12 /\ d \in 1 .. LastDay(y, m)

(* Days before the year y, and before the month m in it.                   *)
YearStart(y) == 365 * (y - 1) + (y - 1) \div 4 - (y - 1) \div 100 + (y - 1) \div 400
MonthStart(y, m) == DaysBefore[m] + (IF m > 2 /\ IsLeapYear(y) THEN 1 ELSE 0)

(* Dividing by n grows by one when a multiple of n is reached.             *)
LEMMA QuotientStep ==
  ASSUME NEW y \in Int
  PROVE  /\ y \div 4 - (y - 1) \div 4 = IF y % 4 = 0 THEN 1 ELSE 0
         /\ y \div 100 - (y - 1) \div 100 = IF y % 100 = 0 THEN 1 ELSE 0
         /\ y \div 400 - (y - 1) \div 400 = IF y % 400 = 0 THEN 1 ELSE 0
<1>1. y \div 4 - (y - 1) \div 4 = IF y % 4 = 0 THEN 1 ELSE 0  OBVIOUS
<1>2. y \div 100 - (y - 1) \div 100 = IF y % 100 = 0 THEN 1 ELSE 0  OBVIOUS
<1>3. y \div 400 - (y - 1) \div 400 = IF y % 400 = 0 THEN 1 ELSE 0  OBVIOUS
<1> QED  BY <1>1, <1>2, <1>3

(* The days before a year are a number.                                    *)
LEMMA YearStartInt == ASSUME NEW y \in Int PROVE YearStart(y) \in Int
  BY DEF YearStart

(* A year is followed by the next after 365 or 366 days.                   *)
LEMMA YearLength ==
  ASSUME NEW y \in Int
  PROVE  YearStart(y + 1) = YearStart(y) + (IF IsLeapYear(y) THEN 366 ELSE 365)
<1> DEFINE a == y \div 4
           b == y \div 100
           c == y \div 400
           a0 == (y - 1) \div 4
           b0 == (y - 1) \div 100
           c0 == (y - 1) \div 400
<1>1. /\ a \in Int /\ b \in Int /\ c \in Int
      /\ a0 \in Int /\ b0 \in Int /\ c0 \in Int  OBVIOUS
<1>2. /\ a - a0 = IF y % 4 = 0 THEN 1 ELSE 0
      /\ b - b0 = IF y % 100 = 0 THEN 1 ELSE 0
      /\ c - c0 = IF y % 400 = 0 THEN 1 ELSE 0  BY QuotientStep
<1>3. (y % 400 = 0 => y % 100 = 0) /\ (y % 100 = 0 => y % 4 = 0)  OBVIOUS
<1>4. y + 1 - 1 = y  OBVIOUS
<1>5. YearStart(y + 1) = 365 * y + a - b + c  BY <1>4 DEF YearStart
<1>6. YearStart(y) = 365 * (y - 1) + a0 - b0 + c0  BY DEF YearStart
<1> HIDE DEF a, b, c, a0, b0, c0
<1>7. (a - a0) - (b - b0) + (c - c0) = IF IsLeapYear(y) THEN 1 ELSE 0
  BY <1>1, <1>2, <1>3 DEF IsLeapYear
<1> QED  BY <1>1, <1>5, <1>6, <1>7

(* The table of month starts agrees with the lengths of the months.        *)
LEMMA MonthLength ==
  ASSUME NEW y \in Int, NEW m \in 1 .. 12
  PROVE  /\ MonthStart(y, m) \in Int
         /\ LastDay(y, m) \in 28 .. 31
         /\ m < 12 => MonthStart(y, m + 1) = MonthStart(y, m) + LastDay(y, m)
         /\ MonthStart(y, 1) = 0
         /\ MonthStart(y, 12) + LastDay(y, 12) = IF IsLeapYear(y) THEN 366 ELSE 365
<1>1. CASE IsLeapYear(y)  BY <1>1 DEF MonthStart, LastDay, DaysBefore
<1>2. CASE ~IsLeapYear(y)  BY <1>2 DEF MonthStart, LastDay, DaysBefore
<1> QED  BY <1>1, <1>2

(* The number of a day from year, month and day.                           *)
LEMMA DayNumberIs ==
  ASSUME NEW y \in Int, NEW m \in 1 .. 12, NEW d \in Int
  PROVE  /\ DayNumber(y, m, d) = YearStart(y) + MonthStart(y, m) + d
         /\ DayNumber(y, m, d) \in Int
<1>1. DayNumber(y, m, d) = 365 * (y - 1) + (y - 1) \div 4 - (y - 1) \div 100 + (y - 1) \div 400
                             + DaysBefore[m] + (IF m > 2 /\ IsLeapYear(y) THEN 1 ELSE 0) + d
  BY DEF DayNumber
<1>2. DaysBefore[m] \in Int  BY DEF DaysBefore
<1>3. DayNumber(y, m, d) = YearStart(y) + MonthStart(y, m) + d
  BY <1>1, <1>2 DEF YearStart, MonthStart
<1>4. YearStart(y) \in Int  BY YearStartInt
<1>5. MonthStart(y, m) \in Int  BY MonthLength
<1> QED  BY <1>3, <1>4, <1>5

(* A date that exists, with its week day.                                  *)
Proper(y, m, d, w) ==
  /\ y \in Int /\ m \in 1 .. 12 /\ d \in 1 .. LastDay(y, m)
  /\ w = DayNumber(y, m, d) % 7

(* Week days count modulo 7, forwards and back.                            *)
LEMMA WeekStep ==
  ASSUME NEW n \in Int
  PROVE  /\ ((n % 7) + 1) % 7 = (n + 1) % 7
         /\ (IF (n % 7) - 1 < 0 THEN (n % 7) + 6 ELSE (n % 7) - 1) = (n - 1) % 7
<1>1. ((n % 7) + 1) % 7 = (n + 1) % 7  OBVIOUS
<1>2. (IF (n % 7) - 1 < 0 THEN (n % 7) + 6 ELSE (n % 7) - 1) = (n - 1) % 7  OBVIOUS
<1> QED  BY <1>1, <1>2

(* What is known of a proper date.                                         *)
LEMMA ProperFacts ==
  ASSUME NEW y, NEW m, NEW d, NEW w, Proper(y, m, d, w)
  PROVE  /\ y \in Int /\ m \in 1 .. 12 /\ d \in Int /\ d \in 1 .. LastDay(y, m)
         /\ LastDay(y, m) \in 28 .. 31
         /\ YearStart(y) \in Int /\ MonthStart(y, m) \in Int
         /\ DayNumber(y, m, d) = YearStart(y) + MonthStart(y, m) + d
         /\ DayNumber(y, m, d) \in Int
<1>1. y \in Int /\ m \in 1 .. 12 /\ d \in 1 .. LastDay(y, m)  BY DEF Proper
<1>2. LastDay(y, m) \in 28 .. 31 /\ MonthStart(y, m) \in Int  BY <1>1, MonthLength
<1>3. d \in Int  BY <1>1, <1>2
<1>4. YearStart(y) \in Int  BY <1>1, YearStartInt
<1>5. DayNumber(y, m, d) = YearStart(y) + MonthStart(y, m) + d  BY <1>1, <1>3, DayNumberIs
<1>6. DayNumber(y, m, d) \in Int  BY <1>1, <1>3, DayNumberIs
<1> QED  BY <1>1, <1>2, <1>3, <1>4, <1>5, <1>6

(* A date whose month exists, and a week day in step with it.              *)
Dated(y, m, d) == y \in Int /\ m \in 1 .. 12 /\ d \in Nat \ {0}

InStep(y, m, d, w) == Dated(y, m, d) /\ w \in Nat /\ w % 7 = DayNumber(y, m, d) % 7

(* What is known of such a date.                                           *)
LEMMA DatedFacts ==
  ASSUME NEW y, NEW m, NEW d, Dated(y, m, d)
  PROVE  /\ y \in Int /\ m \in 1 .. 12 /\ d \in Int /\ d >= 1
         /\ LastDay(y, m) \in 28 .. 31
         /\ YearStart(y) \in Int /\ MonthStart(y, m) \in Int
         /\ DayNumber(y, m, d) = YearStart(y) + MonthStart(y, m) + d
         /\ DayNumber(y, m, d) \in Int
<1>1. y \in Int /\ m \in 1 .. 12 /\ d \in Int /\ d >= 1  BY DEF Dated
<1>2. LastDay(y, m) \in 28 .. 31 /\ MonthStart(y, m) \in Int  BY <1>1, MonthLength
<1>3. YearStart(y) \in Int  BY <1>1, YearStartInt
<1>4. DayNumber(y, m, d) = YearStart(y) + MonthStart(y, m) + d  BY <1>1, DayNumberIs
<1>5. DayNumber(y, m, d) \in Int  BY <1>1, DayNumberIs
<1> QED  BY <1>1, <1>2, <1>3, <1>4, <1>5

(* Week days count modulo 7.                                               *)
LEMMA WeekMoves ==
  ASSUME NEW w \in Nat, NEW n \in Int, w % 7 = n % 7
  PROVE  /\ (w + 1) % 7 \in Nat /\ ((w + 1) % 7) % 7 = (n + 1) % 7 /\ (w + 1) % 7 <= 6
         /\ LET v == IF w - 1 < 0 THEN w + 6 ELSE w - 1
            IN  v \in Nat /\ v % 7 = (n - 1) % 7 /\ (v <= w \/ v <= 6)
<1>1. (w + 1) % 7 \in Nat /\ ((w + 1) % 7) % 7 = (n + 1) % 7 /\ (w + 1) % 7 <= 6  OBVIOUS
<1>2. PICK v : v = IF w - 1 < 0 THEN w + 6 ELSE w - 1  OBVIOUS
<1>3. v \in Nat /\ v % 7 = (n - 1) % 7 /\ (v <= w \/ v <= 6)  BY <1>2
<1> QED  BY <1>1, <1>2, <1>3

(* NextDay, on any date: the number of the day grows by one.               *)
LEMMA NextDate ==
  ASSUME NEW y, NEW m, NEW d, Dated(y, m, d), NEW w, NEW h
  PROVE  \E y2, m2, d2 :
           /\ NextDay(Time(y, m, d, w, h)) = Time(y2, m2, d2, (w + 1) % 7, h)
           /\ Dated(y2, m2, d2)
           /\ DayNumber(y2, m2, d2) = DayNumber(y, m, d) + 1
           /\ d \in 1 .. LastDay(y, m) => d2 \in 1 .. LastDay(y2, m2)
           /\ d2 <= 31 \/ d2 = d + 1
<1>1. /\ y \in Int /\ m \in 1 .. 12 /\ d \in Int /\ d >= 1
      /\ LastDay(y, m) \in 28 .. 31
      /\ YearStart(y) \in Int /\ MonthStart(y, m) \in Int
      /\ DayNumber(y, m, d) = YearStart(y) + MonthStart(y, m) + d
      /\ DayNumber(y, m, d) \in Int
  BY DatedFacts
<1> PICK v : v = (w + 1) % 7  OBVIOUS
<1>3. CASE d # LastDay(y, m)
  <2>0. PICK e : e = d + 1  OBVIOUS
  <2>1. NextDay(Time(y, m, d, w, h)) = Time(y, m, e, v, h)  BY <1>3, <2>0 DEF NextDay, Time
  <2>2. Dated(y, m, e) /\ e \in Int /\ (d \in 1 .. LastDay(y, m) => e \in 1 .. LastDay(y, m))
    BY <1>1, <1>3, <2>0 DEF Dated
  <2>3. DayNumber(y, m, e) = YearStart(y) + MonthStart(y, m) + e  BY <2>2, DatedFacts
  <2>4. DayNumber(y, m, e) = DayNumber(y, m, d) + 1  BY <1>1, <2>0, <2>3
  <2> QED  BY <2>0, <2>1, <2>2, <2>4
<1>4. CASE d = LastDay(y, m) /\ m # 12
  <2>0. PICK n : n = m + 1  OBVIOUS
  <2>1. NextDay(Time(y, m, d, w, h)) = Time(y, n, 1, v, h)  BY <1>4, <2>0 DEF NextDay, Time
  <2>2. n \in 1 .. 12 /\ m < 12 /\ Dated(y, n, 1)  BY <1>1, <1>4, <2>0 DEF Dated
  <2>3. MonthStart(y, n) = MonthStart(y, m) + LastDay(y, m)  BY <1>1, <2>0, <2>2, MonthLength
  <2>4. LastDay(y, n) \in 28 .. 31 /\ DayNumber(y, n, 1) = YearStart(y) + MonthStart(y, n) + 1
    BY <2>2, DatedFacts
  <2>6. DayNumber(y, n, 1) = DayNumber(y, m, d) + 1  BY <1>1, <1>4, <2>3, <2>4
  <2>7. 1 \in 1 .. LastDay(y, n)  BY <2>4
  <2> QED  BY <2>1, <2>2, <2>6, <2>7
<1>5. CASE d = LastDay(y, m) /\ m = 12
  <2>0. PICK x : x = y + 1  OBVIOUS
  <2>1. NextDay(Time(y, m, d, w, h)) = Time(x, 1, 1, v, h)  BY <1>5, <2>0 DEF NextDay, Time
  <2>2. Dated(x, 1, 1)  BY <1>1, <2>0 DEF Dated
  <2>3. /\ LastDay(x, 1) \in 28 .. 31
        /\ DayNumber(x, 1, 1) = YearStart(x) + MonthStart(x, 1) + 1  BY <2>2, DatedFacts
  <2>4. MonthStart(x, 1) = 0
    <3>1. x \in Int /\ 1 \in 1 .. 12  BY <1>1, <2>0
    <3> QED  BY <3>1, MonthLength
  <2>5. MonthStart(y, 12) + LastDay(y, 12) = IF IsLeapYear(y) THEN 366 ELSE 365
    BY <1>1, MonthLength
  <2>6. YearStart(x) = YearStart(y) + (IF IsLeapYear(y) THEN 366 ELSE 365)  BY <1>1, <2>0, YearLength
  <2>7. DayNumber(x, 1, 1) = DayNumber(y, m, d) + 1
    BY <1>1, <1>5, <2>3, <2>4, <2>5, <2>6
  <2>8. 1 \in 1 .. LastDay(x, 1)  BY <2>3
  <2> QED  BY <2>1, <2>2, <2>7, <2>8
<1> QED  BY <1>1, <1>3, <1>4, <1>5

(* DayBefore, on any date: the number of the day is one less.              *)
LEMMA PrecedingDate ==
  ASSUME NEW y, NEW m, NEW d, Dated(y, m, d), NEW w, NEW h
  PROVE  \E y2, m2, d2 :
           /\ DayBefore(Time(y, m, d, w, h)) =
                Time(y2, m2, d2, IF w - 1 < 0 THEN w + 6 ELSE w - 1, h)
           /\ Dated(y2, m2, d2)
           /\ DayNumber(y2, m2, d2) = DayNumber(y, m, d) - 1
           /\ d \in 1 .. LastDay(y, m) => d2 \in 1 .. LastDay(y2, m2)
           /\ d2 <= 31 \/ d2 = d - 1
<1>1. /\ y \in Int /\ m \in 1 .. 12 /\ d \in Int /\ d >= 1
      /\ LastDay(y, m) \in 28 .. 31
      /\ YearStart(y) \in Int /\ MonthStart(y, m) \in Int
      /\ DayNumber(y, m, d) = YearStart(y) + MonthStart(y, m) + d
      /\ DayNumber(y, m, d) \in Int
  BY DatedFacts
<1>2. PICK v : v = IF w - 1 < 0 THEN w + 6 ELSE w - 1  OBVIOUS
<1>3. CASE d # 1
  <2>0. PICK e : e = d - 1  OBVIOUS
  <2>1. DayBefore(Time(y, m, d, w, h)) = Time(y, m, e, v, h)
    BY <1>2, <1>3, <2>0 DEF DayBefore, Time
  <2>2. Dated(y, m, e) /\ e \in Int /\ (d \in 1 .. LastDay(y, m) => e \in 1 .. LastDay(y, m))
    BY <1>1, <1>3, <2>0 DEF Dated
  <2>3. DayNumber(y, m, e) = YearStart(y) + MonthStart(y, m) + e  BY <2>2, DatedFacts
  <2>4. DayNumber(y, m, e) = DayNumber(y, m, d) - 1  BY <1>1, <2>0, <2>3
  <2> QED  BY <1>2, <2>0, <2>1, <2>2, <2>4
<1>4. CASE d = 1 /\ m # 1
  <2>0. PICK n : n = m - 1  OBVIOUS
  <2>e. PICK e : e = LastDay(y, n)  OBVIOUS
  <2>1. DayBefore(Time(y, m, d, w, h)) = Time(y, n, e, v, h)
    BY <1>2, <1>4, <2>0, <2>e DEF DayBefore, Time
  <2>2. y \in Int /\ n \in 1 .. 12 /\ n < 12 /\ m = n + 1  BY <1>1, <1>4, <2>0
  <2>3. /\ e \in 28 .. 31
        /\ MonthStart(y, m) = MonthStart(y, n) + e
    BY <2>2, <2>e, MonthLength
  <2>4. Dated(y, n, e)  BY <2>2, <2>3 DEF Dated
  <2>5. DayNumber(y, n, e) = YearStart(y) + MonthStart(y, n) + e /\ MonthStart(y, n) \in Int
    BY <2>4, DatedFacts
  <2>6. DayNumber(y, n, e) = DayNumber(y, m, d) - 1  BY <1>1, <1>4, <2>3, <2>5
  <2>7. e \in 1 .. LastDay(y, n) /\ e <= 31  BY <2>3, <2>e
  <2> QED  BY <1>2, <2>1, <2>4, <2>6, <2>7
<1>5. CASE d = 1 /\ m = 1
  <2>0. PICK x : x = y - 1  OBVIOUS
  <2>e. PICK e : e = LastDay(x, 12)  OBVIOUS
  <2>1. DayBefore(Time(y, m, d, w, h)) = Time(x, 12, e, v, h)
    BY <1>2, <1>5, <2>0, <2>e DEF DayBefore, Time
  <2>2. x \in Int /\ x + 1 = y /\ 12 \in 1 .. 12  BY <1>1, <2>0
  <2>3. /\ e \in 28 .. 31
        /\ MonthStart(x, 12) + e = IF IsLeapYear(x) THEN 366 ELSE 365
    BY <2>2, <2>e, MonthLength
  <2>4. MonthStart(y, 1) = 0  BY <1>1, MonthLength
  <2>5. YearStart(y) = YearStart(x) + (IF IsLeapYear(x) THEN 366 ELSE 365)
    BY <2>2, YearLength
  <2>6. Dated(x, 12, e)  BY <2>2, <2>3 DEF Dated
  <2>7. /\ DayNumber(x, 12, e) = YearStart(x) + MonthStart(x, 12) + e
        /\ YearStart(x) \in Int /\ MonthStart(x, 12) \in Int
    BY <2>6, DatedFacts
  <2>8. DayNumber(x, 12, e) = DayNumber(y, m, d) - 1
    BY <1>1, <1>5, <2>3, <2>4, <2>5, <2>7
  <2>9. e \in 1 .. LastDay(x, 12) /\ e <= 31  BY <2>e, <2>3
  <2> QED  BY <1>2, <2>1, <2>6, <2>8, <2>9
<1> QED  BY <1>1, <1>3, <1>4, <1>5

(* ... in particular from one existing date to the next ...                *)
LEMMA NextDayRight ==
  ASSUME NEW y, NEW m, NEW d, NEW w, Proper(y, m, d, w), NEW h
  PROVE  \E y2, m2, d2, w2 :
           /\ NextDay(Time(y, m, d, w, h)) = Time(y2, m2, d2, w2, h)
           /\ Proper(y2, m2, d2, w2)
           /\ DayNumber(y2, m2, d2) = DayNumber(y, m, d) + 1
<1>1. Dated(y, m, d) /\ DayNumber(y, m, d) \in Int  BY ProperFacts DEF Dated
<1>2. PICK y2, m2, d2 :
        /\ NextDay(Time(y, m, d, w, h)) = Time(y2, m2, d2, (w + 1) % 7, h)
        /\ Dated(y2, m2, d2)
        /\ DayNumber(y2, m2, d2) = DayNumber(y, m, d) + 1
        /\ d \in 1 .. LastDay(y, m) => d2 \in 1 .. LastDay(y2, m2)
  BY <1>1, NextDate
<1>3. (w + 1) % 7 = (DayNumber(y, m, d) + 1) % 7  BY <1>1, WeekStep DEF Proper
<1>4. Proper(y2, m2, d2, (w + 1) % 7)  BY <1>2, <1>3 DEF Proper, Dated
<1> QED  BY <1>2, <1>4

(* ... and to the one before.                                              *)
LEMMA DayBeforeRight ==
  ASSUME NEW y, NEW m, NEW d, NEW w, Proper(y, m, d, w), NEW h
  PROVE  \E y2, m2, d2, w2 :
           /\ DayBefore(Time(y, m, d, w, h)) = Time(y2, m2, d2, w2, h)
           /\ Proper(y2, m2, d2, w2)
           /\ DayNumber(y2, m2, d2) = DayNumber(y, m, d) - 1
<1>1. Dated(y, m, d) /\ DayNumber(y, m, d) \in Int  BY ProperFacts DEF Dated
<1>2. PICK v : v = IF w - 1 < 0 THEN w + 6 ELSE w - 1  OBVIOUS
<1>3. PICK y2, m2, d2 :
        /\ DayBefore(Time(y, m, d, w, h)) = Time(y2, m2, d2, v, h)
        /\ Dated(y2, m2, d2)
        /\ DayNumber(y2, m2, d2) = DayNumber(y, m, d) - 1
        /\ d \in 1 .. LastDay(y, m) => d2 \in 1 .. LastDay(y2, m2)
  BY <1>1, <1>2, PrecedingDate
<1>4. v = (DayNumber(y, m, d) - 1) % 7  BY <1>1, <1>2, WeekStep DEF Proper
<1>5. Proper(y2, m2, d2, v)  BY <1>3, <1>4 DEF Proper, Dated
<1> QED  BY <1>3, <1>5

(* The time t is a proper date and time, n hours after the day 0.          *)
Stands(t, n) ==
  \E y, m, d, w : \E h \in 0 .. 23 :
    /\ t = Time(y, m, d, w, h)
    /\ Proper(y, m, d, w)
    /\ HourNumber(y, m, d, h) = n

(* TimeAdjust moves the time by z hours.                                   *)
LEMMA TimeAdjustRight ==
  ASSUME NEW y, NEW m, NEW d, NEW w, Proper(y, m, d, w),
         NEW h \in 0 .. 23, NEW z \in -23 .. 23
  PROVE  Stands(TimeAdjust(Time(y, m, d, w, h), z), HourNumber(y, m, d, h) + z)
<1>1. DayNumber(y, m, d) \in Int  BY ProperFacts
<1>2. Time(y, m, d, w, h).hour = h  BY DEF Time
<1>3. CASE z = 0
  <2>1. TimeAdjust(Time(y, m, d, w, h), z) = Time(y, m, d, w, h)  BY <1>3 DEF TimeAdjust
  <2>2. HourNumber(y, m, d, h) = HourNumber(y, m, d, h) + z  BY <1>1, <1>3 DEF HourNumber
  <2> QED  BY <2>1, <2>2 DEF Stands
<1>4. CASE z # 0 /\ h + z >= 24
  <2>1. PICK y2, m2, d2, w2 :
          /\ NextDay(Time(y, m, d, w, h)) = Time(y2, m2, d2, w2, h)
          /\ Proper(y2, m2, d2, w2)
          /\ DayNumber(y2, m2, d2) = DayNumber(y, m, d) + 1
    BY NextDayRight
  <2>2. TimeAdjust(Time(y, m, d, w, h), z) = [Time(y2, m2, d2, w2, h) EXCEPT !.hour = h + z - 24]
    BY <1>2, <1>4, <2>1 DEF TimeAdjust
  <2>3. TimeAdjust(Time(y, m, d, w, h), z) = Time(y2, m2, d2, w2, h + z - 24)  BY <2>2 DEF Time
  <2>4. h + z - 24 \in 0 .. 23  BY <1>4
  <2>5. HourNumber(y2, m2, d2, h + z - 24) = HourNumber(y, m, d, h) + z
    BY <1>1, <2>1 DEF HourNumber
  <2> QED  BY <2>1, <2>3, <2>4, <2>5 DEF Stands
<1>5. CASE z # 0 /\ h + z < 0
  <2>1. PICK y2, m2, d2, w2 :
          /\ DayBefore(Time(y, m, d, w, h)) = Time(y2, m2, d2, w2, h)
          /\ Proper(y2, m2, d2, w2)
          /\ DayNumber(y2, m2, d2) = DayNumber(y, m, d) - 1
    BY DayBeforeRight
  <2>2. TimeAdjust(Time(y, m, d, w, h), z) = [Time(y2, m2, d2, w2, h) EXCEPT !.hour = h + z + 24]
    BY <1>2, <1>5, <2>1 DEF TimeAdjust
  <2>3. TimeAdjust(Time(y, m, d, w, h), z) = Time(y2, m2, d2, w2, h + z + 24)  BY <2>2 DEF Time
  <2>4. h + z + 24 \in 0 .. 23  BY <1>5
  <2>5. HourNumber(y2, m2, d2, h + z + 24) = HourNumber(y, m, d, h) + z
    BY <1>1, <2>1 DEF HourNumber
  <2> QED  BY <2>1, <2>3, <2>4, <2>5 DEF Stands
<1>6. CASE z # 0 /\ h + z \in 0 .. 23
  <2>1. TimeAdjust(Time(y, m, d, w, h), z) = [Time(y, m, d, w, h) EXCEPT !.hour = h + z]
    BY <1>2, <1>6 DEF TimeAdjust
  <2>2. TimeAdjust(Time(y, m, d, w, h), z) = Time(y, m, d, w, h + z)  BY <2>1 DEF Time
  <2>3. HourNumber(y, m, d, h + z) = HourNumber(y, m, d, h) + z  BY <1>1 DEF HourNumber
  <2> QED  BY <1>6, <2>2, <2>3 DEF Stands
<1> QED  BY <1>3, <1>4, <1>5, <1>6

-----------------------------------------------------------------------------
(***************************************************************************)
(* The inductive invariant: while nothing but the clock and the zone has   *)
(* been set, the fields are a proper date whose number of hours is that of *)
(* the instant, moved by the zone; and the zone is always in range.        *)
(***************************************************************************)
Local ==
  /\ Proper(year, month, day, week)
  /\ hour \in 0 .. 23
  /\ HourNumber(year, month, day, hour) = shown + timeZone
  /\ shown \in Int

CalendarInv ==
  /\ timeZone \in -12 .. 12
  /\ shown # NotTime => Local

(* The clock as the constructor and UpdateTime find it.                    *)
LEMMA InstantFacts ==
  ASSUME NEW now \in Instants
  PROVE  /\ Proper(now.year, now.month, now.day, DayNumber(now.year, now.month, now.day) % 7)
         /\ now.hour \in 0 .. 23
         /\ HourNumber(now.year, now.month, now.day, now.hour) \in Int
<1> DEFINE w == DayNumber(now.year, now.month, now.day) % 7
<1>1. Proper(now.year, now.month, now.day, w) /\ now.hour \in 0 .. 23
  BY InstantsAssumption DEF Proper
<1>2. DayNumber(now.year, now.month, now.day) \in Int  BY <1>1, ProperFacts
<1> QED  BY <1>1, <1>2 DEF HourNumber

(* What Show leaves in the fields.                                         *)
LEMMA Shown ==
  ASSUME NEW y, NEW m, NEW d, NEW w, NEW h, Show(Time(y, m, d, w, h))
  PROVE  year' = y /\ month' = m /\ day' = d /\ week' = w /\ hour' = h
  BY DEF Show, Time

(* The initial state is local time in zone 0.                              *)
LEMMA InitLocal == ASSUME MCInit PROVE CalendarInv
<1>1. PICK now \in Instants :
        /\ year = now.year /\ month = now.month /\ day = now.day
        /\ week = DayNumber(now.year, now.month, now.day) % 7 /\ hour = now.hour
  BY DEF MCInit, Init
<1>2. timeZone = 0 /\ shown = HourNumber(year, month, day, hour)  BY DEF MCInit, Init
<1>3. Local  BY <1>1, <1>2, InstantFacts DEF Local
<1> QED  BY <1>2, <1>3 DEF CalendarInv

(* UpdateTime shows the instant in the zone's local time.                  *)
LEMMA UpdateLocal ==
  ASSUME CalendarInv, NEW now \in Instants, MCUpdate(now)
  PROVE  CalendarInv'
<1>1. timeZone \in -12 .. 12 /\ timeZone' = timeZone /\ shown' = Utc(now)
  BY DEF CalendarInv, MCUpdate, UpdateTime
<1>2. PICK w : w = DayNumber(now.year, now.month, now.day) % 7  OBVIOUS
<1>3. Show(TimeAdjust(Time(now.year, now.month, now.day, w, now.hour), timeZone))
  BY <1>2 DEF MCUpdate, UpdateTime
<1>4. Proper(now.year, now.month, now.day, w) /\ now.hour \in 0 .. 23 /\ Utc(now) \in Int
  BY <1>2, InstantFacts DEF Utc
<1>5. timeZone \in -23 .. 23  BY <1>1
<1>6. Stands(TimeAdjust(Time(now.year, now.month, now.day, w, now.hour), timeZone),
             HourNumber(now.year, now.month, now.day, now.hour) + timeZone)
  BY <1>4, <1>5, TimeAdjustRight
<1>7. PICK y, m, d, v : \E h \in 0 .. 23 :
        /\ TimeAdjust(Time(now.year, now.month, now.day, w, now.hour), timeZone) = Time(y, m, d, v, h)
        /\ Proper(y, m, d, v)
        /\ HourNumber(y, m, d, h) = HourNumber(now.year, now.month, now.day, now.hour) + timeZone
  BY <1>6 DEF Stands
<1>8. PICK h \in 0 .. 23 :
        /\ TimeAdjust(Time(now.year, now.month, now.day, w, now.hour), timeZone) = Time(y, m, d, v, h)
        /\ Proper(y, m, d, v)
        /\ HourNumber(y, m, d, h) = HourNumber(now.year, now.month, now.day, now.hour) + timeZone
  BY <1>7
<1>9. year' = y /\ month' = m /\ day' = d /\ week' = v /\ hour' = h  BY <1>3, <1>8, Shown
<1>10. Local'  BY <1>1, <1>4, <1>8, <1>9 DEF Local, Utc
<1> QED  BY <1>1, <1>10 DEF CalendarInv

(* A change of zone keeps the instant.                                     *)
LEMMA ZoneLocal ==
  ASSUME CalendarInv, NEW z \in Zones, MCZone(z)
  PROVE  CalendarInv'
<1>1. /\ z \in -12 .. 12 /\ z - timeZone \notin {-24, 24} /\ shown' = shown
      /\ timeZone' = z /\ timeZone \in -12 .. 12
  BY DEF MCZone, SetTimeZone, CalendarInv
<1>2. Show(TimeAdjust(Time(year, month, day, week, hour), z - timeZone))
  BY <1>1 DEF MCZone, SetTimeZone
<1>3. PICK e : e = z - timeZone  OBVIOUS
<1>4. e \in -23 .. 23  BY <1>1, <1>3
<1>5. ASSUME shown # NotTime PROVE Local'
  <2>1. Proper(year, month, day, week) /\ hour \in 0 .. 23 /\ shown \in Int
        /\ HourNumber(year, month, day, hour) = shown + timeZone
    BY <1>5 DEF CalendarInv, Local
  <2>2. Stands(TimeAdjust(Time(year, month, day, week, hour), e), HourNumber(year, month, day, hour) + e)
    BY <1>4, <2>1, TimeAdjustRight
  <2>3. PICK y, m, d, v : \E h \in 0 .. 23 :
          /\ TimeAdjust(Time(year, month, day, week, hour), e) = Time(y, m, d, v, h)
          /\ Proper(y, m, d, v)
          /\ HourNumber(y, m, d, h) = HourNumber(year, month, day, hour) + e
    BY <2>2 DEF Stands
  <2>4. PICK h \in 0 .. 23 :
          /\ TimeAdjust(Time(year, month, day, week, hour), e) = Time(y, m, d, v, h)
          /\ Proper(y, m, d, v)
          /\ HourNumber(y, m, d, h) = HourNumber(year, month, day, hour) + e
    BY <2>3
  <2>5. year' = y /\ month' = m /\ day' = d /\ week' = v /\ hour' = h
    BY <1>2, <1>3, <2>4, Shown
  <2>6. HourNumber(y, m, d, h) = shown + z  BY <1>1, <1>3, <2>1, <2>4
  <2> QED  BY <1>1, <2>1, <2>4, <2>5, <2>6 DEF Local
<1> QED  BY <1>1, <1>5 DEF CalendarInv

(* Every step keeps the invariant: after another setter it asks for the    *)
(* zone only.                                                              *)
LEMMA StepLocal == ASSUME CalendarInv, [SafeNext]_mcvars PROVE CalendarInv'
<1>1. CASE \E now \in Instants : MCUpdate(now)  BY <1>1, UpdateLocal
<1>2. CASE \E z \in Zones : MCZone(z)  BY <1>2, ZoneLocal
<1>3. CASE MCSet
  <2>1. shown' = NotTime /\ timeZone' = timeZone
    BY <1>3 DEF MCSet, SetYear, SetMonth, SetDay, SetHour, SetMinute, SetSecond
  <2> QED  BY <2>1 DEF CalendarInv
<1>4. CASE UNCHANGED mcvars
  BY <1>4 DEF mcvars, vars, date, CalendarInv, Local, Proper
<1> QED  BY <1>1, <1>2, <1>3, <1>4 DEF SafeNext

(* Whatever the clock gives and however often the zone is changed, the     *)
(* fields show an existing date, the instant in local time, and the week   *)
(* day of that date.                                                       *)
THEOREM LocalTimeIsRight == SafeSpec => []LocalTimeRight
<1>1. MCInit => CalendarInv  BY InitLocal
<1>2. CalendarInv /\ [SafeNext]_mcvars => CalendarInv'  BY StepLocal
<1>3. CalendarInv => LocalTimeRight
  BY DEF CalendarInv, Local, Proper, LocalTimeRight
<1> QED  BY <1>1, <1>2, <1>3, PTL DEF SafeSpec

-----------------------------------------------------------------------------
(* A set of numbers that is not empty has a least one.                     *)
LEMMA LeastNumber ==
  ASSUME NEW S \in SUBSET Nat, S # {}
  PROVE  \E x \in S : \A y \in S : x <= y
<1>1. PICK x \in S : \A y \in S : <<y, x>> \notin OpToRel(<, Nat)
  BY NatLessThanWellFounded, WFMin
<1>2. \A y \in S : ~(y < x)  BY <1>1 DEF OpToRel
<1> QED  BY <1>2

(* A sum of steps is the distance from the first start to the last.        *)
LEMMA TotalIs ==
  ASSUME NEW a \in Int, NEW b \in Int, a <= b,
         NEW length \in [a .. b -> Int], NEW start \in [a .. b -> Int],
         \A i \in a .. b : i # b => start[i + 1] = start[i] + length[i]
  PROVE  Total(a, b, length) = start[b] - start[a]
<1> DEFINE def(g) == [i \in a .. b |-> IF i = b THEN 0 ELSE g[i + 1] + length[i]]
           sum == CHOOSE g : g = def(g)
<1>1. Total(a, b, length) = sum[a]  BY DEF Total
<1>2. \E g : g = def(g)
  <2>1. PICK g : g = [i \in a .. b |-> start[b] - start[i]]  OBVIOUS
  <2>2. ASSUME NEW i \in a .. b PROVE g[i] = def(g)[i]
    <3>1. CASE i = b  BY <2>1, <3>1
    <3>2. CASE i # b
      <4>1. i + 1 \in a .. b /\ start[i + 1] = start[i] + length[i]  BY <3>2
      <4>2. start[b] \in Int /\ start[i] \in Int /\ length[i] \in Int  OBVIOUS
      <4>3. g[i] = start[b] - start[i] /\ g[i + 1] = start[b] - start[i + 1]  BY <2>1, <4>1
      <4>4. g[i] = g[i + 1] + length[i]  BY <4>1, <4>2, <4>3
      <4> QED  BY <3>2, <4>4
    <3> QED  BY <3>1, <3>2
  <2>3. g = [i \in a .. b |-> g[i]] /\ def(g) = [i \in a .. b |-> def(g)[i]]  BY <2>1
  <2>4. g = def(g)  BY <2>2, <2>3
  <2> QED  BY <2>4
<1>3. sum = def(sum)  BY <1>2
<1> HIDE DEF sum
<1>4. \A i \in a .. b : sum[i] = IF i = b THEN 0 ELSE sum[i + 1] + length[i]  BY <1>3
<1> HIDE DEF def
<1> DEFINE bad == {i \in a .. b : sum[i] # start[b] - start[i]}
<1>5. bad = {}
  <2> SUFFICES ASSUME bad # {} PROVE FALSE  OBVIOUS
  <2>1. PICK H : H = {b - i : i \in bad}  OBVIOUS
  <2>2. H \in SUBSET Nat /\ H # {}  BY <2>1
  <2>3. PICK x \in H : \A y \in H : x <= y  BY <2>2, LeastNumber
  <2>4. PICK i \in bad : \A j \in bad : b - i <= b - j  BY <2>1, <2>3
  <2>5. CASE i = b  BY <2>5, <1>4
  <2>6. CASE i # b
    <3>1. PICK j : j = i + 1  OBVIOUS
    <3>2. j \in a .. b /\ b - j < b - i /\ start[j] = start[i] + length[i]  BY <2>6, <3>1
    <3>3. j \notin bad  BY <2>4, <3>2
    <3>4. sum[j] = start[b] - start[j]  BY <3>2, <3>3
    <3>5. sum[i] = sum[j] + length[i]  BY <2>6, <3>1, <1>4
    <3>6. start[b] \in Int /\ start[i] \in Int /\ length[i] \in Int  OBVIOUS
    <3>7. sum[i] = start[b] - start[i]  BY <3>2, <3>4, <3>5, <3>6
    <3> QED  BY <3>7
  <2> QED  BY <2>5, <2>6
<1>6. a \in a .. b  OBVIOUS
<1> QED  BY <1>1, <1>5, <1>6

(* The days before a year and before a month are numbers.                  *)
LEMMA StartsInt ==
  \A y \in Int, m \in 1 .. 12 : YearStart(y) \in Int /\ MonthStart(y, m) \in Int
<1>1. ASSUME NEW y \in Int, NEW m \in 1 .. 12 PROVE YearStart(y) \in Int /\ MonthStart(y, m) \in Int
  <2>1. MonthStart(y, m) \in Int  BY MonthLength
  <2> QED  BY <2>1, YearStartInt
<1> QED  BY <1>1

(* Outside February, SetYear counts the days between the same date of two  *)
(* years: from March on the leap day met is that of the later year.        *)
LEMMA YearDaysRight ==
  ASSUME NEW a \in Int, NEW b \in Int, a <= b, month \in 1 .. 12, month # 2, NEW d \in Int
  PROVE  /\ YearDays(a, b) = DayNumber(b, month, d) - DayNumber(a, month, d)
         /\ YearDays(a, b) \in Int
<1> DEFINE length == [y \in a .. b |-> IF IsLeapYear(IF month >= 2 THEN y + 1 ELSE y) THEN 366 ELSE 365]
           start == [y \in a .. b |-> YearStart(y) + MonthStart(y, month)]
<1>1. length \in [a .. b -> Int]  OBVIOUS
<1>2. \A y \in Int : YearStart(y) \in Int /\ MonthStart(y, month) \in Int  BY StartsInt
<1>3. start \in [a .. b -> Int]  BY <1>2
<1>4. ASSUME NEW y \in a .. b, y # b PROVE start[y + 1] = start[y] + length[y]
  <2>1. y \in Int /\ y + 1 \in a .. b  BY <1>4
  <2>2. YearStart(y + 1) = YearStart(y) + (IF IsLeapYear(y) THEN 366 ELSE 365)  BY <2>1, YearLength
  <2>3. DaysBefore[month] \in Int  BY DEF DaysBefore
  <2>4. CASE month = 1
    <3>1. MonthStart(y, month) = 0 /\ MonthStart(y + 1, month) = 0  BY <2>1, <2>4, MonthLength
    <3> QED  BY <2>1, <2>2, <2>4, <3>1, <1>2
  <2>5. CASE month > 2
    <3>1. MonthStart(y + 1, month) = DaysBefore[month] + (IF IsLeapYear(y + 1) THEN 1 ELSE 0)
      BY <2>5 DEF MonthStart
    <3>2. MonthStart(y, month) = DaysBefore[month] + (IF IsLeapYear(y) THEN 1 ELSE 0)
      BY <2>5 DEF MonthStart
    <3> QED  BY <2>1, <2>2, <2>3, <2>5, <3>1, <3>2, <1>2
  <2> QED  BY <2>4, <2>5
<1>5. YearDays(a, b) = Total(a, b, length)  BY DEF YearDays
<1>6. Total(a, b, length) = start[b] - start[a]
  <2> HIDE DEF length, start
  <2> QED  BY <1>1, <1>3, <1>4, TotalIs
<1>7. /\ DayNumber(b, month, d) = YearStart(b) + MonthStart(b, month) + d
      /\ DayNumber(a, month, d) = YearStart(a) + MonthStart(a, month) + d
  BY DayNumberIs
<1>8. start[b] = YearStart(b) + MonthStart(b, month) /\ start[a] = YearStart(a) + MonthStart(a, month)
  OBVIOUS
<1>9. YearDays(a, b) = DayNumber(b, month, d) - DayNumber(a, month, d)
  BY <1>2, <1>5, <1>6, <1>7, <1>8
<1>10. YearDays(a, b) \in Int
  <2>1. start[b] \in Int /\ start[a] \in Int  BY <1>2, <1>8
  <2> QED  BY <2>1, <1>5, <1>6
<1> QED  BY <1>9, <1>10

(* SetMonth counts the days between the same date of two months.           *)
LEMMA MonthDaysRight ==
  ASSUME NEW a \in 1 .. 12, NEW b \in 1 .. 12, a <= b, year \in Int, NEW d \in Int
  PROVE  /\ MonthDays(a, b) = DayNumber(year, b, d) - DayNumber(year, a, d)
         /\ MonthDays(a, b) \in Int
<1> DEFINE length == [m \in a .. b |-> LastDay(year, m)]
           start == [m \in a .. b |-> MonthStart(year, m)]
<1>1. \A m \in 1 .. 12 : LastDay(year, m) \in 28 .. 31 /\ MonthStart(year, m) \in Int  BY MonthLength
<1>2. \A m \in a .. b : m \in 1 .. 12  OBVIOUS
<1>3. length \in [a .. b -> Int] /\ start \in [a .. b -> Int]  BY <1>1, <1>2
<1>4. ASSUME NEW m \in a .. b, m # b PROVE start[m + 1] = start[m] + length[m]
  <2>1. m \in 1 .. 12 /\ m < 12 /\ m + 1 \in a .. b  BY <1>4
  <2>2. MonthStart(year, m + 1) = MonthStart(year, m) + LastDay(year, m)  BY <2>1, MonthLength
  <2> QED  BY <2>1, <2>2
<1>5. MonthDays(a, b) = Total(a, b, length)  BY DEF MonthDays
<1>6. Total(a, b, length) = start[b] - start[a]
  <2> HIDE DEF length, start
  <2>1. a \in Int /\ b \in Int  OBVIOUS
  <2> QED  BY <2>1, <1>3, <1>4, TotalIs
<1>7. start[b] = MonthStart(year, b) /\ start[a] = MonthStart(year, a)  OBVIOUS
<1>8. /\ DayNumber(year, b, d) = YearStart(year) + MonthStart(year, b) + d
      /\ DayNumber(year, a, d) = YearStart(year) + MonthStart(year, a) + d
  BY DayNumberIs
<1>9. YearStart(year) \in Int  BY YearStartInt
<1>10. MonthStart(year, b) \in Int /\ MonthStart(year, a) \in Int  BY <1>1
<1>11. MonthDays(a, b) = MonthStart(year, b) - MonthStart(year, a)  BY <1>5, <1>6, <1>7
<1> HIDE DEF length, start
<1> QED  BY ONLY <1>8, <1>9, <1>10, <1>11, d \in Int

(* Week days moved on and back by the days counted, as the setters do.     *)
LEMMA WeekSet ==
  ASSUME NEW w \in Nat, NEW n \in Int, w % 7 = n % 7, NEW k \in Int
  PROVE  /\ (w + (k % 7)) % 7 \in 0 .. 6 /\ ((w + (k % 7)) % 7) % 7 = (n + k) % 7
         /\ LET v == IF w - (k % 7) < 0 THEN w - (k % 7) + 7 ELSE w - (k % 7)
            IN  v \in Nat /\ v % 7 = (n - k) % 7 /\ (v <= w \/ v <= 6)
         /\ LET v == NotNegative(w + CRem(k))
            IN  v \in Nat /\ v % 7 = (n + k) % 7 /\ v <= w + 6
<1>1. (w + (k % 7)) % 7 \in 0 .. 6 /\ ((w + (k % 7)) % 7) % 7 = (n + k) % 7  OBVIOUS
<1>2. PICK v : v = IF w - (k % 7) < 0 THEN w - (k % 7) + 7 ELSE w - (k % 7)  OBVIOUS
<1>3. v \in Nat /\ v % 7 = (n - k) % 7 /\ (v <= w \/ v <= 6)  BY <1>2
<1>4. PICK u : u = NotNegative(w + CRem(k))  OBVIOUS
<1>5. CASE k >= 0
  <2>1. u = w + (k % 7)  BY <1>4, <1>5 DEF NotNegative, CRem
  <2> QED  BY <1>1, <1>2, <1>3, <1>4, <2>1
<1>6. CASE k < 0
  <2>1. PICK c : c = (-k) % 7  OBVIOUS
  <2>2. c \in 0 .. 6 /\ (w - c) % 7 = (n + k) % 7  BY <2>1
  <2>3. u = IF w - c < 0 THEN w - c + 7 ELSE w - c  BY <1>4, <1>6, <2>1 DEF NotNegative, CRem
  <2>4. u \in Nat /\ u % 7 = (n + k) % 7 /\ u <= w + 6  BY <2>2, <2>3
  <2> QED  BY <1>1, <1>2, <1>3, <1>4, <2>4
<1> QED  BY <1>5, <1>6

(* The time t is at most a day later than a date and in step with its week *)
(* day; its day exists if the date's did.                                  *)
Follows(t, y, m, d, w) ==
  \E y2, m2, d2, w2 : \E h2 \in 0 .. 24 :
    /\ t = Time(y2, m2, d2, w2, h2)
    /\ InStep(y2, m2, d2, w2)
    /\ w2 <= w \/ w2 <= 6
    /\ d2 <= 31 \/ d2 <= d + 1
    /\ d \in 1 .. LastDay(y, m) => d2 <= 31

(* TimeAdjust keeps the week day in step with the date, whatever the date. *)
LEMMA TimeAdjustInStep ==
  ASSUME NEW y, NEW m, NEW d, NEW w, InStep(y, m, d, w),
         NEW h \in 0 .. 24, NEW z \in -23 .. 23
  PROVE  Follows(TimeAdjust(Time(y, m, d, w, h), z), y, m, d, w)
<1>1. Dated(y, m, d) /\ w \in Nat /\ w % 7 = DayNumber(y, m, d) % 7  BY DEF InStep
<1>2. DayNumber(y, m, d) \in Int /\ LastDay(y, m) \in 28 .. 31 /\ d \in Int  BY <1>1, DatedFacts
<1>3. Time(y, m, d, w, h).hour = h  BY DEF Time
<1>4. CASE z = 0 \/ h + z \in 0 .. 23
  <2>1. TimeAdjust(Time(y, m, d, w, h), z) = Time(y, m, d, w, IF z = 0 THEN h ELSE h + z)
    <3>1. CASE z = 0  BY <3>1 DEF TimeAdjust
    <3>2. CASE z # 0 /\ h + z \in 0 .. 23
      <4>1. TimeAdjust(Time(y, m, d, w, h), z) = [Time(y, m, d, w, h) EXCEPT !.hour = h + z]
        BY <1>3, <3>2 DEF TimeAdjust
      <4> QED  BY <3>2, <4>1 DEF Time
    <3> QED  BY <1>4, <3>1, <3>2
  <2>2. PICK e : e = IF z = 0 THEN h ELSE h + z  OBVIOUS
  <2>3. e \in 0 .. 24  BY <1>4, <2>2
  <2>4. w <= w /\ d <= d + 1 /\ (d \in 1 .. LastDay(y, m) => d <= 31)  BY <1>1, <1>2
  <2> QED  BY <2>1, <2>2, <2>3, <2>4 DEF Follows
<1>5. CASE z # 0 /\ h + z >= 24
  <2>1. PICK v : v = (w + 1) % 7  OBVIOUS
  <2>2. v \in Nat /\ v % 7 = (DayNumber(y, m, d) + 1) % 7 /\ v <= 6  BY <1>1, <1>2, <2>1, WeekMoves
  <2>3. PICK y2, m2, d2 :
          /\ NextDay(Time(y, m, d, w, h)) = Time(y2, m2, d2, v, h)
          /\ Dated(y2, m2, d2)
          /\ DayNumber(y2, m2, d2) = DayNumber(y, m, d) + 1
          /\ d \in 1 .. LastDay(y, m) => d2 \in 1 .. LastDay(y2, m2)
          /\ d2 <= 31 \/ d2 = d + 1
    BY <1>1, <2>1, NextDate
  <2>4. PICK e : e = h + z - 24  OBVIOUS
  <2>5. e \in 0 .. 24  BY <1>5, <2>4
  <2>6. TimeAdjust(Time(y, m, d, w, h), z) = [Time(y2, m2, d2, v, h) EXCEPT !.hour = e]
    BY <1>3, <1>5, <2>3, <2>4 DEF TimeAdjust
  <2>7. TimeAdjust(Time(y, m, d, w, h), z) = Time(y2, m2, d2, v, e)  BY <2>6 DEF Time
  <2>8. LastDay(y2, m2) \in 28 .. 31 /\ d2 \in Int  BY <2>3, DatedFacts
  <2>9. InStep(y2, m2, d2, v)  BY <2>2, <2>3 DEF InStep
  <2>10. (d2 <= 31 \/ d2 <= d + 1) /\ (d \in 1 .. LastDay(y, m) => d2 <= 31)  BY <1>2, <2>3, <2>8
  <2> QED  BY <2>2, <2>5, <2>7, <2>9, <2>10 DEF Follows
<1>6. CASE z # 0 /\ h + z < 0
  <2>1. PICK v : v = IF w - 1 < 0 THEN w + 6 ELSE w - 1  OBVIOUS
  <2>2. v \in Nat /\ v % 7 = (DayNumber(y, m, d) - 1) % 7 /\ (v <= w \/ v <= 6)
    BY <1>1, <1>2, <2>1, WeekMoves
  <2>3. PICK y2, m2, d2 :
          /\ DayBefore(Time(y, m, d, w, h)) = Time(y2, m2, d2, v, h)
          /\ Dated(y2, m2, d2)
          /\ DayNumber(y2, m2, d2) = DayNumber(y, m, d) - 1
          /\ d \in 1 .. LastDay(y, m) => d2 \in 1 .. LastDay(y2, m2)
          /\ d2 <= 31 \/ d2 = d - 1
    BY <1>1, <2>1, PrecedingDate
  <2>4. PICK e : e = h + z + 24  OBVIOUS
  <2>5. e \in 0 .. 24  BY <1>6, <2>4
  <2>6. TimeAdjust(Time(y, m, d, w, h), z) = [Time(y2, m2, d2, v, h) EXCEPT !.hour = e]
    BY <1>3, <1>6, <2>3, <2>4 DEF TimeAdjust
  <2>7. TimeAdjust(Time(y, m, d, w, h), z) = Time(y2, m2, d2, v, e)  BY <2>6 DEF Time
  <2>8. LastDay(y2, m2) \in 28 .. 31 /\ d2 \in Int  BY <2>3, DatedFacts
  <2>9. InStep(y2, m2, d2, v)  BY <2>2, <2>3 DEF InStep
  <2>10. (d2 <= 31 \/ d2 <= d + 1) /\ (d \in 1 .. LastDay(y, m) => d2 <= 31)  BY <1>2, <2>3, <2>8
  <2> QED  BY <2>2, <2>5, <2>7, <2>9, <2>10 DEF Follows
<1> QED  BY <1>4, <1>5, <1>6

-----------------------------------------------------------------------------
(***************************************************************************)
(* The invariant of all setters: the week day stays in step with a date    *)
(* that may not exist, but is at most as many days beyond the longest      *)
(* month as changes of the zone moved it.                                  *)
(***************************************************************************)
FieldsInv ==
  /\ InStep(year, month, day, week)
  /\ week <= MaxWeek
  /\ moves \in 0 .. MaxMoves /\ day <= 31 + moves
  /\ hour \in 0 .. 24 /\ minute \in 0 .. 60 /\ second \in 0 .. 60

SetInv == CalendarInv /\ FieldsInv

(* A proper date is in step.                                               *)
LEMMA ProperInStep ==
  ASSUME NEW y, NEW m, NEW d, NEW w, Proper(y, m, d, w)
  PROVE  InStep(y, m, d, w) /\ w <= 6 /\ d <= 31
<1>1. Dated(y, m, d) /\ DayNumber(y, m, d) \in Int /\ d <= 31  BY ProperFacts DEF Dated
<1>2. w \in Nat /\ w <= 6 /\ w % 7 = DayNumber(y, m, d) % 7  BY <1>1 DEF Proper
<1> QED  BY <1>1, <1>2 DEF InStep

(* The initial fields.                                                     *)
LEMMA InitFields == ASSUME MCInit PROVE FieldsInv
<1>1. PICK now \in Instants :
        /\ year = now.year /\ month = now.month /\ day = now.day
        /\ week = DayNumber(now.year, now.month, now.day) % 7 /\ hour = now.hour
        /\ minute = now.minute /\ second = now.second
  BY DEF MCInit, Init
<1>2. InStep(year, month, day, week) /\ week <= 6 /\ day <= 31
  BY <1>1, InstantFacts, ProperInStep
<1>3. day \in Int /\ week \in Nat /\ moves = 0  BY <1>2 DEF InStep, Dated, MCInit
<1>4. hour \in 0 .. 24 /\ minute \in 0 .. 60 /\ second \in 0 .. 60  BY <1>1, InstantsAssumption
<1> QED  BY <1>2, <1>3, <1>4, BoundsAssumption DEF FieldsInv

(* The clock is read.                                                      *)
LEMMA UpdateFields ==
  ASSUME SetInv, NEW now \in Instants, MCUpdate(now)
  PROVE  FieldsInv'
<1>1. timeZone \in -12 .. 12 /\ moves' = 0 /\ minute' = now.minute /\ second' = now.second
  BY DEF SetInv, CalendarInv, MCUpdate, UpdateTime
<1>2. PICK w : w = DayNumber(now.year, now.month, now.day) % 7  OBVIOUS
<1>3. Show(TimeAdjust(Time(now.year, now.month, now.day, w, now.hour), timeZone))
  BY <1>2 DEF MCUpdate, UpdateTime
<1>4. Proper(now.year, now.month, now.day, w) /\ now.hour \in 0 .. 24
  BY <1>2, InstantFacts
<1>5. InStep(now.year, now.month, now.day, w) /\ w <= 6 /\ w \in Nat
      /\ now.day \in 1 .. LastDay(now.year, now.month)
  BY <1>4, ProperInStep DEF Proper, InStep
<1>6. PICK z \in -23 .. 23 : z = timeZone  BY <1>1
<1>7. Follows(TimeAdjust(Time(now.year, now.month, now.day, w, now.hour), z),
              now.year, now.month, now.day, w)
  BY <1>4, <1>5, TimeAdjustInStep
<1>8. PICK y2, m2, d2, w2 : \E h2 \in 0 .. 24 :
        /\ TimeAdjust(Time(now.year, now.month, now.day, w, now.hour), z) = Time(y2, m2, d2, w2, h2)
        /\ InStep(y2, m2, d2, w2)
        /\ w2 <= w \/ w2 <= 6
        /\ now.day \in 1 .. LastDay(now.year, now.month) => d2 <= 31
  BY <1>7 DEF Follows
<1>9. PICK h2 \in 0 .. 24 :
        TimeAdjust(Time(now.year, now.month, now.day, w, now.hour), z) = Time(y2, m2, d2, w2, h2)
  BY <1>8
<1>10. year' = y2 /\ month' = m2 /\ day' = d2 /\ week' = w2 /\ hour' = h2
  BY <1>3, <1>6, <1>9, Shown
<1>11. d2 \in Int /\ w2 \in Nat  BY <1>8 DEF InStep, Dated
<1>12. d2 <= 31 + 0 /\ w2 <= MaxWeek  BY <1>5, <1>8, <1>11, BoundsAssumption
<1>13. InStep(year, month, day, week)'  BY <1>8, <1>10 DEF InStep, Dated
<1>14. minute' \in 0 .. 60 /\ second' \in 0 .. 60 /\ 0 \in 0 .. MaxMoves
  BY <1>1, InstantsAssumption, BoundsAssumption
<1> QED  BY <1>1, <1>9, <1>10, <1>12, <1>13, <1>14 DEF FieldsInv

(* The zone is changed.                                                    *)
LEMMA ZoneFields ==
  ASSUME SetInv, NEW z \in Zones, MCZone(z), CalendarInv'
  PROVE  FieldsInv'
<1>1. /\ z \in -12 .. 12 /\ z - timeZone \notin {-24, 24} /\ timeZone \in -12 .. 12
      /\ shown' = shown /\ minute' = minute /\ second' = second
      /\ shown = NotTime => moves < MaxMoves
      /\ moves' = IF shown = NotTime THEN moves + 1 ELSE moves
  BY DEF MCZone, SetTimeZone, SetInv, CalendarInv
<1>2. PICK e : e = z - timeZone  OBVIOUS
<1>3. e \in -23 .. 23  BY <1>1, <1>2
<1>4. Show(TimeAdjust(Time(year, month, day, week, hour), e))
  BY <1>1, <1>2 DEF MCZone, SetTimeZone
<1>5. FieldsInv /\ InStep(year, month, day, week) /\ hour \in 0 .. 24  BY DEF SetInv, FieldsInv
<1> Follows(TimeAdjust(Time(year, month, day, week, hour), e), year, month, day, week)
  BY <1>3, <1>5, TimeAdjustInStep
<1>6. PICK y2, m2, d2, w2 : \E h2 \in 0 .. 24 :
        /\ TimeAdjust(Time(year, month, day, week, hour), e) = Time(y2, m2, d2, w2, h2)
        /\ InStep(y2, m2, d2, w2)
        /\ w2 <= week \/ w2 <= 6
        /\ d2 <= 31 \/ d2 <= day + 1
  BY DEF Follows
<1>7. PICK h2 \in 0 .. 24 :
        TimeAdjust(Time(year, month, day, week, hour), e) = Time(y2, m2, d2, w2, h2)
  BY <1>6
<1>8. year' = y2 /\ month' = m2 /\ day' = d2 /\ week' = w2 /\ hour' = h2
  BY <1>4, <1>7, Shown
<1>9. day \in Int /\ week \in Nat /\ d2 \in Int /\ w2 \in Nat  BY <1>5, <1>6 DEF InStep, Dated
<1>10. w2 <= MaxWeek  BY <1>5, <1>6, <1>9, BoundsAssumption DEF FieldsInv
<1>11. moves' \in 0 .. MaxMoves /\ day' <= 31 + moves'
  <2>1. CASE shown = NotTime
    BY <2>1, <1>1, <1>5, <1>6, <1>8, <1>9, BoundsAssumption DEF FieldsInv
  <2>2. CASE shown # NotTime
    <3>1. Proper(year, month, day, week)'  BY <2>2, <1>1 DEF CalendarInv, Local
    <3>2. Proper(y2, m2, d2, w2)  BY <3>1, <1>8 DEF Proper
    <3>3. d2 <= 31  BY <3>2, ProperInStep
    <3> QED  BY <2>2, <3>3, <1>1, <1>5, <1>8, <1>9 DEF FieldsInv
  <2> QED  BY <2>1, <2>2
<1>12. InStep(year, month, day, week)'  BY <1>6, <1>8 DEF InStep, Dated
<1> QED  BY <1>1, <1>5, <1>8, <1>10, <1>11, <1>12 DEF FieldsInv

(* A year, a month or a day is set.                                        *)
LEMMA DateFields ==
  ASSUME FieldsInv,
         \/ \E y \in Years : month # 2 /\ SetYear(y)
         \/ \E m \in Months : SetMonth(m)
         \/ \E d \in Days : d <= LastDay(year, month) /\ week + 6 <= MaxWeek /\ SetDay(d)
  PROVE  /\ InStep(year, month, day, week)'
         /\ week' <= MaxWeek /\ (day' = day \/ day' <= 31)
         /\ hour' = hour /\ minute' = minute /\ second' = second
<1>1. /\ Dated(year, month, day) /\ week \in Nat /\ week % 7 = DayNumber(year, month, day) % 7
      /\ week <= MaxWeek
  BY DEF FieldsInv, InStep
<1>2. /\ year \in Int /\ month \in 1 .. 12 /\ day \in Int
      /\ LastDay(year, month) \in 28 .. 31 /\ DayNumber(year, month, day) \in Int
  BY <1>1, DatedFacts
<1>3. PICK n \in Int : n = DayNumber(year, month, day)  BY <1>2
<1>4. ASSUME NEW y \in Years, month # 2, SetYear(y)
      PROVE  /\ InStep(year, month, day, week)' /\ week' <= MaxWeek /\ day' = day
             /\ hour' = hour /\ minute' = minute /\ second' = second
  <2>1. y \in Int  BY SettersAssumption
  <2>2. /\ year' = y /\ month' = month /\ day' = day
        /\ hour' = hour /\ minute' = minute /\ second' = second
    BY <1>4 DEF SetYear
  <2>3. CASE y > year
    <3>1. PICK k \in Int : k = YearDays(year, y) /\ k = DayNumber(y, month, day) - n
      BY <2>1, <2>3, <1>2, <1>3, <1>4, YearDaysRight
    <3>2. week' = (week + (k % 7)) % 7  BY <2>3, <3>1, <1>4 DEF SetYear, WeekUp
    <3>3. week' \in 0 .. 6 /\ week' % 7 = (n + k) % 7  BY <3>2, <1>1, <1>3, WeekSet
    <3>4. Dated(y, month, day)  BY <2>1, <1>1 DEF Dated
    <3>5. DayNumber(y, month, day) = n + k  BY <3>1, <3>4, DatedFacts
    <3>6. week' <= MaxWeek  BY <3>3, BoundsAssumption
    <3> QED  BY <2>2, <3>3, <3>4, <3>5, <3>6 DEF InStep, Dated
  <2>4. CASE ~(y > year)
    <3>1. PICK k \in Int : k = YearDays(y, year) /\ k = n - DayNumber(y, month, day)
      BY <2>1, <2>4, <1>2, <1>3, <1>4, YearDaysRight
    <3>2. week' = IF week - (k % 7) < 0 THEN week - (k % 7) + 7 ELSE week - (k % 7)
      BY <2>4, <3>1, <1>4 DEF SetYear, WeekDown
    <3>3. week' \in Nat /\ week' % 7 = (n - k) % 7 /\ (week' <= week \/ week' <= 6)
      BY <3>2, <1>1, <1>3, WeekSet
    <3>4. Dated(y, month, day)  BY <2>1, <1>1 DEF Dated
    <3>5. DayNumber(y, month, day) = n - k  BY <3>1, <3>4, DatedFacts
    <3>6. week' <= MaxWeek  BY <3>3, <1>1, BoundsAssumption
    <3> QED  BY <2>2, <3>3, <3>4, <3>5, <3>6 DEF InStep, Dated
  <2> QED  BY <2>2, <2>3, <2>4
<1>5. ASSUME NEW m \in Months, SetMonth(m)
      PROVE  /\ InStep(year, month, day, week)' /\ week' <= MaxWeek /\ day' = day
             /\ hour' = hour /\ minute' = minute /\ second' = second
  <2>1. m \in 1 .. 12  BY SettersAssumption
  <2>2. /\ year' = year /\ month' = m /\ day' = day
        /\ hour' = hour /\ minute' = minute /\ second' = second
    BY <2>1, <1>5 DEF SetMonth
  <2>3. CASE m > month
    <3>1. PICK k \in Int : k = MonthDays(month, m) /\ k = DayNumber(year, m, day) - n
      BY <2>1, <2>3, <1>2, <1>3, MonthDaysRight
    <3>2. week' = (week + (k % 7)) % 7  BY <2>1, <2>3, <3>1, <1>5 DEF SetMonth, WeekUp
    <3>3. week' \in 0 .. 6 /\ week' % 7 = (n + k) % 7  BY <3>2, <1>1, <1>3, WeekSet
    <3>4. Dated(year, m, day)  BY <2>1, <1>1 DEF Dated
    <3>5. DayNumber(year, m, day) = n + k  BY <3>1, <3>4, DatedFacts
    <3>6. week' <= MaxWeek  BY <3>3, BoundsAssumption
    <3> QED  BY <2>2, <3>3, <3>4, <3>5, <3>6 DEF InStep, Dated
  <2>4. CASE ~(m > month)
    <3>1. PICK k \in Int : k = MonthDays(m, month) /\ k = n - DayNumber(year, m, day)
      BY <2>1, <2>4, <1>2, <1>3, MonthDaysRight
    <3>2. week' = IF week - (k % 7) < 0 THEN week - (k % 7) + 7 ELSE week - (k % 7)
      BY <2>1, <2>4, <3>1, <1>5 DEF SetMonth, WeekDown
    <3>3. week' \in Nat /\ week' % 7 = (n - k) % 7 /\ (week' <= week \/ week' <= 6)
      BY <3>2, <1>1, <1>3, WeekSet
    <3>4. Dated(year, m, day)  BY <2>1, <1>1 DEF Dated
    <3>5. DayNumber(year, m, day) = n - k  BY <3>1, <3>4, DatedFacts
    <3>6. week' <= MaxWeek  BY <3>3, <1>1, BoundsAssumption
    <3> QED  BY <2>2, <3>3, <3>4, <3>5, <3>6 DEF InStep, Dated
  <2> QED  BY <2>2, <2>3, <2>4
<1>6. ASSUME NEW d \in Days, d <= LastDay(year, month), week + 6 <= MaxWeek, SetDay(d)
      PROVE  /\ InStep(year, month, day, week)' /\ week' <= MaxWeek /\ day' <= 31
             /\ hour' = hour /\ minute' = minute /\ second' = second
  <2>1. d \in 1 .. LastDay(year, month) /\ d \in Int /\ d <= 31 /\ d >= 1
    BY <1>2, <1>6, SettersAssumption
  <2>2. PICK k \in Int : k = d - day  BY <2>1, <1>2
  <2>3. /\ year' = year /\ month' = month /\ day' = d /\ week' = NotNegative(week + CRem(k))
        /\ hour' = hour /\ minute' = minute /\ second' = second
    BY <2>1, <2>2, <1>6 DEF SetDay
  <2>4. week' \in Nat /\ week' % 7 = (n + k) % 7 /\ week' <= week + 6  BY <2>3, <1>1, <1>3, WeekSet
  <2>5. Dated(year, month, d)  BY <2>1, <1>1 DEF Dated
  <2>6. /\ DayNumber(year, month, d) = YearStart(year) + MonthStart(year, month) + d
        /\ n = YearStart(year) + MonthStart(year, month) + day
        /\ YearStart(year) \in Int /\ MonthStart(year, month) \in Int
    BY <2>5, <1>1, <1>3, DatedFacts
  <2>7. DayNumber(year, month, d) = n + k  BY <2>1, <2>2, <2>6, <1>2
  <2>8. week' <= MaxWeek  BY <2>4, <1>1, <1>6, BoundsAssumption
  <2> QED  BY <2>1, <2>3, <2>4, <2>5, <2>7, <2>8 DEF InStep, Dated
<1> QED  BY <1>4, <1>5, <1>6

(* Every step keeps the invariant.                                         *)
LEMMA StepFields == ASSUME SetInv, [SafeNext]_mcvars PROVE SetInv'
<1>1. CalendarInv'  BY StepLocal DEF SetInv
<1>2. CASE \E now \in Instants : MCUpdate(now)  BY <1>1, <1>2, UpdateFields DEF SetInv
<1>3. CASE \E z \in Zones : MCZone(z)  BY <1>1, <1>3, ZoneFields DEF SetInv
<1>4. CASE MCSet
  <2>1. moves' = moves  BY <1>4 DEF MCSet
  <2>2. CASE \/ \E y \in Years : month # 2 /\ SetYear(y)
             \/ \E m \in Months : SetMonth(m)
             \/ \E d \in Days : d <= LastDay(year, month) /\ week + 6 <= MaxWeek /\ SetDay(d)
    <3>1. /\ InStep(year, month, day, week)'
          /\ week' <= MaxWeek /\ (day' = day \/ day' <= 31)
          /\ hour' = hour /\ minute' = minute /\ second' = second
      BY <2>2, DateFields DEF SetInv
    <3>2. PICK e : e = day'  OBVIOUS
    <3>3. e \in Int /\ moves \in Nat  BY <3>1, <3>2 DEF InStep, Dated, SetInv, FieldsInv
    <3>4. day' <= 31 + moves'  BY <2>1, <3>1, <3>2, <3>3 DEF SetInv, FieldsInv
    <3> QED  BY <1>1, <2>1, <3>1, <3>4 DEF SetInv, FieldsInv
  <2>3. CASE \/ \E h \in Hours : SetHour(h)
             \/ \E m \in Minutes : SetMinute(m) \/ SetSecond(m)
    <3>1. /\ year' = year /\ month' = month /\ day' = day /\ week' = week
          /\ hour' \in {hour} \cup (0 .. 24) /\ minute' \in {minute} \cup (0 .. 60)
          /\ second' \in {second} \cup (0 .. 60)
      BY <2>3 DEF SetHour, SetMinute, SetSecond, date
    <3> QED  BY <1>1, <2>1, <3>1 DEF SetInv, FieldsInv, InStep, Dated
  <2> QED  BY <1>4, <2>2, <2>3 DEF MCSet
<1>5. CASE UNCHANGED mcvars
  BY <1>1, <1>5 DEF mcvars, vars, SetInv, FieldsInv, InStep, Dated
<1> QED  BY <1>2, <1>3, <1>4, <1>5 DEF SafeNext, SetInv

(* SetInv holds in every state.                                            *)
THEOREM SetInvariant == SafeSpec => []SetInv
<1>1. MCInit => SetInv  BY InitLocal, InitFields DEF SetInv
<1>2. SetInv /\ [SafeNext]_mcvars => SetInv'  BY StepFields
<1> QED  BY <1>1, <1>2, PTL DEF SafeSpec

(* The fields have their types; a day is beyond its month only as far as   *)
(* changes of the zone after another setter moved it.                      *)
THEOREM FieldsTyped == SafeSpec => []TypeOK
<1>1. SetInv => TypeOK
  BY BoundsAssumption DEF SetInv, FieldsInv, CalendarInv, TypeOK, InStep, Dated
<1> QED  BY <1>1, SetInvariant, PTL

(* In whatever order the setters and the zone are used, except for SetYear *)
(* in February and for days and months that do not exist, the week day     *)
(* stays that of the date, up to whole weeks.                              *)
THEOREM WeekKeepsStep == SafeSpec => []WeekInStep
<1>1. SetInv => WeekInStep  BY DEF SetInv, FieldsInv, InStep, WeekInStep
<1> QED  BY <1>1, SetInvariant, PTL
==============================================================================
