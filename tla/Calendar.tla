------------------------------- MODULE Calendar -------------------------------
(***************************************************************************)
(* The class Calendar (common/calendar.h): a date, a week day and a time   *)
(* that are kept in step by hand, field by field.                          *)
(***************************************************************************)
EXTENDS Integers

CONSTANTS Instants   (* what gmtime may give: [year, month, day, hour, minute, second] *)

VARIABLES year, month, day,
          week,              (* 0 for Sunday; the index into weekStr       *)
          hour, minute, second,
          timeZone

date == <<year, month, day>>
vars == <<year, month, day, week, hour, minute, second, timeZone>>

IsLeapYear(y) == (y % 4 = 0 /\ y % 100 # 0) \/ y % 400 = 0

(* The length of a month, as TimeAdjust, SetMonth and SetDay write it.     *)
LastDay(y, m) ==
  IF m = 2 THEN IF IsLeapYear(y) THEN 29 ELSE 28
  ELSE IF m <= 7 THEN IF m % 2 = 1 THEN 31 ELSE 30
  ELSE IF m % 2 = 0 THEN 31 ELSE 30

(* What gmtime gives is a date and a time of day.                          *)
ASSUME InstantsAssumption ==
  \A now \in Instants :
    /\ now.year \in Int /\ now.month \in 1 .. 12
    /\ now.day \in 1 .. LastDay(now.year, now.month)
    /\ now.hour \in 0 .. 23 /\ now.minute \in 0 .. 59 /\ now.second \in 0 .. 60

(* A date and time as one value, for TimeAdjust.                           *)
Time(y, m, d, w, h) == [year |-> y, month |-> m, day |-> d, week |-> w, hour |-> h]

(* The next day: only the last day of the month is followed by a first.    *)
NextDay(t) ==
  IF t.day # LastDay(t.year, t.month)
  THEN [t EXCEPT !.day = @ + 1, !.week = (@ + 1) % 7]
  ELSE [t EXCEPT !.day = 1, !.week = (@ + 1) % 7,
                 !.month = IF @ = 12 THEN 1 ELSE @ + 1,
                 !.year = IF t.month = 12 THEN @ + 1 ELSE @]

(* The day before.                                                         *)
DayBefore(t) ==
  LET m == IF t.month = 1 THEN 12 ELSE t.month - 1
      y == IF t.month = 1 THEN t.year - 1 ELSE t.year
      w == IF t.week - 1 < 0 THEN t.week + 6 ELSE t.week - 1
  IN  IF t.day # 1 THEN [t EXCEPT !.day = @ - 1, !.week = w]
      ELSE [t EXCEPT !.day = LastDay(y, m), !.month = m, !.year = y, !.week = w]

(* Seeded fault: midnight still belongs to the day before.                 *)
TimeAdjust_Midnight(t, d) ==
  LET h == t.hour + d
  IN  IF d = 0 THEN t
      ELSE IF h > 24 THEN [NextDay(t) EXCEPT !.hour = h - 24]
      ELSE IF h < 0 THEN [DayBefore(t) EXCEPT !.hour = h + 24]
      ELSE [t EXCEPT !.hour = h]

(* TimeAdjust by d hours: at most one day forwards or back, and nothing,   *)
(* not even for an hour of 24, when d is 0.                                *)
TimeAdjust(t, d) ==
  LET h == t.hour + d
  IN  IF d = 0 THEN t
      ELSE IF h >= 24 THEN [NextDay(t) EXCEPT !.hour = h - 24]
      ELSE IF h < 0 THEN [DayBefore(t) EXCEPT !.hour = h + 24]
      ELSE [t EXCEPT !.hour = h]

Show(t) ==
  /\ year' = t.year /\ month' = t.month /\ day' = t.day
  /\ week' = t.week /\ hour' = t.hour

-----------------------------------------------------------------------------
(* The days since 31 December of the year 0, the week day they give, and   *)
(* the hours: written with tables, apart from the code's way.              *)
DaysBefore == <<0, 31, 59, 90, 120, 151, 181, 212, 243, 273, 304, 334>>

DayNumber(y, m, d) ==
  365 * (y - 1) + (y - 1) \div 4 - (y - 1) \div 100 + (y - 1) \div 400
    + DaysBefore[m] + (IF m > 2 /\ IsLeapYear(y) THEN 1 ELSE 0) + d

HourNumber(y, m, d, h) == 24 * DayNumber(y, m, d) + h

-----------------------------------------------------------------------------
(* UpdateTime: gmtime, moved into the time zone.                           *)
UpdateTime(now) ==
  /\ Show(TimeAdjust(Time(now.year, now.month, now.day,
                          DayNumber(now.year, now.month, now.day) % 7, now.hour), timeZone))
  /\ minute' = now.minute /\ second' = now.second
  /\ UNCHANGED timeZone

(* The constructor.                                                        *)
Init ==
  /\ timeZone = 0
  /\ \E now \in Instants :
       /\ year = now.year /\ month = now.month /\ day = now.day
       /\ week = DayNumber(now.year, now.month, now.day) % 7
       /\ hour = now.hour /\ minute = now.minute /\ second = now.second

(* SetTimeZone.  A value that is out of range sets the zone to 0 and       *)
(* leaves the time; a change from -12 to 12 or back is ignored.            *)
SetTimeZone(z) ==
  IF z \notin -12 .. 12 THEN timeZone' = 0 /\ UNCHANGED <<date, week, hour, minute, second>>
  ELSE IF z - timeZone \in {-24, 24} THEN UNCHANGED vars
  ELSE /\ Show(TimeAdjust(Time(year, month, day, week, hour), z - timeZone))
       /\ timeZone' = z
       /\ UNCHANGED <<minute, second>>

(* C's remainder, which has the sign of the dividend.                      *)
CRem(a) == IF a < 0 THEN -((-a) % 7) ELSE a % 7

WeekUp(n) == (week + n) % 7
WeekDown(n) == IF week - n < 0 THEN week - n + 7 ELSE week - n

(* The sum of length[i] from i = a to i = b - 1.                           *)
Total(a, b, length) ==
  LET sum[i \in a .. b] == IF i = b THEN 0 ELSE sum[i + 1] + length[i]
  IN  sum[a]

(* Seeded fault: the leap day counts for the year it lies in, in any month.*)
YearDays_OwnLeap(a, b) == Total(a, b, [y \in a .. b |-> IF IsLeapYear(y) THEN 366 ELSE 365])

(* Days SetYear counts from year a to year b in the current month.         *)
YearDays(a, b) ==
  Total(a, b, [y \in a .. b |->
                 IF IsLeapYear(IF month >= 2 THEN y + 1 ELSE y) THEN 366 ELSE 365])

SetYear(y) ==
  /\ week' = IF y > year THEN WeekUp(YearDays(year, y) % 7) ELSE WeekDown(YearDays(y, year) % 7)
  /\ year' = y
  /\ UNCHANGED <<month, day, hour, minute, second, timeZone>>

MonthDays(a, b) == Total(a, b, [m \in a .. b |-> LastDay(year, m)])

(* SetMonth.  The day is not cut to the length of the new month.           *)
SetMonth(m) ==
  /\ IF m \notin 1 .. 12 THEN month' = 1 /\ week' = week
     ELSE /\ month' = m
          /\ week' = IF m > month THEN WeekUp(MonthDays(month, m) % 7)
                     ELSE WeekDown(MonthDays(m, month) % 7)
  /\ UNCHANGED <<year, day, hour, minute, second, timeZone>>

(* Seeded fault: a week day below 0 is left alone.                         *)
NotNegative_Left(w) == w

NotNegative(w) == IF w < 0 THEN w + 7 ELSE w

(* SetDay.  The week day is not reduced modulo 7.                          *)
SetDay(d) ==
  /\ IF d \in 1 .. LastDay(year, month)
     THEN day' = d /\ week' = NotNegative(week + CRem(d - day))
     ELSE day' = 1 /\ week' = NotNegative(week - (day - d))
  /\ UNCHANGED <<year, month, hour, minute, second, timeZone>>

SetWeek(w) ==
  /\ week' = IF w \in 0 .. 6 THEN w ELSE 1
  /\ UNCHANGED <<date, hour, minute, second, timeZone>>

SetHour(h) ==
  /\ hour' = IF h \in 0 .. 24 THEN h ELSE 0
  /\ UNCHANGED <<date, week, minute, second, timeZone>>

SetMinute(m) ==
  /\ minute' = IF m \in 0 .. 60 THEN m ELSE 0
  /\ UNCHANGED <<date, week, hour, second, timeZone>>

SetSecond(s) ==
  /\ second' = IF s \in 0 .. 60 THEN s ELSE 0
  /\ UNCHANGED <<date, week, hour, minute, timeZone>>
==============================================================================
