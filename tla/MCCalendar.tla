------------------------------ MODULE MCCalendar ------------------------------
(***************************************************************************)
(* Bounded instances of Calendar.  The history `shown' is what the fields  *)
(* stand for: the UTC instant last read, in hours, as long as only time    *)
(* zones have been set since, and NotTime otherwise.                       *)
(***************************************************************************)
EXTENDS Calendar, FiniteSets

CONSTANTS Zones, Years, Months, Days, Hours, Minutes,
          MaxWeek,    (* bound on the week day, which SetDay lets grow     *)
                      (* beyond the 0 .. 6 of calendar.h:39                *)
          MaxMoves    (* bound on the changes of zone after another setter *)

(* The setters are called for years, months and days that exist.           *)
ASSUME SettersAssumption ==
  Years \subseteq Int /\ Months \subseteq 1 .. 12 /\ Days \subseteq 1 .. 31

ASSUME BoundsAssumption == MaxWeek \in Nat /\ MaxWeek >= 6 /\ MaxMoves \in Nat

VARIABLES shown, moves

mcvars == <<vars, shown, moves>>

NotTime == -1

At(y, m, d, h) == [year |-> y, month |-> m, day |-> d, hour |-> h, minute |-> 0, second |-> 0]

MCInstants ==
  {At(2000, 12, 31, 23), At(2001, 1, 1, 0), At(2000, 2, 29, 20), At(1999, 2, 28, 20),
   At(2004, 3, 1, 3), At(2001, 3, 1, 3), At(2001, 7, 31, 18), At(2001, 8, 31, 18), At(2001, 10, 1, 5)}

MCZones == {-12, -5, 0, 8, 12}

Utc(now) == HourNumber(now.year, now.month, now.day, now.hour)

MCInit == Init /\ shown = HourNumber(year, month, day, hour) /\ moves = 0

MCUpdate(now) == UpdateTime(now) /\ shown' = Utc(now) /\ moves' = 0

(* A zone in range, and not the ignored change from one end to the other.  *)
MCZone(z) ==
  /\ z \in -12 .. 12 /\ z - timeZone \notin {-24, 24}
  /\ shown = NotTime => moves < MaxMoves
  /\ SetTimeZone(z)
  /\ moves' = IF shown = NotTime THEN moves + 1 ELSE moves
  /\ UNCHANGED shown

(* A year set in February, or to one far off, takes the week day out of    *)
(* step, and so does a day or month that does not exist.                   *)
MCSet ==
  /\ \/ \E y \in Years : month # 2 /\ SetYear(y)
     \/ \E m \in Months : SetMonth(m)
     \/ \E d \in Days : d <= LastDay(year, month) /\ week + 6 <= MaxWeek /\ SetDay(d)
     \/ \E h \in Hours : SetHour(h)
     \/ \E m \in Minutes : SetMinute(m) \/ SetSecond(m)
  /\ shown' = NotTime
  /\ UNCHANGED moves

SafeNext == (\E now \in Instants : MCUpdate(now)) \/ (\E z \in Zones : MCZone(z)) \/ MCSet

SafeSpec == MCInit /\ [][SafeNext]_mcvars

-----------------------------------------------------------------------------
(* The state has its type.  The bound on the week day is the one MCSet     *)
(* imposes: the code has none, although calendar.h:39 and 395 allow 0 .. 6 *)
(* only.                                                                   *)
TypeOK ==
  /\ year \in Int /\ month \in 1 .. 12 /\ day \in 1 .. 31 + MaxMoves
  /\ week \in 0 .. MaxWeek
  /\ hour \in 0 .. 24 /\ minute \in 0 .. 60 /\ second \in 0 .. 60
  /\ timeZone \in -12 .. 12

(* While only the clock and the zone have been set, the fields show a date *)
(* that exists, and the instant the clock gave, in the zone's local time,  *)
(* with the week day of that date.                                         *)
LocalTimeRight ==
  shown # NotTime =>
    /\ month \in 1 .. 12 /\ day \in 1 .. LastDay(year, month) /\ hour \in 0 .. 23
    /\ HourNumber(year, month, day, hour) = shown + timeZone
    /\ week = DayNumber(year, month, day) % 7

(* However years, months, days and zones are set, in any order but for a   *)
(* year in February and for days and months that do not exist, the week    *)
(* day is that of the date, up to whole weeks.                             *)
WeekInStep == week % 7 = DayNumber(year, month, day) % 7
==============================================================================
