\* The clock, time zones and every setter with values it accepts.
SPECIFICATION SafeSpec
CONSTANTS
  Instants <- MCInstants
  Zones <- MCZones
  Years = {1999, 2000, 2001, 2004}
  Months = {1, 2, 3, 7, 8, 12}
  Days = {1, 7, 13, 28, 29, 30, 31}
  Hours = {0, 12, 24, 25}
  Minutes = {0, 60}
  MaxWeek = 13
  MaxMoves = 2
INVARIANTS
  TypeOK
  LocalTimeRight
  WeekInStep
