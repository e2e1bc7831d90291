------------------------------ MODULE TimeZone ------------------------------
(***************************************************************************)
(* ideal::Date and ideal::TimeZone: calendar dates as Julian day numbers,  *)
(* UTC and local times as seconds since the epoch, time-zone files.        *)
(*                                                                         *)
(* A zone is a record: trans, the transitions as records of gmt, the time  *)
(* of the transition, local, the same time on the new clock, and idx, and  *)
(* locals, the Localtime entries with off and dst (indices start at 1).    *)
(***************************************************************************)
EXTENDS Integers, Sequences

SecondsPerDay == 24 * 60 * 60

(***************************************************************************)
(* Date                                                                    *)
(***************************************************************************)

\* Mutant: the Julian calendar's leap years.
JulianDayNumberJulian(year, month, day) ==
  LET a == (14 - month) \div 12
      y == year + 4800 - a
      m == month + 12 * a - 3
  IN day + (153 * m + 2) \div 5 + y * 365 + y \div 4 - 32083

JulianDayNumber(year, month, day) ==
  LET a == (14 - month) \div 12
      y == year + 4800 - a
      m == month + 12 * a - 3
  IN day + (153 * m + 2) \div 5 + y * 365 + y \div 4 - y \div 100 + y \div 400 - 32045

YearMonthDay(julianDayNumber) ==
  LET a == julianDayNumber + 32044
      b == (4 * a + 3) \div 146097
      c == a - (b * 146097) \div 4
      d == (4 * c + 3) \div 1461
      e == c - (1461 * d) \div 4
      m == (5 * e + 2) \div 153
  IN [year  |-> b * 100 + d - 4800 + m \div 10,
      month |-> m + 3 - 12 * (m \div 10),
      day   |-> e - (153 * m + 2) \div 5 + 1]

WeekDay(julianDayNumber) == (julianDayNumber + 1) % 7
JulianDayOf1970 == JulianDayNumber(1970, 1, 1)

(***************************************************************************)
(* UTC.  C's / and % round towards zero.                                   *)
(***************************************************************************)

Quotient(a, b) == IF a >= 0 THEN a \div b ELSE -((-a) \div b)
Remainder(a, b) == a - b * Quotient(a, b)

FillHMS(seconds) ==
  [sec |-> seconds % 60, min |-> (seconds \div 60) % 60, hour |-> seconds \div 3600]

ToUtcTime(time) ==
  LET before  == Remainder(time, SecondsPerDay) < 0
      seconds == Remainder(time, SecondsPerDay) + IF before THEN SecondsPerDay ELSE 0
      days    == Quotient(time, SecondsPerDay) - IF before THEN 1 ELSE 0
      ymd     == YearMonthDay(days + JulianDayOf1970)
      hms     == FillHMS(seconds)
  IN [year |-> ymd.year, month |-> ymd.month, day |-> ymd.day,
      hour |-> hms.hour, min |-> hms.min, sec |-> hms.sec,
      wday |-> WeekDay(days + JulianDayOf1970),
      yday |-> days + JulianDayOf1970 - JulianDayNumber(ymd.year, 1, 1)]

FromUtcTime(tm) ==
  (JulianDayNumber(tm.year, tm.month, tm.day) - JulianDayOf1970) * SecondsPerDay
  + tm.hour * 3600 + tm.min * 60 + tm.sec

\* gmtime_r() and timegm() of the C library.
Gmtime(time) == ToUtcTime(time)
Timegm(tm) == FromUtcTime(tm)

(***************************************************************************)
(* TimeZone                                                                *)
(***************************************************************************)

Transition(gmt, local, idx) == [gmt |-> gmt, local |-> local, idx |-> idx]

\* The file holds times, the index of the entry each one starts, the entries
\* (types), then their abbreviations; cut says where it ends too early:
\* "types" (or before), "abbreviations" or "none".  The read throws there,
\* what it made so far stays, and the zone counts as valid: file.types are
\* the entries before the cut, and the transitions are made once all entries
\* are read, before the abbreviations.
ReadTimeZoneFile(file) ==
  [locals |-> file.types,
   trans  |-> [i \in 1..(IF file.cut = "types" THEN 0 ELSE Len(file.times)) |->
                 Transition(file.times[i], file.times[i] + file.types[file.idx[i]].off, file.idx[i])]]

\* The constructor for a fixed offset.
FixedZone(eastOfUtc) == [trans |-> <<>>, locals |-> <<[off |-> eastOfUtc, dst |-> FALSE]>>]

\* Comp compares transitions on the clock of UTC or on the local one.
Key(tr, compareGmt) == IF compareGmt THEN tr.gmt ELSE tr.local

FindLocaltime(tz, t, compareGmt) ==
  LET n  == Len(tz.trans)
      keys == [i \in 1..n |-> Key(tz.trans[i], compareGmt)]
      ge == {i \in 1..n : keys[i] >= t}
      lowerBound == CHOOSE i \in ge : \A j \in ge : i <= j
      at == IF ge = {} THEN n
            ELSE IF keys[lowerBound] = t THEN lowerBound ELSE lowerBound - 1
  IN IF n = 0 THEN tz.locals[1]
     ELSE IF t < keys[1] THEN tz.locals[1]
     ELSE tz.locals[tz.trans[at].idx]

ToLocalTime(tz, time) ==
  LET local == FindLocaltime(tz, time, TRUE)
  IN [tm |-> Gmtime(time + local.off), dst |-> local.dst, off |-> local.off]

\* A time that the clock shows twice is taken as the later one, and put back
\* by an hour when the caller says it is daylight saving time.
FromLocalTime(tz, lt) ==
  LET seconds == Timegm(lt.tm)
      local   == FindLocaltime(tz, seconds, FALSE)
      try     == ToLocalTime(tz, seconds - local.off)
      again   == /\ lt.dst /\ ~try.dst
                 /\ try.tm.hour = lt.tm.hour /\ try.tm.min = lt.tm.min
  IN seconds - local.off - IF again THEN 3600 ELSE 0

(***************************************************************************)
(* References                                                              *)
(***************************************************************************)

IsLeap(year) == year % 4 = 0 /\ (year % 100 # 0 \/ year % 400 = 0)
DaysIn(year, month) ==
  CASE month = 2 -> IF IsLeap(year) THEN 29 ELSE 28
    [] month \in {4, 6, 9, 11} -> 30
    [] OTHER -> 31
NextDay(d) ==
  IF d.day < DaysIn(d.year, d.month) THEN [d EXCEPT !.day = @ + 1]
  ELSE IF d.month < 12 THEN [d EXCEPT !.month = @ + 1, !.day = 1]
  ELSE [year |-> d.year + 1, month |-> 1, day |-> 1]

\* The two conversions are inverse, and successive day numbers are
\* successive dates of the Gregorian calendar, counted from the right one.
CalendarIsExact(days) ==
  /\ JulianDayOf1970 = 2440588
  /\ \A n \in days :
       LET d == YearMonthDay(n) IN
       /\ JulianDayNumber(d.year, d.month, d.day) = n
       /\ YearMonthDay(n + 1) = NextDay(d)
       /\ d.month \in 1..12 /\ d.day \in 1..DaysIn(d.year, d.month)

\* UTC times before and after the epoch survive the round trip.
UtcIsExact(times) ==
  \A t \in times :
    LET tm == ToUtcTime(t) IN
    /\ FromUtcTime(tm) = t
    /\ tm.hour \in 0..23 /\ tm.min \in 0..59 /\ tm.sec \in 0..59
    /\ tm.yday \in 0..365

\* The offset in force at a time: that of the last transition so far.
OffsetAt(tz, time) ==
  LET past == {i \in 1..Len(tz.trans) : tz.trans[i].gmt <= time}
      last == CHOOSE i \in past : \A j \in past : j <= i
  IN tz.locals[IF past = {} THEN 1 ELSE tz.trans[last].idx].off

\* In a zone whose clock goes forward and back by one hour, every time is
\* shown with the offset in force, and read back as itself, twice-shown
\* hours included.
ZoneIsExact(tz, times) ==
  \A t \in times :
    LET lt == ToLocalTime(tz, t) IN
    /\ Timegm(lt.tm) = t + OffsetAt(tz, t)
    /\ FromLocalTime(tz, lt) = t

=============================================================================
