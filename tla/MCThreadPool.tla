---------------------------- MODULE MCThreadPool ----------------------------
(***************************************************************************)
(* The instance of ThreadPool that TLC checks, and the inputs on which the *)
(* conversions of dates, zones and numbers are compared with references.   *)
(***************************************************************************)
EXTENDS ThreadPool

\* 2019-10-27 00:00 UTC, and one hour later the end of summer time.
Midnight == 1572134400
WinterTime == [off |-> 3600, dst |-> FALSE]
SummerTime == [off |-> 7200, dst |-> TRUE]
EuropeFile(cut, types) ==
  [cut |-> cut, times |-> <<Midnight - 181 * SecondsPerDay, Midnight + 3600>>, idx |-> <<2, 1>>, types |-> types]
Europe == ReadTimeZoneFile(EuropeFile("none", <<WinterTime, SummerTime>>))

\* The same file, cut in its abbreviations and in its entries.
CutInAbbreviations == ReadTimeZoneFile(EuropeFile("abbreviations", <<WinterTime, SummerTime>>))
CutInTypes == ReadTimeZoneFile(EuropeFile("types", <<WinterTime>>))

Script(class, n, logs, tasks, lines) ==
  [kind |-> class, nthreads |-> n, loud |-> logs, tasks |-> tasks, lines |-> lines]

\* Two producers and silent tasks, for each class; and the log, written by
\* the workers or by the producer itself.
MCScripts ==
  {Script(class, 2, FALSE, <<2, 2>>, 0) : class \in {"pool", "blocking", "bounded"}}
  \cup {Script("pool", 0, TRUE, <<3, 0>>, 2), Script("pool", 2, TRUE, <<2, 0>>, 0)}

\* The last second of summer time, the next, and the next day.
MCClocks == <<Midnight + 3599, Midnight + 3600, Midnight + SecondsPerDay>>

\* Years around the century rules, every day of them.
MCDays ==
  UNION {JulianDayNumber(y - 1, 1, 1)..JulianDayNumber(y + 1, 12, 31) : y \in {1900, 1970, 2000, 2100}}

\* Both sides of day boundaries before and after the epoch.
MCTimes ==
  {d * SecondsPerDay + s : d \in {-20000, -800, -1, 0, 1, 59, 365, 18262, 20000}, s \in {-1, 0, 1, 43199}}

\* Both sides of the transitions, and the hour that is shown twice.
MCZoneTimes ==
  UNION {{t - 7200, t - 3601, t - 3600, t - 1, t, t + 1, t + 1800, t + 3599, t + 3600} :
           t \in {Midnight - 181 * SecondsPerDay, Midnight + 3600}}

MCValues == -1100..1100 \cup {2147483647, -2147483647}

DatesAreExact == CalendarIsExact(MCDays)
TimesAreExact == UtcIsExact(MCTimes)
SummerTimeIsExact == ZoneIsExact(Europe, MCZoneTimes)
FixedZoneIsExact == ZoneIsExact(FixedZone(28800), MCZoneTimes)
CutZonesAreExact ==
  \A t \in MCZoneTimes : /\ ToLocalTime(CutInAbbreviations, t) = ToLocalTime(Europe, t)
                        /\ ToLocalTime(CutInTypes, t) = ToLocalTime(FixedZone(3600), t)
NumbersAreExact == NumbersReadBack(MCValues)
BuffersHold == LinesFit(40, 32)

\* The conversions that the lines written so far rest on are exact: Julian
\* day numbers are the days of the Gregorian calendar, UTC and local times
\* read back as themselves on both sides of the epoch and of a change to or
\* from summer time, a zone file cut in its abbreviations is as good as the
\* whole one and one cut before stands for its first entry, numbers read
\* back from their digits, and no line overruns its buffer (Date.cc,
\* TimeZone.cc, LogStream.cc).
ConversionsAreExact ==
  log.files[1].lines # <<>> =>
    /\ DatesAreExact /\ TimesAreExact /\ SummerTimeIsExact /\ FixedZoneIsExact /\ CutZonesAreExact
    /\ NumbersAreExact /\ BuffersHold

=============================================================================
