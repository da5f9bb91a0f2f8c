-------------------------------- MODULE Cron --------------------------------
(***************************************************************************)
(* The cron expressions of orchestration/schedules.py: what a parsed       *)
(* expression matches, and next_fire, the search for the next minute that  *)
(* does, which skips months, days and hours.                               *)
(*                                                                         *)
(* Time is counted in minutes of a small calendar: hours, days, months of  *)
(* any lengths and a week, all counted from 0.                             *)
(***************************************************************************)
EXTENDS Integers, Sequences, FiniteSets

CONSTANTS
    Expressions,                \* expressions, each with its five fields: sets of items
    MinutesIn, HoursIn, WeekDays,   \* the calendar: an hour, a day, a week
    MonthLengths,               \* the days of each month of a year
    MaxMinutes                  \* bound: the time

ASSUME CronAssumption ==
    /\ {MinutesIn, HoursIn, WeekDays} \subseteq Nat \ {0}
    /\ MonthLengths \in Seq(Nat \ {0}) /\ MonthLengths # <<>>
    /\ MaxMinutes \in Nat

NoTime == -1

-----------------------------------------------------------------------------
(* The calendar. *)

SumTo[k \in 0..Len(MonthLengths)] == IF k = 0 THEN 0 ELSE SumTo[k - 1] + MonthLengths[k]
YearDays == SumTo[Len(MonthLengths)]
DayMinutes == MinutesIn * HoursIn

MinuteOf(t) == t % MinutesIn
HourOf(t) == (t \div MinutesIn) % HoursIn
DayNumber(t) == t \div DayMinutes
WeekDayOf(t) == DayNumber(t) % WeekDays
MonthOf(t) ==
    LET d == DayNumber(t) % YearDays
    IN  CHOOSE k \in 1..Len(MonthLengths) : SumTo[k - 1] <= d /\ d < SumTo[k]
DayOf(t) == (DayNumber(t) % YearDays) - SumTo[MonthOf(t) - 1]

NextHour(t) == (t \div MinutesIn + 1) * MinutesIn
NextDay(t) == (DayNumber(t) + 1) * DayMinutes
NextMonth(t) == (DayNumber(t) - DayOf(t) + MonthLengths[MonthOf(t)]) * DayMinutes

-----------------------------------------------------------------------------
(* Expressions, and the search. *)

\* A field is a list of items: "*", a number or a range, each with a step.
ItemValues(i) == {v \in i.from..i.to : (v - i.from) % i.step = 0}
Values(field) == UNION {ItemValues(i) : i \in field}
Restricted(field) == ~ \E i \in field : i.star /\ i.step = 1 /\ field = {i}

\* _parse_cron: the last day of the week may be given as one more than the week has.
CronOf == [c \in DOMAIN Expressions |-> LET x == Expressions[c] IN
    [minutes |-> Values(x.minutes), hours |-> Values(x.hours), days |-> Values(x.days),
     months |-> Values(x.months), weekdays |-> {v % WeekDays : v \in Values(x.weekdays)},
     dayRestricted |-> Restricted(x.days), weekdayRestricted |-> Restricted(x.weekdays)]]

\* Both day fields restricted: either matches; otherwise both, one being the full set.
CronDayMatches(c, t) ==
    LET dom == DayOf(t) \in c.days
        dow == WeekDayOf(t) \in c.weekdays
    IN  IF c.dayRestricted /\ c.weekdayRestricted THEN dom \/ dow ELSE dom /\ dow

Matches(c, t) ==
    /\ MonthOf(t) \in c.months /\ CronDayMatches(c, t)
    /\ HourOf(t) \in c.hours /\ MinuteOf(t) \in c.minutes

\* The search starts at the minute after; it gives up past a year.
SearchFrom(after) == after + 1

\* The next minute to try.  Mutant: an hour on keeps the minute.
SkipHourOnly(c, t) ==
    CASE MonthOf(t) \notin c.months -> NextMonth(t)
      [] MonthOf(t) \in c.months /\ ~CronDayMatches(c, t) -> NextDay(t)
      [] OTHER -> IF HourOf(t) \notin c.hours THEN t + MinutesIn ELSE t + 1
Skip(c, t) ==
    IF MonthOf(t) \notin c.months THEN NextMonth(t)
    ELSE IF ~CronDayMatches(c, t) THEN NextDay(t)
    ELSE IF HourOf(t) \notin c.hours THEN NextHour(t)
    ELSE t + 1

\* As far as times are computed from.
Horizon == MaxMinutes + YearDays * DayMinutes

NextFire == [c \in DOMAIN CronOf |-> [after \in 0..Horizon |->
    LET limit == SearchFrom(after) + YearDays * DayMinutes
        search[t \in 0..(limit + YearDays * DayMinutes)] ==
            IF t > limit THEN NoTime
            ELSE IF Matches(CronOf[c], t) THEN t ELSE search[Skip(CronOf[c], t)]
    IN  search[SearchFrom(after)]]]

-----------------------------------------------------------------------------
(* Properties. *)

\* The first minute after a time, of the year that follows, that matches.
FirstMatch == [c \in DOMAIN CronOf |-> [after \in 0..Horizon |->
    LET later == {t \in (after + 1)..(after + 1 + YearDays * DayMinutes) : Matches(CronOf[c], t)}
    IN  IF later = {} THEN NoTime ELSE CHOOSE t \in later : \A u \in later : t <= u]]

\* next_fire is the first minute that matches, however it skips months, days and hours,
\* from a minute of each day of the year.
FirstFrom(m) ==
    \A c \in DOMAIN CronOf, d \in 0..(YearDays - 1) :
        NextFire[c][m + d * DayMinutes] = FirstMatch[c][m + d * DayMinutes]
=============================================================================
