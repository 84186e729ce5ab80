-------------------------------- MODULE Cron --------------------------------
(***************************************************************************)
(* services/cron.py: the next moment that matches a five-field schedule.   *)
(* Time is counted in half minutes, so that "now" may lie within a minute; *)
(* a schedule only names whole minutes.  The lengths of an hour and of a   *)
(* day, the calendar and the length of the search are parameters.          *)
(***************************************************************************)
EXTENDS Integers, FiniteSetsExt

CONSTANTS
    HourLen,        \* minutes in an hour
    DayLen,         \* hours in a day
    MonthOf,        \* month of a day number
    DayOf,          \* day of the month of a day number
    WeekdayOf,      \* isoweekday() of a day number
    SearchDays      \* MAX_SEARCH_YEARS, in days

ASSUME CalendarAssumption ==
    /\ HourLen \in Nat \ {0} /\ DayLen \in Nat \ {0} /\ SearchDays \in Nat
    /\ DOMAIN MonthOf = DOMAIN DayOf /\ DOMAIN MonthOf = DOMAIN WeekdayOf

Never == -1

\* datetime(day, hour, minute), with no seconds.
At(d, h, m) == 2 * ((d * DayLen + h) * HourLen + m)

\* The day a moment lies in.
Day(t) == t \div At(1, 0, 0)

\* Mutant: two restricted fields must both match.
DayMatchesBoth(c, d) ==
    /\ (c.domStar /\ ~c.dowStar) \/ DayOf[d] \in c.days
    /\ (c.dowStar /\ ~c.domStar) \/ WeekdayOf[d] \in c.weekdays

\* CronSchedule.day_matches
DayMatches(c, d) ==
    LET dom == DayOf[d] \in c.days
        dow == WeekdayOf[d] \in c.weekdays
    IN  CASE c.domStar /\ c.dowStar   -> dom /\ dow
          [] c.domStar /\ ~c.dowStar  -> dow
          [] ~c.domStar /\ c.dowStar  -> dom
          [] OTHER                    -> dom \/ dow

\* Mutant: the search starts in the minute of `after` itself.
StartInMinute(after) == 2 * (after \div 2)

\* after.replace(second=0) + 1 minute
Start(after) == 2 * (after \div 2) + 2

\* next_fire_at: day by day, then hours and minutes in ascending order.
NextFireAt(c, after) ==
    LET start == Start(after)
        Of(d) == {t \in {At(d, h, m) : h \in c.hours, m \in c.minutes} : t >= start}
        days  == {d \in Day(start)..(Day(start) + SearchDays) :
                    MonthOf[d] \in c.months /\ DayMatches(c, d) /\ Of(d) # {}}
    IN  IF days = {} THEN Never ELSE Min(Of(Min(days)))

-----------------------------------------------------------------------------
(***************************************************************************)
(* The table of cron.py's header.  With no field restricted the day is in  *)
(* both sets; otherwise it is in the set of some restricted field.         *)
(***************************************************************************)
DayNamed(c, d) ==
    LET fields     == {<<c.domStar, DayOf[d], c.days>>, <<c.dowStar, WeekdayOf[d], c.weekdays>>}
        restricted == {f \in fields : ~f[1]}
    IN  IF restricted = {}
        THEN \A f \in fields : f[2] \in f[3]
        ELSE \E f \in restricted : f[2] \in f[3]

\* The moment t, a whole minute, is one the schedule names.
Matches(c, t) ==
    LET minute == t \div 2 IN
    /\ t % 2 = 0
    /\ minute % HourLen \in c.minutes
    /\ (minute \div HourLen) % DayLen \in c.hours
    /\ MonthOf[Day(t)] \in c.months
    /\ DayNamed(c, Day(t))

(***************************************************************************)
(* What next_fire_at promises: the first moment strictly after `after`     *)
(* that matches, and None only when there is none in the search window.    *)
(***************************************************************************)
NextMatch(c, after) ==
    LET found == {t \in (after + 1)..(At(Day(Start(after)) + SearchDays + 1, 0, 0) - 1) :
                    Matches(c, t)}
    IN  IF found = {} THEN Never ELSE Min(found)
=============================================================================
