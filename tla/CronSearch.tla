----------------------------- MODULE CronSearch -----------------------------
(***************************************************************************)
(* When a recurring schedule runs next: parse_cron_field and               *)
(* compute_next_cron_run (hub/scheduler.py), for any calendar. A moment is *)
(* a day and the time of that day. The code's calendar is datetime's, with *)
(* 24 hours of 60 minutes, MonthSkip = 32 and MaxSteps = 366 * 1440; leap  *)
(* years are in the constants Month and First. The code ignores its time   *)
(* zone, and so does the model.                                            *)
(***************************************************************************)
EXTENDS Integers, FiniteSets

CONSTANTS
    MinutesInHour, HoursInDay,
    MaxDay,       \* the last day of the calendar (datetime.max)
    Month, First, \* the month of a day, and the first day of that month
    Weekday,      \* 0 for Monday
    MonthSkip,    \* the days the search adds to the first of a month
    MaxSteps      \* the rounds of the search

Day == 0..MaxDay

ASSUME NumberAssumption ==
    /\ MinutesInHour \in Nat \ {0} /\ HoursInDay \in Nat \ {0}
    /\ MaxDay \in Nat /\ MonthSkip \in Nat /\ MaxSteps \in Nat

\* A month is an interval of days.
ASSUME MonthAssumption ==
    /\ Month \in [Day -> Nat] /\ First \in [Day -> Day] /\ Weekday \in [Day -> Nat]
    /\ \A d \in Day : First[d] <= d
    /\ \A d \in Day : \A e \in First[d]..d : First[e] = First[d] /\ Month[e] = Month[d]

\* MonthSkip days after the first of a month are in the next month: no month is
\* longer, and two in a row are longer than that.
ASSUME SkipAssumption ==
    \A d \in Day : First[d] + MonthSkip \in Day =>
        LET next == First[First[d] + MonthSkip] IN
        /\ d < next
        /\ \A e \in d..(next - 1) : First[e] = First[d]

Moment == [day : Day, hour : 0..(HoursInDay - 1), minute : 0..(MinutesInHour - 1)]

At(day, hour, minute) == [day |-> day, hour |-> hour, minute |-> minute]

Before(t, u) ==
    \/ t.day < u.day
    \/ t.day = u.day /\ t.hour < u.hour
    \/ t.day = u.day /\ t.hour = u.hour /\ t.minute < u.minute

-----------------------------------------------------------------------------
(* A field is a list of parts "*", "A", "A-B", each with or without "/N":  *)
(* first, last and step.                                                   *)

PartValues(p) == {v \in p.first..p.last : (v - p.first) % p.step = 0}

\* parse_cron_field
Parsed(parts) == UNION {PartValues(p) : p \in parts}

\* Cron counts the days of the week from Sunday, 0 or 7, Python from Monday.
PyWeekdays(raw) == {IF d \in {0, 7} THEN 6 ELSE d - 1 : d \in raw}

-----------------------------------------------------------------------------
(* The search *)

DayMatches(c, day) == day - First[day] + 1 \in c.days /\ Weekday[day] \in c.weekdays

Matches(c, t) ==
    /\ Month[t.day] \in c.months
    /\ DayMatches(c, t.day)
    /\ t.hour \in c.hours
    /\ t.minute \in c.minutes

NextDay(t) == At(t.day + 1, 0, 0)

NextHour(t) == IF t.hour + 1 < HoursInDay THEN At(t.day, t.hour + 1, 0) ELSE NextDay(t)

NextMinute(t) ==
    IF t.minute + 1 < MinutesInHour THEN At(t.day, t.hour, t.minute + 1) ELSE NextHour(t)

\* datetime raises OverflowError when the month after the last is asked for.
NextMonth(t) ==
    LET skipped == First[t.day] + MonthSkip
    IN At(IF skipped \in Day THEN First[skipped] ELSE MaxDay + 1, 0, 0)

\* One round of the loop: on to the start of the next month, day, hour or
\* minute, whichever is the first that does not match.
Onward(c, t) ==
    CASE Month[t.day] \notin c.months -> NextMonth(t)
      [] Month[t.day] \in c.months /\ ~DayMatches(c, t.day) -> NextDay(t)
      [] Month[t.day] \in c.months /\ DayMatches(c, t.day) /\ t.hour \notin c.hours -> NextHour(t)
      [] OTHER -> NextMinute(t)

\* compute_next_cron_run: the moment it returns, none when it raises.
Search(c, t) ==
    LET loop[n \in 0..MaxSteps, at \in [day : Nat, hour : Nat, minute : Nat]] ==
            CASE n = 0 \/ at.day > MaxDay -> {}
              [] n > 0 /\ at.day <= MaxDay ->
                    IF Matches(c, at) THEN {at} ELSE loop[n - 1, Onward(c, at)]
    IN loop[MaxSteps, NextMinute(t)]

-----------------------------------------------------------------------------
(* What it should be *)

NoMatchBetween(c, t, u) ==
    \A v \in Moment : Before(t, v) /\ Before(v, u) => ~Matches(c, v)

\* A moment that is found is the first match after the start; if none is found,
\* no moment matches to the end of the calendar or for MaxSteps minutes
\* (scheduler.py:89-109).
FindsFirst(c, t) ==
    LET later == {u \in Moment : Before(t, u)} IN
    /\ \A u \in Search(c, t) : Matches(c, u) /\ Before(t, u) /\ NoMatchBetween(c, t, u)
    /\ Search(c, t) = {} =>
         \A u \in later : Matches(c, u) =>
             Cardinality({v \in later : Before(v, u)}) >= MaxSteps
==============================================================================
