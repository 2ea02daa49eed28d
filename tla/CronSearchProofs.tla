-------------------------- MODULE CronSearchProofs --------------------------
(***************************************************************************)
(* What is proved of CronSearch for every calendar and every expression:   *)
(* a round of the search passes over no match, which is the invariant of   *)
(* its loop.                                                               *)
(***************************************************************************)
EXTENDS CronSearch, TLAPS

\* A moment of the calendar, or the error past its end.
Reached == Moment \cup {At(MaxDay + 1, 0, 0)}

LEMMA MomentFields ==
  ASSUME NEW t \in Reached
  PROVE  /\ t.day \in Nat /\ t.hour \in Nat /\ t.minute \in Nat
         /\ t.day <= MaxDay => t \in Moment
         /\ t.day \in Day => t.hour < HoursInDay /\ t.minute < MinutesInHour
  BY NumberAssumption DEF Reached, Moment, At, Day

LEMMA DayOn ==
  ASSUME NEW t \in Moment
  PROVE  /\ NextDay(t) \in Reached /\ Before(t, NextDay(t))
         /\ \A v \in Moment : Before(t, v) /\ Before(v, NextDay(t)) => v.day = t.day
  BY NumberAssumption DEF NextDay, Reached, Moment, At, Day, Before

LEMMA HourOn ==
  ASSUME NEW t \in Moment
  PROVE  /\ NextHour(t) \in Reached /\ Before(t, NextHour(t))
         /\ \A v \in Moment : Before(t, v) /\ Before(v, NextHour(t))
                                => v.day = t.day /\ v.hour = t.hour
  <1>1. CASE t.hour + 1 < HoursInDay
    BY <1>1, NumberAssumption DEF NextHour, Reached, Moment, At, Day, Before
  <1>2. CASE ~(t.hour + 1 < HoursInDay)
    <2>1. NextHour(t) = NextDay(t)
      BY <1>2 DEF NextHour
    <2>2. \A v \in Moment : Before(t, v) /\ v.day = t.day => v.hour = t.hour
      BY <1>2, NumberAssumption DEF Moment, Before, Day
    <2>3. QED
      BY <2>1, <2>2, DayOn
  <1>3. QED
    BY <1>1, <1>2

LEMMA MinuteOn ==
  ASSUME NEW t \in Moment
  PROVE  /\ NextMinute(t) \in Reached /\ Before(t, NextMinute(t))
         /\ \A v \in Moment : ~(Before(t, v) /\ Before(v, NextMinute(t)))
  <1>1. CASE t.minute + 1 < MinutesInHour
    BY <1>1, NumberAssumption DEF NextMinute, Reached, Moment, At, Day, Before
  <1>2. CASE ~(t.minute + 1 < MinutesInHour)
    <2>1. NextMinute(t) = NextHour(t)
      BY <1>2 DEF NextMinute
    <2>2. \A v \in Moment : Before(t, v) => ~(v.day = t.day /\ v.hour = t.hour)
      BY <1>2, NumberAssumption DEF Moment, Before, Day
    <2>3. QED
      BY <2>1, <2>2, HourOn
  <1>3. QED
    BY <1>1, <1>2

\* The jump of MonthSkip days and back to the first stays within the month
\* until it is at the start of the next, or leaves the calendar; in the last
\* month of the calendar it may give up before the end.
LEMMA MonthOn ==
  ASSUME NEW t \in Moment, First[t.day] + MonthSkip \in Day
  PROVE  /\ NextMonth(t) \in Reached /\ Before(t, NextMonth(t))
         /\ \A v \in Moment : Before(t, v) /\ Before(v, NextMonth(t))
                                => Month[v.day] = Month[t.day]
  <1> DEFINE next == First[First[t.day] + MonthSkip]
  <1>1. t.day \in Day /\ NextMonth(t) = At(next, 0, 0)
    BY DEF Moment, NextMonth
  <1>2. next \in Day /\ t.day < next /\ \A e \in t.day..(next - 1) : First[e] = First[t.day]
    BY <1>1, SkipAssumption, MonthAssumption
  <1> HIDE DEF next
  <1>3. NextMonth(t) \in Reached
    BY <1>1, <1>2, NumberAssumption DEF Reached, Moment, At
  <1>4. Before(t, NextMonth(t))
    BY <1>1, <1>2 DEF Before, At
  <1>5. ASSUME NEW v \in Moment, Before(t, v), Before(v, NextMonth(t))
        PROVE  Month[v.day] = Month[t.day]
    <2>1. v.day \in Day /\ v.day >= t.day /\ v.day < next
      <3>1. v.day \in Nat /\ v.hour \in Nat /\ v.minute \in Nat
        BY NumberAssumption DEF Moment, Day
      <3>2. v.day >= t.day
        BY <1>1, <1>5, <3>1 DEF Before, Day
      <3>3. v.day < next
        BY <1>1, <1>2, <1>5, <3>1 DEF Before, At, Day
      <3>4. QED
        BY <3>2, <3>3 DEF Moment
    <2>2. v.day \in t.day..(next - 1)
      BY <1>1, <1>2, <2>1 DEF Day
    <2>3. First[v.day] = First[t.day]
      BY <1>2, <2>2
    <2>4. t.day \in First[v.day]..v.day
      BY <1>1, <2>1, <2>3, MonthAssumption DEF Day
    <2>5. QED
      BY <2>1, <2>4, MonthAssumption
  <1>6. QED
    BY <1>3, <1>4, <1>5

\* One round of the loop in compute_next_cron_run goes on and passes over no
\* match, as long as it does not ask for a month past the calendar's end.
THEOREM RoundSkipsNothing ==
  ASSUME NEW c, NEW t \in Moment, ~Matches(c, t),
         Month[t.day] \in c.months \/ First[t.day] + MonthSkip \in Day
  PROVE  /\ Onward(c, t) \in Reached /\ Before(t, Onward(c, t))
         /\ NoMatchBetween(c, t, Onward(c, t))
  <1>1. CASE Month[t.day] \notin c.months
    <2>1. Onward(c, t) = NextMonth(t)
      BY <1>1 DEF Onward
    <2>2. QED
      BY <1>1, <2>1, MonthOn DEF NoMatchBetween, Matches
  <1>2. CASE Month[t.day] \in c.months /\ ~DayMatches(c, t.day)
    <2>1. Onward(c, t) = NextDay(t)
      BY <1>2 DEF Onward
    <2>2. QED
      BY <1>2, <2>1, DayOn DEF NoMatchBetween, Matches
  <1>3. CASE Month[t.day] \in c.months /\ DayMatches(c, t.day) /\ t.hour \notin c.hours
    <2>1. Onward(c, t) = NextHour(t)
      BY <1>3 DEF Onward
    <2>2. QED
      BY <1>3, <2>1, HourOn DEF NoMatchBetween, Matches
  <1>4. CASE Month[t.day] \in c.months /\ DayMatches(c, t.day) /\ t.hour \in c.hours
    <2>1. Onward(c, t) = NextMinute(t)
      BY <1>4 DEF Onward
    <2>2. QED
      BY <2>1, MinuteOn DEF NoMatchBetween
  <1>5. QED
    BY <1>1, <1>2, <1>3, <1>4

LEMMA BeforeTransitive ==
  ASSUME NEW t \in Moment, NEW u \in Moment, NEW v \in Reached, Before(t, u), Before(u, v)
  PROVE  Before(t, v)
  BY MomentFields, NumberAssumption DEF Before, Moment, Day

LEMMA Ordered ==
  ASSUME NEW u \in Moment, NEW v \in Moment
  PROVE  Before(u, v) \/ u = v \/ Before(v, u)
  <1>1. /\ u = [day |-> u.day, hour |-> u.hour, minute |-> u.minute]
        /\ v = [day |-> v.day, hour |-> v.hour, minute |-> v.minute]
    BY DEF Moment
  <1>2. /\ u.day \in Int /\ u.hour \in Int /\ u.minute \in Int
        /\ v.day \in Int /\ v.hour \in Int /\ v.minute \in Int
    BY NumberAssumption DEF Moment, Day
  <1>3. QED
    BY <1>1, <1>2 DEF Before

\* The invariant of the loop, which starts one minute after s: between the start
\* and the moment it looks at there is no match. So the first moment that
\* matches is the next run, whatever the calendar and the expression.
THEOREM SearchInvariant ==
  ASSUME NEW c, NEW s \in Moment, NEW t \in Moment,
         Before(s, t), NoMatchBetween(c, s, t), ~Matches(c, t),
         Month[t.day] \in c.months \/ First[t.day] + MonthSkip \in Day
  PROVE  Before(s, Onward(c, t)) /\ NoMatchBetween(c, s, Onward(c, t))
  <1>1. /\ Onward(c, t) \in Reached /\ Before(t, Onward(c, t))
        /\ NoMatchBetween(c, t, Onward(c, t))
    BY RoundSkipsNothing
  <1>2. Before(s, Onward(c, t))
    BY <1>1, BeforeTransitive
  <1>3. ASSUME NEW v \in Moment, Before(s, v), Before(v, Onward(c, t)) PROVE ~Matches(c, v)
    <2>1. Before(v, t) \/ v = t \/ Before(t, v)
      BY Ordered
    <2>2. QED
      BY <1>1, <1>3, <2>1 DEF NoMatchBetween
  <1>4. QED
    BY <1>2, <1>3 DEF NoMatchBetween
==============================================================================
