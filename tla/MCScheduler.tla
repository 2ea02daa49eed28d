----------------------------- MODULE MCScheduler -----------------------------
(* Instances of Scheduler and of CronSearch for TLC. *)
EXTENDS Scheduler, CronSearch

CONSTANTS s1, s2, d1

\* Two years of two months, with two and three days.
ShortMonth   == [d \in 0..9 |-> IF d % 5 < 2 THEN 1 ELSE 2]
ShortFirst   == [d \in 0..9 |-> IF d % 5 < 2 THEN d - (d % 5) ELSE d - (d % 5) + 2]
ShortWeekday == [d \in 0..9 |-> d % 7]

\* Fields of one part.
Fields(lo, hi) ==
    {Parsed({p}) : p \in [first : lo..hi, last : lo..hi, step : 1..2]}

Expressions ==
    [minutes : {{1}, {0, 1}}, hours : {{0}, {1}, {0, 1}}, days : Fields(1, 3),
     months : Fields(1, 2), weekdays : {PyWeekdays(d) : d \in {{0, 3}, {2, 5, 7}, 0..7}}]

\* compute_next_cron_run finds the first match, at the turn of an hour, a day, a
\* month and a year, or looks for it as long as it promises.
ASSUME NextRunIsFirst == \A c \in Expressions, t \in Moment : FindsFirst(c, t)
==============================================================================
