----------------------------- MODULE Recurrence -----------------------------
(***************************************************************************)
(* When a reminder is due next: src/reminders/recurrence.py.               *)
(*                                                                         *)
(* An instant is an integer, UTC.  A zone is a UTC offset that changes     *)
(* once, at the instant change, from before to after; a wall time is what  *)
(* the zone's clocks show.  Days have Day units and weeks Week days; day 0 *)
(* is weekday 0.  Around a change to a smaller offset a wall time occurs   *)
(* twice, and around a change to a larger one some never occur.            *)
(***************************************************************************)
EXTENDS Integers

CONSTANTS
    Day,    \* units of time in a day
    Week    \* days in a week

ASSUME CalendarAssumption == Day \in Nat \ {0} /\ Week \in Nat \ {0}

Zone == [change : Int, before : Int, after : Int]

\* The zone that never changes its offset of zero.
UTC == [change |-> 0, before |-> 0, after |-> 0]

\* datetime.astimezone from UTC.
Wall(zone, instant) ==
    instant + (IF instant < zone.change THEN zone.before ELSE zone.after)

\* Whether the clocks ever show a wall time before, and after, the change.
OccursBefore(zone, wall) == wall - zone.before < zone.change
OccursAfter(zone, wall) == wall - zone.after >= zone.change

(***************************************************************************)
(* The UTC instant of _normalize_wall_datetime: of a wall time that occurs *)
(* twice the first, since fold is 0, and one that never occurs is read     *)
(* with the offset before the change and so moved behind the gap.          *)
(***************************************************************************)
Instant(zone, wall) ==
    IF OccursBefore(zone, wall) \/ ~OccursAfter(zone, wall)
    THEN wall - zone.before
    ELSE wall - zone.after

\* _local_candidate
Candidate(zone, date, clock) == Instant(zone, date * Day + clock)

Interval(seconds) == [kind |-> "interval", seconds |-> seconds]
Daily(clock) == [kind |-> "daily", time |-> clock]
Weekly(weekday, clock) ==
    [kind |-> "weekly", weekday |-> weekday, time |-> clock]
Once == [kind |-> "once"]      \* recurrence is None

\* What normalize_recurrence lets through.
Rule ==
    {Once}
        \cup [kind : {"interval"}, seconds : Nat \ {0}]
        \cup [kind : {"daily"}, time : 0 .. Day - 1]
        \cup [kind : {"weekly"}, weekday : 0 .. Week - 1, time : 0 .. Day - 1]

NextInterval(slot, seconds, reference) ==
    slot + ((reference - slot) \div seconds + 1) * seconds

\* Two datetimes of one zone are compared by what the clocks show.
Passed(zone, candidate, reference) ==
    Wall(zone, candidate) <= Wall(zone, reference)

NextDaily(clock, zone, reference) ==
    LET date == Wall(zone, reference) \div Day
        today == Candidate(zone, date, clock)
    IN IF Passed(zone, today, reference)
       THEN Candidate(zone, date + 1, clock)
       ELSE today

NextWeekly(weekday, clock, zone, reference) ==
    LET date == Wall(zone, reference) \div Day
        ahead == (weekday - date) % Week
        coming == Candidate(zone, date + ahead, clock)
    IN IF Passed(zone, coming, reference)
       THEN Candidate(zone, Wall(zone, coming) \div Day + Week, clock)
       ELSE coming

Later(a, b) == IF a >= b THEN a ELSE b

\* Mutant: missed occurrences are not skipped.
NextFromSlot(slot, recurrence, zone, moment) ==
    CASE recurrence.kind = "interval" ->
            NextInterval(slot, recurrence.seconds, slot)
      [] recurrence.kind = "daily" -> NextDaily(recurrence.time, zone, slot)
      [] recurrence.kind = "weekly" ->
            NextWeekly(recurrence.weekday, recurrence.time, zone, slot)

\* next_occurrence of a recurrence that is not None.
NextOccurrence(slot, recurrence, zone, moment) ==
    LET reference == Later(slot, moment)
    IN CASE recurrence.kind = "interval" ->
              NextInterval(slot, recurrence.seconds, reference)
         [] recurrence.kind = "daily" ->
              NextDaily(recurrence.time, zone, reference)
         [] recurrence.kind = "weekly" ->
              NextWeekly(recurrence.weekday, recurrence.time, zone, reference)
=============================================================================
