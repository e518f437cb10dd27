---------------------------- MODULE MCSchedules ----------------------------
(***************************************************************************)
(* The small instance of Reminders for TLC with what its schedules give,   *)
(* on a calendar of small days and weeks.                                  *)
(***************************************************************************)
EXTENDS MCReminders, Schedules

\* A zone without changes, and zones whose clocks go forward by two units:
\* on the first and second day, and just before the third ends.
MCZones ==
    {UTC, [change |-> 0, before |-> 3, after |-> 3],
     [change |-> 4, before |-> 0, after |-> 2],
     [change |-> 11, before |-> 0, after |-> 2],
     [change |-> 20, before |-> -1, after |-> 1]}

MCRules ==
    {Interval(s) : s \in {1, 5}}
        \cup {Daily(c) : c \in 0 .. Day - 1}
        \cup {Weekly(d, c) : d \in 0 .. Week - 1, c \in {0, 3, 5}}

MCLate == (Week + 1) * Day
MCMoments == 0 .. MaxNow + 1
=============================================================================
