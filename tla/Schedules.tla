----------------------------- MODULE Schedules -----------------------------
(***************************************************************************)
(* What the recurrences of Reminders stand for, in every zone, and where   *)
(* next_occurrence (src/reminders/recurrence.py) leads from the slots that *)
(* reminders come to stand at.                                             *)
(***************************************************************************)
EXTENDS Reminders

CONSTANTS
    Zones,       \* zones that reminders are in
    Schedules,   \* recurrences that are looked at
    Late,        \* bound: how late a delivery may be
    Moments      \* bound: slots that are looked at

\* The wall times that the clocks of a zone skip.
Skipped(zone) == zone.change + zone.before .. zone.change + zone.after - 1

\* The clocks stay or go forward, and a time they skip is moved to a later
\* one of the same day: a gap neither is longer than a day nor ends with one.
Springs(zone) ==
    /\ zone.before <= zone.after
    /\ \A wall \in Skipped(zone) :
          (wall + zone.after - zone.before) \div Day = wall \div Day

ASSUME SchedulesAssumption ==
    /\ Zones \subseteq Zone /\ \A zone \in Zones : Springs(zone)
    /\ Schedules \subseteq Rule \ {Once}
    /\ Late \in Nat
    /\ Moments \subseteq Int

-----------------------------------------------------------------------------
\* Whether the clocks show a wall time at no instant.
NeverShown(zone, wall) ==
    \A offset \in {zone.before, zone.after} : Wall(zone, wall - offset) # wall

\* Whether a wall time is one of a daily or a weekly recurrence.
Named(recurrence, wall) ==
    /\ wall % Day = recurrence.time
    /\ recurrence.kind = "weekly" => (wall \div Day) % Week = recurrence.weekday

\* Whether an instant is one that a recurrence stands for, from a slot of it:
\* the clocks read its time, or would had they not just skipped it.
Meets(u, slot, recurrence, zone) ==
    IF recurrence.kind = "interval"
    THEN (u - slot) % recurrence.seconds = 0
    ELSE \/ Named(recurrence, Wall(zone, u))
         \/ /\ u >= zone.change
            /\ NeverShown(zone, u + zone.before)
            /\ Named(recurrence, u + zone.before)

\* A slot that is delivered at an instant is followed by the first one after
\* both: nothing later is skipped, and nothing missed is repeated.
FirstLater(slot, recurrence, zone, at) ==
    LET next == NextOccurrence(slot, recurrence, zone, at)
    IN  /\ next > slot /\ next > at
        /\ Meets(next, slot, recurrence, zone)
        /\ \A u \in Later(slot, at) + 1 .. next - 1 : ~Meets(u, slot, recurrence, zone)

\* Whether a slot is followed so in every zone, by every schedule, however
\* late it is delivered.
Followed(slot) ==
    \A zone \in Zones, recurrence \in Schedules, late \in 0 .. Late :
        FirstLater(slot, recurrence, zone, slot + late)

FollowedFrom == [slot \in Moments |-> Followed(slot)]

(***************************************************************************)
(* A schedule moves on to the first time its recurrence stands for after   *)
(* both the slot delivered and the moment of delivery, from every slot a   *)
(* reminder comes to stand at, however late the delivery, and whichever    *)
(* the recurrence and the zone (recurrence.py).  A local time the clocks   *)
(* skip on one day is kept, moved behind the gap.                          *)
(***************************************************************************)
MovesToFirstLater ==
    \A r \in Ids : Active(r) /\ rows[r].next \in Moments => FollowedFrom[rows[r].next]
=============================================================================
