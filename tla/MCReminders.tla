---------------------------- MODULE MCReminders ----------------------------
(***************************************************************************)
(* Small instances of Reminders for TLC.  Their zone is UTC; MCSchedules   *)
(* looks at zones whose offset changes, from the slots they reach.         *)
(***************************************************************************)
EXTENDS Reminders, TLC

CONSTANTS p1, p2, main, tool

MCHome == [c \in Callers |-> p1]
MCRecurrences == {Once, Interval(1)}
MCRepeating == {Interval(1)}

\* The callers are interchangeable; used only for runs without liveness.
CallerSymmetry == Permutations(Callers)
=============================================================================
