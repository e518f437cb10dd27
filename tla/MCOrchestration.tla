-------------------------- MODULE MCOrchestration --------------------------
(***************************************************************************)
(* Small instances of Orchestration for TLC.                               *)
(***************************************************************************)
EXTENDS Orchestration, TLC

CONSTANTS p1, p2, main, other

MCHome == [c \in Callers |-> p1]
MCMain == [p \in Procs |-> main]

HighChain == [kind |-> "chain", total |-> 2, high |-> TRUE]
Team == [kind |-> "team", total |-> 2, high |-> FALSE]
Parallel == [kind |-> "parallel", total |-> 2, high |-> FALSE]
Delegate == [kind |-> "delegate", total |-> 1, high |-> FALSE]
MCRequests == {HighChain, Team, Parallel}
MCShared == {HighChain, Team}
MCSingle == {Delegate}
=============================================================================
