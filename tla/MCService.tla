------------------------------ MODULE MCService ------------------------------
(***************************************************************************)
(* Small instances of Service for TLC, with the one pool thread that is    *)
(* the program's default.                                                  *)
(***************************************************************************)
EXTENDS Service

CONSTANTS o1, o2, w1
=============================================================================
