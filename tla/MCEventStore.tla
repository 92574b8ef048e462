---------------------------- MODULE MCEventStore -----------------------------
(***************************************************************************)
(* An instance of EventStore for TLC: lines of one to three pieces.        *)
(***************************************************************************)
EXTENDS EventStore, TLC

CONSTANTS a1, a2, a3, a4

Lines == [a \in Appends |-> CASE a = a1 -> 3 [] a = a2 -> 2 [] OTHER -> 1]
=============================================================================
