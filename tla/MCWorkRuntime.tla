---------------------------- MODULE MCWorkRuntime ----------------------------
(***************************************************************************)
(* Instances of WorkRuntime for TLC.                                        *)
(***************************************************************************)
EXTENDS WorkRuntime, TLC

CONSTANTS w1, w2

\* Dependencies: none, and a second item that depends on the first.
Alone   == [w \in Works |-> {}]
Chained == [w \in Works |-> IF w = w2 THEN {w1} ELSE {}]

\* Items that depend on nothing are alike.
Alike == Permutations(Works)

\* How many owner commands, crashes, backend faults and pressures a behaviour
\* may contain.
Bounds(owner, crash, fault, press) ==
    [owner |-> owner, crash |-> crash, fault |-> fault, press |-> press]

Owner3Crash1       == Bounds(3, 1, 0, 0)
Owner2Crash2       == Bounds(2, 2, 0, 0)
Owner3Fault1Press1 == Bounds(3, 0, 1, 1)
=============================================================================
