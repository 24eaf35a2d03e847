------------------------------- MODULE Advances ------------------------------
(***************************************************************************)
(* The advance coroutines that contend for leases, one per work item         *)
(* (WorkEngine.advance, src/jarvis/work/engine.py).                          *)
(***************************************************************************)
EXTENDS FiniteSets

CONSTANTS Items,   \* work items; each runs one advance at a time
          NoItem

ASSUME ItemsAssumption == IsFiniteSet(Items) /\ NoItem \notin Items
=============================================================================
