--------------------------- MODULE MCAdvanceLeases ---------------------------
(***************************************************************************)
(* An instance of AdvanceLeases for TLC: three items, two of one priority,   *)
(* and three of the registered resources, one with room for two.             *)
(***************************************************************************)
EXTENDS AdvanceLeases

CONSTANTS a, b, c

Priorities == [w \in Items |-> IF w = c THEN 50 ELSE 80]
Capacities == [work |-> 2, cpu |-> 1, git |-> 1]

\* Alphabetical positions of the names.
Ranks == [artifact_store |-> 0, cpu |-> 1, git |-> 2, work |-> 3]

BaseKeys == {"work"}

\* DevelopmentRunTests, DevelopmentWriteFile, DiagnosticBisect and
\* CapabilitySubstrateVerify.
Declarations == {{"cpu"}, {"git"}, {"git", "cpu"}, {"artifact_store"}}
=============================================================================
