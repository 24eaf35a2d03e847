---------------------------- MODULE RoutingProcess ----------------------------
(***************************************************************************)
(* The processes that share the routing store, and what they are asked for.   *)
(* An element of Procs is one incarnation, identified by its pid and the time *)
(* it started (src/jarvis/model_routing/process_identity.py): when it dies it  *)
(* is gone.                                                                 *)
(***************************************************************************)
CONSTANTS Procs,   \* incarnations of JARVIS, running or still to be started
          NoProc,  \* none of them
          Work,    \* routing requests of WorkItems, one decision each
          Scoped,  \* routing requests of voice, hands and memory
          NoRequest

Requests == Work \cup Scoped

ASSUME IdentityAssumption ==
    /\ NoProc \notin Procs
    /\ NoRequest \notin Requests
    /\ Work \cap Scoped = {}

VARIABLE alive   \* the incarnations that have not died

AliveInit == alive = Procs

\* process_identity_alive: "unknown" when the pid now belongs to a process that
\* may not be examined.
Verdicts(p) == IF p \in alive THEN {"alive"} ELSE {"gone", "unknown"}

Die(p) ==
    /\ p \in alive
    /\ alive' = alive \ {p}
=============================================================================
