----------------------------- MODULE WorkModels -----------------------------
(***************************************************************************)
(* The canonical WorkItem of JARVIS: its lifecycle table and the pure       *)
(* functions that compute the next immutable record from the present one.   *)
(* A record carries only what the rest of the system decides by: the state, *)
(* the state it was paused from, the position of its current step in the    *)
(* item's step list (0 for None) and the optimistic version.                *)
(***************************************************************************)
EXTENDS Naturals

Waiting == {"waiting_resource", "waiting_dependency", "waiting_until",
            "waiting_for_owner"}

Terminal == {"completed", "failed", "cancelled"}

WorkStates == Waiting \cup Terminal \cup {"queued", "running", "paused", "retrying"}

\* _ALLOWED_TRANSITIONS: the states that may follow each state.
Allowed == [s \in WorkStates |->
    CASE s = "queued"   -> (Waiting \ {"waiting_for_owner"})
                             \cup {"running", "paused", "cancelled", "failed"}
      [] s = "running"  -> Waiting \cup Terminal \cup {"paused", "retrying"}
      [] s \in Waiting  -> {"running", "paused", "cancelled", "failed"}
      [] s = "paused"   -> Waiting \cup {"queued", "running", "cancelled"}
      [] s = "retrying" -> {"running", "waiting_resource", "paused", "failed",
                            "cancelled"}
      [] s = "failed"   -> {"retrying"}
      [] OTHER          -> {}]

\* A row that does not exist yet is the record Absent, of version 0.
Item == [state : WorkStates \cup {"absent"}, from : WorkStates \cup {"none"},
         step : Nat, ver : Nat]

Absent == [state |-> "absent", from |-> "none", step |-> 0, ver |-> 0]

NewItem == [state |-> "queued", from |-> "none", step |-> 0, ver |-> 1]

Exists(it)  == it.state # "absent"

\* Mutant of Stopped: advance looks for terminal items only.
StoppedUnlessPaused(it) == it.state \in Terminal

Stopped(it) == it.state \in Terminal \cup {"paused"}
Active(it)  == it.state \in WorkStates \ Terminal

\* Mutant of CanMove: transition() without the table.
CanMoveAnywhere(it, to) == it.state \in WorkStates /\ to \in WorkStates

\* transition() returns self for the state the item already has and raises
\* for a successor the table does not list.
CanMove(it, to) == /\ it.state \in WorkStates
                   /\ to = it.state \/ to \in Allowed[it.state]

Transition(it, to, step) ==
    IF to = it.state
    THEN it
    ELSE [state |-> to,
          from  |-> IF to = "paused" THEN it.state ELSE "none",
          step  |-> step,
          ver   |-> it.ver + 1]

\* with_progress() (and with_priority(), which keeps the step) refuse a
\* terminal item and always produce a new version.
CanTouch(it) == Active(it)

WithProgress(it, step) == [it EXCEPT !.step = step, !.ver = @ + 1]

\* orchestrator.resume: a waiting reason is restored, anything that was in
\* flight becomes RUNNING so that the brain decides again.
ResumeTarget(it) ==
    IF it.from \in {"queued", "waiting_dependency", "waiting_until",
                    "waiting_for_owner"}
    THEN it.from
    ELSE "running"
=============================================================================
