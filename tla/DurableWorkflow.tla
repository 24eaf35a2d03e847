--------------------------- MODULE DurableWorkflow ---------------------------
(***************************************************************************)
(* durable_workflow: the loop DBOS runs for each execution.  A workflow row  *)
(* holds the point its recorded step results lead back to; a crash loses     *)
(* nothing of it, and loses every step that had not returned.                *)
(***************************************************************************)
EXTENDS WorkEngine

\* The loop condition: waiting never spends a reasoning cycle.
LoopOrFail(used) == IF used < MaxCycles THEN "advance" ELSE "fail"

\* Mutant of Spends: a cycle that ends waiting counts.
SpendsWaiting(state) == state \notin Terminal \cup {"paused"}

Spends(state) == state \notin Terminal \cup Waiting \cup {"paused"}

\* Mutant of AfterAdvance: the loop goes round after a terminal state too.
AfterAdvanceOnwards(row, state) ==
    CASE state = "waiting_for_owner"   -> [row EXCEPT !.at = "owner"]
      [] state = "paused"              -> [row EXCEPT !.at = "control"]
      [] OTHER -> [row EXCEPT !.used = @ + 1, !.at = LoopOrFail(row.used + 1)]

AfterAdvance(row, state) ==
    LET used == row.used + (IF Spends(state) THEN 1 ELSE 0) IN
    CASE state \in Terminal            -> [row EXCEPT !.st = "done"]
      [] state = "waiting_for_owner"   -> [row EXCEPT !.at = "owner"]
      [] state = "paused"              -> [row EXCEPT !.at = "control"]
      [] OTHER -> [row EXCEPT !.used = used, !.at = LoopOrFail(used)]

\* The step returned: its result is recorded and the loop goes on.
StepReturns(e) ==
    LET row == wf[e] IN
    /\ th[e].pc = "ret" /\ th[e].todo = <<>>
    /\ wf' = [wf EXCEPT ![e] =
                 CASE row.at = "advance" -> AfterAdvance(row, th[e].held.state)
                   [] row.at = "apply"   -> [row EXCEPT !.at = "advance", !.msg = NoMessage]
                   [] OTHER              -> [row EXCEPT !.st = "done"]]
    /\ th' = [th EXCEPT ![e] = Idle(e[1])]
    /\ UNCHANGED <<storeVars, inbox, sent, loop, lease, env>>

\* The step raised: attempted again, until the workflow ends in error.
StepRaises(e) ==
    LET again == th[e].tries + 1 < StepAttempts IN
    /\ th[e].pc = "raise"
    /\ th' = [th EXCEPT ![e] = [Idle(e[1]) EXCEPT !.tries = IF again THEN th[e].tries + 1 ELSE 0]]
    /\ wf' = IF again THEN wf ELSE [wf EXCEPT ![e].st = "error"]
    /\ UNCHANGED <<storeVars, inbox, sent, loop, lease, env>>

\* Mutant of ReceiveAnswer: a timeout is not told from an answer.
ReceiveAnswerOrTimeout(e) ==
    /\ AtStep(e, "owner")
    /\ wf' = [wf EXCEPT ![e].at = "apply",
                        ![e].msg = IF inbox[e].owner = <<>> THEN NoMessage
                                   ELSE Head(inbox[e].owner)]
    /\ inbox' = [inbox EXCEPT ![e].owner = IF @ = <<>> THEN @ ELSE Tail(@)]
    /\ UNCHANGED <<storeVars, sent, volatile, env>>

\* recv on the owner topic: an answer, or a timeout and another cycle.
ReceiveAnswer(e) ==
    /\ AtStep(e, "owner")
    /\ \/ /\ inbox[e].owner # <<>>
          /\ wf' = [wf EXCEPT ![e].at = "apply", ![e].msg = Head(inbox[e].owner)]
          /\ inbox' = [inbox EXCEPT ![e].owner = Tail(@)]
       \/ /\ inbox[e].owner = <<>>
          /\ wf' = [wf EXCEPT ![e].at = "advance"]
          /\ UNCHANGED inbox
    /\ UNCHANGED <<storeVars, sent, volatile, env>>

\* recv on the control topic: the paused workflow waits for a command.
ReceiveControl(e) ==
    /\ AtStep(e, "control")
    /\ inbox[e].control # <<>>
    /\ inbox' = [inbox EXCEPT ![e].control = Tail(@)]
    /\ wf' = [wf EXCEPT ![e] = IF Head(inbox[e].control) = "resume"
                               THEN [@ EXCEPT !.at = "advance"]
                               ELSE [@ EXCEPT !.st = "done"]]
    /\ UNCHANGED <<storeVars, sent, volatile, env>>

WorkflowStep(e) ==
    StepReturns(e) \/ StepRaises(e) \/ ReceiveAnswer(e) \/ ReceiveControl(e)
=============================================================================
