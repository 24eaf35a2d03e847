--------------------------- MODULE WorkOrchestrator ---------------------------
(***************************************************************************)
(* The main thread: the owner's commands (WorkOrchestrator and WorkRuntime), *)
(* and what a new process does before DBOS recovers the executions           *)
(* (build_work_runtime).                                                     *)
(***************************************************************************)
EXTENDS DurableWorkflow

\* Command c finds the process up and the event loop free.
Commanded(c) ==
    /\ c \in Commands
    /\ up = "up"
    /\ loop = Free
    /\ th[Main] = Idle(Owner)
    /\ Spend("owner")

Command(w, held, pc, calls) ==
    Run(Main, [Idle(w) EXCEPT !.pc = pc, !.held = held, !.todo = calls])

\* start: the item is durable before its execution is submitted.
OwnerStart(w) ==
    /\ Commanded("start")
    /\ ~Exists(item[w])
    /\ PutItem(w, NewItem)
    /\ Command(w, NewItem, "idle", <<Launch>>)
    /\ UNCHANGED <<steps, box, secret, ref, dbosVars, up, review>>

OwnerPause(w) ==
    /\ Commanded("pause")
    /\ Active(item[w]) /\ item[w].state # "paused"
    /\ Command(w, item[w], "idle", <<Move("paused", "keep")>>)
    /\ UNCHANGED <<storeVars, dbosVars, up, review>>

OwnerResume(w) ==
    /\ Commanded("resume")
    /\ item[w].state = "paused"
    /\ Command(w, item[w], "idle",
               <<Move(ResumeTarget(item[w]), "keep"), Send("resume")>>)
    /\ review' = [review EXCEPT ![w] = FALSE]
    /\ UNCHANGED <<storeVars, dbosVars, up>>

\* cancel: the durable request first, the canonical state afterwards.
OwnerCancel(w) ==
    /\ Commanded("cancel")
    /\ Exists(item[w])
    /\ IF item[w].state \in Terminal
       THEN Command(w, item[w], "idle", <<Clear>>)
       ELSE Command(w, item[w], "cancel", <<Send("cancel")>>)
    /\ UNCHANGED <<storeVars, dbosVars, up, review>>

\* The compare-and-swap loop of cancel.
CancelAgain ==
    LET w == th[Main].w it == item[th[Main].w] IN
    /\ th[Main].pc = "cancel" /\ th[Main].todo = <<>>
    /\ IF it.state \in Terminal
       THEN Only(Main, it, "idle", <<Clear>>)
       ELSE Only(Main, it, "cancelled", <<Move("cancelled", "keep"), Clear>>)

\* retry_failed: same item, new execution, which the item is then bound to.
OwnerRetry(w) ==
    /\ Commanded("retry")
    /\ item[w].state = "failed"
    /\ \E n \in 1 .. MaxRetries : wf[<<w, n>>].st = "none"
    /\ Command(w, item[w], "idle", <<Add("note"), Mark("completed", ""),
                                     Move("retrying", "none"), Restart, Bind>>)
    /\ review' = [review EXCEPT ![w] = FALSE]
    /\ UNCHANGED <<storeVars, dbosVars, up>>

OwnerReprioritize(w) ==
    /\ Commanded("reprioritize")
    /\ Active(item[w])
    /\ Command(w, item[w], "idle", <<Touch("keep")>>)
    /\ UNCHANGED <<storeVars, dbosVars, up, review>>

\* submit_owner_input: the answer to a sensitive question travels sealed, and
\* a second answer under the same version is dropped by its idempotency key.
OwnerAnswer(w) ==
    /\ Commanded("answer")
    /\ item[w].state = "waiting_for_owner"
    /\ Reachable(w)
    /\ \E text \in Answers :
         SendOwner(BoundExec(w), [text   |-> text,
                                  ver    |-> item[w].ver,
                                  sealed |-> AskedInSecret(w)])
    /\ UNCHANGED <<storeVars, wf, volatile, up, review>>

-----------------------------------------------------------------------------
(* Crash and startup *)

Crash ==
    /\ up # "down"
    /\ Spend("crash")
    /\ th' = [t \in Threads |-> Idle(t[1])]
    /\ loop' = Free
    /\ lease' = {}
    /\ up' = "down"
    /\ review' = [w \in Works |-> review[w] \/ \E e \in Execs : e[1] = w /\ Unsettled(e)]
    /\ UNCHANGED <<storeVars, dbosVars>>

BootStart ==
    /\ up = "down"
    /\ up' = "starting"
    /\ th' = [th EXCEPT ![Main].pc = "boot"]
    /\ loop' = Main
    /\ UNCHANGED <<storeVars, dbosVars, lease, fuel, review>>

AtBoot == up = "starting" /\ th[Main].pc = "boot" /\ th[Main].todo = <<>>

\* Mutant of Interrupted: startup does not look for interrupted steps.
InterruptedUnseen == {}

Interrupted == {w \in Works : Active(item[w]) /\ RunningSteps(w) # {}}

\* reconcile_interrupted_steps, one item: first the steps, then the item.
BootInterrupted(w) ==
    LET it    == item[w]
        marks == [i \in 1 .. Cardinality(RunningSteps(w)) |-> Interrupt]
        tail  == IF it.state = "paused"
                 THEN <<Touch("own")>>
                 ELSE <<Move("waiting_for_owner", "own"), Notify>>
    IN
    /\ AtBoot
    /\ w \in Interrupted
    /\ Run(Main, [th[Main] EXCEPT !.w = w, !.held = it, !.todo = marks \o tail])
    /\ UNCHANGED <<storeVars, dbosVars, env>>

\* reconcile_waiting_owner_deliveries, then DBOS launches: recovery runs the
\* live executions from their checkpoints.
BootLaunch ==
    /\ AtBoot
    /\ Interrupted = {}
    /\ box' = [w \in Works |-> box[w] \cup (IF item[w].state = "waiting_for_owner"
                                            THEN StateNotices(item[w]) ELSE {})]
    /\ up' = "up"
    /\ UNCHANGED <<item, steps, secret, ref, dbosVars, volatile, fuel, review>>

\* Mutant of BootResubmit: startup leaves recovery to DBOS alone.
BootResubmitNothing ==
    /\ up = "up"
    /\ th[Main].pc = "boot"
    /\ Run(Main, Idle(Owner))
    /\ UNCHANGED <<storeVars, dbosVars, env>>

\* reconcile_active: items not bound to a retry get their canonical execution.
BootResubmit ==
    /\ up = "up"
    /\ th[Main].pc = "boot"
    /\ wf' = [e \in Execs |-> IF /\ e[2] = 0 /\ ref[e[1]] = 0
                                 /\ Active(item[e[1]]) /\ wf[e].st = "none"
                              THEN [wf[e] EXCEPT !.st = "live"]
                              ELSE wf[e]]
    /\ Run(Main, Idle(Owner))
    /\ UNCHANGED <<storeVars, inbox, sent, env>>

MainStep ==
    \/ CancelAgain \/ BootStart \/ BootLaunch \/ BootResubmit
    \/ \E w \in Works : BootInterrupted(w)

OwnerStep ==
    \E w \in Works :
        \/ OwnerStart(w) \/ OwnerPause(w) \/ OwnerResume(w) \/ OwnerCancel(w)
        \/ OwnerRetry(w) \/ OwnerReprioritize(w) \/ OwnerAnswer(w)
=============================================================================
