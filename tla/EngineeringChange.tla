-------------------------- MODULE EngineeringChange --------------------------
(***************************************************************************)
(* One EngineeringChange: the aggregate above WorkItems that takes the       *)
(* owner's goal through research, a reviewed architecture, development and    *)
(* acceptance (src/jarvis/engineering_change). The same reconcile() is run by  *)
(* the event loop (the owner's tools and startup), by the thread of a gate      *)
(* decision and by the DBOS thread of each stage that ends; each action is one  *)
(* transaction of the store, or one read that a later one acts upon.            *)
(***************************************************************************)
EXTENDS ChangeRecords

CONSTANTS MaxCommands, MaxCrashes  \* bounds of the model

ASSUME FuelAssumption == MaxCommands \in Nat /\ MaxCrashes \in Nat

VARIABLES th,      \* what each thread is doing
          ending,  \* stages whose execution has ended and has yet to call back
          acting,  \* stages with a decision or an action in flight
          up,      \* "down", "boot" or "up"
          fuel     \* what the owner and crashes may still do

env  == <<ending, acting, up, fuel>>
vars == <<recordVars, th, env>>

\* The event loop, the thread of the owner's decision, the thread of each stage.
Loop == MaxPlans + 1
Desk == MaxPlans + 2
Threads == Attempts \cup {Loop, Desk}

\* fresh: nobody wrote the change since this thread read its version.
\* after: what follows the reconciliation. goal: the state it will ask for.
Idle == [pc |-> "idle", k |-> Research, doc |-> 0, kind |-> "architecture",
         goal |-> "none", after |-> "end", fresh |-> FALSE]

Init ==
    /\ RecordInit
    /\ th = [t \in Threads |-> Idle]
    /\ ending = {} /\ acting = {}
    /\ up = "up"
    /\ fuel = [owner |-> MaxCommands, crash |-> MaxCrashes]

At(t, pc) == th[t].pc = pc

\* Thread t goes on as l; whoever holds the version of a change that is written
\* here holds an old one.
Continue(t, l) ==
    IF state' = state
    THEN th' = [th EXCEPT ![t] = l]
    ELSE th' = [u \in Threads |-> IF u = t THEN l ELSE [th[u] EXCEPT !.fresh = FALSE]]

Go(t, pc) == Continue(t, [th[t] EXCEPT !.pc = pc])

\* Thread t is done: so is startup, or the callback of its stage.
Finish(t) ==
    /\ Continue(t, Idle)
    /\ up' = IF t = Loop THEN "up" ELSE up
    /\ ending' = ending \ {t}
    /\ UNCHANGED <<acting, fuel>>

Return(t) == IF th[t].after = "present" THEN Go(t, "present") /\ UNCHANGED env ELSE Finish(t)

\* ChangeConflict: the tool fails, the callback ends its execution in error, and
\* a startup that raises ends the process.
Raise(t) ==
    /\ UNCHANGED recordVars
    /\ IF t = Loop /\ up = "boot"
       THEN /\ up' = "down"
            /\ th' = [u \in Threads |-> Idle]
            /\ UNCHANGED <<ending, acting, fuel>>
       ELSE Finish(t)

-----------------------------------------------------------------------------
(* reconcile *)

\* The thread goes on to pc, and remembers nothing but the version it holds.
Then(t, pc, goal) == Continue(t, [Idle EXCEPT !.pc = pc, !.goal = goal,
                                             !.after = th[t].after, !.fresh = th[t].fresh])

\* The state that is read leads to one step of the lifecycle.
Read(t) ==
    /\ At(t, "read")
    /\ UNCHANGED recordVars
    /\ \/ /\ state \notin {"proposed", "researching", "approved_for_build", "developing"}
          /\ Return(t)
       \/ /\ UNCHANGED env
          /\ \E pc \in {"open", "submit", "plan", "track"} :
                /\ pc = CASE state = "proposed"           -> "open"
                          [] state = "researching"        -> "submit"
                          [] state = "approved_for_build" -> "plan"
                          [] state = "developing"         -> "track"
                          [] OTHER                        -> "none"
                /\ Continue(t, [th[t] EXCEPT !.pc = pc, !.fresh = TRUE])

Open(t) ==
    /\ At(t, "open") /\ th[t].fresh
    /\ Transition("researching")
    /\ Go(t, "submit")
    /\ UNCHANGED env

\* Mutant of AttemptFor: the attempt is always a new one.
AttemptAnew(k) == ~Linked(k) /\ \A j \in Builds : j < k => Linked(j)

\* The attempt that belongs to the latest architecture, or else the next one.
AttemptFor(k) ==
    IF \E j \in Builds : Current(j)
    THEN Current(k) /\ \A j \in Builds : Current(j) => k <= j
    ELSE ~Linked(k) /\ \A j \in Builds : j < k => Linked(j)

PickAttempt(t) ==
    /\ At(t, "plan")
    /\ UNCHANGED <<recordVars, env>>
    /\ \E k \in Builds :
        /\ AttemptFor(k)
        /\ Continue(t, [th[t] EXCEPT !.pc = "submit", !.k = k, !.goal = "developing"])

\* Once the WorkItem of the stage is submitted.
Submitted(t) ==
    CASE th[t].k = Research         -> Then(t, "weigh", "none") /\ UNCHANGED env
      [] th[t].goal = "developing"  -> Then(t, "move", "developing") /\ UNCHANGED env
      [] OTHER                      -> Return(t)

\* backend.submit: the same execution however often it is asked for.
Launched(ks) ==
    /\ stage' = [k \in Attempts |-> IF k \in ks /\ stage[k].exec = "none"
                                    THEN [stage[k] EXCEPT !.exec = "live"] ELSE stage[k]]
    /\ UNCHANGED <<state, plans, approved, gates, evidence>>

\* submit_stage: a stage that is not linked yet is linked first, another one is only
\* submitted once more.
Submit(t) ==
    /\ At(t, "submit") /\ ~Linked(th[t].k)
    /\ UNCHANGED <<recordVars, env>>
    /\ Go(t, "link")

SubmitAgain(t) ==
    LET k == th[t].k IN
    /\ At(t, "submit") /\ Linked(k) /\ WorkAdmitted(k)
    /\ Launched({k} \ {j \in Attempts : Ended(j)})
    /\ Submitted(t)

SubmitRefused(t) ==
    /\ At(t, "submit") /\ Linked(th[t].k) /\ ~WorkAdmitted(th[t].k)
    /\ Raise(t)

LinkStage(t) ==
    /\ At(t, "link")
    /\ Link(th[t].k)
    /\ Go(t, "launch")
    /\ UNCHANGED env

LinkRefused(t) ==
    /\ At(t, "link") /\ ~Linkable(th[t].k)
    /\ Raise(t)

Launch(t) ==
    /\ At(t, "launch")
    /\ Launched({th[t].k})
    /\ Submitted(t)

\* Mutant of EndedBadly: a cancelled item is taken for one that goes on.
EndedByFailure(k) == stage[k].work = "failed"

EndedBadly(k) == stage[k].work \in {"failed", "cancelled"}

\* The research ended; an architecture may be on record already.
Weigh(t) ==
    /\ At(t, "weigh")
    /\ UNCHANGED recordVars
    /\ \/ /\ EndedBadly(Research)
          /\ Then(t, "move", "failed") /\ UNCHANGED env
       \/ /\ stage[Research].work = "completed" /\ plans > 0
          /\ Then(t, "reread", "architecture_ready") /\ UNCHANGED env
       \/ /\ ~EndedBadly(Research)
          /\ stage[Research].work = "completed" => plans = 0
          /\ Return(t)

\* The stage of the latest architecture, and how its WorkItem stands. A completed one
\* is admitted once more.
Track(t) ==
    /\ At(t, "track")
    /\ UNCHANGED <<recordVars, env>>
    /\ \E k \in Builds :
        /\ Current(k) /\ \A j \in Builds : Current(j) => j <= k
        /\ \/ /\ stage[k].work = "completed" /\ Admits(k, "developing")
              /\ Then(t, "reread", "verifying")
           \/ /\ EndedBadly(k)
              /\ Then(t, "move", "failed")
           \/ /\ ~Ended(k)
              /\ Continue(t, [th[t] EXCEPT !.pc = "submit", !.k = k])

TrackNothing(t) ==
    /\ At(t, "track")
    /\ \A k \in Builds : Current(k) => stage[k].work = "completed" /\ ~Admits(k, "developing")
    /\ Raise(t)

\* The version is read once more, whatever the change has become.
Reread(t) ==
    /\ At(t, "reread")
    /\ UNCHANGED <<recordVars, env>>
    /\ Continue(t, [th[t] EXCEPT !.pc = "move", !.fresh = TRUE])

Movable(t) == th[t].fresh /\ th[t].goal \in Transitions[state]

Move(t) ==
    /\ At(t, "move")
    /\ Movable(t) /\ Transition(th[t].goal)
    /\ Return(t)

MoveRefused(t) ==
    /\ At(t, "move") /\ ~Movable(t)
    /\ Raise(t)

Reconcile(t) ==
    \/ Read(t) \/ Open(t) \/ PickAttempt(t)
    \/ Submit(t) \/ SubmitAgain(t) \/ SubmitRefused(t) \/ LinkStage(t) \/ LinkRefused(t) \/ Launch(t)
    \/ Weigh(t) \/ Track(t) \/ TrackNothing(t) \/ Reread(t) \/ Move(t) \/ MoveRefused(t)

-----------------------------------------------------------------------------
(* The tools of the owner, on the event loop *)

ToolCalled == up = "up" /\ At(Loop, "idle")

Tool(l) == Continue(Loop, l) /\ UNCHANGED env

Start ==
    /\ ToolCalled /\ state = "none"
    /\ state' = "proposed"
    /\ Tool([Idle EXCEPT !.pc = "read"])
    /\ UNCHANGED <<plans, approved, gates, evidence, stage>>

\* propose_architecture: another summary than the one on record is refused.
Propose ==
    /\ ToolCalled
    /\ state \in {"researching", "architecture_ready", "waiting_owner_approval"}
    /\ stage[Research].work = "completed"
    /\ UNCHANGED recordVars
    /\ Tool([Idle EXCEPT !.after = "present",
                         !.pc = CASE state # "researching" -> "present"
                                  [] plans = 0             -> "add"
                                  [] OTHER                 -> "read"])

Downstream == {"approved_for_build", "developing", "verifying",
               "waiting_owner_acceptance", "ready_for_promotion"}

\* revise_architecture, of a change that was approved or is further on.
Revise ==
    /\ ToolCalled
    /\ state \in Downstream /\ plans < MaxPlans
    /\ UNCHANGED recordVars
    /\ Tool([Idle EXCEPT !.pc = "add"])

AddArchitecture ==
    /\ At(Loop, "add")
    /\ AddPlan
    /\ Go(Loop, IF th[Loop].after = "present" THEN "read" ELSE "present")
    /\ UNCHANGED env

AddRefused ==
    /\ At(Loop, "add") /\ ~Revisable
    /\ Raise(Loop)

\* prepare_acceptance, of the last attempt at development.
LastBuild(k) == k \in Builds /\ Linked(k) /\ \A j \in Builds : Linked(j) => j <= k

PrepareAcceptance ==
    /\ ToolCalled /\ state = "verifying"
    /\ UNCHANGED recordVars
    /\ \E k \in Builds :
        /\ LastBuild(k) /\ stage[k].work = "completed"
        /\ Tool([Idle EXCEPT !.pc = "attest", !.k = k, !.kind = "acceptance"])

Attest ==
    /\ At(Loop, "attest")
    /\ AddEvidence(th[Loop].k)
    /\ Tool([Idle EXCEPT !.pc = "present", !.kind = "acceptance"])

PresentGate ==
    /\ At(Loop, "present")
    /\ Present(th[Loop].kind)
    /\ Finish(Loop)

PresentRefused ==
    /\ At(Loop, "present") /\ ~Presentable(th[Loop].kind)
    /\ Raise(Loop)

\* The owner's commands are as many as the model allows.
Spend(what) == fuel[what] > 0 /\ fuel' = [fuel EXCEPT ![what] = @ - 1]

Commanded == ToolCalled /\ Spend("owner")

Rework(k, s) ==
    /\ stage' = [stage EXCEPT ![k] = s]
    /\ UNCHANGED <<state, plans, approved, gates, evidence>>

\* Mutant of PauseStage: the execution is told, in words it does not know.
PauseStageAloud(k) ==
    /\ Commanded /\ stage[k].work = "open"
    /\ Rework(k, [stage[k] EXCEPT !.work = "paused", !.box = Append(@, "pause")])
    /\ UNCHANGED <<th, ending, acting, up>>

PauseStage(k) ==
    /\ Commanded /\ stage[k].work = "open"
    /\ Rework(k, [stage[k] EXCEPT !.work = "paused"])
    /\ UNCHANGED <<th, ending, acting, up>>

ResumeStage(k) ==
    /\ Commanded /\ stage[k].work = "paused"
    /\ Rework(k, [stage[k] EXCEPT !.work = "open", !.box = Append(@, "resume")])
    /\ UNCHANGED <<th, ending, acting, up>>

CancelStage(k) ==
    /\ Commanded /\ Linked(k) /\ ~Ended(k)
    /\ Rework(k, [stage[k] EXCEPT !.work = "cancelled", !.box = Append(@, "cancel")])
    /\ UNCHANGED <<th, ending, acting, up>>

\* retry_failed_work: the change is reopened first.
RetryStage(k) ==
    /\ Commanded /\ stage[k].work = "failed"
    /\ UNCHANGED <<recordVars, ending, acting, up>>
    /\ Continue(Loop, [Idle EXCEPT !.pc = "reopen", !.k = k])

ReopenChange ==
    /\ At(Loop, "reopen")
    /\ Reopen(th[Loop].k)
    /\ Tool([th[Loop] EXCEPT !.pc = "retry"])

ReopenRefused ==
    /\ At(Loop, "reopen") /\ ~Reopenable(th[Loop].k)
    /\ Raise(Loop)

RetryWork ==
    /\ At(Loop, "retry")
    /\ Rework(th[Loop].k, [stage[th[Loop].k] EXCEPT !.work = "open", !.exec = "live", !.box = <<>>])
    /\ Finish(Loop)

\* The retry could not be submitted: the item is failed again, and so is the change.
RetryFails ==
    /\ At(Loop, "retry")
    /\ UNCHANGED recordVars
    /\ Tool([Idle EXCEPT !.pc = "read"])

Owner ==
    \/ Start \/ Propose \/ Revise \/ PrepareAcceptance
    \/ \E k \in Attempts : PauseStage(k) \/ ResumeStage(k) \/ CancelStage(k) \/ RetryStage(k)

ToolStep ==
    \/ AddArchitecture \/ AddRefused \/ Attest \/ PresentGate \/ PresentRefused
    \/ ReopenChange \/ ReopenRefused \/ RetryWork \/ RetryFails

-----------------------------------------------------------------------------
(* The decision of the owner, in a thread of its own *)

\* decide_latest: the owner named a gate that is pending, and is asked to verify
\* himself.
Ask(kind) ==
    /\ ToolCalled /\ At(Desk, "idle")
    /\ kind \in gates /\ state = Gate[kind].waiting
    /\ UNCHANGED <<recordVars, env>>
    /\ Continue(Desk, [Idle EXCEPT !.pc = "verify", !.kind = kind, !.doc = Latest(kind)])

\* The same turn decided before: the change is reconciled again. The model lets the
\* owner repeat himself as often as he gives commands.
AskAgain ==
    /\ Commanded /\ At(Desk, "idle")
    /\ approved # {}
    /\ UNCHANGED <<recordVars, ending, acting, up>>
    /\ Continue(Desk, [Idle EXCEPT !.pc = "read"])

DecideGate ==
    /\ At(Desk, "verify")
    /\ Decide(th[Desk].kind, th[Desk].doc)
    /\ Continue(Desk, [Idle EXCEPT !.pc = "read"])
    /\ UNCHANGED env

\* The owner is not verified, or the gate is not the current one any more.
DecideRefused ==
    /\ At(Desk, "verify")
    /\ Raise(Desk)

-----------------------------------------------------------------------------
(* The WorkItem of a stage, as far as its change is concerned *)

LoopFree == ToolCalled

\* advance: an item that its change does not admit is paused, and so is its execution.
Advance(k) ==
    /\ LoopFree /\ k \notin acting
    /\ stage[k].exec = "live" /\ stage[k].work = "open"
    /\ IF WorkAdmitted(k)
       THEN acting' = acting \cup {k} /\ UNCHANGED recordVars
       ELSE Rework(k, [stage[k] EXCEPT !.work = "paused", !.exec = "parked"]) /\ UNCHANGED acting
    /\ UNCHANGED <<th, ending, up, fuel>>

\* The decision or the action ends. What it yields is dropped when the item stopped
\* meanwhile. A completed development has its verified commit.
Yield(k) ==
    /\ LoopFree /\ k \in acting
    /\ acting' = acting \ {k}
    /\ \/ UNCHANGED <<recordVars, ending>>
       \/ /\ stage[k].work = "open" /\ k \notin ending
          /\ \E work \in {"completed", "failed"} :
                Rework(k, [stage[k] EXCEPT !.work = work, !.exec = "done"])
          /\ ending' = ending \cup {k}
    /\ UNCHANGED <<th, up, fuel>>

\* The loop of the execution finds its item stopped by the owner.
Observe(k) ==
    /\ LoopFree /\ k \notin acting /\ k \notin ending
    /\ stage[k].exec = "live"
    /\ \/ /\ Ended(k)
          /\ Rework(k, [stage[k] EXCEPT !.exec = "done"])
          /\ ending' = ending \cup {k}
       \/ /\ stage[k].work = "paused"
          /\ Rework(k, [stage[k] EXCEPT !.exec = "parked"])
          /\ UNCHANGED ending
    /\ UNCHANGED <<th, acting, up, fuel>>

\* A parked execution waits for a command.
Receive(k) ==
    /\ up # "down" /\ stage[k].exec = "parked" /\ stage[k].box # <<>>
    /\ Rework(k, [stage[k] EXCEPT !.box = Tail(@),
                   !.exec = IF Head(stage[k].box) = "resume" THEN "live" ELSE "done"])
    /\ UNCHANGED <<th, env>>

\* _ON_WORK_TERMINAL, once startup has configured it.
Notice(k) ==
    /\ up # "down" /\ ~At(Loop, "boot")
    /\ k \in ending /\ At(k, "idle")
    /\ UNCHANGED <<recordVars, env>>
    /\ Continue(k, [Idle EXCEPT !.pc = "read"])

\* DBOS recovered the execution before that.
NoticeUnheard(k) ==
    /\ At(Loop, "boot") /\ k \in ending
    /\ ending' = ending \ {k}
    /\ UNCHANGED <<recordVars, th, acting, up, fuel>>

Engine(k) == Advance(k) \/ Yield(k)
Execution(k) == Observe(k) \/ Receive(k) \/ Notice(k)

-----------------------------------------------------------------------------
(* Crash and startup *)

Crash ==
    /\ up # "down" /\ Spend("crash")
    /\ up' = "down"
    /\ th' = [t \in Threads |-> Idle]
    /\ acting' = {}
    /\ UNCHANGED <<recordVars, ending>>

\* DBOS is launched, and recovers the executions that have not returned.
Boot ==
    /\ up = "down"
    /\ up' = "boot"
    /\ UNCHANGED <<recordVars, ending, acting, fuel>>
    /\ Continue(Loop, [Idle EXCEPT !.pc = "boot"])

\* Mutant of BootReconcile: the executions are recovered, and nothing else.
BootExecutions ==
    /\ At(Loop, "boot")
    /\ Launched({k \in Attempts : Linked(k) /\ ~Ended(k)})
    /\ Finish(Loop)

\* The WorkItems that are active have an execution; then changes.reconcile_active.
BootReconcile ==
    /\ At(Loop, "boot")
    /\ Launched({k \in Attempts : Linked(k) /\ ~Ended(k)})
    /\ IF state \in {"none", "rejected", "failed"} THEN Finish(Loop)
       ELSE Go(Loop, "read") /\ UNCHANGED env

-----------------------------------------------------------------------------

Next ==
    \/ \E t \in Threads : Reconcile(t)
    \/ Owner \/ ToolStep
    \/ \E kind \in Kinds : Ask(kind)
    \/ AskAgain \/ DecideGate \/ DecideRefused
    \/ \E k \in Attempts : Engine(k) \/ Execution(k) \/ NoticeUnheard(k)
    \/ Crash \/ Boot \/ BootReconcile

Fairness ==
    /\ \A t \in Threads : WF_vars(Reconcile(t))
    /\ \A k \in Attempts : WF_vars(Execution(k))
    /\ WF_vars(ToolStep) /\ WF_vars(DecideGate \/ DecideRefused)
    /\ WF_vars(Boot) /\ WF_vars(BootReconcile)

Spec == Init /\ [][Next]_vars /\ Fairness

-----------------------------------------------------------------------------
(* Properties *)

States == DOMAIN Transitions

Steps == {"idle", "boot", "read", "open", "plan", "track", "submit", "link",
          "launch", "weigh", "reread", "move", "add", "attest", "present",
          "reopen", "retry", "verify"}

Goals == {"none", "architecture_ready", "developing", "verifying", "failed"}

Locals == [pc : Steps, k : Attempts, doc : Nat, kind : Kinds, goal : Goals,
           after : {"end", "present"}, fresh : BOOLEAN]

Stages == [work : {"none", "open", "paused", "completed", "failed", "cancelled"},
           plan : 0 .. MaxPlans,
           exec : {"none", "live", "parked", "done"}, box : Seq({"resume", "cancel"})]

\* The variables have their types.
TypeOK ==
    /\ state \in States
    /\ plans \in 0 .. MaxPlans
    /\ approved \subseteq Builds /\ gates \subseteq Kinds
    /\ evidence \in Seq(Builds)
    /\ stage \in [Attempts -> Stages]
    /\ th \in [Threads -> Locals]
    /\ ending \subseteq Attempts /\ acting \subseteq Attempts
    /\ up \in {"down", "boot", "up"}
    /\ fuel \in [owner : 0 .. MaxCommands, crash : 0 .. MaxCrashes]

Offered == evidence[Len(evidence)]

\* What the owner is asked to accept, and what he has accepted, is the completed
\* development of the architecture that is the latest and that he approved
\* (service.py, prepare_acceptance; store.py, add_artifact).
AcceptedIsCurrent ==
    state \in {"waiting_owner_acceptance", "ready_for_promotion"} =>
        /\ evidence # <<>>
        /\ stage[Offered].work = "completed"
        /\ stage[Offered].plan = plans /\ plans \in approved

\* One architecture is developed by one WorkItem, however many threads reconcile
\* the change at once (coordinator.py, reconcile; store.py, link_work).
OneStagePerPlan ==
    \A j, k \in Builds : Linked(j) /\ Linked(k) /\ stage[j].plan = stage[k].plan => j = k

HandedOver == \E k \in Builds : Current(k) /\ stage[k].exec # "none"

\* An approved architecture is handed over to a worker, whatever crashes and whoever
\* reconciles at the same time (coordinator.py, reconcile).
ApprovedIsBuilt == state = "approved_for_build" ~> state # "approved_for_build" \/ HandedOver

\* The stage that the change waits for has ended.
Lagging ==
    \/ state = "researching" /\ stage[Research].work \in {"failed", "cancelled"}
    \/ state = "developing" /\ \E k \in Builds : Current(k) /\ Ended(k)

\* A stage that ended while nobody heard of it is noticed by the next startup
\* (runtime.py, changes.reconcile_active).
StartupRepairs == up = "boot" /\ Lagging ~> ~Lagging
=============================================================================
