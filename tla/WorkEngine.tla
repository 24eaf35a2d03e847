------------------------------ MODULE WorkEngine ------------------------------
(***************************************************************************)
(* WorkEngine: one bounded reasoning cycle of an item (advance), and the two *)
(* calls DBOS threads make directly (apply_owner_input and fail).            *)
(*                                                                           *)
(* advance awaits three times, and an item can change under it each time:    *)
(* for the brain's decision ("brain"), for the resource lease ("lease") and  *)
(* for the executor ("exec").  The engine reads the item again afterwards.   *)
(***************************************************************************)
EXTENDS WorkThreads

\* Execution e is at checkpoint at and its thread has not started the step.
AtStep(e, at) ==
    /\ up = "up"
    /\ wf[e].st = "live"
    /\ wf[e].at = at
    /\ th[e].pc = "idle"

\* e may take the event loop up again at pc.
Resumes(e, pc) == th[e].pc = pc /\ th[e].todo = <<>> /\ loop = Free

\* e is past a re-read and still on the loop.
Continues(e, pc) == th[e].pc = pc /\ th[e].todo = <<>>

Only(t, held, pc, calls) ==
    Segment(t, held, pc, calls) /\ UNCHANGED <<storeVars, dbosVars, env>>

Pressed(t, held, pc, calls) ==
    /\ Segment(t, held, pc, calls)
    /\ Spend("press")
    /\ UNCHANGED <<storeVars, dbosVars, up, review>>

-----------------------------------------------------------------------------
(* advance(), up to the brain *)

BlockedBy(w, states) == \E d \in Deps[w] : item[d].state \in states

\* Mutant of Pending: only a dependency nothing has started yet is waited for.
PendingWhileQueued(w) == BlockedBy(w, {"queued"})

Pending(w) == \E d \in Deps[w] : item[d].state # "completed"

Unmet(w) == BlockedBy(w, {"absent", "failed", "cancelled"})

\* Mutant of AdvanceStopped: the delivery a crash cut off stays lost.
AdvanceStoppedSilently(e) ==
    /\ AtStep(e, "advance") /\ loop = Free
    /\ Stopped(item[e[1]])
    /\ Only(e, item[e[1]], "ret", <<>>)

\* Terminal items get the delivery a crash may have cut off, paused ones
\* nothing.
AdvanceStopped(e) ==
    LET it == item[e[1]] IN
    /\ AtStep(e, "advance") /\ loop = Free
    /\ Stopped(it)
    /\ Only(e, it, "ret", IF it.state = "paused" THEN <<>> ELSE <<Notify>>)

\* Mutant of AdvanceDependent: completed dependencies do not wake the item.
AdvanceDependentForever(e) ==
    LET w == e[1] it == item[e[1]] IN
    /\ AtStep(e, "advance") /\ loop = Free
    /\ ~Stopped(it)
    /\ \/ /\ Unmet(w)
          /\ Only(e, it, "ret", <<Move("failed", "none"), Notify>>)
       \/ /\ ~Unmet(w)
          /\ Pending(w) \/ it.state = "waiting_dependency"
          /\ Only(e, it, "ret", IF it.state = "waiting_dependency"
                                THEN <<>>
                                ELSE <<Move("waiting_dependency", "none")>>)

\* _check_dependencies: a dependency that is missing or ended badly fails the
\* item, one that is not complete makes it wait, the last one to complete
\* lets it run.
AdvanceDependent(e) ==
    LET w == e[1] it == item[e[1]] IN
    /\ AtStep(e, "advance") /\ loop = Free
    /\ ~Stopped(it)
    /\ \/ /\ Unmet(w)
          /\ Only(e, it, "ret", <<Move("failed", "none"), Notify>>)
       \/ /\ ~Unmet(w) /\ Pending(w)
          /\ Only(e, it, "ret", IF it.state = "waiting_dependency"
                                THEN <<>>
                                ELSE <<Move("waiting_dependency", "none")>>)
       \/ /\ ~Pending(w) /\ it.state = "waiting_dependency"
          /\ Only(e, it, "admit", <<Move("running", "none"), Read>>)

MakeRunning(it) == IF it.state \in {"queued", "retrying", "waiting_resource"}
                   THEN <<Move("running", "none")>>
                   ELSE <<>>

\* The change gate may have been withdrawn: a renewed review pauses the item.
\* A work type nothing is registered for fails it.
Admission(e, it) ==
    \/ /\ it.state = "waiting_for_owner"
       /\ Only(e, it, "ret", <<Notify>>)
    \/ /\ it.state # "waiting_for_owner"
       /\ Only(e, it, "brain", MakeRunning(it))
    \/ /\ it.state # "waiting_for_owner" /\ "unsupported" \in Outcomes
       /\ Only(e, it, "ret", MakeRunning(it) \o <<Move("failed", "none"), Notify>>)
    \/ /\ "closed" \in Outcomes
       /\ Pressed(e, it, "ret", <<Move("paused", "keep")>>)

Advance(e) ==
    LET it == item[e[1]] IN
    /\ AtStep(e, "advance") /\ loop = Free
    /\ ~Stopped(it) /\ ~Pending(e[1])
    /\ it.state # "waiting_dependency"
    /\ Admission(e, it)

Admit(e) ==
    LET it == th[e].held IN
    /\ Continues(e, "admit")
    /\ IF Stopped(it) THEN Only(e, it, "ret", <<>>) ELSE Admission(e, it)

-----------------------------------------------------------------------------
(* advance(), from the brain's decision to the lease *)

\* Whatever the brain decided is dropped when the item stopped meanwhile.
DecideTooLate(e) ==
    LET it == item[e[1]] IN
    Resumes(e, "brain") /\ Stopped(it) /\ Only(e, it, "ret", <<>>)

Decides(e, outcome) ==
    Resumes(e, "brain") /\ ~Stopped(item[e[1]]) /\ outcome \in Outcomes

\* The interactive brain took over, the provider is under pressure, or routing
\* found no target: the item waits for the resource.
BrainUnavailable(e) ==
    LET it == item[e[1]]
        Waits == <<Add("pressure"), Mark("completed", ""), Read,
                   Move("waiting_resource", "own")>>
    IN
    \/ /\ Decides(e, "preempt")
       /\ Pressed(e, it, "ret", <<Move("waiting_resource", "keep")>>)
    \/ /\ Decides(e, "pressure")
       /\ Pressed(e, it, "ret", Waits)
    \/ /\ Decides(e, "blocked")
       /\ Pressed(e, it, "ret", Waits \o <<Blocker>>)

BrainFails(e) ==
    /\ Decides(e, "error")
    /\ Only(e, item[e[1]], "failing", <<Add("note"), Mark("failed", ""), Read>>)

\* The completion guard may refuse; acceptance drops the owner's secrets.
BrainCompletes(e) ==
    LET it == item[e[1]] IN
    \/ /\ Decides(e, "refused")
       /\ Only(e, it, "ret", <<Add("note"), Mark("completed", ""), Read, Touch("none")>>)
    \/ /\ Decides(e, "complete")
       /\ Only(e, it, "ret", <<Move("completed", "none"), Clear, Notify>>)

BrainAsks(e) ==
    /\ Decides(e, "ask")
    /\ Only(e, item[e[1]], "ret", <<Move("waiting_for_owner", "none"), Notify>>)

BrainActs(e) ==
    /\ Decides(e, "act")
    /\ Only(e, item[e[1]], "lease", <<Move("waiting_resource", "none")>>)

-----------------------------------------------------------------------------
(* advance(), from the lease to the executor's outcome *)

\* A unit of the base resource is left: the semaphore has max(1, global_concurrency).
Spare == Cardinality(lease) < GlobalConcurrency

\* Mutants of Leased: the step is never marked running; the item is not RUNNING
\* when the executor starts; the step is recorded before the item is RUNNING.
LeasedUnrecorded(e) ==
    LET it == item[e[1]] IN
    /\ Resumes(e, "lease")
    /\ Spare /\ ~Stopped(it)
    /\ th' = [th EXCEPT ![e] = [@ EXCEPT !.pc = "exec", !.held = it, !.todo = <<Move("running", "none"), Add("work"), Touch("own")>>]]
    /\ loop' = e /\ lease' = lease \cup {e}
    /\ UNCHANGED <<storeVars, dbosVars, env>>

LeasedWaiting(e) ==
    LET it == item[e[1]] IN
    /\ Resumes(e, "lease")
    /\ Spare /\ ~Stopped(it)
    /\ th' = [th EXCEPT ![e] = [@ EXCEPT !.pc = "exec", !.held = it, !.todo = <<Add("work"), Mark("running", ""), Touch("own")>>]]
    /\ loop' = e /\ lease' = lease \cup {e}
    /\ UNCHANGED <<storeVars, dbosVars, env>>

LeasedStepFirst(e) ==
    LET it == item[e[1]] IN
    /\ Resumes(e, "lease")
    /\ Spare /\ ~Stopped(it)
    /\ th' = [th EXCEPT ![e] = [@ EXCEPT !.pc = "exec", !.held = it, !.todo = <<Add("work"), Mark("running", ""), Move("running", "own")>>]]
    /\ loop' = e /\ lease' = lease \cup {e}
    /\ UNCHANGED <<storeVars, dbosVars, env>>

\* The step is durable as running, and the item names it, before the executor
\* starts.
Leased(e) ==
    LET it == item[e[1]] IN
    /\ Resumes(e, "lease")
    /\ Spare
    /\ \/ /\ Stopped(it)
          /\ Only(e, it, "ret", <<>>)
       \/ /\ ~Stopped(it)
          /\ th' = [th EXCEPT ![e] =
                       [@ EXCEPT !.pc = "exec", !.held = it,
                                 !.todo = <<Move("running", "none"), Add("work"),
                                            Mark("running", ""), Touch("own")>>]]
          /\ loop' = e
          /\ lease' = lease \cup {e}
          /\ UNCHANGED <<storeVars, dbosVars, env>>
       \/ /\ ~Stopped(it) /\ "closed" \in Outcomes
          /\ Pressed(e, it, "ret", <<Move("running", "none"), Read, Move("paused", "keep")>>)

\* ResourcePressure from the lease manager.
LeaseRefused(e) ==
    LET it == item[e[1]] IN
    /\ Resumes(e, "lease")
    /\ Pressed(e, it, "ret", IF it.state = "waiting_resource" THEN <<Touch("keep")>> ELSE <<>>)

\* The executor may have taken the owner's protected value (pop_sensitive_input).
Executed(e) ==
    LET it == th[e].held IN
    /\ Resumes(e, "exec")
    /\ \/ /\ "ok" \in Results
          /\ Segment(e, it, "done", <<Mark("completed", ""), Read>>)
       \/ /\ "fail" \in Results
          /\ Segment(e, it, "settle", <<Mark("failed", ""), Read>>)
       \/ \E q \in {"ask", "ask_secret"} \cap Results :
             Segment(e, it, "asking", <<Mark("completed", q), Read>>)
    /\ secret' \in {secret, [secret EXCEPT ![e[1]] = FALSE]}
    /\ UNCHANGED <<item, steps, box, ref, dbosVars, env>>

StepDone(e) ==
    LET it == th[e].held IN
    /\ Continues(e, "done")
    /\ Only(e, it, "ret", IF it.state \in Terminal THEN <<>> ELSE <<Touch("none")>>)

StepAsks(e) ==
    LET it == th[e].held IN
    /\ Continues(e, "asking")
    /\ Only(e, it, "ret", IF Stopped(it) THEN <<>>
                          ELSE <<Move("waiting_for_owner", "own"), Notify>>)

\* _retry_or_fail.  A failed executor step is settled only if the item is
\* still going; a failed decision was checked before it was recorded.
StepFails(e) ==
    LET it == th[e].held IN
    \/ /\ Continues(e, "settle") /\ Stopped(it)
       /\ Only(e, it, "ret", <<>>)
    \/ /\ Continues(e, "failing") \/ (Continues(e, "settle") /\ ~Stopped(it))
       /\ Only(e, it, "ret", IF TrailingFailures(e[1]) >= MaxFailures
                             THEN <<Move("failed", "own"), Notify>>
                             ELSE <<Move("retrying", "own")>>)

-----------------------------------------------------------------------------
(* Calls of the DBOS threads *)

\* apply_owner_input, plain answers: three transactions bound to the item as
\* first read, not to the question that was asked.
Recorded(w, text) ==
    \E i \in DOMAIN steps[w] :
        /\ steps[w][i].kind = "owner_input"
        /\ steps[w][i].st = "completed"
        /\ steps[w][i].obs \in {text, "redacted"}

ApplyPlain(e) ==
    LET w == e[1] it == item[e[1]] m == wf[e].msg IN
    /\ AtStep(e, "apply")
    /\ ~m.sealed
    /\ \/ /\ it.state = "waiting_for_owner" /\ Question(w) # "ask_secret"
          /\ Segment(e, it, "ret", <<Add("owner_input"), Mark("completed", m.text),
                                     Move("running", "none")>>)
          /\ review' = [review EXCEPT ![w] = FALSE]
          /\ UNCHANGED <<storeVars, dbosVars, up, fuel>>
       \/ /\ it.state # "waiting_for_owner" /\ Recorded(w, m.text)
          /\ Only(e, it, "ret", <<>>)
       \/ /\ IF it.state = "waiting_for_owner"
             THEN Question(w) = "ask_secret"
             ELSE ~Recorded(w, m.text)
          /\ Raise(e)
          /\ UNCHANGED <<storeVars, dbosVars, env>>

\* apply_protected_owner_input: one transaction, bound to the version of the
\* item at the time of the question and to the digest of the message.
Consumed(w, m) ==
    \E i \in DOMAIN steps[w] : steps[w][i].obs = "redacted" /\ steps[w][i].ver = m.ver

\* Mutant of AnswersNow: the version the answer was given under is not compared.
AnswersAnyVersion(it, m) == it.state = "waiting_for_owner"

AnswersNow(it, m) == it.state = "waiting_for_owner" /\ it.ver = m.ver

ApplySealed(e) ==
    LET w == e[1] it == item[e[1]] m == wf[e].msg
        current == AnswersNow(it, m)
    IN
    /\ AtStep(e, "apply")
    /\ m.sealed
    /\ UNCHANGED <<box, ref, dbosVars, up, fuel>>
    /\ \/ /\ current
          /\ PutItem(w, Transition(it, "running", 0))
          /\ AddStep(w, [kind |-> "owner_input", st |-> "completed",
                         obs |-> "redacted", ver |-> m.ver])
          /\ secret' = [secret EXCEPT ![w] = TRUE]
          /\ review' = [review EXCEPT ![w] = FALSE]
          /\ Segment(e, it, "ret", <<>>)
       \/ /\ ~current
          /\ IF it.state # "waiting_for_owner" /\ Consumed(w, m)
             THEN Segment(e, it, "ret", <<>>)
             ELSE Raise(e)
          /\ UNCHANGED <<item, steps, secret, review>>

\* fail(): the cycle budget is spent.
FailBounded(e) ==
    LET it == item[e[1]] IN
    /\ AtStep(e, "fail")
    /\ \/ /\ it.state \in Terminal
          /\ Only(e, it, "ret", <<Clear>>)
       \/ /\ it.state \notin Terminal
          /\ Only(e, it, "ret", <<Move("failed", "keep"), Clear, Notify>>)

EngineStep(e) ==
    \/ AdvanceStopped(e) \/ AdvanceDependent(e) \/ Advance(e) \/ Admit(e)
    \/ DecideTooLate(e) \/ BrainUnavailable(e) \/ BrainFails(e)
    \/ BrainCompletes(e) \/ BrainAsks(e) \/ BrainActs(e)
    \/ Leased(e) \/ LeaseRefused(e) \/ Executed(e)
    \/ StepDone(e) \/ StepAsks(e) \/ StepFails(e)
    \/ ApplyPlain(e) \/ ApplySealed(e) \/ FailBounded(e)
=============================================================================
