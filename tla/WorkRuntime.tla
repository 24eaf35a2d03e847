----------------------------- MODULE WorkRuntime -----------------------------
(***************************************************************************)
(* The work runtime as a whole: executions, engine, owner and process, and   *)
(* the properties of their interleavings.                                    *)
(***************************************************************************)
EXTENDS WorkOrchestrator

Next ==
    \/ \E t \in Threads : StoreCall(t)
    \/ \E e \in Execs : EngineStep(e) \/ WorkflowStep(e)
    \/ MainStep
    \/ OwnerStep
    \/ BackendFault(Main)
    \/ Crash

Spec == Init /\ [][Next]_vars

\* The interpreter runs a thread that can go on, DBOS attempts the steps of a
\* live workflow, and asyncio resumes ready coroutines in turn (strong
\* fairness, as the loop is taken by others in between).  Owner, crashes and
\* faults owe nothing.
Fairness ==
    /\ \A t \in Threads : WF_vars(StoreCall(t))
    /\ \A e \in Execs : SF_vars(EngineStep(e)) /\ WF_vars(WorkflowStep(e))
    /\ WF_vars(MainStep)

FairSpec == Spec /\ Fairness

-----------------------------------------------------------------------------
(* Type invariant *)

Programs == {"idle", "admit", "brain", "failing", "lease", "exec", "done", "settle",
             "asking", "ret", "raise", "cancel", "cancelled", "boot"}

OpNames == {"read", "move", "touch", "add", "mark", "interrupt", "notify",
            "blocker", "clear", "send", "submit", "restart", "bind"}

CallArgs == WorkStates \cup StepKinds \cup StepStates \cup Observed
              \cup {"none", "keep", "own", "resume", "cancel"}

Call == {o \in [op : OpNames, a : CallArgs, b : CallArgs] :
            /\ o.op = "move" => o.a \in WorkStates
            /\ o.op = "add"  => o.a \in StepKinds
            /\ o.op = "mark" => o.a \in StepStates /\ o.b \in Observed
            /\ o.op = "send" => o.a \in {"resume", "cancel"}}

Thread == [pc : Programs, w : Works \cup {Owner}, todo : Seq(Call), held : Item,
           sid : Nat, tries : Nat]

\* An execution works on its own item.  The main thread makes calls for some
\* item, and is idle or starting up while it has none.
OwnItem(t, rec) ==
    /\ t \in Execs => rec.w = t[1]
    /\ rec.w = Owner => rec.todo = <<>> /\ rec.pc \in {"idle", "boot"}

\* No more units of "work" are given out than the semaphore has.
LeaseOK(units) ==
    /\ units \subseteq Execs /\ IsFiniteSet(units)
    /\ Cardinality(units) <= GlobalConcurrency

ThreadsOK ==
    /\ th \in [Threads -> Thread]
    /\ \A t \in Threads : OwnItem(t, th[t])
    /\ loop \in Threads \cup {Free}
    /\ LeaseOK(lease)

StoreOK ==
    /\ item \in [Works -> Item]
    /\ steps \in [Works -> Seq(StepRow)]
    /\ box \in [Works -> SUBSET Notice]
    /\ secret \in [Works -> BOOLEAN]
    /\ ref \in [Works -> Nat]

\* A workflow that applies an answer has one to apply.
DbosOK ==
    /\ wf \in [Execs -> Workflow(Message \cup {NoMessage})]
    /\ \A e \in Execs : wf[e].at = "apply" => wf[e].msg \in Message
    /\ inbox \in [Execs -> [owner : Seq(Message), control : Seq({"resume", "cancel"})]]

EnvOK ==
    /\ up \in {"down", "starting", "up"}
    /\ fuel \in [owner : Nat, crash : Nat, fault : Nat, press : Nat]
    /\ review \in [Works -> BOOLEAN]

\* Every variable has its type, and no thread works on an item of another.
TypeOK == ThreadsOK /\ StoreOK /\ DbosOK /\ EnvOK

-----------------------------------------------------------------------------
(* Safety *)

\* The canonical store keeps the lifecycle promise (models.py's table, through
\* the compare-and-swap of save and the one transaction that applies a sealed
\* answer) however threads and crashes interleave: no stale write lands, no
\* terminal item is resurrected except by a retry, no version is reused.
Promise == INSTANCE WorkLifecycle WITH state   <- [w \in Works |-> item[w].state],
                                       version <- [w \in Works |-> item[w].ver]

KeepsLifecycle == Promise!Lifecycle

\* What a thread has read of its item is the row as it is, or an older
\* version of it: two different records never share a version.
HeldIsTrueOrStale ==
    \A t \in Threads : LET me == th[t] IN
        me.w \in Works =>
            /\ me.held.ver <= item[me.w].ver
            /\ me.held.ver = item[me.w].ver => me.held = item[me.w]

\* An executor, whose effects a crash leaves unknown, runs only while a step of
\* its own is durably recorded as running, and under a unit of the base resource
\* "work" (what _execute_action does before it awaits).  Executors may run beside
\* each other, after a crash inside a retry two of one item even: each then has
\* its own step, so that none settles the outcome of another.
ExecutorsAreOnRecord ==
    \A e \in Execs : Executing(e) =>
        /\ steps[e[1]][th[e].sid].st = "running"
        /\ e \in lease
        /\ \A f \in Execs :
              Executing(f) /\ f[1] = e[1] /\ th[f].sid = th[e].sid => f = e

\* An executor starts only for an item that is running: one that was paused,
\* cancelled or failed while it waited for the brain or the lease starts
\* nothing (advance's re-reads and the versions of its saves).
StartsOnlyRunningWork ==
    [][\A e \in Execs : Executing(e)' /\ ~Executing(e) =>
          item'[e[1]].state = "running"]_vars

\* A paused item stays paused until the owner resumes, cancels or retries it:
\* neither the engine, nor an answer in flight, nor a restart moves it on.
OnlyTheOwnerUnpauses ==
    [][\A w \in Works :
          item[w].state = "paused" /\ item'[w].state # "paused" =>
              loop = Main /\ th[Main].w = w /\ up = "up"]_vars

\* Work whose executor a crash cut short before its outcome was recorded runs no
\* further executor until the owner has answered, resumed or retried it
\* (reconcile_interrupted_steps: fail closed).
NoReplayBeforeReview ==
    [][\A e \in Execs : Executing(e)' /\ ~Executing(e) => ~review[e[1]]]_vars

\* Startup reconciliation never meets a state it cannot leave, which would keep
\* JARVIS from starting ever again: no running step survives on an item whose
\* state forbids WAITING_FOR_OWNER (BootInterrupted's save would raise).
StartupNeverAborts == th[Main].pc # "raise"

Live(w) == {e \in Execs : e[1] = w /\ wf[e].st = "live"}

Quiet == up = "up" /\ th[Main].pc = "idle" /\ th[Main].todo = <<>>

\* Once startup is over and no command is under way, every active item has an
\* execution that will drive it (submit before the command returns, and
\* reconcile_active after a crash).
ActiveWorkIsDriven ==
    Quiet => \A w \in Works : Active(item[w]) => Live(w) # {}

\* Execution e is past advance's first look at its item.
Driving(e) == th[e].pc \in {"admit", "brain", "failing", "lease", "exec", "done",
                            "settle", "asking"}

\* No item is ever reasoned about, or executed, by two executions at once.
OneDriver ==
    \A e, f \in Execs : Driving(e) /\ Driving(f) /\ e[1] = f[1] => e = f

\* An executor runs only when all its item depends on has completed, and stays
\* completed (_check_dependencies, at the start of the cycle).
DependenciesFirst ==
    \A e \in Execs : Executing(e) => \A d \in Deps[e[1]] : item[d].state = "completed"

\* Waiting for the provider, the interactive brain, a resource or the owner
\* spends none of the cycle budget: each cycle spent left a step of executor
\* work or a recorded decision (_consumes_reasoning_budget).
WaitingIsFree ==
    \A e \in Execs :
        wf[e].used <= Cardinality({i \in DOMAIN steps[e[1]] :
                                      steps[e[1]][i].kind \in {"work", "note"}})

\* A sealed answer is stored only under the question it was given to: the item
\* still waits, at the same version, on a sensitive step
\* (apply_protected_owner_input).
SealedAnswerIsCurrent ==
    [][\A w \in Works : secret'[w] /\ ~secret[w] =>
          /\ item[w].state = "waiting_for_owner"
          /\ Question(w) = "ask_secret"
          /\ steps'[w][Len(steps'[w])].ver = item[w].ver]_vars

-----------------------------------------------------------------------------
(* Liveness *)

OnOwner(w) == item[w].state \in {"paused", "waiting_for_owner"}

AtRest(w) == \/ item[w].state \in Terminal
             \/ OnOwner(w)
             \/ item[w].state = "waiting_dependency" /\ \E d \in Deps[w] : OnOwner(d)

\* Every item comes to rest: it ends, or waits for the owner, or for an item
\* that does.
EveryItemRests == \A w \in Works : Exists(item[w]) ~> AtRest(w)

\* An item that waits for the owner has put its question in the box under its
\* present version, or will, or stops waiting.
EveryQuestionIsAsked ==
    \A w \in Works : item[w].state = "waiting_for_owner" ~>
        \/ item[w].state # "waiting_for_owner"
        \/ [kind |-> "owner_input", ver |-> item[w].ver] \in box[w]

\* Completed work is reported to the owner, whatever crash came between the
\* completion and its delivery (enqueue_delivery, and advance's first lines).
CompletionIsReported ==
    \A w \in Works :
        item[w].state = "completed" ~> [kind |-> "completion", ver |-> 0] \in box[w]
=============================================================================
