# Formal verification of JARVIS

`src/jarvis` is a personal assistant: a voice shell around a *work runtime*
that carries out owner-requested work in the background, over hours and across
restarts, while the owner talks to it. It pays for some of its reasoning, and it
changes its own code: the owner asks for a change, JARVIS researches, builds and
tests it, and once he has accepted and approved it a supervisor puts it into
production. This directory models that control core in TLA+, checks it with TLC
on small instances, and proves the properties its safety rests on with TLAPS
for every value of the constants.

There are five models, one for each kind of trust the owner places in it:

1. **work**: an item is never executed twice, resurrected, forgotten or replayed
   blindly after a crash;
2. **leases**: conversation comes before background reasoning, and no lease is
   lost;
3. **paid inference**: no money is spent beyond the ceiling, twice, or unseen;
4. **engineering changes**: what the owner accepts is what he approved;
5. **promotion and deployment**: nothing runs that he did not approve, and there
   is a way back.

## The system

| part (`src/jarvis/...`) | state | operations | meets the others through |
|---|---|---|---|
| `work/models.py`, `work/store.py` | `work_items`, `work_steps`, `work_deliveries`, sensitive inputs, execution bindings (SQLite, WAL) | create, save (compare-and-swap on the version), steps, deliveries, sealed answers | every caller opens its own transaction, on any thread |
| `work/engine.py` | none of its own | `advance`, `fail`, `apply_owner_input`, startup reconciliation | the store; the brain, the resource manager and the executors, which it awaits |
| `work/dbos_backend.py` | DBOS workflow rows, recorded step outputs, messages | `durable_workflow`, submit, restart, send | runs `advance` on the JARVIS event loop and the two other steps on DBOS threads |
| `work/orchestrator.py`, `work/runtime.py` | the binding item to execution | start, pause, resume, cancel, retry, reprioritize, answer, build (startup), close | the store and the backend, from the main thread |
| `work/resources.py` | semaphores | lease | `advance` awaits it |
| `work/brain.py`, `work/provider_retry.py`, `work/reasoner.py` | the interactive gate, one reasoning lock, retry clocks | decide, preempt | `advance` awaits it; the voice session preempts it |
| `work/development.py` | worktrees | write, test, diff, commit | an executor of the engine |
| `voice` | conversation, speaking queue | speaks pending deliveries, takes answers | the store's deliveries, `submit_owner_input` |
| `work/reasoner.py`, `model_routing/invoker.py` | routing decisions, invocation claims | decide, invoke | the store of model routing, from several processes |
| `model_routing` | budget, reservations, live sessions, health of the targets, recovery lease | admit, reserve, dispatch, settle, report, review; claim, probe, record | every paid or free call; the owner's administration |
| `engineering_change` | change, architecture and acceptance artifacts, gates, stages (SQLite) | create, revise, review, decide, reconcile, retry a stage | creates work items, is told when they end, admits their actions |
| `promotion`, `dev_supervisor.py` | promotion attempt, evidence, gate; deployment metadata (active, last known good, recovery); the protected branch | prepare the review, authorize and merge, deploy, fall back, observe | tools in the runtime, a supervisor process that starts and stops it |
| `authority`, `self_repair` | permits, circuit breaker | permit, repair, roll back | the tools; the supervisor |
| `autonomy`, `incidents`, `incident_repair`, `capability_*` | opportunities, incidents, proposals, catalogues | observe, propose, dispatch | engineering changes and work |
| `memory`, `vision`, `identity`, `sensors`, `hands`, `engineering_*` | embeddings, indexes, calibration, budgets | mostly data-dependent computation and devices | the voice shell and the reasoner |

What is hard here is not any one function, each of which is a few guarded
assignments with a unit test. It is that

- `advance` is one coroutine that awaits three times (brain, lease, executor)
  and writes before, between and after; the owner's commands run in the gaps;
- the DBOS threads call the store with no regard for the event loop;
- every handler is a sequence of separate transactions, and the process can die
  between any two of them; DBOS then replays from the last step that returned;
- two durable truths, the canonical row and the workflow row, are written one
  after the other and must be reconciled when only one was;
- messages (owner answers, resume, cancel) are queued and may be received long
  after the question or pause they were meant for;
- several processes share one budget and one free target, and what a call cost,
  or whether it was sent at all, may never be known;
- one reconciliation of a change runs on the event loop, on the thread of an
  owner's decision and on the thread of a stage that ended;
- deploying a release stops the very runtime in which the owner approves it, and
  the supervisor may die between any two of its files.

`PROJECT.json` lists, under `hazards`, each of these at its line with the
properties that would catch it.

## Modules

```
WorkModels           the lifecycle table and the immutable record     models.py
  WorkStore          the durable state, one operator per transaction  store.py, DBOS tables
    WorkThreads      threads, pending store calls, crashes, faults    (all)
      WorkEngine     advance, apply_owner_input, fail                 engine.py
        DurableWorkflow   the workflow loop                           dbos_backend.py
          WorkOrchestrator  owner commands, crash, startup            orchestrator.py, runtime.py
            WorkRuntime     Next, fairness, the properties
              MCWorkRuntime   instances for TLC
              WorkProofs      theorems: types, versions, the lifecycle
                ExecutionProofs   theorems: the executors, paused work stays paused
                  RuntimeProofs   theorems: sealed answers, one driver, startup survives
                    CalmProofs    theorems: active work is driven, waiting costs nothing
WorkLifecycle        abstract specification: what the store promises of an item

Advances             the coroutines that contend for leases
  BrainLease         one reasoning lease, and the conversation gate     brain.py
  ResourceLease      semaphores taken in the order of their names       resources.py
    AdvanceLeases    both, as advance uses them; the properties         engine.py
      MCAdvanceLeases   an instance for TLC
      LeaseProofs    theorems about both leases

RoutingProcess       the processes that share the routing store         process_identity.py
  PaidBudget         the ledger, live sessions, the owner's review      budget.py, operational_budget.py,
                                                                        live_unknown_recovery.py, live_budget_admin.py
  FreeRecovery       health and recovery lease of the free target       health.py, store.py, router.py
    PaidInference    both lanes of a request; the properties            reasoner.py, invoker.py
      MCPaidInference   instances for TLC
      PaidProofs     theorems

ChangeRecords        the records of a change, one operator per          engineering_change/store.py,
                     transaction                                        gates.py
  EngineeringChange  reconcile, the tools, the stages, startup          coordinator.py, service.py
    ChangeProofs     theorems

PromotionRecords     attempt, evidence, gate, deployment metadata,      promotion/store.py, release.py
                     protected branch
  Promotion          the owner's tools: review, authorize, merge        coordinator.py, authority.py, merge.py
    Deployment       the supervisor; the properties                     dev_supervisor.py, deployment.py,
                                                                        observation.py
      MCDeployment   an instance for TLC
      DeploymentProofs   theorems
```

**State.** `item[w]` is the row of item `w`: `state`, `from`
(`paused_from_state`), `step` (the position of `current_step_id` in the list of
steps, 0 for None) and `ver`. `steps[w]` is `work_steps` in creation order,
`box[w]` the event keys of its deliveries, `secret[w]` whether the sensitive
input table has a row for it, `ref[w]` the bound execution (0 the canonical one,
n the n-th retry). `wf[e]` is a DBOS workflow: its status, the point its
recorded outputs lead back to (`at`), the cycles spent and the answer being
applied. `inbox` and `sent` are DBOS's notifications and idempotency keys.
All of this survives `Crash`; `th`, `loop` and `lease` do not.

**Steps.** A handler is a sequence of *segments*, each from one await (or the
start) to the next. A segment decides from what it reads and leaves the store
calls it makes in `todo`; `WorkThreads` makes them one per step, as the code
makes one transaction after another. So a crash, or another thread, fits
between any two calls, and a save whose version is stale is rejected as
`SQLiteWorkStore.save` rejects it (`RejectSave`, an exception that leaves the
segment). Segments on the event loop exclude one another through `loop`;
`apply_owner_input` and `fail` run on DBOS threads and are not excluded. Where
the code's read and its decision are separated by nothing another thread can do
to the same rows, they are one step.

**Leases.** `WorkThreads` keeps what an item does while it waits for the brain
or a lease; what the waiting itself does is the second tree. There an action is
what a coroutine does between two awaits, and an await that finds its future
done does not yield. `at[w]` is the await of `decide` an item is in, `task[w]`
its reasoning task, which goes on by itself and whose end the coroutine sees
later; `granted` and `woken` are futures resolved for coroutines that have not
resumed. The heap entries `(-priority, sequence)` are the priorities and
`ahead[w]`, those already waiting when `w` came. `sem[r]` is an asyncio
semaphore: its value, the waiters asleep and those woken but not resumed; `wants[w]`
are the keys still to acquire, the next one first by name.
An advance is never cancelled while the event loop lives, so the branches for a
cancelled waiter in `_acquire` and `_release` are left out.

**Paid inference.** One action is one `BEGIN IMMEDIATE` transaction, or the answer
of a provider. `state[i]`, `accounted[i]` are a reservation; `spent` and
`blocked` the budget; `bill[i]` what the provider will charge, which the code
learns only from complete usage; `live[l]` the journal of a voice session with
its rounds, tool continuations and the decisions of the owner that are not
audited yet. `health`, `cooling`, `fresh` and `lease` are the record of the free
target: `fresh` are the requests whose read still has the version the record
has, `cooling` abstracts the deadline. `call[r]` is what a process does for
request `r`; it is lost with the process (`Die`), and `claim`, `plan`, `tried`
are not. `doubt` is no variable of the code: it is the set of requests that may have been sent and have no
outcome, which is what buying again would be about.

**Engineering changes.** `state`, `plans` (revisions of the architecture),
`approved`, `gates` and `evidence` are rows of the change's store; `stage[k]`
is the WorkItem of a stage attempt with its execution and the commands queued
for it, of which only what the change can see is kept (it ends, is paused, is
resumed or cancelled: the work model says how). Threads are the event loop, the
owner's decision (`Desk`) and one per stage that ends. `reconcile` is a read
(`Read`), then one transaction per step, each of which raises if the version
that was read is old: `fresh` is that version. `Crash` loses the threads;
`Boot` and `BootReconcile` are startup.

**Promotion and deployment.** A release is named by the change it comes from.
`change`, `attempt`, `base`, `paper` and `gate` are rows; `main` and `merged`
are GitHub; `active`, `lkg`, `recovery` are the three metadata files, `samples`
the healthy observations. `tool[t]` is a call of the owner's tools with what it
has read so far, in the runtime `run`; it is gone when the supervisor stops
that runtime. `sup` is the supervisor: where it is, the change it is about,
the release it starts again when the runtime ends, the restarts its guardian has
left. It is `"down"` until the guardian starts it and `"closed"` when nothing runs
any more. One action is one write, one
read that a later one acts upon, or one process started or stopped. `Look` is
`_resume_pending_phase7_deployment`, at startup and at every poll.

**Choices.** What the brain decides (`Outcomes`), what an executor returns
(`Results`), what the owner commands (`Commands`) and what the durable backend
refuses are nondeterministic. Texts, summaries and digests are abstract. Times
are dropped: a timeout of `recv` or a sleep may end at any moment.

Operators named in a comment "Mutant of X" are plausible bugs of `X`; nothing
uses them, and `PROJECT.json` names the property each one breaks.

## Properties and runs

Every bound is a constant that the configuration names. In the work model
`Fuel` bounds owner commands, crashes, backend faults and pressures of a
behaviour; nothing else is bounded there except by
the code's own limits, set small: two consecutive failures (the code: several),
one or two cycles (the code: 200 or as configured), three attempts of a DBOS step
(as the code). `GlobalConcurrency`, the units of the base resource `work`, is 2 (the
code: `max(1, global_concurrency)`, 4 by default).

| run | instance | properties |
|---|---|---|
| `work_safety` | one item, 3 commands (all but retry), 1 crash; asks for sealed answers; refused completion, unsupported actions | `TypeOK`, `HeldIsTrueOrStale`, `StartupNeverAborts`, `KeepsLifecycle`, `StartsOnlyRunningWork`, `OnlyTheOwnerUnpauses`, `SealedAnswerIsCurrent`, `NoReplayBeforeReview` |
| `work_control` | two items that depend on nothing, each with a retry execution, two units of `work`, 3 commands (start, retry, cancel), 1 backend fault, 1 pressure, no crash | `ExecutorsAreOnRecord`, `OneDriver`, `WaitingIsFree` |
| `work_progress` | two items, the second depends on the first, executors that fail, two failures in a row end an item, 3 commands, 1 crash, fair | `DependenciesFirst`, `ActiveWorkIsDriven`, `EveryItemRests`, `CompletionIsReported`, `EveryQuestionIsAsked` |
| `leases` | three items, two of one priority; `work` of capacity 2, `cpu` and `git` of 1; actions that need one or two of them, and one that is not registered; conversation and shutdown at any moment; fair | `TypeOK`, `OneReasoner`, `LeaseIsHeldOnce`, `ConversationComesFirst`, `PreemptionIsNoFailure`, `UnitsAreConserved`, `UrgentReasoningReturns`, `EveryLeaseIsServed` |
| `paid_ledger` | one WorkItem request and one live session, two processes that may die, ceiling 2, calls that hold 1 and are billed up to 2, one tool continuation | `TypeOK`, `LedgerBalances`, `UnknownBlocks`, `SentIsHeld` |
| `paid_recovery` | two decisions of one WorkItem and a hands request, two processes, ceiling 1, calls that hold 1 and are billed nothing, pressure and 503 | `WithinCeiling`, `NoRepurchase`, `PressureEndsByCalls` |
| `changes` | two architectures, one command on a stage, no crash | `TypeOK`, `AcceptedIsCurrent`, `OneStagePerPlan` |
| `changes_recovery` | one architecture, two commands, one crash; fair | `ApprovedIsBuilt`, `StartupRepairs` |
| `promotion` | two changes, two tool threads, four calls, one healthy sample required, one restart of the guardian, one crash, one fault | `TypeOK`, `OnlyApprovedRuns`, `FallbackIsKnownGood` |
| `promotion_recovery` | one change, two tool threads, three calls, two samples required, two restarts of the guardian, two crashes, two faults; fair | `DeploymentEnds` |
| `finding_handover` | one change, one tool thread, two calls, one crash; fair | violates `StagedIsResumed` |
| `finding_replay` | one item, two commands, two crashes | violates `NoReplayBeforeReview` |

Why these bounds: the properties are about one item (or an item and its
dependency), and items meet only through the lease, the loop and dependencies.
The interesting interleavings have at most three actors: the workflow's thread,
one command of the owner and one crash; three commands include every
start-pause-resume and start-answer-cancel sequence against a crash at every
point. Two cycles reach the budget's boundary; two failures reach the limit
from either side, with a retry of the step between them. The executors of two items
run together on two units of `work`; waiting for a unit is the subject of
`leases`, and two executors of one item that of the theorem `ExecutorsOnRecord`
only: they need a crash inside `retry` (see *What else the code was seen to do*),
after which two executions may answer each other's writes for ever.

In `leases` nothing is bounded: the state is finite. Three items are a holder,
a waiter it is handed to and one that comes in between; with a base resource
for two, two items hold it while the third waits, and the two-resource action
meets both single-resource ones.

In `paid_ledger` there is room for both the call and the session, so that each
may be on its way, unknown or settled while the other is, and a bill of two is
more than was held. In `paid_recovery` there is room for one: the WorkItem and the
hands request, of two lanes and maybe of two processes, race for it, get it
back when a call is settled for nothing, and race again; what a bill takes from the
budget is the subject of `paid_ledger`, and of the theorem `SpendingStaysWithinTheCeiling`. (With two rows, each admitted once, a ceiling
either refuses nothing or keeps them apart; the third row is what it is for.) The
second decision of the item is the one that could buy again, and the hands request
the one that shares the lease. Nothing else is bounded: a request ends.

Two architectures are enough for one to overtake the other at every point of its
review; a third does to the second what the second does to
the first. Two changes on one `main` are what merge, evidence and the last known
good release can confuse; four calls are a review and a merge
of each, and three those of one and a second merge beside the first. The
second crash of `promotion_recovery` falls into the recovery from the first.
Two crashes and two faults spend the two restarts of its guardian, too.
`Procs`, the decisions of one item, items that depend on nothing, the changes and
the tool threads are symmetric where only safety is checked.

`CHECK_DEADLOCK` is off because the system may stop: an owner who gives no
command, or a process that ended, is no error.

**Fairness.** In `work_progress` the interpreter runs a thread that has a
call to make (`WF` of `StoreCall`), DBOS attempts the steps of a live workflow
and restarts what was live (`WF` of `WorkflowStep`, `MainStep`), and asyncio
resumes every ready coroutine in turn (`SF` of `EngineStep`: the loop is taken by
others in between, so a coroutine is not continuously enabled, but the loop's
ready queue is FIFO). The brain and the executors answer, as both have
timeouts. Nothing is assumed of the owner, of crashes or of faults. In `leases` each
coroutine that is ready is resumed, reasoners and executors answer, and the
owner's speech ends (`WF`); no item has to ask for anything. In the runs of
changes every thread that has a step of `reconcile` or of a tool to make makes it, the
executions DBOS has on record go on and end, a verification of the owner that
was begun ends, and JARVIS is started again after a crash; no one has to give a
command. In those of promotion the supervisor goes on, and it is started again while the
guardian is going to (`WF` of `Supervisor`, with `Boot`): it is one loop in one
process. The guardian starts it after an error, at most `restart_count` times; it
ends with a supervisor that stops on purpose and exits with 0
(`FailClosed`: no readiness, no restart left, a resume that left no process), with
its last restart, or with the machine. Then the supervisor is `"closed"`, and only
the owner's next logon, of which nothing is assumed (`Logon` is not fair), starts
both again. Nothing is assumed of the tools or the owner there. The paid runs need no fairness:
all they check is safety.

### What holds

- **The lifecycle** (`KeepsLifecycle`, a refinement of `WorkLifecycle`): however
  threads and crashes interleave, each row is created once and then moves along
  the table one version at a time.
- **Executors** run only on record, under a unit of the base resource, each on a
  step of its own (`ExecutorsAreOnRecord`), and start only for running items
  (`StartsOnlyRunningWork`), a paused item stays paused
  until the owner acts (`OnlyTheOwnerUnpauses`), and after one crash nothing of
  unknown outcome is replayed before the owner saw it (`NoReplayBeforeReview`;
  not after two, see below).
- **Answers** given under seal bind to the version of their question
  (`SealedAnswerIsCurrent`).
- **Progress**: items end or wait for the owner, questions are asked,
  completions reported, dependencies respected, budgets finite.

- **Leases**: one background reasoning at a time, none while the owner talks
  except to stop; cancelled reasoning is always told from failed reasoning; the
  lease comes back on every path, and shutdown leaves nobody at the gate; no
  unit of a resource is lost and no circle of waiters forms. An item outranked
  by others can be overtaken for ever, so `UrgentReasoningReturns` is stated for
  items nobody outranks.

- **Paid inference**: what is spent and held is the sum of the reservations and
  never exceeds the ceiling when a call is admitted; a call that may have been
  sent is neither refunded nor settled for less than its bill; while a usage is
  unknown the budget is blocked, through every order of reports, settlements,
  orphan recovery and the owner's review; nothing is bought again while its
  outcome is unknown; the free target is healthy again after pressure only by a leased
  call made after it was recorded, and neither time nor anything older ends it.
- **Engineering changes**: however late a callback comes, what the owner is
  asked to accept and has accepted is the completed development of the latest
  architecture, which he approved; one architecture is developed once; what he
  approved is built across a crash, and startup repairs what ended unheard.
- **Promotion and deployment**: whatever runs, is active or would be started
  after a restart was approved and merged; the way back leads to the release he
  was shown, healthy for long enough; a deployment that was handed over ends
  under observation or with another release in its place, unless everything has
  stopped; then it goes on after the owner's next logon.

### What does not hold

Two statements the repository makes are refuted by a trace:

1. `finding_handover`: the promotion architecture wants every side-effecting step
   to be idempotent and recovery during deployment to reconcile the recovery
   marker. `prepare` writes the marker and then moves the attempt to DEPLOYING;
   after a crash in between the supervisor finds a marker whose attempt is not
   DEPLOYING, and returns, for good. No other deployment starts either.
2. `finding_replay`: the current architecture promises that a step whose outcome a
   crash left unknown becomes INTERRUPTED and its item waits for the owner, instead
   of being replayed. `reconcile_interrupted_steps` saves the steps before the item,
   and finds items by their running steps: a second crash between the two leaves
   an item that the next startup does not recognise as interrupted, and the
   recovered workflow goes on to execute.

What else the code was seen to do, where no statement of the repository is
refuted, or where the properties above are stated around it:

- A stage that is paused and then cancelled ends in a branch of the workflow that
  does not tell the coordinator; the change waits for it until the next startup.
  `StartupRepairs` says that it waits no longer.
- After a crash inside `retry`, or inside `cancel` of a paused item, the item is
  active and its workflow is over (nothing runs it), or it has a second
  workflow beside the one that crashed. `OneDriver` is checked without crashes
  and proved until the first, `ActiveWorkIsDriven` is checked without these two commands
  and proved until the first crash.
- A workflow whose step raises three times ends in error, and its item may still be
  active, with nothing to run it. Owner and engine writing the item at once can do
  that; two states do it without a race. `fail` tries PAUSED to FAILED, which the
  table does not list (engine.py:1174-1187), for an item paused when its cycles are
  spent; a retried item with a pending dependency is RETRYING, and `advance` tries to
  make it WAITING_DEPENDENCY. The run of `ActiveWorkIsDriven` reaches neither, and its
  theorem excludes both by name (`NobodyGaveUp`).
- With that second workflow, a second crash can find a step on record as
  running whose item is in a state that startup cannot move to
  WAITING_FOR_OWNER: `reconcile_interrupted_steps` raises, and JARVIS does not start.
  `StartupNeverAborts` is checked without `retry`.
- A plain answer is three transactions; a pause and a resume between them leave
  a waiting item with its answer on record. An item paused and resumed while it
  waits for the lease spends a cycle: `WaitingIsFree` is checked without pause.
- `dev_verify_capability_substrate` leases `artifact_store`, which the runtime
  registers as `artifact`: `normalize` raises, and the action never runs.
- A call that ends before it is sent leaves its claim open, which blocks the
  WorkItem, and a refused answer may leave the recovery lease with a process
  that lives. Safety is kept at the price of progress.
- A release goes on when the runtime, or the supervisor, ends between the two
  transactions that move its attempt and its change; the change is then never
  promoted, or never closed.
- Pressure can be replaced. A call of the free target that fails otherwise, and
  reads the record after the pressure was written, saves its own failure over it
  (reasoner.py:365-397, health.py:223-284): the paid target is then no longer
  admitted, and the free one is degraded, unavailable or in a cooldown that, being
  no pressure now, time alone ends (router.py:441-454), without a lease.
  `PressureEndsByCalls` admits that one step.
- The watchdog restarts a runtime that does not answer only if the revision that
  runs is the one of the checkout: `_recover_liveness_failure` takes `commit_sha`
  from `repo.local_sha()` (dev_supervisor.py:1306) and compares it with the
  revision of the release (1331). Unless someone brought the checkout to the
  commit of a promoted release, the supervisor stops instead, and so does the
  guardian. In the model
  `Unresponsive` may do either.
- A failed release that was already active is started again when the last known
  good one does not start: `FellBack` admits this end.

## Proofs

`WorkProofs` is checked by `tlapm` for any set of items, dependencies, limits
and any number of commands and crashes; its assumptions are the named `ASSUME`s
of `WorkStore` and `WorkThreads`, which TLC evaluates in every run.

- `Typing`: `Spec => []TypeOK`. `TypeOK` is inductive because it says more than
  types: a thread of execution `<<w, n>>` works on `w`, the calls a thread has
  pending are well formed for their operation, and a workflow at `apply` has a
  message. There is one lemma per group of actions, over lemmas on `Run`,
  `Segment` and `Raise`.
- `CompareAndSwapIsSound`: `Spec => []HeldIsTrueOrStale`. What any thread
  holds is either the row or strictly older. The inductive invariant
  `Versions` adds types. Each step is shown to have one of a few *effects*: the
  rows stay, or one row is replaced by a `Successor` one version newer; a
  thread's record stays, is read afresh or is what it just wrote.
- `RuntimeKeepsLifecycle`: `Spec => KeepsLifecycle`. The initial state maps to
  the initial state; a step's effect on the rows, shown above, maps to `Create`,
  `Refresh`, `Proceed` or a stutter. This is where `HeldIsTrueOrStale` is
  needed: the record a save computes from is the row itself, so the table is
  consulted for the state the row is really in.

`ExecutionProofs` goes on from there, for the same items, limits and crashes and for
any dependency relation: `ExecutorsOnRecord`, `ExecutorsStartForRunningWork` and
`DependenciesComeFirst`. Between the decision to execute and the executor lie
several transactions, and other threads write in between. The inductive
invariant `Execution` says what survives them. An execution on its way to an
executor has left to do what `Leased` set out to do, or an end of it: the save
that makes the item RUNNING, the new step, its mark (`Shaped`); no thread marks
a step after it took up another (`Orderly`). The steps that threads own are on
record (`OwnedRows`) and no two own the same one (`Apart`), so no thread marks the
step of another, and two executors of one item have two steps; the unit of the base
resource is held from the grant until the outcome is settled (`LeaseHeld`, and
`LeaseOK` of the types: never more holders than units); no execution goes on while the process is down or starting
(`Asleep`), and steps are interrupted at no other time (`Waking`). That the
version compared by save identifies the record (`Versions`, above) is what makes a
RUNNING item still running: whoever changed it since has made the save fail.
`DependenciesHold`, beside `Versions`, says that from the check to the end of the
cycle the dependencies are completed, which is the end of the table.

`OwnerUnpauses`, in the same module and under the same assumptions: a paused item is taken
on by a save of the main thread for it, while the process is up, and by nothing
else. The transition table allows RUNNING after PAUSED, and `advance` saves RUNNING
in many places, some of them after it has read the row again, which gives it the
version that makes the save succeed. So the versions alone do not protect the
pause; two things do. `Guarded` says of the calls an execution has still to make:
a save that could take a paused item on comes before any other save, the record it
rests on is not paused, and if the row is read again before it, the row is not
paused now. `LoopHeld` says why it stays so: whoever runs on the event loop and
has not awaited or returned holds it, the reads in question are made there
(`Careful`), and only the owner's command and `advance` itself, which need the loop
too, save PAUSED. `Placed` says where executions can be, and `Starting` that what
startup moves to WAITING_FOR_OWNER was not paused when it was read. The four with
`Execution` are the inductive invariant `Pausing`.

`RuntimeProofs` relates items, steps, messages and the executions at work on
them. `SealedAnswers`: a sealed answer is stored only under the question it was
given to, whatever came between. `Letters` says so of every answer on its way: as
long as the item waits under the version the answer was given to, it asks that
question. For the question is the text of a step, and it must stay what it is while
the item waits on it: no thread is still to write that step (`Untouched`,
`Numbered`), since between two awaits an execution either asks or marks a step,
never both (`Polite`), and what the main thread has pending belongs to one of a few
errands that ask again only what was asked (`Orders`). Together, over `Pausing`,
this is the inductive invariant `Sealing`.

`OneDriverUntilACrash`: until the first crash at most one execution is at work on an
item, however the owner retries, pauses and cancels. The theorem is about calm
behaviours because a crash inside `retry` does leave two (see *What does not
hold*). Two executions are on record as live for a while even then: the step that
failed the item has still to notify and return when a retry starts the next one.
So the inductive invariant `Driven` counts those that are `Going`, the live ones
which are not `Finishing` in this sense: an item that is absent or failed has nobody
going; an execution that is to fail its item does it last, so that the save makes it
`Finishing` (`FailsLast`); and the main thread, from the moment it sets out to
submit or restart an execution, knows that nobody is going (`Prepared`), since the
row it compares is the failed one. Every step then keeps the number or, at
`submit` and `restart`, adds one to none.

`StartupSurvives`: as long as no item was given a second execution (`Unretried`),
startup never raises, however often the process crashes and wherever, in startup
too. The hypothesis excludes exactly what lets it raise (see *What does not
hold*). Startup moves an item with a running step to WAITING_FOR_OWNER, which the
table allows out of RUNNING alone, or refreshes it if it is paused; a crash can
come between any two transactions; so the invariant has to say of every reachable
state where an item with a running step can be: RUNNING, PAUSED out of RUNNING, or
cancelled (`RowsLeavable`). That holds since, while the process is up, a running
step has its execution at work, which marks it before it moves its item
(`Attended`; a crash loses it, and an item cancelled before the next startup keeps the
step); only an execution on its way to an executor begins a step, and from the save that
makes its item RUNNING until the executor is awaited it holds the event loop, so that
nobody else writes the item (`BeginsInLease`, `Timely`); and what the owner's commands
have pending takes an item away from a running step only to pause or to cancel
it (`Duties`). While startup runs nobody else does, so the item it saves is the one it
read, and is saved once (`Restarting`). Together, over `Sealing`, this is
`Restartable`.

`CalmProofs` is about the time until the first crash, over `Driven`.

`ActiveWorkIsDrivenUntilACrash`: until the first crash, and unless a workflow has used
up the attempts of a step (`NobodyGaveUp`; see *What else the code was seen to
do*), every active item has a live execution whenever no command is under
way. While one is under way it may have none, so the invariant `Manned` says who
else there is: the main thread has an execution of it to start, or an item to fail
that it could not start (`Launching`); or an execution is `Going`; or the main
thread has told the execution to end, and is to cancel the item (`Cancelling`).
An item leaves each of them only for another, or by ceasing to be active. For the
launch this needs that the execution id is new, or `submit` would do nothing, and that
the record the main thread holds is the row, or failing it would be refused
(`Poised`, `Unstarted`). For an execution that ends: it returns a terminal state
only if the row is in it, or it finishes a failed item (`Absorbed`,
`FailuresFinish`, `Ending`), or it was told to end, and then its cancel is still to
come or has come (`CancelSent`). For the cancel: its save is refused only to be tried
again (`Ordered`). With `Driven` these are the inductive invariant `Watched`.

`WaitingCostsNothing`: until the first crash, and as long as the owner pauses
nothing (`"pause" \notin Commands`), a cycle is counted only if it has left its row:
a step of executor work, or a recorded decision. An `advance` writes its row and
returns in different transactions, so the inductive invariant `Frugal` says of every
point between them what the cycle has left (`Earning`): it has its row (`Earned`), or
the calls it has pending add one, or they end by leaving it a record that spends
nothing (`EndsFree`); a save that is refused raises, and a step that raised returns
nothing to count. In one place `advance` returns a record it has not written: refused
its lease, it returns the item as it finds it, which is free only if the item still
waits. `LeaseWaits` says that it does, and is what the hypotheses are for. Nobody else
may be `Going` for the item (`Driven`; a crash inside `retry` leaves two), and the
owner's commands may only end it (`Spares`): a pause and a resume in the meantime make
it return a state that spends (see *What else the code was seen to do*).

`LeaseProofs` is about both leases, for any set of items, priorities, resources,
capacities and needs (`ItemsAssumption`, `PriorityAssumption`, `CapacityAssumption`,
`RankAssumption`: items and resources are finitely many, capacities positive, names
distinct). Of the brain lease: `TheBrainIsLeasedOnce`, `OnlyOneReasons`,
`TheOwnerComesFirst` and `PreemptionIsRecognised`. None is inductive alone.
`BrainInv` joins them and adds that a task belongs to the
holder of the lease and is the one the gate would cancel (`TasksAreHeld`), and
that a task that was cancelled is on record as such (`CausesAreKept`): the gate
can cancel only what it knows, and the handler can tell a preemption only while
no one else has reset the record. Of the resource leases: `TypeCorrectness`,
`NoUnitIsLost` and `NoLeaseDeadlock`, from `LeaseInv`: for each resource the free
units, those items hold and those promised to woken waiters are its capacity, and
what an item has comes before what it wants (`InOrder`). Each acquisition and
release changes the cardinalities by one. `NoLeaseDeadlock` is the safety core of
`EveryLeaseIsServed`: if nobody's action ran and nobody was woken, the item that
waits for the last name of all would wait for units that only items waiting for
a later name could have.

`PaidProofs` is about paid inference, for any requests,
sessions, processes, costs and ceiling (`LedgerAssumption`, `IdentityAssumption`,
`LaneAssumption`). `LedgerInv` joins `SentIsHeld` and `UnknownBlocks` with two
facts that make them inductive: a reservation never accounts for more than the
provider charges (`LowerBounds`), and one that charges more than its bound has
blocked the budget (`OverrunBlocks`). `Inv` adds `RequestInv`: one decision of a
WorkItem is worked on at a time (`OneDecision`), a WorkItem that asks a provider
has claimed the invocation and no other decision of it is open or unpaid
(`AskedIsClaimed`), what may have been sent stays claimed and is not on its way
again (`DoubtIsClaimed`), each lane keeps to its own steps (`LanesOK`), only the
free target is tried under a lease (`PaidIsUnleased`), a leased call that still holds the
lease left after the last pressure (`ProbesAreFresh`), and visits are bounded
(`VisitsOK`). From it follow `TypeCorrectness`, `UnknownUsageBlocks`,
`NothingSentIsRefunded`, `InferenceIsNotBoughtAgain` and
`PressureOutlastsTime`. `LedgersBalance` and `SpendingStaysWithinTheCeiling`
are about sums over all rows. A sum is the cardinality of a disjoint union
(`Total`); what is used of it is one fact, that a step which changes one row
changes the sum by the difference (`TotalMoves`, `RowMoved`). The
ceiling then holds when a call is admitted by the guard of the reservation, and
afterwards because no row accounts for more than it held while no bill is above its
bound.

`ChangeProofs`: `ChangeTyping`, `AcceptedCurrent` and `OneStage`, for any number
of architectures, commands and crashes (`PlansAssumption`, `FuelAssumption`).
`ChangeInv` adds to the types that stages are pinned to an architecture in order
and one each (`StagesOK`), that what a thread remembers is still so or its
version is old (`ThreadOK`), that a change being verified was built (`Built`)
and that evidence under review is about the current stage (`Reviewed`).
`ThreadOK` is the heart of it: a thread acts on what it read long ago, and
nothing but the version in its UPDATE keeps it from doing harm.

`DeploymentProofs`: `DeploymentTyping`, `ApprovedReleases` and
`KnownGoodFallback`, for any number of changes, tool threads, samples, calls,
crashes and faults (`ReleasesAssumption`, `BoundsAssumption`). `DeployInv` says
what each tool thread may rely on (`CallsOK`), that an attempt is past the
protected branch only with its owner's approval and its merge (`MergesOK`), that
everything the supervisor could start is such a release (`ReleasesOK`), what the
recovery record promises in each phase (`WayBack`), and, for each place the
supervisor can be at, what is on record then (`SupFits`). `OnlyApprovedRuns` is
not inductive without the last: the supervisor starts the release of a record it
has read before. A step of a tool leaves the host alone and only adds approvals
and merges (`ToolStepOK`); a step of the host leaves the branch and the
gates alone (`HostStepOK`); each action is shown to be one or the other.

Only model-checked: liveness (out of this prover's reach), and of the work model
`NoReplayBeforeReview`. It holds in its run's instance and not in every one
(see *What else the code was seen to do*): a theorem about it needs a hypothesis
that excludes exactly what breaks it.

## Not modelled

Within the work runtime: silent delivery policy, status-update schedules,
execution reference rows of items never started, the completion guards' evidence
(a refusal is a choice), extension transactions of other stores, clean shutdown
(weaker than a crash), and the DBOS recovery limit of 20 attempts. `WAITING_UNTIL`
is in the table, and nothing in the code moves an item there.

In paid inference: which targets are eligible and how they rank, prices and policy
snapshots, experiments, the other provider adapters, the backoff clocks of
`provider_retry`, and the older configurations: the models assume the `durable_v2`
registry, an enforced budget, and one brain call per WorkItem at a time. In
engineering changes: processes derived from incidents, learning or
capabilities with their completion handlers, and more than one change. In promotion: compatibility verdicts other than SAFE, a rejected
gate, failure attribution and rollback (the runtime never calls them), the
adoption of the first release, the bridge to capabilities, corrupted artifacts,
and git updates of a development checkout; an expired permit is a refused merge.

Outside of these: everything `PROJECT.json` lists as `not_modelled`, with
reasons. Most of the source by volume is devices, perception, language, user
interface and stores of validated data, whose difficulty is not in their
control; the models cover the parts where processes, crashes and the owner's
decisions meet.

## Plan

In this order; each gets a module, an MC module with one run, and its mutants:

1. `WorkDelivery`: deliveries from the store to the voice session: spoken at
   least once, retried with backoff, requeued for a question that still waits.
2. `DevelopmentEvidence`: write, test, diff and commit order as a function of
   the step list, against a reference definition.
3. `Authority` permits (one shot, lifetime, digest) and `SelfRepair` (circuit
   breaker, rollback), composed with `Deployment`, which restarts through them.
4. Several engineering changes at once, with startup racing the workflows it
   recovers; `Autonomy` dispatch and incidents, which create changes.

Theorem to come: `NoReplayBeforeReview` for items never retried and one crash, from
`Restartable`.
