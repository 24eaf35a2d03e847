----------------------------- MODULE WorkThreads -----------------------------
(***************************************************************************)
(* How JARVIS processes interleave.  Three kinds of thread make store calls: *)
(* the workflow executions (DBOS threads), the coroutine WorkEngine.advance  *)
(* each of them runs on the JARVIS event loop, and the main thread with the  *)
(* owner's commands and the startup code, on the same loop.                  *)
(*                                                                           *)
(* A thread runs a segment of code at a time.  A segment reads what it       *)
(* decides by in one step and leaves the store calls it makes in todo; they  *)
(* are then made one per step, so that a crash, or a call of another thread, *)
(* can fall between any two.  Segments of the event loop exclude each other  *)
(* until one awaits or returns; DBOS threads are excluded by nothing.        *)
(***************************************************************************)
EXTENDS WorkStore

CONSTANTS Owner,         \* names the main thread
          Free,          \* value of loop while nobody runs on it
          GlobalConcurrency, \* units of the base resource "work"
          Deps,          \* Deps[w]: the items w depends on
          MaxFailures,   \* _MAX_CONSECUTIVE_FAILURES
          MaxCycles,     \* max_reasoning_cycles
          StepAttempts,  \* max_attempts of a DBOS step
          Outcomes,      \* brain outcomes that can happen
          Results,       \* executor outcomes that can happen
          Commands,      \* owner commands that can be given
          Fuel           \* bounds: owner commands, crashes, faults, pressures

ASSUME OwnerAssumption == Owner \notin Works
ASSUME FreeAssumption == Free \notin Execs \cup {<<Owner, 0>>}
ASSUME DepsAssumption == Deps \in [Works -> SUBSET Works]
ASSUME BoundsAssumption ==
    /\ {MaxFailures, MaxCycles, StepAttempts, GlobalConcurrency} \subseteq Nat \ {0}
    /\ Fuel \in [owner : Nat, crash : Nat, fault : Nat, press : Nat]

VARIABLES th,      \* threads: program counter, pending calls, local variables
          loop,    \* who runs on the event loop
          lease,   \* the executions that hold a unit of the base resource "work"
          up,      \* the process: down, starting, or up (DBOS launched)
          fuel,    \* what is left of the bounds
          review   \* history: items with an executor outcome a crash left unknown
                   \* and that the owner has not dealt with since

volatile == <<th, loop, lease>>
env  == <<up, fuel, review>>
vars == <<item, steps, box, secret, ref, wf, inbox, sent, th, loop, lease, up,
          fuel, review>>

Main    == <<Owner, 0>>
Threads == Execs \cup {Main}

Idle(w) == [pc |-> "idle", w |-> w, todo |-> <<>>, held |-> Absent, sid |-> 0,
            tries |-> 0]

Init ==
    /\ StoreInit
    /\ th     = [t \in Threads |-> Idle(t[1])]
    /\ loop   = Free
    /\ lease  = {}
    /\ up     = "up"
    /\ fuel   = Fuel
    /\ review = [w \in Works |-> FALSE]

-----------------------------------------------------------------------------
(* Store calls a segment can leave behind *)

Op(op, a, b)    == [op |-> op, a |-> a, b |-> b]
Read            == Op("read", "", "")
Move(to, step)  == Op("move", to, step)      \* save(latest.transition(to))
Touch(step)     == Op("touch", "", step)     \* save(latest.with_progress())
Add(kind)       == Op("add", kind, "")
Mark(st, obs)   == Op("mark", st, obs)
Interrupt       == Op("interrupt", "", "")
Notify          == Op("notify", "", "")      \* the delivery of the saved state
Blocker         == Op("blocker", "", "")
Clear           == Op("clear", "", "")       \* clear_sensitive_inputs
Send(command)   == Op("send", command, "")
Launch          == Op("submit", "", "")
Restart         == Op("restart", "", "")
Bind            == Op("bind", "", "")        \* set_execution_id

OnLoop(t) == t = Main \/ wf[t].at = "advance"

\* A thread is off the event loop when it awaits or has returned.
Returned(rec) == rec.todo = <<>> /\ rec.pc \in {"idle", "cancelled", "ret", "raise"}
Awaits(rec)   == rec.todo = <<>> /\ rec.pc \in {"brain", "lease", "exec"}

\* Thread t goes on as rec; leaving advance releases its unit of "work", and a
\* command of the owner that returned leaves nothing behind.
Run(t, rec) ==
    /\ th'    = [th EXCEPT ![t] = IF t = Main /\ Returned(rec) /\ rec.pc # "raise"
                                  THEN Idle(Owner) ELSE rec]
    /\ loop'  = IF ~OnLoop(t) THEN loop
                ELSE IF Returned(rec) \/ Awaits(rec) THEN Free ELSE t
    /\ lease' = IF Returned(rec) THEN lease \ {t} ELSE lease

\* A segment that has read held continues at pc after making the calls.
Segment(t, held, pc, calls) ==
    Run(t, [th[t] EXCEPT !.pc = pc, !.held = held, !.todo = calls])

\* An exception leaves the segment: the owner's command fails, startup aborts,
\* a DBOS step is attempted again.
Raise(t) ==
    Run(t, [th[t] EXCEPT !.todo = <<>>,
                         !.pc = IF t = Main /\ @ # "boot" THEN "idle" ELSE "raise"])

\* The executor of e runs; it has not returned, or what it returned is not yet
\* in its step.
Executing(e) == th[e].pc = "exec" /\ th[e].todo = <<>>

Unsettled(e) ==
    \/ Executing(e)
    \/ /\ th[e].pc \in {"done", "settle", "asking"}
       /\ th[e].todo # <<>> /\ Head(th[e].todo).op = "mark"

Spend(what) == fuel[what] > 0 /\ fuel' = [fuel EXCEPT ![what] = @ - 1]

-----------------------------------------------------------------------------
(* Making one store call *)

Calls(t, op) ==
    /\ up # "down"
    /\ th[t].todo # <<>>
    /\ Head(th[t].todo).op = op

Did(t, rec) == Run(t, [rec EXCEPT !.todo = Tail(@)])

DoRead(t) ==
    /\ Calls(t, "read")
    /\ Did(t, [th[t] EXCEPT !.held = item[th[t].w]])
    /\ UNCHANGED <<storeVars, dbosVars, env>>

StepArg(me, b) == CASE b = "none" -> 0
                    [] b = "keep" -> me.held.step
                    [] OTHER      -> me.sid

Permitted(me, o) == IF o.op = "move" THEN CanMove(me.held, o.a) ELSE CanTouch(me.held)

NewRecord(me, o) == IF o.op = "move"
                THEN Transition(me.held, o.a, StepArg(me, o.b))
                ELSE WithProgress(me.held, StepArg(me, o.b))

DoSave(t) ==
    LET me == th[t] o == Head(me.todo) IN
    /\ Calls(t, "move") \/ Calls(t, "touch")
    /\ Permitted(me, o)
    /\ Fresh(me.w, me.held)
    /\ PutItem(me.w, NewRecord(me, o))
    /\ Did(t, [me EXCEPT !.held = NewRecord(me, o)])
    /\ UNCHANGED <<steps, box, secret, ref, dbosVars, env>>

\* "stale work update rejected" or "invalid work transition".  Cancellation
\* alone reads again and tries once more.
RejectSave(t) ==
    LET me == th[t] o == Head(me.todo) IN
    /\ Calls(t, "move") \/ Calls(t, "touch")
    /\ ~(Permitted(me, o) /\ Fresh(me.w, me.held))
    /\ IF me.pc = "cancelled"
       THEN Run(t, [me EXCEPT !.todo = <<>>, !.pc = "cancel"])
       ELSE Raise(t)
    /\ UNCHANGED <<storeVars, dbosVars, env>>

DoAdd(t) ==
    LET me == th[t] IN
    /\ Calls(t, "add")
    /\ AddStep(me.w, [kind |-> Head(me.todo).a, st |-> "planned", obs |-> "", ver |-> 0])
    /\ Did(t, [me EXCEPT !.sid = Len(steps[me.w]) + 1])
    /\ UNCHANGED <<item, box, secret, ref, dbosVars, env>>

DoMark(t) ==
    LET me == th[t] IN
    /\ Calls(t, "mark")
    /\ SaveStep(me.w, me.sid, Head(me.todo).a, Head(me.todo).b)
    /\ Did(t, me)
    /\ UNCHANGED <<item, box, secret, ref, dbosVars, env>>

\* Startup marks the running steps of an item in order.
DoInterrupt(t) ==
    LET me == th[t] IN
    /\ Calls(t, "interrupt")
    /\ \E i \in RunningSteps(me.w) :
         /\ \A j \in RunningSteps(me.w) : i <= j
         /\ SaveStep(me.w, i, "interrupted", "")
         /\ Did(t, [me EXCEPT !.sid = i])
    /\ UNCHANGED <<item, box, secret, ref, dbosVars, env>>

DoNotify(t) ==
    LET me == th[t] IN
    /\ Calls(t, "notify")
    /\ box' = [box EXCEPT ![me.w] = @ \cup StateNotices(me.held)]
    /\ Did(t, me)
    /\ UNCHANGED <<item, steps, secret, ref, dbosVars, env>>

DoBlocker(t) ==
    /\ Calls(t, "blocker")
    /\ Enqueue(th[t].w, [kind |-> "blocker", ver |-> 0])
    /\ Did(t, th[t])
    /\ UNCHANGED <<item, steps, secret, ref, dbosVars, env>>

DoClear(t) ==
    /\ Calls(t, "clear")
    /\ secret' = [secret EXCEPT ![th[t].w] = FALSE]
    /\ Did(t, th[t])
    /\ UNCHANGED <<item, steps, box, ref, dbosVars, env>>

Reachable(w) == wf[BoundExec(w)].st # "none"

DoSend(t) ==
    LET me == th[t] IN
    /\ Calls(t, "send")
    /\ Reachable(me.w)
    /\ SendControl(BoundExec(me.w), Head(me.todo).a, me.held.ver)
    /\ Did(t, me)
    /\ UNCHANGED <<storeVars, wf, env>>

DoSubmit(t) ==
    /\ Calls(t, "submit")
    /\ Submit(<<th[t].w, 0>>)
    /\ Did(t, th[t])
    /\ UNCHANGED <<storeVars, inbox, sent, env>>

\* A retry runs under an execution id no workflow has had.
DoRestart(t) ==
    LET me == th[t] IN
    /\ Calls(t, "restart")
    /\ \E n \in 1 .. MaxRetries :
         /\ wf[<<me.w, n>>].st = "none"
         /\ \A m \in 1 .. n - 1 : wf[<<me.w, m>>].st # "none"
         /\ Submit(<<me.w, n>>)
         /\ Did(t, [me EXCEPT !.sid = n])
    /\ UNCHANGED <<storeVars, inbox, sent, env>>

DoBind(t) ==
    /\ Calls(t, "bind")
    /\ ref' = [ref EXCEPT ![th[t].w] = th[t].sid]
    /\ Did(t, th[t])
    /\ UNCHANGED <<item, steps, box, secret, dbosVars, env>>

\* What the owner's command does when the durable backend refuses the call:
\* start and retry fail the item, resume pauses it again, cancel gives up.
OnFault(op, a) == CASE op = "submit"                  -> <<Move("failed", "none"), Notify>>
                    [] op = "restart"                 -> <<Read, Move("failed", "keep"), Notify>>
                    [] op = "send" /\ a = "resume"    -> <<Read, Move("paused", "keep")>>
                    [] OTHER                          -> <<>>

BackendFault(t) ==
    LET me == th[t] o == Head(me.todo) IN
    /\ \E op \in {"submit", "restart", "send"} : Calls(t, op)
    /\ \/ Spend("fault")
       \/ o.op = "send" /\ ~Reachable(me.w) /\ UNCHANGED fuel
    /\ Run(t, [me EXCEPT !.pc = "idle", !.todo = OnFault(o.op, o.a)])
    /\ UNCHANGED <<storeVars, dbosVars, up, review>>

StoreCall(t) ==
    \/ DoRead(t) \/ DoSave(t) \/ RejectSave(t) \/ DoAdd(t) \/ DoMark(t)
    \/ DoInterrupt(t) \/ DoNotify(t) \/ DoBlocker(t) \/ DoClear(t)
    \/ DoSend(t) \/ DoSubmit(t) \/ DoRestart(t) \/ DoBind(t)
=============================================================================
