----------------------------- MODULE BrainLease ------------------------------
(***************************************************************************)
(* One reasoning lease shared by the background work items, and the gate    *)
(* through which live conversation takes precedence over them               *)
(* (BrainCoordinator and InteractiveBrainGate, src/jarvis/work/brain.py).   *)
(*                                                                         *)
(* decide is a coroutine of the event loop: an action is what it does from   *)
(* one await to the next.  An await on a future that is already done, or on  *)
(* a lease that is free, does not yield.                                     *)
(***************************************************************************)
EXTENDS Integers, Advances

CONSTANT Priority   \* WorkItem.priority when the item asks for the brain

ASSUME PriorityAssumption == Priority \in [Items -> Int]

VARIABLES at,          \* where the decide of each item awaits; "away" outside it
          outcome,     \* what the last decide of each item ended in
          busy,        \* BrainCoordinator._busy
          ahead,       \* who was waiting for the lease when an item joined them
          interactive, \* InteractiveBrainGate._interactive_active
          idle,        \* InteractiveBrainGate._idle is set
          bg,          \* the item whose task is _background_task
          preempted,   \* the item whose task is _interactive_preempted_task
          task,        \* the reasoning task of each item
          closed       \* WorkRuntime.close was called

gate      == <<interactive, idle, closed>>
reasoning == <<bg, preempted, task>>
brainVars == <<at, outcome, busy, ahead, gate, reasoning>>

BrainInit ==
    /\ at          = [w \in Items |-> "away"]
    /\ outcome     = [w \in Items |-> "none"]
    /\ busy        = FALSE
    /\ ahead       = [w \in Items |-> {}]
    /\ interactive = FALSE
    /\ idle        = TRUE
    /\ bg          = NoItem
    /\ preempted   = NoItem
    /\ task        = [w \in Items |-> "none"]
    /\ closed      = FALSE

Queued == {w \in Items : at[w] = "queued"}

\* The heap entry (-priority, sequence) of w is the least.
Foremost(w) ==
    \A v \in Queued \ {w} :
        \/ Priority[v] < Priority[w]
        \/ Priority[v] = Priority[w] /\ v \notin ahead[w]

\* Mutant of HandOver: the lease is marked free although a waiter was granted it.
HandOverAndFree(w) ==
    /\ busy' = FALSE
    /\ IF Queued = {}
       THEN at' = [at EXCEPT ![w] = "away"] /\ UNCHANGED ahead
       ELSE \E v \in Queued :
                /\ Foremost(v)
                /\ at'    = [at EXCEPT ![w] = "away", ![v] = "granted"]
                /\ ahead' = [u \in Items |-> ahead[u] \ {v}]

\* _release, as the last thing the decide of w does.
HandOver(w) ==
    IF Queued = {}
    THEN /\ busy' = FALSE
         /\ at'   = [at EXCEPT ![w] = "away"]
         /\ UNCHANGED ahead
    ELSE \E v \in Queued :
            /\ Foremost(v)
            /\ busy'  = TRUE
            /\ at'    = [at EXCEPT ![w] = "away", ![v] = "granted"]
            /\ ahead' = [u \in Items |-> ahead[u] \ {v}]

\* Mutant of DecideReturns: the lease is released only with a decision.
DecideReturnsUnreleased(w, result) ==
    /\ outcome' = [outcome EXCEPT ![w] = result]
    /\ IF result = "decided" THEN HandOver(w)
       ELSE at' = [at EXCEPT ![w] = "away"] /\ UNCHANGED <<busy, ahead>>

\* The finally of decide.
DecideReturns(w, result) ==
    /\ outcome' = [outcome EXCEPT ![w] = result]
    /\ HandOver(w)

-----------------------------------------------------------------------------
(* run_background, by the item that holds the lease *)

Await(w, where) ==
    /\ at'      = [at EXCEPT ![w] = where]
    /\ outcome' = [outcome EXCEPT ![w] = "none"]
    /\ busy'    = TRUE
    /\ UNCHANGED ahead

\* Mutant of PastGate: being woken is taken for the conversation being over.
PastGateUnchecked(w) ==
    /\ Await(w, "reasoning")
    /\ task' = [task EXCEPT ![w] = "running"]
    /\ bg'   = w
    /\ UNCHANGED preempted

\* After wait_until_idle: the flag may have been set again since.
PastGate(w) ==
    \/ /\ interactive
       /\ DecideReturns(w, "preempted")
       /\ UNCHANGED reasoning
    \/ /\ ~interactive
       /\ Await(w, "reasoning")
       /\ task' = [task EXCEPT ![w] = "running"]
       /\ bg'   = w
       /\ UNCHANGED preempted

EnterGate(w) ==
    \/ ~idle /\ Await(w, "gate") /\ UNCHANGED reasoning
    \/ idle /\ PastGate(w)

-----------------------------------------------------------------------------
(* The steps of decide *)

DecideNow(w) ==
    /\ at[w] = "away"
    /\ ~busy
    /\ EnterGate(w)
    /\ UNCHANGED gate

DecideLater(w) ==
    /\ at[w] = "away"
    /\ busy
    /\ at'      = [at EXCEPT ![w] = "queued"]
    /\ outcome' = [outcome EXCEPT ![w] = "none"]
    /\ ahead'   = [ahead EXCEPT ![w] = Queued]
    /\ UNCHANGED <<busy, gate, reasoning>>

Granted(w) ==
    /\ at[w] = "granted"
    /\ EnterGate(w)
    /\ UNCHANGED gate

Woken(w) ==
    /\ at[w] = "woken"
    /\ PastGate(w)
    /\ UNCHANGED gate

\* The reasoner answers or fails; a cancelled one ends as cancelled, for it lets
\* CancelledError through after cleaning up.
TaskEnds(w) ==
    /\ \/ task[w] = "running" /\ \E r \in {"decided", "failed"} :
              task' = [task EXCEPT ![w] = r]
       \/ task[w] = "cancelling" /\ task' = [task EXCEPT ![w] = "cancelled"]
    /\ UNCHANGED <<at, outcome, busy, ahead, gate, bg, preempted>>

TaskDone(w) == task[w] \in {"decided", "failed", "cancelled"}

\* Mutant of Result: the cause of the cancellation is read off the present flag.
ResultByFlag(w) ==
    IF task[w] = "cancelled"
    THEN IF interactive THEN "preempted" ELSE "cancelled"
    ELSE task[w]

\* What decide returns or raises: a decision, an error of the reasoner or an
\* action it was not allowed, BrainPreempted, or a bare CancelledError.
Result(w) ==
    IF task[w] = "cancelled"
    THEN IF preempted = w THEN "preempted" ELSE "cancelled"
    ELSE task[w]

\* The coroutine that awaits the task resumes, some time after the task ended.
Concluded(w) ==
    /\ at[w] = "reasoning"
    /\ TaskDone(w)
    /\ DecideReturns(w, Result(w))
    /\ task'      = [task EXCEPT ![w] = "none"]
    /\ bg'        = IF bg = w THEN NoItem ELSE bg
    /\ preempted' = IF preempted = w THEN NoItem ELSE preempted
    /\ UNCHANGED gate

-----------------------------------------------------------------------------
(* The voice session and shutdown *)

\* task.cancel(), at most once, and why.
CancelReasoning ==
    IF bg # NoItem /\ task[bg] = "running"
    THEN /\ task'      = [task EXCEPT ![bg] = "cancelling"]
         /\ preempted' = bg
         /\ UNCHANGED bg
    ELSE UNCHANGED reasoning

\* Event.set resolves the futures of those who wait; clearing it afterwards does
\* not take that back.
WakeAll == at' = [w \in Items |-> IF at[w] = "gate" THEN "woken" ELSE at[w]]

SpeechStarts ==
    /\ ~closed
    /\ ~interactive
    /\ interactive' = TRUE
    /\ idle'        = FALSE
    /\ CancelReasoning
    /\ UNCHANGED <<at, outcome, busy, ahead, closed>>

SpeechEnds ==
    /\ ~closed
    /\ interactive
    /\ interactive' = FALSE
    /\ idle'        = TRUE
    /\ WakeAll
    /\ UNCHANGED <<outcome, busy, ahead, closed, reasoning>>

\* Mutant of Close: reasoning is preempted as for a conversation, so that those
\* at the gate wait for its end.
CloseLikeSpeech ==
    /\ ~closed
    /\ closed'      = TRUE
    /\ interactive' = TRUE
    /\ idle'        = FALSE
    /\ CancelReasoning
    /\ UNCHANGED <<at, outcome, busy, ahead>>

\* The voice session ends, then WorkRuntime.close: one segment of the loop, after
\* which no voice event reaches the gate.
Close ==
    /\ ~closed
    /\ closed'      = TRUE
    /\ interactive' = TRUE
    /\ idle'        = TRUE
    /\ WakeAll
    /\ CancelReasoning
    /\ UNCHANGED <<outcome, busy, ahead>>
=============================================================================
