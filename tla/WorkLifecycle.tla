---------------------------- MODULE WorkLifecycle ----------------------------
(***************************************************************************)
(* What the canonical store promises of every work item, whoever writes it:  *)
(* an item is created once, queued; after that each write is one version     *)
(* newer than the one before and either leaves the state alone, which only   *)
(* an item that is not terminal allows, or moves it along the lifecycle      *)
(* table.  Nothing is lost, nothing is resurrected.                          *)
(***************************************************************************)
EXTENDS WorkModels

CONSTANT Works

VARIABLES state, version

lifecycleVars == <<state, version>>

LifecycleInit ==
    /\ state   = [w \in Works |-> "absent"]
    /\ version = [w \in Works |-> 0]

Become(w, s) ==
    /\ state'   = [state EXCEPT ![w] = s]
    /\ version' = [version EXCEPT ![w] = @ + 1]

Create(w) == state[w] = "absent" /\ Become(w, "queued")

\* progress, priority: the state stays.
Refresh(w) == state[w] \in WorkStates \ Terminal /\ Become(w, state[w])

Proceed(w) ==
    /\ state[w] \in WorkStates
    /\ \E s \in Allowed[state[w]] : Become(w, s)

LifecycleNext == \E w \in Works : Create(w) \/ Refresh(w) \/ Proceed(w)

Lifecycle == LifecycleInit /\ [][LifecycleNext]_lifecycleVars
=============================================================================
