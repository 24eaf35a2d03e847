---------------------------- MODULE ResourceLease ----------------------------
(***************************************************************************)
(* Leases on several resources at once (ResourceLeaseManager,               *)
(* src/jarvis/work/resources.py): one asyncio semaphore per resource, taken  *)
(* one after the other in the order of their names.                         *)
(***************************************************************************)
EXTENDS Integers, Sequences, FiniteSets, Advances

CONSTANTS Capacity,   \* the registered resources and their capacities
          Rank,       \* the alphabetical position of each resource name
          Base,       \* base_resource_keys
          Declared    \* what executors declare as their resource_keys

Resources == DOMAIN Capacity

ASSUME CapacityAssumption ==
    /\ IsFiniteSet(Resources)
    /\ \A r \in Resources : Capacity[r] \in Nat \ {0}
ASSUME RankAssumption ==
    /\ Resources \subseteq DOMAIN Rank
    /\ \A r, q \in DOMAIN Rank : Rank[r] \in Nat /\ (Rank[r] = Rank[q] => r = q)

VARIABLES sem,     \* asyncio.Semaphore of each resource
          wants,   \* the keys an item has yet to acquire
          has,     \* the keys it has acquired
          phase    \* "none", "waiting" for a key, or "held": its action runs

resourceVars == <<sem, wants, has, phase>>

Unused(r) == [value |-> Capacity[r], asleep |-> <<>>, woken |-> {}]

ResourceInit ==
    /\ sem   = [r \in Resources |-> Unused(r)]
    /\ wants = [w \in Items |-> {}]
    /\ has   = [w \in Items |-> {}]
    /\ phase = [w \in Items |-> "none"]

-----------------------------------------------------------------------------
(* asyncio.Semaphore. A future leaves the deque of waiters when its coroutine  *)
(* resumes, and they are resolved in order: the deque is the woken ones, of     *)
(* which any may resume first, and behind them those that are asleep.          *)

Locked(s) == s.value = 0 \/ s.woken # {} \/ s.asleep # <<>>

WakeNext(s) ==
    IF s.asleep = <<>> THEN s
    ELSE [value  |-> s.value - 1,
          asleep |-> Tail(s.asleep),
          woken  |-> s.woken \cup {Head(s.asleep)}]

Take(s)        == [s EXCEPT !.value = @ - 1]
JoinLine(s, w) == [s EXCEPT !.asleep = Append(@, w)]
PutBack(s)     == WakeNext([s EXCEPT !.value = @ + 1])

LeaveLine(s, w) ==
    LET left == [s EXCEPT !.woken = @ \ {w}]
    IN  IF left.value > 0 THEN WakeNext(left) ELSE left

-----------------------------------------------------------------------------

\* Mutant of First: a set is iterated in an order of its own.
FirstOfMany(keys) ==
    CHOOSE r \in keys : \A q \in keys :
        IF Cardinality(keys) > 2 THEN Rank[q] <= Rank[r] ELSE Rank[r] <= Rank[q]

\* normalize: keys are a set, and are acquired in the order of their names.
First(keys) == CHOOSE r \in keys : \A q \in keys : Rank[r] <= Rank[q]

Before(keys, r) == {q \in keys : Rank[q] < Rank[r]}

Registered(declared) == Base \cup declared \subseteq Resources

TakeAll(sems, keys) ==
    [r \in Resources |-> IF r \in keys THEN Take(sems[r]) ELSE sems[r]]

Become(w, held, keys, to) ==
    /\ has'   = [has EXCEPT ![w] = held]
    /\ wants' = [wants EXCEPT ![w] = keys]
    /\ phase' = [phase EXCEPT ![w] = to]

\* Mutant of GiveUp: keys are released only when they were all acquired.
GiveUpOnlyAll(w, sems, held) ==
    /\ sem' = IF phase[w] # "held" THEN sems
              ELSE [r \in Resources |-> IF r \in held THEN PutBack(sems[r]) ELSE sems[r]]
    /\ Become(w, {}, {}, "none")

\* Mutant of GiveUp: the refusal and the finally both release.
GiveUpTwice(w, sems, held) ==
    /\ sem' = [r \in Resources |-> IF r \in held THEN PutBack(PutBack(sems[r])) ELSE sems[r]]
    /\ Become(w, {}, {}, "none")

\* The finally of lease: every key acquired so far is released.
GiveUp(w, sems, held) ==
    /\ sem' = [r \in Resources |-> IF r \in held THEN PutBack(sems[r]) ELSE sems[r]]
    /\ Become(w, {}, {}, "none")

\* w, which holds held, acquires keys in order until one is locked.  Once it has
\* them all, its action runs, unless memory has become scarce meanwhile.
Acquire(w, sems, held, keys) ==
    LET locked == {r \in keys : Locked(sems[r])}
        next   == First(locked)
        taken  == Before(keys, next)
    IN  \/ /\ locked = {}
           /\ sem' = TakeAll(sems, keys)
           /\ Become(w, held \cup keys, {}, "held")
        \/ /\ locked = {}
           /\ GiveUp(w, TakeAll(sems, keys), held \cup keys)
        \/ /\ locked # {}
           /\ sem' = [TakeAll(sems, taken) EXCEPT ![next] = JoinLine(@, w)]
           /\ Become(w, held \cup taken, keys \ taken, "waiting")

\* lease(keys), entered with memory to spare.
Lease(w, declared) ==
    /\ phase[w] = "none"
    /\ Acquire(w, sem, {}, Base \cup declared)

\* The semaphore w waits for has woken it: w goes on to its next key.
Resume(w) ==
    LET r == First(wants[w])
    IN  /\ phase[w] = "waiting"
        /\ w \in sem[r].woken
        /\ Acquire(w, [sem EXCEPT ![r] = LeaveLine(@, w)], has[w] \cup {r}, wants[w] \ {r})

\* The action ends, in success or error.
Release(w) ==
    /\ phase[w] = "held"
    /\ GiveUp(w, sem, has[w])
=============================================================================
