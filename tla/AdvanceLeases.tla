---------------------------- MODULE AdvanceLeases ----------------------------
(***************************************************************************)
(* What the advance coroutines of all items contend for: each asks the brain *)
(* for its next action, then leases the resources of that action, and meets   *)
(* the live conversation and shutdown on the way (engine.py, advance).        *)
(***************************************************************************)
EXTENDS BrainLease, ResourceLease

vars == <<brainVars, resourceVars>>

Init == BrainInit /\ ResourceInit

-----------------------------------------------------------------------------

\* advance reaches the brain: the item is in no lease.
Ask(w) ==
    /\ phase[w] = "none"
    /\ outcome[w] # "decided"
    /\ DecideNow(w) \/ DecideLater(w)
    /\ UNCHANGED resourceVars

OfBrain(w) ==
    /\ Granted(w) \/ Woken(w) \/ TaskEnds(w) \/ Concluded(w)
    /\ UNCHANGED resourceVars

\* advance goes on from the decision it got.
Proceeds(w, result) ==
    /\ at[w] = "away"
    /\ outcome[w] = "decided"
    /\ outcome' = [outcome EXCEPT ![w] = result]
    /\ UNCHANGED <<at, busy, ahead, gate, reasoning>>

\* The decision was none to execute, or memory is scarce: no lease is asked for.
NoAction(w) == Proceeds(w, "none") /\ UNCHANGED resourceVars

\* normalize raises for a key that is not registered, and so does advance.
Unknown(w) ==
    /\ \E declared \in Declared : ~Registered(declared)
    /\ Proceeds(w, "unknown")
    /\ UNCHANGED resourceVars

LeaseFor(w) ==
    /\ Proceeds(w, "none")
    /\ \E declared \in Declared : Registered(declared) /\ Lease(w, declared)

OfResources(w) ==
    /\ Resume(w) \/ Release(w)
    /\ UNCHANGED brainVars

Voice == (SpeechStarts \/ SpeechEnds \/ Close) /\ UNCHANGED resourceVars

Next ==
    \/ \E w \in Items : \/ Ask(w) \/ OfBrain(w)
                        \/ NoAction(w) \/ Unknown(w) \/ LeaseFor(w)
                        \/ OfResources(w)
    \/ Voice

Spec == Init /\ [][Next]_vars

\* Coroutines that are ready are resumed, providers and executors answer, and
\* the owner falls silent.
Fairness ==
    /\ \A w \in Items : WF_vars(OfBrain(w)) /\ WF_vars(OfResources(w))
    /\ WF_vars(SpeechEnds /\ UNCHANGED resourceVars)

FairSpec == Spec /\ Fairness

-----------------------------------------------------------------------------
(* Properties of the brain lease *)

Holder(w)    == at[w] \in {"granted", "gate", "woken", "reasoning"}
Reasoning(w) == task[w] \in {"running", "cancelling"}

BrainTypeOK ==
    /\ at \in [Items -> {"away", "queued", "granted", "gate", "woken", "reasoning"}]
    /\ outcome \in [Items -> {"none", "decided", "failed", "preempted", "cancelled",
                              "unknown"}]
    /\ task \in [Items -> {"none", "running", "cancelling", "decided", "failed",
                           "cancelled"}]
    /\ ahead \in [Items -> SUBSET Items]
    /\ {bg, preempted} \subseteq Items \cup {NoItem}
    /\ {busy, interactive, idle, closed} \subseteq BOOLEAN

ResourceTypeOK ==
    /\ phase \in [Items -> {"none", "waiting", "held"}]
    /\ has \in [Items -> SUBSET Resources]
    /\ wants \in [Items -> SUBSET Resources]
    /\ \A r \in Resources : sem[r].value \in 0..Capacity[r]

\* Every variable keeps its type; a semaphore's value stays within its capacity.
TypeOK == BrainTypeOK /\ ResourceTypeOK

\* One background reasoning at a time, counting one that was cancelled and has
\* not stopped yet (BrainCoordinator: "one priority-aware JARVIS brain lease").
OneReasoner == \A v, w \in Items : Reasoning(v) /\ Reasoning(w) => v = w

\* The lease is neither lost nor given twice: it is marked busy exactly while
\* one item holds it or was granted it (_acquire, _release).
LeaseIsHeldOnce ==
    /\ busy <=> \E w \in Items : Holder(w)
    /\ \A v, w \in Items : Holder(v) /\ Holder(w) => v = w
    /\ Queued # {} => busy

\* While the owner is in conversation no background reasoning goes on: what is
\* left of one has been cancelled ("live owner conversation as absolute
\* priority for shared model reasoning").
ConversationComesFirst == interactive => \A w \in Items : task[w] # "running"

\* Reasoning that was cancelled for the owner ends as preempted, which advance
\* treats as waiting, however the conversation flickers before it is observed.
PreemptionIsNoFailure == \A w \in Items : outcome[w] # "cancelled"

\* An item no other outranks always comes back from the brain, also when JARVIS
\* is shut down during a conversation (shutdown "must not strand a DBOS advance
\* inside wait_until_idle").  Others may be overtaken for ever.
UrgentReasoningReturns ==
    \A w \in Items : (\A v \in Items : Priority[v] <= Priority[w]) =>
        (at[w] # "away" ~> at[w] = "away")

-----------------------------------------------------------------------------
(* Properties of the resource leases *)

\* Every unit of a resource is free, held by one item, or promised to a waiter
\* that was woken: none is lost when a lease is refused half way, and no more
\* actions run at once than the resource allows.
UnitsAreConserved ==
    \A r \in Resources :
        sem[r].value + Cardinality({w \in Items : r \in has[w]})
                     + Cardinality(sem[r].woken) = Capacity[r]

\* Items that need several resources never wait for each other in a circle:
\* every lease is granted or refused.
EveryLeaseIsServed == \A w \in Items : phase[w] = "waiting" ~> phase[w] # "waiting"
=============================================================================
