----------------------------- MODULE LeaseProofs -----------------------------
(***************************************************************************)
(* Proofs about the leases, for any number of items, priorities, resources   *)
(* and capacities.                                                           *)
(*                                                                         *)
(* BrainInv is the inductive invariant of the brain lease, LeaseInv that of    *)
(* the resource leases; neither speaks of the other's variables. LeaseInv says  *)
(* of each semaphore whom it has in line, once each, and where its units are,   *)
(* and of each item that its keys come before those it wants.                 *)
(***************************************************************************)
EXTENDS AdvanceLeases, FiniteSetTheorems, TLAPS

\* A task is that of the item that holds the lease, and is the one the gate
\* would cancel.
TasksAreHeld == \A w \in Items : task[w] # "none" => at[w] = "reasoning" /\ bg = w

\* Whoever cancelled a task has said so.
CausesAreKept ==
    \A w \in Items : task[w] \in {"cancelling", "cancelled"} => preempted = w

BrainInv ==
    /\ BrainTypeOK
    /\ LeaseIsHeldOnce
    /\ ConversationComesFirst
    /\ PreemptionIsNoFailure
    /\ TasksAreHeld
    /\ CausesAreKept

-----------------------------------------------------------------------------
(* The lease *)

\* The holder, or an item that found the lease free, gives it up.
LEMMA HandedOver ==
    ASSUME BrainTypeOK, LeaseIsHeldOnce, NEW w \in Items,
           Holder(w) \/ ~busy, HandOver(w)
    PROVE  /\ at' \in [Items -> {"away", "queued", "granted", "gate", "woken", "reasoning"}]
           /\ ahead' \in [Items -> SUBSET Items]
           /\ busy' \in BOOLEAN
           /\ LeaseIsHeldOnce'
           /\ \A v \in Items : v # w => (at'[v] = "reasoning" <=> at[v] = "reasoning")
<1>1. CASE Queued = {}
  <2>1. busy' = FALSE /\ at' = [at EXCEPT ![w] = "away"] /\ ahead' = ahead
    BY <1>1 DEF HandOver
  <2>2. \A v \in Items : ~Holder(v)'
    BY <2>1 DEF Holder, LeaseIsHeldOnce, BrainTypeOK
  <2>3. Queued' = {}
    BY <1>1, <2>1 DEF Queued, BrainTypeOK
  <2> QED BY <2>1, <2>2, <2>3 DEF LeaseIsHeldOnce, BrainTypeOK
<1>2. CASE Queued # {}
  <2>1. PICK v \in Queued :
            /\ busy' = TRUE
            /\ at'    = [at EXCEPT ![w] = "away", ![v] = "granted"]
            /\ ahead' = [u \in Items |-> ahead[u] \ {v}]
    BY <1>2 DEF HandOver
  <2>2. v \in Items /\ at[v] = "queued" /\ v # w
    BY <1>2 DEF Queued, LeaseIsHeldOnce, Holder
  <2>3. \A u \in Items : Holder(u)' <=> u = v
    BY <2>1, <2>2, <1>2 DEF Holder, LeaseIsHeldOnce, BrainTypeOK
  <2> QED BY <2>1, <2>2, <2>3 DEF LeaseIsHeldOnce, BrainTypeOK
<1> QED BY <1>1, <1>2

\* The holder, or an item that found the lease free, awaits something else.
LEMMA Awaited ==
    ASSUME BrainTypeOK, LeaseIsHeldOnce, NEW w \in Items,
           Holder(w) \/ ~busy,
           NEW where \in {"gate", "reasoning"}, Await(w, where)
    PROVE  /\ at' = [at EXCEPT ![w] = where]
           /\ BrainTypeOK' <=> /\ {bg, preempted}' \subseteq Items \cup {NoItem}
                               /\ {interactive, idle, closed}' \subseteq BOOLEAN
                               /\ task' \in [Items -> {"none", "running", "cancelling",
                                              "decided", "failed", "cancelled"}]
           /\ LeaseIsHeldOnce'
           /\ PreemptionIsNoFailure => PreemptionIsNoFailure'
<1>1. /\ at'      = [at EXCEPT ![w] = where]
      /\ outcome' = [outcome EXCEPT ![w] = "none"]
      /\ busy'    = TRUE
      /\ ahead'   = ahead
  BY DEF Await
<1>2. \A u \in Items : Holder(u)' <=> u = w
  BY <1>1 DEF Holder, LeaseIsHeldOnce, BrainTypeOK
<1>3. LeaseIsHeldOnce'
  BY <1>1, <1>2 DEF LeaseIsHeldOnce
<1>4. PreemptionIsNoFailure => PreemptionIsNoFailure'
  BY <1>1 DEF PreemptionIsNoFailure, BrainTypeOK
<1> QED BY <1>1, <1>3, <1>4 DEF BrainTypeOK

-----------------------------------------------------------------------------
(* The steps of decide *)

\* The decide of w returns without having reasoned.
LEMMA ReturnsPreempted ==
    ASSUME BrainInv, NEW w \in Items, task[w] = "none",
           Holder(w) \/ ~busy,
           DecideReturns(w, "preempted"), UNCHANGED <<gate, reasoning>>
    PROVE  BrainInv'
<1>1. /\ outcome' = [outcome EXCEPT ![w] = "preempted"]
      /\ HandOver(w)
  BY DEF DecideReturns
<1>2. /\ at' \in [Items -> {"away", "queued", "granted", "gate", "woken", "reasoning"}]
      /\ ahead' \in [Items -> SUBSET Items]
      /\ busy' \in BOOLEAN
      /\ LeaseIsHeldOnce'
      /\ \A v \in Items : v # w => (at'[v] = "reasoning" <=> at[v] = "reasoning")
  BY <1>1, HandedOver DEF BrainInv
<1>3. BrainTypeOK'
  BY <1>1, <1>2 DEF BrainInv, BrainTypeOK, gate, reasoning
<1>4. PreemptionIsNoFailure'
  BY <1>1 DEF BrainInv, BrainTypeOK, PreemptionIsNoFailure
<1>5. ConversationComesFirst' /\ CausesAreKept'
  BY DEF BrainInv, ConversationComesFirst, CausesAreKept, gate, reasoning
<1>6. TasksAreHeld'
  BY <1>2 DEF BrainInv, TasksAreHeld, reasoning
<1> QED BY <1>2, <1>3, <1>4, <1>5, <1>6 DEF BrainInv

\* Only a coroutine that awaits its task has one.
LEMMA OthersHaveNoTask ==
    ASSUME BrainInv, NEW w \in Items, Holder(w) \/ ~busy, at[w] # "reasoning"
    PROVE  \A v \in Items : task[v] = "none"
BY DEF BrainInv, TasksAreHeld, LeaseIsHeldOnce, Holder

LEMMA PassesGate ==
    ASSUME BrainInv, NEW w \in Items, Holder(w) \/ ~busy, at[w] # "reasoning",
           PastGate(w), UNCHANGED gate
    PROVE  BrainInv'
<1>1. \A v \in Items : task[v] = "none"
  BY OthersHaveNoTask
<1>2. CASE interactive /\ DecideReturns(w, "preempted") /\ UNCHANGED reasoning
  BY <1>1, <1>2, ReturnsPreempted
<1>3. CASE /\ ~interactive
           /\ Await(w, "reasoning")
           /\ task' = [task EXCEPT ![w] = "running"]
           /\ bg'   = w
           /\ UNCHANGED preempted
  <2>1. /\ at' = [at EXCEPT ![w] = "reasoning"]
        /\ LeaseIsHeldOnce'
        /\ PreemptionIsNoFailure'
        /\ BrainTypeOK'
    BY <1>3, Awaited DEF BrainInv, BrainTypeOK, gate
  <2>2. ConversationComesFirst'
    BY <1>3 DEF ConversationComesFirst, gate
  <2>3. TasksAreHeld' /\ CausesAreKept'
    BY <1>1, <1>3, <2>1 DEF BrainInv, BrainTypeOK, TasksAreHeld, CausesAreKept
  <2> QED BY <2>1, <2>2, <2>3 DEF BrainInv
<1> QED BY <1>2, <1>3 DEF PastGate

LEMMA EntersGate ==
    ASSUME BrainInv, NEW w \in Items, Holder(w) \/ ~busy, at[w] # "reasoning",
           EnterGate(w), UNCHANGED gate
    PROVE  BrainInv'
<1>1. CASE idle /\ PastGate(w)
  BY <1>1, PassesGate
<1>2. CASE ~idle /\ Await(w, "gate") /\ UNCHANGED reasoning
  <2>1. /\ at' = [at EXCEPT ![w] = "gate"]
        /\ LeaseIsHeldOnce'
        /\ PreemptionIsNoFailure'
        /\ BrainTypeOK'
    BY <1>2, Awaited DEF BrainInv, BrainTypeOK, gate, reasoning
  <2>2. ConversationComesFirst' /\ CausesAreKept'
    BY <1>2 DEF BrainInv, ConversationComesFirst, CausesAreKept, gate, reasoning
  <2>3. TasksAreHeld'
    BY <1>2, <2>1 DEF BrainInv, BrainTypeOK, TasksAreHeld, reasoning
  <2> QED BY <2>1, <2>2, <2>3 DEF BrainInv
<1> QED BY <1>1, <1>2 DEF EnterGate

LEMMA Queues ==
    ASSUME BrainInv, NEW w \in Items, DecideLater(w)
    PROVE  BrainInv'
<1>1. /\ at[w] = "away" /\ busy
      /\ at'      = [at EXCEPT ![w] = "queued"]
      /\ outcome' = [outcome EXCEPT ![w] = "none"]
      /\ ahead'   = [ahead EXCEPT ![w] = Queued]
      /\ UNCHANGED <<busy, gate, reasoning>>
  BY DEF DecideLater
<1>2. BrainTypeOK'
  BY <1>1 DEF BrainInv, BrainTypeOK, Queued, gate, reasoning
<1>3. \A v \in Items : Holder(v)' <=> Holder(v)
  BY <1>1 DEF Holder, BrainInv, BrainTypeOK
<1>4. LeaseIsHeldOnce'
  BY <1>1, <1>3 DEF BrainInv, LeaseIsHeldOnce
<1>5. PreemptionIsNoFailure'
  BY <1>1 DEF BrainInv, BrainTypeOK, PreemptionIsNoFailure
<1>6. ConversationComesFirst' /\ CausesAreKept'
  BY <1>1 DEF BrainInv, ConversationComesFirst, CausesAreKept, gate, reasoning
<1>7. TasksAreHeld'
  BY <1>1 DEF BrainInv, BrainTypeOK, TasksAreHeld, reasoning
<1> QED BY <1>2, <1>4, <1>5, <1>6, <1>7 DEF BrainInv

LEMMA Ends ==
    ASSUME BrainInv, NEW w \in Items, TaskEnds(w)
    PROVE  BrainInv'
<1>1. /\ UNCHANGED <<at, outcome, busy, ahead, gate, bg, preempted>>
      /\ \/ task[w] = "running" /\ \E r \in {"decided", "failed"} :
                task' = [task EXCEPT ![w] = r]
         \/ task[w] = "cancelling" /\ task' = [task EXCEPT ![w] = "cancelled"]
  BY DEF TaskEnds
<1>2. BrainTypeOK'
  BY <1>1 DEF BrainInv, BrainTypeOK, gate
<1>3. LeaseIsHeldOnce' /\ PreemptionIsNoFailure'
  BY <1>1 DEF BrainInv, LeaseIsHeldOnce, PreemptionIsNoFailure, Holder, Queued
<1>4. ConversationComesFirst' /\ CausesAreKept' /\ TasksAreHeld'
  BY <1>1 DEF BrainInv, BrainTypeOK, ConversationComesFirst, CausesAreKept,
              TasksAreHeld, gate
<1> QED BY <1>2, <1>3, <1>4 DEF BrainInv

LEMMA Concludes ==
    ASSUME BrainInv, NEW w \in Items, Concluded(w)
    PROVE  BrainInv'
<1>1. /\ at[w] = "reasoning" /\ TaskDone(w)
      /\ outcome' = [outcome EXCEPT ![w] = Result(w)]
      /\ HandOver(w)
      /\ task'      = [task EXCEPT ![w] = "none"]
      /\ bg'        = IF bg = w THEN NoItem ELSE bg
      /\ preempted' = IF preempted = w THEN NoItem ELSE preempted
      /\ UNCHANGED gate
  BY DEF Concluded, DecideReturns
<1>2. /\ at' \in [Items -> {"away", "queued", "granted", "gate", "woken", "reasoning"}]
      /\ ahead' \in [Items -> SUBSET Items]
      /\ busy' \in BOOLEAN
      /\ LeaseIsHeldOnce'
  BY <1>1, HandedOver DEF BrainInv, Holder
<1>3. \A v \in Items : v # w => task[v] = "none"
  BY <1>1 DEF BrainInv, TasksAreHeld, LeaseIsHeldOnce, Holder
<1>4. Result(w) \in {"decided", "failed", "preempted"}
  BY <1>1 DEF BrainInv, CausesAreKept, Result, TaskDone
<1>5. BrainTypeOK' /\ PreemptionIsNoFailure'
  BY <1>1, <1>2, <1>4 DEF BrainInv, BrainTypeOK, PreemptionIsNoFailure, gate
<1>6. \A v \in Items : task'[v] = "none"
  BY <1>1, <1>3 DEF BrainInv, BrainTypeOK
<1>7. ConversationComesFirst' /\ TasksAreHeld' /\ CausesAreKept'
  BY <1>6 DEF ConversationComesFirst, TasksAreHeld, CausesAreKept
<1> QED BY <1>2, <1>5, <1>7 DEF BrainInv

-----------------------------------------------------------------------------
(* The voice session and shutdown *)

\* Cancelling the background task, with interactive becoming anything.
LEMMA Cancels ==
    ASSUME BrainInv, CancelReasoning,
           at' = at \/ WakeAll, UNCHANGED <<outcome, busy, ahead>>,
           {interactive, idle, closed}' \subseteq BOOLEAN
    PROVE  BrainInv'
<1>1. \A v \in Items : Holder(v)' <=> Holder(v)
  BY DEF Holder, WakeAll, BrainInv, BrainTypeOK
<1>2. /\ at' \in [Items -> {"away", "queued", "granted", "gate", "woken", "reasoning"}]
      /\ \A v \in Items : at'[v] = "reasoning" <=> at[v] = "reasoning"
      /\ Queued' = Queued
  BY DEF WakeAll, BrainInv, BrainTypeOK, Queued
<1>3. LeaseIsHeldOnce'
  BY <1>1, <1>2 DEF BrainInv, LeaseIsHeldOnce
<1>4. PreemptionIsNoFailure'
  BY DEF BrainInv, PreemptionIsNoFailure
<1>5. CASE bg # NoItem /\ task[bg] = "running"
  <2>1. /\ bg \in Items
        /\ task'      = [task EXCEPT ![bg] = "cancelling"]
        /\ preempted' = bg
        /\ bg' = bg
    BY <1>5 DEF CancelReasoning, BrainInv, BrainTypeOK
  <2>2. \A v \in Items : v # bg => task'[v] = "none"
    BY <2>1 DEF BrainInv, BrainTypeOK, TasksAreHeld
  <2>3. BrainTypeOK'
    BY <1>2, <2>1 DEF BrainInv, BrainTypeOK
  <2>4. ConversationComesFirst' /\ TasksAreHeld' /\ CausesAreKept'
    BY <1>2, <1>5, <2>1, <2>2 DEF BrainInv, BrainTypeOK, ConversationComesFirst,
                                  TasksAreHeld, CausesAreKept
  <2> QED BY <1>3, <1>4, <2>3, <2>4 DEF BrainInv
<1>6. CASE ~(bg # NoItem /\ task[bg] = "running")
  <2>1. UNCHANGED <<bg, preempted, task>>
    BY <1>6 DEF CancelReasoning, reasoning
  <2>2. \A v \in Items : task[v] # "running"
    BY <1>6, ItemsAssumption DEF BrainInv, TasksAreHeld
  <2>3. BrainTypeOK'
    BY <1>2, <2>1 DEF BrainInv, BrainTypeOK
  <2>4. ConversationComesFirst' /\ TasksAreHeld' /\ CausesAreKept'
    BY <1>2, <2>1, <2>2 DEF BrainInv, ConversationComesFirst, TasksAreHeld, CausesAreKept
  <2> QED BY <1>3, <1>4, <2>3, <2>4 DEF BrainInv
<1> QED BY <1>5, <1>6

LEMMA FallsSilent ==
    ASSUME BrainInv, SpeechEnds
    PROVE  BrainInv'
<1>1. /\ interactive' = FALSE /\ idle' = TRUE /\ WakeAll
      /\ UNCHANGED <<outcome, busy, ahead, closed, bg, preempted, task>>
  BY DEF SpeechEnds, reasoning
<1>2. /\ at' \in [Items -> {"away", "queued", "granted", "gate", "woken", "reasoning"}]
      /\ \A v \in Items : at'[v] = "reasoning" <=> at[v] = "reasoning"
      /\ \A v \in Items : Holder(v)' <=> Holder(v)
      /\ Queued' = Queued
  BY <1>1 DEF WakeAll, BrainInv, BrainTypeOK, Queued, Holder
<1>3. BrainTypeOK'
  BY <1>1, <1>2 DEF BrainInv, BrainTypeOK
<1>4. LeaseIsHeldOnce' /\ PreemptionIsNoFailure'
  BY <1>1, <1>2 DEF BrainInv, LeaseIsHeldOnce, PreemptionIsNoFailure
<1>5. ConversationComesFirst' /\ TasksAreHeld' /\ CausesAreKept'
  BY <1>1, <1>2 DEF BrainInv, ConversationComesFirst, TasksAreHeld, CausesAreKept
<1> QED BY <1>3, <1>4, <1>5 DEF BrainInv

LEMMA VoiceKeepsBrainInv ==
    ASSUME BrainInv, Voice
    PROVE  BrainInv'
<1>1. CASE SpeechStarts
  BY <1>1, Cancels DEF SpeechStarts, BrainInv, BrainTypeOK
<1>2. CASE SpeechEnds
  BY <1>2, FallsSilent
<1>3. CASE Close
  BY <1>3, Cancels DEF Close
<1> QED BY <1>1, <1>2, <1>3 DEF Voice

-----------------------------------------------------------------------------
(* The leases together *)

\* What happens to the outcome of a decision is not the brain's concern.
LEMMA ProceedsKeepsBrainInv ==
    ASSUME BrainInv, NEW w \in Items, NEW result \in {"none", "unknown"},
           Proceeds(w, result)
    PROVE  BrainInv'
<1>1. /\ outcome' = [outcome EXCEPT ![w] = result]
      /\ UNCHANGED <<at, busy, ahead, gate, reasoning>>
  BY DEF Proceeds
<1>2. BrainTypeOK' /\ PreemptionIsNoFailure'
  BY <1>1 DEF BrainInv, BrainTypeOK, PreemptionIsNoFailure, gate, reasoning
<1>3. /\ LeaseIsHeldOnce' /\ ConversationComesFirst'
      /\ TasksAreHeld' /\ CausesAreKept'
  BY <1>1 DEF BrainInv, LeaseIsHeldOnce, ConversationComesFirst, TasksAreHeld,
              CausesAreKept, Holder, Queued, gate, reasoning
<1> QED BY <1>2, <1>3 DEF BrainInv

LEMMA AskKeepsBrainInv ==
    ASSUME BrainInv, NEW w \in Items, Ask(w)
    PROVE  BrainInv'
<1>1. CASE DecideNow(w)
  BY <1>1, EntersGate DEF DecideNow
<1>2. CASE DecideLater(w)
  BY <1>2, Queues
<1> QED BY <1>1, <1>2 DEF Ask

LEMMA OfBrainKeepsBrainInv ==
    ASSUME BrainInv, NEW w \in Items, OfBrain(w)
    PROVE  BrainInv'
<1>1. CASE Granted(w)
  BY <1>1, EntersGate DEF Granted, Holder
<1>2. CASE Woken(w)
  BY <1>2, PassesGate DEF Woken, Holder
<1>3. CASE TaskEnds(w)
  BY <1>3, Ends
<1>4. CASE Concluded(w)
  BY <1>4, Concludes
<1> QED BY <1>1, <1>2, <1>3, <1>4 DEF OfBrain

LEMMA StillKeepsBrainInv ==
    ASSUME BrainInv, UNCHANGED brainVars
    PROVE  BrainInv'
BY DEF brainVars, gate, reasoning, BrainInv, BrainTypeOK, LeaseIsHeldOnce,
       ConversationComesFirst, PreemptionIsNoFailure, TasksAreHeld, CausesAreKept,
       Holder, Queued

LEMMA NextKeepsBrainInv ==
    ASSUME BrainInv, [Next]_vars
    PROVE  BrainInv'
<1>1. CASE UNCHANGED vars
  BY <1>1, StillKeepsBrainInv DEF vars
<1>2. CASE Voice
  BY <1>2, VoiceKeepsBrainInv
<1>3. ASSUME NEW w \in Items, Ask(w) PROVE BrainInv'
  BY <1>3, AskKeepsBrainInv
<1>4. ASSUME NEW w \in Items, OfBrain(w) PROVE BrainInv'
  BY <1>4, OfBrainKeepsBrainInv
<1>5. ASSUME NEW w \in Items, NoAction(w) \/ Unknown(w) \/ LeaseFor(w) PROVE BrainInv'
  BY <1>5, ProceedsKeepsBrainInv DEF NoAction, Unknown, LeaseFor
<1>6. ASSUME NEW w \in Items, OfResources(w) PROVE BrainInv'
  BY <1>6, StillKeepsBrainInv DEF OfResources
<1> QED BY <1>1, <1>2, <1>3, <1>4, <1>5, <1>6 DEF Next

LEMMA BrainInvIsInvariant == Spec => []BrainInv
<1>1. Init => BrainInv
  BY DEF Init, BrainInit, BrainInv, BrainTypeOK, LeaseIsHeldOnce, ConversationComesFirst,
         PreemptionIsNoFailure, TasksAreHeld, CausesAreKept, Holder, Queued
<1>2. BrainInv /\ [Next]_vars => BrainInv'
  BY NextKeepsBrainInv
<1> QED BY <1>1, <1>2, PTL DEF Spec

-----------------------------------------------------------------------------

\* However many items contend, the lease is marked busy exactly while one of
\* them holds it (BrainCoordinator._acquire and _release).
THEOREM TheBrainIsLeasedOnce == Spec => []LeaseIsHeldOnce
<1>1. BrainInv => LeaseIsHeldOnce
  BY DEF BrainInv
<1> QED BY <1>1, BrainInvIsInvariant, PTL

\* However many items contend, at most one background reasoning is under way,
\* those included that were cancelled and have not ended (BrainCoordinator).
THEOREM OnlyOneReasons == Spec => []OneReasoner
<1>1. BrainInv => OneReasoner
  BY DEF BrainInv, LeaseIsHeldOnce, TasksAreHeld, OneReasoner, Reasoning, Holder
<1> QED BY <1>1, BrainInvIsInvariant, PTL

\* No reasoning starts or goes on, other than to stop, while the owner is in
\* conversation or JARVIS shuts down (InteractiveBrainGate).
THEOREM TheOwnerComesFirst == Spec => []ConversationComesFirst
<1>1. BrainInv => ConversationComesFirst
  BY DEF BrainInv
<1> QED BY <1>1, BrainInvIsInvariant, PTL

\* A cancellation made for the owner is always reported as a preemption
\* (InteractiveBrainGate.run_background and _interactive_preempted_task).
THEOREM PreemptionIsRecognised == Spec => []PreemptionIsNoFailure
<1>1. BrainInv => PreemptionIsNoFailure
  BY DEF BrainInv
<1> QED BY <1>1, BrainInvIsInvariant, PTL

-----------------------------------------------------------------------------
(* The resource leases: one semaphore *)

Semaphores == [value : Nat, asleep : Seq(Items), woken : SUBSET Items]

Sleepers(s) == {s.asleep[i] : i \in DOMAIN s.asleep}

\* Those who wait for s are W, each once.
LineOK(s, W) ==
    /\ s \in Semaphores
    /\ \A i, j \in DOMAIN s.asleep : s.asleep[i] = s.asleep[j] => i = j
    /\ Sleepers(s) \cap s.woken = {}
    /\ Sleepers(s) \cup s.woken = W

\* Of the units of s none is idle while an item sleeps for it.
Offered(s) == s.value > 0 /\ s.asleep # <<>> => s.woken # {}

Units(s) == s.value + Cardinality(s.woken)

\* Of the n units of s, those that are not free or promised are held by m items.
SemaphoreOK(s, W, m, n) == LineOK(s, W) /\ Offered(s) /\ Units(s) + m = n

-----------------------------------------------------------------------------

\* Whatever a set of items is, it can be counted.
LEMMA FiniteSubsets ==
    ASSUME NEW S \in SUBSET Items
    PROVE  IsFiniteSet(S) /\ Cardinality(S) \in Nat
BY ItemsAssumption, FS_Subset, FS_CardinalityType

\* Whoever sleeps longest is woken, for a unit that was free.
LEMMA WakeNextOK ==
    ASSUME NEW W, NEW s, LineOK(s, W), s.asleep # <<>> => s.value > 0
    PROVE  /\ LineOK(WakeNext(s), W)
           /\ Offered(WakeNext(s))
           /\ Units(WakeNext(s)) = Units(s)
<1> DEFINE t == WakeNext(s)
<1>1. CASE s.asleep = <<>>
  BY <1>1 DEF WakeNext, Offered
<1>2. CASE s.asleep # <<>>
  <2> DEFINE h == Head(s.asleep)
  <2>1. /\ t.value = s.value - 1 /\ t.asleep = Tail(s.asleep) /\ t.woken = s.woken \cup {h}
        /\ t = [value |-> t.value, asleep |-> t.asleep, woken |-> t.woken]
    BY <1>2 DEF WakeNext
  <2>2. s.asleep \in Seq(Items) /\ s.value \in Nat /\ s.woken \in SUBSET Items
    BY DEF LineOK, Semaphores
  <2>3. /\ h = s.asleep[1] /\ 1 \in DOMAIN s.asleep /\ h \in Items
        /\ t.asleep \in Seq(Items)
        /\ DOMAIN t.asleep = 1..(Len(s.asleep) - 1)
        /\ DOMAIN s.asleep = 1..Len(s.asleep) /\ Len(s.asleep) \in Nat \ {0}
        /\ \A i \in DOMAIN t.asleep : i + 1 \in DOMAIN s.asleep /\ t.asleep[i] = s.asleep[i + 1]
    BY <1>2, <2>1, <2>2
  <2> HIDE DEF t, h
  <2>4. t \in Semaphores
    <3>1. t.value \in Nat /\ t.woken \in SUBSET Items
      BY <1>2, <2>1, <2>2, <2>3
    <3> QED BY <2>1, <2>3, <3>1 DEF Semaphores
  <2>5. \A i, j \in DOMAIN t.asleep : t.asleep[i] = t.asleep[j] => i = j
    <3>1. \A i, j \in DOMAIN t.asleep : s.asleep[i + 1] = s.asleep[j + 1] => i + 1 = j + 1
      BY <2>3 DEF LineOK
    <3>2. \A i, j \in DOMAIN t.asleep : i + 1 = j + 1 => i = j
      BY <2>3
    <3> QED BY <2>3, <3>1, <3>2
  <2>6. Sleepers(s) = Sleepers(t) \cup {h}
    <3>1. ASSUME NEW v \in Sleepers(s) PROVE v \in Sleepers(t) \cup {h}
      <4>1. PICK i \in DOMAIN s.asleep : v = s.asleep[i]
        BY <3>1 DEF Sleepers
      <4>2. CASE i = 1
        BY <4>1, <4>2, <2>3
      <4>3. CASE i # 1
        <5>1. i - 1 \in DOMAIN t.asleep /\ (i - 1) + 1 = i
          BY <4>1, <4>3, <2>3
        <5>2. t.asleep[i - 1] = v
          BY <5>1, <2>3, <4>1
        <5> QED BY <5>1, <5>2 DEF Sleepers
      <4> QED BY <4>2, <4>3
    <3>2. Sleepers(t) \subseteq Sleepers(s) /\ h \in Sleepers(s)
      BY <2>3 DEF Sleepers
    <3> QED BY <3>1, <3>2
  <2>7. h \notin Sleepers(t)
    <3>1. \A i \in DOMAIN t.asleep : i + 1 # 1 /\ t.asleep[i] # h
      BY <2>3 DEF LineOK
    <3> QED BY <3>1 DEF Sleepers
  <2>8. h \notin s.woken
    BY <2>6 DEF LineOK
  <2>9. Cardinality(t.woken) = Cardinality(s.woken) + 1 /\ Cardinality(s.woken) \in Nat
    BY <2>1, <2>2, <2>8, FiniteSubsets, FS_AddElement
  <2>10. LineOK(t, W)
    BY <2>1, <2>4, <2>5, <2>6, <2>7, <2>8 DEF LineOK
  <2>11. Units(t) = Units(s)
    BY <2>1, <2>2, <2>9, <1>2 DEF Units
  <2>12. Offered(t)
    BY <2>1 DEF Offered
  <2> QED BY <2>10, <2>11, <2>12 DEF t
<1> QED BY <1>1, <1>2

\* An item takes a unit of a semaphore that is not locked.
LEMMA TakeOK ==
    ASSUME NEW W, NEW m \in Nat, NEW n \in Nat, NEW s, SemaphoreOK(s, W, m, n), ~Locked(s)
    PROVE  SemaphoreOK(Take(s), W, m + 1, n)
<1>1. s.value \in Nat \ {0} /\ s.asleep = <<>> /\ s.woken = {}
  BY DEF SemaphoreOK, LineOK, Semaphores, Locked
<1>2. /\ Take(s) \in Semaphores /\ Take(s).value = s.value - 1
      /\ Take(s).asleep = s.asleep /\ Take(s).woken = s.woken
  BY <1>1 DEF SemaphoreOK, LineOK, Semaphores, Take
<1>3. Sleepers(Take(s)) = Sleepers(s)
  BY <1>2 DEF Sleepers
<1>4. LineOK(Take(s), W)
  BY <1>2, <1>3 DEF SemaphoreOK, LineOK
<1>5. Units(Take(s)) + 1 = Units(s) /\ Units(Take(s)) \in Int
  BY <1>1, <1>2, FS_EmptySet DEF Units
<1>6. Offered(Take(s))
  BY <1>1, <1>2 DEF Offered
<1> QED BY <1>4, <1>5, <1>6 DEF SemaphoreOK

\* An item that waits for nothing else joins the line of a locked semaphore.
LEMMA JoinLineOK ==
    ASSUME NEW W \in SUBSET Items, NEW w \in Items \ W,
           NEW m \in Nat, NEW n \in Nat, NEW s, SemaphoreOK(s, W, m, n), Locked(s)
    PROVE  SemaphoreOK(JoinLine(s, w), W \cup {w}, m, n)
<1> DEFINE t == JoinLine(s, w)
<1>1. s.asleep \in Seq(Items) /\ s.value \in Nat /\ s.woken \in SUBSET Items
  BY DEF SemaphoreOK, LineOK, Semaphores
<1>2. /\ t.value = s.value /\ t.woken = s.woken /\ t.asleep = Append(s.asleep, w)
      /\ t \in Semaphores
  <2>1. Append(s.asleep, w) \in Seq(Items)
    BY <1>1
  <2> QED BY <1>1, <2>1 DEF JoinLine, SemaphoreOK, LineOK, Semaphores
<1>3. /\ DOMAIN s.asleep = 1..Len(s.asleep) /\ Len(s.asleep) \in Nat
      /\ DOMAIN t.asleep = 1..(Len(s.asleep) + 1)
      /\ \A i \in DOMAIN s.asleep : t.asleep[i] = s.asleep[i]
      /\ t.asleep[Len(s.asleep) + 1] = w
  BY <1>1, <1>2
<1> HIDE DEF t
<1>4. Sleepers(t) = Sleepers(s) \cup {w}
  <2>1. ASSUME NEW v \in Sleepers(t) PROVE v \in Sleepers(s) \cup {w}
    <3>1. PICK i \in DOMAIN t.asleep : v = t.asleep[i]
      BY <2>1 DEF Sleepers
    <3>2. i \in DOMAIN s.asleep \/ i = Len(s.asleep) + 1
      BY <1>3
    <3> QED BY <1>3, <3>1, <3>2 DEF Sleepers
  <2>2. Sleepers(s) \subseteq Sleepers(t) /\ w \in Sleepers(t)
    <3>1. DOMAIN s.asleep \subseteq DOMAIN t.asleep /\ Len(s.asleep) + 1 \in DOMAIN t.asleep
      BY <1>3
    <3> QED BY <1>3, <3>1 DEF Sleepers
  <2> QED BY <2>1, <2>2
<1>5. w \notin Sleepers(s) /\ w \notin s.woken
  BY DEF SemaphoreOK, LineOK
<1>6. \A i, j \in DOMAIN t.asleep : t.asleep[i] = t.asleep[j] => i = j
  <2>1. \A i \in DOMAIN s.asleep : t.asleep[i] # w
    BY <1>3, <1>5 DEF Sleepers
  <2>2. \A i \in DOMAIN t.asleep : i \in DOMAIN s.asleep \/ i = Len(s.asleep) + 1
    BY <1>3
  <2>3. \A i, j \in DOMAIN s.asleep : t.asleep[i] = t.asleep[j] => i = j
    BY <1>3 DEF SemaphoreOK, LineOK
  <2> QED BY <1>3, <2>1, <2>2, <2>3
<1>7. LineOK(t, W \cup {w})
  BY <1>2, <1>4, <1>5, <1>6 DEF SemaphoreOK, LineOK
<1>8. Offered(t)
  BY <1>2 DEF SemaphoreOK, Offered, Locked
<1>9. Units(t) = Units(s)
  BY <1>2 DEF Units
<1> QED BY <1>7, <1>8, <1>9 DEF SemaphoreOK, t

\* A unit is given back, or to the next in line.
LEMMA PutBackOK ==
    ASSUME NEW W, NEW m \in Nat \ {0}, NEW n \in Nat, NEW s, SemaphoreOK(s, W, m, n)
    PROVE  SemaphoreOK(PutBack(s), W, m - 1, n)
<1> DEFINE t == [s EXCEPT !.value = @ + 1]
<1>1. /\ t \in Semaphores /\ t.value = s.value + 1 /\ t.value > 0 /\ s.value \in Nat
      /\ t.asleep = s.asleep /\ t.woken = s.woken /\ s.woken \in SUBSET Items
  BY DEF SemaphoreOK, LineOK, Semaphores
<1>2. PutBack(s) = WakeNext(t)
  BY DEF PutBack
<1> HIDE DEF t
<1>3. Sleepers(t) = Sleepers(s)
  BY <1>1 DEF Sleepers
<1>4. LineOK(t, W)
  BY <1>1, <1>3 DEF SemaphoreOK, LineOK
<1>5. Units(t) = Units(s) + 1 /\ Units(s) \in Nat
  BY <1>1, FiniteSubsets DEF Units
<1>6. LineOK(WakeNext(t), W) /\ Offered(WakeNext(t)) /\ Units(WakeNext(t)) = Units(t)
  BY <1>1, <1>4, WakeNextOK
<1> QED BY <1>2, <1>5, <1>6 DEF SemaphoreOK

\* A woken item takes the unit it was promised, and wakes the next in line if
\* another is free.
LEMMA LeaveLineOK ==
    ASSUME NEW W, NEW m \in Nat, NEW n \in Nat, NEW s, SemaphoreOK(s, W, m, n),
           NEW w \in s.woken
    PROVE  SemaphoreOK(LeaveLine(s, w), W \ {w}, m + 1, n)
<1> DEFINE t == [s EXCEPT !.woken = @ \ {w}]
<1>1. /\ t \in Semaphores /\ t.value = s.value /\ s.value \in Nat
      /\ t.asleep = s.asleep /\ t.woken = s.woken \ {w} /\ s.woken \in SUBSET Items
  BY DEF SemaphoreOK, LineOK, Semaphores
<1>2. LeaveLine(s, w) = IF t.value > 0 THEN WakeNext(t) ELSE t
  BY DEF LeaveLine
<1> HIDE DEF t
<1>3. Sleepers(t) = Sleepers(s)
  BY <1>1 DEF Sleepers
<1>4. LineOK(t, W \ {w})
  BY <1>1, <1>3 DEF SemaphoreOK, LineOK
<1>5. Cardinality(t.woken) = Cardinality(s.woken) - 1 /\ Cardinality(s.woken) \in Nat
  BY <1>1, FiniteSubsets, FS_RemoveElement
<1>6. Units(t) + 1 = Units(s) /\ Units(t) \in Int
  BY <1>1, <1>5 DEF Units
<1>7. CASE t.value > 0
  <2>1. /\ LineOK(WakeNext(t), W \ {w}) /\ Offered(WakeNext(t))
        /\ Units(WakeNext(t)) = Units(t)
    BY <1>4, <1>7, WakeNextOK
  <2> QED BY <1>2, <1>6, <1>7, <2>1 DEF SemaphoreOK
<1>8. CASE ~(t.value > 0)
  BY <1>2, <1>4, <1>6, <1>8 DEF SemaphoreOK, Offered
<1> QED BY <1>7, <1>8
-----------------------------------------------------------------------------
(* The invariant of the resource leases *)

Users(r)   == {w \in Items : r \in has[w]}
Waiters(r) == {w \in Items : phase[w] = "waiting" /\ First(wants[w]) = r}

LeasesTypeOK ==
    /\ sem \in [Resources -> Semaphores]
    /\ phase \in [Items -> {"none", "waiting", "held"}]
    /\ has \in [Items -> SUBSET Resources]
    /\ wants \in [Items -> SUBSET Resources]

SemaphoresOK ==
    \A r \in Resources :
        SemaphoreOK(sem[r], Waiters(r), Cardinality(Users(r)), Capacity[r])

\* Whoever is in no lease has no key, and whoever waits wants one.
PhasesOK ==
    \A w \in Items : /\ phase[w] = "none" => has[w] = {}
                     /\ phase[w] = "waiting" <=> wants[w] # {}

\* What an item has comes before what it wants.
InOrder == \A w \in Items : \A q \in has[w], r \in wants[w] : Rank[q] < Rank[r]

LeaseInv == LeasesTypeOK /\ SemaphoresOK /\ PhasesOK /\ InOrder

-----------------------------------------------------------------------------
(* Acquiring and giving back keys *)

\* The first of a set of keys, by name.
LEMMA FirstIs ==
    ASSUME NEW K \in SUBSET Resources, K # {}
    PROVE  First(K) \in K /\ \A q \in K : Rank[First(K)] <= Rank[q]
<1> DEFINE T == {Before(K, r) : r \in K}
<1>1. T \subseteq FiniteSubsetsOf(Resources) /\ T # {}
  <2>1. FiniteSubsetsOf(Resources) = SUBSET Resources
    BY CapacityAssumption, FS_FiniteSubsetsOfFinite
  <2>2. \A r \in K : Before(K, r) \in SUBSET Resources
    BY DEF Before
  <2> QED BY <2>1, <2>2
<1>2. PICK B \in T : \A C \in T : <<C, B>> \notin StrictSubsetOrdering(Resources)
  BY <1>1, FS_StrictSubsetOrderingWellFounded, WFMin
<1>3. PICK r \in K : B = Before(K, r)
  BY <1>2
<1>4. ASSUME NEW q \in K, ~(Rank[r] <= Rank[q]) PROVE FALSE
  <2>1. Rank[q] < Rank[r]
    BY <1>4, RankAssumption
  <2>2. Before(K, q) \subseteq Before(K, r) /\ q \in Before(K, r) /\ q \notin Before(K, q)
    BY <2>1, RankAssumption DEF Before
  <2>3. <<Before(K, q), B>> \in StrictSubsetOrdering(Resources)
    BY <1>3, <2>2 DEF StrictSubsetOrdering, Before
  <2> QED BY <1>2, <2>3
<1> QED BY <1>4 DEF First

\* No two keys come first.
LEMMA FirstIsUnique ==
    ASSUME NEW K \in SUBSET Resources, NEW r \in K, \A q \in K : Rank[r] <= Rank[q]
    PROVE  First(K) = r
<1>1. First(K) \in K /\ Rank[First(K)] <= Rank[r]
  BY FirstIs
<1> QED BY <1>1, RankAssumption

\* The units of r in use, and those in line for it, when w has the keys held and
\* is in line for r or not.
InUse(w, r, held) == Cardinality(Users(r) \ {w}) + (IF r \in held THEN 1 ELSE 0)
InLine(w, r, too) == (Waiters(r) \ {w}) \cup (IF too THEN {w} ELSE {})

\* The semaphores sems are in order when w has the keys held and waits for none.
Rest(w, sems, held) ==
    \A r \in Resources :
        SemaphoreOK(sems[r], InLine(w, r, FALSE), InUse(w, r, held), Capacity[r])

\* What w has counts for one unit, and nothing else of it does.
LEMMA RestCounts ==
    ASSUME NEW w \in Items, NEW r \in Resources, NEW held
    PROVE  /\ InUse(w, r, held) \in Nat /\ Capacity[r] \in Nat
           /\ InUse(w, r, held) = InUse(w, r, {}) + (IF r \in held THEN 1 ELSE 0)
           /\ InUse(w, r, {}) \in Nat
<1>1. Users(r) \ {w} \in SUBSET Items
  BY DEF Users
<1> QED BY <1>1, FiniteSubsets, CapacityAssumption DEF InUse

\* What w becomes, and no one else.
LEMMA Became ==
    ASSUME LeaseInv, NEW w \in Items,
           NEW held \in SUBSET Resources, NEW keys \in SUBSET Resources,
           NEW to \in {"none", "waiting", "held"}, Become(w, held, keys, to),
           \A q \in held, r \in keys : Rank[q] < Rank[r],
           to = "none" => held = {}, to = "waiting" <=> keys # {},
           NEW f, sem' = f, f \in [Resources -> Semaphores],
           \A r \in Resources :
               SemaphoreOK(f[r], InLine(w, r, to = "waiting" /\ First(keys) = r),
                           InUse(w, r, held), Capacity[r])
    PROVE  LeaseInv'
<1>1. /\ has'   = [has EXCEPT ![w] = held]
      /\ wants' = [wants EXCEPT ![w] = keys]
      /\ phase' = [phase EXCEPT ![w] = to]
  BY DEF Become
<1>2. LeasesTypeOK'
  BY <1>1 DEF LeaseInv, LeasesTypeOK
<1>3. PhasesOK'
  BY <1>1 DEF LeaseInv, LeasesTypeOK, PhasesOK
<1>4. InOrder'
  BY <1>1 DEF LeaseInv, LeasesTypeOK, InOrder
<1>5. ASSUME NEW r \in Resources
      PROVE  SemaphoreOK(f[r], Waiters(r)', Cardinality(Users(r)'), Capacity[r])
  <2>1. Waiters(r)' = InLine(w, r, to = "waiting" /\ First(keys) = r)
    BY <1>1 DEF Waiters, InLine, LeaseInv, LeasesTypeOK
  <2>2. Users(r)' = (Users(r) \ {w}) \cup (IF r \in held THEN {w} ELSE {})
    BY <1>1 DEF Users, LeaseInv, LeasesTypeOK
  <2>3. Users(r) \ {w} \in SUBSET Items
    BY DEF Users
  <2>4. Cardinality(Users(r)') = InUse(w, r, held)
    <3>1. CASE r \in held
      <4>1. Users(r)' = (Users(r) \ {w}) \cup {w}
        BY <2>2, <3>1
      <4> QED BY <4>1, <2>3, <3>1, FiniteSubsets, FS_AddElement DEF InUse
    <3>2. CASE r \notin held
      <4>1. Users(r)' = Users(r) \ {w}
        BY <2>2, <3>2
      <4> QED BY <4>1, <2>3, <3>2, FiniteSubsets DEF InUse
    <3> QED BY <3>1, <3>2
  <2> QED BY <2>1, <2>4
<1>6. SemaphoresOK'
  BY <1>5 DEF SemaphoresOK
<1> QED BY <1>2, <1>3, <1>4, <1>6 DEF LeaseInv

\* w waits for nothing.
LEMMA BecameOne ==
    ASSUME LeaseInv, NEW w \in Items, NEW held \in SUBSET Resources,
           NEW to \in {"none", "held"}, Become(w, held, {}, to), to = "none" => held = {},
           Rest(w, sem', held), DOMAIN sem' = Resources, sem' = [r \in Resources |-> sem'[r]]
    PROVE  LeaseInv'
<1>1. \A r \in Resources :
          SemaphoreOK(sem'[r], InLine(w, r, to = "waiting" /\ First({}) = r),
                      InUse(w, r, held), Capacity[r])
  <2> TAKE r \in Resources
  <2>1. InLine(w, r, to = "waiting" /\ First({}) = r) = InLine(w, r, FALSE)
    BY DEF InLine
  <2> QED BY <2>1 DEF Rest
<1>2. sem' \in [Resources -> Semaphores]
  BY DEF Rest, SemaphoreOK, LineOK
<1>3. to \in {"none", "waiting", "held"} /\ (to = "waiting" <=> {} # {})
  OBVIOUS
<1>4. {} \in SUBSET Resources /\ \A q \in held, r \in {} : Rank[q] < Rank[r]
  OBVIOUS
<1> QED BY <1>1, <1>2, <1>3, <1>4, Became

\* All that w has is given back.
LEMMA GivenUp ==
    ASSUME LeaseInv, NEW w \in Items, NEW held \in SUBSET Resources,
           NEW sems, Rest(w, sems, held), GiveUp(w, sems, held)
    PROVE  LeaseInv'
<1>1. /\ sem' = [r \in Resources |-> IF r \in held THEN PutBack(sems[r]) ELSE sems[r]]
      /\ Become(w, {}, {}, "none")
  BY DEF GiveUp
<1>2. ASSUME NEW r \in Resources
      PROVE  SemaphoreOK(sem'[r], InLine(w, r, FALSE), InUse(w, r, {}), Capacity[r])
  <2>1. /\ InUse(w, r, {}) \in Nat /\ Capacity[r] \in Nat
        /\ InUse(w, r, held) = InUse(w, r, {}) + (IF r \in held THEN 1 ELSE 0)
    BY RestCounts
  <2>2. CASE r \in held
    <3>1. InUse(w, r, held) \in Nat \ {0} /\ InUse(w, r, held) - 1 = InUse(w, r, {})
      BY <2>1, <2>2
    <3>2. SemaphoreOK(PutBack(sems[r]), InLine(w, r, FALSE), InUse(w, r, held) - 1, Capacity[r])
      BY <2>1, <3>1, PutBackOK DEF Rest
    <3> QED BY <1>1, <2>2, <3>1, <3>2
  <2>3. CASE r \notin held
    <3>1. InUse(w, r, held) = InUse(w, r, {})
      BY <2>1, <2>3
    <3> QED BY <1>1, <2>3, <3>1 DEF Rest
  <2> QED BY <2>2, <2>3
<1>3. Rest(w, sem', {})
  BY <1>2 DEF Rest
<1> QED BY <1>1, <1>3, BecameOne

\* w takes keys that are free, beyond those it has.
LEMMA TookAll ==
    ASSUME NEW w \in Items, NEW held \in SUBSET Resources, NEW keys \in SUBSET Resources,
           held \cap keys = {}, NEW sems, Rest(w, sems, held),
           \A r \in keys : ~Locked(sems[r])
    PROVE  Rest(w, TakeAll(sems, keys), held \cup keys)
<1> SUFFICES ASSUME NEW r \in Resources
             PROVE  SemaphoreOK(TakeAll(sems, keys)[r], InLine(w, r, FALSE),
                                InUse(w, r, held \cup keys), Capacity[r])
  BY DEF Rest
<1>1. /\ InUse(w, r, held) \in Nat /\ Capacity[r] \in Nat
      /\ InUse(w, r, held \cup keys) = InUse(w, r, held) + (IF r \in keys THEN 1 ELSE 0)
  <2>1. InUse(w, r, held) = InUse(w, r, {}) + (IF r \in held THEN 1 ELSE 0)
    BY RestCounts
  <2>2. /\ InUse(w, r, held \cup keys)
              = InUse(w, r, {}) + (IF r \in held \cup keys THEN 1 ELSE 0)
        /\ InUse(w, r, {}) \in Nat
    BY RestCounts
  <2>3. r \in keys => r \notin held
    OBVIOUS
  <2> QED BY <2>1, <2>2, <2>3, RestCounts
<1>2. TakeAll(sems, keys)[r] = IF r \in keys THEN Take(sems[r]) ELSE sems[r]
  BY DEF TakeAll
<1>3. CASE r \in keys
  <2>1. SemaphoreOK(Take(sems[r]), InLine(w, r, FALSE), InUse(w, r, held) + 1, Capacity[r])
    BY <1>1, <1>3, TakeOK DEF Rest
  <2> QED BY <1>1, <1>2, <1>3, <2>1
<1>4. CASE r \notin keys
  <2>1. InUse(w, r, held \cup keys) = InUse(w, r, held)
    BY <1>1, <1>4
  <2> QED BY <1>2, <1>4, <2>1 DEF Rest
<1> QED BY <1>3, <1>4

\* w acquires keys until one is locked, and has them all, or waits, or gives up.
LEMMA Acquired ==
    ASSUME LeaseInv, NEW w \in Items,
           NEW held \in SUBSET Resources, NEW keys \in SUBSET Resources,
           \A q \in held, r \in keys : Rank[q] < Rank[r],
           NEW sems, Rest(w, sems, held), Acquire(w, sems, held, keys)
    PROVE  LeaseInv'
<1> DEFINE locked == {r \in keys : Locked(sems[r])}
           next   == First(locked)
           taken  == Before(keys, next)
<1>1. \A q \in Resources : Rank[q] \in Nat
  BY RankAssumption
<1>2. held \cap keys = {}
  BY <1>1
<1>3. CASE locked = {} /\ GiveUp(w, TakeAll(sems, keys), held \cup keys)
  <2>1. Rest(w, TakeAll(sems, keys), held \cup keys)
    BY <1>2, <1>3, TookAll
  <2> QED BY <1>3, <2>1, GivenUp
<1>4. CASE /\ locked = {}
           /\ sem' = TakeAll(sems, keys)
           /\ Become(w, held \cup keys, {}, "held")
  <2>1. Rest(w, sem', held \cup keys)
    BY <1>2, <1>4, TookAll
  <2>2. DOMAIN sem' = Resources /\ sem' = [r \in Resources |-> sem'[r]]
    BY <1>4 DEF TakeAll
  <2> QED BY <1>4, <2>1, <2>2, BecameOne
<1>5. CASE /\ locked # {}
           /\ sem' = [TakeAll(sems, taken) EXCEPT ![next] = JoinLine(@, w)]
           /\ Become(w, held \cup taken, keys \ taken, "waiting")
  <2>1. next \in locked /\ \A q \in locked : Rank[next] <= Rank[q]
    BY <1>5, FirstIs
  <2> HIDE DEF next
  <2>2. /\ next \in keys \ taken /\ next \in Resources /\ Locked(sems[next])
        /\ \A q \in taken : q \in keys /\ Rank[q] < Rank[next]
        /\ \A q \in keys \ taken : Rank[next] <= Rank[q]
    BY <1>1, <2>1 DEF Before
  <2>3. First(keys \ taken) = next
    BY <2>2, FirstIsUnique
  <2>4. \A r \in taken : ~Locked(sems[r])
    BY <1>1, <2>1, <2>2
  <2> DEFINE g == TakeAll(sems, taken)
             f == [g EXCEPT ![next] = JoinLine(@, w)]
  <2>5. Rest(w, g, held \cup taken)
    BY <1>2, <2>2, <2>4, TookAll
  <2>6. \A r \in Resources : f[r] = IF r = next THEN JoinLine(sems[next], w) ELSE g[r]
    BY <2>2 DEF TakeAll
  <2>7. g[next] = sems[next]
    BY <2>2 DEF TakeAll
  <2>8. DOMAIN f = Resources /\ f = [r \in Resources |-> f[r]]
    BY DEF TakeAll
  <2> HIDE DEF f, g
  <2>9. ASSUME NEW r \in Resources
        PROVE  SemaphoreOK(f[r], InLine(w, r, "waiting" = "waiting" /\ First(keys \ taken) = r),
                           InUse(w, r, held \cup taken), Capacity[r])
    <3>1. SemaphoreOK(g[r], InLine(w, r, FALSE), InUse(w, r, held \cup taken), Capacity[r])
      BY <2>5 DEF Rest
    <3>2. InUse(w, r, held \cup taken) \in Nat /\ Capacity[r] \in Nat
      BY RestCounts
    <3>3. CASE r = next
      <4>1. /\ InLine(w, r, FALSE) \in SUBSET Items /\ w \in Items \ InLine(w, r, FALSE)
            /\ InLine(w, r, FALSE) \cup {w}
                  = InLine(w, r, "waiting" = "waiting" /\ First(keys \ taken) = r)
        BY <2>3, <3>3 DEF Waiters, InLine
      <4>2. SemaphoreOK(JoinLine(g[r], w), InLine(w, r, FALSE) \cup {w},
                        InUse(w, r, held \cup taken), Capacity[r])
        BY <2>2, <2>7, <3>1, <3>2, <3>3, <4>1, JoinLineOK
      <4>3. f[r] = JoinLine(g[r], w)
        BY <2>6, <2>7, <3>3
      <4> QED BY <4>1, <4>2, <4>3
    <3>4. CASE r # next
      <4>1. InLine(w, r, "waiting" = "waiting" /\ First(keys \ taken) = r) = InLine(w, r, FALSE)
        BY <2>3, <3>4
      <4> QED BY <2>6, <3>1, <3>4, <4>1
    <3> QED BY <3>3, <3>4
  <2>10. f \in [Resources -> Semaphores]
    BY <2>8, <2>9 DEF SemaphoreOK, LineOK
  <2>11. \A q \in held \cup taken, r \in keys \ taken : Rank[q] < Rank[r]
    BY <1>1, <2>2
  <2>12. sem' = f
    BY <1>5 DEF f, g
  <2>13. /\ held \cup taken \in SUBSET Resources
         /\ keys \ taken \in SUBSET Resources /\ keys \ taken # {}
    BY <2>2
  <2>14. \A r \in Resources :
            SemaphoreOK(f[r], InLine(w, r, "waiting" = "waiting" /\ First(keys \ taken) = r),
                        InUse(w, r, held \cup taken), Capacity[r])
    BY <2>9
  <2>15. Become(w, held \cup taken, keys \ taken, "waiting")
    BY <1>5
  <2> HIDE DEF taken
  <2>16. "waiting" = "waiting" <=> keys \ taken # {}
    BY <2>13
  <2> QED BY <2>10, <2>11, <2>12, <2>13, <2>14, <2>15, <2>16, Became
<1> QED BY <1>3, <1>4, <1>5 DEF Acquire
-----------------------------------------------------------------------------
(* The steps of an item *)

\* The units of r in use, with the part of w in them told apart.
LEMMA OwnUse ==
    ASSUME LeaseInv, NEW w \in Items, NEW r \in Resources
    PROVE  Cardinality(Users(r)) = InUse(w, r, has[w])
<1>1. Users(r) \ {w} \in SUBSET Items
  BY DEF Users
<1>2. CASE r \in has[w]
  <2>1. Users(r) = (Users(r) \ {w}) \cup {w}
    BY <1>2 DEF Users
  <2> QED BY <1>1, <1>2, <2>1, FiniteSubsets, FS_AddElement DEF InUse
<1>3. CASE r \notin has[w]
  <2>1. Users(r) = Users(r) \ {w}
    BY <1>3 DEF Users
  <2> QED BY <1>1, <1>3, <2>1, FiniteSubsets DEF InUse
<1> QED BY <1>2, <1>3

\* The semaphores are in order for an item that waits for none.
LEMMA AtRest ==
    ASSUME LeaseInv, NEW w \in Items, phase[w] # "waiting"
    PROVE  Rest(w, sem, has[w])
<1> SUFFICES ASSUME NEW r \in Resources
             PROVE  SemaphoreOK(sem[r], InLine(w, r, FALSE), InUse(w, r, has[w]), Capacity[r])
  BY DEF Rest
<1>1. InLine(w, r, FALSE) = Waiters(r)
  BY DEF InLine, Waiters
<1>2. Cardinality(Users(r)) = InUse(w, r, has[w])
  BY OwnUse
<1> QED BY <1>1, <1>2 DEF LeaseInv, SemaphoresOK

\* The three steps of an item: it asks for a lease, is woken in the middle of one,
\* and ends its action.
LEMMA Leased ==
    ASSUME LeaseInv, NEW w \in Items, NEW declared, Registered(declared), Lease(w, declared)
    PROVE  LeaseInv'
<1>1. /\ phase[w] = "none" /\ has[w] = {} /\ Base \cup declared \in SUBSET Resources
      /\ Acquire(w, sem, {}, Base \cup declared)
  BY DEF Lease, Registered, LeaseInv, PhasesOK
<1>2. Rest(w, sem, {})
  <2>1. Rest(w, sem, has[w])
    BY <1>1, AtRest
  <2> QED BY <1>1, <2>1
<1>3. {} \in SUBSET Resources /\ \A q \in {}, r \in Base \cup declared : Rank[q] < Rank[r]
  OBVIOUS
<1> HIDE DEF Resources
<1> QED BY <1>1, <1>2, <1>3, Acquired

\* Its turn for a key comes, and it goes on to the next.
LEMMA Resumed ==
    ASSUME LeaseInv, NEW w \in Items, Resume(w)
    PROVE  LeaseInv'
<1> DEFINE r == First(wants[w])
           sems == [sem EXCEPT ![r] = LeaveLine(@, w)]
           held == has[w] \cup {r}
           keys == wants[w] \ {r}
<1>1. /\ phase[w] = "waiting" /\ w \in sem[r].woken
      /\ Acquire(w, sems, held, keys)
  BY DEF Resume
<1>2. /\ wants[w] \in SUBSET Resources /\ wants[w] # {} /\ has[w] \in SUBSET Resources
      /\ \A p \in has[w], q \in wants[w] : Rank[p] < Rank[q]
  BY <1>1 DEF LeaseInv, LeasesTypeOK, PhasesOK, InOrder
<1>3. r \in wants[w] /\ \A q \in wants[w] : Rank[r] <= Rank[q]
  BY <1>2, FirstIs
<1>4. \A p, q \in Resources : Rank[p] \in Nat /\ Rank[q] \in Nat /\ (Rank[p] = Rank[q] => p = q)
  BY RankAssumption
<1>5. \A p \in held, q \in keys : Rank[p] < Rank[q]
  BY <1>2, <1>3, <1>4
<1>6. r \notin has[w]
  BY <1>2, <1>3, <1>4
<1>7. ASSUME NEW q \in Resources
      PROVE  SemaphoreOK(sems[q], InLine(w, q, FALSE), InUse(w, q, held), Capacity[q])
  <2>1. SemaphoreOK(sem[q], Waiters(q), InUse(w, q, has[w]), Capacity[q])
    BY OwnUse DEF LeaseInv, SemaphoresOK
  <2>2. /\ InUse(w, q, has[w]) \in Nat /\ Capacity[q] \in Nat
        /\ InUse(w, q, held) = InUse(w, q, has[w]) + (IF q = r THEN 1 ELSE 0)
    <3>1. InUse(w, q, has[w]) = InUse(w, q, {}) + (IF q \in has[w] THEN 1 ELSE 0)
      BY RestCounts
    <3>2. /\ InUse(w, q, held) = InUse(w, q, {}) + (IF q \in held THEN 1 ELSE 0)
          /\ InUse(w, q, {}) \in Nat /\ Capacity[q] \in Nat
      BY RestCounts
    <3> QED BY <1>6, <3>1, <3>2
  <2>3. CASE q = r
    <3>1. sems[q] = LeaveLine(sem[q], w)
      BY <2>3, <1>2, <1>3 DEF LeaseInv, LeasesTypeOK
    <3>2. InLine(w, q, FALSE) = Waiters(q) \ {w}
      BY DEF InLine
    <3>3. SemaphoreOK(LeaveLine(sem[q], w), Waiters(q) \ {w}, InUse(w, q, has[w]) + 1, Capacity[q])
      BY <1>1, <2>1, <2>2, <2>3, LeaveLineOK
    <3> QED BY <2>2, <2>3, <3>1, <3>2, <3>3
  <2>4. CASE q # r
    <3>1. sems[q] = sem[q]
      BY <2>4 DEF LeaseInv, LeasesTypeOK
    <3>2. InLine(w, q, FALSE) = Waiters(q)
      BY <2>4 DEF InLine, Waiters
    <3>3. InUse(w, q, held) = InUse(w, q, has[w])
      BY <2>2, <2>4
    <3> QED BY <2>1, <3>1, <3>2, <3>3
  <2> QED BY <2>3, <2>4
<1>8. Rest(w, sems, held)
  BY <1>7 DEF Rest
<1>9. held \in SUBSET Resources /\ keys \in SUBSET Resources
  BY <1>2, <1>3
<1> HIDE DEF sems, held, keys
<1> QED BY <1>1, <1>5, <1>8, <1>9, Acquired

\* No step of any item, of the brain or of the voice session breaks the invariant.
LEMMA NextKeepsLeaseInv ==
    ASSUME LeaseInv, [Next]_vars
    PROVE  LeaseInv'
<1>1. CASE UNCHANGED resourceVars
  BY <1>1 DEF resourceVars, LeaseInv, LeasesTypeOK, SemaphoresOK, PhasesOK, InOrder, Users, Waiters
<1>2. ASSUME NEW w \in Items, LeaseFor(w) PROVE LeaseInv'
  BY <1>2, Leased DEF LeaseFor
<1>3. ASSUME NEW w \in Items, Resume(w) PROVE LeaseInv'
  BY <1>3, Resumed
<1>4. ASSUME NEW w \in Items, Release(w) PROVE LeaseInv'
  <2>1. Rest(w, sem, has[w]) /\ GiveUp(w, sem, has[w])
    BY <1>4, AtRest DEF Release
  <2>2. has[w] \in SUBSET Resources
    BY DEF LeaseInv, LeasesTypeOK
  <2> QED BY <2>1, <2>2, GivenUp
<1> QED BY <1>1, <1>2, <1>3, <1>4
        DEF Next, vars, Ask, OfBrain, NoAction, Unknown, OfResources, Voice

\* The resource leases are in order in every reachable state.
LEMMA LeaseInvIsInvariant == Spec => []LeaseInv
<1>1. Init => LeaseInv
  <2> SUFFICES ASSUME Init PROVE LeaseInv
    OBVIOUS
  <2>1. /\ sem = [r \in Resources |-> Unused(r)]
        /\ wants = [w \in Items |-> {}] /\ has = [w \in Items |-> {}]
        /\ phase = [w \in Items |-> "none"]
    BY DEF Init, ResourceInit
  <2>2. ASSUME NEW r \in Resources
        PROVE  SemaphoreOK(sem[r], Waiters(r), Cardinality(Users(r)), Capacity[r])
    <3>1. /\ sem[r].value = Capacity[r] /\ sem[r].asleep = <<>> /\ sem[r].woken = {}
          /\ sem[r] \in Semaphores /\ Capacity[r] \in Nat
      BY <2>1, CapacityAssumption DEF Unused, Semaphores
    <3>2. Waiters(r) = {} /\ Users(r) = {}
      BY <2>1 DEF Waiters, Users
    <3>3. Sleepers(sem[r]) = {} /\ DOMAIN sem[r].asleep = {}
      BY <3>1 DEF Sleepers
    <3>4. LineOK(sem[r], {})
      BY <3>1, <3>3 DEF LineOK
    <3>5. Units(sem[r]) + Cardinality({}) = Capacity[r]
      BY <3>1, FS_EmptySet DEF Units
    <3> QED BY <3>1, <3>2, <3>4, <3>5 DEF SemaphoreOK, Offered
  <2>3. LeasesTypeOK
    BY <2>1, <2>2 DEF LeasesTypeOK, SemaphoreOK, LineOK
  <2> QED BY <2>1, <2>2, <2>3 DEF LeaseInv, SemaphoresOK, PhasesOK, InOrder
<1>2. LeaseInv /\ [Next]_vars => LeaseInv'
  BY NextKeepsLeaseInv
<1> QED BY <1>1, <1>2, PTL DEF Spec

-----------------------------------------------------------------------------
(* What is promised *)

\* However many items contend for however many resources, each unit is free, held
\* by one of them, or promised to one that was woken (ResourceLeaseManager.lease).
THEOREM NoUnitIsLost == Spec => []UnitsAreConserved
<1>1. LeaseInv => UnitsAreConserved
  <2> SUFFICES ASSUME LeaseInv, NEW r \in Resources
               PROVE  sem[r].value + Cardinality({w \in Items : r \in has[w]})
                         + Cardinality(sem[r].woken) = Capacity[r]
    BY DEF UnitsAreConserved
  <2>1. /\ sem[r] \in Semaphores
        /\ sem[r].value + Cardinality(sem[r].woken) + Cardinality(Users(r)) = Capacity[r]
    BY DEF LeaseInv, SemaphoresOK, SemaphoreOK, LineOK, Units
  <2>2. Users(r) \in SUBSET Items /\ sem[r].woken \in SUBSET Items /\ sem[r].value \in Nat
    BY <2>1 DEF Users, Semaphores
  <2>3. Cardinality(Users(r)) \in Nat /\ Cardinality(sem[r].woken) \in Nat
    BY <2>2, FiniteSubsets
  <2> QED BY <2>1, <2>2, <2>3 DEF Users
<1> QED BY <1>1, LeaseInvIsInvariant, PTL

\* Items that wait for resources never wait for each other in a circle: as long as
\* one waits, an action runs that will release its keys, or a waiter was woken and
\* goes on. It is why normalize sorts the keys, and why a resumed acquire wakes the
\* next waiter when a unit is left.
SomeoneGoesOn ==
    (\E w \in Items : phase[w] = "waiting") =>
        \E w \in Items : \/ phase[w] = "held"
                         \/ phase[w] = "waiting" /\ w \in sem[First(wants[w])].woken

\* The resources that come after r.
After(r) == {q \in Resources : Rank[r] < Rank[q]}

THEOREM NoLeaseDeadlock == Spec => []SomeoneGoesOn
<1>1. LeaseInv => SomeoneGoesOn
  <2> SUFFICES ASSUME LeaseInv, NEW u \in Items, phase[u] = "waiting",
                      \A w \in Items : phase[w] # "held",
                      \A w \in Items : phase[w] = "waiting" => w \notin sem[First(wants[w])].woken
               PROVE  FALSE
    BY DEF SomeoneGoesOn
  <2> DEFINE T == {After(First(wants[w])) : w \in {v \in Items : phase[v] = "waiting"}}
  <2>1. \A w \in Items : phase[w] = "waiting" =>
            /\ wants[w] \in SUBSET Resources /\ First(wants[w]) \in wants[w]
            /\ \A q \in has[w] : q \in Resources /\ Rank[q] < Rank[First(wants[w])]
    <3> SUFFICES ASSUME NEW w \in Items, phase[w] = "waiting"
                 PROVE  /\ wants[w] \in SUBSET Resources /\ First(wants[w]) \in wants[w]
                        /\ \A q \in has[w] : q \in Resources /\ Rank[q] < Rank[First(wants[w])]
      OBVIOUS
    <3>1. wants[w] \in SUBSET Resources /\ wants[w] # {} /\ has[w] \in SUBSET Resources
      BY DEF LeaseInv, LeasesTypeOK, PhasesOK
    <3>2. First(wants[w]) \in wants[w]
      BY <3>1, FirstIs
    <3> QED BY <3>1, <3>2 DEF LeaseInv, InOrder
  <2>2. T \subseteq FiniteSubsetsOf(Resources) /\ T # {}
    <3>1. FiniteSubsetsOf(Resources) = SUBSET Resources
      BY CapacityAssumption, FS_FiniteSubsetsOfFinite
    <3>2. \A r \in Resources : After(r) \in SUBSET Resources
      BY DEF After
    <3>3. \A w \in Items : phase[w] = "waiting" => First(wants[w]) \in Resources
      BY <2>1
    <3> QED BY <3>1, <3>2, <3>3
  <2>3. PICK B \in T : \A C \in T : <<C, B>> \notin StrictSubsetOrdering(Resources)
    BY <2>2, FS_StrictSubsetOrderingWellFounded, WFMin
  <2>4. PICK w \in Items : phase[w] = "waiting" /\ B = After(First(wants[w]))
    BY <2>3
  <2> DEFINE r == First(wants[w])
  <2>5. r \in Resources /\ w \in Waiters(r) /\ w \notin sem[r].woken
    BY <2>1, <2>4 DEF Waiters
  <2>6. SemaphoreOK(sem[r], Waiters(r), Cardinality(Users(r)), Capacity[r])
    BY <2>5 DEF LeaseInv, SemaphoresOK
  <2>7. sem[r].woken = {}
    <3>1. \A v \in sem[r].woken : v \in Waiters(r)
      BY <2>6 DEF SemaphoreOK, LineOK
    <3> QED BY <3>1 DEF Waiters
  <2>8. sem[r].asleep # <<>>
    <3>1. Sleepers(sem[r]) # {}
      BY <2>5, <2>6, <2>7 DEF SemaphoreOK, LineOK
    <3> QED BY <3>1 DEF Sleepers
  <2>9. sem[r].value = 0
    BY <2>6, <2>7, <2>8 DEF SemaphoreOK, LineOK, Semaphores, Offered
  <2>10. Cardinality(Users(r)) # 0
    <3>1. Cardinality(Users(r)) = Capacity[r]
      <4>1. Users(r) \in SUBSET Items
        BY DEF Users
      <4> QED BY <2>6, <2>7, <2>9, <4>1, FS_EmptySet, FiniteSubsets DEF SemaphoreOK, Units
    <3> QED BY <2>5, <3>1, CapacityAssumption
  <2>11. PICK v \in Items : r \in has[v]
    BY <2>10, FS_EmptySet DEF Users
  <2>12. phase[v] = "waiting"
    BY <2>11 DEF LeaseInv, LeasesTypeOK, PhasesOK
  <2>13. Rank[r] < Rank[First(wants[v])] /\ First(wants[v]) \in Resources
    BY <2>1, <2>11, <2>12
  <2> DEFINE C == After(First(wants[v]))
  <2>14. C \subseteq B /\ First(wants[v]) \in B /\ First(wants[v]) \notin C
    BY <2>4, <2>5, <2>13, RankAssumption DEF After
  <2>15. <<C, B>> \in StrictSubsetOrdering(Resources)
    BY <2>4, <2>14 DEF StrictSubsetOrdering, After
  <2>16. C \in T
    BY <2>12
  <2> QED BY <2>3, <2>15, <2>16
<1> QED BY <1>1, LeaseInvIsInvariant, PTL

\* Every variable keeps its type, and the value of each semaphore, which release
\* adds to without a check, stays within the capacity of its resource.
THEOREM TypeCorrectness == Spec => []TypeOK
<1>1. BrainInv /\ LeaseInv => TypeOK
  <2> SUFFICES ASSUME BrainInv, LeaseInv PROVE ResourceTypeOK
    BY DEF TypeOK, BrainInv
  <2>1. ASSUME NEW r \in Resources PROVE sem[r].value \in 0..Capacity[r]
    <3>1. /\ sem[r] \in Semaphores
          /\ sem[r].value + Cardinality(sem[r].woken) + Cardinality(Users(r)) = Capacity[r]
      BY DEF LeaseInv, SemaphoresOK, SemaphoreOK, LineOK, Units
    <3>2. Users(r) \in SUBSET Items /\ sem[r].woken \in SUBSET Items /\ sem[r].value \in Nat
      BY <3>1 DEF Users, Semaphores
    <3>3. Cardinality(Users(r)) \in Nat /\ Cardinality(sem[r].woken) \in Nat
      BY <3>2, FiniteSubsets
    <3> QED BY <3>1, <3>2, <3>3, CapacityAssumption
  <2> QED BY <2>1 DEF ResourceTypeOK, LeaseInv, LeasesTypeOK
<1> QED BY <1>1, BrainInvIsInvariant, LeaseInvIsInvariant, PTL
=============================================================================
