---------------------------- MODULE ChangeProofs ----------------------------
(***************************************************************************)
(* Proofs about one engineering change, for any number of architectures, of  *)
(* commands and of crashes.                                                   *)
(***************************************************************************)
EXTENDS EngineeringChange, TLAPS

\* The attempts are numbered without gaps, and a later one is of a later
\* architecture, which the owner approved.
StagesOK ==
    \A j \in Builds : Linked(j) =>
        /\ stage[j].plan \in approved /\ stage[j].plan <= plans
        /\ \A i \in Builds : i < j => Linked(i) /\ stage[i].plan < stage[j].plan

\* Attempt k is the next one, and the latest architecture has none.
IsNext(k) ==
    \A j \in Builds : (j < k => Linked(j)) /\ (Linked(j) => stage[j].plan < plans)

\* Attempt k is the completed development of the latest architecture.
Fit(k) == Current(k) /\ stage[k].work = "completed"

\* What a thread in l does next is still right, unless its version is stale.
LocalOK(l) ==
    /\ l.pc \in {"boot", "read", "open", "add"} => l.k = Research
    /\ l.pc = "add" => l.kind = "architecture"
    /\ l.pc \in {"submit", "link"} /\ l.k \in Builds /\ ~Linked(l.k) => IsNext(l.k)
    /\ l.pc = "plan" /\ l.fresh => state = "approved_for_build"
    /\ l.goal = "developing" => l.pc \in {"submit", "link", "launch", "move", "present"}
    /\ l.goal = "developing" /\ l.k = Research => l.pc \in {"move", "present"}
    /\ l.goal = "developing" /\ l.fresh /\ l.pc # "present" =>
        /\ state = "approved_for_build"
        /\ l.pc = "launch" => Current(l.k)
        /\ l.pc = "move" => \E c \in Builds : Current(c)
    /\ l.goal = "architecture_ready" => plans > 0
    /\ l.after = "present" => l.kind = "architecture"

\* What the event loop in l does next is still right.
LoopOK(l) ==
    /\ l.pc = "attest" => state = "verifying" /\ Fit(l.k)
    /\ l.pc = "present" /\ l.kind = "acceptance" =>
        state = "verifying" /\ evidence # <<>> /\ Fit(Offered)
    /\ l.pc \in {"reopen", "retry"} => stage[l.k].work = "failed"

\* What only the event loop does.
LoopSteps == {"add", "attest", "present", "reopen", "retry"}

ThreadOK(t) ==
    /\ LocalOK(th[t])
    /\ IF t = Loop THEN LoopOK(th[t]) ELSE th[t].pc \notin LoopSteps /\ th[t].after = "end"

\* There is an architecture to approve, and what was handed over is of the latest.
Built ==
    /\ state \in {"architecture_ready", "waiting_owner_approval"} => plans > 0
    /\ state \in {"developing", "verifying", "waiting_owner_acceptance", "ready_for_promotion"}
        => \E c \in Builds : Current(c)

Reviewed ==
    state \in {"waiting_owner_acceptance", "ready_for_promotion"}
        => evidence # <<>> /\ Fit(Offered)

ChangeInv ==
    /\ TypeOK
    /\ StagesOK
    /\ \A t \in Threads : ThreadOK(t)
    /\ Built
    /\ Reviewed

-----------------------------------------------------------------------------
(* Threads that do not act *)

\* Thread u is where it was; its version may have become stale.
Follows(u) ==
    /\ th'[u].pc = th[u].pc /\ th'[u].k = th[u].k /\ th'[u].kind = th[u].kind
    /\ th'[u].goal = th[u].goal /\ th'[u].after = th[u].after
    /\ th'[u].fresh => th[u].fresh /\ state' = state

\* Only thread t acted, unless the threads of a process ended with it.
Moves(t) == \A u \in Threads : u # t => th'[u] = Idle \/ Follows(u)

\* The step adds no attempt and no architecture.
Keeps ==
    /\ plans' = plans /\ approved \subseteq approved'
    /\ \A k \in Attempts :
        /\ (stage'[k].work # "none") = (stage[k].work # "none")
        /\ stage'[k].plan = stage[k].plan
        /\ stage[k].work = "completed" => stage'[k].work = "completed"

\* Nor does it touch what the event loop is about to use.
Spares ==
    /\ evidence' = evidence
    /\ state = "verifying" => state' = "verifying"
    /\ \A k \in Attempts : stage[k].work = "failed" => stage'[k].work = "failed"

\* The types of the other variables.
RecordsOK ==
    /\ state \in States
    /\ plans \in 0 .. MaxPlans
    /\ approved \subseteq Builds /\ gates \subseteq Kinds
    /\ evidence \in Seq(Builds)
    /\ stage \in [Attempts -> Stages]

EnvOK ==
    /\ ending \subseteq Attempts /\ acting \subseteq Attempts
    /\ up \in {"down", "boot", "up"}
    /\ fuel \in [owner : 0 .. MaxCommands, crash : 0 .. MaxCrashes]

ThreadsOK == th \in [Threads -> Locals]

LEMMA TypeParts == TypeOK <=> RecordsOK /\ EnvOK /\ ThreadsOK
BY DEF TypeOK, RecordsOK, EnvOK, ThreadsOK

LEMMA Names ==
    /\ Loop \in Threads /\ Desk \in Threads /\ Loop # Desk
    /\ Attempts \subseteq Threads /\ Loop \notin Attempts /\ Desk \notin Attempts
    /\ Builds \subseteq Attempts /\ Research \in Attempts /\ Research \notin Builds
    /\ Idle \in Locals
BY PlansAssumption DEF Loop, Desk, Threads, Attempts, Builds, Research, Idle, Locals,
                       Steps, Kinds, Goals

\* A thread goes on as l.
LEMMA Continued ==
    ASSUME ThreadsOK, NEW t \in Threads, NEW l \in Locals, Continue(t, l)
    PROVE  ThreadsOK' /\ th'[t] = l /\ Moves(t)
<1>1. CASE state' = state
  BY <1>1 DEF Continue, ThreadsOK, Moves, Follows
<1>2. CASE state' # state
  <2>1. th' = [u \in Threads |-> IF u = t THEN l ELSE [th[u] EXCEPT !.fresh = FALSE]]
    BY <1>2 DEF Continue
  <2>2. \A u \in Threads : [th[u] EXCEPT !.fresh = FALSE] \in Locals
    BY DEF ThreadsOK, Locals
  <2> QED BY <2>1, <2>2 DEF ThreadsOK, Moves, Follows, Locals
<1> QED BY <1>1, <1>2

LEMMA Finished ==
    ASSUME ThreadsOK, EnvOK, NEW t \in Threads, Finish(t)
    PROVE  ThreadsOK' /\ EnvOK' /\ th'[t] = Idle /\ Moves(t)
BY Continued, Names DEF Finish, EnvOK

LEMMA Raised ==
    ASSUME ThreadsOK, EnvOK, NEW t \in Threads, Raise(t)
    PROVE  ThreadsOK' /\ EnvOK' /\ th'[t] = Idle /\ Moves(t) /\ UNCHANGED recordVars
<1>1. CASE t = Loop /\ up = "boot"
  BY <1>1, Names DEF Raise, ThreadsOK, EnvOK, Moves
<1>2. CASE ~(t = Loop /\ up = "boot")
  BY <1>2, Finished DEF Raise
<1> QED BY <1>1, <1>2

\* A thread at pc, whatever else it remembers.
LEMMA Gone ==
    ASSUME ThreadsOK, NEW t \in Threads, NEW pc \in Steps, Go(t, pc)
    PROVE  /\ ThreadsOK' /\ Moves(t)
           /\ th'[t] = [th[t] EXCEPT !.pc = pc]
           /\ [th[t] EXCEPT !.pc = pc] \in Locals
<1>1. [th[t] EXCEPT !.pc = pc] \in Locals
  BY DEF ThreadsOK, Locals
<1> QED BY <1>1, Continued DEF Go

LEMMA Returned ==
    ASSUME ThreadsOK, EnvOK, NEW t \in Threads, Return(t)
    PROVE  /\ ThreadsOK' /\ EnvOK' /\ Moves(t)
           /\ \/ th'[t] = Idle
              \/ th[t].after = "present" /\ th'[t] = [th[t] EXCEPT !.pc = "present"]
<1>1. CASE th[t].after = "present"
  <2>1. Go(t, "present") /\ UNCHANGED env
    BY <1>1 DEF Return
  <2> QED BY <1>1, <2>1, Gone DEF Steps, EnvOK, env
<1>2. CASE th[t].after # "present"
  BY <1>2, Finished DEF Return
<1> QED BY <1>1, <1>2

\* Of every thread that does not act.
LEMMA Bystander ==
    ASSUME ChangeInv, Keeps, NEW u \in Threads, th'[u] = Idle \/ Follows(u),
           u = Loop => Spares
    PROVE  ThreadOK(u)'
<1>1. CASE th'[u] = Idle
  BY <1>1 DEF ThreadOK, LocalOK, LoopOK, Idle, LoopSteps
<1>2. CASE Follows(u)
  <2>1. LocalOK(th[u]) /\ RecordsOK /\ th[u] \in Locals
    BY TypeParts DEF ChangeInv, ThreadOK, ThreadsOK
  <2>2. \A k \in Attempts : /\ Linked(k)' <=> Linked(k)
                            /\ Current(k)' <=> Current(k)
                            /\ Fit(k) => Fit(k)'
                            /\ IsNext(k) => IsNext(k)'
    BY Names DEF Keeps, Linked, Current, Fit, IsNext, Builds
  <2>3. LocalOK(th[u])'
    <3>1. PICK k \in Attempts : th[u].k = k
      BY <2>1 DEF Locals
    <3>2. /\ th'[u].k = k /\ th'[u].pc = th[u].pc /\ th'[u].goal = th[u].goal
          /\ th'[u].fresh => th[u].fresh /\ state' = state
          /\ th'[u].after = "present" => th'[u].kind = "architecture"
          /\ th'[u].pc = "add" => th'[u].kind = "architecture"
      BY <1>2, <2>1, <3>1 DEF Follows, LocalOK
    <3>3. /\ th'[u].pc \in {"boot", "read", "open", "add"} => k = Research
          /\ th'[u].pc = "plan" /\ th'[u].fresh => state' = "approved_for_build"
          /\ th'[u].goal = "developing"
                => th'[u].pc \in {"submit", "link", "launch", "move", "present"}
          /\ th'[u].goal = "developing" /\ k = Research => th'[u].pc \in {"move", "present"}
      BY <2>1, <3>1, <3>2 DEF LocalOK
    <3>4. th'[u].pc \in {"submit", "link"} /\ k \in Builds /\ ~Linked(k)' => IsNext(k)'
      BY <2>1, <2>2, <3>1, <3>2 DEF LocalOK
    <3>5. th'[u].goal = "developing" /\ th'[u].fresh /\ th'[u].pc # "present" =>
            /\ state' = "approved_for_build"
            /\ th'[u].pc = "launch" => Current(k)'
            /\ th'[u].pc = "move" => \E c \in Builds : Current(c)'
      BY <2>1, <2>2, <3>1, <3>2, Names DEF LocalOK
    <3>6. th'[u].goal = "architecture_ready" => plans' > 0
      BY <2>1, <3>2 DEF LocalOK, Keeps
    <3> QED BY <3>2, <3>3, <3>4, <3>5, <3>6 DEF LocalOK, Linked, Current, IsNext, Builds
  <2>4. CASE u = Loop
    <3>1. LoopOK(th[u])
      BY <2>4 DEF ChangeInv, ThreadOK
    <3>2. PICK k \in Attempts : th[u].k = k
      BY <2>1 DEF Locals
    <3>3. evidence # <<>> => Offered \in Attempts /\ Offered' = Offered
      BY <2>1, <2>4, Names DEF Spares, Offered, RecordsOK
    <3>4. LoopOK(th[u])'
      BY <1>2, <2>2, <2>4, <3>1, <3>2, <3>3 DEF LoopOK, Follows, Spares, Fit, Current, Linked, Offered
    <3> QED BY <2>3, <2>4, <3>4 DEF ThreadOK, Loop
  <2>5. CASE u # Loop
    <3>1. th[u].pc \notin LoopSteps /\ th[u].after = "end"
      BY <2>5 DEF ChangeInv, ThreadOK
    <3>2. (u # Loop)'
      BY <2>5 DEF Loop
    <3> QED BY <1>2, <2>3, <2>5, <3>1, <3>2 DEF ThreadOK, Follows, LoopSteps
  <2> QED BY <2>4, <2>5
<1> QED BY <1>1, <1>2

LEMMA StagesKept ==
    ASSUME ChangeInv, Keeps
    PROVE  StagesOK'
<1>1. RecordsOK /\ StagesOK
  BY TypeParts DEF ChangeInv
<1> QED BY <1>1, Names DEF StagesOK, Keeps, Linked, RecordsOK, Stages, Builds

LEMMA SameState ==
    ASSUME ChangeInv, Keeps, UNCHANGED <<state, evidence>>
    PROVE  Built' /\ Reviewed'
<1>1. \A k \in Attempts : (Current(k)' <=> Current(k)) /\ (Fit(k) => Fit(k)')
  BY Names DEF Keeps, Linked, Current, Fit, Builds
<1>2. Built'
  BY <1>1, Names DEF ChangeInv, Built, Keeps
<1>3. evidence # <<>> => Offered \in Attempts /\ Offered' = Offered
  BY TypeParts, Names DEF ChangeInv, RecordsOK, Offered
<1>4. Reviewed'
  BY <1>1, <1>3 DEF ChangeInv, Reviewed, Fit, Current, Linked, Offered
<1> QED BY <1>2, <1>4

\* A step of thread t.
LEMMA Acted ==
    ASSUME ChangeInv, Keeps, NEW t \in Threads, Moves(t), t # Loop => Spares,
           TypeOK', ThreadOK(t)', Built', Reviewed'
    PROVE  ChangeInv'
<1>1. ASSUME NEW u \in Threads PROVE ThreadOK(u)'
  BY <1>1, Bystander DEF Moves
<1>2. \A u \in Threads : ThreadOK(u)'
  BY <1>1
<1>3. (\A u \in Threads : ThreadOK(u))'
  BY <1>2 DEF Threads, Attempts, Builds, Loop, Desk
<1> QED BY <1>3, StagesKept DEF ChangeInv

\* A step of no thread.
LEMMA Aside ==
    ASSUME ChangeInv, Keeps, Spares, UNCHANGED <<th, state>>, TypeOK'
    PROVE  ChangeInv'
<1>1. \A u \in Threads : Follows(u)
  BY DEF Follows
<1>2. ASSUME NEW u \in Threads PROVE ThreadOK(u)'
  BY <1>1, <1>2, Bystander
<1>3. (\A u \in Threads : ThreadOK(u))'
  BY <1>2 DEF Threads, Attempts, Builds, Loop, Desk
<1> QED BY <1>3, StagesKept, SameState DEF ChangeInv, Spares

\* A thread that only reads, or is done.
LEMMA Unwritten ==
    ASSUME ChangeInv, UNCHANGED recordVars, NEW t \in Threads, Moves(t),
           ThreadsOK', EnvOK', ThreadOK(t)'
    PROVE  ChangeInv'
<1>1. Keeps /\ Spares /\ UNCHANGED <<state, evidence>>
  BY DEF recordVars, Keeps, Spares
<1>2. TypeOK'
  <2>1. RecordsOK'
    BY TypeParts DEF ChangeInv, RecordsOK, recordVars
  <2> QED BY <2>1, TypeParts DEF RecordsOK, EnvOK, ThreadsOK, TypeOK
<1> QED BY <1>1, <1>2, Acted, SameState

LEMMA IdleOK ==
    ASSUME NEW t, th'[t] = Idle
    PROVE  ThreadOK(t)'
BY DEF ThreadOK, LocalOK, LoopOK, Idle, LoopSteps

LEMMA ReturnOK ==
    ASSUME ChangeInv, NEW t \in Threads, Return(t), plans' = plans
    PROVE  ThreadsOK' /\ EnvOK' /\ Moves(t) /\ ThreadOK(t)'
<1>1. ThreadsOK /\ EnvOK /\ ThreadOK(t)
  BY TypeParts DEF ChangeInv
<1>2. /\ ThreadsOK' /\ EnvOK' /\ Moves(t)
      /\ \/ th'[t] = Idle
         \/ th[t].after = "present" /\ th'[t] = [th[t] EXCEPT !.pc = "present"]
  BY <1>1, Returned
<1>3. CASE th[t].after = "present" /\ th'[t] = [th[t] EXCEPT !.pc = "present"]
  <2>1. t = Loop /\ th[t].kind = "architecture"
    BY <1>1, <1>3 DEF ThreadOK, LocalOK
  <2>2. /\ th'[t].pc = "present" /\ th'[t].kind = "architecture"
        /\ th'[t].goal = "architecture_ready" => plans' > 0
    BY <1>1, <1>3, <2>1 DEF ThreadsOK, Locals, ThreadOK, LocalOK
  <2> QED BY <1>2, <2>1, <2>2 DEF ThreadOK, LocalOK, LoopOK, Loop
<1> QED BY <1>2, <1>3, IdleOK

LEMMA RaiseOK ==
    ASSUME ChangeInv, NEW t \in Threads, Raise(t)
    PROVE  ChangeInv'
BY Raised, IdleOK, Unwritten, TypeParts DEF ChangeInv

-----------------------------------------------------------------------------
(* reconcile *)

LEMMA Table ==
    ASSUME NEW s \in States
    PROVE  /\ "researching" \in Transitions[s] => s = "proposed"
           /\ "architecture_ready" \in Transitions[s] => s \in {"researching", "waiting_owner_approval"}
           /\ "developing" \in Transitions[s] => s = "approved_for_build"
           /\ "verifying" \in Transitions[s] => s = "developing"
           /\ "failed" \in Transitions[s] => s \in {"researching", "developing"}
           /\ "none" \notin Transitions[s]
BY DEF States, Transitions

LEMMA ReadOK ==
    ASSUME ChangeInv, NEW t \in Threads, Read(t)
    PROVE  ChangeInv'
<1>1. ThreadsOK /\ EnvOK /\ ThreadOK(t) /\ th[t] \in Locals
  BY TypeParts DEF ChangeInv, ThreadsOK
<1>2. CASE Return(t)
  BY <1>2, ReturnOK, Unwritten DEF Read, recordVars
<1>3. CASE ~Return(t)
  <2>1. PICK pc \in {"open", "submit", "plan", "track"} :
            /\ pc = "plan" => state = "approved_for_build"
            /\ Continue(t, [th[t] EXCEPT !.pc = pc, !.fresh = TRUE])
    BY <1>3 DEF Read
  <2> DEFINE l == [th[t] EXCEPT !.pc = pc, !.fresh = TRUE]
  <2>2. /\ l \in Locals /\ l.pc = pc /\ l.k = th[t].k /\ l.goal = th[t].goal
        /\ l.after = th[t].after /\ l.kind = th[t].kind /\ l.fresh
    BY <1>1 DEF Locals, Steps
  <2>3. ThreadsOK' /\ EnvOK' /\ Moves(t) /\ th'[t] = l
    BY <1>1, <1>3, <2>1, <2>2, Continued DEF Read, env, EnvOK
  <2> HIDE DEF l
  <2>4. th[t].k = Research /\ th[t].goal # "developing" /\ UNCHANGED recordVars
    BY <1>1 DEF Read, At, ThreadOK, LocalOK
  <2>5. LocalOK(th[t])'
    BY <1>1, <2>1, <2>2, <2>3, <2>4, Names DEF LocalOK, ThreadOK, recordVars
  <2>6. ThreadOK(t)'
    BY <1>1, <2>1, <2>2, <2>3, <2>5 DEF ThreadOK, LoopOK, LoopSteps, Loop
  <2> QED BY <2>3, <2>4, <2>6, Unwritten
<1> QED BY <1>2, <1>3

LEMMA OpenOK ==
    ASSUME ChangeInv, NEW t \in Threads, Open(t)
    PROVE  ChangeInv'
<1>1. ThreadsOK /\ EnvOK /\ RecordsOK /\ ThreadOK(t) /\ th[t] \in Locals
  BY TypeParts DEF ChangeInv, ThreadsOK
<1>2. /\ state = "proposed" /\ state' = "researching"
      /\ UNCHANGED <<plans, approved, gates, evidence, stage>>
  BY <1>1, Table DEF Open, Transition, RecordsOK
<1>3. ThreadsOK' /\ EnvOK' /\ Moves(t) /\ th'[t] = [th[t] EXCEPT !.pc = "submit"]
  BY <1>1, Gone DEF Open, env, EnvOK, Steps
<1>4. /\ th'[t].pc = "submit" /\ th'[t].k = Research /\ th'[t].goal = th[t].goal
      /\ th[t].goal # "developing"
      /\ th'[t].after = th[t].after /\ th'[t].kind = th[t].kind
  BY <1>1, <1>3 DEF Open, At, ThreadOK, LocalOK, Locals
<1>5. ThreadOK(t)'
  BY <1>1, <1>2, <1>4, Names DEF ThreadOK, LocalOK, LoopOK, LoopSteps, Loop, Builds, Research
<1>6. Keeps /\ Spares /\ Built' /\ Reviewed'
  BY <1>2 DEF Keeps, Spares, Built, Reviewed
<1>7. TypeOK'
  BY <1>1, <1>2, <1>3 DEF TypeOK, RecordsOK, EnvOK, ThreadsOK, States, Transitions
<1> QED BY <1>3, <1>5, <1>6, <1>7, Acted

LEMMA PickAttemptOK ==
    ASSUME ChangeInv, NEW t \in Threads, PickAttempt(t)
    PROVE  ChangeInv'
<1>1. ThreadsOK /\ EnvOK /\ RecordsOK /\ ThreadOK(t) /\ th[t] \in Locals
  BY TypeParts DEF ChangeInv, ThreadsOK
<1>2. PICK k \in Builds :
        /\ AttemptFor(k)
        /\ Continue(t, [th[t] EXCEPT !.pc = "submit", !.k = k, !.goal = "developing"])
  BY DEF PickAttempt
<1> DEFINE l == [th[t] EXCEPT !.pc = "submit", !.k = k, !.goal = "developing"]
<1>3. /\ l \in Locals /\ l.pc = "submit" /\ l.k = k /\ l.goal = "developing"
      /\ l.after = th[t].after /\ l.kind = th[t].kind /\ l.fresh = th[t].fresh
  BY <1>1, Names DEF Locals, Steps, Goals
<1>4. ThreadsOK' /\ Moves(t) /\ th'[t] = l
  BY <1>1, <1>2, <1>3, Continued
<1> HIDE DEF l
<1>5. EnvOK' /\ UNCHANGED recordVars
  BY <1>1 DEF PickAttempt, env, EnvOK
<1>6. ~Linked(k) => IsNext(k)
  <2>1. CASE \E j \in Builds : Current(j)
    BY <1>2, <2>1 DEF AttemptFor, Current
  <2>2. CASE ~\E j \in Builds : Current(j)
    <3>1. \A j \in Builds : Linked(j) => stage[j].plan <= plans /\ stage[j].plan # plans
      BY <2>2 DEF ChangeInv, StagesOK, Current
    <3>2. \A j \in Builds : stage[j].plan \in Int /\ plans \in Int
      BY <1>1, Names DEF RecordsOK, Stages
    <3>3. \A j \in Builds : Linked(j) => stage[j].plan < plans
      BY <3>1, <3>2
    <3> QED BY <1>2, <2>2, <3>3 DEF AttemptFor, IsNext
  <2> QED BY <2>1, <2>2
<1>7. (~Linked(k) => IsNext(k))'
  BY <1>5, <1>6 DEF Linked, IsNext, recordVars
<1>8. th[t].fresh => state' = "approved_for_build"
  BY <1>1, <1>5 DEF PickAttempt, At, ThreadOK, LocalOK, recordVars
<1>9. LocalOK(th[t])'
  BY <1>1, <1>3, <1>4, <1>7, <1>8, Names DEF LocalOK, ThreadOK, Linked, IsNext
<1>10. ThreadOK(t)'
  BY <1>1, <1>3, <1>4, <1>9 DEF ThreadOK, LoopOK, LoopSteps, Loop
<1> QED BY <1>4, <1>5, <1>10, Unwritten

LEMMA SubmitOK ==
    ASSUME ChangeInv, NEW t \in Threads, Submit(t)
    PROVE  ChangeInv'
<1>1. ThreadsOK /\ EnvOK /\ ThreadOK(t) /\ th[t] \in Locals
  BY TypeParts DEF ChangeInv, ThreadsOK
<1>2. ThreadsOK' /\ Moves(t) /\ th'[t] = [th[t] EXCEPT !.pc = "link"]
  BY <1>1, Gone DEF Submit, Steps
<1>3. EnvOK' /\ UNCHANGED recordVars /\ th[t].pc = "submit"
  BY <1>1 DEF Submit, env, EnvOK, At
<1>4. /\ th'[t].pc = "link" /\ th'[t].k = th[t].k /\ th'[t].goal = th[t].goal
      /\ th'[t].after = th[t].after /\ th'[t].kind = th[t].kind /\ th'[t].fresh = th[t].fresh
  BY <1>1, <1>2 DEF Locals
<1>5. LocalOK(th[t])'
  BY <1>1, <1>3, <1>4 DEF LocalOK, ThreadOK, Linked, IsNext, recordVars
<1>6. ThreadOK(t)'
  BY <1>1, <1>3, <1>4, <1>5 DEF ThreadOK, LoopOK, LoopSteps, Loop
<1> QED BY <1>2, <1>3, <1>6, Unwritten

\* A reconciliation that remembers its version only.
LEMMA ThenOK ==
    ASSUME ChangeInv, NEW t \in Threads, NEW pc \in {"weigh", "reread", "move"}, NEW goal \in Goals,
           Then(t, pc, goal), UNCHANGED env,
           goal = "developing" =>
                /\ pc = "move"
                /\ th[t].fresh => /\ state' = "approved_for_build"
                                  /\ (\E c \in Builds : Current(c))',
           goal = "architecture_ready" => plans' > 0
    PROVE  ThreadsOK' /\ EnvOK' /\ Moves(t) /\ ThreadOK(t)'
<1>1. ThreadsOK /\ EnvOK /\ ThreadOK(t) /\ th[t] \in Locals
  BY TypeParts DEF ChangeInv, ThreadsOK
<1> DEFINE l == [Idle EXCEPT !.pc = pc, !.goal = goal, !.after = th[t].after, !.fresh = th[t].fresh]
<1>2. /\ l \in Locals /\ l.pc = pc /\ l.goal = goal /\ l.kind = "architecture"
      /\ l.after = th[t].after /\ l.fresh = th[t].fresh
  BY <1>1, Names DEF Locals, Steps, Idle, Kinds
<1>3. ThreadsOK' /\ EnvOK' /\ Moves(t) /\ th'[t] = l
  BY <1>1, <1>2, Continued DEF Then, env, EnvOK
<1> HIDE DEF l
<1>4. LocalOK(th[t])'
  BY <1>2, <1>3 DEF LocalOK, Current, Linked
<1>5. ThreadOK(t)'
  BY <1>1, <1>2, <1>3, <1>4 DEF ThreadOK, LoopOK, LoopSteps, Loop
<1> QED BY <1>3, <1>5

LEMMA SubmittedOK ==
    ASSUME ChangeInv, NEW t \in Threads, NEW pc \in {"submit", "launch"}, At(t, pc),
           NEW ks \in SUBSET Attempts, Launched(ks), Submitted(t),
           th[t].goal = "developing" /\ th[t].fresh /\ th[t].k # Research => Current(th[t].k)
    PROVE  ChangeInv'
<1>1. ThreadsOK /\ EnvOK /\ RecordsOK /\ ThreadOK(t) /\ th[t] \in Locals
  BY TypeParts DEF ChangeInv, ThreadsOK
<1>2. /\ UNCHANGED <<state, plans, approved, gates, evidence>>
      /\ stage' \in [Attempts -> Stages]
      /\ \A k \in Attempts : stage'[k].work = stage[k].work /\ stage'[k].plan = stage[k].plan
  BY <1>1 DEF Launched, RecordsOK, Stages
<1>3. RecordsOK' /\ Keeps /\ Spares
  BY <1>1, <1>2 DEF RecordsOK, Keeps, Spares
<1>4. th[t].goal = "developing" /\ th[t].fresh /\ th[t].k # Research =>
        /\ state' = "approved_for_build"
        /\ (\E c \in Builds : Current(c))'
  <2>1. th[t].goal = "developing" /\ th[t].fresh /\ th[t].k # Research =>
            state = "approved_for_build" /\ Current(th[t].k)
    BY <1>1 DEF ThreadOK, LocalOK, At
  <2> QED BY <1>2, <2>1, Names DEF Current, Linked
<1>5. ThreadsOK' /\ EnvOK' /\ Moves(t) /\ ThreadOK(t)'
  <2>1. CASE th[t].k = Research
    <3>1. th[t].goal # "developing"
      BY <1>1, <2>1 DEF ThreadOK, LocalOK, At
    <3> QED BY <2>1, <3>1, ThenOK DEF Submitted, Goals
  <2>2. CASE th[t].k # Research /\ th[t].goal = "developing"
    BY <1>4, <2>2, ThenOK DEF Submitted, Goals
  <2>3. CASE th[t].k # Research /\ th[t].goal # "developing"
    BY <1>2, <2>3, ReturnOK DEF Submitted
  <2> QED BY <2>1, <2>2, <2>3
<1> QED BY <1>2, <1>3, <1>5, Acted, SameState, TypeParts DEF TypeOK, RecordsOK, EnvOK, ThreadsOK

LEMMA SubmitAgainOK ==
    ASSUME ChangeInv, NEW t \in Threads, SubmitAgain(t)
    PROVE  ChangeInv'
<1>1. th[t].k \in Attempts /\ LocalOK(th[t])
  BY TypeParts DEF ChangeInv, ThreadsOK, Locals, ThreadOK
<1>2. /\ At(t, "submit") /\ Submitted(t)
      /\ Launched({th[t].k} \ {j \in Attempts : Ended(j)})
      /\ th[t].k \in Builds => Current(th[t].k)
  BY DEF SubmitAgain, WorkAdmitted
<1> QED BY <1>1, <1>2, SubmittedOK DEF Attempts

LEMMA LaunchOK ==
    ASSUME ChangeInv, NEW t \in Threads, Launch(t)
    PROVE  ChangeInv'
<1>1. th[t].k \in Attempts /\ LocalOK(th[t])
  BY TypeParts DEF ChangeInv, ThreadsOK, Locals, ThreadOK
<1>2. At(t, "launch") /\ Launched({th[t].k}) /\ Submitted(t)
  BY DEF Launch
<1>3. th[t].goal = "developing" /\ th[t].fresh => Current(th[t].k)
  BY <1>1, <1>2 DEF LocalOK, At
<1> QED BY <1>1, <1>2, <1>3, SubmittedOK

LEMMA WeighOK ==
    ASSUME ChangeInv, NEW t \in Threads, Weigh(t)
    PROVE  ChangeInv'
<1>1. UNCHANGED recordVars
  BY DEF Weigh
<1>2. \/ Then(t, "move", "failed") /\ UNCHANGED env
      \/ plans' > 0 /\ Then(t, "reread", "architecture_ready") /\ UNCHANGED env
      \/ Return(t) /\ plans' = plans
  BY <1>1 DEF Weigh, recordVars
<1>3. ThreadsOK' /\ EnvOK' /\ Moves(t) /\ ThreadOK(t)'
  BY <1>2, ThenOK, ReturnOK DEF Goals
<1> QED BY <1>1, <1>3, Unwritten

LEMMA TrackOK ==
    ASSUME ChangeInv, NEW t \in Threads, Track(t)
    PROVE  ChangeInv'
<1>1. ThreadsOK /\ EnvOK /\ ThreadOK(t) /\ th[t] \in Locals
  BY TypeParts DEF ChangeInv, ThreadsOK
<1>2. UNCHANGED <<recordVars, env>> /\ At(t, "track")
  BY DEF Track
<1>3. PICK k \in Builds :
        /\ Current(k)
        /\ \/ Then(t, "reread", "verifying")
           \/ Then(t, "move", "failed")
           \/ Continue(t, [th[t] EXCEPT !.pc = "submit", !.k = k])
  BY DEF Track
<1>4. CASE Continue(t, [th[t] EXCEPT !.pc = "submit", !.k = k])
  <2> DEFINE l == [th[t] EXCEPT !.pc = "submit", !.k = k]
  <2>1. /\ l \in Locals /\ l.pc = "submit" /\ l.k = k /\ l.goal = th[t].goal
        /\ l.after = th[t].after /\ l.kind = th[t].kind
    BY <1>1, Names DEF Locals, Steps
  <2>2. ThreadsOK' /\ Moves(t) /\ th'[t] = l
    BY <1>1, <1>4, <2>1, Continued
  <2> HIDE DEF l
  <2>3. th[t].goal # "developing"
    BY <1>1, <1>2 DEF At, ThreadOK, LocalOK
  <2>4. Linked(k)'
    BY <1>2, <1>3 DEF Current, Linked, recordVars
  <2>5. LocalOK(th[t])'
    BY <1>1, <1>2, <2>1, <2>2, <2>3, <2>4 DEF LocalOK, ThreadOK, Linked, recordVars
  <2>6. ThreadOK(t)'
    BY <1>1, <2>1, <2>2, <2>5 DEF ThreadOK, LoopOK, LoopSteps, Loop
  <2> QED BY <1>1, <1>2, <2>2, <2>6, Unwritten DEF env, EnvOK
<1>5. CASE Then(t, "reread", "verifying") \/ Then(t, "move", "failed")
  BY <1>2, <1>5, ThenOK, Unwritten DEF Goals
<1> QED BY <1>3, <1>4, <1>5

LEMMA RereadOK ==
    ASSUME ChangeInv, NEW t \in Threads, Reread(t)
    PROVE  ChangeInv'
<1>1. ThreadsOK /\ EnvOK /\ ThreadOK(t) /\ th[t] \in Locals
  BY TypeParts DEF ChangeInv, ThreadsOK
<1> DEFINE l == [th[t] EXCEPT !.pc = "move", !.fresh = TRUE]
<1>2. /\ l \in Locals /\ l.pc = "move" /\ l.goal = th[t].goal
      /\ l.after = th[t].after /\ l.kind = th[t].kind
  BY <1>1 DEF Locals, Steps
<1>3. ThreadsOK' /\ Moves(t) /\ th'[t] = l
  BY <1>1, <1>2, Continued DEF Reread
<1> HIDE DEF l
<1>4. UNCHANGED <<recordVars, env>> /\ th[t].goal # "developing"
  BY <1>1 DEF Reread, At, ThreadOK, LocalOK
<1>5. LocalOK(th[t])'
  BY <1>1, <1>2, <1>3, <1>4 DEF LocalOK, ThreadOK, recordVars
<1>6. ThreadOK(t)'
  BY <1>1, <1>2, <1>3, <1>5 DEF ThreadOK, LoopOK, LoopSteps, Loop
<1> QED BY <1>1, <1>3, <1>4, <1>6, Unwritten DEF env, EnvOK

LEMMA MoveOK ==
    ASSUME ChangeInv, NEW t \in Threads, Move(t)
    PROVE  ChangeInv'
<1>1. RecordsOK /\ ThreadOK(t) /\ th[t] \in Locals
  BY TypeParts DEF ChangeInv, ThreadsOK
<1>2. /\ At(t, "move") /\ th[t].fresh /\ Return(t)
      /\ th[t].goal \in Transitions[state] /\ state' = th[t].goal
      /\ UNCHANGED <<plans, approved, gates, evidence, stage>>
  BY DEF Move, Movable, Transition
<1>3. ThreadsOK' /\ EnvOK' /\ Moves(t) /\ ThreadOK(t)'
  BY <1>2, ReturnOK
<1>4. /\ state' \in {"architecture_ready", "developing", "verifying", "failed"}
      /\ state' = "developing" => state = "approved_for_build"
      /\ state' = "verifying" => state = "developing"
      /\ state # "verifying"
  BY <1>1, <1>2, Table DEF RecordsOK, Locals, Goals
<1>5. Keeps /\ Spares /\ Reviewed'
  BY <1>2, <1>4 DEF Keeps, Spares, Reviewed
<1>6. /\ state' = "developing" => \E c \in Builds : Current(c)
      /\ state' = "architecture_ready" => plans > 0
  BY <1>1, <1>2 DEF At, ThreadOK, LocalOK
<1>7. state' = "verifying" => \E c \in Builds : Current(c)
  BY <1>4 DEF ChangeInv, Built
<1>8. Built'
  BY <1>2, <1>4, <1>6, <1>7 DEF Built, Current, Linked
<1>9. TypeOK'
  BY <1>1, <1>2, <1>3, <1>4 DEF TypeOK, RecordsOK, EnvOK, ThreadsOK, States, Transitions
<1> QED BY <1>3, <1>5, <1>8, <1>9, Acted

\* The attempt that is linked was the next one, and of no other thread's any more.
LEMMA LinkStageOK ==
    ASSUME ChangeInv, NEW t \in Threads, LinkStage(t)
    PROVE  ChangeInv'
<1>1. ThreadsOK /\ EnvOK /\ RecordsOK /\ StagesOK /\ ThreadOK(t) /\ th[t] \in Locals
  BY TypeParts DEF ChangeInv, ThreadsOK
<1>2. PICK k \in Attempts : th[t].k = k
  BY <1>1 DEF Locals
<1> DEFINE new == [work |-> "open", exec |-> "none", box |-> <<>>,
               plan |-> IF k = Research THEN 0 ELSE plans]
<1>3. /\ th[t].pc = "link" /\ ~Linked(k)
      /\ k \in Builds => plans \in approved
      /\ stage' = [stage EXCEPT ![k] = new]
      /\ UNCHANGED <<state, plans, approved, gates, evidence>>
  BY <1>2, Names DEF LinkStage, Link, Linkable, Admits, At
<1>4. k \in Builds => IsNext(k)
  BY <1>1, <1>2, <1>3 DEF ThreadOK, LocalOK
<1>5. new \in Stages /\ new.work = "open" /\ (k \in Builds => new.plan = plans)
  <2>1. <<>> \in Seq({"resume", "cancel"})
    OBVIOUS
  <2>2. (IF k = Research THEN 0 ELSE plans) \in 0 .. MaxPlans
    BY <1>1, PlansAssumption DEF RecordsOK
  <2> QED BY <2>1, <2>2, Names DEF Stages
<1>6. /\ ThreadsOK' /\ EnvOK' /\ Moves(t) /\ th'[t] = [th[t] EXCEPT !.pc = "launch"]
  BY <1>1, Gone DEF LinkStage, env, EnvOK, Steps
<1>7. TypeOK'
  BY <1>1, <1>3, <1>5, <1>6 DEF TypeOK, RecordsOK, EnvOK, ThreadsOK
<1>8. /\ stage'[k] = new
      /\ \A j \in Attempts : j # k => stage'[j] = stage[j]
  BY <1>1, <1>3 DEF RecordsOK
<1> HIDE DEF new
<1>9. \A j \in Attempts : /\ Linked(j)' <=> Linked(j) \/ j = k
                          /\ Current(j) => Current(j)'
                          /\ Fit(j) => Fit(j)'
  BY <1>3, <1>5, <1>8 DEF Linked, Current, Fit
<1>10. StagesOK'
  <2> SUFFICES ASSUME NEW j \in Builds, Linked(j)'
               PROVE  /\ stage'[j].plan \in approved /\ stage'[j].plan <= plans
                      /\ \A i \in Builds : i < j => Linked(i)' /\ stage'[i].plan < stage'[j].plan
    BY <1>3 DEF StagesOK
  <2>1. CASE j = k
    BY <1>1, <1>3, <1>4, <1>5, <1>8, <1>9, <2>1, Names DEF IsNext, RecordsOK, Builds
  <2>2. CASE j # k
    <3>1. Linked(j)
      BY <1>9, <2>2, Names
    <3>2. \A i \in Builds : i < j => i # k
      BY <1>1, <1>3, <3>1 DEF StagesOK
    <3> QED BY <1>1, <1>8, <1>9, <2>2, <3>1, <3>2, Names DEF StagesOK
  <2> QED BY <2>1, <2>2
<1>11. ASSUME NEW u \in Threads, u # t, Follows(u) PROVE ThreadOK(u)'
  <2>1. ThreadOK(u) /\ th[u] \in Locals /\ th'[u] \in Locals
    BY <1>6, <1>11, TypeParts DEF ChangeInv, ThreadsOK
  <2>2. PICK m \in Attempts : th[u].k = m
    BY <2>1 DEF Locals
  <2>3. /\ th'[u].pc = th[u].pc /\ th'[u].k = m /\ th'[u].kind = th[u].kind
        /\ th'[u].goal = th[u].goal /\ th'[u].after = th[u].after
        /\ th'[u].fresh => th[u].fresh
    BY <1>11, <2>2 DEF Follows
  <2>4. th[u].pc \in {"submit", "link"} /\ m \in Builds /\ ~Linked(m)' => IsNext(m)'
    <3> SUFFICES ASSUME th[u].pc \in {"submit", "link"}, m \in Builds, ~Linked(m)'
                 PROVE  IsNext(m)'
      OBVIOUS
    <3>1. IsNext(m) /\ ~Linked(m) /\ m # k
      BY <1>9, <2>1, <2>2 DEF ThreadOK, LocalOK
    <3>2. k \notin Builds
      BY <1>3, <1>4, <3>1 DEF IsNext, Builds
    <3> QED BY <1>3, <1>8, <3>1, <3>2, Names DEF IsNext, Linked
  <2>5. th[u].goal = "developing" /\ th'[u].fresh /\ th[u].pc # "present" =>
            /\ state' = "approved_for_build"
            /\ th[u].pc = "launch" => Current(m)'
            /\ th[u].pc = "move" => \E c \in Builds : Current(c)'
    BY <1>3, <1>9, <2>1, <2>2, <2>3, Names DEF ThreadOK, LocalOK
  <2>6. LocalOK(th[u])'
    BY <1>3, <2>1, <2>2, <2>3, <2>4, <2>5 DEF ThreadOK, LocalOK, Linked, Current, IsNext
  <2>7. CASE u = Loop
    <3>1. evidence # <<>> => Offered \in Attempts /\ Offered' = Offered
      BY <1>1, <1>3, Names DEF Offered, RecordsOK
    <3>2. /\ th[u].pc = "attest" => Fit(m)'
          /\ th[u].pc = "present" /\ th[u].kind = "acceptance" => evidence # <<>> /\ Fit(Offered)'
          /\ th[u].pc \in {"reopen", "retry"} => stage'[m].work = "failed"
      BY <1>3, <1>8, <1>9, <2>1, <2>2, <2>7, <3>1 DEF ThreadOK, LoopOK, Linked, Fit, Current, Offered
    <3> QED BY <1>3, <2>1, <2>3, <2>6, <2>7, <3>2 DEF ThreadOK, LoopOK, Fit, Current, Linked, Offered, Loop
  <2>8. CASE u # Loop
    BY <2>1, <2>3, <2>6, <2>8 DEF ThreadOK, Loop
  <2> QED BY <2>7, <2>8
<1>12. ThreadOK(t)'
  <2>1. /\ th'[t].pc = "launch" /\ th'[t].k = k /\ th'[t].goal = th[t].goal
        /\ th'[t].after = th[t].after /\ th'[t].kind = th[t].kind /\ th'[t].fresh = th[t].fresh
    BY <1>1, <1>2, <1>6 DEF Locals
  <2>2. th[t].goal = "developing" => k \in Builds /\ Current(k)'
    BY <1>1, <1>2, <1>3, <1>5, <1>8, <1>9, Names DEF ThreadOK, LocalOK, Current, Linked, Attempts
  <2>3. LocalOK(th[t])'
    BY <1>1, <1>3, <2>1, <2>2, Names DEF ThreadOK, LocalOK, Current, Linked
  <2> QED BY <1>1, <1>3, <2>1, <2>3 DEF ThreadOK, LoopOK, LoopSteps, Loop
<1>13. (\A u \in Threads : ThreadOK(u))'
  BY <1>6, <1>11, <1>12, IdleOK DEF Moves, Threads, Attempts, Builds, Loop, Desk
<1>14. Built'
  BY <1>3, <1>9, Names DEF ChangeInv, Built
<1>15. Reviewed'
  <2>1. evidence # <<>> => Offered \in Attempts /\ Offered' = Offered
    BY <1>1, <1>3, Names DEF Offered, RecordsOK
  <2> QED BY <1>3, <1>9, <2>1 DEF ChangeInv, Reviewed, Fit, Current, Linked, Offered
<1> QED BY <1>7, <1>10, <1>13, <1>14, <1>15 DEF ChangeInv

LEMMA ReconcileOK ==
    ASSUME ChangeInv, NEW t \in Threads, Reconcile(t)
    PROVE  ChangeInv'
BY ReadOK, OpenOK, PickAttemptOK, SubmitOK, SubmitAgainOK, LinkStageOK, LaunchOK, WeighOK,
   TrackOK, RereadOK, MoveOK, RaiseOK
   DEF Reconcile, SubmitRefused, LinkRefused, TrackNothing, MoveRefused

-----------------------------------------------------------------------------
(* The tools and the decisions of the owner *)

\* Thread t begins something, and writes nothing yet.
LEMMA Begun ==
    ASSUME ChangeInv, UNCHANGED recordVars, EnvOK', NEW t \in Threads, NEW l \in Locals,
           Continue(t, l), LocalOK(l),
           IF t = Loop THEN LoopOK(l) ELSE l.pc \notin LoopSteps /\ l.after = "end"
    PROVE  ChangeInv'
<1>1. ThreadsOK' /\ Moves(t) /\ th'[t] = l
  BY TypeParts, Continued DEF ChangeInv
<1>2. LocalOK(th[t])'
  BY <1>1 DEF LocalOK, Linked, Current, IsNext, recordVars
<1>3. t = Loop => LoopOK(th[t])'
  BY <1>1 DEF LoopOK, Fit, Current, Linked, Offered, recordVars
<1>4. ThreadOK(t)'
  BY <1>1, <1>2, <1>3 DEF ThreadOK, Loop
<1> QED BY <1>1, <1>4, Unwritten

LEMMA StartOK ==
    ASSUME ChangeInv, Start
    PROVE  ChangeInv'
<1>1. ThreadsOK /\ EnvOK /\ RecordsOK
  BY TypeParts DEF ChangeInv
<1> DEFINE l == [Idle EXCEPT !.pc = "read"]
<1>2. l \in Locals /\ l.pc = "read" /\ l.k = Research /\ l.goal = "none" /\ l.after = "end"
  BY Names DEF Idle, Locals, Steps
<1>3. ThreadsOK' /\ EnvOK' /\ Moves(Loop) /\ th'[Loop] = l
  BY <1>1, <1>2, Continued, Names DEF Start, Tool, env, EnvOK
<1> HIDE DEF l
<1>4. ThreadOK(Loop)'
  BY <1>2, <1>3, Names DEF ThreadOK, LocalOK, LoopOK, Loop
<1>5. state = "none" /\ state' = "proposed" /\ UNCHANGED <<plans, approved, gates, evidence, stage>>
  BY DEF Start
<1>6. Keeps /\ Built' /\ Reviewed'
  BY <1>5 DEF Keeps, Built, Reviewed
<1>7. TypeOK'
  BY <1>1, <1>3, <1>5 DEF TypeOK, RecordsOK, EnvOK, ThreadsOK, States, Transitions
<1> QED BY <1>3, <1>4, <1>6, <1>7, Acted, Names

LEMMA ProposeOK ==
    ASSUME ChangeInv, Propose
    PROVE  ChangeInv'
<1>1. PICK pc \in {"present", "add", "read"} : Tool([Idle EXCEPT !.after = "present", !.pc = pc])
  BY DEF Propose
<1> DEFINE l == [Idle EXCEPT !.after = "present", !.pc = pc]
<1>2. /\ l \in Locals /\ l.pc = pc /\ l.k = Research /\ l.goal = "none"
      /\ l.kind = "architecture"
  BY Names DEF Idle, Locals, Steps, Kinds
<1>3. Continue(Loop, l) /\ EnvOK' /\ UNCHANGED recordVars
  BY <1>1, TypeParts DEF Tool, env, EnvOK, ChangeInv, Propose
<1> HIDE DEF l
<1>4. LocalOK(l) /\ LoopOK(l)
  BY <1>2 DEF LocalOK, LoopOK
<1> QED BY <1>2, <1>3, <1>4, Begun, Names

LEMMA ReviseOK ==
    ASSUME ChangeInv, Revise
    PROVE  ChangeInv'
<1> DEFINE l == [Idle EXCEPT !.pc = "add"]
<1>1. /\ l \in Locals /\ l.pc = "add" /\ l.k = Research /\ l.goal = "none"
      /\ l.kind = "architecture" /\ l.after = "end"
  BY Names DEF Idle, Locals, Steps, Kinds
<1>2. Continue(Loop, l) /\ EnvOK' /\ UNCHANGED recordVars
  BY TypeParts DEF Tool, env, EnvOK, ChangeInv, Revise
<1> HIDE DEF l
<1>3. LocalOK(l) /\ LoopOK(l)
  BY <1>1 DEF LocalOK, LoopOK
<1> QED BY <1>1, <1>2, <1>3, Begun, Names

\* The last attempt is that of the latest architecture while the change is verified.
LEMMA PrepareAcceptanceOK ==
    ASSUME ChangeInv, PrepareAcceptance
    PROVE  ChangeInv'
<1>1. PICK k \in Builds :
        /\ LastBuild(k) /\ stage[k].work = "completed"
        /\ Tool([Idle EXCEPT !.pc = "attest", !.k = k, !.kind = "acceptance"])
  BY DEF PrepareAcceptance
<1>2. state = "verifying" /\ UNCHANGED recordVars
  BY DEF PrepareAcceptance
<1>3. Fit(k)
  <2>1. PICK c \in Builds : Current(c)
    BY <1>2 DEF ChangeInv, Built
  <2>2. Linked(k) /\ c <= k
    BY <1>1, <2>1 DEF LastBuild, Current
  <2>3. c < k => stage[c].plan < stage[k].plan /\ stage[k].plan <= plans /\ stage[c].plan = plans
    BY <2>1, <2>2 DEF ChangeInv, StagesOK, Current
  <2>4. plans \in Int /\ stage[k].plan \in Int /\ c \in Int /\ k \in Int
    BY TypeParts, Names DEF ChangeInv, RecordsOK, Stages, Builds
  <2>5. c = k
    BY <2>2, <2>3, <2>4
  <2> QED BY <1>1, <2>1, <2>5 DEF Fit
<1> DEFINE l == [Idle EXCEPT !.pc = "attest", !.k = k, !.kind = "acceptance"]
<1>4. l \in Locals /\ l.pc = "attest" /\ l.k = k /\ l.goal = "none" /\ l.after = "end"
  BY Names DEF Idle, Locals, Steps, Kinds
<1>5. Continue(Loop, l) /\ EnvOK'
  BY <1>1, TypeParts DEF Tool, env, EnvOK, ChangeInv
<1> HIDE DEF l
<1>6. LocalOK(l) /\ LoopOK(l)
  BY <1>2, <1>3, <1>4 DEF LocalOK, LoopOK
<1> QED BY <1>2, <1>4, <1>5, <1>6, Begun, Names

LEMMA AskOK ==
    ASSUME ChangeInv, NEW kind \in Kinds, Ask(kind)
    PROVE  ChangeInv'
<1> DEFINE l == [Idle EXCEPT !.pc = "verify", !.kind = kind, !.doc = Latest(kind)]
<1>1. Latest(kind) \in Nat
  BY TypeParts, PlansAssumption DEF ChangeInv, RecordsOK, Latest
<1>2. l \in Locals /\ l.pc = "verify" /\ l.goal = "none" /\ l.after = "end"
  BY <1>1, Names DEF Idle, Locals, Steps
<1>3. Continue(Desk, l) /\ EnvOK' /\ UNCHANGED recordVars
  BY TypeParts DEF Ask, env, EnvOK, ChangeInv
<1> HIDE DEF l
<1>4. LocalOK(l) /\ l.pc \notin LoopSteps
  BY <1>2 DEF LocalOK, LoopSteps
<1> QED BY <1>2, <1>3, <1>4, Begun, Names

\* A thread begins to reconcile.
LEMMA ReadBegun ==
    ASSUME ChangeInv, UNCHANGED recordVars, EnvOK', NEW t \in Threads,
           Continue(t, [Idle EXCEPT !.pc = "read"])
    PROVE  ChangeInv'
<1> DEFINE l == [Idle EXCEPT !.pc = "read"]
<1>1. l \in Locals /\ l.pc = "read" /\ l.k = Research /\ l.goal = "none" /\ l.after = "end"
  BY Names DEF Idle, Locals, Steps
<1> HIDE DEF l
<1>2. LocalOK(l) /\ LoopOK(l) /\ l.pc \notin LoopSteps
  BY <1>1 DEF LocalOK, LoopOK, LoopSteps
<1>3. Continue(t, l)
  BY DEF l
<1> QED BY <1>1, <1>2, <1>3, Begun

\* A new architecture takes the change back, and nobody holds its version any more.
LEMMA AddArchitectureOK ==
    ASSUME ChangeInv, AddArchitecture
    PROVE  ChangeInv'
<1>1. ThreadsOK /\ EnvOK /\ RecordsOK /\ StagesOK /\ ThreadOK(Loop) /\ th[Loop] \in Locals
  BY TypeParts, Names DEF ChangeInv, ThreadsOK
<1>2. /\ plans' = plans + 1 /\ plans < MaxPlans
      /\ gates' = gates \ {"architecture"}
      /\ state' = IF state \in Superseded THEN "architecture_ready" ELSE state
      /\ UNCHANGED <<approved, evidence, stage>>
      /\ UNCHANGED env
  BY DEF AddArchitecture, AddPlan, Revisable
<1>3. PICK pc \in {"read", "present"} : Go(Loop, pc)
  BY DEF AddArchitecture
<1>4. ThreadsOK' /\ Moves(Loop) /\ th'[Loop] = [th[Loop] EXCEPT !.pc = pc]
  <2>1. pc \in Steps
    BY DEF Steps
  <2> QED BY <1>1, <1>3, <2>1, Gone, Names
<1>5. TypeOK'
  BY <1>1, <1>2, <1>4, PlansAssumption
     DEF TypeOK, RecordsOK, EnvOK, ThreadsOK, env, States, Transitions
<1>6. \A j \in Attempts : (Linked(j)' <=> Linked(j)) /\ stage'[j].plan = stage[j].plan
  BY <1>2 DEF Linked
<1>7. StagesOK'
  <2>1. \A j \in Builds : stage[j].plan \in Nat /\ plans \in Nat
    BY <1>1, Names, PlansAssumption DEF RecordsOK, Stages
  <2> SUFFICES ASSUME NEW j \in Builds, Linked(j)'
               PROVE  /\ stage'[j].plan \in approved' /\ stage'[j].plan <= plans'
                      /\ \A i \in Builds : i < j => Linked(i)' /\ stage'[i].plan < stage'[j].plan
    BY DEF StagesOK, Builds, Linked
  <2>2. /\ stage[j].plan \in approved /\ stage[j].plan <= plans
        /\ \A i \in Builds : i < j => Linked(i) /\ stage[i].plan < stage[j].plan
    BY <1>1, <1>6, Names DEF StagesOK
  <2> QED BY <1>2, <1>6, <2>1, <2>2, Names
<1>8. state' \notin {"approved_for_build", "developing", "verifying", "waiting_owner_acceptance", "ready_for_promotion"}
  BY <1>2 DEF Superseded
<1>9. Built' /\ Reviewed' /\ plans' > 0
  <2>1. plans' > 0
    BY <1>1, <1>2, PlansAssumption DEF RecordsOK
  <2> QED BY <1>8, <2>1 DEF Built, Reviewed
<1>10. ASSUME NEW u \in Threads, u # Loop, Follows(u) PROVE ThreadOK(u)'
  <2>1. ThreadOK(u) /\ th[u] \in Locals
    BY <1>10, TypeParts DEF ChangeInv, ThreadsOK
  <2>2. PICK m \in Attempts : th[u].k = m
    BY <2>1 DEF Locals
  <2>3. /\ th'[u].pc = th[u].pc /\ th'[u].k = m /\ th'[u].kind = th[u].kind
        /\ th'[u].goal = th[u].goal /\ th'[u].after = th[u].after
        /\ th'[u].fresh => th[u].fresh /\ state' = state
    BY <1>10, <2>2 DEF Follows
  <2>4. IsNext(m) => IsNext(m)'
    BY <1>1, <1>2, <1>6, Names DEF IsNext, RecordsOK, Stages
  <2>5. th[u].pc \in {"submit", "link"} /\ m \in Builds /\ ~Linked(m)' => IsNext(m)'
    BY <1>6, <2>1, <2>2, <2>4 DEF ThreadOK, LocalOK
  <2>6. /\ th[u].goal = "developing" /\ th[u].pc # "present" => ~th'[u].fresh
        /\ th[u].pc = "plan" => ~th'[u].fresh
    BY <1>8, <2>1, <2>3 DEF ThreadOK, LocalOK
  <2>7. LocalOK(th[u])'
    BY <1>9, <2>1, <2>2, <2>3, <2>5, <2>6 DEF ThreadOK, LocalOK, Linked, IsNext
  <2> QED BY <1>10, <2>1, <2>3, <2>7 DEF ThreadOK, Loop
<1>11. ThreadOK(Loop)'
  <2>1. /\ th'[Loop].pc = pc /\ th'[Loop].kind = th[Loop].kind /\ th'[Loop].k = th[Loop].k
        /\ th'[Loop].goal = th[Loop].goal /\ th'[Loop].after = th[Loop].after
    BY <1>1, <1>4 DEF Locals
  <2>2. th[Loop].pc = "add"
    BY DEF AddArchitecture, At
  <2> QED BY <1>1, <1>9, <2>1, <2>2 DEF ThreadOK, LocalOK, LoopOK, Loop
<1>12. (\A u \in Threads : ThreadOK(u))'
  BY <1>4, <1>10, <1>11, IdleOK DEF Moves, Threads, Attempts, Builds, Loop, Desk
<1> QED BY <1>5, <1>7, <1>9, <1>12 DEF ChangeInv

LEMMA AttestOK ==
    ASSUME ChangeInv, Attest
    PROVE  ChangeInv'
<1>1. ThreadsOK /\ EnvOK /\ RecordsOK /\ ThreadOK(Loop) /\ th[Loop] \in Locals
  BY TypeParts, Names DEF ChangeInv, ThreadsOK
<1>2. PICK k \in Attempts : th[Loop].k = k
  BY <1>1 DEF Locals
<1>3. state = "verifying" /\ Fit(k)
  BY <1>1, <1>2 DEF Attest, At, ThreadOK, LoopOK
<1>4. /\ evidence' = Append(evidence, k) /\ gates' = gates \ {"acceptance"}
      /\ UNCHANGED <<state, plans, approved, stage>>
  BY <1>2 DEF Attest, AddEvidence
<1>5. k \in Builds
  BY <1>3 DEF Fit, Current
<1>6. evidence' \in Seq(Builds) /\ evidence' # <<>> /\ Offered' = k
  BY <1>1, <1>4, <1>5 DEF RecordsOK, Offered
<1> DEFINE l == [Idle EXCEPT !.pc = "present", !.kind = "acceptance"]
<1>7. l \in Locals /\ l.pc = "present" /\ l.goal = "none" /\ l.after = "end" /\ l.kind = "acceptance"
  BY Names DEF Idle, Locals, Steps, Kinds
<1>8. ThreadsOK' /\ EnvOK' /\ Moves(Loop) /\ th'[Loop] = l
  BY <1>1, <1>7, Continued, Names DEF Attest, Tool, env, EnvOK
<1> HIDE DEF l
<1>9. Fit(k)'
  BY <1>3, <1>4 DEF Fit, Current, Linked
<1>10. LoopOK(th[Loop])'
  BY <1>3, <1>4, <1>6, <1>7, <1>8, <1>9 DEF LoopOK, Fit, Current, Linked, Offered, Loop
<1>11. ThreadOK(Loop)'
  BY <1>7, <1>8, <1>10 DEF ThreadOK, LocalOK, Loop
<1>12. Keeps /\ Reviewed'
  BY <1>3, <1>4 DEF Keeps, Reviewed
<1>13. Built'
  BY <1>4 DEF ChangeInv, Built, Current, Linked
<1>14. TypeOK'
  BY <1>1, <1>4, <1>6, <1>8 DEF TypeOK, RecordsOK, EnvOK, ThreadsOK
<1> QED BY <1>8, <1>11, <1>12, <1>13, <1>14, Acted, Names

LEMMA PresentGateOK ==
    ASSUME ChangeInv, PresentGate
    PROVE  ChangeInv'
<1>1. ThreadsOK /\ EnvOK /\ RecordsOK /\ ThreadOK(Loop) /\ th[Loop] \in Locals
  BY TypeParts, Names DEF ChangeInv, ThreadsOK
<1>2. PICK kind \in Kinds : th[Loop].kind = kind
  BY <1>1 DEF Locals
<1>3. /\ state \in {Gate[kind].required, Gate[kind].waiting}
      /\ gates' = gates \cup {kind} /\ state' = Gate[kind].waiting
      /\ UNCHANGED <<plans, approved, evidence, stage>>
  BY <1>2 DEF PresentGate, Present, Presentable
<1>4. ThreadsOK' /\ EnvOK' /\ Moves(Loop) /\ ThreadOK(Loop)'
  BY <1>1, Finished, IdleOK, Names DEF PresentGate
<1>5. Keeps
  BY <1>3 DEF Keeps
<1>6. CASE kind = "architecture"
  <2>1. state' = "waiting_owner_approval"
    BY <1>3, <1>6 DEF Gate
  <2>2. Built' /\ Reviewed'
    BY <1>3, <1>6, <2>1 DEF Built, Reviewed, ChangeInv, Gate
  <2>3. TypeOK'
    BY <1>1, <1>3, <1>4, <2>1 DEF TypeOK, RecordsOK, EnvOK, ThreadsOK, States, Transitions
  <2> QED BY <1>4, <1>5, <2>2, <2>3, Acted, Names
<1>7. CASE kind = "acceptance"
  <2>1. state' = "waiting_owner_acceptance" /\ state = "verifying" /\ evidence # <<>> /\ Fit(Offered)
    BY <1>1, <1>2, <1>3, <1>7 DEF Gate, ThreadOK, LoopOK, PresentGate, At
  <2>2. Built'
    BY <1>3, <2>1 DEF ChangeInv, Built, Current, Linked
  <2>3. Reviewed'
    BY <1>3, <2>1 DEF Reviewed, Fit, Current, Linked, Offered
  <2>4. TypeOK'
    BY <1>1, <1>3, <1>4, <2>1 DEF TypeOK, RecordsOK, EnvOK, ThreadsOK, States, Transitions
  <2> QED BY <1>4, <1>5, <2>2, <2>3, <2>4, Acted, Names
<1> QED BY <1>6, <1>7 DEF Kinds

LEMMA DecideGateOK ==
    ASSUME ChangeInv, DecideGate
    PROVE  ChangeInv'
<1>1. ThreadsOK /\ EnvOK /\ RecordsOK /\ th[Desk] \in Locals
  BY TypeParts, Names DEF ChangeInv, ThreadsOK
<1>2. PICK kind \in Kinds : th[Desk].kind = kind
  BY <1>1 DEF Locals
<1>3. /\ Latest(kind) = th[Desk].doc /\ state = Gate[kind].waiting
      /\ \/ /\ state' = Gate[kind].granted
            /\ approved' = IF kind = "architecture" THEN approved \cup {th[Desk].doc} ELSE approved
         \/ state' = "rejected" /\ approved' = approved
      /\ UNCHANGED <<plans, gates, evidence, stage>>
  BY <1>2 DEF DecideGate, Decide, Decidable
<1> DEFINE l == [Idle EXCEPT !.pc = "read"]
<1>4. l \in Locals /\ l.pc = "read" /\ l.k = Research /\ l.goal = "none" /\ l.after = "end"
  BY Names DEF Idle, Locals, Steps
<1>5. ThreadsOK' /\ EnvOK' /\ Moves(Desk) /\ th'[Desk] = l
  BY <1>1, <1>4, Continued, Names DEF DecideGate, env, EnvOK
<1> HIDE DEF l
<1>6. ThreadOK(Desk)'
  BY <1>4, <1>5, Names DEF ThreadOK, LocalOK, LoopSteps, Desk, Loop
<1>7. Keeps /\ Spares
  BY <1>2, <1>3 DEF Keeps, Spares, Gate, Kinds
<1>8. state' \in {"approved_for_build", "rejected", "ready_for_promotion"}
  BY <1>2, <1>3 DEF Gate, Kinds
<1>9. state' = "ready_for_promotion" => state = "waiting_owner_acceptance"
  BY <1>2, <1>3 DEF Gate, Kinds
<1>10. Built' /\ Reviewed'
  <2>1. Built'
    BY <1>3, <1>8, <1>9 DEF ChangeInv, Built, Current, Linked
  <2>2. Reviewed'
    BY <1>3, <1>8, <1>9 DEF ChangeInv, Reviewed, Fit, Current, Linked, Offered
  <2> QED BY <2>1, <2>2
<1>11. approved' \subseteq Builds
  <2>1. CASE kind = "architecture" /\ state' = "approved_for_build"
    <3>1. state = "waiting_owner_approval" /\ th[Desk].doc = plans
      BY <1>3, <2>1 DEF Latest, Gate
    <3>2. plans \in Builds
      BY <1>1, <1>2, <3>1, Names DEF ChangeInv, Built, RecordsOK, Builds
    <3> QED BY <1>1, <1>3, <2>1, <3>1, <3>2 DEF RecordsOK
  <2>2. CASE kind # "architecture" \/ state' # "approved_for_build"
    BY <1>1, <1>2, <1>3, <2>2 DEF RecordsOK, Gate, Kinds
  <2> QED BY <2>1, <2>2
<1>12. TypeOK'
  BY <1>1, <1>3, <1>5, <1>8, <1>11
     DEF TypeOK, RecordsOK, EnvOK, ThreadsOK, States, Transitions
<1> QED BY <1>5, <1>6, <1>7, <1>10, <1>12, Acted, Names

LEMMA ReopenChangeOK ==
    ASSUME ChangeInv, ReopenChange
    PROVE  ChangeInv'
<1>1. ThreadsOK /\ EnvOK /\ RecordsOK /\ ThreadOK(Loop) /\ th[Loop] \in Locals
  BY TypeParts, Names DEF ChangeInv, ThreadsOK
<1>2. PICK k \in Attempts : th[Loop].k = k
  BY <1>1 DEF Locals
<1>3. /\ th[Loop].pc = "reopen" /\ stage[k].work = "failed"
      /\ k \in Builds => Current(k)
      /\ state' = StageState(k)
      /\ UNCHANGED <<plans, approved, gates, evidence, stage>>
  BY <1>2 DEF ReopenChange, Reopen, Reopenable, At
<1> DEFINE l == [th[Loop] EXCEPT !.pc = "retry"]
<1>4. /\ l \in Locals /\ l.pc = "retry" /\ l.k = k /\ l.goal = th[Loop].goal
      /\ l.after = th[Loop].after /\ l.kind = th[Loop].kind
  BY <1>1, <1>2 DEF Locals, Steps
<1>5. ThreadsOK' /\ EnvOK' /\ Moves(Loop) /\ th'[Loop] = l
  BY <1>1, <1>4, Continued, Names DEF ReopenChange, Tool, env, EnvOK
<1> HIDE DEF l
<1>6. ThreadOK(Loop)'
  BY <1>1, <1>3, <1>4, <1>5 DEF ThreadOK, LocalOK, LoopOK, Loop
<1>7. state' \in {"researching", "developing"} /\ (state' = "developing" => k \in Builds)
  BY <1>3 DEF StageState, Attempts
<1>8. Keeps /\ Reviewed' /\ Built'
  BY <1>3, <1>7 DEF Keeps, Reviewed, Built, Current, Linked
<1>9. TypeOK'
  BY <1>1, <1>3, <1>5, <1>7 DEF TypeOK, RecordsOK, EnvOK, ThreadsOK, States, Transitions
<1> QED BY <1>5, <1>6, <1>8, <1>9, Acted, Names

\* The WorkItem of attempt k becomes s, which ends nothing that went on.
LEMMA Reworked ==
    ASSUME ChangeInv, NEW k \in Attempts, NEW s \in Stages, Rework(k, s),
           s.work # "none" <=> Linked(k), s.plan = stage[k].plan,
           stage[k].work # "completed" \/ s.work = "completed"
    PROVE  RecordsOK' /\ Keeps /\ Built' /\ Reviewed'
<1>1. RecordsOK
  BY TypeParts DEF ChangeInv
<1>2. /\ stage' \in [Attempts -> Stages] /\ stage'[k] = s
      /\ \A j \in Attempts : j # k => stage'[j] = stage[j]
      /\ UNCHANGED <<state, plans, approved, gates, evidence>>
  BY <1>1 DEF Rework, RecordsOK
<1>3. Keeps
  BY <1>2 DEF Keeps, Linked
<1> QED BY <1>1, <1>2, <1>3, SameState DEF RecordsOK

\* The same, while no thread acts, and of an item that has not failed.
LEMMA ReworkedAside ==
    ASSUME ChangeInv, NEW k \in Attempts, NEW s \in Stages, Rework(k, s), UNCHANGED th, EnvOK',
           s.work # "none" <=> Linked(k), s.plan = stage[k].plan,
           stage[k].work \notin {"completed", "failed"} \/ s.work = stage[k].work
    PROVE  ChangeInv'
<1>1. RecordsOK' /\ Keeps
  BY Reworked
<1>2. Spares /\ UNCHANGED <<th, state>>
  BY TypeParts DEF Rework, Spares, ChangeInv, RecordsOK
<1>3. TypeOK'
  BY <1>1, TypeParts DEF TypeOK, RecordsOK, EnvOK, ThreadsOK, ChangeInv
<1> QED BY <1>1, <1>2, <1>3, Aside

LEMMA RetryWorkOK ==
    ASSUME ChangeInv, RetryWork
    PROVE  ChangeInv'
<1>1. ThreadsOK /\ EnvOK /\ RecordsOK /\ ThreadOK(Loop) /\ th[Loop] \in Locals
  BY TypeParts, Names DEF ChangeInv, ThreadsOK
<1>2. PICK k \in Attempts : th[Loop].k = k
  BY <1>1 DEF Locals
<1> DEFINE s == [stage[k] EXCEPT !.work = "open", !.exec = "live", !.box = <<>>]
<1>3. stage[k].work = "failed" /\ stage[k] \in Stages /\ Rework(k, s)
  BY <1>1, <1>2 DEF RetryWork, At, ThreadOK, LoopOK, RecordsOK
<1>4. s \in Stages /\ s.work = "open" /\ s.plan = stage[k].plan
  <2>1. <<>> \in Seq({"resume", "cancel"})
    OBVIOUS
  <2> QED BY <1>3, <2>1 DEF Stages
<1> HIDE DEF s
<1>5. RecordsOK' /\ Keeps /\ Built' /\ Reviewed'
  BY <1>3, <1>4, Reworked DEF Linked
<1>6. ThreadsOK' /\ EnvOK' /\ Moves(Loop) /\ ThreadOK(Loop)'
  BY <1>1, Finished, IdleOK, Names DEF RetryWork
<1>7. TypeOK'
  BY <1>5, <1>6 DEF TypeOK, RecordsOK, EnvOK, ThreadsOK
<1> QED BY <1>5, <1>6, <1>7, Acted, Names

LEMMA Spent ==
    ASSUME EnvOK, NEW what \in {"owner", "crash"}, Spend(what)
    PROVE  fuel' \in [owner : 0 .. MaxCommands, crash : 0 .. MaxCrashes]
BY FuelAssumption DEF EnvOK, Spend

\* The commands that change the item of a stage.
LEMMA CommandOK ==
    ASSUME ChangeInv, NEW k \in Attempts, PauseStage(k) \/ ResumeStage(k) \/ CancelStage(k)
    PROVE  ChangeInv'
<1>1. EnvOK /\ RecordsOK /\ stage[k] \in Stages
  BY TypeParts DEF ChangeInv, RecordsOK
<1>2. EnvOK' /\ UNCHANGED th
  BY <1>1, Spent DEF PauseStage, ResumeStage, CancelStage, Commanded, EnvOK
<1>3. CASE PauseStage(k)
  <2> DEFINE s == [stage[k] EXCEPT !.work = "paused"]
  <2>1. s \in Stages /\ s.work = "paused" /\ s.plan = stage[k].plan
    BY <1>1 DEF Stages
  <2>2. Rework(k, s) /\ stage[k].work = "open"
    BY <1>3 DEF PauseStage
  <2> QED BY <1>2, <2>1, <2>2, ReworkedAside DEF Linked
<1>4. CASE ResumeStage(k)
  <2> DEFINE s == [stage[k] EXCEPT !.work = "open", !.box = Append(@, "resume")]
  <2>1. s \in Stages /\ s.work = "open" /\ s.plan = stage[k].plan
    <3>1. stage[k].box \in Seq({"resume", "cancel"})
      BY <1>1 DEF Stages
    <3>2. Append(stage[k].box, "resume") \in Seq({"resume", "cancel"})
      BY <3>1
    <3> QED BY <1>1, <3>2 DEF Stages
  <2>2. Rework(k, s) /\ stage[k].work = "paused"
    BY <1>4 DEF ResumeStage
  <2> QED BY <1>2, <2>1, <2>2, ReworkedAside DEF Linked
<1>5. CASE CancelStage(k)
  <2> DEFINE s == [stage[k] EXCEPT !.work = "cancelled", !.box = Append(@, "cancel")]
  <2>1. s \in Stages /\ s.work = "cancelled" /\ s.plan = stage[k].plan
    <3>1. stage[k].box \in Seq({"resume", "cancel"})
      BY <1>1 DEF Stages
    <3>2. Append(stage[k].box, "cancel") \in Seq({"resume", "cancel"})
      BY <3>1
    <3> QED BY <1>1, <3>2 DEF Stages
  <2>2. Rework(k, s) /\ Linked(k) /\ stage[k].work \notin {"completed", "failed"}
    BY <1>5 DEF CancelStage, Ended
  <2> QED BY <1>2, <2>1, <2>2, ReworkedAside
<1> QED BY <1>3, <1>4, <1>5

LEMMA RetryStageOK ==
    ASSUME ChangeInv, NEW k \in Attempts, RetryStage(k)
    PROVE  ChangeInv'
<1> DEFINE l == [Idle EXCEPT !.pc = "reopen", !.k = k]
<1>1. l \in Locals /\ l.pc = "reopen" /\ l.k = k /\ l.goal = "none" /\ l.after = "end"
  BY Names DEF Idle, Locals, Steps
<1>2. Continue(Loop, l) /\ UNCHANGED recordVars /\ stage[k].work = "failed"
  BY DEF RetryStage
<1>3. EnvOK'
  BY Spent, TypeParts DEF ChangeInv, RetryStage, Commanded, EnvOK
<1> HIDE DEF l
<1>4. LocalOK(l) /\ LoopOK(l)
  BY <1>1, <1>2 DEF LocalOK, LoopOK
<1> QED BY <1>1, <1>2, <1>3, <1>4, Begun, Names

LEMMA OwnerOK ==
    ASSUME ChangeInv, Owner
    PROVE  ChangeInv'
BY StartOK, ProposeOK, ReviseOK, PrepareAcceptanceOK, CommandOK, RetryStageOK DEF Owner

LEMMA ToolStepOK ==
    ASSUME ChangeInv, ToolStep
    PROVE  ChangeInv'
<1>1. CASE RetryFails
  <2>1. EnvOK'
    BY <1>1, TypeParts DEF RetryFails, Tool, env, EnvOK, ChangeInv
  <2> QED BY <1>1, <2>1, ReadBegun, Names DEF RetryFails, Tool
<1>2. CASE AddRefused \/ PresentRefused \/ ReopenRefused
  BY <1>2, RaiseOK, Names DEF AddRefused, PresentRefused, ReopenRefused
<1> QED BY <1>1, <1>2, AddArchitectureOK, AttestOK, PresentGateOK, ReopenChangeOK, RetryWorkOK
        DEF ToolStep

LEMMA AskAgainOK ==
    ASSUME ChangeInv, AskAgain
    PROVE  ChangeInv'
<1>1. EnvOK'
  BY Spent, TypeParts DEF ChangeInv, AskAgain, Commanded, EnvOK
<1> QED BY <1>1, ReadBegun, Names DEF AskAgain

-----------------------------------------------------------------------------
(* The WorkItem of a stage, crashes and startup *)

LEMMA EngineOK ==
    ASSUME ChangeInv, NEW k \in Attempts, Engine(k)
    PROVE  ChangeInv'
<1>1. EnvOK /\ RecordsOK /\ stage[k] \in Stages
  BY TypeParts DEF ChangeInv, RecordsOK
<1>2. EnvOK' /\ UNCHANGED th
  BY <1>1 DEF Engine, Advance, Yield, EnvOK
<1>3. CASE UNCHANGED recordVars
  <2>1. Keeps /\ Spares /\ TypeOK'
    BY <1>2, <1>3, TypeParts DEF recordVars, Keeps, Spares, TypeOK, RecordsOK, EnvOK, ThreadsOK, ChangeInv
  <2> QED BY <1>2, <1>3, <2>1, Aside DEF recordVars
<1>4. CASE Advance(k) /\ ~UNCHANGED recordVars
  <2> DEFINE s == [stage[k] EXCEPT !.work = "paused", !.exec = "parked"]
  <2>1. s \in Stages /\ s.work = "paused" /\ s.plan = stage[k].plan
    BY <1>1 DEF Stages
  <2>2. Rework(k, s) /\ stage[k].work = "open"
    BY <1>4 DEF Advance
  <2> QED BY <1>2, <2>1, <2>2, ReworkedAside DEF Linked
<1>5. CASE Yield(k) /\ ~UNCHANGED recordVars
  <2>1. PICK work \in {"completed", "failed"} :
            stage[k].work = "open" /\ Rework(k, [stage[k] EXCEPT !.work = work, !.exec = "done"])
    BY <1>5 DEF Yield
  <2> DEFINE s == [stage[k] EXCEPT !.work = work, !.exec = "done"]
  <2>2. s \in Stages /\ s.work = work /\ s.plan = stage[k].plan
    BY <1>1 DEF Stages
  <2> QED BY <1>2, <2>1, <2>2, ReworkedAside DEF Linked
<1> QED BY <1>3, <1>4, <1>5 DEF Engine

LEMMA ExecutionOK ==
    ASSUME ChangeInv, NEW k \in Attempts, Execution(k)
    PROVE  ChangeInv'
<1>1. EnvOK /\ RecordsOK /\ stage[k] \in Stages /\ k \in Threads
  BY TypeParts, Names DEF ChangeInv, RecordsOK
<1>2. EnvOK'
  BY <1>1 DEF Execution, Observe, Receive, Notice, env, EnvOK
<1>3. CASE Notice(k)
  BY <1>1, <1>2, <1>3, ReadBegun DEF Notice
<1>4. ASSUME NEW s \in Stages, Rework(k, s), UNCHANGED th,
             s.work = stage[k].work, s.plan = stage[k].plan
      PROVE  ChangeInv'
  BY <1>2, <1>4, ReworkedAside DEF Linked
<1>5. CASE Observe(k)
  <2>1. PICK exec \in {"done", "parked"} : Rework(k, [stage[k] EXCEPT !.exec = exec])
    BY <1>5 DEF Observe
  <2> DEFINE s == [stage[k] EXCEPT !.exec = exec]
  <2>2. s \in Stages /\ s.work = stage[k].work /\ s.plan = stage[k].plan
    BY <1>1 DEF Stages
  <2> QED BY <1>4, <1>5, <2>1, <2>2 DEF Observe
<1>6. CASE Receive(k)
  <2>1. PICK exec \in {"live", "done"} :
            Rework(k, [stage[k] EXCEPT !.box = Tail(@), !.exec = exec])
    BY <1>6 DEF Receive
  <2> DEFINE s == [stage[k] EXCEPT !.box = Tail(@), !.exec = exec]
  <2>2. stage[k].box \in Seq({"resume", "cancel"}) /\ stage[k].box # <<>>
    BY <1>1, <1>6 DEF Stages, Receive
  <2>3. Tail(stage[k].box) \in Seq({"resume", "cancel"})
    BY <2>2
  <2>4. s \in Stages /\ s.work = stage[k].work /\ s.plan = stage[k].plan
    BY <1>1, <2>3 DEF Stages
  <2> QED BY <1>4, <1>6, <2>1, <2>4 DEF Receive
<1> QED BY <1>3, <1>5, <1>6 DEF Execution

LEMMA NoticeUnheardOK ==
    ASSUME ChangeInv, NEW k \in Attempts, NoticeUnheard(k)
    PROVE  ChangeInv'
<1>1. UNCHANGED <<recordVars, th, acting, up, fuel>> /\ ending' = ending \ {k}
  BY DEF NoticeUnheard
<1>2. Keeps /\ Spares /\ TypeOK'
  BY <1>1, TypeParts DEF recordVars, Keeps, Spares, TypeOK, RecordsOK, EnvOK, ThreadsOK, ChangeInv
<1> QED BY <1>1, <1>2, Aside DEF recordVars

\* Whatever a process knew is lost with it.
LEMMA CrashOK ==
    ASSUME ChangeInv, Crash
    PROVE  ChangeInv'
<1>1. EnvOK' /\ UNCHANGED recordVars
  BY Spent, TypeParts DEF ChangeInv, Crash, EnvOK
<1>2. ThreadsOK' /\ Moves(Loop) /\ th'[Loop] = Idle
  BY Names DEF Crash, ThreadsOK, Moves
<1> QED BY <1>1, <1>2, IdleOK, Unwritten, Names

LEMMA BootOK ==
    ASSUME ChangeInv, Boot
    PROVE  ChangeInv'
<1> DEFINE l == [Idle EXCEPT !.pc = "boot"]
<1>1. l \in Locals /\ l.pc = "boot" /\ l.k = Research /\ l.goal = "none" /\ l.after = "end"
  BY Names DEF Idle, Locals, Steps
<1>2. Continue(Loop, l) /\ UNCHANGED recordVars
  BY DEF Boot
<1>3. EnvOK'
  BY TypeParts DEF ChangeInv, Boot, EnvOK
<1> HIDE DEF l
<1>4. LocalOK(l) /\ LoopOK(l)
  BY <1>1 DEF LocalOK, LoopOK
<1> QED BY <1>1, <1>2, <1>3, <1>4, Begun, Names

LEMMA BootReconcileOK ==
    ASSUME ChangeInv, BootReconcile
    PROVE  ChangeInv'
<1>1. ThreadsOK /\ EnvOK /\ RecordsOK /\ ThreadOK(Loop) /\ th[Loop] \in Locals
  BY TypeParts, Names DEF ChangeInv, ThreadsOK
<1>2. /\ UNCHANGED <<state, plans, approved, gates, evidence>>
      /\ stage' \in [Attempts -> Stages]
      /\ \A k \in Attempts : stage'[k].work = stage[k].work /\ stage'[k].plan = stage[k].plan
  BY <1>1, ZenonT(60) DEF BootReconcile, Launched, RecordsOK, Stages
<1>3. RecordsOK' /\ Keeps
  BY <1>1, <1>2 DEF RecordsOK, Keeps
<1>4. Built' /\ Reviewed'
  BY <1>2, <1>3, SameState
<1>5. CASE Finish(Loop)
  BY <1>1, <1>3, <1>4, <1>5, Finished, IdleOK, Acted, Names
     DEF TypeOK, RecordsOK, EnvOK, ThreadsOK
<1>6. CASE Go(Loop, "read") /\ UNCHANGED env
  <2>1. "read" \in Steps
    BY DEF Steps
  <2>2. ThreadsOK' /\ EnvOK' /\ Moves(Loop) /\ th'[Loop] = [th[Loop] EXCEPT !.pc = "read"]
    BY <1>1, <1>6, <2>1, Gone, Names DEF env, EnvOK
  <2>3. /\ th'[Loop].pc = "read" /\ th'[Loop].k = th[Loop].k /\ th'[Loop].kind = th[Loop].kind
        /\ th'[Loop].goal = th[Loop].goal /\ th'[Loop].after = th[Loop].after
        /\ th[Loop].pc = "boot"
    BY <1>1, <2>2 DEF Locals, BootReconcile, At
  <2>4. ThreadOK(Loop)'
    <3>1. LocalOK(th[Loop]) /\ th[Loop].pc = "boot"
      BY <1>1, <2>3 DEF ThreadOK
    <3>2. th[Loop].k = Research
      BY <3>1 DEF LocalOK
    <3> QED BY <1>1, <1>2, <2>3, <3>1, <3>2 DEF ThreadOK, LocalOK, LoopOK, Loop
  <2>5. TypeOK'
    BY <1>3, <2>2 DEF TypeOK, RecordsOK, EnvOK, ThreadsOK
  <2> QED BY <1>3, <1>4, <2>2, <2>4, <2>5, Acted, Names
<1> QED BY <1>5, <1>6 DEF BootReconcile

-----------------------------------------------------------------------------

LEMMA Initially == Init => ChangeInv
<1> SUFFICES ASSUME Init PROVE ChangeInv
  OBVIOUS
<1>1. /\ state = "none" /\ plans = 0 /\ approved = {} /\ gates = {} /\ evidence = <<>>
      /\ \A k \in Attempts : stage[k] = NoStage
      /\ \A t \in Threads : th[t] = Idle
  BY DEF Init, RecordInit
<1>2. TypeOK
  <2>1. NoStage \in Stages
    BY PlansAssumption DEF NoStage, Stages
  <2>2. RecordsOK
    BY <2>1, PlansAssumption DEF Init, RecordInit, RecordsOK, States, Transitions
  <2>3. EnvOK
    BY FuelAssumption DEF Init, EnvOK
  <2>4. ThreadsOK
    BY Names DEF Init, ThreadsOK
  <2> QED BY <2>2, <2>3, <2>4, TypeParts
<1>3. StagesOK
  BY <1>1, Names DEF StagesOK, Linked, NoStage
<1>4. ASSUME NEW t \in Threads PROVE ThreadOK(t)
  BY <1>1, <1>4 DEF ThreadOK, LocalOK, LoopOK, Idle, LoopSteps
<1>5. Built /\ Reviewed
  BY <1>1 DEF Built, Reviewed
<1> QED BY <1>2, <1>3, <1>4, <1>5 DEF ChangeInv

LEMMA Inductive == ChangeInv /\ [Next]_vars => ChangeInv'
<1> SUFFICES ASSUME ChangeInv, [Next]_vars PROVE ChangeInv'
  OBVIOUS
<1>1. CASE \E t \in Threads : Reconcile(t)
  BY <1>1, ReconcileOK
<1>2. CASE Owner \/ ToolStep
  BY <1>2, OwnerOK, ToolStepOK
<1>3. CASE \E kind \in Kinds : Ask(kind)
  BY <1>3, AskOK
<1>4. CASE AskAgain \/ DecideGate \/ DecideRefused
  BY <1>4, AskAgainOK, DecideGateOK, RaiseOK, Names DEF DecideRefused
<1>5. CASE \E k \in Attempts : Engine(k) \/ Execution(k) \/ NoticeUnheard(k)
  BY <1>5, EngineOK, ExecutionOK, NoticeUnheardOK
<1>6. CASE Crash \/ Boot \/ BootReconcile
  BY <1>6, CrashOK, BootOK, BootReconcileOK
<1>7. CASE UNCHANGED vars
  <2>1. UNCHANGED <<recordVars, th, env>>
    BY <1>7 DEF vars
  <2>2. Keeps /\ Spares /\ TypeOK'
    BY <2>1, TypeParts
       DEF recordVars, env, Keeps, Spares, TypeOK, RecordsOK, EnvOK, ThreadsOK, ChangeInv
  <2> QED BY <2>1, <2>2, Aside DEF recordVars
<1> QED BY <1>1, <1>2, <1>3, <1>4, <1>5, <1>6, <1>7 DEF Next

\* Every reachable state satisfies the inductive invariant of the change.
LEMMA Invariance == Spec => []ChangeInv
BY Initially, Inductive, PTL DEF Spec

\* The records, the threads and the executions of a change have their types.
THEOREM ChangeTyping == Spec => []TypeOK
<1>1. ChangeInv => TypeOK
  BY DEF ChangeInv
<1> QED BY <1>1, Invariance, PTL

\* What the owner accepts is the completed development of the latest architecture,
\* which he approved, however the tools, the decisions, the callbacks and the
\* startups of a change interleave.
THEOREM AcceptedCurrent == Spec => []AcceptedIsCurrent
<1>1. ChangeInv => AcceptedIsCurrent
  <2> SUFFICES ASSUME ChangeInv, state \in {"waiting_owner_acceptance", "ready_for_promotion"}
               PROVE  /\ evidence # <<>>
                      /\ stage[Offered].work = "completed"
                      /\ stage[Offered].plan = plans /\ plans \in approved
    BY DEF AcceptedIsCurrent
  <2>1. evidence # <<>> /\ Current(Offered) /\ stage[Offered].work = "completed"
    BY DEF ChangeInv, Reviewed, Fit
  <2>2. stage[Offered].plan \in approved
    BY <2>1 DEF ChangeInv, StagesOK, Current
  <2> QED BY <2>1, <2>2 DEF Current
<1> QED BY <1>1, Invariance, PTL

\* One architecture is developed by one WorkItem, for any number of threads that
\* reconcile the change.
THEOREM OneStage == Spec => []OneStagePerPlan
<1>1. ChangeInv => OneStagePerPlan
  <2> SUFFICES ASSUME ChangeInv, NEW j \in Builds, NEW k \in Builds,
                      Linked(j), Linked(k), stage[j].plan = stage[k].plan
               PROVE  j = k
    BY DEF OneStagePerPlan
  <2>1. /\ j < k => stage[j].plan < stage[k].plan
        /\ k < j => stage[k].plan < stage[j].plan
    BY DEF ChangeInv, StagesOK
  <2>2. stage[j].plan \in Int /\ stage[k].plan \in Int /\ j \in Int /\ k \in Int
    BY TypeParts, Names, SMTT(60) DEF ChangeInv, RecordsOK, Stages, Builds
  <2> QED BY <2>1, <2>2
<1> QED BY <1>1, Invariance, PTL
=============================================================================
