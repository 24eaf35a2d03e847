----------------------------- MODULE CalmProofs ------------------------------
(***************************************************************************)
(* What holds, until the first crash, of the items that executions work    *)
(* on, for any number of items, retries and cycles.                        *)
(*                                                                         *)
(* An active item has an execution (ActiveWorkIsDriven), unless a workflow *)
(* used up the attempts of a step. The inductive invariant is Watched: an  *)
(* active item is being launched, is Going, or is being cancelled.         *)
(*                                                                         *)
(* Unless the owner pauses items, waiting spends no cycle (WaitingIsFree). *)
(* The inductive invariant is Frugal: a cycle that is to be counted has    *)
(* left its row, or has still to leave it on every way its calls may end,  *)
(* and an item whose execution waits for the lease waits too.              *)
(***************************************************************************)
EXTENDS RuntimeProofs

-----------------------------------------------------------------------------
(* Active items have somebody to run them *)

\* No workflow used up the attempts of its step.
NobodyGaveUp == \A e \in Execs : wf[e].st # "error"

Cancels == <<Move("cancelled", "keep"), Clear>>

\* The main thread is about to start an execution of w, or to fail it instead.
Launching(w) == th[Main].w = w /\ \E i \in DOMAIN th[Main].todo : Starts(th[Main].todo[i])

\* The main thread has told the execution of w to end, and is to cancel w.
Cancelling(w) ==
    /\ th[Main].w = w
    /\ \/ th[Main].pc = "cancel" /\ th[Main].todo = <<>>
       \/ th[Main].pc = "cancelled" /\ th[Main].todo = Cancels

Manned ==
    \A w \in Works : Active(item[w]) =>
        Launching(w) \/ Cancelling(w) \/ \E e \in Execs : e[1] = w /\ Going(e)

\* What completed or was cancelled in the eyes of a thread is so on record.
Absorbed ==
    \A t \in Threads :
        th[t].w \in Works /\ th[t].held.state \in {"completed", "cancelled"} =>
            item[th[t].w].state = th[t].held.state

\* Whoever holds a failed item has failed it, or found it so, and finishes.
FailuresFinish == \A e \in Execs : th[e].held.state = "failed" => Finishing(e)

\* The step that ends a workflow returns when its item has ended.
Ending ==
    \A e \in Execs : th[e].pc = "ret" /\ wf[e].at \notin {"advance", "apply"} =>
        \/ /\ th[e].held.state \in Terminal
           /\ \A i \in DOMAIN th[e].todo : th[e].todo[i].op \in {"notify", "clear"}
        \/ th[e].todo = <<Move("failed", "keep"), Clear, Notify>>

\* The main thread is on its way to an execution that nobody has started yet, or
\* holds the item it fails because it could not.
Ready(rec) ==
    \/ /\ rec.todo = <<Launch>> /\ rec.held = item[rec.w]
       /\ item[rec.w].state = "queued" /\ wf[<<rec.w, 0>>].st = "none"
    \/ rec.todo \in {Again, Tail(Again), Tail(Tail(Again))} /\ item[rec.w].state = "failed"
    \/ /\ rec.todo \in {<<Restart, Bind>>, <<Read, Move("failed", "keep"), Notify>>}
       /\ item[rec.w].state = "retrying"
    \/ /\ rec.todo \in {<<Move("failed", "none"), Notify>>, <<Move("failed", "keep"), Notify>>}
       /\ rec.held = item[rec.w] /\ item[rec.w].state \in {"queued", "retrying"}

Poised == (\E i \in DOMAIN th[Main].todo : Starts(th[Main].todo[i])) => Ready(th[Main])

\* The parts of cancel and of retry come in their order.
SendsEnd(o) == o.op = "send" /\ o.a # "resume"
Revives(o)  == o.op = "move" /\ o.a = "retrying"

Ordered(rec) ==
    /\ rec.pc = "cancel" => rec.todo \in {<<>>, <<Send("cancel")>>}
    /\ rec.pc = "cancelled" => rec.todo \in {Cancels, <<Clear>>, <<>>}
    /\ \A i \in DOMAIN rec.todo : SendsEnd(rec.todo[i]) => rec.pc = "cancel"
    /\ \A i \in DOMAIN rec.todo : Revives(rec.todo[i]) =>
          rec.todo \in {Again, Tail(Again), Tail(Tail(Again))}

\* An item that is not there has no execution.
Unstarted == \A e \in Execs : item[e[1]].state = "absent" => wf[e].st = "none"

\* An execution is told to end only by a cancel that goes on to end its item.
ToldToEnd(e) == \E i \in DOMAIN inbox[e].control : inbox[e].control[i] # "resume"

CancelSent ==
    \A e \in Execs : ToldToEnd(e) =>
        /\ wf[e].st # "none"
        /\ ~Going(e) \/ ~Active(item[e[1]]) \/ Cancelling(e[1])

Steady == FailuresFinish /\ Poised /\ Ordered(th[Main]) /\ Unstarted /\ CancelSent

Watched ==
    /\ Driven /\ Absorbed /\ Ending
    /\ Calm => Steady
    /\ Calm /\ NobodyGaveUp => Manned

-----------------------------------------------------------------------------
(* Rows and threads *)

\* A workflow takes a step while it is live.
LEMMA StepsAreLive ==
    ASSUME TypeOK, BusyIsLive, NEW e \in Execs, WorkflowStep(e)
    PROVE  wf[e].st = "live"
BY DEF WorkflowStep, StepReturns, StepRaises, ReceiveAnswer, ReceiveControl, AtStep, BusyIsLive

\* A workflow that was started stays started, and one that gave up stays so.
LEMMA RowsStay ==
    ASSUME Sealing, BusyIsLive, [Next]_vars, NEW e \in Execs
    PROVE  /\ wf[e].st # "none" => wf'[e].st # "none"
           /\ wf[e].st = "error" => wf'[e].st = "error"
<1>1. TypeOK /\ wf \in [Execs -> Workflow(Message \cup {NoMessage})]
    BY DEF Sealing, Pausing, Execution, Versions, TypeOK, DbosOK
<1>2. wf[e] \in Workflow(Message \cup {NoMessage})
    BY <1>1
<1>3. CASE WorkflowStep(e)
  <2>1. wf[e].st = "live"
      BY <1>1, <1>3, StepsAreLive
  <2>2. CASE StepReturns(e)
    <3> DEFINE row == wf[e] state == th[e].held.state
    <3>1. wf'[e] = CASE row.at = "advance" -> AfterAdvance(row, state)
                     [] row.at = "apply"   -> [row EXCEPT !.at = "advance", !.msg = NoMessage]
                     [] OTHER              -> [row EXCEPT !.st = "done"]
        BY <1>1, <2>2 DEF StepReturns
    <3>2. AfterAdvance(row, state).st \in {"done", row.st}
        BY <1>2 DEF AfterAdvance, Workflow
    <3>3. /\ [row EXCEPT !.at = "advance", !.msg = NoMessage].st = row.st
          /\ [row EXCEPT !.st = "done"].st = "done"
        BY <1>2 DEF Workflow
    <3> HIDE DEF row, state
    <3>4. wf'[e].st \in {"done", row.st}
      <4>1. CASE row.at = "advance"
          BY <3>1, <3>2, <4>1
      <4>2. CASE row.at = "apply"
          BY <3>1, <3>3, <4>2
      <4>3. CASE row.at # "advance" /\ row.at # "apply"
          BY <3>1, <3>3, <4>3
      <4> QED BY <4>1, <4>2, <4>3
    <3> QED BY <2>1, <3>4 DEF row
  <2>3. CASE StepRaises(e)
      BY <1>1, <1>2, <2>1, <2>3 DEF StepRaises, Workflow
  <2>4. CASE ReceiveAnswer(e)
      BY <1>1, <1>2, <2>1, <2>4 DEF ReceiveAnswer, Workflow
  <2>5. CASE ReceiveControl(e)
    <3>1. /\ [wf[e] EXCEPT !.at = "advance"].st = wf[e].st
          /\ [wf[e] EXCEPT !.st = "done"].st = "done"
        BY <1>2 DEF Workflow
    <3>2. wf'[e] \in {[wf[e] EXCEPT !.at = "advance"], [wf[e] EXCEPT !.st = "done"]}
        BY <1>1, <2>5 DEF ReceiveControl
    <3> QED BY <2>1, <3>1, <3>2
  <2> QED BY <1>3, <2>2, <2>3, <2>4, <2>5 DEF WorkflowStep
<1>4. CASE BootResubmit
    BY <1>1, <1>2, <1>4 DEF BootResubmit, Workflow
<1>5. ASSUME NEW g \in Execs, Submit(g)
      PROVE  /\ wf[e].st # "none" => wf'[e] = wf[e]
    BY <1>1, <1>5 DEF Submit, Workflow
<1> QED BY <1>3, <1>4, <1>5, RowMoves

\* The main thread goes on as it is told, unless it has returned.
LEMMA MainRuns ==
    ASSUME TypeOK, NEW rec, Run(Main, rec), ~Returned(rec)
    PROVE  th'[Main] = rec
BY ThreadFacts DEF Run, TypeOK, ThreadsOK

\* Only start writes an item that is not there.
LEMMA OnlyStartCreates ==
    ASSUME Versions, [Next]_vars, NEW w \in Works, item[w].state = "absent",
           item'[w].state # "absent"
    PROVE  OwnerStart(w)
<1>1. TypeOK /\ item \in [Works -> Item]
    BY DEF Versions, TypeOK, StoreOK
<1>2. ASSUME NEW t \in Threads, DoSave(t), th[t].w = w
      PROVE  FALSE
  <2>1. Permitted(th[t], Head(th[t].todo)) /\ th[t].held = item[w]
      BY <1>2, SavedRecord
  <2> QED BY <2>1 DEF Permitted, CanMove, CanTouch, Active, WorkStates, Waiting, Terminal
<1>3. ASSUME NEW t \in Threads, StoreCall(t)
      PROVE  FALSE
  <2>1. DoSave(t)
      BY <1>3 DEF StoreCall, DoRead, RejectSave, DoAdd, DoMark, DoInterrupt, DoNotify,
                  DoBlocker, DoClear, DoSend, DoSubmit, DoRestart, DoBind, storeVars
  <2> QED BY <1>2, <2>1, SavedRecord
<1>4. ASSUME NEW e \in Execs, EngineStep(e)
      PROVE  FALSE
  <2>1. ApplySealed(e)
      BY <1>4 DEF EngineStep, AdvanceStopped, AdvanceDependent, Advance, Admit, Admission,
             DecideTooLate, BrainUnavailable, BrainFails, BrainCompletes, BrainAsks,
             BrainActs, Leased, LeaseRefused, Executed, StepDone, StepAsks, StepFails,
             ApplyPlain, FailBounded, Only, Pressed, storeVars
  <2>2. /\ item' = [item EXCEPT ![e[1]] = Transition(item[e[1]], "running", 0)]
        /\ item[e[1]].state = "waiting_for_owner"
      BY <2>1 DEF ApplySealed, PutItem, AnswersNow
  <2> QED BY <1>1, <2>2
<1>5. ASSUME OwnerStep
      PROVE  OwnerStart(w)
  <2>1. PICK v \in Works : OwnerStart(v)
      BY <1>5 DEF OwnerStep, OwnerPause, OwnerResume, OwnerCancel, OwnerRetry,
             OwnerReprioritize, OwnerAnswer, storeVars
  <2>2. item' = [item EXCEPT ![v] = NewItem]
      BY SMTT(30), <2>1 DEF OwnerStart, PutItem
  <2> QED BY <1>1, <2>1, <2>2
<1>6. ~(\E e \in Execs : WorkflowStep(e)) /\ ~MainStep /\ ~BackendFault(Main) /\ ~Crash
      /\ ~UNCHANGED vars
    BY DEF WorkflowStep, StepReturns, StepRaises, ReceiveAnswer, ReceiveControl, MainStep,
           CancelAgain, BootStart, BootLaunch, BootResubmit, BootInterrupted, BackendFault,
           Crash, Only, storeVars, vars
<1> QED BY <1>3, <1>4, <1>5, <1>6 DEF Next

\* An item that nobody is going for changes by the main thread, the creation of the
\* item, or a sealed answer.
LEMMA ItemRests ==
    ASSUME Sealing, BusyIsLive, [Next]_vars, ~DoSave(Main), NEW w \in Works, NobodyFor(w),
           item[w].state \notin {"absent", "waiting_for_owner"}
    PROVE  item'[w] = item[w]
<1> SUFFICES ASSUME item'[w] # item[w]
             PROVE  FALSE
    OBVIOUS
<1>1. Versions /\ TypeOK
    BY DEF Sealing, Pausing, Execution, Versions
<1>2. PICK t \in Threads : DoSave(t) /\ th[t].w = w
    BY <1>1, ItemWrites
<1>3. StoreCall(t) /\ t # Main
    BY <1>2 DEF StoreCall
<1>4. t \in Execs /\ t[1] = w
    BY <1>1, <1>2, <1>3, ThreadFacts, ExecOK
<1>5. Finishing(t)
    BY <1>3, <1>4, EngineCallsOnly DEF NobodyFor, Going, BusyIsLive
<1>6. th[t].todo \in Seq(Call) /\ th[t].todo # <<>>
    BY <1>3, CallBasics DEF Sealing, Pausing
<1>7. Head(th[t].todo).op \in {"notify", "clear"}
    BY <1>5, <1>6 DEF Finishing
<1> QED BY <1>2, <1>7 DEF DoSave, Calls

-----------------------------------------------------------------------------
(* What threads hold *)

LEMMA AbsorbedNext ==
    ASSUME Sealing, Absorbed, [Next]_vars
    PROVE  Absorbed'
<1> SUFFICES ASSUME NEW t \in Threads, th'[t].w \in Works,
                    th'[t].held.state \in {"completed", "cancelled"}
             PROVE  item'[th'[t].w].state = th'[t].held.state
    BY DEF Absorbed
<1>1. Versions /\ TypeOK /\ TypeOK'
    BY TypesNext DEF Sealing, Pausing, Execution, Versions
<1>2. Knows(t)
    BY <1>1, NextEffect DEF Effects, ThreadEffect
<1>3. \A w \in Works : item[w].state \in {"completed", "cancelled"} =>
          item'[w].state = item[w].state
    BY <1>1, CompletedStays, CancelledStays
<1>4. CASE th'[t].held = th[t].held /\ th'[t].w = th[t].w
  <2>1. item[th[t].w].state = th[t].held.state
      BY <1>4 DEF Absorbed
  <2> QED BY <1>3, <1>4, <2>1
<1>5. CASE th'[t].held = Absent
    BY <1>5 DEF Absent
<1>6. CASE th'[t].w \in Works /\ th'[t].held \in {item[th'[t].w], item'[th'[t].w]}
    BY <1>3, <1>6
<1> QED BY <1>2, <1>4, <1>5, <1>6 DEF Knows

LEMMA FailuresFinishNext ==
    ASSUME Driven, Driven', Undisturbed, Undisturbed', FailuresFinish, ~Crash, [Next]_vars
    PROVE  FailuresFinish'
<1> SUFFICES ASSUME NEW e \in Execs, th'[e].held.state = "failed"
             PROVE  Finishing(e)'
    BY DEF FailuresFinish
<1>1. Sealing /\ BusyIsLive /\ Versions /\ TypeOK /\ TypeOK'
    BY DEF Driven, Sealing, Pausing, Execution, Versions
<1>2. e \in Threads /\ e[1] \in Works /\ th'[e].w = e[1]
    BY <1>1, ThreadFacts DEF TypeOK, ThreadsOK, OwnItem
<1>3. CASE WorkflowStep(e)
  <2>1. StepReturns(e) \/ StepRaises(e) => th'[e].held = Absent
    <3>1. \A n : [Idle(e[1]) EXCEPT !.tries = n].held = Absent
        BY DEF Idle
    <3>2. Idle(e[1]).held = Absent
        BY DEF Idle
    <3>3. th' = [th EXCEPT ![e] = th'[e]] /\ e \in DOMAIN th
        BY <1>1, <1>2, <1>3 DEF TypeOK, ThreadsOK, WorkflowStep, StepReturns, StepRaises,
           ReceiveAnswer, ReceiveControl, volatile
    <3>4. StepReturns(e) => th'[e] = Idle(e[1])
        BY <3>3 DEF StepReturns
    <3>5. StepRaises(e) => \E n : th'[e] = [Idle(e[1]) EXCEPT !.tries = n]
        BY <3>3 DEF StepRaises
    <3> QED BY <3>1, <3>2, <3>4, <3>5
  <2>2. ReceiveAnswer(e) \/ ReceiveControl(e) => th' = th /\ th[e].pc = "idle"
      BY DEF ReceiveAnswer, ReceiveControl, volatile, AtStep
  <2>3. th' = th /\ th[e].pc = "idle" => FALSE
      BY DEF FailuresFinish, Finishing
  <2> QED BY <1>3, <2>1, <2>2, <2>3 DEF WorkflowStep, Absent
<1>4. ASSUME Finishing(e), ~WorkflowStep(e)
      PROVE  Finishing(e)'
  <2>1. wf[e].st = "live"
      BY <1>1, <1>4 DEF Finishing, BusyIsLive
  <2>2. wf'[e] = wf[e]
      BY <1>1, <1>4, <2>1, LiveRowMoves
  <2> QED BY <1>1, <1>4, <2>1, <2>2, FinishingMoves
<1>5. CASE th'[e] = th[e] /\ ~WorkflowStep(e)
    BY <1>4, <1>5 DEF FailuresFinish
<1>6. CASE (StoreCall(e) \/ EngineStep(e)) /\ ~WorkflowStep(e)
  <2>1. wf[e].st = "live"
      BY <1>1, <1>6, EngineCallsOnly, EngineIsLive DEF BusyIsLive
  <2>2. wf'[e] = wf[e]
      BY <1>1, <1>6, <2>1, LiveRowMoves
  <2>3. Knows(e)
      BY <1>1, <1>2, NextEffect DEF Effects, ThreadEffect
  <2>4. CASE th'[e].held = th[e].held
      BY <1>4, <1>6, <2>4 DEF FailuresFinish
  <2>5. CASE item'[e[1]].state = "failed"
    <3>1. ~Going(e)'
        BY <1>2, <2>5 DEF Undisturbed, NobodyForFailed, NobodyFor
    <3> QED BY <2>1, <2>2, <3>1 DEF Going
  <2>6. CASE item[e[1]].state = "failed"
    <3>1. ~Going(e)
        BY <1>2, <2>6 DEF Undisturbed, NobodyForFailed, NobodyFor
    <3> QED BY <1>4, <1>6, <2>1, <3>1 DEF Going
  <2> QED BY <1>2, <2>3, <2>4, <2>5, <2>6 DEF Knows, Absent
<1> QED BY <1>1, <1>3, <1>5, <1>6, NextMoves

LEMMA EndingNext ==
    ASSUME Sealing, BusyIsLive, Ending, [Next]_vars
    PROVE  Ending'
<1> DEFINE Ends(rec) == \/ /\ rec.held.state \in Terminal
                           /\ \A i \in DOMAIN rec.todo : rec.todo[i].op \in {"notify", "clear"}
                        \/ rec.todo = <<Move("failed", "keep"), Clear, Notify>>
<1> SUFFICES ASSUME NEW e \in Execs, th'[e].pc = "ret", wf'[e].at \notin {"advance", "apply"}
             PROVE  Ends(th'[e])
    BY DEF Ending
<1>1. Versions /\ TypeOK /\ TypeOK' /\ Placed(e)
    BY TypesNext DEF Sealing, Pausing, Execution, Versions
<1>2. ~WorkflowStep(e)
    BY <1>1, OwnRowMoves
<1>3. ~Crash
    BY <1>1, IdleIsFree, ExecOK DEF Crash
<1>4. th'[e] = th[e] \/ StoreCall(e) \/ EngineStep(e)
    BY <1>1, <1>2, <1>3, NextMoves
<1>5. wf[e].st = "live"
    BY <1>4, EngineCallsOnly, EngineIsLive DEF BusyIsLive
<1>6. wf'[e] = wf[e]
    BY <1>2, <1>5, LiveRowMoves
<1>7. CASE th'[e] = th[e]
    BY <1>6, <1>7 DEF Ending
<1>8. CASE EngineStep(e)
  <2>1. th[e].pc \notin Inside
      BY <1>1, <1>6 DEF Placed
  <2>2. FailBounded(e)
      BY <1>6, <1>8, <2>1 DEF EngineStep, AdvanceStopped, AdvanceDependent, Advance, Admit,
         DecideTooLate, BrainUnavailable, BrainFails, BrainCompletes, BrainAsks, BrainActs,
         Leased, LeaseRefused, Executed, StepDone, StepAsks, StepFails, ApplyPlain,
         ApplySealed, AtStep, Resumes, Continues, Decides, Inside
  <2>3. \/ Segment(e, item[e[1]], "ret", <<Clear>>) /\ item[e[1]].state \in Terminal
        \/ Segment(e, item[e[1]], "ret", <<Move("failed", "keep"), Clear, Notify>>)
      BY <2>2 DEF FailBounded, Only
  <2>4. e \in Threads /\ e # Main
      BY ThreadFacts
  <2>5. CASE Segment(e, item[e[1]], "ret", <<Clear>>) /\ item[e[1]].state \in Terminal
    <3>1. th'[e].todo = <<Clear>> /\ th'[e].held = item[e[1]]
        BY <1>1, <2>4, <2>5, SegmentMoves
    <3> QED BY <2>5, <3>1, CallOps
  <2>6. CASE Segment(e, item[e[1]], "ret", <<Move("failed", "keep"), Clear, Notify>>)
      BY <1>1, <2>4, <2>6, SegmentMoves
  <2> QED BY <2>3, <2>5, <2>6
<1>9. CASE StoreCall(e)
  <2> DEFINE q == th[e].todo
  <2>1. q \in Seq(Call) /\ q # <<>> /\ e \in Threads /\ e # Main /\ th[e].w = e[1] /\ th[e] \in Thread
      BY <1>9, CallBasics, ThreadFacts DEF Sealing, Pausing
  <2>2. Execution
      BY DEF Sealing, Pausing
  <2>3. th'[e].pc = th[e].pc /\ th'[e].todo = Tail(q) /\ ~RejectSave(e)
      BY <1>1, <1>9, <2>1, CallMoves
  <2>4. Ends(th[e])
      BY <1>6, <2>3 DEF Ending
  <2>5. CASE th[e].held.state \in Terminal
             /\ \A i \in DOMAIN q : q[i].op \in {"notify", "clear"}
    <3>1. Head(q).op \in {"notify", "clear"}
        BY <2>1, <2>5
    <3>2. \A i \in DOMAIN Tail(q) : Tail(q)[i].op \in {"notify", "clear"}
      <4>1. \A i \in DOMAIN Tail(q) : i + 1 \in DOMAIN q /\ Tail(q)[i] = q[i + 1]
          BY <2>1
      <4> QED BY <2>5, <4>1
    <3>3. th'[e].held.state = th[e].held.state
        BY <1>1, <1>9, <2>2, <2>3, <3>1, CallEffect
    <3> QED BY <2>3, <2>5, <3>2, <3>3
  <2>6. CASE q = <<Move("failed", "keep"), Clear, Notify>>
    <3>1. Head(q) = Move("failed", "keep") /\ Tail(q) = <<Clear, Notify>>
        BY <2>6
    <3>2. Fails(Head(q)) /\ Head(q).op = "move" /\ Head(q).a = "failed"
        BY <3>1, CallOps DEF Fails
    <3>3. DoSave(e)
        BY <1>9, <2>3, <3>2 DEF StoreCall, DoRead, DoAdd, DoMark, DoInterrupt, DoNotify,
           DoBlocker, DoClear, DoSend, DoSubmit, DoRestart, DoBind, Calls
    <3>4. th'[e].held = NewRecord(th[e], Head(q))
        BY <1>1, <2>1, <3>3, SavedRecord
    <3>5. NewRecord(th[e], Head(q)) = Transition(th[e].held, "failed", StepArg(th[e], Head(q).b))
        BY <3>2 DEF NewRecord
    <3>6. \A s : Transition(th[e].held, "failed", s).state = "failed"
        BY DEF Transition
    <3>7. th'[e].held.state = "failed"
        BY <3>4, <3>5, <3>6
    <3>8. \A i \in DOMAIN <<Clear, Notify>> : <<Clear, Notify>>[i].op \in {"notify", "clear"}
        BY CallOps
    <3> QED BY <2>3, <3>1, <3>7, <3>8 DEF Terminal
  <2> QED BY <2>4, <2>5, <2>6
<1> QED BY <1>4, <1>7, <1>8, <1>9

-----------------------------------------------------------------------------
(* The main thread *)

OrderFree == {o \in Call : ~SendsEnd(o) /\ ~Revives(o)}

LEMMA OrderFreeLists ==
    /\ <<>> \in Seq(OrderFree) /\ <<Launch>> \in Seq(OrderFree) /\ <<Clear>> \in Seq(OrderFree)
    /\ <<Touch("keep")>> \in Seq(OrderFree) /\ <<Move("paused", "keep")>> \in Seq(OrderFree)
    /\ <<Read, Move("paused", "keep")>> \in Seq(OrderFree)
    /\ Cancels \in Seq(OrderFree)
    /\ <<Move("failed", "none"), Notify>> \in Seq(OrderFree)
    /\ <<Read, Move("failed", "keep"), Notify>> \in Seq(OrderFree)
    /\ <<Restart, Bind>> \in Seq(OrderFree)
    /\ \A it \in Item : <<Move(ResumeTarget(it), "keep"), Send("resume")>> \in Seq(OrderFree)
<1>1. {"paused", "cancelled", "failed"} \subseteq WorkStates \ {"retrying"}
      /\ \A it \in Item : ResumeTarget(it) \in WorkStates \ {"retrying"}
    BY DEF WorkStates, Waiting, Terminal, ResumeTarget, Item
<1>2. \A to \in WorkStates \ {"retrying"}, s \in {"none", "keep"} : Move(to, s) \in OrderFree
    BY CallTypes DEF Move, Op, OrderFree, SendsEnd, Revives
<1>3. {Read, Bind, Notify, Clear, Touch("keep"), Launch, Restart} \subseteq OrderFree
  <2>1. Bind.op = "bind" /\ Launch.op = "submit" /\ Restart.op = "restart"
      BY DEF Bind, Launch, Restart, Op
  <2>2. \A o \in {Read, Bind, Notify, Clear, Touch("keep"), Launch, Restart} :
            o.op \in {"read", "bind", "notify", "clear", "touch", "submit", "restart"}
      BY <2>1, CallOps
  <2>3. {Read, Bind, Notify, Clear, Touch("keep"), Launch, Restart} \subseteq Call
      BY CallTypes
  <2> QED BY <2>2, <2>3 DEF OrderFree, SendsEnd, Revives
<1>4. Send("resume") \in OrderFree
    BY CallTypes DEF Send, Op, OrderFree, SendsEnd, Revives
<1>5. \A it \in Item : Move(ResumeTarget(it), "keep") \in OrderFree
    BY <1>1, <1>2
<1>6. /\ Move("paused", "keep") \in OrderFree /\ Move("cancelled", "keep") \in OrderFree
      /\ Move("failed", "keep") \in OrderFree /\ Move("failed", "none") \in OrderFree
    BY <1>1, <1>2
<1> QED BY <1>3, <1>4, <1>5, <1>6, ShortSeqs DEF Cancels

LEMMA FaultLists == \A op, a : OnFault(op, a) \in Seq(OrderFree)
BY OrderFreeLists DEF OnFault

\* Commands that neither cancel an active item nor retry.
LEMMA FreshOrder ==
    ASSUME NEW rec, rec.pc = "idle", rec.todo \in Seq(OrderFree)
    PROVE  Ordered(rec)
BY DEF Ordered, OrderFree

LEMMA SentToEnd ==
    /\ SendsEnd(Send("cancel")) /\ ~Revives(Send("cancel")) /\ Send("cancel").op = "send"
    /\ Send("cancel").a = "cancel"
BY DEF SendsEnd, Revives, Send, Op

LEMMA AgainIsOrdered ==
    /\ \A i \in DOMAIN Again : ~SendsEnd(Again[i])
    /\ Again # <<>>
<1>1. \A i \in DOMAIN Again : Again[i] \in {Add("note"), Mark("completed", ""),
                                           Move("retrying", "none"), Restart, Bind}
  <2>1. \A a, b, c, d, f : \A i \in DOMAIN <<a, b, c, d, f>> :
            <<a, b, c, d, f>>[i] \in {a, b, c, d, f}
      OBVIOUS
  <2> QED BY <2>1 DEF Again
<1>2. /\ Add("note").op = "add" /\ Move("retrying", "none").op = "move"
      /\ Restart.op = "restart" /\ Bind.op = "bind"
    BY DEF Add, Move, Restart, Bind, Op
<1>3. Mark("completed", "").op = "mark"
    BY DEF Mark, Op
<1>4. \A i \in DOMAIN Again : ~SendsEnd(Again[i])
  <2>1. ~SendsEnd(Mark("completed", ""))
      BY <1>3 DEF SendsEnd
  <2> DEFINE mark == Mark("completed", "")
  <2> HIDE DEF mark
  <2> QED BY <1>1, <1>2, <2>1 DEF SendsEnd, mark
<1> QED BY <1>4 DEF Again

LEMMA OwnerOrders ==
    ASSUME TypeOK, OwnerStep
    PROVE  \/ th'[Main] = th[Main]
           \/ th[Main] = Idle(Owner) /\ Ordered(th'[Main])
<1>1. PICK w \in Works :
          \/ OwnerStart(w) \/ OwnerPause(w) \/ OwnerResume(w) \/ OwnerCancel(w)
          \/ OwnerRetry(w) \/ OwnerReprioritize(w) \/ OwnerAnswer(w)
    BY DEF OwnerStep
<1>2. Ordered(Idle(Owner))
    BY IdleIsFree, FreshOrder, OrderFreeLists
<1>3. th[Main] = Idle(Owner)
    BY <1>1 DEF OwnerStart, OwnerPause, OwnerResume, OwnerCancel, OwnerRetry,
       OwnerReprioritize, OwnerAnswer, Commanded
<1>4. ASSUME NEW held, NEW calls \in Seq(OrderFree), Command(w, held, "idle", calls)
      PROVE  Ordered(th'[Main])
    BY <1>2, <1>4, CommandMoves, FreshOrder
<1>5. CASE OwnerRetry(w)
  <2>1. Command(w, item[w], "idle", Again)
      BY <1>5 DEF OwnerRetry, Again
  <2>2. th'[Main].pc = "idle" /\ th'[Main].todo = Again => Ordered(th'[Main])
      BY AgainIsOrdered DEF Ordered
  <2> QED BY <1>2, <1>3, <2>1, <2>2, CommandMoves
<1>6. CASE OwnerAnswer(w)
    BY <1>6 DEF OwnerAnswer, volatile
<1>7. CASE OwnerResume(w)
  <2>1. item[w] \in Item
      BY DEF TypeOK, StoreOK
  <2> QED BY <1>3, <1>4, <1>7, <2>1, OrderFreeLists DEF OwnerResume
<1>8. CASE OwnerCancel(w)
  <2>1. \/ Command(w, item[w], "idle", <<Clear>>)
        \/ Command(w, item[w], "cancel", <<Send("cancel")>>)
      BY <1>8 DEF OwnerCancel
  <2>2. ASSUME th'[Main].pc = "cancel", th'[Main].todo = <<Send("cancel")>>
        PROVE  Ordered(th'[Main])
    <3>1. \A i \in DOMAIN th'[Main].todo : th'[Main].todo[i] = Send("cancel")
        BY <2>2
    <3> QED BY <2>2, <3>1, SentToEnd DEF Ordered
  <2> QED BY <1>2, <1>3, <1>4, <2>1, <2>2, CommandMoves, OrderFreeLists
<1>9. CASE OwnerStart(w) \/ OwnerPause(w) \/ OwnerReprioritize(w)
    BY <1>3, <1>4, <1>9, OrderFreeLists DEF OwnerStart, OwnerPause, OwnerReprioritize
<1> QED BY <1>1, <1>5, <1>6, <1>7, <1>8, <1>9

LEMMA CancelLists ==
    /\ Tail(Cancels) = <<Clear>> /\ Head(Cancels) = Move("cancelled", "keep")
    /\ Tail(<<Clear>>) = <<>> /\ Tail(<<Send("cancel")>>) = <<>>
    /\ Cancels # <<>>
    /\ Cancels \notin {<<Clear>>, <<Send("cancel")>>}
BY DEF Cancels

LEMMA OrderedNext ==
    ASSUME Sealing, Undisturbed, Ordered(th[Main]), ~Crash, [Next]_vars
    PROVE  Ordered(th'[Main])
<1> DEFINE me == th[Main]
           q  == th[Main].todo
<1>1. TypeOK /\ me.pc # "boot" /\ up = "up" /\ Main \in Threads
    BY ThreadFacts DEF Undisturbed, Sealing, Pausing, Execution, Versions
<1>2. th'[Main] = me \/ StoreCall(Main) \/ OwnerStep \/ CancelAgain \/ BackendFault(Main)
    BY <1>1, MainActs
<1>3. Ordered(Idle(Owner))
    BY IdleIsFree, FreshOrder, OrderFreeLists
<1>4. CASE StoreCall(Main)
  <2>1. q \in Seq(Call) /\ q # <<>>
      BY <1>1, <1>4, CallBasics DEF Sealing, Pausing
  <2>2. CASE th'[Main].todo = <<>> /\ th'[Main].pc \in {"raise", "cancel"}
      BY <2>2 DEF Ordered
  <2>3. CASE th'[Main].todo = Tail(q) /\ th'[Main].pc = me.pc
    <3>1. \A i \in DOMAIN Tail(q) : i + 1 \in DOMAIN q /\ Tail(q)[i] = q[i + 1]
        BY <2>1
    <3>2. me.pc = "cancel" => Tail(q) = <<>>
        BY <2>1, CancelLists DEF Ordered
    <3>3. me.pc = "cancelled" => Tail(q) \in {<<Clear>>, <<>>}
        BY <2>1, CancelLists DEF Ordered
    <3>4. \A i \in DOMAIN Tail(q) : SendsEnd(Tail(q)[i]) => me.pc = "cancel"
        BY <3>1 DEF Ordered
    <3>5. ASSUME NEW i \in DOMAIN Tail(q), Revives(Tail(q)[i])
          PROVE  Tail(q) \in {Again, Tail(Again), Tail(Tail(Again))}
      <4>1. q \in {Again, Tail(Again), Tail(Tail(Again))}
          BY <3>1, <3>5 DEF Ordered
      <4>2. q = Tail(Tail(Again)) => Tail(q) = <<Restart, Bind>>
          BY AgainCalls
      <4>3. \A j \in DOMAIN <<Restart, Bind>> : ~Revives(<<Restart, Bind>>[j])
          BY OrderFreeLists DEF OrderFree
      <4>4. q # Tail(Tail(Again))
        <5> HIDE DEF q
        <5> QED BY <3>5, <4>2, <4>3
      <4> QED BY <4>1, <4>4
    <3> QED BY <2>3, <3>2, <3>3, <3>4, <3>5 DEF Ordered
  <2> QED BY <1>1, <1>3, <1>4, <2>2, <2>3, CallMoves
<1>5. CASE BackendFault(Main)
  <2> DEFINE rec == [me EXCEPT !.pc = "idle", !.todo = OnFault(Head(q).op, Head(q).a)]
  <2>1. Run(Main, rec) /\ q # <<>>
      BY <1>5 DEF BackendFault, Calls
  <2>2. me \in Thread
      BY <1>1, <2>1, CallFacts DEF TypeOK
  <2>3. rec.pc = "idle" /\ rec.todo = OnFault(Head(q).op, Head(q).a)
      BY <2>2 DEF Thread
  <2> HIDE DEF rec
  <2>4. Ordered(rec)
      BY <2>3, FaultLists, FreshOrder
  <2> QED BY <1>1, <1>3, <2>1, <2>4, RunMoves
<1>6. CASE CancelAgain
  <2>1. \E held : \/ Segment(Main, held, "idle", <<Clear>>)
                  \/ Segment(Main, held, "cancelled", Cancels)
      BY <1>6 DEF CancelAgain, Only, Cancels
  <2>2. ASSUME th'[Main].pc = "cancelled", th'[Main].todo = Cancels
        PROVE  Ordered(th'[Main])
      BY <2>2, OrderFreeLists DEF Ordered, OrderFree
  <2>3. ASSUME th'[Main].pc = "idle", th'[Main].todo = <<Clear>>
        PROVE  Ordered(th'[Main])
      BY <2>3, OrderFreeLists, FreshOrder
  <2> QED BY <1>1, <1>3, <2>1, <2>2, <2>3, SegmentMoves
<1> QED BY <1>1, <1>2, <1>3, <1>4, <1>5, <1>6, OwnerOrders

-----------------------------------------------------------------------------
(* On the way to an execution *)

LEMMA QuietCallsKeepItems ==
    ASSUME NEW t \in Threads, StoreCall(t), Head(th[t].todo).op \notin {"move", "touch"}
    PROVE  item' = item
BY DEF StoreCall, DoRead, DoSave, RejectSave, DoAdd, DoMark, DoInterrupt, DoNotify, DoBlocker,
   DoClear, DoSend, DoSubmit, DoRestart, DoBind, Calls, storeVars

LEMMA StartLaunches ==
    ASSUME TypeOK, NEW w \in Works, OwnerStart(w)
    PROVE  /\ th'[Main].w = w /\ th'[Main].todo = <<Launch>>
           /\ th'[Main].held = item'[w] /\ item'[w].state = "queued" /\ wf' = wf
<1>1. /\ Command(w, NewItem, "idle", <<Launch>>) /\ item' = [item EXCEPT ![w] = NewItem]
      /\ wf' = wf
    BY DEF OwnerStart, PutItem, dbosVars
<1>2. item'[w] = NewItem /\ NewItem.state = "queued"
    BY <1>1 DEF TypeOK, StoreOK, NewItem
<1> DEFINE rec == [Idle(w) EXCEPT !.pc = "idle", !.held = NewItem, !.todo = <<Launch>>]
<1>3. rec.w = w /\ rec.todo = <<Launch>> /\ rec.held = NewItem
    BY DEF Idle
<1>4. Run(Main, rec)
    BY <1>1 DEF Command
<1> HIDE DEF rec
<1>5. ~Returned(rec)
    BY <1>3 DEF Returned
<1> QED BY <1>1, <1>2, <1>3, <1>4, <1>5, MainRuns

\* The calls that the main thread makes on its way to an execution.
LEMMA ReadyLists ==
    /\ Head(<<Launch>>).op = "submit" /\ Tail(<<Launch>>) = <<>>
    /\ Head(Again).op = "add" /\ Head(Tail(Again)).op = "mark"
    /\ Head(Tail(Tail(Again))) = Move("retrying", "none")
    /\ Tail(Tail(Tail(Again))) = <<Restart, Bind>>
    /\ Head(<<Restart, Bind>>).op = "restart" /\ Tail(<<Restart, Bind>>) = <<Bind>>
    /\ Head(<<Read, Move("failed", "keep"), Notify>>).op = "read"
    /\ Tail(<<Read, Move("failed", "keep"), Notify>>) = <<Move("failed", "keep"), Notify>>
    /\ \A s : /\ Head(<<Move("failed", s), Notify>>) = Move("failed", s)
              /\ Tail(<<Move("failed", s), Notify>>) = <<Notify>>
    /\ ~Starts(Bind) /\ ~Starts(Notify)
<1>1. Launch.op = "submit" /\ Restart.op = "restart" /\ Bind.op = "bind"
    BY DEF Launch, Restart, Bind, Op
<1>2. Read.op = "read" /\ Notify.op = "notify"
    BY CallOps
<1>3. /\ \A a : Head(<<a>>) = a /\ Tail(<<a>>) = <<>>
      /\ \A a, b : Head(<<a, b>>) = a /\ Tail(<<a, b>>) = <<b>>
      /\ \A a, b, c : Head(<<a, b, c>>) = a /\ Tail(<<a, b, c>>) = <<b, c>>
    OBVIOUS
<1>4. ~Starts(Bind) /\ ~Starts(Notify)
    BY <1>1, <1>2 DEF Starts, Fails
<1> QED BY <1>1, <1>2, <1>3, <1>4, AgainCalls

\* A call that moves an item makes it what it says.
LEMMA MovedItem ==
    ASSUME Versions, NEW t \in Threads, StoreCall(t), ~RejectSave(t),
           NEW to, NEW s, Head(th[t].todo) = Move(to, s)
    PROVE  DoSave(t) /\ item'[th[t].w].state = to
<1>1. Head(th[t].todo).op = "move" /\ Head(th[t].todo).a = to
    BY CallOps
<1>2. DoSave(t)
    BY <1>1 DEF StoreCall, DoRead, DoAdd, DoMark, DoInterrupt, DoNotify, DoBlocker, DoClear,
       DoSend, DoSubmit, DoRestart, DoBind, Calls
<1>3. item'[th[t].w] = NewRecord(th[t], Head(th[t].todo))
    BY <1>2, SavedRecord
<1>4. NewRecord(th[t], Head(th[t].todo))
          = Transition(th[t].held, to, StepArg(th[t], Head(th[t].todo).b))
    BY <1>1 DEF NewRecord
<1>5. \A n : Transition(th[t].held, to, n).state = to
    BY DEF Transition
<1> QED BY <1>2, <1>3, <1>4, <1>5

\* A workflow that was not started stays so, unless the main thread starts it.
LEMMA StillUnstarted ==
    ASSUME Sealing, BusyIsLive, [Next]_vars, th[Main].pc # "boot", NEW e \in Execs,
           wf[e].st = "none",
           ~(StoreCall(Main) /\ Head(th[Main].todo).op \in {"submit", "restart"})
    PROVE  wf'[e].st = "none"
<1>1. TypeOK
    BY DEF Sealing, Pausing, Execution, Versions
<1> QED BY <1>1, RowMoves, StepsAreLive DEF BootResubmit

LEMMA CallsPoise ==
    ASSUME Driven, Undisturbed, Poised, ~Crash, [Next]_vars, StoreCall(Main)
    PROVE  Poised'
<1> DEFINE me == th[Main]
           q  == th[Main].todo
<1>1. TypeOK /\ Sealing /\ Versions /\ BusyIsLive
    BY DEF Driven, Sealing, Pausing, Execution, Versions
<1>2. q \in Seq(Call) /\ q # <<>> /\ me.w \in Works /\ me \in Thread /\ Main \in Threads
    BY <1>1, CallBasics, ThreadFacts DEF Sealing, Pausing
<1>3. CASE th'[Main].todo = <<>>
    BY SMTT(30), <1>3 DEF Poised
<1>4. CASE /\ th'[Main].todo = Tail(q) /\ th'[Main].w = me.w /\ ~RejectSave(Main)
  <2> SUFFICES ASSUME NEW i \in DOMAIN Tail(q), Starts(Tail(q)[i])
               PROVE  Ready(th[Main])'
      BY <1>4 DEF Poised
  <2>1. Ready(me)
      BY <1>2, StartsInTail DEF Poised
  <2>2. Tail(q) # <<>> /\ Tail(q) # <<Bind>> /\ Tail(q) # <<Notify>>
    <3>1. \A b : DOMAIN <<b>> = {1} /\ <<b>>[1] = b
        OBVIOUS
    <3>2. /\ Tail(q) = <<Bind>> => Tail(q)[i] = Bind
          /\ Tail(q) = <<Notify>> => Tail(q)[i] = Notify
        BY <3>1
    <3>3. Tail(q) # <<>>
        OBVIOUS
    <3> HIDE DEF q
    <3> QED BY <3>2, <3>3, ReadyLists
  <2>3. CASE q \in {Again, Tail(Again)} /\ item[me.w].state = "failed"
    <3>1. Head(q).op \notin {"move", "touch"} /\ Tail(q) \in {Tail(Again), Tail(Tail(Again))}
        BY <2>3, ReadyLists
    <3>2. item' = item
        BY <1>2, <3>1, QuietCallsKeepItems
    <3> QED BY <1>4, <2>3, <3>1, <3>2 DEF Ready
  <2>4. CASE q = Tail(Tail(Again))
    <3>1. item'[me.w].state = "retrying" /\ Tail(q) = <<Restart, Bind>>
      <4>1. Head(q) = Move("retrying", "none") /\ Tail(q) = <<Restart, Bind>>
          BY <2>4, ReadyLists
      <4> QED BY <1>1, <1>2, <1>4, <4>1, MovedItem
    <3> QED BY <1>4, <3>1 DEF Ready
  <2>5. CASE q = <<Read, Move("failed", "keep"), Notify>> /\ item[me.w].state = "retrying"
    <3>1. Head(q).op = "read" /\ Tail(q) = <<Move("failed", "keep"), Notify>>
        BY SMTT(30), <2>5, ReadyLists
    <3>2. DoRead(Main)
        BY <3>1 DEF StoreCall, DoSave, RejectSave, DoAdd, DoMark, DoInterrupt, DoNotify,
           DoBlocker, DoClear, DoSend, DoSubmit, DoRestart, DoBind, Calls
    <3> DEFINE rec == [[me EXCEPT !.held = item[me.w]] EXCEPT !.todo = Tail(@)]
    <3>3. rec.held = item[me.w] /\ rec.todo = Tail(q) /\ rec.w = me.w
        BY <1>2 DEF Thread
    <3>4. Run(Main, rec) /\ item' = item
        BY <3>2 DEF DoRead, Did, storeVars
    <3> HIDE DEF rec
    <3>5. ~Returned(rec)
        BY <2>2, <3>3 DEF Returned
    <3>6. th'[Main] = rec
        BY <1>1, <3>4, <3>5, MainRuns
    <3> QED BY <2>5, <3>1, <3>3, <3>4, <3>6 DEF Ready
  <2>6. q \notin {<<Launch>>, <<Restart, Bind>>, <<Move("failed", "none"), Notify>>,
                  <<Move("failed", "keep"), Notify>>}
    <3> HIDE DEF q
    <3> QED BY <2>2, ReadyLists
  <2> QED BY <2>1, <2>3, <2>4, <2>5, <2>6 DEF Ready
<1> QED BY <1>1, <1>2, <1>3, <1>4, CallMoves, IdleIsFree

LEMMA PoisedNext ==
    ASSUME Driven, Undisturbed, Poised, Unstarted, ~Crash, [Next]_vars
    PROVE  Poised'
<1> DEFINE me == th[Main]
           q  == th[Main].todo
<1>1. TypeOK /\ Sealing /\ BusyIsLive /\ Versions /\ me.pc # "boot" /\ up = "up" /\ Main \in Threads
    BY ThreadFacts DEF Driven, Undisturbed, Sealing, Pausing, Execution, Versions
<1>2. th'[Main] = me \/ StoreCall(Main) \/ OwnerStep \/ CancelAgain \/ BackendFault(Main)
    BY <1>1, MainActs
<1>3. ASSUME th'[Main].todo \in Seq(StartFree)
      PROVE  Poised'
    BY <1>3 DEF Poised, StartFree
<1>4. CASE th'[Main] = me /\ ~StoreCall(Main)
  <2> SUFFICES ASSUME \E i \in DOMAIN q : Starts(q[i])
               PROVE  Ready(th[Main])'
      BY <1>4 DEF Poised
  <2>1. Ready(me) /\ NobodyFor(me.w)
      BY DEF Poised, Undisturbed, StartsAlone, Prepared
  <2>2. me.w \in Works
      BY <1>1, CallFacts DEF TypeOK
  <2>3. item'[me.w] = item[me.w]
    <3>1. item[me.w].state \notin {"absent", "waiting_for_owner"}
        BY <2>1 DEF Ready
    <3>2. ~DoSave(Main)
        BY <1>4 DEF StoreCall
    <3> QED BY <1>1, <2>1, <2>2, <3>1, <3>2, ItemRests
  <2>4. wf[<<me.w, 0>>].st = "none" => wf'[<<me.w, 0>>].st = "none"
      BY <1>1, <1>4, <2>2, StillUnstarted, ThreadFacts
  <2> QED BY <1>4, <2>1, <2>3, <2>4 DEF Ready
<1>5. CASE OwnerStep /\ ~StoreCall(Main) /\ th'[Main] # me
  <2>1. CASE th'[Main].pc # "boot" /\ th'[Main].todo \in Seq(StartFree)
      BY <1>3, <2>1
  <2>2. ASSUME NEW w \in Works, w = th'[Main].w, ~Exists(item[w]), item'[w].state = "queued"
        PROVE  Poised'
    <3>1. OwnerStart(w)
        BY <1>1, <2>2, OnlyStartCreates DEF Exists
    <3>2. wf[<<w, 0>>].st = "none"
        BY <2>2, ThreadFacts DEF Unstarted, Exists
    <3> QED BY <1>1, <2>2, <3>1, <3>2, StartLaunches DEF Poised, Ready
  <2>3. ASSUME NEW w \in Works, w = th'[Main].w, th'[Main].todo = Again, item[w].state = "failed"
        PROVE  Poised'
    <3>1. NobodyFor(w)
        BY <2>3 DEF Undisturbed, NobodyForFailed
    <3>2. ~DoSave(Main)
        BY <1>5 DEF StoreCall
    <3>3. item'[w] = item[w]
        BY <1>1, <2>3, <3>1, <3>2, ItemRests
    <3> QED BY <2>3, <3>3 DEF Poised, Ready
  <2> QED BY <1>1, <1>5, <2>1, <2>2, <2>3, OwnerStarts
<1>6. CASE CancelAgain
  <2>1. ASSUME NEW held, NEW pc, NEW calls \in Seq(StartFree),
               Segment(Main, held, pc, calls)
        PROVE  th'[Main].todo \in Seq(StartFree)
    <3>1. th'[Main].todo = calls \/ th'[Main] = Idle(Owner)
        BY <1>1, <2>1, SegmentMoves
    <3> QED BY <3>1, IdleIsFree, StartFreeLists
  <2>2. \E held : \/ Segment(Main, held, "idle", <<Clear>>)
                  \/ Segment(Main, held, "cancelled", <<Move("cancelled", "keep"), Clear>>)
      BY <1>6 DEF CancelAgain, Only
  <2> QED BY <1>3, <2>1, <2>2, StartFreeLists
<1>7. CASE BackendFault(Main)
  <2> DEFINE o   == Head(q)
             rec == [me EXCEPT !.pc = "idle", !.todo = OnFault(o.op, o.a)]
  <2>1. /\ Run(Main, rec) /\ q # <<>> /\ o.op \in {"submit", "restart", "send"}
        /\ item' = item
      BY <1>7 DEF BackendFault, Calls, storeVars
  <2>2. me \in Thread /\ q \in Seq(Call)
      BY <1>1, <2>1, CallFacts DEF TypeOK, Thread
  <2>3. rec.todo = OnFault(o.op, o.a) /\ rec.w = me.w /\ rec.held = me.held
      BY <2>2 DEF Thread
  <2> HIDE DEF rec
  <2>4. th'[Main] = rec \/ th'[Main] = Idle(Owner)
      BY <1>1, <2>1, RunMoves
  <2>5. CASE th'[Main] = Idle(Owner) \/ o.op = "send"
    <3>1. o.op = "send" => OnFault(o.op, o.a) \in Seq(StartFree)
        BY StartFreeLists DEF OnFault
    <3> QED BY <1>3, <2>3, <2>4, <2>5, <3>1, IdleIsFree, StartFreeLists
  <2>6. CASE th'[Main] = rec /\ o.op \in {"submit", "restart"}
    <3>1. 1 \in DOMAIN q /\ q[1] = o
        BY <2>1, <2>2
    <3>2. Ready(me)
        BY <2>6, <3>1 DEF Poised, Starts
    <3>3. /\ o.op = "submit" => me.held = item[me.w] /\ item[me.w].state = "queued"
          /\ o.op = "restart" => q = <<Restart, Bind>>
      <4>1. Move("retrying", "none").op = "move" /\ \A s : Move("failed", s).op = "move"
          BY CallOps
      <4> QED BY <2>6, <3>2, <4>1, ReadyLists DEF Ready
    <3>4. CASE o.op = "submit"
      <4>1. rec.todo = <<Move("failed", "none"), Notify>>
          BY <2>3, <3>4 DEF OnFault
      <4>2. me.held = item[me.w] /\ item[me.w].state = "queued"
          BY <3>3, <3>4
      <4> QED BY <2>1, <2>3, <2>6, <4>1, <4>2 DEF Poised, Ready
    <3>5. CASE o.op = "restart"
      <4>1. rec.todo = <<Read, Move("failed", "keep"), Notify>>
          BY <2>3, <3>5 DEF OnFault
      <4>2. item[me.w].state = "retrying"
        <5>1. q = <<Restart, Bind>> /\ Head(q).op = "restart"
            BY <3>3, <3>5
        <5>2. \A s : Move("failed", s).op = "move"
            BY CallOps
        <5>3. Move("retrying", "none").op = "move"
            BY CallOps
        <5> QED BY <3>2, <5>1, <5>2, <5>3, ReadyLists DEF Ready
      <4> QED BY <2>1, <2>3, <2>6, <4>1, <4>2 DEF Poised, Ready
    <3> QED BY <2>6, <3>4, <3>5
  <2> QED BY <2>1, <2>4, <2>5, <2>6
<1> QED BY <1>2, <1>4, <1>5, <1>6, <1>7, CallsPoise

LEMMA UnstartedNext ==
    ASSUME Driven, Undisturbed, Unstarted, ~Crash, [Next]_vars
    PROVE  Unstarted'
<1> SUFFICES ASSUME NEW e \in Execs, item'[e[1]].state = "absent"
             PROVE  wf'[e].st = "none"
    BY DEF Unstarted
<1>1. TypeOK /\ Sealing /\ BusyIsLive /\ Versions /\ e[1] \in Works /\ th[Main].pc # "boot"
    BY ThreadFacts DEF Driven, Undisturbed, Sealing, Pausing, Execution, Versions
<1>2. item[e[1]].state = "absent"
  <2> SUFFICES ASSUME item[e[1]].state # "absent"
               PROVE  FALSE
      OBVIOUS
  <2>1. PICK t \in Threads : SavesAs(t, e[1], "absent")
      BY <1>1, StateChanges
  <2>2. Head(th[t].todo) \in Call
      BY <1>1, <2>1, CallFacts DEF SavesAs, DoSave, Calls, TypeOK
  <2> QED BY <2>1, <2>2 DEF SavesAs, Call, WorkStates, Waiting, Terminal
<1>3. wf[e].st = "none"
    BY <1>2 DEF Unstarted
<1>4. CASE ~(StoreCall(Main) /\ Head(th[Main].todo).op \in {"submit", "restart"})
    BY <1>1, <1>3, <1>4, StillUnstarted
<1>5. CASE StoreCall(Main) /\ Head(th[Main].todo).op \in {"submit", "restart"}
  <2>1. e[1] # th[Main].w
      BY <1>2, <1>5, NewcomerIsAlone
  <2> QED BY <1>1, <1>3, <1>5, <2>1, RowMoves, StepsAreLive
          DEF Submit, TypeOK, DbosOK, BootResubmit
<1> QED BY <1>4, <1>5

-----------------------------------------------------------------------------
(* An item that starts to be active, and one that is being cancelled *)

\* A call that is not refused leaves the main thread with the rest of its calls.
LEMMA MainGoesOn ==
    ASSUME TypeOK, StoreCall(Main), ~RejectSave(Main), Tail(th[Main].todo) # <<>>
    PROVE  th'[Main].todo = Tail(th[Main].todo) /\ th'[Main].w = th[Main].w
<1> DEFINE me == th[Main]
<1>1. me \in Thread /\ Main \in Threads
    BY ThreadFacts DEF TypeOK, ThreadsOK
<1>2. \A rec \in {me} \cup {[me EXCEPT !.held = h] : h \in Item \cup {NewRecord(me, Head(me.todo))}}
                     \cup {[me EXCEPT !.sid = n] : n \in Nat} :
          /\ [rec EXCEPT !.todo = Tail(@)].todo = Tail(me.todo)
          /\ [rec EXCEPT !.todo = Tail(@)].w = me.w
    BY <1>1 DEF Thread
<1>3. PICK rec : Did(Main, rec) /\ [rec EXCEPT !.todo = Tail(@)].todo = Tail(me.todo)
                 /\ [rec EXCEPT !.todo = Tail(@)].w = me.w
  <2>1. CASE \/ DoMark(Main) \/ DoNotify(Main) \/ DoBlocker(Main) \/ DoClear(Main)
             \/ DoSend(Main) \/ DoSubmit(Main) \/ DoBind(Main)
    <3>1. Did(Main, me)
        BY <2>1 DEF DoMark, DoNotify, DoBlocker, DoClear, DoSend, DoSubmit, DoBind
    <3> QED BY <1>2, <3>1
  <2>2. CASE DoRead(Main)
    <3>1. me.w \in Works
        BY <1>1, <2>2, CallFacts DEF DoRead, Calls, TypeOK
    <3>2. item[me.w] \in Item
        BY <3>1 DEF TypeOK, StoreOK
    <3>3. Did(Main, [me EXCEPT !.held = item[me.w]])
        BY <2>2 DEF DoRead
    <3> QED BY <1>2, <3>2, <3>3
  <2>3. CASE DoSave(Main)
    <3>1. Did(Main, [me EXCEPT !.held = NewRecord(me, Head(me.todo))])
        BY <2>3 DEF DoSave
    <3> QED BY <1>2, <3>1
  <2>4. CASE DoAdd(Main)
    <3>1. me.w \in Works
        BY <1>1, <2>4, CallFacts DEF DoAdd, Calls, TypeOK
    <3>2. Len(steps[me.w]) + 1 \in Nat
        BY <3>1 DEF TypeOK, StoreOK
    <3>3. Did(Main, [me EXCEPT !.sid = Len(steps[me.w]) + 1])
        BY <2>4 DEF DoAdd
    <3> QED BY <1>2, <3>2, <3>3
  <2>5. CASE DoInterrupt(Main)
    <3>1. me.w \in Works
        BY <1>1, <2>5, CallFacts DEF DoInterrupt, Calls, TypeOK
    <3>2. \A i \in RunningSteps(me.w) : i \in Nat
        BY <3>1 DEF RunningSteps, TypeOK, StoreOK
    <3>3. PICK i \in RunningSteps(me.w) : Did(Main, [me EXCEPT !.sid = i])
        BY <2>5 DEF DoInterrupt
    <3> QED BY <1>2, <3>2, <3>3
  <2>6. CASE DoRestart(Main)
    <3>1. PICK n \in 1 .. MaxRetries : Did(Main, [me EXCEPT !.sid = n])
        BY <2>6 DEF DoRestart
    <3>2. n \in Nat
        BY <3>1, RetriesAssumption
    <3> QED BY <1>2, <3>1, <3>2
  <2> QED BY <2>1, <2>2, <2>3, <2>4, <2>5, <2>6 DEF StoreCall
<1> DEFINE next == [rec EXCEPT !.todo = Tail(@)]
<1>4. Run(Main, next) /\ next.todo = Tail(me.todo) /\ next.w = me.w
    BY <1>3 DEF Did
<1> HIDE DEF next
<1>5. ~Returned(next)
    BY <1>4 DEF Returned
<1> QED BY <1>4, <1>5, MainRuns

\* An item becomes active by start, or by the save of a retry.
LEMMA InactiveMoves ==
    ASSUME Driven, Undisturbed, Ordered(th[Main]), ~Crash, [Next]_vars,
           NEW w \in Works, ~Active(item[w]), Active(item'[w])
    PROVE  \/ item[w].state = "absent" /\ OwnerStart(w)
           \/ /\ item[w].state = "failed" /\ StoreCall(Main) /\ ~RejectSave(Main)
              /\ th[Main].w = w /\ th[Main].todo = Tail(Tail(Again))
<1> DEFINE me == th[Main]
           q  == th[Main].todo
<1>1. Sealing /\ BusyIsLive /\ Versions /\ TypeOK /\ item[w] \in Item
    BY DEF Driven, Sealing, Pausing, Execution, Versions, TypeOK, StoreOK
<1>2. item'[w].state \notin {"absent", "completed", "cancelled", "failed"}
    BY DEF Active, WorkStates, Waiting, Terminal
<1>3. item[w].state \in {"absent", "failed"}
  <2>1. item[w].state \in {"absent", "completed", "cancelled", "failed"}
      BY <1>1 DEF Active, Item, Terminal
  <2> QED BY <1>1, <1>2, <2>1, CompletedStays, CancelledStays
<1>4. CASE item[w].state = "absent"
    BY <1>1, <1>2, <1>4, OnlyStartCreates
<1>5. CASE item[w].state = "failed"
  <2>1. NobodyFor(w)
      BY <1>5 DEF Undisturbed, NobodyForFailed
  <2>2. DoSave(Main)
      BY <1>1, <1>2, <1>5, <2>1, ItemRests
  <2>3. Main \in Threads /\ StoreCall(Main)
      BY <2>2, ThreadFacts DEF StoreCall
  <2>4. /\ me.w = w /\ me.held = item[w] /\ Permitted(me, Head(q))
        /\ item'[w] = NewRecord(me, Head(q))
      BY <1>1, <1>2, <1>5, <2>2, <2>3, SavedRecord
  <2>5. ~RejectSave(Main)
      BY <2>2 DEF DoSave, RejectSave
  <2>6. q \in Seq(Call) /\ q # <<>>
      BY <1>1, <2>3, CallBasics DEF Sealing, Pausing
  <2>7. Head(q).op = "move"
      BY <1>5, <2>2, <2>4 DEF DoSave, Calls, Permitted, CanTouch, Active, Terminal
  <2>8. Head(q).a = "retrying"
    <3>1. CanMove(item[w], Head(q).a)
        BY <2>4, <2>7 DEF Permitted
    <3>2. Allowed["failed"] = {"retrying"}
        BY DEF Allowed, WorkStates, Waiting, Terminal
    <3>3. Head(q).a \in {"failed", "retrying"}
        BY <1>5, <3>1, <3>2 DEF CanMove
    <3>4. ASSUME Head(q).a = "failed" PROVE FALSE
      <4>1. item'[w] = Transition(item[w], "failed", StepArg(me, Head(q).b))
          BY <2>4, <2>7, <3>4 DEF NewRecord
      <4>2. \A n : Transition(item[w], "failed", n) = item[w]
          BY <1>5 DEF Transition
      <4> QED BY <1>2, <1>5, <4>1, <4>2
    <3> QED BY <3>3, <3>4
  <2>9. 1 \in DOMAIN q /\ q[1] = Head(q) /\ Revives(q[1])
      BY <2>6, <2>7, <2>8 DEF Revives
  <2>10. q \in {Again, Tail(Again), Tail(Tail(Again))}
      BY <2>9 DEF Ordered
  <2>11. q = Tail(Tail(Again))
      BY <2>7, <2>10, AgainCalls
  <2> QED BY <1>5, <2>3, <2>4, <2>5, <2>11
<1> QED BY <1>3, <1>4, <1>5

\* A cancel under way goes on until the item has ended.
LEMMA CancellingNext ==
    ASSUME Driven, Undisturbed, ~Crash, [Next]_vars, NEW w \in Works,
           Cancelling(w), Active(item[w]), Active(item'[w])
    PROVE  Cancelling(w)'
<1> DEFINE me == th[Main]
           q  == th[Main].todo
<1>1. TypeOK /\ Sealing /\ Versions /\ me.pc # "boot" /\ up = "up" /\ Main \in Threads
    BY ThreadFacts DEF Driven, Undisturbed, Sealing, Pausing, Execution, Versions
<1>2. me \in Thread /\ me.w = w
    BY <1>1 DEF TypeOK, ThreadsOK, Cancelling
<1>3. th'[Main] = me \/ StoreCall(Main) \/ OwnerStep \/ CancelAgain \/ BackendFault(Main)
    BY <1>1, MainActs
<1>4. q # <<>> => me.pc = "cancelled" /\ q = Cancels
    BY DEF Cancelling
<1>5. CASE th'[Main] = me
    BY <1>5 DEF Cancelling
<1>6. CASE StoreCall(Main)
  <2>1. q # <<>>
      BY <1>6, CallsAreBusy, StoreCallRuns, <1>1
  <2>2. Head(q) = Move("cancelled", "keep") /\ me.pc = "cancelled"
      BY <1>4, <2>1, CancelLists
  <2>3. RejectSave(Main)
    <3> SUFFICES ASSUME ~RejectSave(Main)
                 PROVE  FALSE
        OBVIOUS
    <3>1. item'[w].state = "cancelled"
        BY <1>1, <1>2, <1>6, <2>2, MovedItem
    <3> QED BY <3>1 DEF Active, Terminal
  <2> DEFINE rec == [me EXCEPT !.todo = <<>>, !.pc = "cancel"]
  <2>4. Run(Main, rec)
      BY <2>2, <2>3 DEF RejectSave
  <2>5. rec.todo = <<>> /\ rec.pc = "cancel" /\ rec.w = w
      BY <1>2 DEF Thread
  <2> HIDE DEF rec
  <2>6. ~Returned(rec)
      BY <2>5 DEF Returned
  <2>7. th'[Main] = rec
      BY <1>1, <2>4, <2>6, MainRuns
  <2> QED BY <2>5, <2>7 DEF Cancelling
<1>7. CASE OwnerStep
  <2>1. th[Main] = Idle(Owner) => me.w = Owner
      BY DEF Idle
  <2> QED BY <1>1, <1>2, <1>5, <1>7, <2>1, OwnerOrders, ThreadFacts
<1>8. CASE CancelAgain
  <2>1. Segment(Main, item[w], "cancelled", Cancels)
      BY <1>2, <1>8 DEF CancelAgain, Only, Active, Cancels
  <2> DEFINE rec == [me EXCEPT !.pc = "cancelled", !.held = item[w], !.todo = Cancels]
  <2>2. Run(Main, rec)
      BY <2>1 DEF Segment
  <2>3. rec.todo = Cancels /\ rec.pc = "cancelled" /\ rec.w = w
      BY <1>2 DEF Thread
  <2> HIDE DEF rec
  <2>4. ~Returned(rec)
      BY <2>3, CancelLists DEF Returned
  <2>5. th'[Main] = rec
      BY <1>1, <2>2, <2>4, MainRuns
  <2> QED BY <2>3, <2>5 DEF Cancelling
<1>9. CASE BackendFault(Main)
  <2>1. q # <<>> /\ Head(q).op \in {"submit", "restart", "send"}
      BY <1>9 DEF BackendFault, Calls
  <2>2. Head(q).op = "move"
      BY <1>4, <2>1, CancelLists, CallOps
  <2> QED BY <2>1, <2>2
<1> QED BY <1>3, <1>5, <1>6, <1>7, <1>8, <1>9

\* An execution is told to end by the cancel of the main thread only.
LEMMA ToldMoves ==
    ASSUME Sealing, [Next]_vars, NEW e \in Execs, ToldToEnd(e)', ~ToldToEnd(e)
    PROVE  DoSend(Main) /\ BoundExec(th[Main].w) = e /\ Head(th[Main].todo).a # "resume"
<1>1. /\ TypeOK /\ e \in Threads
      /\ inbox \in [Execs -> [owner : Seq(Message), control : Seq({"resume", "cancel"})]]
    BY ThreadFacts DEF Sealing, Pausing, Execution, Versions, TypeOK, DbosOK
<1>2. inbox[e].control \in Seq({"resume", "cancel"})
    BY <1>1
<1>3. inbox'[e].control # inbox[e].control
    BY DEF ToldToEnd
<1>4. inbox'[e].control # Tail(inbox[e].control) \/ inbox[e].control = <<>>
  <2> DEFINE q == inbox[e].control
  <2>1. CASE q # <<>>
    <3>1. \A i \in DOMAIN Tail(q) : i + 1 \in DOMAIN q /\ Tail(q)[i] = q[i + 1]
        BY <1>2, <2>1
    <3> QED BY <3>1 DEF ToldToEnd
  <2> QED BY <2>1
<1>5. ASSUME NEW f \in Execs, f # e, NEW row, inbox' = [inbox EXCEPT ![f] = row]
      PROVE  FALSE
    BY <1>1, <1>3, <1>5
<1>6. CASE \E t \in Threads : StoreCall(t)
  <2>1. PICK t \in Threads : StoreCall(t)
      BY <1>6
  <2>2. DoSend(t)
      BY <1>3, <2>1 DEF StoreCall, DoRead, DoSave, RejectSave, DoAdd, DoMark, DoInterrupt,
         DoNotify, DoBlocker, DoClear, DoSubmit, DoRestart, DoBind, dbosVars
  <2>3. t = Main
      BY <2>1, <2>2, EngineCallsOnly, ThreadFacts DEF DoSend, Calls
  <2> DEFINE f   == BoundExec(th[t].w)
             a   == Head(th[t].todo).a
             row == [inbox[f] EXCEPT !.control = Append(@, a)]
  <2>4. inbox' = [inbox EXCEPT ![f] = row]
      BY <1>3, <2>2 DEF DoSend, SendControl
  <2>5. f = e
    <3> HIDE DEF row, f
    <3> QED BY <1>1, <1>3, <2>4
  <2>6. inbox'[e].control = Append(inbox[e].control, a)
    <3>1. row.control = Append(inbox[f].control, a)
        BY <1>1, <2>5
    <3> HIDE DEF row, a, f
    <3> QED BY <1>1, <2>4, <2>5, <3>1
  <2>7. a # "resume"
    <3> DEFINE q == inbox[e].control
    <3> HIDE DEF a
    <3>1. \A i \in DOMAIN Append(q, a) : (i \in DOMAIN q /\ Append(q, a)[i] = q[i])
                                         \/ Append(q, a)[i] = a
        BY <1>2
    <3> QED BY <2>6, <3>1 DEF ToldToEnd
  <2> QED BY <2>2, <2>3, <2>5, <2>7
<1>7. CASE \E f \in Execs : EngineStep(f)
  <2>1. inbox' = inbox
      BY ZenonT(30), <1>7 DEF EngineStep, AdvanceStopped, AdvanceDependent, Advance, Admit, Admission,
             DecideTooLate, BrainUnavailable, BrainFails, BrainCompletes, BrainAsks,
             BrainActs, Leased, LeaseRefused, Executed, StepDone, StepAsks, StepFails,
             ApplyPlain, ApplySealed, FailBounded, Only, Pressed, dbosVars
  <2> QED BY <1>3, <2>1
<1>8. ASSUME NEW f \in Execs, WorkflowStep(f)
      PROVE  FALSE
  <2>1. CASE StepReturns(f) \/ StepRaises(f)
      BY <1>3, <2>1 DEF StepReturns, StepRaises
  <2>2. CASE ReceiveControl(f)
    <3> DEFINE row == [inbox[f] EXCEPT !.control = Tail(@)]
    <3>1. inbox' = [inbox EXCEPT ![f] = row] /\ inbox[f].control # <<>>
        BY <2>2 DEF ReceiveControl
    <3>2. f = e => row.control = Tail(inbox[e].control)
        BY <1>1
    <3> HIDE DEF row
    <3> QED BY <1>1, <1>4, <1>5, <3>1, <3>2
  <2>3. CASE ReceiveAnswer(f)
    <3> DEFINE row == [inbox[f] EXCEPT !.owner = Tail(@)]
    <3>1. inbox' = inbox \/ inbox' = [inbox EXCEPT ![f] = row]
        BY <2>3 DEF ReceiveAnswer
    <3>2. f = e => row.control = inbox[e].control
        BY <1>1
    <3> HIDE DEF row
    <3> QED BY <1>1, <1>3, <1>5, <3>1, <3>2
  <2> QED BY <1>8, <2>1, <2>2, <2>3 DEF WorkflowStep
<1>9. CASE OwnerStep
  <2>1. PICK w \in Works : OwnerAnswer(w) \/ inbox' = inbox
      BY <1>9 DEF OwnerStep, OwnerStart, OwnerPause, OwnerResume, OwnerCancel, OwnerRetry,
         OwnerReprioritize, dbosVars
  <2>2. PICK m : SendOwner(BoundExec(w), m)
      BY <1>3, <2>1 DEF OwnerAnswer
  <2> DEFINE f   == BoundExec(w)
             row == [inbox[f] EXCEPT !.owner = Append(@, m)]
  <2>3. inbox' = inbox \/ inbox' = [inbox EXCEPT ![f] = row]
      BY <2>2 DEF SendOwner
  <2>4. f = e => row.control = inbox[e].control
      BY <1>1
  <2> HIDE DEF row, f
  <2> QED BY <1>1, <1>3, <2>3, <2>4
<1>10. CASE MainStep \/ BackendFault(Main) \/ Crash \/ UNCHANGED vars
  <2>1. inbox' = inbox
      BY <1>10 DEF MainStep, CancelAgain, BootStart, BootLaunch, BootResubmit, BootInterrupted,
         BackendFault, Crash, Only, vars, dbosVars
  <2> QED BY <1>3, <2>1
<1> QED BY <1>6, <1>7, <1>8, <1>9, <1>10 DEF Next

LEMMA CancelSentNext ==
    ASSUME Driven, Undisturbed, Steady, ~Crash, [Next]_vars
    PROVE  CancelSent'
<1> DEFINE me == th[Main]
           q  == th[Main].todo
<1>1. /\ TypeOK /\ Sealing /\ BusyIsLive /\ me.pc # "boot" /\ Main \in Threads
      /\ Ordered(th[Main]) /\ Unstarted /\ CancelSent
    BY ThreadFacts DEF Driven, Undisturbed, Sealing, Pausing, Execution, Versions, Steady
<1> SUFFICES ASSUME NEW e \in Execs, ToldToEnd(e)'
             PROVE  /\ wf'[e].st # "none"
                    /\ ~Going(e)' \/ ~Active(item'[e[1]]) \/ Cancelling(e[1])'
    BY DEF CancelSent
<1>2. e[1] \in Works
    BY ThreadFacts
<1>3. CASE ~ToldToEnd(e)
  <2>1. DoSend(Main) /\ BoundExec(me.w) = e /\ Head(q).a # "resume"
      BY <1>1, <1>3, ToldMoves
  <2>2. Head(q).op = "send" /\ wf'[e].st # "none" /\ me.w = e[1]
      BY <2>1 DEF DoSend, Calls, Reachable, BoundExec
  <2>3. me \in Thread /\ q \in Seq(Call) /\ q # <<>>
      BY <1>1, <2>1, CallFacts DEF TypeOK, DoSend, Calls, Thread
  <2>4. 1 \in DOMAIN q /\ SendsEnd(q[1])
      BY <2>1, <2>2, <2>3 DEF SendsEnd
  <2>5. me.pc = "cancel"
      BY <1>1, <2>4 DEF Ordered
  <2>6. q = <<Send("cancel")>>
      BY <1>1, <2>3, <2>5 DEF Ordered
  <2> DEFINE rec == [me EXCEPT !.todo = Tail(@)]
  <2>7. Run(Main, rec)
      BY <2>1 DEF DoSend, Did
  <2>8. rec.pc = "cancel" /\ rec.w = me.w /\ rec.todo = Tail(q)
      BY <2>3, <2>5 DEF Thread
  <2>9. Tail(q) = <<>>
      BY <2>6, CancelLists
  <2> HIDE DEF rec
  <2>10. ~Returned(rec)
      BY <2>8 DEF Returned
  <2>11. th'[Main] = rec
      BY <1>1, <2>7, <2>10, MainRuns
  <2> QED BY <2>2, <2>8, <2>9, <2>11 DEF Cancelling
<1>4. CASE ToldToEnd(e)
  <2>1. wf[e].st # "none" /\ (~Going(e) \/ ~Active(item[e[1]]) \/ Cancelling(e[1]))
      BY <1>1, <1>4 DEF CancelSent
  <2>2. wf'[e].st # "none"
      BY <1>1, <2>1, RowsStay
  <2>3. wf'[e] = wf[e] \/ WorkflowStep(e)
    <3>1. ASSUME NEW g \in Execs, Submit(g)
          PROVE  wf'[e] = wf[e]
        BY <1>1, <2>1, <3>1 DEF Submit, TypeOK, DbosOK
    <3> QED BY <1>1, <3>1, RowMoves DEF BootResubmit
  <2>4. CASE ~Going(e)
      BY <1>1, <2>2, <2>3, <2>4, GoingStays
  <2>5. CASE Going(e) /\ ~Active(item[e[1]])
    <3>1. item[e[1]].state # "failed"
        BY <1>2, <2>5 DEF Undisturbed, NobodyForFailed, NobodyFor
    <3>2. item[e[1]].state # "absent"
        BY <1>1, <2>1 DEF Unstarted
    <3> QED BY <1>1, <1>2, <2>2, <2>5, <3>1, <3>2, InactiveMoves
  <2>6. CASE Active(item[e[1]]) /\ Cancelling(e[1])
      BY <1>2, <2>2, <2>6, CancellingNext
  <2> QED BY <2>1, <2>4, <2>5, <2>6
<1> QED BY <1>3, <1>4

-----------------------------------------------------------------------------
(* Active items stay manned *)

\* A list of which one call starts an execution.
LEMMA FaultStarts ==
    /\ <<Restart, Bind>> # <<>> /\ <<Move("failed", "keep"), Notify>> # <<>>
    /\ \A a : \A op \in {"submit", "restart"} :
          \E i \in DOMAIN OnFault(op, a) : Starts(OnFault(op, a)[i])
    /\ \E i \in DOMAIN <<Move("failed", "keep"), Notify>> : Starts(<<Move("failed", "keep"), Notify>>[i])
    /\ \E i \in DOMAIN <<Restart, Bind>> : Starts(<<Restart, Bind>>[i])
    /\ \E i \in DOMAIN <<Launch>> : Starts(<<Launch>>[i])
<1>1. Starts(Launch) /\ Starts(Restart) /\ \A s : Starts(Move("failed", s))
    BY CallOps DEF Starts, Fails, Launch, Restart, Op
<1>2. /\ \A a : 1 \in DOMAIN <<a>> /\ <<a>>[1] = a
      /\ \A a, b : 1 \in DOMAIN <<a, b>> /\ <<a, b>>[1] = a
      /\ \A a, b, c : 2 \in DOMAIN <<a, b, c>> /\ <<a, b, c>>[2] = b
    OBVIOUS
<1>3. \A a : /\ OnFault("submit", a) = <<Move("failed", "none"), Notify>>
             /\ OnFault("restart", a) = <<Read, Move("failed", "keep"), Notify>>
    BY DEF OnFault
<1>4. <<Restart, Bind>> # <<>> /\ <<Move("failed", "keep"), Notify>> # <<>>
    OBVIOUS
<1>5. /\ \E i \in DOMAIN <<Move("failed", "keep"), Notify>> :
             Starts(<<Move("failed", "keep"), Notify>>[i])
      /\ \E i \in DOMAIN <<Restart, Bind>> : Starts(<<Restart, Bind>>[i])
      /\ \E i \in DOMAIN <<Launch>> : Starts(<<Launch>>[i])
    BY <1>1, <1>2
<1>6. ASSUME NEW a
      PROVE  /\ \E i \in DOMAIN OnFault("submit", a) : Starts(OnFault("submit", a)[i])
             /\ \E i \in DOMAIN OnFault("restart", a) : Starts(OnFault("restart", a)[i])
    BY <1>1, <1>2, <1>3
<1> QED BY <1>4, <1>5, <1>6

\* A row that was submitted is live, and its execution goes.
LEMMA SubmittedGoes ==
    ASSUME TypeOK, BusyIsLive, NEW e \in Execs, wf[e].st = "none", Submit(e),
           StoreCall(Main)
    PROVE  Going(e)'
<1>1. wf \in [Execs -> Workflow(Message \cup {NoMessage})] /\ e # Main /\ e \in Threads
    BY ThreadFacts DEF TypeOK, DbosOK
<1>2. wf'[e].st = "live"
    BY <1>1 DEF Submit, Workflow
<1>3. th'[e] = th[e]
    BY <1>1, StoreCallMoves, ThreadFacts DEF OthersKeep
<1>4. th[e].pc = "idle"
    BY DEF BusyIsLive
<1> QED BY <1>2, <1>3, <1>4 DEF Going, Finishing

\* The main thread starts the execution it was about to start, or fails the item.
LEMMA LaunchingNext ==
    ASSUME Driven, Undisturbed, Poised, ~Crash, [Next]_vars, NEW w \in Works,
           Launching(w), Active(item[w]), Active(item'[w])
    PROVE  Launching(w)' \/ \E e \in Execs : e[1] = w /\ Going(e)'
<1> DEFINE me == th[Main]
           q  == th[Main].todo
<1>1. TypeOK /\ Sealing /\ Versions /\ BusyIsLive /\ me.pc # "boot" /\ up = "up" /\ Main \in Threads
    BY ThreadFacts DEF Driven, Undisturbed, Sealing, Pausing, Execution, Versions
<1>2. me \in Thread /\ me.w = w /\ q # <<>> /\ Ready(me)
    BY <1>1 DEF TypeOK, ThreadsOK, Launching, Poised
<1>3. th'[Main] = me \/ StoreCall(Main) \/ OwnerStep \/ CancelAgain \/ BackendFault(Main)
    BY <1>1, MainActs
<1>4. CASE th'[Main] = me
    BY <1>4 DEF Launching
<1>5. CASE OwnerStep
    BY <1>1, <1>2, <1>4, <1>5, OwnerOrders, IdleIsFree
<1>6. CASE CancelAgain
    BY <1>2, <1>6 DEF CancelAgain
<1>7. CASE BackendFault(Main)
  <2> DEFINE o   == Head(q)
             rec == [me EXCEPT !.pc = "idle", !.todo = OnFault(o.op, o.a)]
  <2>1. Run(Main, rec) /\ o.op \in {"submit", "restart", "send"}
      BY <1>7 DEF BackendFault, Calls
  <2>2. rec.todo = OnFault(o.op, o.a) /\ rec.w = w
      BY <1>2 DEF Thread
  <2>3. o.op # "send"
    <3>1. Move("retrying", "none").op = "move" /\ \A s : Move("failed", s).op = "move"
        BY CallOps
    <3> QED BY <1>2, <3>1, ReadyLists DEF Ready
  <2>4. \E i \in DOMAIN rec.todo : Starts(rec.todo[i])
      BY <2>1, <2>2, <2>3, FaultStarts
  <2> HIDE DEF rec
  <2>5. ~Returned(rec)
      BY <2>4 DEF Returned
  <2>6. th'[Main] = rec
      BY <1>1, <2>1, <2>5, MainRuns
  <2> QED BY <2>2, <2>4, <2>6 DEF Launching
<1>8. CASE StoreCall(Main)
  <2>1. CASE q = <<Launch>> /\ wf[<<w, 0>>].st = "none"
    <3>1. Head(q).op = "submit"
        BY SMTT(30), <2>1, ReadyLists
    <3>2. DoSubmit(Main)
        BY <1>8, <3>1 DEF StoreCall, DoRead, DoSave, RejectSave, DoAdd, DoMark, DoInterrupt,
           DoNotify, DoBlocker, DoClear, DoSend, DoRestart, DoBind, Calls
    <3>3. Submit(<<w, 0>>) /\ <<w, 0>> \in Execs /\ <<w, 0>>[1] = w
        BY <1>2, <3>2, ThreadFacts DEF DoSubmit
    <3> QED BY <1>1, <1>8, <2>1, <3>3, SubmittedGoes
  <2>2. CASE q \in {Again, Tail(Again), Tail(Tail(Again))} /\ item[w].state = "failed"
      BY <2>2 DEF Active, Terminal
  <2>3. CASE q = <<Restart, Bind>>
    <3>1. Head(q).op = "restart"
        BY <2>3, ReadyLists
    <3>2. DoRestart(Main)
        BY <1>8, <3>1 DEF StoreCall, DoRead, DoSave, RejectSave, DoAdd, DoMark, DoInterrupt,
           DoNotify, DoBlocker, DoClear, DoSend, DoSubmit, DoBind, Calls
    <3>3. PICK n \in 1 .. MaxRetries : wf[<<w, n>>].st = "none" /\ Submit(<<w, n>>)
        BY <1>2, <3>2 DEF DoRestart
    <3>4. <<w, n>> \in Execs /\ <<w, n>>[1] = w
        BY <3>3, RetriesAssumption DEF Execs
    <3> QED BY <1>1, <1>8, <3>3, <3>4, SubmittedGoes
  <2>4. CASE q = <<Read, Move("failed", "keep"), Notify>>
    <3>1. Head(q).op = "read" /\ Tail(q) = <<Move("failed", "keep"), Notify>>
        BY <2>4, ReadyLists
    <3>2. ~RejectSave(Main)
        BY <3>1 DEF RejectSave, Calls
    <3>3. Tail(q) # <<>>
        BY <3>1, FaultStarts
    <3>4. th'[Main].todo = Tail(q) /\ th'[Main].w = w
        BY <1>1, <1>2, <1>8, <3>2, <3>3, MainGoesOn
    <3> QED BY <3>1, <3>4, FaultStarts DEF Launching
  <2>5. ASSUME NEW s, q = <<Move("failed", s), Notify>>, me.held = item[w],
               item[w].state \in {"queued", "retrying"}
        PROVE  FALSE
    <3>1. Head(q) = Move("failed", s)
        BY <2>5, ReadyLists
    <3>2. Head(q).op = "move" /\ Head(q).a = "failed"
        BY <3>1, CallOps
    <3>3. "failed" \in Allowed["queued"] /\ "failed" \in Allowed["retrying"]
        BY DEF Allowed, WorkStates, Waiting, Terminal
    <3>4. Permitted(me, Head(q)) /\ Fresh(me.w, me.held)
        BY <1>2, <2>5, <3>2, <3>3 DEF Permitted, CanMove, Fresh, WorkStates
    <3>5. ~RejectSave(Main)
        BY <3>4 DEF RejectSave
    <3>6. item'[w].state = "failed"
        BY <1>1, <1>2, <1>8, <3>1, <3>5, MovedItem
    <3> QED BY <3>6 DEF Active, Terminal
  <2> HIDE DEF q
  <2> QED BY <1>2, <2>1, <2>2, <2>3, <2>4, <2>5 DEF Ready, q
<1> QED BY <1>3, <1>4, <1>5, <1>6, <1>7, <1>8

\* An execution goes on until its item has ended, or is being cancelled.
LEMMA GoingOn ==
    ASSUME Driven, Undisturbed, Absorbed, Ending, Steady, NobodyGaveUp', ~Crash, [Next]_vars,
           NEW e \in Execs, Going(e), Active(item[e[1]]), Active(item'[e[1]])
    PROVE  Going(e)' \/ Cancelling(e[1])'
<1> SUFFICES ASSUME ~Going(e)'
             PROVE  Cancelling(e[1])'
    OBVIOUS
<1>1. /\ TypeOK /\ Sealing /\ Versions /\ e \in Threads /\ e[1] \in Works /\ th[e].w = e[1]
      /\ FailuresFinish /\ CancelSent /\ wf[e].st = "live" /\ ~Finishing(e)
      /\ wf[e] \in Workflow(Message \cup {NoMessage})
      /\ wf \in [Execs -> Workflow(Message \cup {NoMessage})]
    BY ExecOK DEF Driven, Sealing, Pausing, Execution, Versions, Steady, Going, TypeOK, DbosOK
<1>2. th[e].held.state \notin Terminal
  <2>1. th[e].held.state # "failed"
      BY <1>1 DEF FailuresFinish
  <2>2. ~(th[e].held.state \in {"completed", "cancelled"})
      BY <1>1 DEF Absorbed, Active, Terminal
  <2> QED BY <2>1, <2>2 DEF Terminal
<1>3. CASE WorkflowStep(e)
  <2>1. wf'[e].st # "live"
      BY <1>1, <1>3, OwnRowMoves DEF Going, Finishing
  <2>2. CASE StepReturns(e)
    <3> DEFINE row == wf[e] state == th[e].held.state
               used == row.used + (IF Spends(state) THEN 1 ELSE 0)
    <3>1. wf'[e] = CASE row.at = "advance" -> AfterAdvance(row, state)
                     [] row.at = "apply"   -> [row EXCEPT !.at = "advance", !.msg = NoMessage]
                     [] OTHER              -> [row EXCEPT !.st = "done"]
        BY <1>1, <2>2 DEF StepReturns
    <3>2. /\ [row EXCEPT !.at = "advance", !.msg = NoMessage].st = row.st
          /\ \A v : [row EXCEPT !.at = v].st = row.st
          /\ \A u, v : [row EXCEPT !.used = u, !.at = v].st = row.st
        BY <1>1 DEF Workflow
    <3>3. AfterAdvance(row, state).st = row.st
      <4>1. AfterAdvance(row, state) \in {[row EXCEPT !.at = "owner"], [row EXCEPT !.at = "control"],
                                          [row EXCEPT !.used = used, !.at = LoopOrFail(used)]}
        <5>1. state \notin Terminal
            BY <1>2
        <5> HIDE DEF row, state
        <5> QED BY <5>1 DEF AfterAdvance
      <4>2. /\ [row EXCEPT !.at = "owner"].st = row.st /\ [row EXCEPT !.at = "control"].st = row.st
            /\ [row EXCEPT !.used = used, !.at = LoopOrFail(used)].st = row.st
          BY <3>2
      <4> QED BY <4>1, <4>2
    <3>4. row.at \notin {"advance", "apply"}
        BY <1>1, <2>1, <3>1, <3>2, <3>3
    <3>5. th[e].pc = "ret" /\ th[e].todo = <<>>
        BY <2>2 DEF StepReturns
    <3>6. <<Move("failed", "keep"), Clear, Notify>> # <<>>
        OBVIOUS
    <3> QED BY <1>2, <3>4, <3>5, <3>6 DEF Ending
  <2>3. CASE StepRaises(e)
    <3>1. wf' = wf \/ wf' = [wf EXCEPT ![e].st = "error"]
        BY <2>3 DEF StepRaises
    <3>2. wf'[e].st = "error"
        BY <1>1, <2>1, <3>1 DEF Workflow
    <3> QED BY <3>2 DEF NobodyGaveUp
  <2>4. CASE ReceiveAnswer(e)
      BY <1>1, <2>1, <2>4 DEF ReceiveAnswer, Workflow
  <2>5. CASE ReceiveControl(e)
    <3> DEFINE q == inbox[e].control
    <3>1. q # <<>> /\ th' = th
        BY <2>5 DEF ReceiveControl, volatile
    <3>2. Head(q) # "resume"
      <4>1. [wf[e] EXCEPT !.at = "advance"].st = "live"
          BY <1>1 DEF Workflow
      <4>2. Head(q) = "resume" => wf'[e] = [wf[e] EXCEPT !.at = "advance"]
          BY <1>1, <2>5 DEF ReceiveControl
      <4> QED BY <2>1, <4>1, <4>2
    <3>3. q \in Seq({"resume", "cancel"})
        BY <1>1 DEF TypeOK, DbosOK
    <3>4. 1 \in DOMAIN q /\ q[1] = Head(q)
        BY <3>1, <3>3
    <3>5. ToldToEnd(e)
        BY <3>2, <3>4 DEF ToldToEnd
    <3>6. Cancelling(e[1])
        BY <1>1, <3>5 DEF CancelSent
    <3> QED BY <3>1, <3>6 DEF Cancelling
  <2> QED BY <1>3, <2>2, <2>3, <2>4, <2>5 DEF WorkflowStep
<1>4. CASE ~WorkflowStep(e)
  <2>1. wf'[e] = wf[e]
      BY <1>1, <1>4, LiveRowMoves
  <2>2. Finishing(e)'
      BY <1>1, <2>1 DEF Going
  <2>3. th'[e].held.state = "failed" /\ th'[e] # th[e]
      BY <1>1, <2>1, <2>2 DEF Finishing
  <2>4. Knows(e)
      BY <1>1, NextEffect DEF Effects, ThreadEffect
  <2>5. th'[e].w = e[1]
    <3>1. TypeOK'
        BY <1>1, TypesNext
    <3> QED BY <1>1, <3>1 DEF TypeOK, ThreadsOK, OwnItem
  <2>6. CASE th'[e].held = th[e].held
      BY <1>2, <2>3, <2>6 DEF Terminal
  <2>7. CASE th'[e].held \in {item[e[1]], item'[e[1]]}
      BY <2>3, <2>7 DEF Active, Terminal
  <2> QED BY <2>3, <2>4, <2>5, <2>6, <2>7 DEF Knows, Absent
<1> QED BY <1>3, <1>4

LEMMA MannedNext ==
    ASSUME Driven, Undisturbed, Absorbed, Ending, Steady, Manned, NobodyGaveUp', ~Crash,
           [Next]_vars
    PROVE  Manned'
<1> SUFFICES ASSUME NEW w \in Works, Active(item'[w])
             PROVE  Launching(w)' \/ Cancelling(w)' \/ \E e \in Execs : e[1] = w /\ Going(e)'
    BY DEF Manned
<1>1. TypeOK /\ Ordered(th[Main]) /\ Poised
    BY DEF Driven, Sealing, Pausing, Execution, Versions, Steady
<1>2. CASE ~Active(item[w])
  <2>1. CASE OwnerStart(w)
    <3>1. th'[Main].w = w /\ th'[Main].todo = <<Launch>>
        BY <1>1, <2>1, StartLaunches
    <3> QED BY <3>1, FaultStarts DEF Launching
  <2>2. CASE StoreCall(Main) /\ ~RejectSave(Main) /\ th[Main].w = w
             /\ th[Main].todo = Tail(Tail(Again))
    <3>1. Tail(th[Main].todo) = <<Restart, Bind>>
        BY <2>2, AgainCalls
    <3>2. Tail(th[Main].todo) # <<>>
        BY <3>1, FaultStarts
    <3>3. th'[Main].w = w /\ th'[Main].todo = <<Restart, Bind>>
        BY <1>1, <2>2, <3>1, <3>2, MainGoesOn
    <3> QED BY <3>3, FaultStarts DEF Launching
  <2> QED BY <1>1, <1>2, <2>1, <2>2, InactiveMoves
<1>3. CASE Active(item[w])
  <2>1. CASE Launching(w)
      BY <1>1, <1>3, <2>1, LaunchingNext
  <2>2. CASE Cancelling(w)
      BY <1>3, <2>2, CancellingNext
  <2>3. ASSUME NEW e \in Execs, e[1] = w, Going(e)
        PROVE  Going(e)' \/ Cancelling(w)'
      BY <1>3, <2>3, GoingOn
  <2> QED BY <1>3, <2>1, <2>2, <2>3 DEF Manned
<1> QED BY <1>2, <1>3

-----------------------------------------------------------------------------
(* Whoever is needed is there *)

LEMMA WatchedInitially == Init => Watched
<1> SUFFICES ASSUME Init
             PROVE  Watched
    OBVIOUS
<1>1. /\ \A t \in Threads : th[t] = Idle(t[1])
      /\ \A w \in Works : item[w] = Absent
      /\ \A e \in Execs : wf[e] = NoWorkflow /\ inbox[e].control = <<>>
    BY DEF Init, StoreInit
<1>2. \A x : Idle(x).held = Absent
    BY DEF Idle
<1>3. Main \in Threads /\ \A e \in Execs : e \in Threads /\ e[1] \in Works
    BY ThreadFacts
<1>4. Absent.state = "absent" /\ NoWorkflow.st = "none"
    BY DEF Absent, NoWorkflow
<1>5. Absorbed
    BY <1>1, <1>2, <1>4 DEF Absorbed
<1>6. Ending
    BY <1>1, <1>3, IdleIsFree DEF Ending
<1>7. FailuresFinish
    BY <1>1, <1>2, <1>3, <1>4 DEF FailuresFinish
<1>8. Poised /\ Ordered(th[Main])
  <2>1. th[Main].todo = <<>> /\ th[Main].pc = "idle"
      BY <1>1, <1>3, IdleIsFree
  <2>2. th[Main].todo \in Seq(OrderFree)
      BY <2>1, OrderFreeLists
  <2>3. Ordered(th[Main])
    <3> DEFINE rec == th[Main]
    <3>1. rec.pc = "idle" /\ rec.todo \in Seq(OrderFree)
        BY <2>1, <2>2
    <3> HIDE DEF rec
    <3>2. Ordered(rec)
        BY <3>1, FreshOrder
    <3> QED BY <3>2 DEF rec
  <2>4. Poised
      BY <2>1 DEF Poised
  <2> QED BY <2>3, <2>4
<1>9. Unstarted /\ CancelSent
    BY <1>1, <1>4 DEF Unstarted, CancelSent, ToldToEnd
<1>10. Manned
    BY <1>1, <1>4 DEF Manned, Active, WorkStates, Waiting, Terminal
<1> QED BY <1>5, <1>6, <1>7, <1>8, <1>9, <1>10, DrivenInitially DEF Watched, Steady

LEMMA WatchedNext == Watched /\ [Next]_vars => Watched'
<1> SUFFICES ASSUME Watched, [Next]_vars
             PROVE  Watched'
    OBVIOUS
<1>1. Driven /\ Driven' /\ Sealing /\ BusyIsLive /\ TypeOK /\ fuel.crash <= Fuel.crash
    BY DrivenNext DEF Watched, Driven, Sealing, Pausing, Execution, Versions
<1>2. Absorbed /\ Ending /\ Absorbed' /\ Ending'
    BY <1>1, AbsorbedNext, EndingNext DEF Watched
<1>3. Calm' => Calm /\ ~Crash
    BY <1>1, CrashesOnce DEF Calm
<1>4. ASSUME Calm'
      PROVE  Undisturbed /\ Undisturbed' /\ ~Crash /\ Steady
    BY <1>1, <1>3, <1>4 DEF Driven, Watched
<1>5. ASSUME Calm'
      PROVE  Steady'
  <2>1. FailuresFinish /\ Poised /\ Ordered(th[Main]) /\ Unstarted /\ CancelSent
      BY <1>4, <1>5 DEF Steady
  <2>2. FailuresFinish'
      BY <1>1, <1>4, <1>5, <2>1, FailuresFinishNext
  <2>3. Poised'
      BY <1>1, <1>4, <1>5, <2>1, PoisedNext
  <2>4. Ordered(th[Main])'
      BY <1>1, <1>4, <1>5, <2>1, OrderedNext DEF Ordered
  <2>5. Unstarted'
      BY <1>1, <1>4, <1>5, <2>1, UnstartedNext
  <2>6. CancelSent'
      BY <1>1, <1>4, <1>5, <2>1, CancelSentNext
  <2> QED BY <2>2, <2>3, <2>4, <2>5, <2>6 DEF Steady
<1>6. ASSUME Calm', NobodyGaveUp'
      PROVE  Manned'
  <2>1. NobodyGaveUp
      BY <1>1, <1>6, RowsStay DEF NobodyGaveUp
  <2>2. Manned
      BY <1>3, <1>6, <2>1 DEF Watched
  <2> QED BY <1>1, <1>2, <1>4, <1>6, <2>2, MannedNext
<1> QED BY <1>1, <1>2, <1>5, <1>6 DEF Watched

\* Until the first crash, and as long as no workflow gave up on its item, an item that
\* the owner can still expect something of has a workflow to do it: start and retry
\* submit one before they return, or fail the item, and cancel ends the item before its
\* workflow goes without it.
THEOREM ActiveWorkIsDrivenUntilACrash ==
    Spec => [](Calm /\ NobodyGaveUp => ActiveWorkIsDriven)
<1>1. Watched => (Calm /\ NobodyGaveUp => ActiveWorkIsDriven)
  <2> SUFFICES ASSUME Watched, Calm, NobodyGaveUp, Quiet, NEW w \in Works, Active(item[w])
               PROVE  Live(w) # {}
      BY DEF ActiveWorkIsDriven
  <2>1. Manned
      BY DEF Watched
  <2>2. th[Main].todo = <<>> /\ th[Main].pc = "idle"
      BY DEF Quiet
  <2>3. ~Launching(w) /\ ~Cancelling(w)
      BY <2>2 DEF Launching, Cancelling
  <2> QED BY <2>1, <2>3 DEF Manned, Going, Live
<1> QED BY <1>1, WatchedInitially, WatchedNext, PTL DEF Spec

-----------------------------------------------------------------------------
(* Cycles that cost nothing *)

\* The rows that account for the cycles an item has spent.
Accounts(w) == {i \in DOMAIN steps[w] : steps[w][i].kind \in {"work", "note"}}

Cost(w) == Cardinality(Accounts(w))

\* The present cycle of e has left its row.
Earned(e) == wf[e].used + 1 <= Cost(e[1])

Books(o) == o.op = "add" /\ o.a \in {"work", "note"}
Rests(o) == o.op = "move" /\ ~Spends(o.a)
Turns(o) == o.op \in {"read", "move"}

\* Calls q, made by a thread that holds held, leave a row, or leave the thread
\* holding an item that spends nothing.
EndsFree(q, held) ==
    \/ \E i \in DOMAIN q : Books(q[i])
    \/ ~Spends(held.state) /\ \A i \in DOMAIN q : ~Turns(q[i])
    \/ \E i \in DOMAIN q : Rests(q[i]) /\ \A j \in (i + 1) .. Len(q) : ~Turns(q[j])

\* What a cycle has left, at each point, of the row it is counted by.
Earning(e) ==
    /\ th[e].pc \in {"done", "settle", "asking"} => Earned(e)
    /\ th[e].pc = "exec" => th[e].todo \in {Start, Tail(Start)} \/ Earned(e)
    /\ th[e].pc = "failing" => Earned(e) \/ \E i \in DOMAIN th[e].todo : Books(th[e].todo[i])
    /\ th[e].pc = "ret" /\ wf[e].at = "advance" => Earned(e) \/ EndsFree(th[e].todo, th[e].held)

\* An item whose execution waits for the lease waits too, or has ended: the owner's
\* commands can only end it.
Spares(o) ==
    /\ o.op = "move" => o.a \in Terminal
    /\ o.op = "send" => o.a # "resume"

Waited(w) == item[w].state \in Terminal \cup {"waiting_resource"}

LeaseWaits ==
    \A e \in Execs : th[e].pc = "lease" =>
        /\ IF th[e].todo = <<>> THEN Waited(e[1])
                                ELSE th[e].todo = <<Move("waiting_resource", "none")>>
        /\ th[Main].w = e[1] => \A i \in DOMAIN th[Main].todo : Spares(th[Main].todo[i])

Frugal ==
    /\ Driven
    /\ Calm => LeaseWaits /\ WaitingIsFree /\ \A e \in Execs : Earning(e)

-----------------------------------------------------------------------------
(* The rows that count *)

\* A row stays, of the kind it was added with.
LEMMA RowsKeepKinds ==
    ASSUME TypeOK, [Next]_vars, NEW w \in Works
    PROVE  \A i \in DOMAIN steps[w] :
              i \in DOMAIN steps'[w] /\ steps'[w][i].kind = steps[w][i].kind
<1> DEFINE Goal == \A i \in DOMAIN steps[w] :
                      i \in DOMAIN steps'[w] /\ steps'[w][i].kind = steps[w][i].kind
<1>1. steps \in [Works -> Seq(StepRow)]
    BY DEF TypeOK, StoreOK
<1>2. steps' = steps => Goal
    OBVIOUS
<1>3. ASSUME NEW v \in Works, NEW row, AddStep(v, row)
      PROVE  Goal
    BY <1>1, <1>3, AddStepRows
<1>4. ASSUME NEW v \in Works, NEW k, NEW st, NEW obs, SaveStep(v, k, st, obs)
      PROVE  Goal
  <2>1. CASE k \in DOMAIN steps[v]
    <3>1. /\ \A x \in Works : DOMAIN steps'[x] = DOMAIN steps[x]
          /\ \A x \in Works : \A j \in DOMAIN steps[x] :
                x # v \/ j # k => steps'[x][j] = steps[x][j]
        BY <1>1, <1>4, <2>1, SaveStepRows
    <3>2. steps'[v] = [steps[v] EXCEPT ![k] = [steps[v][k] EXCEPT !.st = st, !.obs = obs]]
        BY <1>1, <1>4 DEF SaveStep
    <3>3. steps'[v][k] = [steps[v][k] EXCEPT !.st = st, !.obs = obs]
        BY <1>1, <2>1, <3>2
    <3>4. steps[v][k] \in StepRow
        BY <1>1, <2>1
    <3>5. steps'[v][k].kind = steps[v][k].kind
        BY <3>3, <3>4 DEF StepRow
    <3> QED BY <3>1, <3>5
  <2>2. CASE k \notin DOMAIN steps[v]
    <3>1. steps'[v] = steps[v] /\ \A x \in Works \ {v} : steps'[x] = steps[x]
        BY <1>1, <1>4, <2>2 DEF SaveStep
    <3> QED BY <3>1
  <2> QED BY <2>1, <2>2
<1>5. ASSUME NEW t \in Threads, StoreCall(t) PROVE Goal
  <2>1. th[t].w \in Works
      BY <1>5, StoreCallRuns, CallFacts DEF TypeOK
  <2>2. CASE DoAdd(t) \/ DoMark(t) \/ DoInterrupt(t)
      BY <1>3, <1>4, <2>1, <2>2 DEF DoAdd, DoMark, DoInterrupt
  <2>3. CASE ~(DoAdd(t) \/ DoMark(t) \/ DoInterrupt(t))
      BY <1>2, <1>5, <2>3 DEF StoreCall, DoRead, DoSave, RejectSave, DoNotify, DoBlocker,
         DoClear, DoSend, DoSubmit, DoRestart, DoBind, storeVars
  <2> QED BY <2>2, <2>3
<1>6. ASSUME NEW e \in Execs, EngineStep(e) PROVE Goal
  <2>1. CASE ApplySealed(e)
      BY <1>2, <1>3, <2>1, ThreadFacts DEF ApplySealed
  <2>2. CASE ~ApplySealed(e)
      BY ZenonT(30), <1>2, <1>6, <2>2 DEF EngineStep, AdvanceStopped, AdvanceDependent, Advance, Admit,
         Admission, DecideTooLate, BrainUnavailable, BrainFails, BrainCompletes, BrainAsks,
         BrainActs, Leased, LeaseRefused, Executed, StepDone, StepAsks, StepFails,
         ApplyPlain, FailBounded, Only, Pressed, storeVars
  <2> QED BY <2>1, <2>2
<1>7. steps' = steps \/ (\E t \in Threads : StoreCall(t)) \/ \E e \in Execs : EngineStep(e)
    BY DEF Next, vars, WorkflowStep, StepReturns, StepRaises, ReceiveAnswer, ReceiveControl,
       MainStep, OwnerStep, BackendFault, Crash, storeVars, Only, CancelAgain, BootStart,
       BootLaunch, BootResubmit, BootInterrupted, OwnerStart, OwnerPause, OwnerResume,
       OwnerCancel, OwnerRetry, OwnerReprioritize, OwnerAnswer
<1> QED BY <1>2, <1>5, <1>6, <1>7

LEMMA AccountsAreFinite ==
    ASSUME TypeOK, NEW w \in Works
    PROVE  IsFiniteSet(Accounts(w)) /\ Cost(w) \in Nat
<1>1. IsFiniteSet(DOMAIN steps[w])
    BY FS_Interval, LenProperties DEF TypeOK, StoreOK
<1>2. IsFiniteSet(Accounts(w))
    BY <1>1, FS_Subset DEF Accounts
<1> QED BY <1>2, FS_CardinalityType DEF Cost

\* What is on the account stays there, and a call that books adds to it.
LEMMA CostGrows ==
    ASSUME TypeOK, TypeOK', [Next]_vars, NEW w \in Works
    PROVE  /\ Cost(w) \in Nat /\ Cost(w)' \in Nat /\ Cost(w) <= Cost(w)'
           /\ \A t \in Threads : DoAdd(t) /\ th[t].w = w /\ Books(Head(th[t].todo)) =>
                 Cost(w) + 1 <= Cost(w)'
<1>1. IsFiniteSet(Accounts(w)) /\ Cost(w) \in Nat
    BY AccountsAreFinite
<1>2. IsFiniteSet(Accounts(w)') /\ Cost(w)' \in Nat
  <2>1. IsFiniteSet(DOMAIN steps'[w])
      BY FS_Interval, LenProperties DEF TypeOK, StoreOK
  <2>2. Accounts(w)' \subseteq DOMAIN steps'[w]
      BY DEF Accounts
  <2>3. IsFiniteSet(Accounts(w)')
      BY <2>1, <2>2, FS_Subset
  <2> QED BY <2>3, FS_CardinalityType DEF Cost
<1>3. Accounts(w) \subseteq Accounts(w)'
    BY RowsKeepKinds DEF Accounts
<1>4. Cost(w) <= Cost(w)'
    BY <1>2, <1>3, FS_Subset DEF Cost
<1>5. ASSUME NEW t \in Threads, DoAdd(t), th[t].w = w, Books(Head(th[t].todo))
      PROVE  Cost(w) + 1 <= Cost(w)'
  <2> DEFINE o   == Head(th[t].todo)
             row == [kind |-> o.a, st |-> "planned", obs |-> "", ver |-> 0]
             n   == Len(steps[w]) + 1
  <2>1. steps \in [Works -> Seq(StepRow)] /\ AddStep(w, row)
      BY <1>5 DEF TypeOK, StoreOK, DoAdd
  <2>2. row.kind = o.a
      OBVIOUS
  <2> HIDE DEF row
  <2>3. n \in DOMAIN steps'[w] \ DOMAIN steps[w]
      BY <2>1, AddStepRows
  <2>4. steps'[w][n] = row
    <3>1. steps'[w] = Append(steps[w], row) /\ steps[w] \in Seq(StepRow)
        BY <2>1 DEF AddStep
    <3> QED BY <3>1
  <2>5. n \in Accounts(w)' /\ n \notin Accounts(w)
      BY <1>5, <2>2, <2>3, <2>4 DEF Accounts, Books
  <2>6. Accounts(w) \cup {n} \subseteq Accounts(w)'
      BY <1>3, <2>5
  <2>7. Cardinality(Accounts(w) \cup {n}) = Cost(w) + 1
      BY <1>1, <2>5, FS_AddElement DEF Cost
  <2>8. Cardinality(Accounts(w) \cup {n}) <= Cost(w)'
      BY <1>2, <2>6, FS_Subset DEF Cost
  <2> QED BY <2>7, <2>8
<1> QED BY <1>1, <1>2, <1>4, <1>5

-----------------------------------------------------------------------------
(* Lists that end free *)

LEMMA FreeEnds ==
    ASSUME NEW a, NEW b, NEW c, NEW m, Rests(m), NEW d, ~Turns(d), NEW f, ~Turns(f), NEW held
    PROVE  /\ EndsFree(<<m>>, held) /\ EndsFree(<<m, d>>, held) /\ EndsFree(<<m, d, f>>, held)
           /\ EndsFree(<<a, m, d>>, held) /\ EndsFree(<<a, b, m>>, held)
           /\ EndsFree(<<a, b, c, m>>, held) /\ EndsFree(<<a, b, c, m, d>>, held)
<1>1. \A q : \A i \in DOMAIN q : Rests(q[i]) /\ (\A j \in (i + 1) .. Len(q) : ~Turns(q[j]))
                                   => EndsFree(q, held)
    BY DEF EndsFree
<1>2. EndsFree(<<m>>, held) /\ EndsFree(<<a, b, m>>, held) /\ EndsFree(<<a, b, c, m>>, held)
  <2>1. <<m>>[1] = m /\ \A j \in 2 .. Len(<<m>>) : FALSE
      OBVIOUS
  <2>2. <<a, b, m>>[3] = m /\ \A j \in 4 .. Len(<<a, b, m>>) : FALSE
      OBVIOUS
  <2>3. <<a, b, c, m>>[4] = m /\ \A j \in 5 .. Len(<<a, b, c, m>>) : FALSE
      OBVIOUS
  <2>4. 1 \in DOMAIN <<m>> /\ 3 \in DOMAIN <<a, b, m>> /\ 4 \in DOMAIN <<a, b, c, m>>
      OBVIOUS
  <2>5. EndsFree(<<m>>, held)
      BY <1>1, <2>1, <2>4
  <2>6. EndsFree(<<a, b, m>>, held)
      BY <1>1, <2>2, <2>4
  <2>7. EndsFree(<<a, b, c, m>>, held)
      BY <1>1, <2>3, <2>4
  <2> QED BY <2>5, <2>6, <2>7
<1>3. EndsFree(<<m, d>>, held) /\ EndsFree(<<a, m, d>>, held)
      /\ EndsFree(<<a, b, c, m, d>>, held)
  <2>1. <<m, d>>[1] = m /\ \A j \in 2 .. Len(<<m, d>>) : j = 2 /\ <<m, d>>[j] = d
      OBVIOUS
  <2>2. <<a, m, d>>[2] = m /\ \A j \in 3 .. Len(<<a, m, d>>) : j = 3 /\ <<a, m, d>>[j] = d
      OBVIOUS
  <2>3. /\ <<a, b, c, m, d>>[4] = m
        /\ \A j \in 5 .. Len(<<a, b, c, m, d>>) : j = 5 /\ <<a, b, c, m, d>>[j] = d
      OBVIOUS
  <2>4. 1 \in DOMAIN <<m, d>> /\ 2 \in DOMAIN <<a, m, d>> /\ 4 \in DOMAIN <<a, b, c, m, d>>
      OBVIOUS
  <2>5. EndsFree(<<m, d>>, held)
      BY <1>1, <2>1, <2>4
  <2>6. EndsFree(<<a, m, d>>, held)
      BY <1>1, <2>2, <2>4
  <2>7. EndsFree(<<a, b, c, m, d>>, held)
      BY <1>1, <2>3, <2>4
  <2> QED BY <2>5, <2>6, <2>7
<1>4. EndsFree(<<m, d, f>>, held)
  <2>1. <<m, d, f>>[1] = m /\ \A j \in 2 .. Len(<<m, d, f>>) : <<m, d, f>>[j] \in {d, f}
      OBVIOUS
  <2>2. 1 \in DOMAIN <<m, d, f>>
      OBVIOUS
  <2> QED BY <1>1, <2>1, <2>2
<1> QED BY <1>2, <1>3, <1>4

\* The lists advance leaves to a step that returns, whatever it holds, and those it
\* leaves to one that holds an item at rest.
LEMMA ReturnLists ==
    ASSUME NEW held
    PROVE  /\ EndsFree(Waits, held) /\ EndsFree(WaitsBlocked, held)
           /\ EndsFree(<<Move("failed", "none"), Notify>>, held)
           /\ EndsFree(<<Move("running", "none"), Move("failed", "none"), Notify>>, held)
           /\ EndsFree(<<Move("completed", "none"), Clear, Notify>>, held)
           /\ EndsFree(<<Move("waiting_for_owner", "none"), Notify>>, held)
           /\ EndsFree(<<Move("running", "none"), Read, Move("paused", "keep")>>, held)
           /\ EndsFree(<<Add("note"), Mark("completed", ""), Read, Touch("none")>>, held)
           /\ EndsFree(<<Move("waiting_dependency", "none")>>, held)
           /\ EndsFree(<<Move("paused", "keep")>>, held)
           /\ EndsFree(<<Move("waiting_resource", "keep")>>, held)
           /\ ~Spends(held.state) => /\ EndsFree(<<>>, held) /\ EndsFree(<<Notify>>, held)
                                     /\ EndsFree(<<Touch("keep")>>, held)
<1>1. \A s : \A to \in {"failed", "completed", "waiting_for_owner", "waiting_dependency",
                        "paused", "waiting_resource"} : Rests(Move(to, s))
  <2>1. \A to \in {"failed", "completed", "waiting_for_owner", "waiting_dependency", "paused",
                   "waiting_resource"} : ~Spends(to)
      BY DEF Spends, Terminal, Waiting
  <2> QED BY <2>1, CallOps DEF Rests
<1>2. ~Turns(Notify) /\ ~Turns(Clear) /\ ~Turns(Blocker) /\ ~Turns(Touch("keep"))
    BY CallOps DEF Turns
<1>3. EndsFree(Waits, held) /\ EndsFree(WaitsBlocked, held)
    BY <1>1, <1>2, FreeEnds DEF Waits, WaitsBlocked
<1>4. /\ EndsFree(<<Move("failed", "none"), Notify>>, held)
      /\ EndsFree(<<Move("running", "none"), Move("failed", "none"), Notify>>, held)
      /\ EndsFree(<<Move("completed", "none"), Clear, Notify>>, held)
      /\ EndsFree(<<Move("waiting_for_owner", "none"), Notify>>, held)
      /\ EndsFree(<<Move("running", "none"), Read, Move("paused", "keep")>>, held)
      /\ EndsFree(<<Move("waiting_dependency", "none")>>, held)
      /\ EndsFree(<<Move("paused", "keep")>>, held)
      /\ EndsFree(<<Move("waiting_resource", "keep")>>, held)
    BY <1>1, <1>2, FreeEnds
<1>5. EndsFree(<<Add("note"), Mark("completed", ""), Read, Touch("none")>>, held)
  <2>1. Books(Add("note"))
      BY DEF Books, Add, Op
  <2>2. \A a, b, c, d : 1 \in DOMAIN <<a, b, c, d>> /\ <<a, b, c, d>>[1] = a
      OBVIOUS
  <2> QED BY <2>1, <2>2 DEF EndsFree
<1>6. ASSUME ~Spends(held.state), NEW o, ~Turns(o)
      PROVE  EndsFree(<<>>, held) /\ EndsFree(<<o>>, held)
  <2>1. DOMAIN <<>> = {} /\ DOMAIN <<o>> = {1} /\ <<o>>[1] = o
      OBVIOUS
  <2> QED BY <1>6, <2>1 DEF EndsFree
<1> QED BY <1>2, <1>3, <1>4, <1>5, <1>6

\* A call takes the list on: it books, or what is left still ends free.
LEMMA TailEndsFree ==
    ASSUME NEW q \in Seq(Call), q # <<>>, NEW held, EndsFree(q, held), ~Books(Head(q)),
           NEW new,
           ~Turns(Head(q)) => new.state = held.state,
           Rests(Head(q)) => ~Spends(new.state)
    PROVE  EndsFree(Tail(q), new)
<1>1. /\ \A i \in DOMAIN Tail(q) : i \in Nat \ {0} /\ i + 1 \in DOMAIN q /\ Tail(q)[i] = q[i + 1]
      /\ \A i \in DOMAIN q : i \in Nat \ {0} /\ (i # 1 => i - 1 \in DOMAIN Tail(q) /\ Tail(q)[i - 1] = q[i])
      /\ Len(Tail(q)) = Len(q) - 1 /\ Len(q) \in Nat /\ DOMAIN q = 1 .. Len(q)
      /\ q[1] = Head(q) /\ 1 \in DOMAIN q
      /\ DOMAIN Tail(q) = 1 .. Len(q) - 1
    OBVIOUS
<1>2. ASSUME NEW i \in DOMAIN q, Books(q[i])
      PROVE  EndsFree(Tail(q), new)
  <2>1. i # 1
      BY <1>1, <1>2
  <2>2. i - 1 \in DOMAIN Tail(q) /\ Books(Tail(q)[i - 1])
      BY <1>1, <1>2, <2>1
  <2> QED BY <2>2 DEF EndsFree
<1>3. ASSUME ~Spends(held.state), \A i \in DOMAIN q : ~Turns(q[i])
      PROVE  EndsFree(Tail(q), new)
  <2>1. ~Spends(new.state)
      BY <1>1, <1>3
  <2>2. \A i \in DOMAIN Tail(q) : ~Turns(Tail(q)[i])
      BY <1>1, <1>3
  <2> QED BY <2>1, <2>2 DEF EndsFree
<1>4. ASSUME NEW i \in DOMAIN q, Rests(q[i]), \A j \in (i + 1) .. Len(q) : ~Turns(q[j])
      PROVE  EndsFree(Tail(q), new)
  <2>1. CASE i = 1
    <3>1. ~Spends(new.state)
        BY <1>1, <1>4, <2>1
    <3>2. ASSUME NEW j \in DOMAIN Tail(q)
          PROVE  ~Turns(Tail(q)[j])
      <4>1. j + 1 \in (i + 1) .. Len(q) /\ Tail(q)[j] = q[j + 1]
          BY <1>1, <2>1
      <4> QED BY <1>4, <4>1
    <3> QED BY <3>1, <3>2 DEF EndsFree
  <2>2. CASE i # 1
    <3>1. i - 1 \in DOMAIN Tail(q) /\ Rests(Tail(q)[i - 1])
        BY <1>1, <1>4, <2>2
    <3>2. ASSUME NEW j \in (i - 1) + 1 .. Len(Tail(q))
          PROVE  ~Turns(Tail(q)[j])
      <4>1. j \in DOMAIN Tail(q) /\ j + 1 \in (i + 1) .. Len(q)
          BY <1>1
      <4>2. Tail(q)[j] = q[j + 1]
          BY <1>1, <4>1
      <4> QED BY <1>4, <4>1, <4>2
    <3> QED BY <3>1, <3>2 DEF EndsFree
  <2> QED BY <2>1, <2>2
<1> QED BY <1>2, <1>3, <1>4 DEF EndsFree

\* Only the return of advance spends.
LEMMA UsedMoves ==
    ASSUME TypeOK, [Next]_vars, NEW e \in Execs
    PROVE  wf'[e].used = wf[e].used \/ StepReturns(e)
<1>1. wf \in [Execs -> Workflow(Message \cup {NoMessage})]
    BY DEF TypeOK, DbosOK
<1>2. ASSUME NEW row, NEW s, row \in Workflow(Message \cup {NoMessage})
      PROVE  [row EXCEPT !.st = s].used = row.used
    BY <1>2 DEF Workflow
<1>3. ASSUME NEW g \in Execs, Submit(g) PROVE wf'[e].used = wf[e].used
    BY <1>1, <1>3 DEF Submit, Workflow
<1>4. ASSUME NEW t \in Threads, StoreCall(t) PROVE wf'[e].used = wf[e].used
  <2>1. CASE DoSubmit(t)
    <3>1. th[t].w \in Works
        BY <1>4, StoreCallRuns, CallFacts DEF TypeOK
    <3> QED BY <1>3, <2>1, <3>1, ThreadFacts DEF DoSubmit
  <2>2. CASE DoRestart(t)
    <3>1. th[t].w \in Works
        BY <1>4, StoreCallRuns, CallFacts DEF TypeOK
    <3>2. PICK n \in 1 .. MaxRetries : Submit(<<th[t].w, n>>)
        BY <2>2 DEF DoRestart
    <3>3. <<th[t].w, n>> \in Execs
        BY <3>1, RetriesAssumption DEF Execs
    <3> QED BY <1>3, <3>2, <3>3
  <2>3. CASE ~DoSubmit(t) /\ ~DoRestart(t)
      BY <1>4, <2>3 DEF StoreCall, DoRead, DoSave, RejectSave, DoAdd, DoMark, DoInterrupt,
         DoNotify, DoBlocker, DoClear, DoSend, DoBind, dbosVars
  <2> QED BY <2>1, <2>2, <2>3
<1>5. ASSUME NEW g \in Execs, WorkflowStep(g), ~StepReturns(g) PROVE wf'[e].used = wf[e].used
  <2>1. CASE StepRaises(g)
      BY <1>1, <2>1 DEF StepRaises, Workflow
  <2>2. CASE ReceiveAnswer(g)
    <3>1. \/ \E m : wf' = [wf EXCEPT ![g].at = "apply", ![g].msg = m]
          \/ wf' = [wf EXCEPT ![g].at = "advance"]
        BY <2>2 DEF ReceiveAnswer
    <3> QED BY <1>1, <3>1 DEF Workflow
  <2>3. CASE ReceiveControl(g)
      BY <1>1, <2>3 DEF ReceiveControl, Workflow
  <2> QED BY <1>5, <2>1, <2>2, <2>3 DEF WorkflowStep
<1>6. ASSUME NEW g \in Execs, StepReturns(g), g # e PROVE wf'[e].used = wf[e].used
    BY <1>1, <1>6 DEF StepReturns
<1>7. CASE BootResubmit
    BY <1>1, <1>7 DEF BootResubmit, Workflow
<1>8. ASSUME NEW g \in Execs, EngineStep(g) PROVE wf' = wf
    BY <1>8, EngineRuns
<1>9. CASE (MainStep /\ ~BootResubmit) \/ OwnerStep \/ BackendFault(Main) \/ Crash \/ UNCHANGED vars
  <2>1. wf' = wf
    BY <1>9 DEF vars, MainStep, OwnerStep, BackendFault, Crash, storeVars, dbosVars, Only,
       CancelAgain, BootStart, BootLaunch, BootInterrupted, OwnerStart, OwnerPause,
       OwnerResume, OwnerCancel, OwnerRetry, OwnerReprioritize, OwnerAnswer
  <2> QED BY SMTT(30), <2>1
<1> QED BY <1>4, <1>5, <1>6, <1>7, <1>8, <1>9 DEF Next

\* A step that returns to the loop spends at most what its cycle has earned.
LEMMA ReturnsSpend ==
    ASSUME TypeOK, NEW e \in Execs, StepReturns(e)
    PROVE  /\ wf'[e].used \in {wf[e].used, wf[e].used + 1}
           /\ wf'[e].used # wf[e].used => wf[e].at = "advance" /\ Spends(th[e].held.state)
           /\ th[e].pc = "ret" /\ th[e].todo = <<>> /\ th'[e].pc = "idle"
<1> DEFINE row == wf[e]
<1>1. wf \in [Execs -> Workflow(Message \cup {NoMessage})] /\ row \in Workflow(Message \cup {NoMessage})
    BY DEF TypeOK, DbosOK
<1>2. e \in Threads /\ th \in [Threads -> Thread]
    BY ThreadFacts DEF TypeOK, ThreadsOK
<1>3. th[e].pc = "ret" /\ th[e].todo = <<>> /\ th' = [th EXCEPT ![e] = Idle(e[1])]
    BY DEF StepReturns
<1>4. th'[e].pc = "idle"
    BY <1>2, <1>3, IdleIsFree
<1>5. wf'[e] = CASE row.at = "advance" -> AfterAdvance(row, th[e].held.state)
                 [] row.at = "apply"   -> [row EXCEPT !.at = "advance", !.msg = NoMessage]
                 [] OTHER              -> [row EXCEPT !.st = "done"]
    BY <1>1 DEF StepReturns
<1>6. CASE row.at # "advance"
  <2>1. wf'[e] = [row EXCEPT !.at = "advance", !.msg = NoMessage] \/ wf'[e] = [row EXCEPT !.st = "done"]
      BY <1>5, <1>6
  <2>2. wf'[e].used = row.used
      BY <1>1, <2>1 DEF Workflow
  <2> QED BY <1>3, <1>4, <2>2
<1>7. CASE row.at = "advance"
  <2> DEFINE s == th[e].held.state
             used == row.used + (IF Spends(s) THEN 1 ELSE 0)
  <2>1. wf'[e] = AfterAdvance(row, s) /\ row.used \in Nat
      BY <1>1, <1>5, <1>7 DEF Workflow
  <2>2. \/ wf'[e] = [row EXCEPT !.st = "done"] \/ wf'[e] = [row EXCEPT !.at = "owner"]
        \/ wf'[e] = [row EXCEPT !.at = "control"]
        \/ wf'[e] = [row EXCEPT !.used = used, !.at = LoopOrFail(used)]
      BY <2>1 DEF AfterAdvance
  <2>3. wf'[e].used \in {row.used, used}
      BY <1>1, <2>2 DEF Workflow
  <2> QED BY <1>3, <1>4, <1>7, <2>1, <2>3
<1> QED BY <1>6, <1>7

\* What a segment of the engine leaves to do ends free, or its row is there already,
\* or comes first.
LEMMA EngineReturns ==
    ASSUME TypeOK, NEW e \in Execs, Placed(e), EngineStep(e), wf[e].at = "advance",
           th[e].pc = "lease" /\ th[e].todo = <<>> => Waited(e[1])
    PROVE  \/ th'[e].pc = "ret" /\ EndsFree(th'[e].todo, th'[e].held)
           \/ th'[e].pc = "ret" /\ th[e].todo = <<>> /\ th[e].pc \in {"done", "settle", "asking", "failing"}
           \/ th'[e].pc = "failing" /\ th'[e].todo = <<Add("note"), Mark("failed", ""), Read>>
           \/ th'[e].pc \notin {"ret", "failing"}
<1> DEFINE it == item[e[1]]
           Goal ==
           \/ th'[e].pc = "ret" /\ EndsFree(th'[e].todo, th'[e].held)
           \/ th'[e].pc = "ret" /\ th[e].todo = <<>> /\ th[e].pc \in {"done", "settle", "asking", "failing"}
           \/ th'[e].pc = "failing" /\ th'[e].todo = <<Add("note"), Mark("failed", ""), Read>>
           \/ th'[e].pc \notin {"ret", "failing"}
<1>1. e \in Threads /\ e # Main /\ th[e] \in Thread /\ th \in [Threads -> Thread]
    BY ThreadFacts, ExecOK DEF TypeOK, ThreadsOK
<1>2. ASSUME NEW held, NEW pc, NEW calls,
             Only(e, held, pc, calls) \/ Pressed(e, held, pc, calls) \/ Segment(e, held, pc, calls)
      PROVE  th'[e].pc = pc /\ th'[e].todo = calls /\ th'[e].held = held
    BY <1>1, <1>2, SegmentMoves DEF Only, Pressed
<1>3. ASSUME NEW held, NEW calls, EndsFree(calls, held),
             Only(e, held, "ret", calls) \/ Pressed(e, held, "ret", calls)
      PROVE  Goal
    BY <1>2, <1>3
<1>4. ASSUME NEW held, NEW calls, NEW pc \in {"brain", "admit", "lease", "done", "settle", "asking"},
             Only(e, held, pc, calls) \/ Pressed(e, held, pc, calls) \/ Segment(e, held, pc, calls)
      PROVE  Goal
    BY <1>2, <1>4
<1>5. \A x : Stopped(x) \/ x.state \in Terminal \cup Waiting => ~Spends(x.state)
    BY DEF Stopped, Spends
<1>6. ASSUME NEW held, Admission(e, held)
      PROVE  Goal
  <2>1. CASE held.state = "waiting_for_owner" /\ Only(e, held, "ret", <<Notify>>)
    <3>1. ~Spends(held.state)
        BY <1>5, <2>1 DEF Waiting
    <3> QED BY <1>3, <2>1, <3>1, ReturnLists
  <2>2. CASE Only(e, held, "brain", MakeRunning(held))
      BY <1>4, <2>2
  <2>3. CASE Only(e, held, "ret", MakeRunning(held) \o <<Move("failed", "none"), Notify>>)
    <3>1. <<>> \o <<Move("failed", "none"), Notify>> = <<Move("failed", "none"), Notify>>
        OBVIOUS
    <3>2. EndsFree(MakeRunning(held) \o <<Move("failed", "none"), Notify>>, held)
        BY <3>1, ThreeCalls, ReturnLists DEF MakeRunning
    <3> QED BY <1>3, <2>3, <3>2
  <2>4. CASE Pressed(e, held, "ret", <<Move("paused", "keep")>>)
      BY <1>3, <2>4, ReturnLists
  <2> QED BY <1>6, <2>1, <2>2, <2>3, <2>4 DEF Admission
<1>7. CASE AdvanceStopped(e)
    BY <1>3, <1>5, <1>7, ReturnLists DEF AdvanceStopped
<1>8. CASE AdvanceDependent(e)
  <2>1. ASSUME it.state = "waiting_dependency", Only(e, it, "ret", <<>>)
        PROVE  Goal
    <3>1. ~Spends(it.state)
        BY <1>5, <2>1 DEF Waiting
    <3> QED BY <1>3, <2>1, <3>1, ReturnLists
  <2>2. ASSUME NEW calls \in {<<Move("failed", "none"), Notify>>, <<Move("waiting_dependency", "none")>>},
               Only(e, it, "ret", calls)
        PROVE  Goal
      BY <1>3, <2>2, ReturnLists
  <2> QED BY <1>4, <1>8, <2>1, <2>2 DEF AdvanceDependent
<1>9. CASE Advance(e)
    BY <1>6, <1>9 DEF Advance
<1>10. CASE Admit(e)
    BY <1>3, <1>5, <1>6, <1>10, ReturnLists DEF Admit
<1>11. CASE DecideTooLate(e)
    BY <1>3, <1>5, <1>11, ReturnLists DEF DecideTooLate
<1>12. CASE BrainUnavailable(e)
  <2>1. Waits \o <<Blocker>> = WaitsBlocked
      BY FiveCalls DEF Waits, WaitsBlocked
  <2>2. \E calls \in {<<Move("waiting_resource", "keep")>>, Waits, WaitsBlocked} :
            Pressed(e, it, "ret", calls)
      BY <1>12, <2>1 DEF BrainUnavailable, Waits
  <2> QED BY <1>3, <2>2, ReturnLists
<1>13. CASE BrainFails(e)
    BY <1>2, <1>13 DEF BrainFails
<1>14. CASE BrainCompletes(e) \/ BrainAsks(e)
    BY <1>3, <1>14, ReturnLists DEF BrainCompletes, BrainAsks
<1>15. CASE BrainActs(e)
    BY <1>4, <1>15 DEF BrainActs
<1>16. CASE Leased(e)
  <2>1. CASE Only(e, it, "ret", <<>>) /\ Stopped(it)
      BY <1>3, <1>5, <2>1, ReturnLists
  <2>2. CASE Pressed(e, it, "ret", <<Move("running", "none"), Read, Move("paused", "keep")>>)
      BY <1>3, <2>2, ReturnLists
  <2>3. CASE th' = [th EXCEPT ![e] = [@ EXCEPT !.pc = "exec", !.held = it, !.todo = Start]]
    <3>1. th'[e] = [th[e] EXCEPT !.pc = "exec", !.held = it, !.todo = Start]
        BY <1>1, <2>3
    <3>2. th'[e].pc = "exec"
        BY <1>1, <3>1 DEF Thread
    <3> QED BY <3>2
  <2> QED BY <1>16, <2>1, <2>2, <2>3 DEF Leased, Start
<1>17. CASE LeaseRefused(e)
  <2>1. Waited(e[1])
      BY <1>17 DEF LeaseRefused, Resumes
  <2>2. ~Spends(it.state)
      BY <2>1 DEF Waited, Spends, Waiting
  <2> QED BY <1>3, <1>17, <2>2, ReturnLists DEF LeaseRefused
<1>18. CASE Executed(e)
    BY <1>4, <1>18 DEF Executed
<1>19. CASE StepDone(e) \/ StepAsks(e) \/ StepFails(e)
  <2>1. th[e].todo = <<>> /\ th[e].pc \in {"done", "settle", "asking", "failing"}
      BY <1>19 DEF StepDone, StepAsks, StepFails, Continues
  <2>2. \E held, calls : Only(e, held, "ret", calls)
      BY <1>19 DEF StepDone, StepAsks, StepFails
  <2> QED BY <1>2, <2>1, <2>2
<1>20. ~ApplyPlain(e) /\ ~ApplySealed(e) /\ ~FailBounded(e)
    BY DEF ApplyPlain, ApplySealed, FailBounded, AtStep
<1> QED BY <1>7, <1>8, <1>9, <1>10, <1>11, <1>12, <1>13, <1>14, <1>15, <1>16, <1>17, <1>18,
           <1>19, <1>20 DEF EngineStep

\* What has been earned stays so until it is spent.
LEMMA EarnedStays ==
    ASSUME TypeOK, TypeOK', [Next]_vars, NEW e \in Execs, wf'[e].used = wf[e].used
    PROVE  Earned(e) => Earned(e)'
<1>1. Cost(e[1]) \in Nat /\ Cost(e[1])' \in Nat /\ Cost(e[1]) <= Cost(e[1])'
    BY CostGrows, ThreadFacts
<1>2. wf[e].used \in Nat
    BY DEF TypeOK, DbosOK, Workflow
<1> QED BY <1>1, <1>2 DEF Earned

LEMMA EngineEarns ==
    ASSUME Execution, TypeOK', [Next]_vars, NEW e \in Execs, Placed(e), Earning(e), EngineStep(e),
           th[e].pc = "lease" /\ th[e].todo = <<>> => Waited(e[1])
    PROVE  Earning(e)'
<1>1. TypeOK /\ Follows(e) /\ Placed(e)' /\ wf' = wf
    BY EngineFollows, EngineCareful, EngineRuns DEF Execution, Versions
<1>2. Earned(e) => Earned(e)'
    BY <1>1, EarnedStays
<1>3. th'[e].pc \in {"done", "settle", "asking"} => Earned(e)'
  <2>1. <<>> \notin {Start, Tail(Start)}
      BY StartCalls
  <2> QED BY <1>1, <1>2, <2>1 DEF Follows, Executing, Earning
<1>4. th'[e].pc = "exec" => th'[e].todo = Start
    BY <1>1, EngineMoves
<1>5. CASE wf[e].at # "advance"
    BY <1>1, <1>5 DEF Earning, Placed, Inside
<1>6. CASE wf[e].at = "advance"
  <2>1. \/ th'[e].pc = "ret" /\ EndsFree(th'[e].todo, th'[e].held)
        \/ th'[e].pc = "ret" /\ th[e].todo = <<>> /\ th[e].pc \in {"done", "settle", "asking", "failing"}
        \/ th'[e].pc = "failing" /\ th'[e].todo = <<Add("note"), Mark("failed", ""), Read>>
        \/ th'[e].pc \notin {"ret", "failing"}
      BY <1>1, <1>6, EngineReturns
  <2>2. th[e].todo = <<>> /\ th[e].pc \in {"done", "settle", "asking", "failing"} => Earned(e)
    <3>1. DOMAIN <<>> = {}
        OBVIOUS
    <3> QED BY <3>1 DEF Earning
  <2>3. th'[e].pc = "failing" => \E i \in DOMAIN th'[e].todo : Books(th'[e].todo[i])
    <3>1. Books(Add("note"))
        BY DEF Books, Add, Op
    <3>2. \A a, b, c : 1 \in DOMAIN <<a, b, c>> /\ <<a, b, c>>[1] = a
        OBVIOUS
    <3>3. \A q, a, b, c : q = <<a, b, c>> /\ Books(a) => \E i \in DOMAIN q : Books(q[i])
        BY <3>2
    <3> QED BY <2>1, <3>1, <3>3
  <2>4. th'[e].pc = "ret" => Earned(e)' \/ EndsFree(th'[e].todo, th'[e].held)
      BY <1>2, <2>1, <2>2
  <2>5. th'[e].pc = "ret" => Earned(e)' \/ EndsFree(th[e].todo, th[e].held)'
      BY <2>4 DEF EndsFree
  <2> QED BY <1>3, <1>4, <2>3, <2>5 DEF Earning
<1> QED BY <1>5, <1>6

LEMMA CallEarns ==
    ASSUME Execution, TypeOK', [Next]_vars, NEW e \in Execs, Placed(e), Earning(e), StoreCall(e),
           wf[e].used <= Cost(e[1]), wf'[e].used = wf[e].used, wf'[e].at = wf[e].at
    PROVE  Earning(e)'
<1> DEFINE q == th[e].todo
           o == Head(th[e].todo)
<1>1. TypeOK /\ q \in Seq(Call) /\ q # <<>> /\ e \in Threads /\ e # Main /\ th[e].w = e[1]
      /\ e[1] \in Works /\ th[e] \in Thread /\ o \in Call
    BY CallBasics, CallFacts, ThreadFacts DEF Execution, Versions, TypeOK
<1>2. Earned(e) => Earned(e)'
    BY <1>1, EarnedStays
<1>3. \/ th'[e].pc \in {"raise", "cancel"}
      \/ th'[e].todo = Tail(q) /\ th'[e].pc = th[e].pc /\ ~RejectSave(e)
    BY <1>1, CallMoves
<1>4. CASE th'[e].pc \in {"raise", "cancel"}
    BY <1>4 DEF Earning
<1>5. CASE th'[e].todo = Tail(q) /\ th'[e].pc = th[e].pc /\ ~RejectSave(e)
  <2>1. Books(o) => Earned(e)'
    <3>1. ASSUME Books(o) PROVE DoAdd(e)
        BY <3>1 DEF Books, StoreCall, DoRead, DoSave, RejectSave, DoMark, DoInterrupt, DoNotify,
           DoBlocker, DoClear, DoSend, DoSubmit, DoRestart, DoBind, Calls
    <3>2. Cost(e[1]) \in Nat /\ Cost(e[1])' \in Nat
          /\ (DoAdd(e) /\ Books(o) => Cost(e[1]) + 1 <= Cost(e[1])')
        BY <1>1, CostGrows
    <3>3. wf[e].used \in Nat
        BY <1>1 DEF TypeOK, DbosOK, Workflow
    <3> QED BY SMTT(30), <3>1, <3>2, <3>3 DEF Earned
  <2>2. CASE th[e].pc \in {"done", "settle", "asking"}
      BY <1>2, <1>5, <2>2 DEF Earning
  <2>3. CASE th[e].pc = "exec"
    <3>1. q = Tail(Start) => Books(o)
      <4>1. \A a, b, c, d : Head(Tail(<<a, b, c, d>>)) = b
          OBVIOUS
      <4>2. Head(Tail(Start)) = Add("work")
          BY <4>1 DEF Start
      <4>3. Books(Add("work"))
          BY DEF Books, Add, Op
      <4> QED BY <4>2, <4>3
    <3>2. q \notin {Start, Tail(Start)} => Earned(e)
        BY <2>3 DEF Earning
    <3> QED BY <1>2, <1>5, <2>1, <2>3, <3>1, <3>2 DEF Earning
  <2>4. CASE th[e].pc = "failing"
    <3>1. ASSUME NEW i \in DOMAIN q, Books(q[i]), ~Books(o)
          PROVE  \E k \in DOMAIN Tail(q) : Books(Tail(q)[k])
      <4>1. i # 1
          BY <1>1, <3>1
      <4>2. i - 1 \in DOMAIN Tail(q) /\ Tail(q)[i - 1] = q[i]
          BY SMTT(30), <1>1, <4>1
      <4> QED BY <3>1, <4>2
    <3>2. Earned(e) \/ \E i \in DOMAIN q : Books(q[i])
        BY <2>4 DEF Earning
    <3> QED BY <1>2, <1>5, <2>1, <2>4, <3>1, <3>2 DEF Earning
  <2>5. CASE th[e].pc = "ret"
    <3>1. wf[e].at = "advance" => Earned(e) \/ EndsFree(q, th[e].held)
        BY <2>5 DEF Earning
    <3>2. ~Turns(o) => th'[e].held.state = th[e].held.state
        BY <1>5, <2>5, CallEffect DEF Turns
    <3>3. ASSUME Rests(o) PROVE ~Spends(th'[e].held.state)
      <4>1. o.op = "move" /\ ~Spends(o.a)
          BY <3>3 DEF Rests
      <4>2. DoSave(e)
          BY <1>5, <4>1 DEF StoreCall, DoRead, DoAdd, DoMark, DoInterrupt, DoNotify,
             DoBlocker, DoClear, DoSend, DoSubmit, DoRestart, DoBind, Calls
      <4>3. th'[e].held = NewRecord(th[e], o)
          BY <1>1, <4>2, SavedRecord DEF Execution
      <4>4. \A it, n : it.state = o.a => Transition(it, o.a, n).state = o.a
          BY DEF Transition
      <4>5. \A it, n : it.state # o.a => Transition(it, o.a, n).state = o.a
          BY DEF Transition
      <4>6. th'[e].held.state = o.a
          BY <4>1, <4>3, <4>4, <4>5 DEF NewRecord
      <4> QED BY <4>1, <4>6
    <3>4. EndsFree(q, th[e].held) /\ ~Books(o) => EndsFree(Tail(q), th'[e].held)
        BY <1>1, <3>2, <3>3, TailEndsFree
    <3>5. wf[e].at = "advance" => Earned(e)' \/ EndsFree(th'[e].todo, th'[e].held)
        BY <1>2, <1>5, <2>1, <3>1, <3>4
    <3>6. wf'[e].at = "advance" => Earned(e)' \/ EndsFree(th[e].todo, th[e].held)'
        BY <3>5 DEF EndsFree
    <3> QED BY <1>5, <2>5, <3>6 DEF Earning
  <2>6. CASE th[e].pc \notin {"done", "settle", "asking", "exec", "failing", "ret"}
      BY <1>5, <2>6 DEF Earning
  <2> QED BY <2>2, <2>3, <2>4, <2>5, <2>6
<1> QED BY <1>3, <1>4, <1>5

-----------------------------------------------------------------------------
(* Items that wait for the lease *)

\* An execution that waits for the lease is the only one of its item.
LEMMA WaiterIsGoing ==
    ASSUME Sealing, BusyIsLive, NEW e \in Execs, th[e].pc = "lease"
    PROVE  Going(e) /\ OnLoop(e) /\ e \in Threads /\ e # Main
BY ThreadFacts DEF BusyIsLive, Going, Finishing, OnLoop, Sealing, Pausing, Placed, Inside

\* Nobody but the main thread saves the item of an execution that waits.
LEMMA OnlyMainSaves ==
    ASSUME Sealing, BusyIsLive, OneGoing, NEW e \in Execs, th[e].pc = "lease", th[e].todo = <<>>,
           NEW t \in Threads, th[t].w = e[1], th[t].todo # <<>>,
           Head(th[t].todo).op \in {"move", "touch"}
    PROVE  t = Main
<1> SUFFICES ASSUME t # Main PROVE FALSE
    OBVIOUS
<1>1. t \in Execs /\ t # e /\ Placed(t) /\ TypeOK
    BY ThreadFacts DEF Sealing, Pausing, Execution, Versions
<1>2. t[1] = e[1]
    BY <1>1, ExecOK
<1>3. wf[t].st = "live"
    BY <1>1 DEF Placed, BusyIsLive
<1>4. ~Finishing(t)
  <2>1. th[t].todo \in Seq(Call)
      BY <1>1 DEF TypeOK, ThreadsOK, Thread
  <2>2. 1 \in DOMAIN th[t].todo /\ th[t].todo[1] = Head(th[t].todo)
      BY <2>1
  <2> QED BY <2>2 DEF Finishing
<1> QED BY <1>1, <1>2, <1>3, <1>4, WaiterIsGoing DEF OneGoing, Going

\* It waits on: only a call that ends the item, or keeps its state, can come.
LEMMA WaitedStays ==
    ASSUME Sealing, BusyIsLive, OneGoing, [Next]_vars, NEW e \in Execs, th[e].pc = "lease",
           th[e].todo = <<>>, Waited(e[1]),
           th[Main].w = e[1] => \A i \in DOMAIN th[Main].todo : Spares(th[Main].todo[i])
    PROVE  Waited(e[1])'
<1>1. e[1] \in Works /\ Versions /\ TypeOK
    BY ThreadFacts DEF Sealing, Pausing, Execution, Versions
<1>2. CASE item'[e[1]].state = item[e[1]].state
    BY <1>2 DEF Waited
<1>3. CASE item'[e[1]].state # item[e[1]].state
  <2>1. item[e[1]].state \notin {"absent", "waiting_for_owner"}
      BY DEF Waited, Terminal
  <2>2. PICK t \in Threads : SavesAs(t, e[1], item'[e[1]].state)
      BY <1>1, <1>3, <2>1, StateChanges
  <2>3. th[t].w = e[1] /\ th[t].todo # <<>> /\ Head(th[t].todo).op = "move"
        /\ Head(th[t].todo).a = item'[e[1]].state
      BY <2>2 DEF SavesAs, DoSave, Calls
  <2>4. t = Main
      BY <2>3, OnlyMainSaves
  <2>5. th[Main].todo \in Seq(Call)
      BY <1>1, ThreadFacts DEF TypeOK, ThreadsOK, Thread
  <2>6. Spares(Head(th[Main].todo))
      BY <2>3, <2>4, <2>5
  <2> QED BY <2>3, <2>4, <2>6 DEF Spares, Waited
<1> QED BY <1>2, <1>3

LEMMA SparingLists ==
    /\ \A i \in DOMAIN <<>> : Spares(<<>>[i])
    /\ \A o \in {Launch, Clear, Touch("keep"), Send("cancel")} :
          \A i \in DOMAIN <<o>> : Spares(<<o>>[i])
    /\ \A i \in DOMAIN <<Move("cancelled", "keep"), Clear>> :
          Spares(<<Move("cancelled", "keep"), Clear>>[i])
    /\ ~Spares(Send("resume"))
<1>1. \A o \in {Launch, Clear, Touch("keep"), Send("cancel"), Move("cancelled", "keep")} : Spares(o)
  <2>1. /\ Launch.op = "submit" /\ Send("cancel").op = "send" /\ Send("cancel").a = "cancel"
        /\ Clear.op = "clear" /\ Touch("keep").op = "touch"
        /\ Move("cancelled", "keep").op = "move" /\ Move("cancelled", "keep").a = "cancelled"
      BY CallOps, SentToEnd DEF Launch, Op
  <2> QED BY <2>1 DEF Spares, Terminal
<1>2. \A a, b : /\ DOMAIN <<>> = {} /\ DOMAIN <<a>> = {1} /\ <<a>>[1] = a
                /\ DOMAIN <<a, b>> = {1, 2} /\ <<a, b>>[1] = a /\ <<a, b>>[2] = b
    OBVIOUS
<1>3. ~Spares(Send("resume"))
    BY DEF Spares, Send, Op
<1> QED BY <1>1, <1>2, <1>3

\* While an execution of w waits for the lease, the owner's commands can only end w.
LEMMA CommandsSpare ==
    ASSUME Driven, Undisturbed, ~Crash, [Next]_vars, "pause" \notin Commands,
           NEW e \in Execs, th[e].pc = "lease", th[e].todo = <<>> => Waited(e[1]),
           th[Main].w = e[1] => \A i \in DOMAIN th[Main].todo : Spares(th[Main].todo[i]),
           th'[Main].w = e[1]
    PROVE  \A i \in DOMAIN th'[Main].todo : Spares(th'[Main].todo[i])
<1> DEFINE Goal == \A i \in DOMAIN th'[Main].todo : Spares(th'[Main].todo[i])
<1>1. /\ TypeOK /\ Sealing /\ BusyIsLive /\ LoopHeld /\ up = "up" /\ th[Main].pc # "boot"
      /\ e[1] \in Works /\ e[1] # Owner /\ Main \in Threads
    BY ThreadFacts DEF Driven, Undisturbed, Sealing, Pausing, Execution, Versions
<1>2. Going(e) /\ OnLoop(e) /\ e \in Threads /\ e # Main
    BY <1>1, WaiterIsGoing
<1>3. ASSUME th'[Main].todo = <<>>
      PROVE  Goal
    BY <1>3, SparingLists
<1>4. CASE th'[Main] = th[Main]
    BY <1>4
<1>5. CASE StoreCall(Main)
  <2>1. th[Main].todo \in Seq(Call) /\ th[Main].todo # <<>>
      BY <1>1, <1>5, StoreCallRuns DEF TypeOK, ThreadsOK, Thread
  <2>2. th'[Main].todo = <<>> \/ (th'[Main].todo = Tail(th[Main].todo) /\ th'[Main].w = th[Main].w)
      BY <1>1, <1>5, CallMoves, IdleIsFree
  <2>3. \A i \in DOMAIN Tail(th[Main].todo) :
            i + 1 \in DOMAIN th[Main].todo /\ Tail(th[Main].todo)[i] = th[Main].todo[i + 1]
      BY <2>1
  <2> QED BY <1>3, <2>2, <2>3
<1>6. CASE OwnerStep
  <2>1. ASSUME NEW w \in Works, NEW held, NEW pc, NEW calls, Command(w, held, pc, calls)
        PROVE  th'[Main].todo = <<>> \/ (th'[Main].todo = calls /\ w = e[1])
      BY <1>1, <2>1, CommandMoves, IdleIsFree
  <2>2. ASSUME NEW w \in Works, NEW held, NEW pc, NEW calls, Command(w, held, pc, calls),
               \A i \in DOMAIN calls : Spares(calls[i])
        PROVE  Goal
      BY <1>3, <2>1, <2>2
  <2>3. ASSUME NEW w \in Works, NEW held, NEW pc, NEW calls, Command(w, held, pc, calls),
               loop = Free, item[w].state \in {"paused", "failed"}
        PROVE  Goal
    <3>1. loop # e
        BY <1>2, <2>3, FreeAssumption DEF Threads
    <3>2. th[e].todo = <<>>
        BY <1>1, <1>2, <3>1, CallsAreBusy DEF LoopHeld
    <3>3. Waited(e[1])
        BY <3>2
    <3>4. item[e[1]].state # "failed"
        BY <1>1, <1>2 DEF Undisturbed, NobodyForFailed, NobodyFor
    <3>5. w # e[1]
        BY <2>3, <3>3, <3>4 DEF Waited, Terminal
    <3> QED BY <1>3, <2>1, <2>3, <3>5
  <2>4. PICK w \in Works : \/ OwnerStart(w) \/ OwnerPause(w) \/ OwnerResume(w) \/ OwnerCancel(w)
                           \/ OwnerRetry(w) \/ OwnerReprioritize(w) \/ OwnerAnswer(w)
      BY <1>6 DEF OwnerStep
  <2>5. CASE OwnerStart(w) \/ OwnerCancel(w) \/ OwnerReprioritize(w)
      BY <2>2, <2>5, SparingLists DEF OwnerStart, OwnerCancel, OwnerReprioritize
  <2>6. CASE OwnerResume(w) \/ OwnerRetry(w)
      BY <2>3, <2>6 DEF OwnerResume, OwnerRetry, Commanded
  <2>7. CASE OwnerAnswer(w)
      BY <1>4, <2>7 DEF OwnerAnswer, volatile
  <2>8. ~OwnerPause(w)
      BY DEF OwnerPause, Commanded
  <2> QED BY <2>4, <2>5, <2>6, <2>7, <2>8
<1>7. CASE CancelAgain
  <2>1. \E held, pc : \/ Only(Main, held, pc, <<Clear>>)
                      \/ Only(Main, held, pc, <<Move("cancelled", "keep"), Clear>>)
      BY <1>7 DEF CancelAgain
  <2>2. \/ th'[Main].todo \in {<<Clear>>, <<Move("cancelled", "keep"), Clear>>}
        \/ th'[Main] = Idle(Owner)
      BY <1>1, <2>1, SegmentMoves DEF Only
  <2> QED BY <1>3, <2>2, IdleIsFree, SparingLists
<1>8. CASE BackendFault(Main)
  <2> DEFINE o == Head(th[Main].todo)
  <2>1. PICK op \in {"submit", "restart", "send"} : Calls(Main, op)
      BY <1>8 DEF BackendFault
  <2>2. o.op = op /\ th[Main].todo # <<>>
      BY <2>1 DEF Calls
  <2>3. th[Main].todo \in Seq(Call) /\ th[Main] \in Thread /\ o \in Call
      BY <1>1, <2>2 DEF TypeOK, ThreadsOK, Thread
  <2>4. 1 \in DOMAIN th[Main].todo /\ th[Main].todo[1] = o
      BY <2>2, <2>3
  <2>5. Run(Main, [th[Main] EXCEPT !.pc = "idle", !.todo = OnFault(o.op, o.a)])
      BY <1>8 DEF BackendFault
  <2>6. \/ th'[Main].todo = OnFault(o.op, o.a) /\ th'[Main].w = th[Main].w
        \/ th'[Main] = Idle(Owner)
    <3> DEFINE rec == [th[Main] EXCEPT !.pc = "idle", !.todo = OnFault(o.op, o.a)]
    <3>1. rec.todo = OnFault(o.op, o.a) /\ rec.w = th[Main].w
        BY <2>3 DEF Thread
    <3> HIDE DEF rec
    <3> QED BY <1>1, <2>5, <3>1, RunMoves DEF rec
  <2>7. CASE th'[Main].todo = OnFault(o.op, o.a) /\ th'[Main].w = th[Main].w
    <3>1. op \in {"submit", "restart"} => FALSE
      <4>1. op \in {"submit", "restart"} => Starts(o)
          BY <2>2 DEF Starts
      <4>2. op \in {"submit", "restart"} => NobodyFor(e[1])
          BY <2>4, <2>7, <4>1 DEF Undisturbed, StartsAlone, Prepared
      <4> QED BY <1>2, <4>2 DEF NobodyFor
    <3>2. Spares(o)
        BY <2>4, <2>7
    <3>3. o.a # "resume"
        BY <2>2, <3>1, <3>2 DEF Spares
    <3>4. OnFault(o.op, o.a) = <<>>
        BY <2>2, <3>1, <3>3 DEF OnFault
    <3> QED BY <1>3, <2>7, <3>4
  <2> QED BY <1>3, <2>6, <2>7, IdleIsFree
<1>9. \/ th'[Main] = th[Main] \/ StoreCall(Main) \/ OwnerStep \/ CancelAgain \/ BackendFault(Main)
    BY <1>1, MainActs
<1> QED BY <1>4, <1>5, <1>6, <1>7, <1>8, <1>9

LEMMA LeaseWaitsNext ==
    ASSUME Driven, Undisturbed, ~Crash, [Next]_vars, "pause" \notin Commands, LeaseWaits
    PROVE  LeaseWaits'
<1>1. /\ TypeOK /\ Sealing /\ BusyIsLive /\ LoopHeld /\ OneGoing /\ Versions /\ Execution
      /\ Main \in Threads
    BY ThreadFacts DEF Driven, Undisturbed, Sealing, Pausing, Execution, Versions
<1> SUFFICES ASSUME NEW e \in Execs, th'[e].pc = "lease"
             PROVE  /\ IF th'[e].todo = <<>> THEN Waited(e[1])'
                       ELSE th'[e].todo = <<Move("waiting_resource", "none")>>
                    /\ th'[Main].w = e[1] => \A i \in DOMAIN th'[Main].todo : Spares(th'[Main].todo[i])
    BY DEF LeaseWaits
<1>2. e \in Threads /\ e # Main /\ e[1] \in Works /\ e[1] # Owner
    BY ThreadFacts
<1>3. CASE th'[e] = th[e]
  <2>1. /\ th[e].pc = "lease"
        /\ IF th[e].todo = <<>> THEN Waited(e[1])
           ELSE th[e].todo = <<Move("waiting_resource", "none")>>
        /\ th[Main].w = e[1] => \A i \in DOMAIN th[Main].todo : Spares(th[Main].todo[i])
      BY <1>3 DEF LeaseWaits
  <2>2. th'[Main].w = e[1] => \A i \in DOMAIN th'[Main].todo : Spares(th'[Main].todo[i])
      BY <2>1, CommandsSpare
  <2>3. th[e].todo = <<>> => Waited(e[1])'
      BY <1>1, <2>1, WaitedStays
  <2> QED BY <1>3, <2>1, <2>2, <2>3
<1>4. CASE StoreCall(e)
  <2>1. th'[e].todo = Tail(th[e].todo) /\ th[e].pc = "lease" /\ ~RejectSave(e)
      BY <1>1, <1>2, <1>4, CallMoves
  <2>2. th[e].todo # <<>>
      BY <1>4, <1>2, StoreCallRuns
  <2>3. /\ th[e].todo = <<Move("waiting_resource", "none")>>
        /\ th[Main].w = e[1] => \A i \in DOMAIN th[Main].todo : Spares(th[Main].todo[i])
      BY <2>1, <2>2 DEF LeaseWaits
  <2>4. \A a : Head(<<a>>) = a /\ Tail(<<a>>) = <<>>
      OBVIOUS
  <2>5. th'[e].todo = <<>> /\ Head(th[e].todo) = Move("waiting_resource", "none")
      BY <2>1, <2>3, <2>4
  <2>6. th[e].w = e[1]
      BY <1>1, ExecOK
  <2>7. item'[e[1]].state = "waiting_resource"
      BY <1>1, <1>2, <1>4, <2>1, <2>5, <2>6, MovedItem
  <2>8. th'[Main] = th[Main]
      BY <1>1, <1>2, <1>4, StoreCallMoves DEF OthersKeep
  <2> QED BY <2>3, <2>5, <2>7, <2>8 DEF Waited
<1>5. CASE EngineStep(e)
  <2>1. Script(th'[e].pc, th'[e].todo)
      BY <1>1, <1>5, EngineFollows DEF Follows
  <2>2. \A u \in Threads \ {e} : th'[u] = th[u]
      BY <1>1, <1>5, EngineMoves
  <2>3. BrainActs(e)
    <3>1. ASSUME NEW held, NEW pc, NEW calls,
                 Only(e, held, pc, calls) \/ Pressed(e, held, pc, calls) \/ Segment(e, held, pc, calls)
          PROVE  th'[e].pc = pc
        BY <1>1, <1>2, <3>1, SegmentMoves DEF Only, Pressed
    <3>2. ASSUME NEW it PROVE ~Admission(e, it)
        BY <3>1 DEF Admission
    <3>3. ~AdvanceStopped(e) /\ ~AdvanceDependent(e) /\ ~Advance(e) /\ ~Admit(e)
        BY <3>1, <3>2 DEF AdvanceStopped, AdvanceDependent, Advance, Admit
    <3>4. ~DecideTooLate(e) /\ ~BrainUnavailable(e) /\ ~BrainFails(e) /\ ~BrainCompletes(e) /\ ~BrainAsks(e)
        BY <3>1 DEF DecideTooLate, BrainUnavailable, BrainFails, BrainCompletes, BrainAsks
    <3>5. ~LeaseRefused(e) /\ ~StepDone(e) /\ ~StepAsks(e) /\ ~StepFails(e) /\ ~FailBounded(e)
        BY <3>1 DEF LeaseRefused, StepDone, StepAsks, StepFails, FailBounded
    <3>6. ~Executed(e)
        BY <3>1 DEF Executed
    <3>7. ~Leased(e)
      <4>1. ASSUME th' = [th EXCEPT ![e] = [@ EXCEPT !.pc = "exec", !.held = item[e[1]], !.todo = Start]]
            PROVE  FALSE
        <5>1. th'[e] = [th[e] EXCEPT !.pc = "exec", !.held = item[e[1]], !.todo = Start]
            BY <1>1, <1>2, <4>1 DEF TypeOK, ThreadsOK
        <5>2. th[e] \in Thread
            BY <1>1, ExecOK
        <5>3. th'[e].pc = "exec"
            BY <5>1, <5>2 DEF Thread
        <5> QED BY <5>3
      <4> QED BY <3>1, <4>1 DEF Leased, Start
    <3>8. ~Raise(e)
        BY <1>1, <1>2, RaiseMoves
    <3>9. ~ApplyPlain(e) /\ ~ApplySealed(e)
        BY <3>1, <3>8 DEF ApplyPlain, ApplySealed
    <3> QED BY <1>5, <3>3, <3>4, <3>5, <3>6, <3>7, <3>9 DEF EngineStep
  <2>4. loop = Free
      BY <2>3 DEF BrainActs, Decides, Resumes
  <2>5. th[Main].todo = <<>>
    <3>1. loop # Main
        BY <2>4, FreeAssumption DEF Main
    <3> QED BY <1>1, <3>1, CallsAreBusy DEF LoopHeld, OnLoop
  <2>6. th'[e].todo = <<Move("waiting_resource", "none")>>
      BY <1>1, <1>2, <2>3, SegmentMoves DEF BrainActs, Only
  <2>7. \A i \in DOMAIN th'[Main].todo : Spares(th'[Main].todo[i])
      BY <1>1, <1>2, <2>2, <2>5, SparingLists
  <2>8. \A a : <<a>> # <<>>
      OBVIOUS
  <2> QED BY <2>6, <2>7, <2>8
<1> QED BY <1>1, <1>3, <1>4, <1>5, NextMoves

-----------------------------------------------------------------------------
(* The account balances *)

LEMMA FrugalInitially == Init => Frugal
<1> SUFFICES ASSUME Init PROVE Frugal
    OBVIOUS
<1>1. Driven /\ TypeOK
    BY DrivenInitially, TypesInitially
<1>2. ASSUME NEW e \in Execs PROVE th[e].pc = "idle" /\ wf[e].used = 0
  <2>1. e \in Threads
      BY ThreadFacts
  <2>2. th[e] = Idle(e[1])
      BY <2>1 DEF Init
  <2>3. wf[e] = NoWorkflow
      BY DEF Init, StoreInit
  <2> QED BY <2>2, <2>3, IdleIsFree DEF NoWorkflow
<1>3. LeaseWaits /\ \A e \in Execs : Earning(e)
    BY <1>2 DEF LeaseWaits, Earning
<1>4. WaitingIsFree
  <2> SUFFICES ASSUME NEW e \in Execs PROVE wf[e].used <= Cost(e[1])
      BY DEF WaitingIsFree, Cost, Accounts
  <2> QED BY <1>1, <1>2, AccountsAreFinite, ThreadFacts
<1> QED BY <1>1, <1>3, <1>4 DEF Frugal

LEMMA FrugalNext == "pause" \notin Commands /\ Frugal /\ [Next]_vars => Frugal'
<1> SUFFICES ASSUME "pause" \notin Commands, Frugal, [Next]_vars
             PROVE  Frugal'
    OBVIOUS
<1>1. /\ Driven /\ Driven' /\ Sealing /\ BusyIsLive /\ TypeOK /\ TypeOK' /\ Execution
      /\ fuel.crash <= Fuel.crash /\ \A e \in Execs : Placed(e)
    BY DrivenNext DEF Frugal, Driven, Sealing, Pausing, Execution, Versions
<1> SUFFICES ASSUME Calm'
             PROVE  LeaseWaits' /\ WaitingIsFree' /\ \A e \in Execs : Earning(e)'
    BY <1>1 DEF Frugal
<1>2. Calm /\ ~Crash
    BY <1>1, CrashesOnce DEF Calm
<1>3. Undisturbed /\ LeaseWaits /\ WaitingIsFree /\ \A e \in Execs : Earning(e)
    BY <1>1, <1>2 DEF Frugal, Driven
<1>4. LeaseWaits'
    BY <1>1, <1>2, <1>3, LeaseWaitsNext
<1>5. ASSUME NEW e \in Execs
      PROVE  wf[e].used <= Cost(e[1]) /\ wf[e].used \in Nat
    BY <1>1, <1>3 DEF WaitingIsFree, Cost, Accounts, TypeOK, DbosOK, Workflow
<1>6. ASSUME NEW e \in Execs
      PROVE  wf'[e].used <= Cost(e[1])'
  <2>1. Cost(e[1]) \in Nat /\ Cost(e[1])' \in Nat /\ Cost(e[1]) <= Cost(e[1])'
      BY <1>1, CostGrows, ThreadFacts
  <2>2. CASE wf'[e].used = wf[e].used
      BY <1>5, <2>1, <2>2
  <2>3. CASE wf'[e].used # wf[e].used
    <3>1. StepReturns(e)
        BY <1>1, <2>3, UsedMoves
    <3>2. /\ wf'[e].used = wf[e].used + 1 /\ wf[e].at = "advance" /\ Spends(th[e].held.state)
          /\ th[e].pc = "ret" /\ th[e].todo = <<>>
        BY <1>1, <2>3, <3>1, ReturnsSpend
    <3>3. ~EndsFree(th[e].todo, th[e].held)
      <4>1. DOMAIN <<>> = {}
          OBVIOUS
      <4> QED BY <3>2, <4>1 DEF EndsFree
    <3>4. Earned(e)
        BY <1>3, <3>2, <3>3 DEF Earning
    <3> QED BY <1>5, <2>1, <3>2, <3>4 DEF Earned
  <2> QED BY <2>2, <2>3
<1>7. WaitingIsFree'
    BY <1>6 DEF WaitingIsFree, Cost, Accounts
<1>8. ASSUME NEW e \in Execs
      PROVE  Earning(e)'
  <2>1. CASE th'[e].pc = "idle"
      BY <2>1 DEF Earning
  <2>2. CASE StepReturns(e)
      BY <1>1, <2>1, <2>2, ReturnsSpend
  <2>3. ASSUME th'[e].pc # "idle", ~StepReturns(e)
        PROVE  wf'[e].used = wf[e].used /\ wf'[e].at = wf[e].at
      BY <1>1, <2>3, UsedMoves, PointsStay
  <2>4. ASSUME th'[e] = th[e], th'[e].pc # "idle", ~StepReturns(e)
        PROVE  Earning(e)'
    <3>1. Earned(e) => Earned(e)'
        BY <1>1, <2>3, <2>4, EarnedStays
    <3>2. EndsFree(th[e].todo, th[e].held) => EndsFree(th[e].todo, th[e].held)'
        BY <2>4 DEF EndsFree
    <3> QED BY <1>3, <2>3, <2>4, <3>1, <3>2 DEF Earning
  <2>5. CASE StoreCall(e) /\ th'[e].pc # "idle" /\ ~StepReturns(e)
      BY <1>1, <1>3, <1>5, <2>3, <2>5, CallEarns
  <2>6. CASE EngineStep(e)
    <3>1. th[e].pc = "lease" /\ th[e].todo = <<>> => Waited(e[1])
        BY <1>3 DEF LeaseWaits
    <3> QED BY <1>1, <1>3, <2>6, <3>1, EngineEarns
  <2> QED BY <1>1, <2>1, <2>2, <2>4, <2>5, <2>6, NextMoves
<1> QED BY <1>4, <1>7, <1>8

\* Until the first crash, and unless the owner pauses items, waiting is free: a cycle
\* that has returned without a step of work or a recorded decision has left the item
\* at rest, whatever preempted, refused or delayed it, so that max_reasoning_cycles
\* bounds decisions and not the time they wait.
THEOREM WaitingCostsNothing ==
    ASSUME "pause" \notin Commands
    PROVE  Spec => [](Calm => WaitingIsFree)
<1>1. Frugal => (Calm => WaitingIsFree)
    BY DEF Frugal
<1>2. Frugal /\ [Next]_vars => Frugal'
    BY FrugalNext
<1> QED BY <1>1, <1>2, FrugalInitially, PTL DEF Spec
=============================================================================
