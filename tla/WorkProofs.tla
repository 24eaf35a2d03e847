------------------------------ MODULE WorkProofs ------------------------------
(***************************************************************************)
(* What holds of WorkRuntime for any number of items, retries, cycles and    *)
(* crashes: the types, the invariant behind optimistic versioning, and that  *)
(* the runtime implements WorkLifecycle.                                     *)
(***************************************************************************)
EXTENDS WorkRuntime, SequenceTheorems, FiniteSetTheorems, TLAPS

-----------------------------------------------------------------------------
(* Identities *)

\* Executions and the main thread are distinct threads; an execution names an
\* item.
LEMMA ThreadFacts ==
    /\ Main \in Threads /\ Main \notin Execs
    /\ \A e \in Execs : e \in Threads /\ e # Main /\ e[1] \in Works
    /\ \A t \in Threads : t = Main \/ t \in Execs
    /\ \A w \in Works : w # Owner /\ <<w, 0>> \in Execs
BY OwnerAssumption, RetriesAssumption DEF Threads, Execs, Main

-----------------------------------------------------------------------------
(* Pending calls *)

\* Every constructor of a store call yields a well-formed call.
LEMMA CallTypes ==
    /\ {Read, Interrupt, Notify, Blocker, Clear, Launch, Restart, Bind} \subseteq Call
    /\ \A to \in WorkStates, s \in {"none", "keep", "own"} : Move(to, s) \in Call
    /\ \A s \in {"none", "keep", "own"} : Touch(s) \in Call
    /\ \A k \in StepKinds : Add(k) \in Call
    /\ \A st \in StepStates, obs \in Observed : Mark(st, obs) \in Call
    /\ \A c \in {"resume", "cancel"} : Send(c) \in Call
<1>1. {"", "none", "keep", "own", "resume", "cancel"} \cup WorkStates \cup StepKinds
        \cup StepStates \cup Observed \subseteq CallArgs
    BY DEF CallArgs, Observed
<1>2. \A op \in OpNames, a, b \in CallArgs :
          /\ op = "move" => a \in WorkStates
          /\ op = "add"  => a \in StepKinds
          /\ op = "mark" => a \in StepStates /\ b \in Observed
          /\ op = "send" => a \in {"resume", "cancel"}
          => Op(op, a, b) \in Call
    BY DEF Call, Op
<1>3. {Read, Interrupt, Notify, Blocker, Clear, Launch, Restart, Bind} \subseteq Call
    <2>1. {Read, Interrupt, Notify, Blocker} \subseteq Call
        BY <1>1, <1>2, ZenonT(60) DEF OpNames, Read, Interrupt, Notify, Blocker
    <2>2. {Clear, Launch, Restart, Bind} \subseteq Call
        BY <1>1, <1>2, ZenonT(60) DEF OpNames, Clear, Launch, Restart, Bind
    <2> QED BY <2>1, <2>2
<1>4. \A to \in WorkStates, s \in {"none", "keep", "own"} : Move(to, s) \in Call
    BY <1>1, <1>2 DEF OpNames, Move
<1>5. \A s \in {"none", "keep", "own"} : Touch(s) \in Call
    BY <1>1, <1>2 DEF OpNames, Touch
<1>6. \A k \in StepKinds : Add(k) \in Call
    BY <1>1, <1>2 DEF OpNames, Add
<1>7. \A st \in StepStates, obs \in Observed : Mark(st, obs) \in Call
    BY <1>1, <1>2 DEF OpNames, Mark
<1>8. \A c \in {"resume", "cancel"} : Send(c) \in Call
    BY <1>1, <1>2 DEF OpNames, Send
<1> QED BY <1>3, <1>4, <1>5, <1>6, <1>7, <1>8

LEMMA ShortSeqs ==
    ASSUME NEW S
    PROVE  /\ <<>> \in Seq(S)
           /\ \A a \in S : <<a>> \in Seq(S)
           /\ \A a, b \in S : <<a, b>> \in Seq(S)
           /\ \A a, b, c \in S : <<a, b, c>> \in Seq(S)
           /\ \A a, b, c, d \in S : <<a, b, c, d>> \in Seq(S)
           /\ \A a, b, c, d, f \in S : <<a, b, c, d, f>> \in Seq(S)
OBVIOUS

\* Records of an item stay records of an item.
LEMMA ItemTypes ==
    /\ Absent \in Item /\ NewItem \in Item
    /\ \A it \in Item, to \in WorkStates, n \in Nat :
          it.state \in WorkStates => Transition(it, to, n) \in Item
    /\ \A it \in Item, n \in Nat : WithProgress(it, n) \in Item
<1>1. Absent \in Item /\ NewItem \in Item
    BY DEF Item, Absent, NewItem, WorkStates, Waiting, Terminal
<1>2. ASSUME NEW it \in Item, NEW to \in WorkStates, NEW n \in Nat, it.state \in WorkStates
      PROVE  Transition(it, to, n) \in Item
    BY <1>2 DEF Item, Transition
<1>3. ASSUME NEW it \in Item, NEW n \in Nat
      PROVE  WithProgress(it, n) \in Item
  <2>1. it.ver + 1 \in Nat
      BY DEF Item
  <2> QED BY <2>1 DEF Item, WithProgress
<1> QED BY <1>1, <1>2, <1>3

-----------------------------------------------------------------------------
(* Threads *)

\* The units of "work" that are given out are counted rightly.
LEMMA LeaseTypes ==
    /\ LeaseOK({})
    /\ \A t : LeaseOK(lease) => LeaseOK(lease \ {t})
    /\ \A e \in Execs : LeaseOK(lease) /\ Spare => LeaseOK(lease \cup {e})
<1>1. LeaseOK({})
    BY FS_EmptySet, BoundsAssumption DEF LeaseOK
<1>2. ASSUME NEW t, LeaseOK(lease) PROVE LeaseOK(lease \ {t})
  <2>1. IsFiniteSet(lease) /\ Cardinality(lease) \in Nat
      BY <1>2, FS_CardinalityType DEF LeaseOK
  <2>2. /\ IsFiniteSet(lease \ {t})
        /\ Cardinality(lease \ {t}) \in {Cardinality(lease) - 1, Cardinality(lease)}
      BY <2>1, FS_RemoveElement
  <2> QED BY <1>2, <2>1, <2>2, BoundsAssumption DEF LeaseOK
<1>3. ASSUME NEW e \in Execs, LeaseOK(lease), Spare PROVE LeaseOK(lease \cup {e})
  <2>1. IsFiniteSet(lease) /\ Cardinality(lease) \in Nat
      BY <1>3, FS_CardinalityType DEF LeaseOK
  <2>2. /\ IsFiniteSet(lease \cup {e})
        /\ Cardinality(lease \cup {e}) \in {Cardinality(lease), Cardinality(lease) + 1}
      BY <2>1, FS_AddElement
  <2> QED BY <1>3, <2>1, <2>2, BoundsAssumption DEF LeaseOK, Spare
<1> QED BY <1>1, <1>2, <1>3

LEMMA RunOK ==
    ASSUME ThreadsOK, NEW t \in Threads, NEW rec \in Thread, OwnItem(t, rec),
           Run(t, rec)
    PROVE  ThreadsOK'
<1> DEFINE new == IF t = Main /\ Returned(rec) /\ rec.pc # "raise" THEN Idle(Owner) ELSE rec
<1>1. Idle(Owner) \in Thread /\ OwnItem(Main, Idle(Owner))
    BY ThreadFacts, ItemTypes, ShortSeqs DEF Idle, Thread, Programs, OwnItem
<1>2. new \in Thread /\ OwnItem(t, new)
    BY <1>1
<1>3. th' = [th EXCEPT ![t] = new]
    BY DEF Run
<1> HIDE DEF new
<1>4. th' \in [Threads -> Thread] /\ \A u \in Threads : OwnItem(u, th'[u])
    BY <1>2, <1>3 DEF ThreadsOK
<1>5. loop' \in Threads \cup {Free}
    BY DEF Run, ThreadsOK
<1>6. lease' = lease \/ lease' = lease \ {t}
    BY DEF Run
<1>7. LeaseOK(lease')
    BY <1>6, LeaseTypes DEF ThreadsOK
<1> QED BY <1>4, <1>5, <1>7 DEF ThreadsOK

LEMMA SegmentOK ==
    ASSUME ThreadsOK, NEW t \in Threads, th[t].w \in Works,
           NEW held \in Item, NEW pc \in Programs, NEW calls \in Seq(Call),
           Segment(t, held, pc, calls)
    PROVE  ThreadsOK'
<1> DEFINE rec == [th[t] EXCEPT !.pc = pc, !.held = held, !.todo = calls]
<1>1. rec \in Thread
    BY DEF ThreadsOK, Thread
<1>2. OwnItem(t, rec)
  <2>1. th[t] \in Thread /\ OwnItem(t, th[t])
      BY DEF ThreadsOK
  <2>2. rec.w = th[t].w /\ th[t].w # Owner
      BY <2>1, ThreadFacts DEF Thread
  <2> QED BY <2>1, <2>2 DEF OwnItem
<1> QED BY <1>1, <1>2, RunOK DEF Segment

LEMMA RaiseOK ==
    ASSUME ThreadsOK, NEW t \in Threads, th[t].w \in Works, Raise(t)
    PROVE  ThreadsOK'
<1> DEFINE rec == [th[t] EXCEPT !.todo = <<>>,
                                !.pc = IF t = Main /\ @ # "boot" THEN "idle" ELSE "raise"]
<1>1. rec \in Thread
    BY ShortSeqs DEF ThreadsOK, Thread, Programs
<1>2. OwnItem(t, rec)
  <2>1. th[t] \in Thread /\ OwnItem(t, th[t])
      BY DEF ThreadsOK
  <2>2. rec.w = th[t].w /\ th[t].w # Owner
      BY <2>1, ThreadFacts DEF Thread
  <2> QED BY <2>1, <2>2 DEF OwnItem
<1> QED BY <1>1, <1>2, RunOK DEF Raise

\* A thread with a call to make has an item to make it for.
LEMMA CallFacts ==
    ASSUME ThreadsOK, NEW t \in Threads, th[t].todo # <<>>
    PROVE  /\ th[t].w \in Works
           /\ th[t] \in Thread
           /\ Head(th[t].todo) \in Call
           /\ Tail(th[t].todo) \in Seq(Call)
<1>1. th[t] \in Thread /\ OwnItem(t, th[t])
    BY DEF ThreadsOK
<1>2. th[t].w \in Works
    BY <1>1 DEF Thread, OwnItem
<1>3. th[t].todo \in Seq(Call)
    BY <1>1 DEF Thread
<1> QED BY <1>1, <1>2, <1>3, HeadTailProperties

\* Making a call keeps the thread well-formed whatever it learns from it.
LEMMA DidOK ==
    ASSUME ThreadsOK, NEW t \in Threads, th[t].todo # <<>>,
           NEW me \in Thread, me.w = th[t].w, me.todo = th[t].todo,
           Did(t, me)
    PROVE  ThreadsOK'
<1> DEFINE rec == [me EXCEPT !.todo = Tail(me.todo)]
<1>1. rec \in Thread
    BY CallFacts DEF Thread
<1>2. OwnItem(t, rec)
  <2>1. OwnItem(t, th[t]) /\ th[t].w # Owner
      BY ThreadFacts, CallFacts DEF ThreadsOK
  <2>2. rec.w = th[t].w
      BY DEF Thread
  <2> QED BY <2>1, <2>2 DEF OwnItem
<1>3. Run(t, rec)
    BY DEF Did, Thread
<1> QED BY <1>1, <1>2, <1>3, RunOK

-----------------------------------------------------------------------------
(* Store calls *)

LEMMA SaveStepOK ==
    ASSUME steps \in [Works -> Seq(StepRow)], NEW w \in Works, NEW i \in Nat,
           NEW st \in StepStates, NEW obs \in Observed, SaveStep(w, i, st, obs)
    PROVE  steps' \in [Works -> Seq(StepRow)]
<1> DEFINE s == steps[w]
           new == [s EXCEPT ![i] = [s[i] EXCEPT !.st = st, !.obs = obs]]
<1>1. steps' = [steps EXCEPT ![w] = new]
    BY DEF SaveStep
<1>2. new \in Seq(StepRow)
  <2>1. s \in Seq(StepRow) /\ DOMAIN s = 1 .. Len(s)
      BY LenProperties
  <2>2. CASE i \in 1 .. Len(s)
    <3>1. s[i] \in StepRow
        BY <2>1, <2>2, ElementOfSeq
    <3>2. [s[i] EXCEPT !.st = st, !.obs = obs] \in StepRow
        BY <3>1 DEF StepRow
    <3> QED BY <2>1, <2>2, <3>2, ExceptSeq
  <2>3. CASE i \notin 1 .. Len(s)
    <3>1. new = s
        BY <2>1, <2>3
    <3> QED BY <2>1, <3>1
  <2> QED BY <2>2, <2>3
<1> HIDE DEF new
<1> QED BY <1>1, <1>2

LEMMA AddStepOK ==
    ASSUME steps \in [Works -> Seq(StepRow)], NEW w \in Works, NEW row \in StepRow,
           AddStep(w, row)
    PROVE  steps' \in [Works -> Seq(StepRow)]
<1>1. Append(steps[w], row) \in Seq(StepRow)
    BY AppendProperties
<1> QED BY <1>1 DEF AddStep

\* Workflow rows, and the answer a workflow has to apply.
WfOK(rows) ==
    /\ rows \in [Execs -> Workflow(Message \cup {NoMessage})]
    /\ \A e \in Execs : rows[e].at = "apply" => rows[e].msg \in Message

LEMMA WfUpdate ==
    ASSUME WfOK(wf), NEW e, NEW row \in Workflow(Message \cup {NoMessage}),
           row.at = "apply" => row.msg \in Message
    PROVE  WfOK([wf EXCEPT ![e] = row])
BY DEF WfOK

LEMMA SubmitOK ==
    ASSUME WfOK(wf), NEW e \in Execs, Submit(e)
    PROVE  WfOK(wf')
<1>1. [wf[e] EXCEPT !.st = "live"] \in Workflow(Message \cup {NoMessage})
      /\ [wf[e] EXCEPT !.st = "live"].at = wf[e].at
      /\ [wf[e] EXCEPT !.st = "live"].msg = wf[e].msg
    BY DEF WfOK, Workflow, WorkflowStates
<1> QED BY <1>1, WfUpdate DEF Submit, WfOK

\* The record a permitted save writes.
LEMMA NewRecordOK ==
    ASSUME NEW me \in Thread, NEW o \in Call, o.op \in {"move", "touch"},
           Permitted(me, o)
    PROVE  NewRecord(me, o) \in Item
<1>1. me.held \in Item /\ StepArg(me, o.b) \in Nat
    BY DEF Thread, Item, StepArg
<1>2. CASE o.op = "move"
  <2>1. o.a \in WorkStates /\ me.held.state \in WorkStates
      BY <1>2 DEF Call, Permitted, CanMove
  <2> QED BY <1>1, <1>2, <2>1, ItemTypes DEF NewRecord
<1>3. CASE o.op = "touch"
    BY <1>1, <1>3, ItemTypes DEF NewRecord
<1> QED BY <1>2, <1>3

LEMMA StateNoticesOK == \A it \in Item : StateNotices(it) \subseteq Notice
BY DEF StateNotices, Notice, Item

\* One step of any thread's store calls preserves the types.
LEMMA StoreCallOK ==
    ASSUME TypeOK, NEW t \in Threads, StoreCall(t)
    PROVE  TypeOK'
<1> DEFINE me == th[t]
           o  == Head(th[t].todo)
<1>1. ThreadsOK /\ StoreOK /\ DbosOK /\ EnvOK
    BY SMTT(60) DEF TypeOK
<1>2. me.todo # <<>>
    BY DEF StoreCall, DoRead, DoSave, RejectSave, DoAdd, DoMark, DoInterrupt, DoNotify,
           DoBlocker, DoClear, DoSend, DoSubmit, DoRestart, DoBind, Calls
<1>3. me \in Thread /\ me.w \in Works /\ o \in Call
    BY <1>1, <1>2, CallFacts
<1>4. me.held \in Item /\ me.sid \in Nat /\ item[me.w] \in Item
    BY <1>1, <1>3 DEF Thread, StoreOK
<1>5. \A h \in Item : [me EXCEPT !.held = h] \in Thread
    BY <1>3 DEF Thread
<1>6. \A n \in Nat : [me EXCEPT !.sid = n] \in Thread
    BY <1>3 DEF Thread
<1> HIDE DEF me, o
<1>7. ASSUME NEW rec \in Thread, rec.w = me.w, rec.todo = me.todo, Did(t, rec)
      PROVE  ThreadsOK'
    BY <1>1, <1>2, <1>7, DidOK DEF me
<1>8. Did(t, me) => ThreadsOK'
    BY <1>3, <1>7
<1>9. ASSUME NEW h \in Item, Did(t, [me EXCEPT !.held = h]) PROVE ThreadsOK'
  <2>1. [me EXCEPT !.held = h].w = me.w /\ [me EXCEPT !.held = h].todo = me.todo
      BY <1>3 DEF Thread
  <2> QED BY <2>1, <1>5, <1>7, <1>9
<1>10. ASSUME NEW n \in Nat, Did(t, [me EXCEPT !.sid = n]) PROVE ThreadsOK'
  <2>1. [me EXCEPT !.sid = n].w = me.w /\ [me EXCEPT !.sid = n].todo = me.todo
      BY <1>3 DEF Thread
  <2> QED BY <2>1, <1>6, <1>7, <1>10
<1>a. CASE DoRead(t)
  <2>1. ThreadsOK'
      BY <1>a, <1>4, <1>9 DEF DoRead, me
  <2> QED BY <1>a, <1>1, <2>1 DEF DoRead, TypeOK, StoreOK, DbosOK, EnvOK, storeVars, dbosVars, env
<1>b. CASE DoSave(t)
  <2> DEFINE new == NewRecord(me, o)
  <2>1. new \in Item
      BY <1>b, <1>3, NewRecordOK DEF DoSave, Calls, me, o
  <2>2. PutItem(me.w, new) /\ Did(t, [me EXCEPT !.held = new])
      BY <1>b DEF DoSave, me, o
  <2> HIDE DEF new
  <2>3. ThreadsOK'
      BY <2>1, <2>2, <1>9
  <2>4. item' \in [Works -> Item]
      BY <1>1, <2>1, <2>2 DEF StoreOK, PutItem
  <2> QED BY <1>b, <1>1, <2>3, <2>4 DEF DoSave, TypeOK, StoreOK, DbosOK, EnvOK, dbosVars, env
<1>c. CASE RejectSave(t)
  <2>1. ThreadsOK'
    <3>1. CASE me.pc = "cancelled"
      <4> DEFINE rec == [th[t] EXCEPT !.todo = <<>>, !.pc = "cancel"]
      <4>1. rec \in Thread /\ rec.w = me.w
          BY <1>3, ShortSeqs DEF Thread, Programs, me
      <4>2. OwnItem(t, rec)
          BY <1>1, <1>3, <4>1, ThreadFacts DEF ThreadsOK, OwnItem, me
      <4>3. Run(t, rec)
          BY <1>c, <3>1 DEF RejectSave, me
      <4> QED BY <1>1, <4>1, <4>2, <4>3, RunOK
    <3>2. CASE me.pc # "cancelled"
        BY <1>c, <3>2, <1>1, <1>3, RaiseOK DEF RejectSave, me
    <3> QED BY <3>1, <3>2
  <2> QED BY <1>c, <1>1, <2>1 DEF RejectSave, TypeOK, StoreOK, DbosOK, EnvOK, storeVars, dbosVars, env
<1>d. CASE DoAdd(t)
  <2>1. Len(steps[me.w]) + 1 \in Nat
      BY <1>1, <1>3, LenProperties DEF StoreOK
  <2>2. ThreadsOK'
      BY <1>d, <2>1, <1>10 DEF DoAdd, me
  <2>3. [kind |-> o.a, st |-> "planned", obs |-> "", ver |-> 0] \in StepRow
      BY <1>d, <1>3 DEF DoAdd, Calls, Call, StepRow, StepStates, Observed, o
  <2>4. steps' \in [Works -> Seq(StepRow)]
      BY <1>d, <1>1, <1>3, <2>3, AddStepOK DEF DoAdd, StoreOK, me, o
  <2> QED BY <1>d, <1>1, <2>2, <2>4 DEF DoAdd, TypeOK, StoreOK, DbosOK, EnvOK, dbosVars, env
<1>e. CASE DoMark(t)
  <2>1. ThreadsOK'
      BY <1>e, <1>8 DEF DoMark, me
  <2>2. o.a \in StepStates /\ o.b \in Observed
      BY <1>e, <1>3 DEF DoMark, Calls, Call, o
  <2>3. steps' \in [Works -> Seq(StepRow)]
      BY <1>e, <1>1, <1>3, <1>4, <2>2, SaveStepOK DEF DoMark, StoreOK, me, o
  <2> QED BY <1>e, <1>1, <2>1, <2>3 DEF DoMark, TypeOK, StoreOK, DbosOK, EnvOK, dbosVars, env
<1>f. CASE DoInterrupt(t)
  <2>1. PICK i \in RunningSteps(me.w) :
            SaveStep(me.w, i, "interrupted", "") /\ Did(t, [me EXCEPT !.sid = i])
      BY <1>f DEF DoInterrupt, me
  <2>2. i \in Nat
      BY <1>1, <1>3, LenProperties DEF RunningSteps, StoreOK
  <2>3. ThreadsOK'
      BY <2>1, <2>2, <1>10
  <2>4. steps' \in [Works -> Seq(StepRow)]
      BY <1>1, <1>3, <2>1, <2>2, SaveStepOK DEF StoreOK, StepStates, Observed
  <2> QED BY <1>f, <1>1, <2>3, <2>4
          DEF DoInterrupt, TypeOK, StoreOK, DbosOK, EnvOK, dbosVars, env
<1>g. CASE DoNotify(t)
  <2>1. ThreadsOK'
      BY <1>g, <1>8 DEF DoNotify, me
  <2>2. StateNotices(me.held) \subseteq Notice
      BY <1>4, StateNoticesOK
  <2>3. box' \in [Works -> SUBSET Notice]
      BY <1>g, <1>1, <2>2 DEF DoNotify, StoreOK, me
  <2> QED BY <1>g, <1>1, <2>1, <2>3 DEF DoNotify, TypeOK, StoreOK, DbosOK, EnvOK, dbosVars, env
<1>h. CASE DoBlocker(t)
  <2>1. ThreadsOK'
      BY <1>h, <1>8 DEF DoBlocker, me
  <2>2. [kind |-> "blocker", ver |-> 0] \in Notice
      BY DEF Notice
  <2>3. box' = [box EXCEPT ![me.w] = @ \cup {[kind |-> "blocker", ver |-> 0]}]
      BY <1>h DEF DoBlocker, Enqueue, me
  <2>4. box' \in [Works -> SUBSET Notice]
      BY <1>1, <2>2, <2>3 DEF StoreOK
  <2> QED BY <1>h, <1>1, <2>1, <2>4 DEF DoBlocker, TypeOK, StoreOK, DbosOK, EnvOK, dbosVars, env
<1>i. CASE DoClear(t)
  <2>1. ThreadsOK'
      BY <1>i, <1>8 DEF DoClear, me
  <2> QED BY <1>i, <1>1, <2>1 DEF DoClear, TypeOK, StoreOK, DbosOK, EnvOK, dbosVars, env
<1>j. CASE DoSend(t)
  <2> DEFINE e == BoundExec(me.w)
  <2>1. ThreadsOK'
      BY <1>j, <1>8 DEF DoSend, me
  <2>2. o.a \in {"resume", "cancel"}
      BY <1>j, <1>3 DEF DoSend, Calls, Call, o
  <2>3. inbox' = inbox \/ inbox' = [inbox EXCEPT ![e].control = Append(@, o.a)]
      BY <1>j DEF DoSend, SendControl, me, o
  <2> HIDE DEF e
  <2>4. inbox' \in [Execs -> [owner : Seq(Message), control : Seq({"resume", "cancel"})]]
    <3>1. CASE e \in Execs
      <4>1. Append(inbox[e].control, o.a) \in Seq({"resume", "cancel"})
          BY <3>1, <1>1, <2>2, AppendProperties DEF DbosOK
      <4> QED BY <3>1, <1>1, <2>3, <4>1 DEF DbosOK
    <3>2. CASE e \notin Execs
        BY <3>2, <1>1, <2>3 DEF DbosOK
    <3> QED BY <3>1, <3>2
  <2> QED BY <1>j, <1>1, <2>1, <2>4 DEF DoSend, TypeOK, StoreOK, DbosOK, EnvOK, storeVars, env
<1>k. CASE DoSubmit(t)
  <2>1. ThreadsOK'
      BY <1>k, <1>8 DEF DoSubmit, me
  <2>2. Submit(<<me.w, 0>>) /\ <<me.w, 0>> \in Execs
      BY <1>k, <1>3, ThreadFacts DEF DoSubmit, me
  <2>3. WfOK(wf')
      BY <1>1, <2>2, SubmitOK DEF DbosOK, WfOK
  <2> QED BY <1>k, <1>1, <2>1, <2>3 DEF DoSubmit, WfOK, TypeOK, StoreOK, DbosOK, EnvOK, storeVars, env
<1>l. CASE DoRestart(t)
  <2>1. PICK n \in 1 .. MaxRetries : Submit(<<me.w, n>>) /\ Did(t, [me EXCEPT !.sid = n])
      BY <1>l DEF DoRestart, me
  <2>2. ThreadsOK'
      BY <2>1, <1>10, RetriesAssumption
  <2>3. <<me.w, n>> \in Execs
      BY <1>3, RetriesAssumption DEF Execs
  <2>4. WfOK(wf')
      BY <1>1, <2>1, <2>3, SubmitOK DEF DbosOK, WfOK
  <2> QED BY <1>l, <1>1, <2>2, <2>4 DEF DoRestart, WfOK, TypeOK, StoreOK, DbosOK, EnvOK, storeVars, env
<1>m. CASE DoBind(t)
  <2>1. ThreadsOK'
      BY <1>m, <1>8 DEF DoBind, me
  <2>2. ref' \in [Works -> Nat]
      BY <1>m, <1>1, <1>4 DEF DoBind, StoreOK, me
  <2> QED BY <1>m, <1>1, <2>1, <2>2 DEF DoBind, TypeOK, StoreOK, DbosOK, EnvOK, dbosVars, env
<1> QED BY <1>a, <1>b, <1>c, <1>d, <1>e, <1>f, <1>g, <1>h, <1>i, <1>j, <1>k, <1>l, <1>m
        DEF StoreCall

-----------------------------------------------------------------------------
(* Engine and workflow *)

\* The execution that AtStep, Resumes or Continues speaks of has an item.
LEMMA ExecOK ==
    ASSUME TypeOK, NEW e \in Execs
    PROVE  /\ e \in Threads /\ e[1] \in Works /\ th[e].w = e[1]
           /\ th[e] \in Thread /\ th[e].held \in Item /\ item[e[1]] \in Item
           /\ wf[e] \in Workflow(Message \cup {NoMessage})
<1>1. e \in Threads /\ e[1] \in Works
    BY ThreadFacts
<1>2. th[e] \in Thread /\ OwnItem(e, th[e])
    BY <1>1 DEF TypeOK, ThreadsOK
<1> QED BY <1>1, <1>2 DEF TypeOK, StoreOK, DbosOK, OwnItem, Thread

\* A segment that touches nothing but its thread.
LEMMA OnlyOK ==
    ASSUME TypeOK, NEW t \in Threads, th[t].w \in Works,
           NEW held \in Item, NEW pc \in Programs, NEW calls \in Seq(Call),
           Only(t, held, pc, calls) \/ Pressed(t, held, pc, calls)
    PROVE  TypeOK'
<1>1. ThreadsOK'
    BY SegmentOK DEF Only, Pressed, TypeOK
<1>2. fuel' \in [owner : Nat, crash : Nat, fault : Nat, press : Nat]
    BY DEF Only, Pressed, Spend, TypeOK, EnvOK, env
<1> QED BY <1>1, <1>2
        DEF Only, Pressed, TypeOK, StoreOK, DbosOK, EnvOK, storeVars, dbosVars, env

LEMMA AdmissionOK ==
    ASSUME TypeOK, NEW e \in Execs, NEW it \in Item, Admission(e, it)
    PROVE  TypeOK'
<1>1. MakeRunning(it) \in Seq(Call)
      /\ MakeRunning(it) \o <<Move("failed", "none"), Notify>> \in Seq(Call)
  <2>1. MakeRunning(it) \in Seq(Call) /\ <<Move("failed", "none"), Notify>> \in Seq(Call)
      BY CallTypes, ShortSeqs DEF MakeRunning, WorkStates, Terminal
  <2> QED BY <2>1, ConcatProperties
<1>2. <<Notify>> \in Seq(Call) /\ <<Move("paused", "keep")>> \in Seq(Call)
    BY CallTypes, ShortSeqs DEF WorkStates
<1> QED BY <1>1, <1>2, ExecOK, OnlyOK DEF Admission, Programs

LEMMA AdvanceOK ==
    ASSUME TypeOK, NEW e \in Execs,
           AdvanceStopped(e) \/ AdvanceDependent(e) \/ Advance(e) \/ Admit(e)
    PROVE  TypeOK'
<1>1. /\ <<>> \in Seq(Call) /\ <<Notify>> \in Seq(Call)
      /\ <<Move("failed", "none"), Notify>> \in Seq(Call)
      /\ <<Move("waiting_dependency", "none")>> \in Seq(Call)
      /\ <<Move("running", "none"), Read>> \in Seq(Call)
    BY CallTypes, ShortSeqs DEF WorkStates, Waiting, Terminal
<1>2. CASE AdvanceStopped(e)
    BY <1>1, <1>2, ExecOK, OnlyOK DEF AdvanceStopped, Programs
<1>3. CASE AdvanceDependent(e)
    BY <1>1, <1>3, ExecOK, OnlyOK DEF AdvanceDependent, Programs
<1>4. CASE Advance(e)
    BY <1>4, ExecOK, AdmissionOK DEF Advance
<1>5. CASE Admit(e)
    BY <1>1, <1>5, ExecOK, OnlyOK, AdmissionOK DEF Admit, Programs
<1> QED BY <1>2, <1>3, <1>4, <1>5

LEMMA BrainOK ==
    ASSUME TypeOK, NEW e \in Execs,
           \/ DecideTooLate(e) \/ BrainUnavailable(e) \/ BrainFails(e)
           \/ BrainCompletes(e) \/ BrainAsks(e) \/ BrainActs(e)
    PROVE  TypeOK'
<1>1. /\ <<>> \in Seq(Call)
      /\ <<Move("waiting_resource", "keep")>> \in Seq(Call)
      /\ <<Add("note"), Mark("failed", ""), Read>> \in Seq(Call)
      /\ <<Add("note"), Mark("completed", ""), Read, Touch("none")>> \in Seq(Call)
      /\ <<Move("completed", "none"), Clear, Notify>> \in Seq(Call)
      /\ <<Move("waiting_for_owner", "none"), Notify>> \in Seq(Call)
      /\ <<Move("waiting_resource", "none")>> \in Seq(Call)
  <2>1. {Add("note"), Mark("failed", ""), Mark("completed", ""), Read, Clear, Notify,
         Touch("none")} \subseteq Call
      BY CallTypes DEF StepKinds, StepStates, Observed
  <2>2. {Move("waiting_resource", "keep"), Move("waiting_resource", "none"),
         Move("completed", "none"), Move("waiting_for_owner", "none")} \subseteq Call
      BY CallTypes DEF WorkStates, Waiting, Terminal
  <2> QED BY <2>1, <2>2, ShortSeqs
<1>2. LET waits == <<Add("pressure"), Mark("completed", ""), Read,
                     Move("waiting_resource", "own")>>
      IN  waits \in Seq(Call) /\ waits \o <<Blocker>> \in Seq(Call)
  <2>1. {Add("pressure"), Mark("completed", ""), Read, Blocker,
         Move("waiting_resource", "own")} \subseteq Call
      BY CallTypes DEF StepKinds, StepStates, Observed, WorkStates, Waiting
  <2>2. <<Add("pressure"), Mark("completed", ""), Read,
          Move("waiting_resource", "own")>> \in Seq(Call)
        /\ <<Blocker>> \in Seq(Call)
      BY <2>1, ShortSeqs
  <2> QED BY <2>2, ConcatProperties
<1>3. CASE DecideTooLate(e)
    BY <1>1, <1>3, ExecOK, OnlyOK DEF DecideTooLate, Programs
<1>4. CASE BrainUnavailable(e)
  <2>1. PICK calls \in Seq(Call) : Pressed(e, item[e[1]], "ret", calls)
      BY <1>1, <1>2, <1>4 DEF BrainUnavailable
  <2> QED BY <2>1, ExecOK, OnlyOK DEF Programs
<1>5. CASE BrainFails(e)
    BY <1>1, <1>5, ExecOK, OnlyOK DEF BrainFails, Programs
<1>6. CASE BrainCompletes(e)
    BY <1>1, <1>6, ExecOK, OnlyOK DEF BrainCompletes, Programs
<1>7. CASE BrainAsks(e)
    BY <1>1, <1>7, ExecOK, OnlyOK DEF BrainAsks, Programs
<1>8. CASE BrainActs(e)
    BY <1>1, <1>8, ExecOK, OnlyOK DEF BrainActs, Programs
<1> QED BY <1>3, <1>4, <1>5, <1>6, <1>7, <1>8

LEMMA ExecutionOK ==
    ASSUME TypeOK, NEW e \in Execs,
           \/ Leased(e) \/ LeaseRefused(e) \/ Executed(e)
           \/ StepDone(e) \/ StepAsks(e) \/ StepFails(e)
    PROVE  TypeOK'
<1>1. /\ <<>> \in Seq(Call) /\ <<Touch("none")>> \in Seq(Call) /\ <<Touch("keep")>> \in Seq(Call)
      /\ <<Move("running", "none"), Add("work"), Mark("running", ""), Touch("own")>> \in Seq(Call)
      /\ <<Move("running", "none"), Read, Move("paused", "keep")>> \in Seq(Call)
      /\ \A st \in StepStates, obs \in Observed : <<Mark(st, obs), Read>> \in Seq(Call)
      /\ <<Move("waiting_for_owner", "own"), Notify>> \in Seq(Call)
      /\ <<Move("failed", "own"), Notify>> \in Seq(Call)
      /\ <<Move("retrying", "own")>> \in Seq(Call)
  <2>1. {Touch("none"), Touch("keep"), Touch("own"), Add("work"), Read, Notify} \subseteq Call
      BY CallTypes DEF StepKinds
  <2>2. \A st \in StepStates, obs \in Observed : Mark(st, obs) \in Call
      BY CallTypes
  <2>3. Mark("running", "") \in Call
      BY <2>2 DEF StepStates, Observed
  <2>4. {Move("running", "none"), Move("paused", "keep"), Move("waiting_for_owner", "own"),
         Move("failed", "own"), Move("retrying", "own")} \subseteq Call
      BY CallTypes DEF WorkStates, Waiting, Terminal
  <2> QED BY <2>1, <2>2, <2>3, <2>4, ShortSeqs
<1>2. CASE Leased(e)
  <2>1. CASE \E pc \in Programs, calls \in Seq(Call) :
                \/ Only(e, item[e[1]], pc, calls) \/ Pressed(e, item[e[1]], pc, calls)
      BY <2>1, ExecOK, OnlyOK
  <2>2. CASE /\ th' = [th EXCEPT ![e] =
                          [@ EXCEPT !.pc = "exec", !.held = item[e[1]],
                                    !.todo = <<Move("running", "none"), Add("work"),
                                               Mark("running", ""), Touch("own")>>]]
             /\ loop' = e /\ lease' = lease \cup {e} /\ Spare
             /\ UNCHANGED <<storeVars, dbosVars, env>>
    <3> DEFINE rec == [th[e] EXCEPT !.pc = "exec", !.held = item[e[1]],
                          !.todo = <<Move("running", "none"), Add("work"),
                                     Mark("running", ""), Touch("own")>>]
    <3>1. rec \in Thread /\ rec.w = th[e].w
      <4> DEFINE calls == <<Move("running", "none"), Add("work"), Mark("running", ""),
                            Touch("own")>>
      <4>1. calls \in Seq(Call) /\ th[e] \in Thread /\ item[e[1]] \in Item
          BY <1>1, ExecOK
      <4>2. rec = [th[e] EXCEPT !.pc = "exec", !.held = item[e[1]], !.todo = calls]
          OBVIOUS
      <4> HIDE DEF calls, rec
      <4> QED BY <4>1, <4>2 DEF Thread, Programs
    <3>2. OwnItem(e, rec)
        BY <3>1, ExecOK, ThreadFacts DEF OwnItem
    <3>3. th' = [th EXCEPT ![e] = rec]
        BY <2>2
    <3> HIDE DEF rec
    <3>a. LeaseOK(lease')
        BY <2>2, LeaseTypes DEF TypeOK, ThreadsOK
    <3>4. ThreadsOK'
        BY <2>2, <3>1, <3>2, <3>3, <3>a, ExecOK DEF TypeOK, ThreadsOK
    <3> QED BY <2>2, <3>4 DEF TypeOK, StoreOK, DbosOK, EnvOK, storeVars, dbosVars, env
  <2> QED BY <1>1, <1>2, <2>1, <2>2 DEF Leased, Programs
<1>3. CASE LeaseRefused(e)
    BY <1>1, <1>3, ExecOK, OnlyOK DEF LeaseRefused, Programs
<1>4. CASE Executed(e)
  <2>1. PICK st \in StepStates, obs \in Observed, pc \in Programs :
            Segment(e, th[e].held, pc, <<Mark(st, obs), Read>>)
      BY <1>4 DEF Executed, StepStates, Observed, Programs
  <2>2. ThreadsOK'
      BY <1>1, <2>1, ExecOK, SegmentOK DEF TypeOK
  <2>3. secret' \in [Works -> BOOLEAN]
      BY <1>4 DEF Executed, TypeOK, StoreOK
  <2> QED BY <1>4, <2>2, <2>3 DEF Executed, TypeOK, StoreOK, DbosOK, EnvOK, dbosVars, env
<1>5. CASE StepDone(e)
    BY <1>1, <1>5, ExecOK, OnlyOK DEF StepDone, Programs
<1>6. CASE StepAsks(e)
    BY <1>1, <1>6, ExecOK, OnlyOK DEF StepAsks, Programs
<1>7. CASE StepFails(e)
    BY <1>1, <1>7, ExecOK, OnlyOK DEF StepFails, Programs
<1> QED BY <1>2, <1>3, <1>4, <1>5, <1>6, <1>7

LEMMA DbosCallsOK ==
    ASSUME TypeOK, NEW e \in Execs, ApplyPlain(e) \/ ApplySealed(e) \/ FailBounded(e)
    PROVE  TypeOK'
<1> DEFINE w  == e[1]
           it == item[e[1]]
           m  == wf[e].msg
<1>1. wf[e].at = "apply" => m \in Message
    BY DEF TypeOK, DbosOK
<1>2. CASE ApplyPlain(e)
  <2>1. m \in Message /\ m.text \in Observed
      BY <1>1, <1>2 DEF ApplyPlain, AtStep, Message, Observed
  <2>2. /\ <<>> \in Seq(Call)
        /\ <<Add("owner_input"), Mark("completed", m.text), Move("running", "none")>> \in Seq(Call)
    <3>1. {Add("owner_input"), Mark("completed", m.text), Move("running", "none")} \subseteq Call
        BY <2>1, CallTypes DEF StepKinds, StepStates, WorkStates
    <3> QED BY <3>1, ShortSeqs
  <2>3. CASE Only(e, it, "ret", <<>>)
      BY <2>2, <2>3, ExecOK, OnlyOK DEF Programs
  <2>4. CASE /\ Segment(e, it, "ret", <<Add("owner_input"), Mark("completed", m.text),
                                        Move("running", "none")>>)
             /\ review' = [review EXCEPT ![w] = FALSE]
             /\ UNCHANGED <<storeVars, dbosVars, up, fuel>>
    <3>1. ThreadsOK'
        BY <2>2, <2>4, ExecOK, SegmentOK DEF TypeOK, Programs
    <3> QED BY <2>4, <3>1 DEF TypeOK, StoreOK, DbosOK, EnvOK, storeVars, dbosVars
  <2>5. CASE Raise(e) /\ UNCHANGED <<storeVars, dbosVars, env>>
    <3>1. ThreadsOK'
        BY <2>5, ExecOK, RaiseOK DEF TypeOK
    <3> QED BY <2>5, <3>1 DEF TypeOK, StoreOK, DbosOK, EnvOK, storeVars, dbosVars, env
  <2> QED BY <1>2, <2>3, <2>4, <2>5 DEF ApplyPlain
<1>3. CASE ApplySealed(e)
  <2>1. m \in Message /\ m.ver \in Nat
      BY <1>1, <1>3 DEF ApplySealed, AtStep, Message
  <2>2. ThreadsOK'
    <3>1. Segment(e, it, "ret", <<>>) \/ Raise(e)
        BY <1>3 DEF ApplySealed
    <3> QED BY <3>1, ShortSeqs, ExecOK, SegmentOK, RaiseOK DEF TypeOK, Programs
  <2>3. CASE UNCHANGED <<item, steps, secret, review>>
      BY <1>3, <2>2, <2>3 DEF ApplySealed, TypeOK, StoreOK, DbosOK, EnvOK, dbosVars
  <2>4. CASE /\ it.state = "waiting_for_owner"
             /\ PutItem(w, Transition(it, "running", 0))
             /\ AddStep(w, [kind |-> "owner_input", st |-> "completed",
                            obs |-> "redacted", ver |-> m.ver])
             /\ secret' = [secret EXCEPT ![w] = TRUE]
             /\ review' = [review EXCEPT ![w] = FALSE]
    <3>1. Transition(it, "running", 0) \in Item
        BY <2>4, ExecOK, ItemTypes DEF WorkStates, Waiting
    <3>2. item' \in [Works -> Item]
        BY <2>4, <3>1 DEF PutItem, TypeOK, StoreOK
    <3>3. [kind |-> "owner_input", st |-> "completed", obs |-> "redacted",
           ver |-> m.ver] \in StepRow
        BY <2>1 DEF StepRow, StepKinds, StepStates, Observed
    <3>4. steps' \in [Works -> Seq(StepRow)]
        BY <2>4, <3>3, ExecOK, AddStepOK DEF TypeOK, StoreOK
    <3> QED BY <1>3, <2>2, <2>4, <3>2, <3>4
            DEF ApplySealed, TypeOK, StoreOK, DbosOK, EnvOK, dbosVars
  <2> QED BY <1>3, <2>3, <2>4 DEF ApplySealed, AnswersNow
<1>4. CASE FailBounded(e)
  <2>1. /\ <<Clear>> \in Seq(Call)
        /\ <<Move("failed", "keep"), Clear, Notify>> \in Seq(Call)
      BY CallTypes, ShortSeqs DEF WorkStates, Terminal
  <2> QED BY <1>4, <2>1, ExecOK, OnlyOK DEF FailBounded, Programs
<1> QED BY <1>2, <1>3, <1>4

LEMMA WorkflowOK ==
    ASSUME TypeOK, NEW e \in Execs, WorkflowStep(e)
    PROVE  TypeOK'
<1> DEFINE Rows == Workflow(Message \cup {NoMessage})
           row  == wf[e]
<1>1. row \in Rows /\ WfOK(wf)
    BY DEF TypeOK, DbosOK, WfOK
<1>2. ASSUME NEW n \in Nat, th' = [th EXCEPT ![e] = [Idle(e[1]) EXCEPT !.tries = n]],
             UNCHANGED <<loop, lease>>
      PROVE  ThreadsOK'
  <2> DEFINE rec == [Idle(e[1]) EXCEPT !.tries = n]
  <2>1. rec \in Thread /\ rec.w = e[1]
      BY ExecOK, ItemTypes, ShortSeqs DEF Idle, Thread, Programs
  <2>2. OwnItem(e, rec)
      BY <2>1, ExecOK, ThreadFacts DEF OwnItem
  <2>3. th' = [th EXCEPT ![e] = rec]
      BY <1>2
  <2> HIDE DEF rec
  <2> QED BY <1>2, <2>1, <2>2, <2>3, ExecOK DEF TypeOK, ThreadsOK
<1>3. CASE StepReturns(e)
  <2> DEFINE new == CASE row.at = "advance" -> AfterAdvance(row, th[e].held.state)
                      [] row.at = "apply"   -> [row EXCEPT !.at = "advance", !.msg = NoMessage]
                      [] OTHER              -> [row EXCEPT !.st = "done"]
  <2>1. new \in Rows /\ (new.at = "apply" => new.msg \in Message)
    <3>1. row.used \in Nat
        BY <1>1 DEF Workflow
    <3>2. \A n \in Nat : LoopOrFail(n) \in {"advance", "fail"}
        BY DEF LoopOrFail
    <3>3. \A s : AfterAdvance(row, s) \in Rows
                 /\ (AfterAdvance(row, s).at = "apply" => AfterAdvance(row, s).msg \in Message)
      <4> SUFFICES ASSUME NEW s
                   PROVE  AfterAdvance(row, s) \in Rows
                          /\ (AfterAdvance(row, s).at = "apply"
                                => AfterAdvance(row, s).msg \in Message)
          OBVIOUS
      <4> DEFINE used == row.used + (IF Spends(s) THEN 1 ELSE 0)
      <4>1. used \in Nat /\ LoopOrFail(used) \in {"advance", "fail"}
          BY <3>1, <3>2
      <4>2. AfterAdvance(row, s) \in
              {[row EXCEPT !.st = "done"], [row EXCEPT !.at = "owner"],
               [row EXCEPT !.at = "control"],
               [row EXCEPT !.used = used, !.at = LoopOrFail(used)]}
          BY DEF AfterAdvance
      <4> HIDE DEF used
      <4> QED BY <1>1, <4>1, <4>2 DEF Workflow, WorkflowStates, Checkpoints, WfOK
    <3> QED BY <1>1, <3>3 DEF Workflow, WorkflowStates, Checkpoints, WfOK
  <2>2. wf' = [wf EXCEPT ![e] = new]
      BY <1>3 DEF StepReturns
  <2> HIDE DEF new
  <2>3. WfOK(wf')
      BY <1>1, <2>1, <2>2, WfUpdate
  <2>4. ThreadsOK'
    <3>1. Idle(e[1]) = [Idle(e[1]) EXCEPT !.tries = 0]
        BY DEF Idle
    <3> QED BY <1>2, <1>3, <3>1 DEF StepReturns
  <2> QED BY <1>3, <2>3, <2>4
          DEF StepReturns, WfOK, TypeOK, StoreOK, DbosOK, EnvOK, storeVars, env
<1>4. CASE StepRaises(e)
  <2>1. th[e].tries + 1 \in Nat
      BY ExecOK DEF Thread
  <2>2. ThreadsOK'
      BY <1>2, <1>4, <2>1 DEF StepRaises
  <2>3. [row EXCEPT !.st = "error"] \in Rows
        /\ [row EXCEPT !.st = "error"].at = row.at /\ [row EXCEPT !.st = "error"].msg = row.msg
      BY <1>1 DEF Workflow, WorkflowStates
  <2>4. wf' = wf \/ wf' = [wf EXCEPT ![e] = [row EXCEPT !.st = "error"]]
      BY <1>4 DEF StepRaises
  <2>5. WfOK(wf')
      BY <1>1, <2>3, <2>4, WfUpdate DEF WfOK
  <2> QED BY <1>4, <2>2, <2>5
          DEF StepRaises, WfOK, TypeOK, StoreOK, DbosOK, EnvOK, storeVars, env
<1>5. CASE ReceiveAnswer(e)
  <2>1. CASE inbox[e].owner # <<>>
    <3>1. inbox[e].owner \in Seq(Message)
        BY DEF TypeOK, DbosOK
    <3>2. Head(inbox[e].owner) \in Message /\ Tail(inbox[e].owner) \in Seq(Message)
        BY <2>1, <3>1, HeadTailProperties
    <3>3. [row EXCEPT !.at = "apply", !.msg = Head(inbox[e].owner)] \in Rows
          /\ [row EXCEPT !.at = "apply", !.msg = Head(inbox[e].owner)].msg \in Message
        BY <1>1, <3>2 DEF Workflow, Checkpoints
    <3>4. wf' = [wf EXCEPT ![e] = [row EXCEPT !.at = "apply", !.msg = Head(inbox[e].owner)]]
        BY <1>5, <2>1 DEF ReceiveAnswer, TypeOK, DbosOK
    <3>5. WfOK(wf')
        BY <1>1, <3>3, <3>4, WfUpdate
    <3>6. inbox' \in [Execs -> [owner : Seq(Message), control : Seq({"resume", "cancel"})]]
      <4>1. inbox \in [Execs -> [owner : Seq(Message), control : Seq({"resume", "cancel"})]]
          BY DEF TypeOK, DbosOK
      <4>2. inbox' = [inbox EXCEPT ![e] = [inbox[e] EXCEPT !.owner = Tail(inbox[e].owner)]]
          BY <1>5, <2>1, <4>1 DEF ReceiveAnswer
      <4>3. inbox[e] \in [owner : Seq(Message), control : Seq({"resume", "cancel"})]
          BY <4>1
      <4>4. [inbox[e] EXCEPT !.owner = Tail(inbox[e].owner)]
              \in [owner : Seq(Message), control : Seq({"resume", "cancel"})]
          BY <3>2, <4>3
      <4> QED BY <4>1, <4>2, <4>4
    <3> QED BY <1>5, <3>5, <3>6
            DEF ReceiveAnswer, WfOK, TypeOK, ThreadsOK, StoreOK, DbosOK, EnvOK, storeVars,
                volatile, env
  <2>2. CASE inbox[e].owner = <<>>
    <3>1. [row EXCEPT !.at = "advance"] \in Rows /\ [row EXCEPT !.at = "advance"].at # "apply"
        BY <1>1 DEF Workflow, Checkpoints
    <3>2. wf' = [wf EXCEPT ![e] = [row EXCEPT !.at = "advance"]] /\ inbox' = inbox
        BY <1>5, <2>2 DEF ReceiveAnswer, TypeOK, DbosOK
    <3>3. WfOK(wf')
        BY <1>1, <3>1, <3>2, WfUpdate
    <3> QED BY <1>5, <3>2, <3>3
            DEF ReceiveAnswer, WfOK, TypeOK, ThreadsOK, StoreOK, DbosOK, EnvOK, storeVars,
                volatile, env
  <2> QED BY <2>1, <2>2
<1>6. CASE ReceiveControl(e)
  <2>1. inbox[e].control \in Seq({"resume", "cancel"}) /\ inbox[e].control # <<>>
      BY <1>6 DEF ReceiveControl, TypeOK, DbosOK
  <2>2. Tail(inbox[e].control) \in Seq({"resume", "cancel"})
      BY <2>1, HeadTailProperties
  <2>3. inbox' \in [Execs -> [owner : Seq(Message), control : Seq({"resume", "cancel"})]]
      BY <1>6, <2>2 DEF ReceiveControl, TypeOK, DbosOK
  <2>4. PICK new \in {[row EXCEPT !.at = "advance"], [row EXCEPT !.st = "done"]} :
            wf' = [wf EXCEPT ![e] = new]
      BY <1>6 DEF ReceiveControl
  <2>5. new \in Rows /\ (new.at = "apply" => new.msg \in Message)
      BY <1>1, <2>4 DEF Workflow, WorkflowStates, Checkpoints, WfOK
  <2>6. WfOK(wf')
      BY <1>1, <2>4, <2>5, WfUpdate
  <2> QED BY <1>6, <2>3, <2>6
          DEF ReceiveControl, WfOK, TypeOK, ThreadsOK, StoreOK, DbosOK, EnvOK, storeVars,
              volatile, env
<1> QED BY <1>3, <1>4, <1>5, <1>6 DEF WorkflowStep

-----------------------------------------------------------------------------
(* The main thread *)

LEMMA CommandOK ==
    ASSUME TypeOK, NEW w \in Works, NEW held \in Item, NEW pc \in Programs,
           NEW calls \in Seq(Call), Command(w, held, pc, calls)
    PROVE  ThreadsOK'
<1> DEFINE rec == [Idle(w) EXCEPT !.pc = pc, !.held = held, !.todo = calls]
<1>1. rec \in Thread /\ rec.w = w
    BY DEF Idle, Thread
<1>2. OwnItem(Main, rec)
    BY <1>1, ThreadFacts DEF OwnItem
<1> QED BY <1>1, <1>2, ThreadFacts, RunOK DEF Command, TypeOK

LEMMA OwnerOK ==
    ASSUME TypeOK, NEW w \in Works,
           \/ OwnerStart(w) \/ OwnerPause(w) \/ OwnerResume(w) \/ OwnerCancel(w)
           \/ OwnerRetry(w) \/ OwnerReprioritize(w) \/ OwnerAnswer(w)
    PROVE  TypeOK'
<1>1. /\ <<Launch>> \in Seq(Call) /\ <<Clear>> \in Seq(Call) /\ <<Touch("keep")>> \in Seq(Call)
      /\ <<Move("paused", "keep")>> \in Seq(Call) /\ <<Send("cancel")>> \in Seq(Call)
      /\ <<Add("note"), Mark("completed", ""), Move("retrying", "none"), Restart, Bind>>
            \in Seq(Call)
  <2>1. {Launch, Clear, Touch("keep"), Move("paused", "keep"), Send("cancel"), Add("note"),
         Mark("completed", ""), Move("retrying", "none"), Restart, Bind} \subseteq Call
      BY CallTypes DEF WorkStates, StepKinds, StepStates, Observed
  <2> QED BY <2>1, ShortSeqs
<1>2. item[w] \in Item /\ NewItem \in Item
    BY ItemTypes DEF TypeOK, StoreOK
<1>3. \A c : Commanded(c) => fuel' \in [owner : Nat, crash : Nat, fault : Nat, press : Nat]
    BY DEF Commanded, Spend, TypeOK, EnvOK
<1>a. CASE OwnerStart(w)
  <2>1. ThreadsOK'
      BY <1>1, <1>2, <1>a, CommandOK DEF OwnerStart, Programs
  <2>2. item' \in [Works -> Item]
      BY <1>2, <1>a DEF OwnerStart, PutItem, TypeOK, StoreOK
  <2> QED BY <1>3, <1>a, <2>1, <2>2 DEF OwnerStart, TypeOK, StoreOK, DbosOK, EnvOK, dbosVars
<1>b. CASE OwnerPause(w)
  <2>1. ThreadsOK'
      BY <1>1, <1>2, <1>b, CommandOK DEF OwnerPause, Programs
  <2> QED BY <1>3, <1>b, <2>1
          DEF OwnerPause, TypeOK, StoreOK, DbosOK, EnvOK, storeVars, dbosVars
<1>c. CASE OwnerResume(w)
  <2>1. ResumeTarget(item[w]) \in WorkStates
      BY DEF ResumeTarget, WorkStates, Waiting
  <2>2. <<Move(ResumeTarget(item[w]), "keep"), Send("resume")>> \in Seq(Call)
      BY <2>1, CallTypes, ShortSeqs
  <2>3. ThreadsOK'
      BY <1>2, <1>c, <2>2, CommandOK DEF OwnerResume, Programs
  <2> QED BY <1>3, <1>c, <2>3
          DEF OwnerResume, TypeOK, StoreOK, DbosOK, EnvOK, storeVars, dbosVars
<1>d. CASE OwnerCancel(w)
  <2>1. ThreadsOK'
      BY <1>1, <1>2, <1>d, CommandOK DEF OwnerCancel, Programs
  <2> QED BY <1>3, <1>d, <2>1
          DEF OwnerCancel, TypeOK, StoreOK, DbosOK, EnvOK, storeVars, dbosVars
<1>e. CASE OwnerRetry(w)
  <2>1. ThreadsOK'
      BY <1>1, <1>2, <1>e, CommandOK DEF OwnerRetry, Programs
  <2> QED BY <1>3, <1>e, <2>1
          DEF OwnerRetry, TypeOK, StoreOK, DbosOK, EnvOK, storeVars, dbosVars
<1>f. CASE OwnerReprioritize(w)
  <2>1. ThreadsOK'
      BY <1>1, <1>2, <1>f, CommandOK DEF OwnerReprioritize, Programs
  <2> QED BY <1>3, <1>f, <2>1
          DEF OwnerReprioritize, TypeOK, StoreOK, DbosOK, EnvOK, storeVars, dbosVars
<1>g. CASE OwnerAnswer(w)
  <2> DEFINE x == BoundExec(w)
  <2>1. PICK msg \in Message :
            inbox' = inbox \/ inbox' = [inbox EXCEPT ![x].owner = Append(@, msg)]
    <3>1. PICK text \in Answers :
              SendOwner(x, [text |-> text, ver |-> item[w].ver, sealed |-> AskedInSecret(w)])
        BY <1>g DEF OwnerAnswer
    <3>2. [text |-> text, ver |-> item[w].ver, sealed |-> AskedInSecret(w)] \in Message
        BY <1>2 DEF Message, Item, AskedInSecret
    <3> QED BY <3>1, <3>2 DEF SendOwner
  <2> HIDE DEF x
  <2>2. inbox' \in [Execs -> [owner : Seq(Message), control : Seq({"resume", "cancel"})]]
    <3>1. CASE x \in Execs
      <4>1. Append(inbox[x].owner, msg) \in Seq(Message)
          BY <3>1, AppendProperties DEF TypeOK, DbosOK
      <4> QED BY <2>1, <3>1, <4>1 DEF TypeOK, DbosOK
    <3>2. CASE x \notin Execs
        BY <2>1, <3>2 DEF TypeOK, DbosOK
    <3> QED BY <3>1, <3>2
  <2> QED BY <1>3, <1>g, <2>2
          DEF OwnerAnswer, TypeOK, ThreadsOK, StoreOK, DbosOK, EnvOK, storeVars, volatile
<1> QED BY <1>a, <1>b, <1>c, <1>d, <1>e, <1>f, <1>g

\* The marks startup leaves are calls, however many steps were running.
LEMMA MarksOK ==
    ASSUME TypeOK, NEW w \in Works
    PROVE  [i \in 1 .. Cardinality(RunningSteps(w)) |-> Interrupt] \in Seq(Call)
<1>1. IsFiniteSet(DOMAIN steps[w])
    BY FS_Interval, LenProperties DEF TypeOK, StoreOK
<1>2. Cardinality(RunningSteps(w)) \in Nat
    BY <1>1, FS_Subset, FS_CardinalityType DEF RunningSteps
<1>3. Interrupt \in Call
    BY CallTypes
<1> QED BY <1>2, <1>3

LEMMA MainOK ==
    ASSUME TypeOK, MainStep
    PROVE  TypeOK'
<1>1. Main \in Threads /\ th[Main] \in Thread /\ OwnItem(Main, th[Main])
    BY ThreadFacts DEF TypeOK, ThreadsOK
<1>a. CASE CancelAgain
  <2> DEFINE w == th[Main].w
  <2>1. w \in Works
      BY <1>1, <1>a DEF CancelAgain, Thread, OwnItem
  <2>2. item[w] \in Item
      BY <2>1 DEF TypeOK, StoreOK
  <2>3. <<Clear>> \in Seq(Call) /\ <<Move("cancelled", "keep"), Clear>> \in Seq(Call)
      BY CallTypes, ShortSeqs DEF WorkStates, Terminal
  <2> QED BY <1>1, <1>a, <2>1, <2>2, <2>3, OnlyOK DEF CancelAgain, Programs
<1>b. CASE BootStart
  <2>1. th' = [th EXCEPT ![Main] = [th[Main] EXCEPT !.pc = "boot"]]
      BY <1>b DEF BootStart
  <2>2. [th[Main] EXCEPT !.pc = "boot"] \in Thread
        /\ OwnItem(Main, [th[Main] EXCEPT !.pc = "boot"])
      BY <1>1, ThreadFacts DEF Thread, OwnItem, Programs
  <2>3. ThreadsOK'
      BY <1>1, <1>b, <2>1, <2>2 DEF BootStart, TypeOK, ThreadsOK
  <2> QED BY <1>b, <2>3 DEF BootStart, TypeOK, StoreOK, DbosOK, EnvOK, storeVars, dbosVars
<1>c. CASE BootLaunch
  <2>1. \A w \in Works : StateNotices(item[w]) \subseteq Notice
      BY StateNoticesOK DEF TypeOK, StoreOK
  <2>2. box' \in [Works -> SUBSET Notice]
      BY <1>c, <2>1 DEF BootLaunch, TypeOK, StoreOK
  <2> QED BY <1>c, <2>2
          DEF BootLaunch, TypeOK, ThreadsOK, StoreOK, DbosOK, EnvOK, volatile, dbosVars
<1>d. CASE BootResubmit
  <2>1. Idle(Owner) \in Thread /\ OwnItem(Main, Idle(Owner))
      BY ThreadFacts, ItemTypes, ShortSeqs DEF Idle, Thread, Programs, OwnItem
  <2>2. ThreadsOK'
      BY <1>1, <1>d, <2>1, RunOK DEF BootResubmit, TypeOK
  <2>3. \A e \in Execs : wf'[e] = wf[e] \/ wf'[e] = [wf[e] EXCEPT !.st = "live"]
      BY <1>d DEF BootResubmit
  <2>4. \A e \in Execs :
            LET row == [wf[e] EXCEPT !.st = "live"]
            IN  /\ row \in Workflow(Message \cup {NoMessage})
                /\ row.at = wf[e].at /\ row.msg = wf[e].msg
      BY DEF TypeOK, DbosOK, Workflow, WorkflowStates
  <2>5. \A e \in Execs : /\ wf'[e] \in Workflow(Message \cup {NoMessage})
                         /\ wf'[e].at = "apply" => wf'[e].msg \in Message
      BY <2>3, <2>4 DEF TypeOK, DbosOK
  <2>6. wf' \in [Execs -> Workflow(Message \cup {NoMessage})]
      BY <1>d, <2>5 DEF BootResubmit
  <2> QED BY <1>d, <2>2, <2>5, <2>6
          DEF BootResubmit, TypeOK, StoreOK, DbosOK, EnvOK, storeVars, env
<1>e. ASSUME NEW w \in Works, BootInterrupted(w) PROVE TypeOK'
  <2>1. item[w] \in Item
      BY DEF TypeOK, StoreOK
  <2>2. /\ <<Touch("own")>> \in Seq(Call)
        /\ <<Move("waiting_for_owner", "own"), Notify>> \in Seq(Call)
      BY CallTypes, ShortSeqs DEF WorkStates, Waiting
  <2>3. PICK calls \in Seq(Call) :
            Run(Main, [th[Main] EXCEPT !.w = w, !.held = item[w], !.todo = calls])
      BY <1>e, <2>2, MarksOK, ConcatProperties DEF BootInterrupted
  <2> DEFINE rec == [th[Main] EXCEPT !.w = w, !.held = item[w], !.todo = calls]
  <2>4. rec \in Thread /\ rec.w = w
      BY <1>1, <2>1 DEF Thread
  <2>5. OwnItem(Main, rec)
      BY <2>4, ThreadFacts DEF OwnItem
  <2>6. ThreadsOK'
      BY <1>1, <2>3, <2>4, <2>5, RunOK DEF TypeOK
  <2> QED BY <1>e, <2>6
          DEF BootInterrupted, TypeOK, StoreOK, DbosOK, EnvOK, storeVars, dbosVars, env
<1> QED BY <1>a, <1>b, <1>c, <1>d, <1>e DEF MainStep

LEMMA FaultOK ==
    ASSUME TypeOK, BackendFault(Main)
    PROVE  TypeOK'
<1> DEFINE o == Head(th[Main].todo)
<1>1. ThreadsOK /\ Main \in Threads /\ th[Main].todo # <<>>
    BY ThreadFacts DEF TypeOK, BackendFault, Calls
<1>2. th[Main] \in Thread /\ th[Main].w \in Works
    BY <1>1, CallFacts
<1>3. OnFault(o.op, o.a) \in Seq(Call)
  <2>1. {Move("failed", "none"), Move("failed", "keep"), Move("paused", "keep"), Notify, Read}
          \subseteq Call
      BY CallTypes DEF WorkStates, Terminal
  <2> QED BY <2>1, ShortSeqs DEF OnFault
<1> DEFINE rec == [th[Main] EXCEPT !.pc = "idle", !.todo = OnFault(o.op, o.a)]
<1>4. rec \in Thread /\ rec.w = th[Main].w
    BY <1>2, <1>3 DEF Thread, Programs
<1>5. OwnItem(Main, rec)
    BY <1>2, <1>4, ThreadFacts DEF OwnItem
<1>6. ThreadsOK'
    BY <1>1, <1>4, <1>5, RunOK DEF BackendFault
<1>7. fuel' \in [owner : Nat, crash : Nat, fault : Nat, press : Nat]
    BY DEF BackendFault, Spend, TypeOK, EnvOK
<1> QED BY <1>6, <1>7 DEF BackendFault, TypeOK, StoreOK, DbosOK, EnvOK, storeVars, dbosVars

LEMMA IdleOK ==
    ASSUME NEW f, f = [t \in Threads |-> Idle(t[1])]
    PROVE  f \in [Threads -> Thread] /\ \A t \in Threads : OwnItem(t, f[t])
<1>1. ASSUME NEW t \in Threads PROVE Idle(t[1]) \in Thread /\ OwnItem(t, Idle(t[1]))
  <2>1. t[1] \in Works \cup {Owner}
      BY ThreadFacts DEF Main
  <2> QED BY <2>1, ItemTypes, ShortSeqs DEF Idle, Thread, Programs, OwnItem
<1> QED BY <1>1

LEMMA CrashOK ==
    ASSUME TypeOK, Crash
    PROVE  TypeOK'
<1>1. ThreadsOK'
    BY IdleOK, LeaseTypes DEF Crash, ThreadsOK
<1>2. fuel' \in [owner : Nat, crash : Nat, fault : Nat, press : Nat]
    BY DEF Crash, Spend, TypeOK, EnvOK
<1> QED BY <1>1, <1>2 DEF Crash, TypeOK, StoreOK, DbosOK, EnvOK, storeVars, dbosVars

-----------------------------------------------------------------------------
(* The type invariant *)

LEMMA TypesInitially == Init => TypeOK
<1> SUFFICES ASSUME Init PROVE TypeOK
    OBVIOUS
<1>1. ThreadsOK
    BY IdleOK, LeaseTypes DEF Init, ThreadsOK
<1>2. StoreOK
    BY ItemTypes, ShortSeqs DEF Init, StoreInit, StoreOK
<1>3. DbosOK
  <2>1. NoWorkflow \in Workflow(Message \cup {NoMessage}) /\ NoWorkflow.at # "apply"
      BY DEF NoWorkflow, Workflow, WorkflowStates, Checkpoints
  <2> QED BY <2>1, ShortSeqs DEF Init, StoreInit, DbosOK
<1>4. EnvOK
    BY BoundsAssumption DEF Init, EnvOK
<1> QED BY <1>1, <1>2, <1>3, <1>4 DEF TypeOK

LEMMA TypesNext == TypeOK /\ [Next]_vars => TypeOK'
<1> SUFFICES ASSUME TypeOK, [Next]_vars PROVE TypeOK'
    OBVIOUS
<1>1. CASE \E t \in Threads : StoreCall(t)
    BY <1>1, StoreCallOK
<1>2. ASSUME NEW e \in Execs, EngineStep(e) PROVE TypeOK'
    BY <1>2, AdvanceOK, BrainOK, ExecutionOK, DbosCallsOK DEF EngineStep
<1>3. CASE \E e \in Execs : WorkflowStep(e)
    BY <1>3, WorkflowOK
<1>4. CASE MainStep
    BY <1>4, MainOK
<1>5. CASE OwnerStep
    BY <1>5, OwnerOK DEF OwnerStep
<1>6. CASE BackendFault(Main)
    BY <1>6, FaultOK
<1>7. CASE Crash
    BY <1>7, CrashOK
<1>8. CASE UNCHANGED vars
    BY <1>8 DEF vars, TypeOK, ThreadsOK, StoreOK, DbosOK, EnvOK
<1> QED BY <1>1, <1>2, <1>3, <1>4, <1>5, <1>6, <1>7, <1>8 DEF Next

\* Every variable keeps its type, for any number of items, retries, cycles,
\* crashes and commands: the store never holds a row, and no thread a pending
\* call, that the code could not have produced.
THEOREM Typing == Spec => []TypeOK
BY TypesInitially, TypesNext, PTL DEF Spec

-----------------------------------------------------------------------------
(* Versions *)

\* Only the row that does not exist is absent, or has version 0.
AbsentIsNew ==
    \A w \in Works : item[w].state = "absent" \/ item[w].ver = 0 => item[w] = Absent

\* The inductive invariant behind optimistic versioning.
Versions == TypeOK /\ AbsentIsNew /\ HeldIsTrueOrStale

\* What one write may make of a row.
Successor(old, new) ==
    /\ new.ver = old.ver + 1
    /\ \/ old = Absent /\ new = NewItem
       \/ old.state \in WorkStates \ Terminal /\ new.state = old.state
       \/ old.state \in WorkStates /\ new.state \in Allowed[old.state]

ItemEffect ==
    \/ item' = item
    \/ \E w \in Works, new \in Item :
          item' = [item EXCEPT ![w] = new] /\ Successor(item[w], new)

\* A thread knows nothing but what it knew, or read, or wrote.
Knows(t) ==
    \/ th'[t].held = th[t].held /\ th'[t].w = th[t].w
    \/ th'[t].held = Absent
    \/ th'[t].w \in Works /\ th'[t].held \in {item[th'[t].w], item'[th'[t].w]}

ThreadEffect == \A t \in Threads : Knows(t)

LEMMA EffectsKeepVersions ==
    ASSUME Versions, TypeOK', ItemEffect, ThreadEffect
    PROVE  Versions'
<1>1. \A w \in Works : item[w] \in Item /\ item'[w] \in Item
    BY DEF Versions, TypeOK, StoreOK
<1>2. \A w \in Works : item'[w] = item[w] \/ Successor(item[w], item'[w])
    BY <1>1 DEF ItemEffect, Versions, TypeOK, StoreOK
<1>3. \A w \in Works : item'[w] = item[w] \/ item'[w].ver > item[w].ver
    BY <1>1, <1>2 DEF Successor, Item
<1>4. AbsentIsNew'
  <2> SUFFICES ASSUME NEW w \in Works, item'[w].state = "absent" \/ item'[w].ver = 0
               PROVE  item'[w] = Absent
      BY DEF AbsentIsNew
  <2>1. CASE item'[w] = item[w]
      BY <2>1 DEF Versions, AbsentIsNew
  <2>2. CASE Successor(item[w], item'[w])
    <3>1. item'[w].ver # 0
        BY <1>1, <2>2 DEF Successor, Item
    <3>2. item'[w].state # "absent"
        BY <2>2 DEF Successor, NewItem, WorkStates, Terminal, Waiting, Allowed
    <3> QED BY <3>1, <3>2
  <2> QED BY <1>2, <2>1, <2>2
<1>5. HeldIsTrueOrStale'
  <2> SUFFICES ASSUME NEW t \in Threads, th'[t].w \in Works
               PROVE  /\ th'[t].held.ver <= item'[th'[t].w].ver
                      /\ th'[t].held.ver = item'[th'[t].w].ver
                           => th'[t].held = item'[th'[t].w]
      BY DEF HeldIsTrueOrStale
  <2> DEFINE w == th'[t].w
  <2>1. item[w] \in Item /\ item'[w] \in Item
      BY <1>1
  <2>2. item'[w] = item[w] \/ item'[w].ver > item[w].ver
      BY <1>3
  <2>3. CASE th'[t].held = th[t].held /\ th'[t].w = th[t].w
    <3>1. th[t].held \in Item
        BY DEF Versions, TypeOK, ThreadsOK, Thread
    <3>2. /\ th[t].held.ver <= item[w].ver
          /\ th[t].held.ver = item[w].ver => th[t].held = item[w]
        BY <2>3 DEF Versions, HeldIsTrueOrStale
    <3> QED BY <2>1, <2>2, <2>3, <3>1, <3>2 DEF Item
  <2>4. CASE th'[t].held = Absent
    <3>1. item'[w].ver = 0 => item'[w] = Absent
        BY <1>4 DEF AbsentIsNew
    <3> QED BY <2>1, <2>4, <3>1 DEF Absent, Item
  <2>5. CASE th'[t].held \in {item[w], item'[w]}
      BY <2>1, <2>2, <2>5 DEF Item
  <2> QED BY <2>3, <2>4, <2>5 DEF ThreadEffect, Knows
<1> QED BY <1>4, <1>5 DEF Versions

LEMMA RunEffect ==
    ASSUME TypeOK, NEW t \in Threads, NEW rec, Run(t, rec),
           \/ rec.held = th[t].held /\ rec.w = th[t].w
           \/ rec.held = Absent
           \/ rec.w \in Works /\ rec.held \in {item[rec.w], item'[rec.w]}
    PROVE  ThreadEffect
<1> DEFINE new == IF t = Main /\ Returned(rec) /\ rec.pc # "raise" THEN Idle(Owner) ELSE rec
<1>1. th' = [th EXCEPT ![t] = new]
    BY DEF Run
<1>2. new = rec \/ new.held = Absent
    BY DEF Idle
<1> HIDE DEF new
<1>3. th'[t] = new /\ \A u \in Threads \ {t} : th'[u] = th[u]
    BY <1>1 DEF TypeOK, ThreadsOK
<1> QED BY <1>2, <1>3 DEF ThreadEffect, Knows

LEMMA SegmentEffect ==
    ASSUME TypeOK, NEW t \in Threads, NEW held, NEW pc, NEW calls,
           Segment(t, held, pc, calls), th[t].w \in Works,
           held \in {item[th[t].w], item'[th[t].w], th[t].held}
    PROVE  ThreadEffect
<1> DEFINE rec == [th[t] EXCEPT !.pc = pc, !.held = held, !.todo = calls]
<1>1. rec.held = held /\ rec.w = th[t].w
    BY DEF TypeOK, ThreadsOK, Thread
<1>2. Run(t, rec)
    BY DEF Segment
<1> HIDE DEF rec
<1> QED BY <1>1, <1>2, RunEffect

LEMMA RaiseEffect ==
    ASSUME TypeOK, NEW t \in Threads, Raise(t)
    PROVE  ThreadEffect
<1> DEFINE rec == [th[t] EXCEPT !.todo = <<>>,
                                !.pc = IF t = Main /\ @ # "boot" THEN "idle" ELSE "raise"]
<1>1. rec.held = th[t].held /\ rec.w = th[t].w
    BY DEF TypeOK, ThreadsOK, Thread
<1>2. Run(t, rec)
    BY DEF Raise
<1> HIDE DEF rec
<1> QED BY <1>1, <1>2, RunEffect

Effects == ItemEffect /\ ThreadEffect

\* The compare-and-swap: a permitted save of a fresh record writes a successor.
LEMMA SaveEffect ==
    ASSUME Versions, NEW t \in Threads, DoSave(t)
    PROVE  Effects
<1> DEFINE me  == th[t]
           o   == Head(th[t].todo)
           w   == th[t].w
           new == NewRecord(th[t], Head(th[t].todo))
<1>1. me \in Thread /\ w \in Works /\ o \in Call
    BY CallFacts DEF DoSave, Calls, Versions, TypeOK
<1>2. /\ o.op \in {"move", "touch"} /\ Permitted(me, o) /\ Fresh(w, me.held)
      /\ item' = [item EXCEPT ![w] = new]
      /\ Did(t, [me EXCEPT !.held = new])
    BY DEF DoSave, Calls, PutItem
<1>3. me.held = item[w]
    BY <1>1, <1>2 DEF Versions, HeldIsTrueOrStale, Fresh
<1>4. new \in Item /\ item[w] \in Item
    BY <1>1, <1>2, NewRecordOK DEF Versions, TypeOK, StoreOK
<1>5. new = item[w] \/ Successor(item[w], new)
  <2>1. CASE o.op = "move"
    <3>1. new = Transition(item[w], o.a, StepArg(me, o.b)) /\ CanMove(item[w], o.a)
        BY <1>2, <1>3, <2>1 DEF NewRecord, Permitted
    <3> QED BY <3>1 DEF Transition, CanMove, Successor
  <2>2. CASE o.op = "touch"
    <3>1. new = WithProgress(item[w], StepArg(me, o.b)) /\ CanTouch(item[w])
        BY <1>2, <1>3, <2>2 DEF NewRecord, Permitted
    <3>2. new.ver = item[w].ver + 1 /\ new.state = item[w].state
        BY <1>4, <3>1 DEF WithProgress, Item
    <3> QED BY <3>1, <3>2 DEF CanTouch, Active, Successor
  <2> QED BY <1>2, <2>1, <2>2
<1>6. ItemEffect
  <2>1. CASE new = item[w]
    <3>1. item' = item
        BY <1>2, <2>1 DEF Versions, TypeOK, StoreOK
    <3> QED BY <3>1 DEF ItemEffect
  <2>2. CASE Successor(item[w], new)
      BY <1>1, <1>2, <1>4, <2>2 DEF ItemEffect
  <2> QED BY <1>5, <2>1, <2>2
<1>7. ThreadEffect
  <2> DEFINE rec == [[me EXCEPT !.held = new] EXCEPT !.todo = Tail(@)]
  <2>1. rec.held = new /\ rec.w = w
      BY <1>1 DEF Thread
  <2>2. item'[w] = new
      BY <1>1, <1>2 DEF Versions, TypeOK, StoreOK
  <2>3. Run(t, rec)
      BY <1>2 DEF Did
  <2> HIDE DEF rec, new
  <2> QED BY <1>1, <2>1, <2>2, <2>3, RunEffect DEF Versions
<1> QED BY <1>6, <1>7 DEF Effects

\* No other store call writes a row or gives a thread a record it did not read.
LEMMA StoreCallEffect ==
    ASSUME Versions, NEW t \in Threads, StoreCall(t)
    PROVE  Effects
<1>1. CASE DoSave(t)
    BY <1>1, SaveEffect
<1>2. CASE RejectSave(t)
  <2>1. ItemEffect
      BY <1>2 DEF RejectSave, storeVars, ItemEffect
  <2>2. CASE Run(t, [th[t] EXCEPT !.todo = <<>>, !.pc = "cancel"])
    <3> DEFINE rec == [th[t] EXCEPT !.todo = <<>>, !.pc = "cancel"]
    <3>1. rec.held = th[t].held /\ rec.w = th[t].w
        BY DEF Versions, TypeOK, ThreadsOK, Thread
    <3> HIDE DEF rec
    <3>2. Run(t, rec)
        BY <2>2 DEF rec
    <3> QED BY <2>1, <3>1, <3>2, RunEffect DEF Versions, Effects
  <2>3. CASE Raise(t)
      BY <2>1, <2>3, RaiseEffect DEF Versions, Effects
  <2> QED BY <1>2, <2>2, <2>3 DEF RejectSave
<1>3. ASSUME StoreCall(t), ~DoSave(t), ~RejectSave(t)
      PROVE  Effects
  <2>1. ItemEffect
      BY <1>3 DEF StoreCall, DoRead, DoAdd, DoMark, DoInterrupt, DoNotify, DoBlocker, DoClear,
                  DoSend, DoSubmit, DoRestart, DoBind, storeVars, ItemEffect
  <2>2. th[t] \in Thread /\ th[t].w \in Works
    <3>1. th[t].todo # <<>>
        BY <1>3 DEF StoreCall, DoRead, DoAdd, DoMark, DoInterrupt, DoNotify, DoBlocker,
                    DoClear, DoSend, DoSubmit, DoRestart, DoBind, Calls
    <3> QED BY <3>1, CallFacts, SMTT(60) DEF Versions, TypeOK
  <2>3. PICK rec \in {th[t], [th[t] EXCEPT !.held = item[th[t].w]]}
                     \cup {[th[t] EXCEPT !.sid = n] : n \in Nat} : Did(t, rec)
    <3>1. Len(steps[th[t].w]) + 1 \in Nat
        BY <2>2, LenProperties DEF Versions, TypeOK, StoreOK
    <3>2. RunningSteps(th[t].w) \subseteq Nat
        BY <2>2, LenProperties DEF RunningSteps, Versions, TypeOK, StoreOK
    <3>3. 1 .. MaxRetries \subseteq Nat
        BY RetriesAssumption
    <3>4. CASE DoRead(t)
        BY <3>4 DEF DoRead
    <3>5. CASE DoAdd(t)
        BY <3>1, <3>5 DEF DoAdd
    <3>6. CASE DoInterrupt(t)
        BY <3>2, <3>6 DEF DoInterrupt
    <3>7. CASE DoRestart(t)
        BY <3>3, <3>7 DEF DoRestart
    <3>8. CASE \/ DoMark(t) \/ DoNotify(t) \/ DoBlocker(t) \/ DoClear(t) \/ DoSend(t)
               \/ DoSubmit(t) \/ DoBind(t)
        BY <3>8 DEF DoMark, DoNotify, DoBlocker, DoClear, DoSend, DoSubmit, DoBind
    <3> QED BY <1>3, <3>4, <3>5, <3>6, <3>7, <3>8 DEF StoreCall
  <2> DEFINE done == [rec EXCEPT !.todo = Tail(@)]
  <2>4. done.w = th[t].w /\ done.held \in {th[t].held, item[th[t].w]}
      BY <2>2, <2>3 DEF Thread
  <2>5. Run(t, done)
      BY <2>3 DEF Did
  <2> HIDE DEF done
  <2> QED BY <2>1, <2>2, <2>4, <2>5, RunEffect, SMTT(60) DEF Versions, Effects
<1> QED BY <1>1, <1>2, <1>3

\* A segment that leaves the store alone.
LEMMA OnlyEffect ==
    ASSUME Versions, NEW t \in Threads, NEW pc, NEW calls, NEW held,
           held \in {item[th[t].w], th[t].held}, th[t].w \in Works,
           Only(t, held, pc, calls) \/ Pressed(t, held, pc, calls)
    PROVE  Effects
<1>1. ItemEffect
    BY DEF Only, Pressed, storeVars, ItemEffect
<1>2. Segment(t, held, pc, calls)
    BY DEF Only, Pressed
<1> QED BY <1>1, <1>2, SegmentEffect DEF Versions, Effects

LEMMA EngineEffect ==
    ASSUME Versions, NEW e \in Execs, EngineStep(e)
    PROVE  Effects
<1>1. e \in Threads /\ e[1] \in Works /\ th[e].w = e[1]
    BY ExecOK DEF Versions
<1>2. ASSUME NEW it, it \in {item[e[1]], th[e].held}, Admission(e, it) PROVE Effects
    BY <1>1, <1>2, OnlyEffect DEF Admission
<1>3. CASE AdvanceStopped(e) \/ AdvanceDependent(e)
    BY <1>1, <1>3, OnlyEffect DEF AdvanceStopped, AdvanceDependent
<1>4. CASE Advance(e) \/ Admit(e)
    BY <1>1, <1>2, <1>4, OnlyEffect DEF Advance, Admit
<1>5. CASE DecideTooLate(e) \/ BrainFails(e) \/ BrainCompletes(e) \/ BrainAsks(e) \/ BrainActs(e)
    BY <1>1, <1>5, OnlyEffect DEF DecideTooLate, BrainFails, BrainCompletes, BrainAsks, BrainActs
<1>6. CASE BrainUnavailable(e)
  <2>1. PICK calls : Pressed(e, item[e[1]], "ret", calls)
      BY <1>6 DEF BrainUnavailable
  <2> QED BY <1>1, <2>1, OnlyEffect
<1>7. CASE Leased(e)
  <2>1. ItemEffect
      BY <1>7 DEF Leased, Only, Pressed, storeVars, ItemEffect
  <2>2. CASE \E pc, calls : \/ Only(e, item[e[1]], pc, calls)
                            \/ Pressed(e, item[e[1]], pc, calls)
      BY <1>1, <2>2, OnlyEffect
  <2>3. CASE \E calls : th' = [th EXCEPT ![e] = [@ EXCEPT !.pc = "exec", !.held = item[e[1]],
                                                          !.todo = calls]]
    <3>1. PICK calls : th' = [th EXCEPT ![e] = [@ EXCEPT !.pc = "exec", !.held = item[e[1]],
                                                          !.todo = calls]]
        BY <2>3
    <3> DEFINE rec == [th[e] EXCEPT !.pc = "exec", !.held = item[e[1]], !.todo = calls]
    <3>2. rec.held = item[e[1]] /\ rec.w = e[1]
        BY <1>1, ExecOK DEF Versions, Thread
    <3>3. th' = [th EXCEPT ![e] = rec]
        BY <3>1
    <3> HIDE DEF rec
    <3>4. th'[e] = rec /\ \A u \in Threads \ {e} : th'[u] = th[u]
        BY <1>1, <3>3 DEF Versions, TypeOK, ThreadsOK
    <3> QED BY <1>1, <2>1, <3>2, <3>4 DEF ThreadEffect, Knows, Effects
  <2> QED BY <1>7, <2>2, <2>3 DEF Leased
<1>8. CASE LeaseRefused(e) \/ StepDone(e) \/ StepAsks(e) \/ StepFails(e)
    BY <1>1, <1>8, OnlyEffect DEF LeaseRefused, StepDone, StepAsks, StepFails
<1>9. CASE Executed(e)
  <2>1. ItemEffect
      BY <1>9 DEF Executed, ItemEffect
  <2>2. PICK pc, calls : Segment(e, th[e].held, pc, calls)
      BY <1>9 DEF Executed
  <2> QED BY <1>1, <2>1, <2>2, SegmentEffect DEF Versions, Effects
<1>10. CASE ApplyPlain(e)
  <2>1. ItemEffect
      BY <1>10 DEF ApplyPlain, Only, storeVars, ItemEffect
  <2>2. Raise(e) \/ \E calls : Segment(e, item[e[1]], "ret", calls)
      BY <1>10 DEF ApplyPlain, Only
  <2> QED BY <1>1, <2>1, <2>2, RaiseEffect, SegmentEffect DEF Versions, Effects
<1>11. CASE ApplySealed(e)
  <2>1. ThreadEffect
    <3>1. Raise(e) \/ Segment(e, item[e[1]], "ret", <<>>)
        BY <1>11 DEF ApplySealed
    <3> QED BY <1>1, <3>1, RaiseEffect, SegmentEffect DEF Versions
  <2>2. ItemEffect
    <3>1. CASE item' = item
        BY <3>1 DEF ItemEffect
    <3>2. CASE item[e[1]].state = "waiting_for_owner"
               /\ PutItem(e[1], Transition(item[e[1]], "running", 0))
      <4> DEFINE new == Transition(item[e[1]], "running", 0)
      <4>1. item[e[1]].state \in WorkStates /\ "running" \in Allowed[item[e[1]].state]
          BY <3>2 DEF WorkStates, Waiting, Terminal, Allowed
      <4>2. new \in Item
          BY <1>1, <4>1, ExecOK, ItemTypes DEF Versions, WorkStates
      <4>3. Successor(item[e[1]], new)
          BY <3>2, <4>1 DEF Transition, Successor
      <4> QED BY <1>1, <3>2, <4>2, <4>3 DEF ItemEffect, PutItem
    <3> QED BY <1>11, <3>1, <3>2 DEF ApplySealed, AnswersNow
  <2> QED BY <2>1, <2>2 DEF Effects
<1>12. CASE FailBounded(e)
    BY <1>1, <1>12, OnlyEffect DEF FailBounded
<1> QED BY <1>3, <1>4, <1>5, <1>6, <1>7, <1>8, <1>9, <1>10, <1>11, <1>12 DEF EngineStep

LEMMA WorkflowEffect ==
    ASSUME Versions, NEW e \in Execs, WorkflowStep(e)
    PROVE  Effects
<1>1. ItemEffect
    BY DEF WorkflowStep, StepReturns, StepRaises, ReceiveAnswer, ReceiveControl, storeVars,
           ItemEffect
<1>2. th' = th \/ \E n : th' = [th EXCEPT ![e] = [Idle(e[1]) EXCEPT !.tries = n]]
  <2>1. Idle(e[1]) = [Idle(e[1]) EXCEPT !.tries = 0]
      BY DEF Idle
  <2> QED BY <2>1 DEF WorkflowStep, StepReturns, StepRaises, ReceiveAnswer, ReceiveControl, volatile
<1>3. ASSUME NEW n, th' = [th EXCEPT ![e] = [Idle(e[1]) EXCEPT !.tries = n]]
      PROVE  ThreadEffect
  <2> DEFINE rec == [Idle(e[1]) EXCEPT !.tries = n]
  <2>1. rec.held = Absent
      BY DEF Idle
  <2>2. th'[e] = rec /\ \A u \in Threads \ {e} : th'[u] = th[u]
      BY <1>3, ExecOK DEF Versions, TypeOK, ThreadsOK
  <2> QED BY <2>1, <2>2 DEF ThreadEffect, Knows
<1> QED BY <1>1, <1>2, <1>3 DEF Effects, ThreadEffect, Knows

LEMMA CommandEffect ==
    ASSUME Versions, NEW w \in Works, NEW held, NEW pc, NEW calls,
           Command(w, held, pc, calls), held \in {item[w], item'[w]}
    PROVE  ThreadEffect
<1> DEFINE rec == [Idle(w) EXCEPT !.pc = pc, !.held = held, !.todo = calls]
<1>1. rec.held = held /\ rec.w = w
    BY DEF Idle
<1>2. Run(Main, rec)
    BY DEF Command
<1> HIDE DEF rec
<1> QED BY <1>1, <1>2, ThreadFacts, RunEffect DEF Versions

LEMMA OwnerEffect ==
    ASSUME Versions, NEW w \in Works,
           \/ OwnerStart(w) \/ OwnerPause(w) \/ OwnerResume(w) \/ OwnerCancel(w)
           \/ OwnerRetry(w) \/ OwnerReprioritize(w) \/ OwnerAnswer(w)
    PROVE  Effects
<1>1. CASE OwnerStart(w)
  <2>1. item[w] = Absent
      BY <1>1 DEF OwnerStart, Exists, Versions, AbsentIsNew
  <2>2. Successor(item[w], NewItem) /\ NewItem \in Item
      BY <2>1, ItemTypes DEF Successor, Absent, NewItem
  <2>3. item' = [item EXCEPT ![w] = NewItem] /\ item'[w] = NewItem
      BY <1>1 DEF OwnerStart, PutItem, Versions, TypeOK, StoreOK
  <2>4. ItemEffect
      BY <2>2, <2>3 DEF ItemEffect
  <2> QED BY <1>1, <2>3, <2>4, CommandEffect DEF OwnerStart, Effects
<1>2. CASE OwnerAnswer(w)
    BY <1>2 DEF OwnerAnswer, storeVars, volatile, Effects, ItemEffect, ThreadEffect, Knows
<1>3. CASE \/ OwnerPause(w) \/ OwnerResume(w) \/ OwnerCancel(w)
           \/ OwnerRetry(w) \/ OwnerReprioritize(w)
  <2>1. ItemEffect
      BY <1>3 DEF OwnerPause, OwnerResume, OwnerCancel, OwnerRetry, OwnerReprioritize,
                  storeVars, ItemEffect
  <2>2. \E pc, calls : Command(w, item[w], pc, calls)
      BY <1>3 DEF OwnerPause, OwnerResume, OwnerCancel, OwnerRetry, OwnerReprioritize
  <2> QED BY <2>1, <2>2, CommandEffect DEF Effects
<1> QED BY <1>1, <1>2, <1>3

LEMMA MainEffect ==
    ASSUME Versions, MainStep \/ BackendFault(Main) \/ Crash
    PROVE  Effects
<1>1. Main \in Threads /\ th[Main] \in Thread /\ OwnItem(Main, th[Main])
    BY ThreadFacts DEF Versions, TypeOK, ThreadsOK
<1>2. CASE CancelAgain
  <2>1. th[Main].w \in Works
      BY <1>1, <1>2 DEF CancelAgain, Thread, OwnItem
  <2> QED BY <1>1, <1>2, <2>1, OnlyEffect DEF CancelAgain
<1>3. CASE BootStart
  <2>1. th'[Main].held = th[Main].held /\ th'[Main].w = th[Main].w
        /\ \A t \in Threads \ {Main} : th'[t] = th[t]
      BY <1>1, <1>3 DEF BootStart, Versions, TypeOK, ThreadsOK, Thread
  <2> QED BY <1>3, <2>1 DEF BootStart, storeVars, Effects, ItemEffect, ThreadEffect, Knows
<1>4. CASE BootLaunch
    BY <1>4 DEF BootLaunch, volatile, Effects, ItemEffect, ThreadEffect, Knows
<1>5. CASE BootResubmit
  <2>1. Run(Main, Idle(Owner)) /\ Idle(Owner).held = Absent
      BY <1>5 DEF BootResubmit, Idle
  <2> QED BY <1>1, <1>5, <2>1, RunEffect
          DEF BootResubmit, storeVars, Effects, ItemEffect, Versions
<1>7. ASSUME NEW w \in Works, BootInterrupted(w) PROVE Effects
  <2>1. PICK calls : Run(Main, [th[Main] EXCEPT !.w = w, !.held = item[w], !.todo = calls])
      BY <1>7 DEF BootInterrupted
  <2> DEFINE rec == [th[Main] EXCEPT !.w = w, !.held = item[w], !.todo = calls]
  <2>2. rec.w = w /\ rec.held = item[w]
      BY <1>1 DEF Thread
  <2>3. Run(Main, rec)
      BY <2>1
  <2> HIDE DEF rec
  <2> QED BY <1>1, <1>7, <2>2, <2>3, RunEffect
          DEF BootInterrupted, storeVars, Effects, ItemEffect, Versions
<1>8. CASE BackendFault(Main)
  <2>1. PICK calls : Run(Main, [th[Main] EXCEPT !.pc = "idle", !.todo = calls])
      BY <1>8 DEF BackendFault
  <2> DEFINE rec == [th[Main] EXCEPT !.pc = "idle", !.todo = calls]
  <2>2. rec.w = th[Main].w /\ rec.held = th[Main].held
      BY <1>1 DEF Thread
  <2>3. Run(Main, rec)
      BY <2>1
  <2> HIDE DEF rec
  <2> QED BY <1>1, <1>8, <2>2, <2>3, RunEffect
          DEF BackendFault, storeVars, Effects, ItemEffect, Versions
<1>9. CASE Crash
  <2>1. \A t \in Threads : th'[t].held = Absent
      BY <1>9 DEF Crash, Idle
  <2> QED BY <1>9, <2>1 DEF Crash, storeVars, Effects, ItemEffect, ThreadEffect, Knows
<1> QED BY <1>2, <1>3, <1>4, <1>5, <1>7, <1>8, <1>9 DEF MainStep

LEMMA NextEffect ==
    ASSUME Versions, [Next]_vars
    PROVE  Effects
<1>1. CASE \E t \in Threads : StoreCall(t)
    BY <1>1, StoreCallEffect
<1>2. CASE \E e \in Execs : EngineStep(e) \/ WorkflowStep(e)
    BY <1>2, EngineEffect, WorkflowEffect
<1>3. CASE OwnerStep
    BY <1>3, OwnerEffect DEF OwnerStep
<1>4. CASE MainStep \/ BackendFault(Main) \/ Crash
    BY <1>4, MainEffect
<1>5. CASE UNCHANGED vars
    BY <1>5 DEF vars, Effects, ItemEffect, ThreadEffect, Knows
<1> QED BY <1>1, <1>2, <1>3, <1>4, <1>5 DEF Next

LEMMA VersionsInitially == Init => Versions
<1> SUFFICES ASSUME Init PROVE Versions
    OBVIOUS
<1>1. TypeOK
    BY TypesInitially
<1>2. AbsentIsNew
    BY DEF Init, StoreInit, AbsentIsNew
<1>3. HeldIsTrueOrStale
  <2>1. \A t \in Threads : th[t].held = Absent
      BY DEF Init, Idle
  <2>2. \A w \in Works : item[w] = Absent
      BY DEF Init, StoreInit
  <2> QED BY <2>1, <2>2 DEF HeldIsTrueOrStale, Absent
<1> QED BY <1>1, <1>2, <1>3 DEF Versions

LEMMA VersionsNext == Versions /\ [Next]_vars => Versions'
BY TypesNext, NextEffect, EffectsKeepVersions DEF Versions, Effects

\* Optimistic versioning is sound: at every moment each thread's copy of its
\* item is the row as it stands or carries an older version, so a save that
\* passes the version check is made from the truth, whatever was interleaved,
\* crashed or resumed since the copy was read.
THEOREM CompareAndSwapIsSound == Spec => []HeldIsTrueOrStale
<1>1. Versions => HeldIsTrueOrStale
    BY DEF Versions
<1> QED BY <1>1, VersionsInitially, VersionsNext, PTL DEF Spec

-----------------------------------------------------------------------------
(* Refinement *)

LEMMA LifecycleInitially == Init => Promise!LifecycleInit
BY DEF Init, StoreInit, Absent, Promise!LifecycleInit

LEMMA LifecycleSteps ==
    ASSUME Versions, [Next]_vars
    PROVE  [Promise!LifecycleNext]_(Promise!lifecycleVars)
<1>1. CASE item' = item
    BY <1>1 DEF Promise!lifecycleVars
<1>2. ASSUME NEW w \in Works, NEW new \in Item,
             item' = [item EXCEPT ![w] = new], Successor(item[w], new)
      PROVE  Promise!LifecycleNext
  <2> DEFINE st  == [v \in Works |-> item[v].state]
             ver == [v \in Works |-> item[v].ver]
  <2>1. item'[w] = new /\ \A v \in Works \ {w} : item'[v] = item[v]
      BY <1>2 DEF Versions, TypeOK, StoreOK
  <2>2. new.ver = item[w].ver + 1
      BY <1>2 DEF Successor
  <2>a. st[w] = item[w].state /\ ver[w] = item[w].ver
      OBVIOUS
  <2>b. st' = [st EXCEPT ![w] = new.state]
      <3>1. \A v \in Works : item'[v].state = IF v = w THEN new.state ELSE item[v].state
          BY <2>1
      <3> QED BY <3>1
  <2>c. ver' = [ver EXCEPT ![w] = ver[w] + 1]
      <3>1. \A v \in Works : item'[v].ver = IF v = w THEN new.ver ELSE item[v].ver
          BY <2>1
      <3>2. ver' = [ver EXCEPT ![w] = new.ver]
          BY <3>1
      <3> QED BY <3>2, <2>2, <2>a
  <2>3. Promise!Become(w, new.state)
      BY <2>b, <2>c DEF Promise!Become
  <2>4. CASE item[w] = Absent /\ new = NewItem
    <3>1. Promise!Create(w)
        BY <2>3, <2>4 DEF Promise!Create, Absent, NewItem
    <3> QED BY <3>1 DEF Promise!LifecycleNext
  <2>5. CASE item[w].state \in WorkStates \ Terminal /\ new.state = item[w].state
    <3>1. Promise!WorkStates = WorkStates /\ Promise!Terminal = Terminal
        BY DEF Promise!WorkStates, WorkStates, Promise!Terminal, Terminal,
               Promise!Waiting, Waiting
    <3>2. st[w] \in Promise!WorkStates \ Promise!Terminal
        BY <3>1, <2>a, <2>5
    <3>3. Promise!Refresh(w)
        BY <3>2, <2>b, <2>c, <2>a, <2>5 DEF Promise!Refresh, Promise!Become
    <3> QED BY <3>3 DEF Promise!LifecycleNext
  <2>6. CASE item[w].state \in WorkStates /\ new.state \in Allowed[item[w].state]
    <3>1. Promise!Proceed(w)
        BY <2>3, <2>6 DEF Promise!Proceed, Promise!WorkStates, WorkStates, Promise!Terminal,
               Terminal, Promise!Waiting, Waiting, Promise!Allowed, Allowed
    <3> QED BY <3>1 DEF Promise!LifecycleNext
  <2> QED BY <1>2, <2>4, <2>5, <2>6 DEF Successor
<1> QED BY <1>1, <1>2, NextEffect DEF Effects, ItemEffect

\* The runtime implements the lifecycle: for any number of items, executions
\* and crashes, every write of every row creates it queued, refreshes it or
\* moves it along the transition table, one version at a time.
THEOREM RuntimeKeepsLifecycle == Spec => KeepsLifecycle
<1>1. Versions /\ [Next]_vars => [Promise!LifecycleNext]_(Promise!lifecycleVars)
    BY LifecycleSteps
<1> QED BY <1>1, VersionsInitially, VersionsNext, LifecycleInitially, PTL
        DEF Spec, KeepsLifecycle, Promise!Lifecycle
=============================================================================
