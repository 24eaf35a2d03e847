--------------------------- MODULE ExecutionProofs ---------------------------
(***************************************************************************)
(* What holds of the engine's executors for any number of items, retries,    *)
(* cycles and crashes: an executor runs on the row that says so, alone, for  *)
(* an item that was running and whose dependencies have completed.           *)
(*                                                                         *)
(* A paused item stays paused until the owner acts.  The engine takes an     *)
(* item on from where it stands in several transactions; what keeps it from  *)
(* taking on one that was paused in between is the event loop, for what it   *)
(* reads again, and the version compared by save, for what it does not.      *)
(***************************************************************************)
EXTENDS WorkProofs

-----------------------------------------------------------------------------
(* The calls a thread has still to make *)

\* The next step that is marked is the one the thread holds already.
Marks(q) == \E i \in DOMAIN q : q[i].op = "mark" /\ \A j \in 1 .. i : q[j].op # "add"

\* After a restart or an interruption, which set the step number anew, nothing
\* is marked.
Orderly(q) ==
    \A i, j \in DOMAIN q :
        q[i].op \in {"restart", "interrupt"} /\ i < j => q[j].op # "mark"

Interrupts(q) == \E i \in DOMAIN q : q[i].op = "interrupt"

Clean(q) == Orderly(q) /\ ~Marks(q) /\ ~Interrupts(q)

PlainCall == {o \in Call : o.op \notin {"mark", "restart", "interrupt"}}

LateCall == {o \in Call : o.op \notin {"restart", "interrupt"}}

LEMMA PlainIsClean == \A q \in Seq(PlainCall) : Clean(q)
<1> SUFFICES ASSUME NEW q \in Seq(PlainCall) PROVE Clean(q)
    OBVIOUS
<1>1. \A i \in DOMAIN q : q[i].op \notin {"mark", "restart", "interrupt"}
    BY DEF PlainCall
<1> QED BY <1>1 DEF Clean, Orderly, Marks, Interrupts

\* A segment that starts by adding a step marks that one.
LEMMA AddingIsClean ==
    \A q \in Seq(LateCall) : q # <<>> /\ q[1].op = "add" => Clean(q)
<1> SUFFICES ASSUME NEW q \in Seq(LateCall), q # <<>>, q[1].op = "add" PROVE Clean(q)
    OBVIOUS
<1>1. \A i \in DOMAIN q : i \in Nat \ {0} /\ q[i].op \notin {"restart", "interrupt"}
    BY DEF LateCall
<1>2. \A i \in DOMAIN q : 1 \in 1 .. i
    BY <1>1
<1> QED BY <1>1, <1>2 DEF Clean, Orderly, Marks, Interrupts

LEMMA TailCalls ==
    ASSUME NEW q \in Seq(Call), q # <<>>
    PROVE  /\ Marks(Tail(q)) /\ Head(q).op # "add" => Marks(q)
           /\ Head(q).op = "mark" => Marks(q)
           /\ Orderly(q) => Orderly(Tail(q))
           /\ Interrupts(Tail(q)) => Interrupts(q)
           /\ Head(q).op = "interrupt" => Interrupts(q)
           /\ Orderly(q) /\ Head(q).op \in {"restart", "interrupt"} => ~Marks(Tail(q))
<1>1. /\ Head(q) = q[1] /\ 1 \in DOMAIN q
      /\ \A i \in DOMAIN Tail(q) : /\ i \in Nat \ {0} /\ i + 1 \in DOMAIN q
                                   /\ Tail(q)[i] = q[i + 1]
      /\ \A i \in DOMAIN q : i \in Nat \ {0}
    OBVIOUS
<1>2. Marks(Tail(q)) /\ Head(q).op # "add" => Marks(q)
  <2> SUFFICES ASSUME NEW i \in DOMAIN Tail(q), Tail(q)[i].op = "mark",
                      \A j \in 1 .. i : Tail(q)[j].op # "add", Head(q).op # "add"
               PROVE  Marks(q)
      BY DEF Marks
  <2>1. \A j \in 1 .. i : j \in DOMAIN Tail(q)
      OBVIOUS
  <2>2. \A j \in 1 .. (i + 1) : j = 1 \/ (j - 1 \in 1 .. i /\ q[j] = Tail(q)[j - 1])
      BY <1>1, <2>1
  <2>3. \A j \in 1 .. (i + 1) : q[j].op # "add"
      BY <1>1, <2>2
  <2>4. i + 1 \in DOMAIN q /\ q[i + 1].op = "mark"
      BY <1>1
  <2> QED BY <2>3, <2>4 DEF Marks
<1>3. Head(q).op = "mark" => Marks(q)
  <2>1. \A j \in 1 .. 1 : j = 1
      OBVIOUS
  <2> QED BY <1>1, <2>1 DEF Marks
<1>4. Orderly(q) => Orderly(Tail(q))
    BY <1>1 DEF Orderly
<1>5. Interrupts(Tail(q)) => Interrupts(q)
    BY <1>1 DEF Interrupts
<1>6. Head(q).op = "interrupt" => Interrupts(q)
    BY <1>1 DEF Interrupts
<1>7. Orderly(q) /\ Head(q).op \in {"restart", "interrupt"} => ~Marks(Tail(q))
    BY <1>1 DEF Orderly, Marks
<1> QED BY <1>2, <1>3, <1>4, <1>5, <1>6, <1>7

\* The call lists of engine and owner, by the operations they are made of.
LEMMA CallKinds ==
    /\ {Read, Notify, Blocker, Clear, Launch, Bind} \subseteq PlainCall
    /\ \A to \in WorkStates, s \in {"none", "keep", "own"} : Move(to, s) \in PlainCall
    /\ \A s \in {"none", "keep", "own"} : Touch(s) \in PlainCall
    /\ \A k \in StepKinds : Add(k) \in PlainCall /\ Add(k).op = "add"
    /\ \A c \in {"resume", "cancel"} : Send(c) \in PlainCall
    /\ \A st \in StepStates, obs \in Observed : Mark(st, obs) \in LateCall
    /\ PlainCall \subseteq LateCall
    /\ LateCall \subseteq Call
<1>1. PlainCall \subseteq LateCall /\ LateCall \subseteq Call
    BY DEF PlainCall, LateCall
<1>2. \A op, a, b : Op(op, a, b).op = op
    BY DEF Op
<1>3. /\ Read.op = "read" /\ Notify.op = "notify" /\ Blocker.op = "blocker"
      /\ Clear.op = "clear" /\ Launch.op = "submit" /\ Bind.op = "bind"
    BY DEF Op, Read, Notify, Blocker, Clear, Launch, Bind
<1>4. {Read, Notify, Blocker, Clear, Launch, Bind} \subseteq PlainCall
    BY <1>3, CallTypes DEF PlainCall
<1>5. /\ \A to, s : Move(to, s).op = "move"
      /\ \A s : Touch(s).op = "touch"
      /\ \A k : Add(k).op = "add"
      /\ \A c : Send(c).op = "send"
      /\ \A st, obs : Mark(st, obs).op = "mark"
    BY <1>2 DEF Move, Touch, Add, Send, Mark
<1>6. \A to \in WorkStates, s \in {"none", "keep", "own"} : Move(to, s) \in PlainCall
    BY <1>5, CallTypes DEF PlainCall
<1>7. \A s \in {"none", "keep", "own"} : Touch(s) \in PlainCall
    BY <1>5, CallTypes DEF PlainCall
<1>8. \A k \in StepKinds : Add(k) \in PlainCall
    BY <1>5, CallTypes DEF PlainCall
<1>9. \A c \in {"resume", "cancel"} : Send(c) \in PlainCall
    BY <1>5, CallTypes DEF PlainCall
<1>10. \A st \in StepStates, obs \in Observed : Mark(st, obs) \in LateCall
    BY <1>5, CallTypes DEF LateCall
<1> QED BY <1>1, <1>4, <1>5, <1>6, <1>7, <1>8, <1>9, <1>10

-----------------------------------------------------------------------------
(* The inductive invariant *)

\* What Leased leaves to do before the executor is awaited.
Start == <<Move("running", "none"), Add("work"), Mark("running", ""), Touch("own")>>

\* An executor step that runs, or is about to.
OnItsRow(rec) == rec.pc = "exec" /\ rec.todo \in {<<Touch("own")>>, <<>>}

\* The way to an executor: the item is running, then the step is, and only then
\* is the executor awaited.
Shaped(e) ==
    th[e].pc = "exec" =>
        \/ th[e].todo = Start
        \/ /\ th[e].held.state = "running"
           /\ th[e].todo \in {Tail(Start), Tail(Tail(Start))}
        \/ /\ th[e].held.state = "running"
           /\ OnItsRow(th[e])
           /\ steps[e[1]][th[e].sid].st = "running"

\* Thread t will write, or relies on, the step it holds.
Owning(t, rec) == Marks(rec.todo) \/ (t \in Execs /\ OnItsRow(rec))

Owns(t) == Owning(t, th[t])

OwnedRows ==
    \A t \in Threads : Owns(t) => /\ th[t].w \in Works
                                  /\ th[t].sid \in DOMAIN steps[th[t].w]

\* No two threads own one step.
Apart ==
    \A t, u \in Threads :
        Owns(t) /\ Owns(u) /\ th[t].w = th[u].w /\ t # u => th[t].sid # th[u].sid

InLease == {"exec", "done", "settle", "asking"}

LeaseHeld == \A e \in Execs : th[e].pc \in InLease => e \in lease

\* No execution runs while the process is down or starting, and steps are
\* declared interrupted at no other time.
Asleep == up # "up" => \A e \in Execs : th[e].pc = "idle" /\ th[e].todo = <<>>

Waking ==
    \A t \in Threads : Interrupts(th[t].todo) => t = Main /\ up = "starting"

Execution ==
    /\ Versions
    /\ \A t \in Threads : Orderly(th[t].todo)
    /\ \A e \in Execs : Shaped(e)
    /\ OwnedRows /\ Apart /\ LeaseHeld /\ Asleep /\ Waking

-----------------------------------------------------------------------------
(* One thread moves *)

\* Nothing of another thread changes, nor the unit another holds.
OthersKeep(t) ==
    \A u \in Threads \ {t} : th'[u] = th[u] /\ (u \in lease => u \in lease')

LEMMA RunMoves ==
    ASSUME TypeOK, NEW t \in Threads, NEW rec, Run(t, rec)
    PROVE  /\ OthersKeep(t)
           /\ th'[t] = rec \/ (t = Main /\ th'[t] = Idle(Owner))
           /\ t \in lease /\ rec.pc \in InLease => t \in lease'
<1> DEFINE new == IF t = Main /\ Returned(rec) /\ rec.pc # "raise" THEN Idle(Owner) ELSE rec
<1>1. th' = [th EXCEPT ![t] = new]
    BY DEF Run
<1>2. new = rec \/ (t = Main /\ new = Idle(Owner))
    OBVIOUS
<1> HIDE DEF new
<1>3. th'[t] = new /\ \A u \in Threads \ {t} : th'[u] = th[u]
    BY <1>1 DEF TypeOK, ThreadsOK
<1>4. lease' = lease \/ (Returned(rec) /\ lease' = lease \ {t})
    BY DEF Run
<1>5. rec.pc \in InLease => ~Returned(rec)
    BY DEF InLease, Returned
<1> QED BY <1>2, <1>3, <1>4, <1>5 DEF OthersKeep

LEMMA SegmentMoves ==
    ASSUME TypeOK, NEW t \in Threads, NEW held, NEW pc, NEW calls,
           Segment(t, held, pc, calls)
    PROVE  /\ OthersKeep(t)
           /\ \/ /\ th'[t].pc = pc /\ th'[t].todo = calls /\ th'[t].held = held
                 /\ th'[t].sid = th[t].sid /\ th'[t].w = th[t].w
              \/ t = Main /\ th'[t] = Idle(Owner)
           /\ t \in lease /\ pc \in InLease => t \in lease'
<1> DEFINE rec == [th[t] EXCEPT !.pc = pc, !.held = held, !.todo = calls]
<1>1. /\ rec.pc = pc /\ rec.todo = calls /\ rec.held = held
      /\ rec.sid = th[t].sid /\ rec.w = th[t].w
    BY DEF TypeOK, ThreadsOK, Thread
<1>2. Run(t, rec)
    BY DEF Segment
<1> HIDE DEF rec
<1> QED BY <1>1, <1>2, RunMoves

LEMMA RaiseMoves ==
    ASSUME TypeOK, NEW t \in Threads, Raise(t)
    PROVE  /\ OthersKeep(t)
           /\ th'[t].todo = <<>> /\ th'[t].pc \in {"idle", "raise"}
<1> DEFINE rec == [th[t] EXCEPT !.todo = <<>>,
                                !.pc = IF t = Main /\ @ # "boot" THEN "idle" ELSE "raise"]
<1>1. rec.todo = <<>> /\ rec.pc \in {"idle", "raise"}
    BY DEF TypeOK, ThreadsOK, Thread
<1>2. Run(t, rec)
    BY DEF Raise
<1>3. Idle(Owner).todo = <<>> /\ Idle(Owner).pc = "idle"
    BY DEF Idle
<1> HIDE DEF rec
<1> QED BY <1>1, <1>2, <1>3, RunMoves

\* Making a call shortens the list and keeps the program.
LEMMA DidMoves ==
    ASSUME TypeOK, NEW t \in Threads, NEW me \in Thread,
           me.todo = th[t].todo, me.w = th[t].w, me.pc = th[t].pc, Did(t, me)
    PROVE  /\ OthersKeep(t)
           /\ \/ /\ th'[t].pc = th[t].pc /\ th'[t].todo = Tail(th[t].todo)
                 /\ th'[t].w = th[t].w /\ th'[t].sid = me.sid /\ th'[t].held = me.held
              \/ t = Main /\ th'[t] = Idle(Owner)
           /\ t \in lease /\ th[t].pc \in InLease => t \in lease'
<1> DEFINE rec == [me EXCEPT !.todo = Tail(me.todo)]
<1>1. /\ rec.pc = th[t].pc /\ rec.todo = Tail(th[t].todo) /\ rec.w = th[t].w
      /\ rec.sid = me.sid /\ rec.held = me.held
    BY DEF Thread
<1>2. Run(t, rec)
    BY DEF Did, Thread
<1> HIDE DEF rec
<1> QED BY <1>1, <1>2, RunMoves

-----------------------------------------------------------------------------
(* A step of one thread keeps the invariant *)

\* Steps are only added, or marked by the thread that owns them.
RowsGrow(t) ==
    \A w \in Works : \A i \in DOMAIN steps[w] :
        /\ i \in DOMAIN steps'[w]
        /\ \/ steps'[w][i] = steps[w][i]
           \/ Owns(t) /\ w = th[t].w /\ i = th[t].sid

\* Thread t owns no step but the one it owned, or one it has just added.
OwnsLittle(t) ==
    Owns(t)' => \/ Owns(t) /\ th'[t].w = th[t].w /\ th'[t].sid = th[t].sid
                \/ /\ th'[t].w \in Works
                   /\ th'[t].sid \in DOMAIN steps'[th'[t].w] \ DOMAIN steps[th'[t].w]

LEMMA ThreadStep ==
    ASSUME Execution, Versions', NEW t \in Threads, OthersKeep(t), up' = up,
           t \in Execs => up = "up",
           RowsGrow(t), OwnsLittle(t),
           Orderly(th'[t].todo),
           Interrupts(th'[t].todo) => t = Main /\ up = "starting",
           t \in Execs => Shaped(t)' /\ (th'[t].pc \in InLease => t \in lease')
    PROVE  Execution'
<1>1. \A u \in Threads \ {t} : th'[u] = th[u] /\ Owns(u)' = Owns(u)
    BY DEF OthersKeep, Owns
<1>2. ASSUME NEW u \in Threads \ {t}, Owns(u)
      PROVE  /\ th[u].w \in Works /\ th[u].sid \in DOMAIN steps[th[u].w]
             /\ th[u].sid \in DOMAIN steps'[th[u].w]
             /\ steps'[th[u].w][th[u].sid] = steps[th[u].w][th[u].sid]
  <2>1. th[u].w \in Works /\ th[u].sid \in DOMAIN steps[th[u].w]
      BY <1>2 DEF Execution, OwnedRows
  <2>2. Owns(t) /\ th[u].w = th[t].w => th[u].sid # th[t].sid
      BY <1>2 DEF Execution, Apart
  <2> QED BY <2>1, <2>2 DEF RowsGrow
<1>3. OwnedRows'
  <2> SUFFICES ASSUME NEW u \in Threads, Owns(u)'
               PROVE  th'[u].w \in Works /\ th'[u].sid \in DOMAIN steps'[th'[u].w]
      BY DEF OwnedRows
  <2>1. CASE u = t
      BY <2>1 DEF OwnsLittle, RowsGrow, Execution, OwnedRows
  <2>2. CASE u # t
      BY <2>2, <1>1, <1>2
  <2> QED BY <2>1, <2>2
<1>4. Apart'
  <2>1. ASSUME NEW u \in Threads \ {t}, Owns(u)', Owns(t)', th'[t].w = th'[u].w
        PROVE  th'[t].sid # th'[u].sid
    <3>1. th'[u] = th[u] /\ Owns(u)
        BY <2>1, <1>1
    <3>2. CASE Owns(t) /\ th'[t].w = th[t].w /\ th'[t].sid = th[t].sid
        BY <2>1, <3>1, <3>2 DEF Execution, Apart
    <3>3. CASE th'[t].sid \notin DOMAIN steps[th'[t].w]
        BY <2>1, <3>1, <3>3, <1>2
    <3> QED BY <2>1, <3>2, <3>3 DEF OwnsLittle
  <2>2. ASSUME NEW u \in Threads \ {t}, NEW v \in Threads \ {t}, u # v,
               Owns(u)', Owns(v)', th'[u].w = th'[v].w
        PROVE  th'[u].sid # th'[v].sid
      BY <2>2, <1>1 DEF Execution, Apart
  <2> QED BY <2>1, <2>2 DEF Apart
<1>5. \A e \in Execs : Shaped(e)'
  <2> SUFFICES ASSUME NEW e \in Execs, e # t PROVE Shaped(e)'
      OBVIOUS
  <2>1. e \in Threads /\ th'[e] = th[e] /\ th[e].w = e[1]
      BY <1>1, ExecOK DEF Execution, Versions
  <2>2. OnItsRow(th[e]) => steps'[e[1]][th[e].sid] = steps[e[1]][th[e].sid]
      BY <2>1, <1>2 DEF Owns, Owning
  <2>3. Shaped(e)
      BY DEF Execution
  <2> QED BY <2>1, <2>2, <2>3 DEF Shaped
<1>6. LeaseHeld'
  <2> SUFFICES ASSUME NEW e \in Execs, e # t, th'[e].pc \in InLease PROVE e \in lease'
      BY DEF LeaseHeld
  <2> QED BY <1>1, ThreadFacts DEF Execution, LeaseHeld, OthersKeep
<1>7. Asleep'
    BY <1>1, ThreadFacts DEF Execution, Asleep
<1>8. Waking' /\ \A u \in Threads : Orderly(th'[u].todo)
    BY <1>1 DEF Execution, Waking
<1> QED BY <1>3, <1>4, <1>5, <1>6, <1>7, <1>8 DEF Execution

-----------------------------------------------------------------------------
(* Store calls *)

LEMMA Peel ==
    ASSUME NEW S, NEW a \in S, NEW b \in S, NEW c \in S, NEW d \in S
    PROVE  /\ Tail(<<a>>) = <<>> /\ Tail(<<a, b>>) = <<b>>
           /\ Tail(<<a, b, c>>) = <<b, c>> /\ Tail(<<a, b, c, d>>) = <<b, c, d>>
           /\ Head(<<a>>) = a /\ Head(<<a, b>>) = a
           /\ Head(<<a, b, c>>) = a /\ Head(<<a, b, c, d>>) = a
           /\ <<a>> # <<>> /\ <<a, b>> # <<>> /\ <<a, b, c>> # <<>>
           /\ <<a, b, c, d>> # <<>>
OBVIOUS

\* While the executor is prepared, each call is the head of what Start leaves.
LEMMA StartCalls ==
    /\ Start # <<>> /\ Head(Start) = Move("running", "none")
    /\ Move("running", "none").op = "move" /\ Move("running", "none").a = "running"
    /\ Tail(Start) # <<>> /\ Head(Tail(Start)).op = "add"
    /\ Tail(Tail(Start)) # <<>> /\ Head(Tail(Tail(Start))) = Mark("running", "")
    /\ Mark("running", "").op = "mark" /\ Mark("running", "").a = "running"
    /\ Tail(Tail(Tail(Start))) = <<Touch("own")>>
    /\ <<Touch("own")>> # <<>> /\ Head(<<Touch("own")>>).op = "touch"
    /\ Tail(<<Touch("own")>>) = <<>>
<1>1. /\ Move("running", "none").op = "move" /\ Move("running", "none").a = "running"
      /\ Add("work").op = "add"
      /\ Mark("running", "").op = "mark" /\ Mark("running", "").a = "running"
      /\ Touch("own").op = "touch"
    BY DEF Op, Move, Add, Mark, Touch
<1> DEFINE m == Move("running", "none")
           a == Add("work")
           k == Mark("running", "")
           u == Touch("own")
<1>2. m \in Call /\ a \in Call /\ k \in Call /\ u \in Call
    BY CallTypes DEF WorkStates, StepKinds, StepStates, Observed
<1>3. Start = <<m, a, k, u>>
    BY DEF Start
<1> HIDE DEF m, a, k, u
<1>4. /\ Start # <<>> /\ Head(Start) = m /\ Tail(Start) = <<a, k, u>>
      /\ <<a, k, u>> # <<>> /\ Head(<<a, k, u>>) = a /\ Tail(<<a, k, u>>) = <<k, u>>
      /\ <<k, u>> # <<>> /\ Head(<<k, u>>) = k /\ Tail(<<k, u>>) = <<u>>
      /\ <<u>> # <<>> /\ Head(<<u>>) = u /\ Tail(<<u>>) = <<>>
    BY <1>2, <1>3, Peel
<1> QED BY <1>1, <1>4 DEF m, a, k, u

\* A call that neither saves, adds, marks nor numbers a step is none of these.
LEMMA ExecutorCalls ==
    ASSUME NEW e \in Execs, Shaped(e), th[e].pc = "exec", th[e].todo # <<>>
    PROVE  Head(th[e].todo).op \in {"move", "add", "mark", "touch"}
BY StartCalls, Zenon DEF Shaped, OnItsRow

LEMMA CallBasics ==
    ASSUME Execution, NEW t \in Threads, StoreCall(t)
    PROVE  /\ TypeOK /\ th[t].todo \in Seq(Call) /\ th[t].todo # <<>>
           /\ th[t] \in Thread /\ th[t].w \in Works
           /\ up' = up /\ (t \in Execs => up = "up" /\ th[t].w = t[1])
<1>1. th[t].todo # <<>>
    BY DEF StoreCall, DoRead, DoSave, RejectSave, DoAdd, DoMark, DoInterrupt, DoNotify,
           DoBlocker, DoClear, DoSend, DoSubmit, DoRestart, DoBind, Calls
<1>2. up' = up
    BY DEF StoreCall, DoRead, DoSave, RejectSave, DoAdd, DoMark, DoInterrupt, DoNotify,
           DoBlocker, DoClear, DoSend, DoSubmit, DoRestart, DoBind, env
<1>3. TypeOK
    BY DEF Execution, Versions
<1>4. th[t] \in Thread /\ th[t].w \in Works
    BY <1>1, <1>3, CallFacts DEF TypeOK
<1>5. t \in Execs => up = "up" /\ th[t].w = t[1]
    BY <1>1, <1>3, ExecOK DEF Execution, Asleep
<1> QED BY <1>1, <1>2, <1>3, <1>4, <1>5 DEF Thread

\* A call that reads, sends or notifies.
LEMMA QuietCall ==
    ASSUME Execution, Versions', NEW t \in Threads, StoreCall(t),
           NEW me \in Thread, me.todo = th[t].todo, me.w = th[t].w, me.pc = th[t].pc,
           Did(t, me), steps' = steps,
           Head(th[t].todo).op \notin {"move", "add", "mark", "touch"},
           me.sid = th[t].sid \/ Head(th[t].todo).op = "restart"
    PROVE  Execution'
<1> DEFINE q == th[t].todo
<1>1. /\ TypeOK /\ q \in Seq(Call) /\ q # <<>> /\ up' = up
      /\ t \in Execs => up = "up"
    BY CallBasics
<1>2. OthersKeep(t)
    BY <1>1, DidMoves
<1>3. t \in Execs => th[t].pc # "exec"
    BY <1>1, ExecutorCalls DEF Execution
<1>4. CASE /\ th'[t].pc = th[t].pc /\ th'[t].todo = Tail(q)
           /\ th'[t].w = th[t].w /\ th'[t].sid = me.sid
  <2>1. Orderly(th'[t].todo) /\ (Interrupts(th'[t].todo) => t = Main /\ up = "starting")
      BY <1>1, <1>4, TailCalls DEF Execution, Waking
  <2>2. Owns(t)' => Marks(Tail(q))
      BY <1>3, <1>4 DEF Owns, Owning, OnItsRow
  <2>3. Marks(Tail(q)) => Owns(t) /\ me.sid = th[t].sid
      BY <1>1, TailCalls DEF Owns, Owning, Execution
  <2>4. OwnsLittle(t)
      BY <1>4, <2>2, <2>3 DEF OwnsLittle
  <2>5. RowsGrow(t)
      BY DEF RowsGrow
  <2>6. t \in Execs => Shaped(t)'
      BY <1>3, <1>4 DEF Shaped
  <2>7. t \in Execs /\ th'[t].pc \in InLease => t \in lease'
      BY <1>1, <1>4, DidMoves DEF Execution, LeaseHeld
  <2> QED BY <1>1, <1>2, <2>1, <2>4, <2>5, <2>6, <2>7, ThreadStep
<1>5. CASE t = Main /\ th'[t] = Idle(Owner)
  <2>1. th'[t].todo = <<>> /\ t \notin Execs
      BY <1>5, ThreadFacts DEF Idle
  <2>2. Orderly(th'[t].todo) /\ ~Interrupts(th'[t].todo) /\ ~Owns(t)'
      BY <2>1 DEF Orderly, Interrupts, Owns, Owning, Marks
  <2> QED BY <1>1, <1>2, <2>1, <2>2, ThreadStep DEF OwnsLittle, RowsGrow
<1> QED BY <1>1, <1>4, <1>5, DidMoves

LEMMA SaveStepRows ==
    ASSUME steps \in [Works -> Seq(StepRow)], NEW w \in Works, NEW i \in DOMAIN steps[w],
           NEW st, NEW obs, SaveStep(w, i, st, obs)
    PROVE  /\ \A v \in Works : DOMAIN steps'[v] = DOMAIN steps[v]
           /\ steps'[w][i].st = st /\ steps'[w][i].obs = obs
           /\ \A v \in Works : \A j \in DOMAIN steps[v] :
                 v # w \/ j # i => steps'[v][j] = steps[v][j]
<1> DEFINE s   == steps[w]
           row == [s[i] EXCEPT !.st = st, !.obs = obs]
           new == [s EXCEPT ![i] = row]
<1>1. steps' = [steps EXCEPT ![w] = new]
    BY DEF SaveStep
<1>2. s \in Seq(StepRow) /\ i \in DOMAIN s /\ s[i] \in StepRow
    OBVIOUS
<1>3. row.st = st /\ row.obs = obs
    BY <1>2 DEF StepRow
<1> HIDE DEF row
<1>4. DOMAIN new = DOMAIN s /\ new[i] = row /\ \A j \in DOMAIN s \ {i} : new[j] = s[j]
    BY <1>2
<1> HIDE DEF new
<1>5. steps'[w] = new /\ \A v \in Works \ {w} : steps'[v] = steps[v]
    BY <1>1
<1> QED BY <1>3, <1>4, <1>5

LEMMA AddStepRows ==
    ASSUME steps \in [Works -> Seq(StepRow)], NEW w \in Works, NEW row, AddStep(w, row)
    PROVE  /\ Len(steps[w]) + 1 \in DOMAIN steps'[w] \ DOMAIN steps[w]
           /\ \A v \in Works : \A j \in DOMAIN steps[v] :
                 j \in DOMAIN steps'[v] /\ steps'[v][j] = steps[v][j]
<1> DEFINE s == steps[w]
           new == Append(s, row)
<1>1. steps' = [steps EXCEPT ![w] = new]
    BY DEF AddStep
<1>2. s \in Seq(StepRow)
    OBVIOUS
<1>3. /\ DOMAIN s = 1 .. Len(s) /\ DOMAIN new = 1 .. (Len(s) + 1) /\ Len(s) \in Nat
      /\ \A j \in 1 .. Len(s) : new[j] = s[j]
    BY <1>2
<1> HIDE DEF new
<1>4. steps'[w] = new /\ \A v \in Works \ {w} : steps'[v] = steps[v]
    BY <1>1
<1> QED BY <1>3, <1>4

\* A thread outside the lease, with calls that add before they mark, owns nothing.
LEMMA StopsShort ==
    ASSUME Execution, Versions', NEW t \in Threads, OthersKeep(t), up' = up,
           t \in Execs => up = "up", RowsGrow(t),
           Clean(th'[t].todo), t \in Execs => th'[t].pc \notin InLease
    PROVE  Execution'
<1>1. ~Owns(t)'
    BY DEF Owns, Owning, OnItsRow, Clean, InLease
<1>2. OwnsLittle(t)
    BY <1>1 DEF OwnsLittle
<1>3. t \in Execs => Shaped(t)'
    BY DEF Shaped, InLease
<1> QED BY <1>2, <1>3, ThreadStep DEF Clean

\* No call at all is clean.
LEMMA NothingIsClean == Clean(<<>>)
BY DEF Clean, Orderly, Marks, Interrupts

\* A save that passes: the row was running, or becomes so, before the executor
\* is prepared any further.
LEMMA SavedCall ==
    ASSUME Execution, Versions', NEW t \in Threads, StoreCall(t), DoSave(t)
    PROVE  Execution'
<1> DEFINE q   == th[t].todo
           o   == Head(th[t].todo)
           new == NewRecord(th[t], Head(th[t].todo))
           me  == [th[t] EXCEPT !.held = new]
<1>1. /\ TypeOK /\ q \in Seq(Call) /\ q # <<>> /\ up' = up /\ th[t] \in Thread
      /\ t \in Execs => up = "up" /\ th[t].w = t[1]
    BY CallBasics
<1>2. o.op \in {"move", "touch"} /\ Did(t, me) /\ steps' = steps
    BY DEF DoSave, Calls
<1>3. new \in Item
    BY <1>1, <1>2, CallFacts, NewRecordOK DEF DoSave, TypeOK
<1>4. /\ me \in Thread /\ me.todo = q /\ me.w = th[t].w /\ me.pc = th[t].pc
      /\ me.sid = th[t].sid /\ me.held = new
    BY <1>1, <1>3 DEF Thread
<1> HIDE DEF me
<1>5. OthersKeep(t)
    BY <1>1, <1>2, <1>4, DidMoves
<1>6. CASE t = Main /\ th'[t] = Idle(Owner)
  <2>1. th'[t].todo = <<>> /\ t \notin Execs
      BY <1>6, ThreadFacts DEF Idle
  <2> QED BY <1>1, <1>2, <1>5, <2>1, NothingIsClean, StopsShort DEF RowsGrow
<1>7. CASE /\ th'[t].pc = th[t].pc /\ th'[t].todo = Tail(q) /\ th'[t].w = th[t].w
           /\ th'[t].sid = th[t].sid /\ th'[t].held = new
  <2>1. Orderly(th'[t].todo) /\ (Interrupts(th'[t].todo) => t = Main /\ up = "starting")
      BY <1>1, <1>7, TailCalls DEF Execution, Waking
  <2>2. ASSUME t \in Execs, th[t].pc = "exec"
        PROVE  Shaped(t)' /\ (OnItsRow(th'[t]) => Owns(t))
    <3>1. CASE q = Start
      <4>1. o.op = "move" /\ o.a = "running"
          BY <3>1, StartCalls
      <4>2. new.state = "running"
          BY <4>1 DEF NewRecord, Transition
      <4> QED BY <1>7, <2>2, <3>1, <4>2, StartCalls DEF Shaped, OnItsRow
    <3>2. CASE /\ q = <<Touch("own")>> /\ th[t].held.state = "running"
               /\ steps[t[1]][th[t].sid].st = "running"
      <4>1. o.op = "touch" /\ Tail(q) = <<>>
          BY <3>2, StartCalls
      <4>2. new.state = th[t].held.state
          BY <1>1, <4>1 DEF NewRecord, WithProgress, Thread, Item
      <4> QED BY <1>2, <1>7, <2>2, <3>2, <4>1, <4>2 DEF Shaped, OnItsRow, Owns, Owning
    <3>3. q \notin {Tail(Start), Tail(Tail(Start))}
        BY <1>2, StartCalls, Zenon
    <3> QED BY <1>1, <2>2, <3>1, <3>2, <3>3 DEF Execution, Shaped, OnItsRow
  <2>3. Owns(t)' => Owns(t)
    <3>1. Marks(Tail(q)) => Marks(q)
        BY <1>1, <1>2, TailCalls
    <3> QED BY <1>7, <2>2, <3>1 DEF Owns, Owning, OnItsRow
  <2>4. OwnsLittle(t) /\ RowsGrow(t)
      BY <1>2, <1>7, <2>3 DEF OwnsLittle, RowsGrow
  <2>5. t \in Execs => Shaped(t)'
      BY <1>7, <2>2 DEF Shaped
  <2>6. t \in Execs /\ th'[t].pc \in InLease => t \in lease'
      BY <1>1, <1>2, <1>4, <1>7, DidMoves DEF Execution, LeaseHeld
  <2> QED BY <1>1, <1>5, <2>1, <2>4, <2>5, <2>6, ThreadStep
<1> QED BY <1>1, <1>2, <1>4, <1>6, <1>7, DidMoves

LEMMA RejectedCall ==
    ASSUME Execution, Versions', NEW t \in Threads, StoreCall(t), RejectSave(t)
    PROVE  Execution'
<1>1. /\ TypeOK /\ up' = up /\ th[t] \in Thread
      /\ t \in Execs => up = "up"
    BY CallBasics
<1>2. steps' = steps
    BY DEF RejectSave, storeVars
<1>3. OthersKeep(t) /\ th'[t].todo = <<>> /\ th'[t].pc \notin InLease
  <2>1. CASE Raise(t)
      BY <1>1, <2>1, RaiseMoves DEF InLease
  <2>2. CASE Run(t, [th[t] EXCEPT !.todo = <<>>, !.pc = "cancel"])
    <3> DEFINE rec == [th[t] EXCEPT !.todo = <<>>, !.pc = "cancel"]
    <3>1. rec.todo = <<>> /\ rec.pc = "cancel"
        BY <1>1 DEF Thread
    <3>2. Run(t, rec)
        BY <2>2
    <3>3. Idle(Owner).todo = <<>> /\ Idle(Owner).pc = "idle"
        BY DEF Idle
    <3> HIDE DEF rec
    <3> QED BY <1>1, <3>1, <3>2, <3>3, RunMoves DEF InLease
  <2> QED BY <2>1, <2>2 DEF RejectSave
<1> QED BY <1>1, <1>2, <1>3, NothingIsClean, StopsShort DEF RowsGrow

LEMMA AddedCall ==
    ASSUME Execution, Versions', NEW t \in Threads, StoreCall(t), DoAdd(t)
    PROVE  Execution'
<1> DEFINE q   == th[t].todo
           n   == Len(steps[th[t].w]) + 1
           me  == [th[t] EXCEPT !.sid = n]
<1>1. /\ TypeOK /\ q \in Seq(Call) /\ q # <<>> /\ up' = up /\ th[t] \in Thread
      /\ th[t].w \in Works
      /\ t \in Execs => up = "up" /\ th[t].w = t[1]
    BY CallBasics
<1>2. PICK row : AddStep(th[t].w, row)
    BY DEF DoAdd
<1>3. Head(q).op = "add" /\ Did(t, me)
    BY DEF DoAdd, Calls
<1>4. /\ n \in DOMAIN steps'[th[t].w] \ DOMAIN steps[th[t].w]
      /\ RowsGrow(t) /\ n \in Nat
  <2>1. steps \in [Works -> Seq(StepRow)]
      BY <1>1 DEF TypeOK, StoreOK
  <2> QED BY <1>1, <1>2, <2>1, AddStepRows DEF RowsGrow
<1>5. /\ me \in Thread /\ me.todo = q /\ me.w = th[t].w /\ me.pc = th[t].pc
      /\ me.sid = n /\ me.held = th[t].held
    BY <1>1, <1>4 DEF Thread
<1> HIDE DEF me, n
<1>6. OthersKeep(t)
    BY <1>1, <1>3, <1>5, DidMoves
<1>7. CASE t = Main /\ th'[t] = Idle(Owner)
  <2>1. th'[t].todo = <<>> /\ t \notin Execs
      BY <1>7, ThreadFacts DEF Idle
  <2>2. Orderly(th'[t].todo) /\ ~Interrupts(th'[t].todo) /\ ~Owns(t)'
      BY <2>1 DEF Orderly, Interrupts, Owns, Owning, Marks
  <2> QED BY <1>1, <1>4, <1>6, <2>1, <2>2, ThreadStep DEF OwnsLittle
<1>8. CASE /\ th'[t].pc = th[t].pc /\ th'[t].todo = Tail(q) /\ th'[t].w = th[t].w
           /\ th'[t].sid = n /\ th'[t].held = th[t].held
  <2>1. Orderly(th'[t].todo) /\ (Interrupts(th'[t].todo) => t = Main /\ up = "starting")
      BY <1>1, <1>8, TailCalls DEF Execution, Waking
  <2>2. OwnsLittle(t)
      BY <1>1, <1>4, <1>8 DEF OwnsLittle
  <2>3. ASSUME t \in Execs, th[t].pc = "exec"
        PROVE  q = Tail(Start) /\ th[t].held.state = "running"
    <3>1. q # Start /\ q # Tail(Tail(Start)) /\ q # <<Touch("own")>>
        BY <1>3, StartCalls, Zenon
    <3> QED BY <1>1, <2>3, <3>1 DEF Execution, Shaped, OnItsRow
  <2>4. t \in Execs => Shaped(t)'
      BY <1>8, <2>3 DEF Shaped
  <2>5. t \in Execs /\ th'[t].pc \in InLease => t \in lease'
      BY <1>1, <1>3, <1>5, <1>8, DidMoves DEF Execution, LeaseHeld
  <2> QED BY <1>1, <1>4, <1>6, <2>1, <2>2, <2>4, <2>5, ThreadStep
<1> QED BY <1>1, <1>3, <1>5, <1>7, <1>8, DidMoves

\* The step that is marked is the thread's own: no other relies on it.
LEMMA MarkedCall ==
    ASSUME Execution, Versions', NEW t \in Threads, StoreCall(t), DoMark(t)
    PROVE  Execution'
<1> DEFINE q   == th[t].todo
           o   == Head(th[t].todo)
           me  == th[t]
<1>1. /\ TypeOK /\ q \in Seq(Call) /\ q # <<>> /\ up' = up /\ me \in Thread
      /\ th[t].w \in Works
      /\ t \in Execs => up = "up" /\ th[t].w = t[1]
    BY CallBasics
<1>2. o.op = "mark" /\ Did(t, me) /\ SaveStep(me.w, me.sid, o.a, o.b)
    BY DEF DoMark, Calls
<1>3. Owns(t)
    BY <1>1, <1>2, TailCalls DEF Owns, Owning
<1>4. me.sid \in DOMAIN steps[me.w]
    BY <1>3 DEF Execution, OwnedRows
<1>5. RowsGrow(t) /\ steps'[me.w][me.sid].st = o.a
  <2>1. steps \in [Works -> Seq(StepRow)]
      BY <1>1 DEF TypeOK, StoreOK
  <2> QED BY <1>1, <1>2, <1>3, <1>4, <2>1, SaveStepRows DEF RowsGrow
<1>6. OthersKeep(t)
    BY <1>1, <1>2, DidMoves
<1>7. CASE t = Main /\ th'[t] = Idle(Owner)
  <2>1. th'[t].todo = <<>> /\ t \notin Execs
      BY <1>7, ThreadFacts DEF Idle
  <2>2. Orderly(th'[t].todo) /\ ~Interrupts(th'[t].todo) /\ ~Owns(t)'
      BY <2>1 DEF Orderly, Interrupts, Owns, Owning, Marks
  <2> QED BY <1>1, <1>5, <1>6, <2>1, <2>2, ThreadStep DEF OwnsLittle
<1>8. CASE /\ th'[t].pc = me.pc /\ th'[t].todo = Tail(q) /\ th'[t].w = me.w
           /\ th'[t].sid = me.sid /\ th'[t].held = me.held
  <2>1. Orderly(th'[t].todo) /\ (Interrupts(th'[t].todo) => t = Main /\ up = "starting")
      BY <1>1, <1>8, TailCalls DEF Execution, Waking
  <2>2. OwnsLittle(t)
      BY <1>3, <1>8 DEF OwnsLittle
  <2>3. ASSUME t \in Execs, me.pc = "exec"
        PROVE  q = Tail(Tail(Start)) /\ me.held.state = "running"
    <3>1. q # Start /\ q # Tail(Start) /\ q # <<Touch("own")>>
        BY <1>2, StartCalls, Zenon
    <3> QED BY <1>1, <2>3, <3>1 DEF Execution, Shaped, OnItsRow
  <2>4. t \in Execs => Shaped(t)'
      BY <1>1, <1>5, <1>8, <2>3, StartCalls DEF Shaped, OnItsRow
  <2>5. t \in Execs /\ th'[t].pc \in InLease => t \in lease'
      BY <1>1, <1>2, <1>8, DidMoves DEF Execution, LeaseHeld
  <2> QED BY <1>1, <1>5, <1>6, <2>1, <2>2, <2>4, <2>5, ThreadStep
<1> QED BY <1>1, <1>2, <1>7, <1>8, DidMoves

\* Steps are declared interrupted while nothing runs that could own them.
LEMMA InterruptedCall ==
    ASSUME Execution, Versions', NEW t \in Threads, StoreCall(t), DoInterrupt(t)
    PROVE  Execution'
<1> DEFINE q == th[t].todo
<1>1. /\ TypeOK /\ q \in Seq(Call) /\ q # <<>> /\ up' = up /\ th[t] \in Thread
      /\ th[t].w \in Works
    BY CallBasics
<1>2. PICK i \in RunningSteps(th[t].w) :
          SaveStep(th[t].w, i, "interrupted", "") /\ Did(t, [th[t] EXCEPT !.sid = i])
    BY DEF DoInterrupt
<1> DEFINE me == [th[t] EXCEPT !.sid = i]
<1>3. Head(q).op = "interrupt"
    BY DEF DoInterrupt, Calls
<1>4. t = Main /\ t \notin Execs /\ up = "starting"
    BY <1>1, <1>3, TailCalls, ThreadFacts DEF Execution, Waking
<1>5. \A e \in Execs : th[e].pc = "idle" /\ th[e].todo = <<>>
    BY <1>4 DEF Execution, Asleep
<1>6. i \in DOMAIN steps[th[t].w] /\ i \in Nat
  <2>1. steps[th[t].w] \in Seq(StepRow)
      BY <1>1 DEF TypeOK, StoreOK
  <2> QED BY <2>1 DEF RunningSteps
<1>7. me \in Thread /\ me.todo = q /\ me.w = th[t].w /\ me.pc = th[t].pc
    BY <1>1, <1>6 DEF Thread
<1>8. Did(t, me)
    BY <1>2
<1> HIDE DEF me
<1>9. OthersKeep(t)
    BY <1>1, <1>7, <1>8, DidMoves
<1>10. th'[t].todo \in {Tail(q), <<>>}
  <2>1. Idle(Owner).todo = <<>>
      BY DEF Idle
  <2>2. th'[t].todo = Tail(q) \/ th'[t] = Idle(Owner)
      BY <1>1, <1>7, <1>8, DidMoves
  <2> QED BY <2>1, <2>2
<1>11. ~Marks(<<>>) /\ Orderly(<<>>) /\ ~Interrupts(<<>>)
    BY DEF Marks, Orderly, Interrupts
<1>12. Orderly(th'[t].todo) /\ ~Marks(th'[t].todo)
    BY <1>1, <1>3, <1>10, <1>11, TailCalls DEF Execution
<1>13. \A u \in Threads : ~Owns(u)'
  <2> SUFFICES ASSUME NEW u \in Threads PROVE ~Owns(u)'
      OBVIOUS
  <2>1. CASE u = t
      BY <1>4, <1>12, <2>1 DEF Owns, Owning
  <2>2. CASE u # t
    <3>1. u \in Execs /\ th'[u].pc = "idle" /\ th'[u].todo = <<>>
        BY <1>4, <1>5, <1>9, <2>2, ThreadFacts DEF OthersKeep
    <3> QED BY <1>11, <3>1 DEF Owns, Owning, OnItsRow
  <2> QED BY <2>1, <2>2
<1>14. \A e \in Execs : th'[e].pc = "idle" /\ th'[e].todo = <<>>
    BY <1>4, <1>5, <1>9, ThreadFacts DEF OthersKeep
<1>15. \A u \in Threads : Orderly(th'[u].todo)
    BY <1>9, <1>12 DEF Execution, OthersKeep
<1>16. Waking' /\ Asleep'
  <2>1. \A u \in Threads : Interrupts(th'[u].todo) => u = Main
      BY <1>11, <1>14, ThreadFacts
  <2> QED BY <1>1, <1>4, <1>14, <2>1 DEF Waking, Asleep
<1>17. OwnedRows' /\ Apart' /\ LeaseHeld' /\ \A e \in Execs : Shaped(e)'
    BY <1>13, <1>14 DEF OwnedRows, Apart, LeaseHeld, Shaped, InLease
<1> QED BY <1>15, <1>16, <1>17 DEF Execution

LEMMA StoreCallKeeps ==
    ASSUME Execution, Versions', NEW t \in Threads, StoreCall(t)
    PROVE  Execution'
<1> DEFINE me == th[t]
<1>1. TypeOK /\ me \in Thread /\ me.w \in Works /\ item[me.w] \in Item
    BY CallBasics DEF TypeOK, StoreOK
<1>2. CASE DoRead(t)
  <2> DEFINE new == [me EXCEPT !.held = item[me.w]]
  <2>1. /\ new \in Thread /\ new.todo = me.todo /\ new.w = me.w /\ new.pc = me.pc
        /\ new.sid = me.sid
      BY <1>1 DEF Thread
  <2>2. Did(t, new) /\ steps' = steps /\ Head(me.todo).op = "read"
      BY <1>2 DEF DoRead, Calls, storeVars
  <2> HIDE DEF new
  <2> QED BY <2>1, <2>2, QuietCall
<1>3. CASE DoRestart(t)
  <2>1. PICK n \in 1 .. MaxRetries : Did(t, [me EXCEPT !.sid = n])
      BY <1>3 DEF DoRestart
  <2> DEFINE new == [me EXCEPT !.sid = n]
  <2>2. new \in Thread /\ new.todo = me.todo /\ new.w = me.w /\ new.pc = me.pc
      BY <1>1, RetriesAssumption DEF Thread
  <2>3. Did(t, new) /\ steps' = steps /\ Head(me.todo).op = "restart"
      BY <1>3, <2>1 DEF DoRestart, Calls, storeVars
  <2> HIDE DEF new
  <2> QED BY <2>2, <2>3, QuietCall
<1>4. CASE DoNotify(t) \/ DoBlocker(t) \/ DoClear(t)
  <2>1. /\ Did(t, me) /\ steps' = steps
        /\ Head(me.todo).op \in {"notify", "blocker", "clear"}
      BY <1>4 DEF DoNotify, DoBlocker, DoClear, Calls
  <2> QED BY <1>1, <2>1, QuietCall
<1>5. CASE DoSend(t) \/ DoSubmit(t) \/ DoBind(t)
  <2>1. /\ Did(t, me) /\ steps' = steps
        /\ Head(me.todo).op \in {"send", "submit", "bind"}
      BY <1>5 DEF DoSend, DoSubmit, DoBind, Calls, storeVars
  <2> QED BY <1>1, <2>1, QuietCall
<1> QED BY <1>2, <1>3, <1>4, <1>5, SavedCall, RejectedCall, AddedCall, MarkedCall,
           InterruptedCall DEF StoreCall

-----------------------------------------------------------------------------
(* The engine *)

\* The engine runs only in a process that is up, and leaves it so.
LEMMA EngineIsUp ==
    ASSUME Execution, NEW e \in Execs, EngineStep(e)
    PROVE  up = "up" /\ up' = up
<1>1. up = "up" \/ th[e].pc # "idle"
    BY DEF EngineStep, AdvanceStopped, AdvanceDependent, Advance, Admit, DecideTooLate,
           BrainUnavailable, BrainFails, BrainCompletes, BrainAsks, BrainActs, Decides,
           Leased, LeaseRefused, Executed, StepDone, StepAsks, StepFails, ApplyPlain,
           ApplySealed, FailBounded, AtStep, Resumes, Continues
<1>2. up' = up
    BY DEF EngineStep, AdvanceStopped, AdvanceDependent, Advance, Admit, Admission,
           DecideTooLate, BrainUnavailable, BrainFails, BrainCompletes, BrainAsks, BrainActs,
           Leased, LeaseRefused, Executed, StepDone, StepAsks, StepFails, ApplyPlain,
           ApplySealed, FailBounded, Only, Pressed, env
<1> QED BY <1>1, <1>2 DEF Execution, Asleep

\* The engine goes on to pc, and will add the step it marks.
Proceeds(e, pc) == \E held, calls : Segment(e, held, pc, calls) /\ Clean(calls)

LEMMA ProceedsKeeps ==
    ASSUME Execution, Versions', NEW e \in Execs, up = "up", up' = up, RowsGrow(e),
           NEW pc, Proceeds(e, pc), pc \notin InLease
    PROVE  Execution'
<1>1. PICK held, calls : Segment(e, held, pc, calls) /\ Clean(calls)
    BY DEF Proceeds
<1>2. OthersKeep(e) /\ th'[e].pc = pc /\ th'[e].todo = calls
    BY <1>1, ThreadFacts, SegmentMoves DEF Execution, Versions
<1> QED BY <1>1, <1>2, ThreadFacts, StopsShort

LEMMA CleanLists ==
    /\ Clean(<<>>) /\ \A a \in PlainCall : Clean(<<a>>)
    /\ \A a, b \in PlainCall : Clean(<<a, b>>)
    /\ \A a, b, c \in PlainCall : Clean(<<a, b, c>>)
    /\ \A k \in StepKinds, b, c \in LateCall : Clean(<<Add(k), b, c>>)
    /\ \A k \in StepKinds, b, c, d \in LateCall : Clean(<<Add(k), b, c, d>>)
    /\ \A k \in StepKinds, b, c, d, f \in LateCall : Clean(<<Add(k), b, c, d, f>>)
<1>1. /\ Clean(<<>>) /\ \A a \in PlainCall : Clean(<<a>>)
      /\ \A a, b \in PlainCall : Clean(<<a, b>>)
      /\ \A a, b, c \in PlainCall : Clean(<<a, b, c>>)
    BY ShortSeqs, PlainIsClean
<1>2. ASSUME NEW a \in LateCall, a.op = "add", NEW b \in LateCall, NEW c \in LateCall
      PROVE  Clean(<<a, b, c>>)
  <2>1. <<a, b, c>> \in Seq(LateCall) /\ <<a, b, c>> # <<>> /\ <<a, b, c>>[1] = a
      OBVIOUS
  <2> QED BY <1>2, <2>1, AddingIsClean
<1>3. ASSUME NEW a \in LateCall, a.op = "add", NEW b \in LateCall, NEW c \in LateCall,
             NEW d \in LateCall
      PROVE  Clean(<<a, b, c, d>>)
  <2>1. /\ <<a, b, c, d>> \in Seq(LateCall) /\ <<a, b, c, d>> # <<>>
        /\ <<a, b, c, d>>[1] = a
      OBVIOUS
  <2> QED BY <1>3, <2>1, AddingIsClean
<1>4. ASSUME NEW a \in LateCall, a.op = "add", NEW b \in LateCall, NEW c \in LateCall,
             NEW d \in LateCall, NEW f \in LateCall
      PROVE  Clean(<<a, b, c, d, f>>)
  <2>1. /\ <<a, b, c, d, f>> \in Seq(LateCall) /\ <<a, b, c, d, f>> # <<>>
        /\ <<a, b, c, d, f>>[1] = a
      OBVIOUS
  <2> QED BY <1>4, <2>1, AddingIsClean
<1>5. \A k \in StepKinds : Add(k) \in LateCall /\ Add(k).op = "add"
    BY CallKinds
<1> QED BY <1>1, <1>2, <1>3, <1>4, <1>5

\* Program points the engine goes on to without touching the step list.
Onward == {"ret", "admit", "brain", "failing", "lease"}

LEMMA OnwardProceeds ==
    ASSUME NEW e \in Execs, NEW pc, NEW calls, NEW held, Clean(calls),
           Only(e, held, pc, calls) \/ Pressed(e, held, pc, calls)
    PROVE  Proceeds(e, pc) /\ RowsGrow(e)
BY DEF Only, Pressed, Proceeds, RowsGrow, storeVars

LEMMA AdmissionProceeds ==
    ASSUME NEW e \in Execs, NEW it \in Item, Admission(e, it)
    PROVE  RowsGrow(e) /\ \E pc \in {"ret", "brain"} : Proceeds(e, pc)
<1>1. {Notify, Move("running", "none"), Move("failed", "none"), Move("paused", "keep")}
        \subseteq PlainCall
    BY CallKinds DEF WorkStates, Terminal
<1>2. Clean(<<Notify>>) /\ Clean(<<Move("paused", "keep")>>)
    BY <1>1, CleanLists
<1>3. MakeRunning(it) \in Seq(PlainCall) /\ <<Move("failed", "none"), Notify>> \in Seq(PlainCall)
    BY <1>1, ShortSeqs DEF MakeRunning
<1>4. /\ Clean(MakeRunning(it))
      /\ Clean(MakeRunning(it) \o <<Move("failed", "none"), Notify>>)
    BY <1>3, ConcatProperties, PlainIsClean
<1> QED BY <1>2, <1>4, OnwardProceeds DEF Admission

LEMMA AdvanceProceeds ==
    ASSUME TypeOK, NEW e \in Execs,
           AdvanceStopped(e) \/ AdvanceDependent(e) \/ Advance(e) \/ Admit(e)
    PROVE  RowsGrow(e) /\ \E pc \in Onward : Proceeds(e, pc)
<1>1. {Notify, Read, Move("running", "none"), Move("failed", "none"),
       Move("waiting_dependency", "none")} \subseteq PlainCall
    BY CallKinds DEF WorkStates, Terminal, Waiting
<1>2. /\ Clean(<<>>) /\ Clean(<<Notify>>) /\ Clean(<<Move("failed", "none"), Notify>>)
      /\ Clean(<<Move("waiting_dependency", "none")>>)
      /\ Clean(<<Move("running", "none"), Read>>)
    BY <1>1, CleanLists
<1>3. CASE AdvanceStopped(e) \/ AdvanceDependent(e)
    BY <1>2, <1>3, OnwardProceeds DEF AdvanceStopped, AdvanceDependent, Onward
<1>4. CASE Advance(e)
    BY <1>4, ExecOK, AdmissionProceeds DEF Advance, Onward
<1>5. CASE Admit(e)
    BY <1>2, <1>5, ExecOK, OnwardProceeds, AdmissionProceeds DEF Admit, Onward
<1> QED BY <1>3, <1>4, <1>5

LEMMA BrainProceeds ==
    ASSUME NEW e \in Execs,
           \/ DecideTooLate(e) \/ BrainUnavailable(e) \/ BrainFails(e)
           \/ BrainCompletes(e) \/ BrainAsks(e) \/ BrainActs(e)
    PROVE  RowsGrow(e) /\ \E pc \in Onward : Proceeds(e, pc)
<1>1. {Read, Notify, Clear, Blocker, Touch("none"), Move("waiting_resource", "keep"),
       Move("waiting_resource", "none"), Move("completed", "none"),
       Move("waiting_for_owner", "none")} \subseteq PlainCall
    BY CallKinds DEF WorkStates, Waiting, Terminal
<1>2. {Mark("failed", ""), Mark("completed", ""), Read, Touch("none"), Blocker,
       Move("waiting_resource", "own")} \subseteq LateCall
    BY <1>1, CallKinds DEF StepStates, Observed, WorkStates, Waiting
<1>3. /\ Clean(<<>>) /\ Clean(<<Move("waiting_resource", "keep")>>)
      /\ Clean(<<Add("note"), Mark("failed", ""), Read>>)
      /\ Clean(<<Add("note"), Mark("completed", ""), Read, Touch("none")>>)
      /\ Clean(<<Move("completed", "none"), Clear, Notify>>)
      /\ Clean(<<Move("waiting_for_owner", "none"), Notify>>)
      /\ Clean(<<Move("waiting_resource", "none")>>)
    BY <1>1, <1>2, CleanLists DEF StepKinds
<1>4. LET waits == <<Add("pressure"), Mark("completed", ""), Read,
                     Move("waiting_resource", "own")>>
      IN  Clean(waits) /\ Clean(waits \o <<Blocker>>)
  <2>1. ASSUME NEW a \in LateCall, NEW b \in LateCall, NEW c \in LateCall, NEW d \in LateCall,
               NEW f \in LateCall, a.op = "add"
        PROVE  Clean(<<a, b, c, d>> \o <<f>>)
    <3> DEFINE p == <<a, b, c, d>>
               q == <<f>>
    <3>1. p \in Seq(LateCall) /\ q \in Seq(LateCall) /\ Len(p) = 4 /\ p[1] = a
        OBVIOUS
    <3> HIDE DEF p, q
    <3>2. p \o q \in Seq(LateCall) /\ p \o q # <<>> /\ (p \o q)[1] = a
        BY <3>1, ConcatProperties
    <3> QED BY <2>1, <3>2, AddingIsClean DEF p, q
  <2>2. Add("pressure") \in LateCall /\ Add("pressure").op = "add"
      BY CallKinds DEF StepKinds
  <2> QED BY <1>2, <2>1, <2>2, CleanLists DEF StepKinds
<1>5. CASE DecideTooLate(e) \/ BrainFails(e) \/ BrainCompletes(e) \/ BrainAsks(e) \/ BrainActs(e)
    BY <1>3, <1>5, OnwardProceeds
       DEF DecideTooLate, BrainFails, BrainCompletes, BrainAsks, BrainActs, Onward
<1>6. CASE BrainUnavailable(e)
  <2>1. \E calls : Clean(calls) /\ Pressed(e, item[e[1]], "ret", calls)
      BY <1>3, <1>4, <1>6 DEF BrainUnavailable
  <2> QED BY <2>1, OnwardProceeds DEF Onward
<1> QED BY <1>5, <1>6

\* What prepares the executor adds the step before it marks it.
LEMMA StartIsClean == Clean(Start) /\ Start \notin {<<Touch("own")>>, <<>>}
<1> DEFINE m == Move("running", "none")
           a == Add("work")
           k == Mark("running", "")
           u == Touch("own")
<1>1. m.op = "move" /\ a.op = "add" /\ k.op = "mark" /\ u.op = "touch"
    BY DEF Op, Move, Add, Mark, Touch
<1>2. Start = <<m, a, k, u>>
    BY DEF Start
<1> HIDE DEF m, a, k, u
<1>3. Len(Start) = 4 /\ DOMAIN Start = 1 .. 4
      /\ Start[1] = m /\ Start[2] = a /\ Start[3] = k /\ Start[4] = u
    BY <1>2
<1>4. \A i \in 1 .. 4 : i = 1 \/ i = 2 \/ i = 3 \/ i = 4
    OBVIOUS
<1>5. Orderly(Start) /\ ~Interrupts(Start)
    BY <1>1, <1>3, <1>4 DEF Orderly, Interrupts
<1>6. ~Marks(Start)
  <2> SUFFICES ASSUME NEW i \in 1 .. 4, Start[i].op = "mark" PROVE 2 \in 1 .. i
      BY <1>1, <1>3 DEF Marks
  <2>1. i = 3
      BY <1>1, <1>3, <1>4
  <2> QED BY <2>1
<1>7. Start # <<Touch("own")>> /\ Start # <<>>
    BY StartCalls, Zenon
<1> QED BY <1>5, <1>6, <1>7 DEF Clean

\* The executor takes over with a unit in hand.
LEMMA LeasedKeeps ==
    ASSUME Execution, Versions', NEW e \in Execs, Leased(e), up = "up", up' = up
    PROVE  Execution'
<1>1. e \in Threads /\ e[1] \in Works /\ TypeOK
    BY ExecOK DEF Execution, Versions
<1>2. CASE \/ Only(e, item[e[1]], "ret", <<>>)
           \/ Pressed(e, item[e[1]], "ret",
                      <<Move("running", "none"), Read, Move("paused", "keep")>>)
  <2>1. /\ Clean(<<>>)
        /\ Clean(<<Move("running", "none"), Read, Move("paused", "keep")>>)
      BY CallKinds, CleanLists DEF WorkStates
  <2>2. Proceeds(e, "ret") /\ RowsGrow(e)
      BY <1>2, <2>1, OnwardProceeds
  <2> QED BY <2>2, ProceedsKeeps DEF InLease
<1>3. CASE /\ th' = [th EXCEPT ![e] = [@ EXCEPT !.pc = "exec", !.held = item[e[1]],
                                                !.todo = Start]]
           /\ lease' = lease \cup {e} /\ steps' = steps
  <2> DEFINE rec == [th[e] EXCEPT !.pc = "exec", !.held = item[e[1]], !.todo = Start]
  <2>1. rec.pc = "exec" /\ rec.todo = Start
      BY <1>1, ExecOK DEF Thread
  <2>2. th' = [th EXCEPT ![e] = rec]
      BY <1>3
  <2> HIDE DEF rec
  <2>3. th'[e] = rec /\ \A u \in Threads \ {e} : th'[u] = th[u]
      BY <1>1, <2>2 DEF TypeOK, ThreadsOK
  <2>5. OthersKeep(e)
      BY <1>3, <2>3 DEF OthersKeep
  <2>6. ~Owns(e)' /\ Orderly(th'[e].todo) /\ ~Interrupts(th'[e].todo)
      BY <2>1, <2>3, StartIsClean DEF Owns, Owning, OnItsRow, Clean
  <2>7. Shaped(e)'
      BY <2>1, <2>3 DEF Shaped
  <2> QED BY <1>1, <1>3, <2>5, <2>6, <2>7, ThreadStep DEF OwnsLittle, RowsGrow
<1> QED BY <1>2, <1>3 DEF Leased, Start, storeVars

\* The executor has returned: its step is marked by what it returned.
LEMMA ExecutedKeeps ==
    ASSUME Execution, Versions', NEW e \in Execs, Executed(e), up = "up", up' = up
    PROVE  Execution'
<1>1. e \in Threads /\ TypeOK
    BY ExecOK DEF Execution, Versions
<1>2. PICK st \in StepStates, obs \in Observed, pc \in {"done", "settle", "asking"} :
          Segment(e, th[e].held, pc, <<Mark(st, obs), Read>>)
    BY DEF Executed, StepStates, Observed
<1> DEFINE q == <<Mark(st, obs), Read>>
<1>3. th[e].pc = "exec" /\ th[e].todo = <<>> /\ steps' = steps
    BY DEF Executed, Resumes
<1>4. Owns(e) /\ e \in lease
    BY <1>1, <1>3 DEF Owns, Owning, OnItsRow, Execution, LeaseHeld, InLease
<1>5. Orderly(q) /\ ~Interrupts(q)
  <2>1. q \in Seq(LateCall)
      BY CallKinds
  <2> HIDE DEF q
  <2>2. \A i \in DOMAIN q : q[i].op \notin {"restart", "interrupt"}
      BY <2>1 DEF LateCall
  <2> QED BY <2>2 DEF Orderly, Interrupts
<1>6. /\ th'[e].pc = pc /\ th'[e].todo = q
      /\ th'[e].sid = th[e].sid /\ th'[e].w = th[e].w
      /\ OthersKeep(e) /\ e \in lease'
    BY <1>1, <1>2, <1>4, SegmentMoves, ThreadFacts DEF InLease
<1> HIDE DEF q
<1>7. OwnsLittle(e) /\ RowsGrow(e) /\ Shaped(e)'
    BY <1>3, <1>4, <1>6 DEF OwnsLittle, RowsGrow, Shaped
<1> QED BY <1>1, <1>5, <1>6, <1>7, ThreadStep

LEMMA StepProceeds ==
    ASSUME NEW e \in Execs,
           LeaseRefused(e) \/ StepDone(e) \/ StepAsks(e) \/ StepFails(e) \/ FailBounded(e)
    PROVE  RowsGrow(e) /\ Proceeds(e, "ret")
<1>1. {Notify, Clear, Touch("none"), Touch("keep"), Move("waiting_for_owner", "own"),
       Move("failed", "own"), Move("failed", "keep"), Move("retrying", "own")} \subseteq PlainCall
    BY CallKinds DEF WorkStates, Waiting, Terminal
<1>2. /\ Clean(<<>>) /\ Clean(<<Clear>>) /\ Clean(<<Touch("none")>>) /\ Clean(<<Touch("keep")>>)
      /\ Clean(<<Move("waiting_for_owner", "own"), Notify>>)
      /\ Clean(<<Move("failed", "own"), Notify>>) /\ Clean(<<Move("retrying", "own")>>)
      /\ Clean(<<Move("failed", "keep"), Clear, Notify>>)
    BY <1>1, CleanLists
<1> QED BY <1>2, OnwardProceeds DEF LeaseRefused, StepDone, StepAsks, StepFails, FailBounded

\* An exception leaves nothing to do.
LEMMA RaiseKeeps ==
    ASSUME Execution, Versions', NEW t \in Threads, Raise(t), RowsGrow(t), up' = up,
           t \in Execs => up = "up"
    PROVE  Execution'
<1>1. OthersKeep(t) /\ th'[t].todo = <<>> /\ th'[t].pc \notin InLease
    BY RaiseMoves DEF Execution, Versions, InLease
<1> QED BY <1>1, NothingIsClean, StopsShort

LEMMA AnswerKeeps ==
    ASSUME Execution, Versions', NEW e \in Execs, ApplyPlain(e) \/ ApplySealed(e),
           up = "up", up' = up
    PROVE  Execution'
<1>1. e \in Threads /\ e[1] \in Works /\ TypeOK
    BY ExecOK DEF Execution, Versions
<1>2. RowsGrow(e)
  <2>1. steps' = steps \/ \E row : AddStep(e[1], row)
      BY DEF ApplyPlain, ApplySealed, Only, storeVars
  <2>2. steps \in [Works -> Seq(StepRow)]
      BY <1>1 DEF TypeOK, StoreOK
  <2> QED BY <1>1, <2>1, <2>2, AddStepRows DEF RowsGrow
<1>3. Raise(e) \/ Proceeds(e, "ret")
  <2>1. CASE ApplySealed(e)
      BY <2>1, NothingIsClean DEF ApplySealed, Proceeds
  <2>2. CASE ApplyPlain(e)
    <3>1. wf[e].msg.text \in Observed
        BY <1>1, <2>2 DEF ApplyPlain, AtStep, TypeOK, DbosOK, Message, Observed
    <3>2. Clean(<<Add("owner_input"), Mark("completed", wf[e].msg.text), Move("running", "none")>>)
        BY <3>1, CallKinds, CleanLists DEF StepKinds, StepStates, WorkStates
    <3> QED BY <2>2, <3>2, NothingIsClean DEF ApplyPlain, Proceeds, Only
  <2> QED BY <2>1, <2>2
<1> QED BY <1>1, <1>2, <1>3, ProceedsKeeps, RaiseKeeps DEF InLease

LEMMA EngineKeeps ==
    ASSUME Execution, Versions', NEW e \in Execs, EngineStep(e)
    PROVE  Execution'
<1>1. TypeOK /\ up = "up" /\ up' = up
    BY EngineIsUp DEF Execution, Versions
<1>2. Onward \cap InLease = {}
    BY DEF Onward, InLease
<1>3. CASE AdvanceStopped(e) \/ AdvanceDependent(e) \/ Advance(e) \/ Admit(e)
    BY <1>1, <1>2, <1>3, AdvanceProceeds, ProceedsKeeps
<1>4. CASE \/ DecideTooLate(e) \/ BrainUnavailable(e) \/ BrainFails(e)
           \/ BrainCompletes(e) \/ BrainAsks(e) \/ BrainActs(e)
    BY <1>1, <1>2, <1>4, BrainProceeds, ProceedsKeeps
<1>5. CASE LeaseRefused(e) \/ StepDone(e) \/ StepAsks(e) \/ StepFails(e) \/ FailBounded(e)
    BY <1>1, <1>5, StepProceeds, ProceedsKeeps DEF InLease
<1> QED BY <1>1, <1>3, <1>4, <1>5, LeasedKeeps, ExecutedKeeps, AnswerKeeps DEF EngineStep

-----------------------------------------------------------------------------
(* Workflows, the main thread and crashes *)

\* No thread moves, no step is written, no execution runs that did not.
LEMMA NobodyMoves ==
    ASSUME Execution, Versions', th' = th, lease' = lease, steps' = steps,
           up' = up \/ (up' = "up" /\ ~Interrupts(th[Main].todo))
    PROVE  Execution'
<1>1. \A t \in Threads : Owns(t)' = Owns(t)
    BY DEF Owns
<1>2. OwnedRows' /\ Apart' /\ LeaseHeld'
    BY <1>1 DEF Execution, OwnedRows, Apart, LeaseHeld
<1>3. \A e \in Execs : Shaped(e)'
    BY DEF Execution, Shaped
<1>4. Asleep' /\ Waking' /\ \A t \in Threads : Orderly(th'[t].todo)
    BY DEF Execution, Asleep, Waking
<1> QED BY <1>2, <1>3, <1>4 DEF Execution

LEMMA WorkflowKeeps ==
    ASSUME Execution, Versions', NEW e \in Execs, WorkflowStep(e)
    PROVE  Execution'
<1>1. /\ steps' = steps /\ up' = up /\ lease' = lease
    BY DEF WorkflowStep, StepReturns, StepRaises, ReceiveAnswer, ReceiveControl, storeVars,
           env, volatile
<1>2. CASE th' = th
    BY <1>1, <1>2, NobodyMoves
<1>3. ASSUME NEW n, th' = [th EXCEPT ![e] = [Idle(e[1]) EXCEPT !.tries = n]],
             th[e].pc \in {"ret", "raise"}
      PROVE  Execution'
  <2> DEFINE rec == [Idle(e[1]) EXCEPT !.tries = n]
  <2>1. rec.todo = <<>> /\ rec.pc = "idle"
      BY DEF Idle
  <2>2. th'[e] = rec /\ \A u \in Threads \ {e} : th'[u] = th[u]
      BY <1>3, ExecOK DEF Execution, Versions, TypeOK, ThreadsOK
  <2> HIDE DEF rec
  <2>3. OthersKeep(e)
      BY <1>1, <2>2 DEF OthersKeep
  <2>4. up = "up"
      BY <1>3 DEF Execution, Asleep
  <2> QED BY <1>1, <2>1, <2>2, <2>3, <2>4, ThreadFacts, NothingIsClean, StopsShort
          DEF RowsGrow, InLease
<1>4. th' = th \/ \E n : /\ th' = [th EXCEPT ![e] = [Idle(e[1]) EXCEPT !.tries = n]]
                         /\ th[e].pc \in {"ret", "raise"}
  <2>1. Idle(e[1]) = [Idle(e[1]) EXCEPT !.tries = 0]
      BY DEF Idle
  <2> QED BY <2>1 DEF WorkflowStep, StepReturns, StepRaises, ReceiveAnswer, ReceiveControl, volatile
<1> QED BY <1>2, <1>3, <1>4

\* The main thread goes on with calls that add before they mark.
LEMMA MainRunKeeps ==
    ASSUME Execution, Versions', NEW rec, Run(Main, rec), Clean(rec.todo),
           steps' = steps, up' = up
    PROVE  Execution'
<1>1. Idle(Owner).todo = <<>>
    BY DEF Idle
<1>2. OthersKeep(Main) /\ Clean(th'[Main].todo)
    BY <1>1, ThreadFacts, NothingIsClean, RunMoves DEF Execution, Versions
<1> QED BY <1>2, ThreadFacts, StopsShort DEF RowsGrow

LEMMA CommandKeeps ==
    ASSUME Execution, Versions', NEW w, NEW held, NEW pc, NEW calls,
           Command(w, held, pc, calls), Clean(calls), steps' = steps, up' = up
    PROVE  Execution'
<1> DEFINE rec == [Idle(w) EXCEPT !.pc = pc, !.held = held, !.todo = calls]
<1>1. rec.todo = calls
    BY DEF Idle
<1>2. Run(Main, rec)
    BY DEF Command
<1> HIDE DEF rec
<1> QED BY <1>1, <1>2, MainRunKeeps

LEMMA OwnerKeeps ==
    ASSUME Execution, Versions', OwnerStep
    PROVE  Execution'
<1>1. PICK w \in Works :
          \/ OwnerStart(w) \/ OwnerPause(w) \/ OwnerResume(w) \/ OwnerCancel(w)
          \/ OwnerRetry(w) \/ OwnerReprioritize(w) \/ OwnerAnswer(w)
    BY DEF OwnerStep
<1>2. steps' = steps /\ up' = up
    BY <1>1 DEF OwnerStart, OwnerPause, OwnerResume, OwnerCancel, OwnerRetry,
                OwnerReprioritize, OwnerAnswer, storeVars
<1>3. ResumeTarget(item[w]) \in WorkStates
    BY DEF ResumeTarget, WorkStates, Waiting
<1>4. /\ Clean(<<Launch>>) /\ Clean(<<Clear>>) /\ Clean(<<Touch("keep")>>)
      /\ Clean(<<Move("paused", "keep")>>) /\ Clean(<<Send("cancel")>>)
      /\ Clean(<<Move(ResumeTarget(item[w]), "keep"), Send("resume")>>)
    BY <1>3, CallKinds, CleanLists DEF WorkStates
<1>5. Clean(<<Add("note"), Mark("completed", ""), Move("retrying", "none"), Restart, Bind>>)
  <2>1. /\ Add("note").op = "add" /\ Mark("completed", "").op = "mark"
        /\ Move("retrying", "none").op = "move" /\ Restart.op = "restart" /\ Bind.op = "bind"
      BY DEF Op, Add, Mark, Move, Restart, Bind
  <2>2. ASSUME NEW a, NEW k, NEW m, NEW r, NEW b, a.op = "add", k.op = "mark", m.op = "move",
               r.op = "restart", b.op = "bind"
        PROVE  Clean(<<a, k, m, r, b>>)
    <3> DEFINE q == <<a, k, m, r, b>>
    <3>1. /\ DOMAIN q = 1 .. 5 /\ q[1] = a /\ q[2] = k /\ q[3] = m /\ q[4] = r /\ q[5] = b
        OBVIOUS
    <3> HIDE DEF q
    <3>2. \A i \in 1 .. 5 : i = 1 \/ i = 2 \/ i = 3 \/ i = 4 \/ i = 5
        OBVIOUS
    <3>3. Orderly(q) /\ ~Interrupts(q)
        BY <2>2, <3>1, <3>2 DEF Orderly, Interrupts
    <3>4. \A i \in 1 .. 5 : 1 \in 1 .. i
        OBVIOUS
    <3>5. ~Marks(q)
        BY <2>2, <3>1, <3>4 DEF Marks
    <3> QED BY <3>3, <3>5 DEF Clean, q
  <2> QED BY <2>1, <2>2
<1>6. CASE OwnerAnswer(w)
    BY <1>2, <1>6, NobodyMoves DEF OwnerAnswer, volatile
<1>7. \/ OwnerAnswer(w)
      \/ \E held, pc, calls : Command(w, held, pc, calls) /\ Clean(calls)
    BY <1>1, <1>4, <1>5 DEF OwnerStart, OwnerPause, OwnerResume, OwnerCancel, OwnerRetry,
                            OwnerReprioritize
<1> QED BY <1>2, <1>6, <1>7, CommandKeeps

\* Startup declares the running steps interrupted before any execution runs.
LEMMA InterruptedKeeps ==
    ASSUME Execution, Versions', NEW w \in Works, BootInterrupted(w)
    PROVE  Execution'
<1> DEFINE marks == [i \in 1 .. Cardinality(RunningSteps(w)) |-> Interrupt]
           Late  == {o \in Call : o.op \notin {"mark", "restart"}}
<1>1. TypeOK /\ up = "starting" /\ up' = up /\ steps' = steps
    BY DEF Execution, Versions, BootInterrupted, AtBoot, env, storeVars
<1>2. marks \in Seq(Late)
  <2>1. IsFiniteSet(DOMAIN steps[w])
      BY <1>1, FS_Interval, LenProperties DEF TypeOK, StoreOK
  <2>2. Cardinality(RunningSteps(w)) \in Nat
      BY <2>1, FS_Subset, FS_CardinalityType DEF RunningSteps
  <2>3. Interrupt \in Late
      BY CallTypes DEF Op, Interrupt
  <2> HIDE DEF Late
  <2> QED BY <2>2, <2>3
<1>3. <<Touch("own")>> \in Seq(Late) /\ <<Move("waiting_for_owner", "own"), Notify>> \in Seq(Late)
  <2>1. {Touch("own"), Notify, Move("waiting_for_owner", "own")} \subseteq Late
      BY CallKinds DEF PlainCall, WorkStates, Waiting
  <2> QED BY <2>1, ShortSeqs
<1>4. PICK calls \in Seq(Late) :
          Run(Main, [th[Main] EXCEPT !.w = w, !.held = item[w], !.todo = calls])
    BY <1>2, <1>3, ConcatProperties DEF BootInterrupted
<1> DEFINE rec == [th[Main] EXCEPT !.w = w, !.held = item[w], !.todo = calls]
<1>5. rec.todo = calls
    BY <1>1, ThreadFacts DEF TypeOK, ThreadsOK, Thread
<1>6. Run(Main, rec)
    BY <1>4
<1> HIDE DEF rec, marks
<1>7. OthersKeep(Main) /\ th'[Main].todo \in {calls, <<>>}
  <2>1. Idle(Owner).todo = <<>>
      BY DEF Idle
  <2> QED BY <1>1, <1>5, <1>6, <2>1, ThreadFacts, RunMoves
<1>8. \A i \in DOMAIN calls : calls[i].op \notin {"mark", "restart"}
    OBVIOUS
<1> HIDE DEF Late
<1>9. Orderly(calls) /\ ~Marks(calls)
    BY <1>8 DEF Orderly, Marks
<1>10. Orderly(th'[Main].todo) /\ ~Owns(Main)'
    BY <1>7, <1>9, NothingIsClean, ThreadFacts DEF Clean, Owns, Owning
<1> QED BY <1>1, <1>7, <1>10, ThreadFacts, ThreadStep DEF OwnsLittle, RowsGrow

LEMMA MainKeeps ==
    ASSUME Execution, Versions', MainStep \/ BackendFault(Main)
    PROVE  Execution'
<1>1. Main \in Threads /\ th[Main] \in Thread /\ TypeOK
    BY ThreadFacts DEF Execution, Versions, TypeOK, ThreadsOK
<1>2. CASE CancelAgain
  <2>1. Clean(<<Clear>>) /\ Clean(<<Move("cancelled", "keep"), Clear>>)
      BY CallKinds, CleanLists DEF WorkStates, Terminal
  <2>2. PICK held, pc, calls : Only(Main, held, pc, calls) /\ Clean(calls)
      BY <1>2, <2>1 DEF CancelAgain
  <2> DEFINE rec == [th[Main] EXCEPT !.pc = pc, !.held = held, !.todo = calls]
  <2>3. rec.todo = calls
      BY <1>1 DEF Thread
  <2>4. Run(Main, rec) /\ steps' = steps /\ up' = up
      BY <2>2 DEF Only, Segment, storeVars, env
  <2> HIDE DEF rec
  <2> QED BY <2>2, <2>3, <2>4, MainRunKeeps
<1>3. CASE BootStart
  <2>1. /\ th'[Main].todo = th[Main].todo /\ th'[Main].w = th[Main].w
        /\ th'[Main].sid = th[Main].sid
        /\ \A u \in Threads \ {Main} : th'[u] = th[u]
      BY <1>1, <1>3 DEF BootStart, TypeOK, ThreadsOK, Thread
  <2>2. steps' = steps /\ lease' = lease /\ up = "down" /\ up' = "starting"
      BY <1>3 DEF BootStart, storeVars
  <2>3. /\ \A e \in Execs : e \in Threads \ {Main}
        /\ \A u \in Threads : u # Main => u \in Execs
      BY ThreadFacts
  <2>4. \A u \in Threads : /\ Owns(u)' = Owns(u) /\ th'[u].w = th[u].w
                           /\ th'[u].sid = th[u].sid /\ th'[u].todo = th[u].todo
      BY <2>1, ThreadFacts DEF Owns, Owning
  <2>5. OwnedRows' /\ Apart' /\ Waking' /\ \A u \in Threads : Orderly(th'[u].todo)
      BY <2>2, <2>4 DEF Execution, OwnedRows, Apart, Waking
  <2>6. Asleep' /\ LeaseHeld' /\ \A e \in Execs : Shaped(e)'
      BY <2>1, <2>2, <2>3 DEF Execution, Asleep, LeaseHeld, Shaped
  <2> QED BY <2>5, <2>6 DEF Execution
<1>4. CASE BootLaunch
  <2>1. ~Interrupts(th[Main].todo)
      BY <1>4, NothingIsClean DEF BootLaunch, AtBoot, Clean
  <2> QED BY <1>4, <2>1, NobodyMoves DEF BootLaunch, volatile
<1>5. CASE BootResubmit
  <2>1. Idle(Owner).todo = <<>>
      BY DEF Idle
  <2> QED BY <1>5, <2>1, NothingIsClean, MainRunKeeps DEF BootResubmit, storeVars, env
<1>6. CASE BackendFault(Main)
  <2> DEFINE o == Head(th[Main].todo)
             calls == OnFault(o.op, o.a)
             rec == [th[Main] EXCEPT !.pc = "idle", !.todo = calls]
  <2>1. Clean(calls)
    <3>1. {Move("failed", "none"), Move("failed", "keep"), Move("paused", "keep"), Notify, Read}
            \subseteq PlainCall
        BY CallKinds DEF WorkStates, Terminal
    <3> QED BY <3>1, CleanLists DEF OnFault
  <2>2. Run(Main, rec) /\ steps' = steps /\ up' = up
      BY <1>6 DEF BackendFault, storeVars
  <2> HIDE DEF calls
  <2>3. rec.todo = calls
      BY <1>1 DEF Thread
  <2> HIDE DEF rec
  <2> QED BY <2>1, <2>2, <2>3, MainRunKeeps
<1> QED BY <1>2, <1>3, <1>4, <1>5, <1>6, InterruptedKeeps DEF MainStep

\* Idle threads own nothing.
LEMMA AllIdle ==
    ASSUME Versions, \A t \in Threads : th[t] = Idle(t[1])
    PROVE  Execution
<1>1. \A t \in Threads : th[t].todo = <<>> /\ th[t].pc = "idle"
  <2>1. \A x : Idle(x).todo = <<>> /\ Idle(x).pc = "idle"
      BY DEF Idle
  <2> QED BY <2>1
<1>2. \A t \in Threads : Orderly(th[t].todo) /\ ~Interrupts(th[t].todo) /\ ~Owns(t)
    BY <1>1, NothingIsClean DEF Clean, Owns, Owning, OnItsRow
<1>3. \A e \in Execs : th[e].todo = <<>> /\ th[e].pc = "idle"
    BY <1>1, ThreadFacts
<1>4. LeaseHeld /\ Asleep /\ \A e \in Execs : Shaped(e)
    BY <1>3 DEF LeaseHeld, InLease, Asleep, Shaped
<1>5. OwnedRows /\ Apart /\ Waking
    BY <1>2 DEF OwnedRows, Apart, Waking
<1> QED BY <1>2, <1>4, <1>5 DEF Execution

LEMMA CrashKeeps ==
    ASSUME Versions', Crash
    PROVE  Execution'
<1>1. \A t \in Threads : th'[t] = Idle(t[1])
    BY DEF Crash
<1>2. \A t \in Threads : th'[t].todo = <<>> /\ th'[t].pc = "idle"
  <2>1. \A x : Idle(x).todo = <<>> /\ Idle(x).pc = "idle"
      BY DEF Idle
  <2> QED BY <1>1, <2>1
<1>3. \A t \in Threads : Orderly(th'[t].todo) /\ ~Interrupts(th'[t].todo) /\ ~Owns(t)'
    BY <1>2, NothingIsClean DEF Clean, Owns, Owning, OnItsRow
<1>4. \A e \in Execs : th'[e].todo = <<>> /\ th'[e].pc = "idle"
    BY <1>2, ThreadFacts
<1>5. LeaseHeld' /\ Asleep' /\ \A e \in Execs : Shaped(e)'
    BY <1>4 DEF LeaseHeld, InLease, Asleep, Shaped
<1>6. OwnedRows' /\ Apart' /\ Waking'
    BY <1>3 DEF OwnedRows, Apart, Waking
<1> QED BY <1>3, <1>5, <1>6 DEF Execution

LEMMA ExecutionInitially == Init => Execution
BY VersionsInitially, AllIdle DEF Init

LEMMA ExecutionNext == Execution /\ [Next]_vars => Execution'
<1> SUFFICES ASSUME Execution, [Next]_vars PROVE Execution'
    OBVIOUS
<1>1. Versions'
    BY VersionsNext DEF Execution
<1>2. CASE \E t \in Threads : StoreCall(t)
    BY <1>1, <1>2, StoreCallKeeps
<1>3. CASE \E e \in Execs : EngineStep(e) \/ WorkflowStep(e)
    BY <1>1, <1>3, EngineKeeps, WorkflowKeeps
<1>4. CASE OwnerStep \/ MainStep \/ BackendFault(Main)
    BY <1>1, <1>4, OwnerKeeps, MainKeeps
<1>5. CASE Crash
    BY <1>1, <1>5, CrashKeeps
<1>6. CASE UNCHANGED vars
    BY <1>1, <1>6, NobodyMoves DEF vars
<1> QED BY <1>2, <1>3, <1>4, <1>5, <1>6 DEF Next

\* An executor runs only under a unit of the base resource and while its step is
\* durably recorded as running, and no other runs on that step: what a crash leaves
\* unknown is always on record, even when several executors run, two of one item
\* among them.
THEOREM ExecutorsOnRecord == Spec => []ExecutorsAreOnRecord
<1>1. Execution => ExecutorsAreOnRecord
  <2> SUFFICES ASSUME Execution, NEW e \in Execs, Executing(e)
               PROVE  /\ steps[e[1]][th[e].sid].st = "running"
                      /\ e \in lease
                      /\ \A f \in Execs :
                            Executing(f) /\ f[1] = e[1] /\ th[f].sid = th[e].sid => f = e
      BY DEF ExecutorsAreOnRecord
  <2>1. th[e].pc = "exec" /\ th[e].todo = <<>>
      BY DEF Executing
  <2>2. e \in lease
      BY DEF Execution, LeaseHeld, InLease, Executing
  <2>3. th[e].todo \notin {Start, Tail(Start), Tail(Tail(Start))}
      BY <2>1, StartCalls, Zenon
  <2>4. steps[e[1]][th[e].sid].st = "running"
      BY <2>1, <2>3 DEF Execution, Shaped
  <2>5. \A f \in Execs : Executing(f) => f \in Threads /\ Owns(f) /\ th[f].w = f[1]
      BY ExecOK DEF Execution, Versions, Executing, Owns, Owning, OnItsRow
  <2> QED BY <2>2, <2>4, <2>5 DEF Execution, Apart
<1> QED BY <1>1, ExecutionInitially, ExecutionNext, PTL DEF Spec

-----------------------------------------------------------------------------
(* Who moves an execution *)

LEMMA StoreCallMoves ==
    ASSUME TypeOK, NEW t \in Threads, StoreCall(t)
    PROVE  /\ OthersKeep(t)
           /\ \/ th'[t].pc = th[t].pc /\ th'[t].todo = Tail(th[t].todo)
              \/ th'[t].pc \in {"idle", "raise", "cancel"}
<1> DEFINE me == th[t]
<1>1. th[t].todo # <<>> /\ ThreadsOK
    BY DEF StoreCall, DoRead, DoSave, RejectSave, DoAdd, DoMark, DoInterrupt, DoNotify,
           DoBlocker, DoClear, DoSend, DoSubmit, DoRestart, DoBind, Calls, TypeOK
<1>2. me \in Thread
    BY <1>1, CallFacts
<1>3. Idle(Owner).pc = "idle"
    BY DEF Idle
<1>4. ASSUME NEW rec, Run(t, rec),
             \/ rec.pc = me.pc /\ rec.todo = Tail(me.todo)
             \/ rec.pc \in {"raise", "cancel"}
      PROVE  /\ OthersKeep(t)
             /\ \/ th'[t].pc = me.pc /\ th'[t].todo = Tail(me.todo)
                \/ th'[t].pc \in {"idle", "raise", "cancel"}
    BY <1>3, <1>4, RunMoves
<1>5. CASE RejectSave(t)
  <2>1. CASE Raise(t)
      BY <2>1, RaiseMoves
  <2>2. CASE Run(t, [me EXCEPT !.todo = <<>>, !.pc = "cancel"])
    <3> DEFINE rec == [me EXCEPT !.todo = <<>>, !.pc = "cancel"]
    <3>1. rec.pc = "cancel" /\ Run(t, rec)
        BY <1>2, <2>2 DEF Thread
    <3> HIDE DEF rec
    <3> QED BY <1>4, <3>1
  <2> QED BY <1>5, <2>1, <2>2 DEF RejectSave
<1>6. CASE \E h : Did(t, [me EXCEPT !.held = h])
  <2>1. PICK h : Did(t, [me EXCEPT !.held = h])
      BY <1>6
  <2> DEFINE rec == [[me EXCEPT !.held = h] EXCEPT !.todo = Tail(me.todo)]
  <2>2. rec.pc = me.pc /\ rec.todo = Tail(me.todo) /\ Run(t, rec)
      BY <1>2, <2>1 DEF Did, Thread
  <2> HIDE DEF rec
  <2> QED BY <1>4, <2>2
<1>7. CASE \E n : Did(t, [me EXCEPT !.sid = n])
  <2>1. PICK n : Did(t, [me EXCEPT !.sid = n])
      BY <1>7
  <2> DEFINE rec == [[me EXCEPT !.sid = n] EXCEPT !.todo = Tail(me.todo)]
  <2>2. rec.pc = me.pc /\ rec.todo = Tail(me.todo) /\ Run(t, rec)
      BY <1>2, <2>1 DEF Did, Thread
  <2> HIDE DEF rec
  <2> QED BY <1>4, <2>2
<1>8. CASE Did(t, me)
  <2> DEFINE rec == [me EXCEPT !.todo = Tail(me.todo)]
  <2>1. rec.pc = me.pc /\ rec.todo = Tail(me.todo) /\ Run(t, rec)
      BY <1>2, <1>8 DEF Did, Thread
  <2> HIDE DEF rec
  <2> QED BY <1>4, <2>1
<1> HIDE DEF me
<1>9. \/ RejectSave(t) \/ Did(t, me)
      \/ \E h : Did(t, [me EXCEPT !.held = h])
      \/ \E n : Did(t, [me EXCEPT !.sid = n])
    BY DEF StoreCall, DoRead, DoSave, DoAdd, DoMark, DoInterrupt, DoNotify, DoBlocker,
           DoClear, DoSend, DoSubmit, DoRestart, DoBind, me
<1> QED BY <1>5, <1>6, <1>7, <1>8, <1>9 DEF me

\* Where the engine goes from where: past the dependency check, or short of it,
\* and from the lease alone to the executor.
LEMMA EngineMoves ==
    ASSUME TypeOK, NEW e \in Execs, EngineStep(e)
    PROVE  /\ \A u \in Threads \ {e} : th'[u] = th[u]
           /\ \/ th'[e].pc \in {"ret", "raise", "idle"}
              \/ ~Pending(e[1]) \/ Driving(e)
           /\ th'[e].pc = "exec" => th'[e].todo = Start
<1>1. e \in Threads /\ th[e] \in Thread
    BY ExecOK
<1> DEFINE Goes == /\ \A u \in Threads \ {e} : th'[u] = th[u]
                   /\ th'[e].pc # "exec"
           Short == th'[e].pc \in {"ret", "raise", "idle"}
<1>2. ASSUME NEW held, NEW pc, NEW calls, pc # "exec",
             \/ Only(e, held, pc, calls) \/ Pressed(e, held, pc, calls)
             \/ Segment(e, held, pc, calls)
      PROVE  Goes /\ (pc = "ret" => Short)
  <2>1. Segment(e, held, pc, calls)
      BY <1>2 DEF Only, Pressed
  <2> QED BY <1>1, <1>2, <2>1, SegmentMoves, ThreadFacts DEF OthersKeep
<1>3. Raise(e) => Goes /\ Short
    BY <1>1, RaiseMoves DEF OthersKeep
<1>4. CASE AdvanceStopped(e)
    BY <1>2, <1>4 DEF AdvanceStopped
<1>5. CASE AdvanceDependent(e)
    BY <1>2, <1>5 DEF AdvanceDependent
<1>6. CASE Advance(e)
    BY <1>2, <1>6 DEF Advance, Admission
<1>7. CASE Admit(e)
    BY <1>2, <1>7 DEF Admit, Admission, Continues, Driving
<1>8. CASE \/ DecideTooLate(e) \/ BrainUnavailable(e) \/ BrainFails(e)
           \/ BrainCompletes(e) \/ BrainAsks(e) \/ BrainActs(e)
  <2>1. Driving(e)
      BY <1>8 DEF DecideTooLate, BrainUnavailable, BrainFails, BrainCompletes, BrainAsks,
                  BrainActs, Decides, Resumes, Driving
  <2>2. DecideTooLate(e) \/ BrainFails(e) \/ BrainActs(e) => Goes
      BY <1>2 DEF DecideTooLate, BrainFails, BrainActs
  <2>3. BrainUnavailable(e) \/ BrainCompletes(e) \/ BrainAsks(e) => Goes
      BY <1>2 DEF BrainUnavailable, BrainCompletes, BrainAsks
  <2> QED BY <1>8, <2>1, <2>2, <2>3
<1>9. CASE LeaseRefused(e) \/ StepDone(e) \/ StepAsks(e) \/ StepFails(e) \/ FailBounded(e)
  <2>1. \E held, calls : Only(e, held, "ret", calls) \/ Pressed(e, held, "ret", calls)
      BY <1>9 DEF LeaseRefused, StepDone, StepAsks, StepFails, FailBounded
  <2> QED BY <1>2, <2>1
<1>10. CASE Executed(e)
  <2>1. Driving(e)
      BY <1>10 DEF Executed, Resumes, Driving
  <2>2. \E pc \in {"done", "settle", "asking"} : \E held, calls : Segment(e, held, pc, calls)
      BY <1>10 DEF Executed
  <2> QED BY <1>2, <2>1, <2>2
<1>11. CASE ApplyPlain(e) \/ ApplySealed(e)
  <2>1. Raise(e) \/ \E held, calls : Segment(e, held, "ret", calls)
      BY <1>11 DEF ApplyPlain, ApplySealed, Only
  <2> QED BY <1>2, <1>3, <2>1
<1>12. CASE Leased(e)
  <2>1. Driving(e)
      BY <1>12 DEF Leased, Resumes, Driving
  <2>2. CASE \E held, calls : Only(e, held, "ret", calls) \/ Pressed(e, held, "ret", calls)
      BY <1>2, <2>2
  <2>3. CASE th' = [th EXCEPT ![e] = [@ EXCEPT !.pc = "exec", !.held = item[e[1]],
                                               !.todo = Start]]
    <3> DEFINE rec == [th[e] EXCEPT !.pc = "exec", !.held = item[e[1]], !.todo = Start]
    <3>1. rec.todo = Start
        BY <1>1 DEF Thread
    <3>2. th' = [th EXCEPT ![e] = rec]
        BY <2>3
    <3> HIDE DEF rec
    <3>3. th'[e] = rec /\ \A u \in Threads \ {e} : th'[u] = th[u]
        BY <1>1, <3>2 DEF TypeOK, ThreadsOK
    <3> QED BY <2>1, <3>1, <3>3
  <2> QED BY <1>12, <2>2, <2>3 DEF Leased, Start
<1> QED BY <1>4, <1>5, <1>6, <1>7, <1>8, <1>9, <1>10, <1>11, <1>12 DEF EngineStep

\* A step of the whole runtime moves an execution by its own action, or stops it.
LEMMA NextMoves ==
    ASSUME TypeOK, [Next]_vars, NEW e \in Execs
    PROVE  \/ th'[e] = th[e]
           \/ StoreCall(e) \/ EngineStep(e)
           \/ /\ WorkflowStep(e) \/ Crash
              /\ th'[e].pc = "idle" /\ th'[e].todo = <<>> /\ th'[e].sid = 0
<1>1. e \in Threads /\ e # Main /\ Main \in Threads
    BY ThreadFacts
<1>2. ASSUME NEW t \in Threads, StoreCall(t), t # e PROVE th'[e] = th[e]
    BY <1>1, <1>2, StoreCallMoves DEF OthersKeep
<1>3. ASSUME NEW f \in Execs, EngineStep(f), f # e PROVE th'[e] = th[e]
    BY <1>1, <1>3, EngineMoves
<1>4. ASSUME NEW f \in Execs, WorkflowStep(f)
      PROVE  \/ th'[e] = th[e]
             \/ f = e /\ th'[e].pc = "idle" /\ th'[e].todo = <<>> /\ th'[e].sid = 0
  <2>1. Idle(f[1]) = [Idle(f[1]) EXCEPT !.tries = 0]
      BY DEF Idle
  <2>2. th' = th \/ \E n : th' = [th EXCEPT ![f] = [Idle(f[1]) EXCEPT !.tries = n]]
      BY <1>4, <2>1 DEF WorkflowStep, StepReturns, StepRaises, ReceiveAnswer, ReceiveControl,
                        volatile
  <2>3. ASSUME NEW n, th' = [th EXCEPT ![f] = [Idle(f[1]) EXCEPT !.tries = n]]
        PROVE  \/ th'[e] = th[e]
               \/ f = e /\ th'[e].pc = "idle" /\ th'[e].todo = <<>> /\ th'[e].sid = 0
    <3> DEFINE rec == [Idle(f[1]) EXCEPT !.tries = n]
    <3>1. rec.pc = "idle" /\ rec.todo = <<>> /\ rec.sid = 0
        BY DEF Idle
    <3>2. th' = [th EXCEPT ![f] = rec]
        BY <2>3
    <3> HIDE DEF rec
    <3> QED BY <1>1, <3>1, <3>2 DEF TypeOK, ThreadsOK
  <2> QED BY <2>2, <2>3
<1>5. (\E rec : Run(Main, rec)) => th'[e] = th[e]
    BY <1>1, RunMoves DEF OthersKeep
<1>6. OwnerStep => th'[e] = th[e]
    BY <1>5 DEF OwnerStep, OwnerStart, OwnerPause, OwnerResume, OwnerCancel, OwnerRetry,
                OwnerReprioritize, OwnerAnswer, Command, volatile
<1>7. MainStep => th'[e] = th[e]
  <2>1. BootStart => th'[e] = th[e]
      BY <1>1 DEF BootStart, TypeOK, ThreadsOK
  <2>2. BootLaunch => th'[e] = th[e]
      BY DEF BootLaunch, volatile
  <2>3. CancelAgain => th'[e] = th[e]
      BY <1>5 DEF CancelAgain, Only, Segment
  <2>4. BootResubmit => th'[e] = th[e]
      BY <1>5 DEF BootResubmit
  <2>5. \A w \in Works : BootInterrupted(w) => th'[e] = th[e]
      BY <1>5 DEF BootInterrupted
  <2> QED BY <2>1, <2>2, <2>3, <2>4, <2>5 DEF MainStep
<1>8. BackendFault(Main) => th'[e] = th[e]
    BY <1>5 DEF BackendFault
<1>9. Crash => th'[e].pc = "idle" /\ th'[e].todo = <<>> /\ th'[e].sid = 0
  <2>1. \A x : Idle(x).pc = "idle" /\ Idle(x).todo = <<>> /\ Idle(x).sid = 0
      BY DEF Idle
  <2> QED BY <1>1, <2>1 DEF Crash
<1>10. UNCHANGED vars => th'[e] = th[e]
    BY DEF vars
<1> QED BY <1>2, <1>3, <1>4, <1>6, <1>7, <1>8, <1>9, <1>10 DEF Next

-----------------------------------------------------------------------------
(* What executors start for *)

\* The last save before an executor starts is made of a running item.
LEMMA StartsRunning ==
    ASSUME Execution, [Next]_vars, NEW e \in Execs, Executing(e)', ~Executing(e)
    PROVE  item'[e[1]].state = "running"
<1>1. TypeOK /\ e \in Threads /\ th[e].w = e[1] /\ e[1] \in Works /\ th[e] \in Thread
    BY ExecOK DEF Execution, Versions
<1>2. th'[e].pc = "exec" /\ th'[e].todo = <<>> /\ th'[e] # th[e]
    BY DEF Executing
<1>3. ~EngineStep(e)
    BY <1>1, <1>2, EngineMoves, StartCalls
<1>4. StoreCall(e)
    BY <1>1, <1>2, <1>3, NextMoves
<1>5. th[e].pc = "exec" /\ Tail(th[e].todo) = <<>> /\ th[e].todo # <<>>
    BY <1>1, <1>2, <1>4, StoreCallMoves, CallBasics
<1>6. th[e].todo = <<Touch("own")>> /\ th[e].held.state = "running"
  <2>1. th[e].todo \notin {Start, Tail(Start), Tail(Tail(Start))}
      BY <1>5, StartCalls, Zenon
  <2> QED BY <1>5, <2>1 DEF Execution, Shaped, OnItsRow
<1>7. Head(th[e].todo).op = "touch"
    BY <1>6, StartCalls
<1>8. DoSave(e) \/ RejectSave(e)
    BY <1>4, <1>7 DEF StoreCall, DoRead, DoAdd, DoMark, DoInterrupt, DoNotify, DoBlocker,
                      DoClear, DoSend, DoSubmit, DoRestart, DoBind, Calls
<1>9. ~RejectSave(e)
  <2>1. RejectSave(e) => Raise(e)
      BY <1>5 DEF RejectSave
  <2> QED BY <1>1, <1>2, <2>1, RaiseMoves
<1>10. PutItem(e[1], WithProgress(th[e].held, StepArg(th[e], Head(th[e].todo).b)))
    BY <1>1, <1>7, <1>8, <1>9 DEF DoSave, NewRecord
<1>11. \A n : WithProgress(th[e].held, n).state = "running"
    BY <1>1, <1>6 DEF WithProgress, Thread, Item
<1> QED BY <1>1, <1>10, <1>11 DEF PutItem, TypeOK, StoreOK

\* No executor starts for an item that was paused, cancelled or failed while it
\* waited for the brain or the lease, whatever was interleaved.
THEOREM ExecutorsStartForRunningWork == Spec => StartsOnlyRunningWork
<1>1. Execution /\ [Next]_vars
        => [\A e \in Execs : Executing(e)' /\ ~Executing(e)
                => item'[e[1]].state = "running"]_vars
    BY StartsRunning
<1> QED BY <1>1, ExecutionInitially, ExecutionNext, PTL DEF Spec, StartsOnlyRunningWork

-----------------------------------------------------------------------------
(* Dependencies *)

\* The table lets no item leave "completed".
LEMMA CompletedStays ==
    ASSUME Versions, [Next]_vars, NEW w \in Works, item[w].state = "completed"
    PROVE  item'[w].state = "completed"
<1>1. ItemEffect
    BY NextEffect DEF Effects
<1>2. ASSUME NEW v \in Works, NEW new \in Item, item' = [item EXCEPT ![v] = new],
             Successor(item[v], new)
      PROVE  item'[w] = item[w]
  <2>1. Allowed["completed"] = {}
      BY DEF Allowed, WorkStates, Terminal, Waiting
  <2>2. v # w
      BY <1>2, <2>1 DEF Successor, Absent, Terminal
  <2> QED BY <1>2, <2>2 DEF Versions, TypeOK, StoreOK
<1> QED BY <1>1, <1>2 DEF ItemEffect

\* From the dependency check to the end of the cycle everything the item
\* depends on has completed.
DependenciesHold == \A e \in Execs : Driving(e) => ~Pending(e[1])

Dependable == Versions /\ DependenciesHold

LEMMA DependableNext == Dependable /\ [Next]_vars => Dependable'
<1> SUFFICES ASSUME Dependable, [Next]_vars, NEW e \in Execs, Driving(e)'
             PROVE  ~Pending(e[1])'
    BY VersionsNext DEF Dependable, DependenciesHold
<1>1. Versions /\ TypeOK /\ e \in Threads /\ e[1] \in Works
    BY ExecOK DEF Dependable, Versions
<1>2. th'[e].pc \notin {"idle", "raise", "ret", "cancel"}
    BY DEF Driving
<1>3. ~Pending(e[1])
  <2>1. CASE th'[e] = th[e]
      BY <2>1 DEF Driving, Dependable, DependenciesHold
  <2>2. CASE StoreCall(e)
    <3>1. th'[e].pc = th[e].pc
        BY <1>1, <1>2, <2>2, StoreCallMoves
    <3> QED BY <3>1 DEF Driving, Dependable, DependenciesHold
  <2>3. CASE EngineStep(e)
      BY <1>1, <1>2, <2>3, EngineMoves DEF Dependable, DependenciesHold
  <2> QED BY <1>1, <1>2, <2>1, <2>2, <2>3, NextMoves
<1>4. Deps[e[1]] \subseteq Works
    BY <1>1, DepsAssumption
<1>5. \A d \in Deps[e[1]] : item'[d].state = "completed"
    BY <1>1, <1>3, <1>4, CompletedStays DEF Pending
<1> QED BY <1>5 DEF Pending

\* An executor runs only when all its item depends on has completed, for any
\* dependency graph: one that completed cannot become undone in between.
THEOREM DependenciesComeFirst == Spec => []DependenciesFirst
<1>1. Init => Dependable
  <2> SUFFICES ASSUME Init, NEW e \in Execs PROVE ~Driving(e)
      BY VersionsInitially DEF Dependable, DependenciesHold
  <2>1. th[e] = Idle(e[1])
      BY ThreadFacts DEF Init
  <2> QED BY <2>1 DEF Driving, Idle
<1>2. Dependable => DependenciesFirst
    BY DEF Dependable, DependenciesHold, DependenciesFirst, Executing, Driving, Pending
<1> QED BY <1>1, <1>2, DependableNext, PTL DEF Spec

-----------------------------------------------------------------------------
(* Items that are paused *)

\* The thread has the event loop, if its step runs there.
Busy(rec) == ~Returned(rec) /\ ~Awaits(rec)

LoopHeld == \A t \in Threads : OnLoop(t) /\ Busy(th[t]) => loop = t

\* Program points inside advance.
Inside == {"admit", "brain", "failing", "lease", "exec", "done", "settle", "asking"}

Placed(e) ==
    /\ th[e].pc \in Inside \cup {"idle", "ret", "raise"}
    /\ th[e].pc \in Inside => wf[e].at = "advance"
    /\ th[e].pc \in {"idle", "raise"} => th[e].todo = <<>>

\* A save that could take a paused item on.
Risky(o) == o.op = "move" /\ o.a \in Allowed["paused"]

\* No other save comes before it, and neither what the thread holds nor, if it
\* reads again, the row is paused.
Guarded(q, held, row) ==
    \A i \in DOMAIN q : Risky(q[i]) =>
        /\ held.state # "paused"
        /\ \A j \in 1 .. (i - 1) : q[j].op # "move"
        /\ (\E j \in 1 .. (i - 1) : q[j].op = "read") => row.state # "paused"

\* Calls that only advance makes, on the event loop.
Loopy(q) == \E i \in DOMAIN q : q[i].op = "read" \/ (q[i].op = "move" /\ q[i].a = "paused")

Careful(e) ==
    /\ Loopy(th[e].todo) => wf[e].at = "advance"
    /\ Guarded(th[e].todo, th[e].held, item[e[1]])

\* Startup moves interrupted items that are not paused, and no others.
StartupCall(o, held) ==
    /\ o.op \in {"interrupt", "touch", "move", "notify"}
    /\ o.op = "move" => o.a = "waiting_for_owner" /\ held.state # "paused"

Starting ==
    /\ up = "down" => th[Main].pc = "idle" /\ th[Main].todo = <<>>
    /\ up = "starting" =>
          \/ /\ th[Main].pc = "boot"
             /\ \A i \in DOMAIN th[Main].todo : StartupCall(th[Main].todo[i], th[Main].held)
          \/ th[Main].pc = "raise" /\ th[Main].todo = <<>>

Pausing == Execution /\ LoopHeld /\ Starting /\ \A e \in Execs : Placed(e) /\ Careful(e)

-----------------------------------------------------------------------------
(* Who writes the state of an item *)

LEMMA PausedTable ==
    Allowed["paused"] = {"waiting_resource", "waiting_dependency", "waiting_until",
                         "waiting_for_owner", "queued", "running", "cancelled"}
BY DEF Allowed, WorkStates, Waiting, Terminal

\* A thread saves the record it holds, which is the row.
SavesAs(t, w, to) ==
    /\ DoSave(t) /\ th[t].w = w /\ th[t].held = item[w]
    /\ Head(th[t].todo).op = "move" /\ Head(th[t].todo).a = to
    /\ to \in Allowed[item[w].state]

\* States change by a save, the creation of the item, or a sealed answer.
LEMMA StateChanges ==
    ASSUME Versions, [Next]_vars, NEW w \in Works, item'[w].state # item[w].state
    PROVE  \/ \E t \in Threads : SavesAs(t, w, item'[w].state)
           \/ item[w].state \in {"absent", "waiting_for_owner"}
              /\ item'[w].state \in {"queued", "running"}
<1>1. TypeOK /\ item \in [Works -> Item]
    BY DEF Versions, TypeOK, StoreOK
<1>2. ASSUME NEW t \in Threads, StoreCall(t)
      PROVE  SavesAs(t, w, item'[w].state)
  <2>1. DoSave(t)
      BY <1>2 DEF StoreCall, DoRead, RejectSave, DoAdd, DoMark, DoInterrupt, DoNotify,
                  DoBlocker, DoClear, DoSend, DoSubmit, DoRestart, DoBind, storeVars
  <2> DEFINE me == th[t]
             o  == Head(th[t].todo)
  <2>2. me \in Thread /\ me.w \in Works /\ o \in Call
      BY <1>1, <2>1, CallFacts DEF DoSave, Calls, TypeOK
  <2>3. /\ o.op \in {"move", "touch"} /\ Permitted(me, o) /\ Fresh(me.w, me.held)
        /\ item' = [item EXCEPT ![me.w] = NewRecord(me, o)]
      BY <2>1 DEF DoSave, Calls, PutItem
  <2>4. me.held = item[me.w]
      BY <2>2, <2>3 DEF Versions, HeldIsTrueOrStale, Fresh
  <2>5. me.w = w /\ item'[w] = NewRecord(me, o)
      BY <1>1, <2>2, <2>3
  <2>6. o.op # "touch"
    <3>1. \A n : WithProgress(me.held, n).state = me.held.state
        BY <2>2 DEF WithProgress, Thread, Item
    <3> QED BY <2>4, <2>5, <3>1 DEF NewRecord
  <2>7. o.op = "move" /\ item'[w] = Transition(item[w], o.a, StepArg(me, o.b))
      BY <2>3, <2>4, <2>5, <2>6 DEF NewRecord
  <2>8. o.a # item[w].state /\ item'[w].state = o.a
      BY <2>7 DEF Transition
  <2>9. o.a \in Allowed[item[w].state]
      BY <2>3, <2>4, <2>5, <2>7, <2>8 DEF Permitted, CanMove
  <2> QED BY <2>1, <2>4, <2>5, <2>7, <2>8, <2>9 DEF SavesAs
<1>3. ASSUME NEW e \in Execs, EngineStep(e)
      PROVE  item[w].state = "waiting_for_owner" /\ item'[w].state = "running"
  <2>1. ApplySealed(e)
      BY <1>3 DEF EngineStep, AdvanceStopped, AdvanceDependent, Advance, Admit, Admission,
             DecideTooLate, BrainUnavailable, BrainFails, BrainCompletes, BrainAsks,
             BrainActs, Leased, LeaseRefused, Executed, StepDone, StepAsks, StepFails,
             ApplyPlain, FailBounded, Only, Pressed, storeVars
  <2>2. /\ item' = [item EXCEPT ![e[1]] = Transition(item[e[1]], "running", 0)]
        /\ item[e[1]].state = "waiting_for_owner"
      BY <2>1 DEF ApplySealed, PutItem, AnswersNow
  <2>3. w = e[1] /\ item'[w] = Transition(item[w], "running", 0)
      BY <1>1, <2>2, ExecOK
  <2> QED BY <2>2, <2>3 DEF Transition
<1>4. ASSUME OwnerStep
      PROVE  item[w].state = "absent" /\ item'[w].state = "queued"
  <2>1. PICK v \in Works : OwnerStart(v)
      BY <1>4 DEF OwnerStep, OwnerPause, OwnerResume, OwnerCancel, OwnerRetry,
             OwnerReprioritize, OwnerAnswer, storeVars
  <2>2. item' = [item EXCEPT ![v] = NewItem] /\ item[v].state = "absent"
      BY <2>1 DEF OwnerStart, PutItem, Exists
  <2> QED BY <1>1, <2>2 DEF NewItem
<1>5. ~(\E e \in Execs : WorkflowStep(e)) /\ ~MainStep /\ ~BackendFault(Main) /\ ~Crash
      /\ ~UNCHANGED vars
    BY DEF WorkflowStep, StepReturns, StepRaises, ReceiveAnswer, ReceiveControl, MainStep,
           CancelAgain, BootStart, BootLaunch, BootResubmit, BootInterrupted, BackendFault,
           Crash, Only, storeVars, vars
<1> QED BY <1>2, <1>3, <1>4, <1>5 DEF Next

-----------------------------------------------------------------------------
(* The event loop *)

LEMMA IdleIsFree == \A x : ~Busy(Idle(x)) /\ Idle(x).pc = "idle" /\ Idle(x).todo = <<>>
BY DEF Busy, Returned, Idle

LEMMA RunHolds ==
    ASSUME TypeOK, LoopHeld, NEW t \in Threads, NEW rec, Run(t, rec),
           OnLoop(t) => loop \in {t, Free},
           \A e \in Execs : wf'[e].at = wf[e].at
    PROVE  LoopHeld'
<1>1. \A u \in Threads : OnLoop(u)' <=> OnLoop(u)
    BY ThreadFacts DEF OnLoop
<1>2. /\ \A u \in Threads \ {t} : th'[u] = th[u]
      /\ th'[t] = rec \/ ~Busy(th'[t])
    BY RunMoves, IdleIsFree DEF OthersKeep
<1>3. loop' = IF ~OnLoop(t) THEN loop ELSE IF ~Busy(rec) THEN Free ELSE t
    BY DEF Run, Busy
<1>4. Free \notin Threads
    BY FreeAssumption DEF Threads, Main
<1> SUFFICES ASSUME NEW u \in Threads, OnLoop(u), Busy(th'[u]) PROVE loop' = u
    BY <1>1 DEF LoopHeld
<1>5. CASE u = t
    BY <1>2, <1>3, <1>5
<1>6. CASE u # t
  <2>1. loop = u
      BY <1>2, <1>6 DEF LoopHeld
  <2> QED BY <1>3, <1>4, <1>6, <2>1
<1> QED BY <1>5, <1>6

\* A pending call keeps a thread busy, and at most one thread on the loop.
LEMMA CallsAreBusy == \A rec : rec.todo # <<>> => Busy(rec)
BY DEF Busy, Returned, Awaits

LEMMA StoreCallRuns ==
    ASSUME NEW t \in Threads, StoreCall(t)
    PROVE  /\ \E rec : Run(t, rec)
           /\ th[t].todo # <<>>
           /\ up # "down" /\ up' = up
<1>1. Raise(t) => \E rec : Run(t, rec)
    BY DEF Raise
<1>2. ASSUME NEW me, Did(t, me) PROVE \E rec : Run(t, rec)
    BY <1>2 DEF Did
<1> QED BY <1>1, <1>2
        DEF StoreCall, DoRead, DoSave, RejectSave, DoAdd, DoMark, DoInterrupt, DoNotify,
            DoBlocker, DoClear, DoSend, DoSubmit, DoRestart, DoBind, Calls, env

\* No call moves a workflow on.
LEMMA StoreCallWf ==
    ASSUME TypeOK, NEW t \in Threads, StoreCall(t), NEW e \in Execs
    PROVE  wf'[e].at = wf[e].at
<1>1. ASSUME NEW f, Submit(f) PROVE wf'[e].at = wf[e].at
    BY <1>1 DEF Submit, TypeOK, DbosOK, Workflow
<1> QED BY <1>1 DEF StoreCall, DoRead, DoSave, RejectSave, DoAdd, DoMark, DoInterrupt, DoNotify,
               DoBlocker, DoClear, DoSend, DoSubmit, DoRestart, DoBind, dbosVars

LEMMA StoreCallHolds ==
    ASSUME TypeOK, LoopHeld, NEW t \in Threads, StoreCall(t)
    PROVE  LoopHeld'
BY StoreCallRuns, StoreCallWf, CallsAreBusy, RunHolds DEF LoopHeld

\* A segment of the engine takes the loop only when it is free or its own.
LEMMA EngineLoop ==
    ASSUME LoopHeld, NEW e \in Execs, Placed(e), EngineStep(e), OnLoop(e)
    PROVE  loop \in {e, Free}
<1>1. wf[e].at = "advance" /\ e \in Threads
    BY ThreadFacts DEF OnLoop
<1>2. ASSUME NEW pc \in {"admit", "failing", "done", "settle", "asking"}, Continues(e, pc)
      PROVE  loop = e
  <2>1. Busy(th[e])
      BY <1>2 DEF Continues, Busy, Returned, Awaits
  <2> QED BY <1>1, <2>1 DEF LoopHeld
<1>3. ~ApplyPlain(e) /\ ~ApplySealed(e) /\ ~FailBounded(e)
    BY <1>1 DEF ApplyPlain, ApplySealed, FailBounded, AtStep
<1>4. CASE AdvanceStopped(e) \/ AdvanceDependent(e) \/ Advance(e)
    BY <1>4 DEF AdvanceStopped, AdvanceDependent, Advance
<1>5. CASE \/ DecideTooLate(e) \/ BrainUnavailable(e) \/ BrainFails(e)
           \/ BrainCompletes(e) \/ BrainAsks(e) \/ BrainActs(e)
           \/ Leased(e) \/ LeaseRefused(e) \/ Executed(e)
    BY <1>5 DEF DecideTooLate, BrainUnavailable, BrainFails, BrainCompletes, BrainAsks,
                BrainActs, Decides, Leased, LeaseRefused, Executed, Resumes
<1>6. CASE Admit(e) \/ StepDone(e) \/ StepAsks(e) \/ StepFails(e)
    BY <1>2, <1>6 DEF Admit, StepDone, StepAsks, StepFails
<1> QED BY <1>3, <1>4, <1>5, <1>6 DEF EngineStep

LEMMA EngineRuns ==
    ASSUME NEW e \in Execs, EngineStep(e)
    PROVE  /\ wf' = wf
           /\ \/ \E rec : Run(e, rec)
              \/ Leased(e) /\ loop = Free /\ loop' = e
<1>1. /\ Raise(e) => \E rec : Run(e, rec)
      /\ \A held, pc, calls : Segment(e, held, pc, calls) => \E rec : Run(e, rec)
    BY DEF Raise, Segment
<1>2. \A held, pc, calls : \/ Only(e, held, pc, calls) \/ Pressed(e, held, pc, calls)
                           => wf' = wf /\ \E rec : Run(e, rec)
    BY <1>1 DEF Only, Pressed, dbosVars
<1>3. CASE AdvanceStopped(e) \/ AdvanceDependent(e) \/ Advance(e) \/ Admit(e)
    BY <1>2, <1>3 DEF AdvanceStopped, AdvanceDependent, Advance, Admit, Admission
<1>4. CASE DecideTooLate(e) \/ BrainUnavailable(e) \/ BrainFails(e)
    BY <1>2, <1>4 DEF DecideTooLate, BrainUnavailable, BrainFails
<1>5. CASE BrainCompletes(e) \/ BrainAsks(e) \/ BrainActs(e)
    BY <1>2, <1>5 DEF BrainCompletes, BrainAsks, BrainActs
<1>6. CASE Leased(e)
    BY <1>2, <1>6 DEF Leased, Resumes, dbosVars
<1>7. CASE LeaseRefused(e) \/ StepDone(e) \/ StepAsks(e) \/ StepFails(e) \/ FailBounded(e)
    BY <1>2, <1>7 DEF LeaseRefused, StepDone, StepAsks, StepFails, FailBounded
<1>8. CASE Executed(e) \/ ApplyPlain(e) \/ ApplySealed(e)
    BY <1>1, <1>2, <1>8 DEF Executed, ApplyPlain, ApplySealed, dbosVars
<1> QED BY <1>3, <1>4, <1>5, <1>6, <1>7, <1>8 DEF EngineStep

LEMMA EngineHolds ==
    ASSUME TypeOK, LoopHeld, NEW e \in Execs, Placed(e), EngineStep(e)
    PROVE  LoopHeld'
<1>1. e \in Threads /\ wf' = wf
    BY ThreadFacts, EngineRuns
<1>2. CASE \E rec : Run(e, rec)
    BY <1>1, <1>2, EngineLoop, RunHolds
<1>3. CASE Leased(e) /\ loop = Free /\ loop' = e
  <2>1. \A u \in Threads \ {e} : th'[u] = th[u] /\ (OnLoop(u)' <=> OnLoop(u))
      BY <1>1, EngineMoves DEF OnLoop
  <2>2. Free \notin Threads
      BY FreeAssumption DEF Threads, Main
  <2> SUFFICES ASSUME NEW u \in Threads \ {e}, OnLoop(u)', Busy(th'[u]) PROVE FALSE
      BY <1>3 DEF LoopHeld
  <2>3. loop = u
      BY <2>1 DEF LoopHeld
  <2> QED BY <1>3, <2>2, <2>3
<1> QED BY <1>2, <1>3, EngineRuns

-----------------------------------------------------------------------------
(* The calls an execution leaves to make *)

Mild(q) == \A i \in DOMAIN q : ~Risky(q[i])

\* At most one save, before which nothing is saved, could take a paused item on.
Single(q) == \A i \in DOMAIN q : Risky(q[i]) => \A j \in 1 .. (i - 1) : q[j].op # "move"

LEMMA GuardedLists ==
    ASSUME NEW q, NEW held, NEW row
    PROVE  /\ Mild(q) => Guarded(q, held, row)
           /\ Single(q) /\ held.state # "paused" /\ row.state # "paused"
                => Guarded(q, held, row)
BY DEF Mild, Single, Guarded

LEMMA MildLists ==
    /\ Mild(<<>>) /\ ~Loopy(<<>>)
    /\ \A a : ~Risky(a) => Mild(<<a>>)
    /\ \A a, b : ~Risky(a) /\ ~Risky(b) => Mild(<<a, b>>)
    /\ \A a, b, c : ~Risky(a) /\ ~Risky(b) /\ ~Risky(c) => Mild(<<a, b, c>>)
    /\ \A a, b, c, d : ~Risky(a) /\ ~Risky(b) /\ ~Risky(c) /\ ~Risky(d)
         => Mild(<<a, b, c, d>>)
BY DEF Mild, Loopy

\* Only the first call could take a paused item on.
LEMMA LedLists ==
    ASSUME NEW held, held.state # "paused", NEW row,
           NEW m, NEW b, ~Risky(b), NEW c, ~Risky(c), NEW d, ~Risky(d)
    PROVE  /\ Guarded(<<m>>, held, row) /\ Guarded(<<m, b>>, held, row)
           /\ Guarded(<<m, b, c>>, held, row) /\ Guarded(<<m, b, c, d>>, held, row)
BY DEF Guarded

LEMMA LateLists ==
    ASSUME NEW a, a.op # "move", NEW b, b.op # "move", NEW c, c.op # "move",
           NEW m, NEW d, ~Risky(d)
    PROVE  /\ Single(<<a, b, m>>) /\ Single(<<a, b, c, m>>)
           /\ Single(<<a, b, c, m, d>>)
<1>1. ~Risky(a) /\ ~Risky(b) /\ ~Risky(c)
    BY DEF Risky
<1> DEFINE q3 == <<a, b, m>>
           q4 == <<a, b, c, m>>
           q5 == <<a, b, c, m, d>>
<1>2. /\ DOMAIN q3 = 1 .. 3 /\ q3[1] = a /\ q3[2] = b /\ q3[3] = m
      /\ DOMAIN q4 = 1 .. 4 /\ q4[1] = a /\ q4[2] = b /\ q4[3] = c /\ q4[4] = m
      /\ DOMAIN q5 = 1 .. 5 /\ q5[1] = a /\ q5[2] = b /\ q5[3] = c /\ q5[4] = m /\ q5[5] = d
    OBVIOUS
<1> HIDE DEF q3, q4, q5
<1>3. Single(q3)
  <2>1. \A i \in 1 .. 3 : i = 1 \/ i = 2 \/ i = 3
      OBVIOUS
  <2>2. \A j \in 1 .. 2 : j = 1 \/ j = 2
      OBVIOUS
  <2> QED BY <1>1, <1>2, <2>1, <2>2 DEF Single
<1>4. Single(q4)
  <2>1. \A i \in 1 .. 4 : i = 1 \/ i = 2 \/ i = 3 \/ i = 4
      OBVIOUS
  <2>2. \A j \in 1 .. 3 : j = 1 \/ j = 2 \/ j = 3
      OBVIOUS
  <2> QED BY <1>1, <1>2, <2>1, <2>2 DEF Single
<1>5. Single(q5)
  <2>1. \A i \in 1 .. 5 : i = 1 \/ i = 2 \/ i = 3 \/ i = 4 \/ i = 5
      OBVIOUS
  <2>2. \A j \in 1 .. 3 : j = 1 \/ j = 2 \/ j = 3
      OBVIOUS
  <2> QED BY <1>1, <1>2, <2>1, <2>2 DEF Single
<1> QED BY <1>3, <1>4, <1>5 DEF q3, q4, q5

LEMMA CallOps ==
    /\ Read.op = "read" /\ Notify.op = "notify" /\ Blocker.op = "blocker" /\ Clear.op = "clear"
    /\ Interrupt.op = "interrupt"
    /\ \A to, s : Move(to, s).op = "move" /\ Move(to, s).a = to
    /\ \A s : Touch(s).op = "touch"
    /\ \A k : Add(k).op = "add"
    /\ \A st, obs : Mark(st, obs).op = "mark"
BY DEF Op, Read, Notify, Blocker, Clear, Interrupt, Move, Touch, Add, Mark

\* No other call than a move is risky, nor one to a state a paused item cannot
\* be taken to.
LEMMA NotRisky ==
    /\ ~Risky(Read) /\ ~Risky(Notify) /\ ~Risky(Blocker) /\ ~Risky(Clear)
    /\ \A s : ~Risky(Touch(s))
    /\ \A k : ~Risky(Add(k))
    /\ \A st, obs : ~Risky(Mark(st, obs))
    /\ \A s : \A to \in {"failed", "retrying", "paused", "completed"} : ~Risky(Move(to, s))
BY CallOps, PausedTable DEF Risky

-----------------------------------------------------------------------------
(* The engine takes care *)

LEMMA SegmentCareful ==
    ASSUME TypeOK, NEW e \in Execs, NEW held, NEW pc, NEW calls, Segment(e, held, pc, calls),
           wf' = wf, pc = "ret" \/ (pc \in Inside /\ wf[e].at = "advance"),
           Loopy(calls) => wf[e].at = "advance",
           Guarded(calls, held, item'[e[1]])
    PROVE  Placed(e)' /\ Careful(e)'
<1>1. th'[e].pc = pc /\ th'[e].todo = calls /\ th'[e].held = held
    BY ThreadFacts, SegmentMoves
<1>2. "ret" \notin Inside /\ "idle" \notin Inside /\ "raise" \notin Inside
    BY DEF Inside
<1> QED BY <1>1, <1>2 DEF Placed, Careful

LEMMA AdvanceCareful ==
    ASSUME TypeOK, NEW e \in Execs, NEW held, NEW pc \in Inside \cup {"ret"}, NEW calls,
           Only(e, held, pc, calls) \/ Pressed(e, held, pc, calls),
           wf[e].at = "advance", Guarded(calls, held, item[e[1]])
    PROVE  Placed(e)' /\ Careful(e)'
<1>1. Segment(e, held, pc, calls) /\ wf' = wf /\ item' = item
    BY DEF Only, Pressed, dbosVars, storeVars
<1> QED BY <1>1, SegmentCareful

LEMMA AdmissionCareful ==
    ASSUME TypeOK, NEW e \in Execs, NEW it, Admission(e, it), wf[e].at = "advance",
           ~Stopped(it)
    PROVE  Placed(e)' /\ Careful(e)'
<1>1. it.state # "paused" /\ {"ret", "brain"} \subseteq Inside \cup {"ret"}
    BY DEF Stopped, Inside
<1> DEFINE fails == <<Move("failed", "none"), Notify>>
           runs  == <<Move("running", "none")>>
<1>2. Mild(<<Notify>>) /\ Mild(<<Move("paused", "keep")>>) /\ Mild(fails) /\ Mild(<<>>)
    BY NotRisky, MildLists
<1>3. \A row : Guarded(runs, it, row) /\ Guarded(runs \o fails, it, row)
  <2>1. ~Risky(Move("failed", "none")) /\ ~Risky(Notify)
      BY NotRisky
  <2> SUFFICES ASSUME NEW a, NEW b, ~Risky(b), NEW c, ~Risky(c), NEW row
               PROVE  Guarded(<<a>>, it, row) /\ Guarded(<<a>> \o <<b, c>>, it, row)
      BY <2>1
  <2> DEFINE q == <<a>> \o <<b, c>>
  <2>2. DOMAIN q = 1 .. 3 /\ q[2] = b /\ q[3] = c
    <3>1. <<a>> \in Seq({a, b, c}) /\ <<b, c>> \in Seq({a, b, c})
        OBVIOUS
    <3>2. Len(<<a>>) = 1 /\ Len(<<b, c>>) = 2 /\ <<b, c>>[1] = b /\ <<b, c>>[2] = c
        OBVIOUS
    <3>3. /\ q \in Seq({a, b, c}) /\ Len(q) = 3
          /\ q[2] = <<b, c>>[2 - 1] /\ q[3] = <<b, c>>[3 - 1]
        BY <3>1, <3>2, ConcatProperties
    <3> HIDE DEF q
    <3> QED BY <3>2, <3>3, LenProperties
  <2> HIDE DEF q
  <2>3. Guarded(q, it, row)
    <3>1. \A i \in DOMAIN q : Risky(q[i]) => i = 1
        BY <2>2
    <3> QED BY <1>1, <3>1 DEF Guarded
  <2> QED BY <1>1, <2>3 DEF Guarded, q
<1>4. <<>> \o fails = fails
  <2>1. fails \in Seq({Move("failed", "none"), Notify})
      OBVIOUS
  <2> QED BY <2>1, ConcatEmptySeq
<1> HIDE DEF fails, runs
<1>5. \A row : /\ Guarded(MakeRunning(it), it, row)
               /\ Guarded(MakeRunning(it) \o fails, it, row)
    BY <1>2, <1>3, <1>4, GuardedLists DEF MakeRunning, runs
<1>6. \A row : Guarded(<<Notify>>, it, row) /\ Guarded(<<Move("paused", "keep")>>, it, row)
    BY <1>2, GuardedLists
<1> QED BY <1>1, <1>5, <1>6, AdvanceCareful DEF Admission, fails

LEMMA DependentCareful ==
    ASSUME TypeOK, NEW e \in Execs, Placed(e),
           AdvanceStopped(e) \/ AdvanceDependent(e) \/ Advance(e) \/ Admit(e)
    PROVE  Placed(e)' /\ Careful(e)'
<1>1. CASE AdvanceStopped(e)
  <2>1. \A held, row : Guarded(<<>>, held, row) /\ Guarded(<<Notify>>, held, row)
      BY NotRisky, MildLists, GuardedLists
  <2> QED BY <1>1, <2>1, AdvanceCareful DEF AdvanceStopped, AtStep
<1>2. CASE AdvanceDependent(e)
  <2> DEFINE it == item[e[1]]
  <2>1. wf[e].at = "advance" /\ it.state # "paused"
      BY <1>2 DEF AdvanceDependent, AtStep, Stopped
  <2>2. /\ Mild(<<>>) /\ Mild(<<Move("failed", "none"), Notify>>)
        /\ ~Risky(Read)
      BY NotRisky, MildLists
  <2>3. /\ Guarded(<<>>, it, it) /\ Guarded(<<Move("failed", "none"), Notify>>, it, it)
        /\ Guarded(<<Move("waiting_dependency", "none")>>, it, it)
        /\ Guarded(<<Move("running", "none"), Read>>, it, it)
      BY <2>1, <2>2, GuardedLists, LedLists
  <2> QED BY <1>2, <2>1, <2>3, AdvanceCareful DEF AdvanceDependent, Inside
<1>3. CASE Advance(e)
    BY <1>3, AdmissionCareful DEF Advance, AtStep
<1>4. CASE Admit(e)
  <2>1. wf[e].at = "advance"
      BY <1>4 DEF Admit, Continues, Placed, Inside
  <2>2. \A held, row : Guarded(<<>>, held, row)
      BY MildLists, GuardedLists
  <2> QED BY <1>4, <2>1, <2>2, AdvanceCareful, AdmissionCareful DEF Admit
<1> QED BY <1>1, <1>2, <1>3, <1>4

LEMMA FiveCalls ==
    \A a, b, c, d, f : <<a, b, c, d>> \o <<f>> = <<a, b, c, d, f>>
<1> TAKE a, b, c, d, f
<1> DEFINE S == {a, b, c, d, f}
           q == <<a, b, c, d>> \o <<f>>
           r == <<a, b, c, d, f>>
<1>1. <<a, b, c, d>> \in Seq(S) /\ <<f>> \in Seq(S) /\ r \in Seq(S)
    OBVIOUS
<1>2. Len(<<a, b, c, d>>) = 4 /\ Len(<<f>>) = 1
    OBVIOUS
<1>3. /\ q \in Seq(S) /\ Len(q) = Len(<<a, b, c, d>>) + Len(<<f>>)
      /\ \A i \in 1 .. Len(<<a, b, c, d>>) + Len(<<f>>) : q[i] = 
             IF i <= Len(<<a, b, c, d>>) THEN <<a, b, c, d>>[i] ELSE <<f>>[i - Len(<<a, b, c, d>>)]
    BY <1>1, ConcatProperties
<1> HIDE DEF q
<1>4. /\ Len(q) = 5 
      /\ q[1] = a /\ q[2] = b /\ q[3] = c /\ q[4] = d /\ q[5] = f
  <2>1. 4 + 1 = 5 /\ 5 - 4 = 1
    OBVIOUS
  <2>2. <<f>>[5 - 4] = f
    BY <2>1
  <2> QED
    BY <1>2, <1>3, <2>2
<1>5. /\ Len(r) = 5 
      /\ r[1] = a /\ r[2] = b /\ r[3] = c /\ r[4] = d /\ r[5] = f
    OBVIOUS
<1> HIDE DEF r, S
<1>6. \A i \in 1 .. 5 : i = 1 \/ i = 2 \/ i = 3 \/ i = 4 \/ i = 5
    OBVIOUS
<1>7. \A i \in 1 .. Len(q) : q[i] = r[i]
    BY <1>4, <1>5, <1>6
<1>8. q = r
    BY <1>1, <1>3, <1>4, <1>5, <1>7, SeqEqual
<1> QED BY <1>8 DEF q, r

LEMMA BrainCareful ==
    ASSUME TypeOK, NEW e \in Execs, Placed(e),
           \/ DecideTooLate(e) \/ BrainUnavailable(e) \/ BrainFails(e)
           \/ BrainCompletes(e) \/ BrainAsks(e) \/ BrainActs(e)
    PROVE  Placed(e)' /\ Careful(e)'
<1> DEFINE it == item[e[1]]
<1>1. /\ th[e].pc = "brain" /\ wf[e].at = "advance"
      /\ ~DecideTooLate(e) => it.state # "paused"
    BY DEF DecideTooLate, BrainUnavailable, BrainFails, BrainCompletes, BrainAsks, BrainActs,
           Decides, Resumes, Placed, Inside, Stopped
<1>2. CASE DecideTooLate(e)
  <2>1. Guarded(<<>>, it, it)
      BY MildLists, GuardedLists
  <2> QED BY <1>1, <1>2, <2>1, AdvanceCareful DEF DecideTooLate
<1>3. CASE BrainUnavailable(e)
  <2> DEFINE waits == <<Add("pressure"), Mark("completed", ""), Read,
                        Move("waiting_resource", "own")>>
             more  == <<Add("pressure"), Mark("completed", ""), Read,
                        Move("waiting_resource", "own"), Blocker>>
  <2>1. it.state # "paused"
      BY <1>1, <1>3 DEF BrainUnavailable, Decides, DecideTooLate
  <2>2. Single(waits) /\ Single(more)
      BY CallOps, NotRisky, LateLists
  <2>3. waits \o <<Blocker>> = more
      BY FiveCalls
  <2>4. /\ Guarded(waits, it, it) /\ Guarded(more, it, it)
        /\ Guarded(<<Move("waiting_resource", "keep")>>, it, it)
      BY <2>1, <2>2, NotRisky, GuardedLists, LedLists
  <2> QED BY <1>1, <1>3, <2>3, <2>4, AdvanceCareful DEF BrainUnavailable
<1>4. CASE BrainFails(e) \/ BrainCompletes(e) \/ BrainAsks(e) \/ BrainActs(e)
  <2>1. it.state # "paused"
      BY <1>1, <1>4 DEF BrainFails, BrainCompletes, BrainAsks, BrainActs, Decides, DecideTooLate
  <2>2. /\ Mild(<<Add("note"), Mark("failed", ""), Read>>)
        /\ Mild(<<Add("note"), Mark("completed", ""), Read, Touch("none")>>)
        /\ Mild(<<Move("completed", "none"), Clear, Notify>>)
      BY NotRisky, MildLists
  <2>3. /\ Guarded(<<Add("note"), Mark("failed", ""), Read>>, it, it)
        /\ Guarded(<<Add("note"), Mark("completed", ""), Read, Touch("none")>>, it, it)
        /\ Guarded(<<Move("completed", "none"), Clear, Notify>>, it, it)
        /\ Guarded(<<Move("waiting_for_owner", "none"), Notify>>, it, it)
        /\ Guarded(<<Move("waiting_resource", "none")>>, it, it)
      BY <2>1, <2>2, NotRisky, GuardedLists, LedLists
  <2>4. CASE BrainFails(e) \/ BrainActs(e)
      BY <1>1, <2>3, <2>4, AdvanceCareful DEF BrainFails, BrainActs, Inside
  <2>5. CASE BrainCompletes(e) \/ BrainAsks(e)
      BY <1>1, <2>3, <2>5, AdvanceCareful DEF BrainCompletes, BrainAsks
  <2> QED BY <1>4, <2>4, <2>5
<1> QED BY <1>2, <1>3, <1>4

LEMMA LeasedCareful ==
    ASSUME TypeOK, NEW e \in Execs, Placed(e), Leased(e) \/ LeaseRefused(e)
    PROVE  Placed(e)' /\ Careful(e)'
<1> DEFINE it == item[e[1]]
<1>1. wf[e].at = "advance" /\ e \in Threads /\ th[e] \in Thread
    BY ExecOK DEF Leased, LeaseRefused, Resumes, Placed, Inside
<1>2. /\ Guarded(<<>>, it, it) /\ Guarded(<<Touch("keep")>>, it, it)
      /\ it.state # "paused" => Guarded(Start, it, it)
      /\ it.state # "paused"
           => Guarded(<<Move("running", "none"), Read, Move("paused", "keep")>>, it, it)
  <2>1. Mild(<<>>) /\ Mild(<<Touch("keep")>>)
      BY NotRisky, MildLists
  <2>2. /\ ~Risky(Add("work")) /\ ~Risky(Mark("running", "")) /\ ~Risky(Touch("own"))
        /\ ~Risky(Read) /\ ~Risky(Move("paused", "keep"))
      BY NotRisky
  <2> QED BY <2>1, <2>2, GuardedLists, LedLists DEF Start
<1>3. CASE \E calls : /\ Guarded(calls, it, it)
                      /\ Only(e, it, "ret", calls) \/ Pressed(e, it, "ret", calls)
    BY <1>1, <1>3, AdvanceCareful
<1>4. CASE /\ th' = [th EXCEPT ![e] = [@ EXCEPT !.pc = "exec", !.held = it, !.todo = Start]]
           /\ it.state # "paused" /\ wf' = wf /\ item' = item
  <2> DEFINE rec == [th[e] EXCEPT !.pc = "exec", !.held = it, !.todo = Start]
  <2>1. rec.pc = "exec" /\ rec.held = it /\ rec.todo = Start
      BY <1>1 DEF Thread
  <2>2. th'[e] = rec
      BY <1>1, <1>4 DEF TypeOK, ThreadsOK
  <2> HIDE DEF rec
  <2> QED BY <1>1, <1>2, <1>4, <2>1, <2>2 DEF Placed, Careful, Inside
<1>5. CASE LeaseRefused(e)
    BY <1>2, <1>3, <1>5 DEF LeaseRefused
<1>6. CASE Leased(e)
  <2>1. ~Stopped(it) => it.state # "paused"
      BY DEF Stopped
  <2>2. \/ Only(e, it, "ret", <<>>)
        \/ /\ ~Stopped(it) /\ UNCHANGED <<storeVars, dbosVars, env>>
           /\ th' = [th EXCEPT ![e] = [@ EXCEPT !.pc = "exec", !.held = it, !.todo = Start]]
        \/ /\ ~Stopped(it)
           /\ Pressed(e, it, "ret", <<Move("running", "none"), Read, Move("paused", "keep")>>)
      BY <1>6 DEF Leased, Start
  <2> QED BY <1>2, <1>3, <1>4, <2>1, <2>2 DEF storeVars, dbosVars
<1> QED BY <1>5, <1>6

LEMMA OutcomeCareful ==
    ASSUME TypeOK, NEW e \in Execs, Placed(e),
           Executed(e) \/ StepDone(e) \/ StepAsks(e) \/ StepFails(e)
    PROVE  Placed(e)' /\ Careful(e)'
<1> DEFINE it == th[e].held
<1>1. wf[e].at = "advance"
    BY DEF Executed, StepDone, StepAsks, StepFails, Resumes, Continues, Placed, Inside
<1>2. CASE Executed(e)
  <2>1. ASSUME NEW pc \in {"done", "settle", "asking"}, NEW st, NEW obs,
               Segment(e, it, pc, <<Mark(st, obs), Read>>)
        PROVE  Placed(e)' /\ Careful(e)'
    <3>1. Guarded(<<Mark(st, obs), Read>>, it, item'[e[1]])
        BY NotRisky, MildLists, GuardedLists
    <3>2. wf' = wf /\ pc \in Inside
        BY <1>2 DEF Executed, dbosVars, Inside
    <3> QED BY <1>1, <2>1, <3>1, <3>2, SegmentCareful
  <2> QED BY <1>2, <2>1 DEF Executed
<1>3. CASE StepDone(e)
  <2>1. \A row : Guarded(<<>>, it, row) /\ Guarded(<<Touch("none")>>, it, row)
      BY NotRisky, MildLists, GuardedLists
  <2> QED BY <1>1, <1>3, <2>1, AdvanceCareful DEF StepDone
<1>4. CASE StepAsks(e)
  <2>1. \A row : Guarded(<<>>, it, row)
      BY MildLists, GuardedLists
  <2>2. ~Stopped(it) => \A row : Guarded(<<Move("waiting_for_owner", "own"), Notify>>, it, row)
      BY NotRisky, LedLists DEF Stopped
  <2> QED BY <1>1, <1>4, <2>1, <2>2, AdvanceCareful DEF StepAsks
<1>5. CASE StepFails(e)
  <2>1. \A row : /\ Guarded(<<>>, it, row)
                 /\ Guarded(<<Move("failed", "own"), Notify>>, it, row)
                 /\ Guarded(<<Move("retrying", "own")>>, it, row)
      BY NotRisky, MildLists, GuardedLists
  <2> QED BY <1>1, <1>5, <2>1, AdvanceCareful DEF StepFails
<1> QED BY <1>2, <1>3, <1>4, <1>5

LEMMA DbosCareful ==
    ASSUME TypeOK, NEW e \in Execs, ApplyPlain(e) \/ ApplySealed(e) \/ FailBounded(e)
    PROVE  Placed(e)' /\ Careful(e)'
<1> DEFINE it == item[e[1]]
<1>1. e \in Threads /\ wf' = wf
    BY ThreadFacts, EngineRuns DEF EngineStep
<1>2. CASE Raise(e)
  <2>1. th'[e].pc = "raise" /\ th'[e].todo = <<>>
    <3> DEFINE rec == [th[e] EXCEPT !.todo = <<>>, !.pc = "raise"]
    <3>1. rec.pc = "raise" /\ rec.todo = <<>>
        BY <1>1 DEF TypeOK, ThreadsOK, Thread
    <3>2. Run(e, rec)
        BY <1>2, ThreadFacts DEF Raise
    <3> HIDE DEF rec
    <3> QED BY <1>1, <3>1, <3>2, ThreadFacts, RunMoves
  <2>2. \A held, row : Guarded(<<>>, held, row)
      BY MildLists, GuardedLists
  <2> QED BY <2>1, <2>2, MildLists DEF Placed, Careful, Inside
<1>3. CASE Segment(e, it, "ret", <<>>)
  <2>1. Guarded(<<>>, it, item'[e[1]])
      BY MildLists, GuardedLists
  <2> QED BY <1>1, <1>3, <2>1, MildLists, SegmentCareful
<1>4. ASSUME it.state = "waiting_for_owner", item' = item, NEW text,
             Segment(e, it, "ret", <<Add("owner_input"), Mark("completed", text),
                                     Move("running", "none")>>)
      PROVE  Placed(e)' /\ Careful(e)'
  <2> DEFINE calls == <<Add("owner_input"), Mark("completed", text), Move("running", "none")>>
  <2>1. Single(calls)
      BY CallOps, NotRisky, LateLists
  <2>2. ~Loopy(calls)
    <3>1. \A a, b, c : /\ a.op = "add" /\ b.op = "mark" /\ c.op = "move" /\ c.a = "running"
                       => ~Loopy(<<a, b, c>>)
        BY DEF Loopy
    <3> QED BY <3>1, CallOps
  <2> HIDE DEF calls
  <2>3. Guarded(calls, it, item'[e[1]])
      BY <1>4, <2>1, GuardedLists
  <2> QED BY <1>1, <1>4, <2>2, <2>3, SegmentCareful DEF calls
<1>5. CASE ApplyPlain(e)
    BY <1>2, <1>3, <1>4, <1>5 DEF ApplyPlain, Only, storeVars
<1>6. CASE ApplySealed(e)
    BY <1>2, <1>3, <1>6 DEF ApplySealed
<1>7. CASE FailBounded(e)
  <2> DEFINE fails == <<Move("failed", "keep"), Clear, Notify>>
  <2>1. ~Loopy(<<Clear>>) /\ ~Loopy(fails)
    <3>1. \A a, b, c : /\ a.op = "move" /\ a.a = "failed" /\ b.op = "clear" /\ c.op = "notify"
                       => ~Loopy(<<b>>) /\ ~Loopy(<<a, b, c>>)
        BY DEF Loopy
    <3> QED BY <3>1, CallOps
  <2>2. \A row : Guarded(<<Clear>>, it, row) /\ Guarded(fails, it, row)
      BY NotRisky, MildLists, GuardedLists
  <2>3. Segment(e, it, "ret", <<Clear>>) \/ Segment(e, it, "ret", fails)
      BY <1>7 DEF FailBounded, Only
  <2> HIDE DEF fails
  <2> QED BY <1>1, <2>1, <2>2, <2>3, SegmentCareful
<1> QED BY <1>5, <1>6, <1>7

LEMMA EngineCareful ==
    ASSUME TypeOK, NEW e \in Execs, Placed(e), EngineStep(e)
    PROVE  Placed(e)' /\ Careful(e)'
BY DependentCareful, BrainCareful, LeasedCareful, OutcomeCareful, DbosCareful DEF EngineStep

-----------------------------------------------------------------------------
(* A store call takes care *)

LEMMA TailGuarded ==
    ASSUME NEW q \in Seq(Call), q # <<>>, NEW held, NEW row, Guarded(q, held, row)
    PROVE  /\ Head(q).op = "move" => Mild(Tail(q))
           /\ Head(q).op = "read" => Guarded(Tail(q), row, row)
           /\ Head(q).op # "move" =>
                 \A h, r : h.state = held.state /\ r.state = row.state => Guarded(Tail(q), h, r)
           /\ Loopy(Tail(q)) => Loopy(q)
<1>1. /\ Head(q) = q[1] /\ 1 \in DOMAIN q
      /\ \A i \in DOMAIN Tail(q) : /\ i \in Nat \ {0} /\ i + 1 \in DOMAIN q
                                   /\ Tail(q)[i] = q[i + 1]
    OBVIOUS
<1>2. Loopy(Tail(q)) => Loopy(q)
    BY <1>1 DEF Loopy
<1>3. ASSUME NEW i \in DOMAIN Tail(q), Risky(Tail(q)[i])
      PROVE  /\ held.state # "paused" /\ q[1].op # "move"
             /\ \A j \in 1 .. (i - 1) : Tail(q)[j].op # "move"
             /\ q[1].op = "read" => row.state # "paused"
             /\ (\E j \in 1 .. (i - 1) : Tail(q)[j].op = "read") => row.state # "paused"
  <2>1. /\ i \in Nat \ {0} /\ i + 1 \in DOMAIN q /\ Risky(q[i + 1])
        /\ 1 \in 1 .. ((i + 1) - 1)
      BY <1>1, <1>3
  <2>2. \A j \in 1 .. (i - 1) : /\ j + 1 \in 1 .. ((i + 1) - 1)
                                /\ Tail(q)[j] = q[j + 1]
    <3>1. \A j \in 1 .. (i - 1) : j \in DOMAIN Tail(q)
        BY <1>3
    <3> QED BY <1>1, <2>1, <3>1
  <2> QED BY <2>1, <2>2 DEF Guarded
<1>4. Head(q).op = "move" => Mild(Tail(q))
    BY <1>1, <1>3 DEF Mild
<1>5. Head(q).op = "read" => Guarded(Tail(q), row, row)
    BY <1>1, <1>3 DEF Guarded
<1>6. Head(q).op # "move" =>
         \A h, r : h.state = held.state /\ r.state = row.state => Guarded(Tail(q), h, r)
    BY <1>3 DEF Guarded
<1> QED BY <1>2, <1>4, <1>5, <1>6

LEMMA RaisedCall ==
    ASSUME TypeOK, NEW e \in Execs, Raise(e)
    PROVE  th'[e].pc = "raise" /\ th'[e].todo = <<>>
<1> DEFINE rec == [th[e] EXCEPT !.todo = <<>>, !.pc = "raise"]
<1>1. rec.pc = "raise" /\ rec.todo = <<>>
    BY ExecOK DEF Thread
<1>2. Run(e, rec)
    BY ThreadFacts DEF Raise
<1> HIDE DEF rec
<1> QED BY <1>1, <1>2, ThreadFacts, RunMoves

\* What a call of an execution does to it and its item.
LEMMA CallEffect ==
    ASSUME Execution, NEW e \in Execs, Placed(e), StoreCall(e)
    PROVE  \/ th'[e].pc = "raise" /\ th'[e].todo = <<>>
           \/ /\ th'[e].pc = th[e].pc /\ th'[e].todo = Tail(th[e].todo)
              /\ \/ /\ Head(th[e].todo).op = "read"
                    /\ th'[e].held = item[e[1]] /\ item' = item
                 \/ Head(th[e].todo).op = "move"
                 \/ /\ Head(th[e].todo).op \notin {"move", "read"}
                    /\ th'[e].held.state = th[e].held.state
                    /\ item'[e[1]].state = item[e[1]].state
<1> DEFINE o == Head(th[e].todo)
           me == th[e]
<1>1. /\ TypeOK /\ e \in Threads /\ e # Main /\ me \in Thread /\ me.w = e[1]
      /\ e[1] \in Works /\ item \in [Works -> Item] /\ o \in Call
    BY CallBasics, ThreadFacts, CallFacts DEF Versions, TypeOK, StoreOK, Execution
<1>2. ASSUME NEW rec \in Thread, rec.todo = me.todo, rec.w = me.w, rec.pc = me.pc, Did(e, rec)
      PROVE  /\ th'[e].pc = me.pc /\ th'[e].todo = Tail(me.todo)
             /\ th'[e].held = rec.held
    BY <1>1, <1>2, DidMoves
<1>3. CASE DoRead(e)
  <2> DEFINE rec == [me EXCEPT !.held = item[e[1]]]
  <2>1. /\ rec \in Thread /\ rec.todo = me.todo /\ rec.w = me.w /\ rec.pc = me.pc
        /\ rec.held = item[e[1]]
      BY <1>1 DEF Thread
  <2>2. o.op = "read" /\ Did(e, rec) /\ item' = item
      BY <1>1, <1>3 DEF DoRead, Calls, storeVars
  <2> HIDE DEF rec
  <2> QED BY <1>2, <2>1, <2>2
<1>4. CASE DoSave(e)
  <2> DEFINE new == NewRecord(me, o)
             rec == [me EXCEPT !.held = new]
  <2>1. o.op \in {"move", "touch"} /\ Fresh(e[1], me.held) /\ PutItem(e[1], new) /\ Did(e, rec)
      BY <1>1, <1>4 DEF DoSave, Calls
  <2>2. new \in Item
      BY <1>1, <1>4, NewRecordOK DEF DoSave, Calls
  <2>3. /\ rec \in Thread /\ rec.todo = me.todo /\ rec.w = me.w /\ rec.pc = me.pc
        /\ rec.held = new
      BY <1>1, <2>2 DEF Thread
  <2>4. o.op = "touch" => new.state = me.held.state
    <3>1. \A n : WithProgress(me.held, n).state = me.held.state
        BY <1>1 DEF WithProgress, Thread, Item
    <3> QED BY <3>1 DEF NewRecord
  <2>5. me.held = item[e[1]] /\ item'[e[1]] = new
      BY <1>1, <2>1 DEF Execution, Versions, HeldIsTrueOrStale, Fresh, PutItem
  <2> HIDE DEF new, rec
  <2> QED BY <1>2, <2>1, <2>3, <2>4, <2>5
<1>5. CASE RejectSave(e)
  <2>1. me.pc # "cancelled"
      BY DEF Placed, Inside
  <2> QED BY <1>1, <1>5, <2>1, RaisedCall DEF RejectSave
<1>6. CASE DoAdd(e) \/ DoInterrupt(e) \/ DoRestart(e)
  <2>1. PICK n \in Nat : Did(e, [me EXCEPT !.sid = n])
    <3>1. CASE DoAdd(e)
      <4>1. Len(steps[me.w]) + 1 \in Nat
          BY <1>1 DEF TypeOK, StoreOK
      <4> QED BY <3>1, <4>1 DEF DoAdd
    <3>2. CASE DoInterrupt(e)
      <4>1. RunningSteps(me.w) \subseteq Nat
          BY <1>1 DEF RunningSteps, TypeOK, StoreOK
      <4> QED BY <3>2, <4>1 DEF DoInterrupt
    <3>3. CASE DoRestart(e)
        BY <3>3, RetriesAssumption DEF DoRestart
    <3> QED BY <1>6, <3>1, <3>2, <3>3
  <2> DEFINE rec == [me EXCEPT !.sid = n]
  <2>2. /\ rec \in Thread /\ rec.todo = me.todo /\ rec.w = me.w /\ rec.pc = me.pc
        /\ rec.held = me.held
      BY <1>1 DEF Thread
  <2>3. o.op \in {"add", "interrupt", "restart"} /\ item' = item
      BY <1>6 DEF DoAdd, DoInterrupt, DoRestart, Calls, storeVars
  <2>4. Did(e, rec)
      BY <2>1
  <2> HIDE DEF rec
  <2> QED BY <1>2, <2>2, <2>3, <2>4
<1>7. CASE \/ DoMark(e) \/ DoNotify(e) \/ DoBlocker(e) \/ DoClear(e) \/ DoSend(e)
           \/ DoSubmit(e) \/ DoBind(e)
  <2>1. Did(e, me) /\ item' = item /\ o.op \notin {"move", "read"}
      BY <1>7 DEF DoMark, DoNotify, DoBlocker, DoClear, DoSend, DoSubmit, DoBind, Calls, storeVars
  <2> QED BY <1>1, <1>2, <2>1
<1> QED BY <1>3, <1>4, <1>5, <1>6, <1>7 DEF StoreCall

LEMMA StoreCallCareful ==
    ASSUME Execution, NEW e \in Execs, Placed(e), Careful(e), StoreCall(e)
    PROVE  Placed(e)' /\ Careful(e)'
<1> DEFINE q == th[e].todo
<1>1. TypeOK /\ q \in Seq(Call) /\ q # <<>> /\ e \in Threads
    BY CallBasics, ThreadFacts
<1>2. wf'[e].at = wf[e].at
    BY <1>1, StoreCallWf
<1>3. CASE th'[e].pc = "raise" /\ th'[e].todo = <<>>
  <2>1. \A held, row : Guarded(<<>>, held, row)
      BY MildLists, GuardedLists
  <2> QED BY <1>3, <2>1, MildLists DEF Placed, Careful, Inside
<1>4. CASE th'[e].pc = th[e].pc /\ th'[e].todo = Tail(q)
  <2>1. Guarded(q, th[e].held, item[e[1]]) /\ (Loopy(q) => wf[e].at = "advance")
      BY DEF Careful
  <2>2. Guarded(Tail(q), th'[e].held, item'[e[1]])
    <3> DEFINE RowRead == th'[e].held = item[e[1]] /\ item' = item
               SameStates == /\ th'[e].held.state = th[e].held.state
                             /\ item'[e[1]].state = item[e[1]].state
    <3>0. \/ Head(q).op = "read" /\ RowRead
          \/ Head(q).op = "move"
          \/ Head(q).op \notin {"move", "read"} /\ SameStates
      <4>1. th[e].pc # "raise"
          BY <1>1 DEF Placed
      <4> QED BY <1>4, <4>1, CallEffect
    <3>1. CASE Head(q).op = "move"
        BY <1>1, <2>1, <3>1, TailGuarded, GuardedLists
    <3>2. CASE Head(q).op = "read"
      <4>1. RowRead
          BY <3>0, <3>2
      <4> QED BY <1>1, <2>1, <3>2, <4>1, TailGuarded
    <3>3. CASE Head(q).op \notin {"move", "read"}
      <4>1. SameStates
          BY <3>0, <3>3
      <4> QED BY <1>1, <2>1, <3>3, <4>1, TailGuarded
    <3> QED BY <3>1, <3>2, <3>3
  <2>3. Loopy(Tail(q)) => Loopy(q)
      BY <1>1, <2>1, TailGuarded
  <2> QED BY <1>1, <1>2, <1>4, <2>1, <2>2, <2>3 DEF Placed, Careful
<1> QED BY <1>3, <1>4, CallEffect

-----------------------------------------------------------------------------
(* The steps of others *)

\* A workflow moves on only when its thread is idle.
LEMMA PointsStay ==
    ASSUME TypeOK, [Next]_vars, NEW e \in Execs, Placed(e)
    PROVE  \/ wf'[e].at = wf[e].at
           \/ th'[e].pc = "idle" /\ th'[e].todo = <<>>
<1>1. e \in Threads /\ wf \in [Execs -> Workflow(Message \cup {NoMessage})] /\ th \in [Threads -> Thread]
    BY ThreadFacts DEF TypeOK, DbosOK, ThreadsOK
<1>2. CASE \E t \in Threads : StoreCall(t)
    BY <1>2, StoreCallWf
<1>3. CASE \E f \in Execs : EngineStep(f)
    BY <1>3, EngineRuns
<1>4. ASSUME NEW f \in Execs, WorkflowStep(f)
      PROVE  \/ wf'[e].at = wf[e].at
             \/ th'[e].pc = "idle" /\ th'[e].todo = <<>>
  <2>1. CASE StepReturns(f)
    <3>1. f # e => wf'[e] = wf[e]
        BY <1>1, <2>1 DEF StepReturns
    <3>2. f = e => th'[e] = Idle(e[1])
        BY <1>1, <2>1 DEF StepReturns
    <3> QED BY <3>1, <3>2, IdleIsFree
  <2>2. CASE StepRaises(f)
      BY <1>1, <2>2 DEF StepRaises, Workflow
  <2>3. CASE ReceiveAnswer(f) \/ ReceiveControl(f)
    <3>1. th' = th /\ th[f].pc = "idle"
        BY <2>3 DEF ReceiveAnswer, ReceiveControl, AtStep, volatile
    <3>2. f # e => wf'[e] = wf[e]
        BY <1>1, <2>3 DEF ReceiveAnswer, ReceiveControl
    <3> QED BY <3>1, <3>2 DEF Placed
  <2> QED BY <1>4, <2>1, <2>2, <2>3 DEF WorkflowStep
<1>5. CASE OwnerStep \/ BackendFault(Main) \/ Crash \/ UNCHANGED vars
    BY <1>5 DEF OwnerStep, OwnerStart, OwnerPause, OwnerResume, OwnerCancel, OwnerRetry,
                OwnerReprioritize, OwnerAnswer, BackendFault, Crash, dbosVars, vars
<1>6. CASE MainStep
  <2>1. BootResubmit => wf'[e].at = wf[e].at
      BY <1>1 DEF BootResubmit, Workflow
  <2> QED BY <1>6, <2>1 DEF MainStep, CancelAgain, BootStart, BootLaunch, BootInterrupted, Only,
                            dbosVars
<1> QED BY <1>2, <1>3, <1>4, <1>5, <1>6 DEF Next

\* Nobody pauses an item between a read of it and the save that follows.
LEMMA OthersCareful ==
    ASSUME Pausing, [Next]_vars, NEW e \in Execs, th'[e] = th[e], wf'[e].at = wf[e].at
    PROVE  Placed(e)' /\ Careful(e)'
<1> DEFINE w == e[1]
           q == th[e].todo
<1>1. /\ TypeOK /\ Versions /\ w \in Works /\ e \in Threads /\ LoopHeld
      /\ Placed(e) /\ Careful(e)
    BY ThreadFacts DEF Pausing, Execution, Versions
<1>2. q \in Seq(Call)
    BY <1>1, ExecOK DEF Thread
<1>3. ASSUME item'[w].state = "paused", item[w].state # "paused",
             NEW i \in DOMAIN q, Risky(q[i]), NEW j \in 1 .. (i - 1), q[j].op = "read"
      PROVE  FALSE
  <2>1. PICK t \in Threads : SavesAs(t, w, "paused")
      BY <1>1, <1>3, StateChanges
  <2>2. /\ th[t].todo \in Seq(Call) /\ th[t].todo # <<>>
        /\ Head(th[t].todo).op = "move" /\ Head(th[t].todo).a = "paused"
      BY <1>1, <2>1, CallFacts DEF SavesAs, DoSave, Calls, TypeOK, Thread
  <2>3. /\ 1 \in DOMAIN th[t].todo /\ th[t].todo[1] = Head(th[t].todo)
      BY <2>2
  <2>4. t # e
    <3>1. 1 \in 1 .. (i - 1)
        BY <1>2, <1>3
    <3> QED BY <1>1, <1>3, <2>2, <2>3, <3>1 DEF Careful, Guarded
  <2>5. Loopy(q)
    <3>1. j \in DOMAIN q
        BY <1>2, <1>3
    <3> QED BY <1>3, <3>1 DEF Loopy
  <2>6. loop = e
    <3>1. q # <<>>
        BY <1>2, <1>3
    <3> QED BY <1>1, <2>5, <3>1, CallsAreBusy DEF Careful, OnLoop, LoopHeld
  <2>7. Loopy(th[t].todo)
      BY <2>2, <2>3 DEF Loopy
  <2>8. OnLoop(t)
      BY <2>7, ThreadFacts DEF Pausing, Careful, OnLoop
  <2>9. loop = t
      BY <1>1, <2>2, <2>8, CallsAreBusy DEF LoopHeld
  <2> QED BY <2>4, <2>6, <2>9
<1>4. Guarded(q, th[e].held, item[w]) => Guarded(q, th[e].held, item'[w])
    BY <1>3 DEF Guarded
<1> QED BY <1>1, <1>4 DEF Placed, Careful

LEMMA CarefulNext ==
    ASSUME Pausing, [Next]_vars, NEW e \in Execs
    PROVE  Placed(e)' /\ Careful(e)'
<1>1. TypeOK /\ Execution /\ Placed(e) /\ Careful(e)
    BY DEF Pausing, Execution, Versions
<1>2. CASE StoreCall(e)
    BY <1>1, <1>2, StoreCallCareful
<1>3. CASE EngineStep(e)
    BY <1>1, <1>3, EngineCareful
<1>4. CASE th'[e].pc = "idle" /\ th'[e].todo = <<>>
  <2>1. \A held, row : Guarded(<<>>, held, row)
      BY MildLists, GuardedLists
  <2> QED BY <1>4, <2>1, MildLists DEF Placed, Careful, Inside
<1>5. CASE th'[e] = th[e] /\ wf'[e].at = wf[e].at
    BY <1>5, OthersCareful
<1> QED BY <1>1, <1>2, <1>3, <1>4, <1>5, NextMoves, PointsStay

-----------------------------------------------------------------------------
(* The event loop is held *)

\* Threads only fall idle, and nobody takes the loop.
LEMMA LoopStays ==
    ASSUME LoopHeld, loop' = loop, th'[Main] = th[Main] \/ ~Busy(th'[Main]),
           \A e \in Execs : ~Busy(th'[e]) \/ (th'[e] = th[e] /\ wf'[e].at = wf[e].at)
    PROVE  LoopHeld'
BY ThreadFacts DEF LoopHeld, OnLoop

LEMMA OwnerHolds ==
    ASSUME TypeOK, LoopHeld, OwnerStep
    PROVE  LoopHeld'
<1>1. wf' = wf
    BY DEF OwnerStep, OwnerStart, OwnerPause, OwnerResume, OwnerCancel, OwnerRetry,
           OwnerReprioritize, OwnerAnswer, dbosVars
<1>2. CASE UNCHANGED volatile
    BY <1>1, <1>2 DEF LoopHeld, OnLoop, volatile
<1>3. ASSUME NEW w, NEW held, NEW pc, NEW calls, Command(w, held, pc, calls), loop = Free
      PROVE  LoopHeld'
    BY <1>1, <1>3, ThreadFacts, RunHolds DEF Command
<1> QED BY <1>2, <1>3 DEF OwnerStep, OwnerStart, OwnerPause, OwnerResume, OwnerCancel,
                          OwnerRetry, OwnerReprioritize, OwnerAnswer, Commanded

LEMMA MainHolds ==
    ASSUME TypeOK, LoopHeld, Asleep, MainStep \/ BackendFault(Main)
    PROVE  LoopHeld'
<1>1. wf \in [Execs -> Workflow(Message \cup {NoMessage})] /\ th \in [Threads -> Thread]
    BY DEF TypeOK, DbosOK, ThreadsOK
<1>2. ASSUME Busy(th[Main]), NEW rec, Run(Main, rec), \A e \in Execs : wf'[e].at = wf[e].at
      PROVE  LoopHeld'
  <2>1. loop = Main
      BY <1>2, ThreadFacts DEF LoopHeld, OnLoop
  <2> QED BY <1>2, <2>1, ThreadFacts, RunHolds
<1>3. th[Main].pc \in {"boot", "cancel"} => Busy(th[Main])
    BY DEF Busy, Returned, Awaits
<1>4. CASE CancelAgain \/ \E w \in Works : BootInterrupted(w)
  <2>1. wf' = wf /\ th[Main].pc \in {"boot", "cancel"} /\ \E rec : Run(Main, rec)
      BY <1>4 DEF CancelAgain, BootInterrupted, AtBoot, Only, Segment, dbosVars
  <2> QED BY <1>2, <1>3, <2>1
<1>5. CASE BootResubmit
  <2>1. \A e \in Execs : wf'[e].at = wf[e].at
      BY <1>1, <1>5 DEF BootResubmit, Workflow
  <2> QED BY <1>2, <1>3, <1>5, <2>1 DEF BootResubmit
<1>6. CASE BackendFault(Main)
  <2>1. th[Main].todo # <<>> /\ wf' = wf /\ \E rec : Run(Main, rec)
      BY <1>6 DEF BackendFault, Calls, dbosVars
  <2> QED BY <1>2, <2>1, CallsAreBusy
<1>7. CASE BootStart
  <2>1. \A e \in Execs : th'[e] = th[e] /\ th[e].pc = "idle" /\ th[e].todo = <<>>
      BY <1>1, <1>7, ThreadFacts DEF BootStart, Asleep
  <2>2. loop' = Main /\ \A e \in Execs : ~Busy(th'[e])
      BY <1>7, <2>1 DEF BootStart, Busy, Returned
  <2> QED BY <2>2, ThreadFacts DEF LoopHeld
<1>8. CASE BootLaunch
    BY <1>8 DEF BootLaunch, volatile, dbosVars, LoopHeld, OnLoop
<1> QED BY <1>4, <1>5, <1>6, <1>7, <1>8 DEF MainStep

LEMMA LoopHeldNext ==
    ASSUME Pausing, [Next]_vars
    PROVE  LoopHeld'
<1>1. /\ TypeOK /\ LoopHeld /\ Asleep /\ th \in [Threads -> Thread]
      /\ \A e \in Execs : Placed(e)
    BY DEF Pausing, Execution, Versions, TypeOK, ThreadsOK
<1>2. CASE \E t \in Threads : StoreCall(t)
    BY <1>1, <1>2, StoreCallHolds
<1>3. CASE \E e \in Execs : EngineStep(e)
    BY <1>1, <1>3, EngineHolds
<1>4. ASSUME NEW f \in Execs, WorkflowStep(f)
      PROVE  LoopHeld'
  <2>1. loop' = loop
      BY <1>4 DEF WorkflowStep, StepReturns, StepRaises, ReceiveAnswer, ReceiveControl, volatile
  <2>2. th' = th \/ \E rec : th' = [th EXCEPT ![f] = rec]
      BY <1>4 DEF WorkflowStep, StepReturns, StepRaises, ReceiveAnswer, ReceiveControl, volatile
  <2>3. th'[Main] = th[Main]
      BY <1>1, <2>2, ThreadFacts
  <2>4. \A e \in Execs : ~Busy(th'[e]) \/ th'[e] = th[e]
    <3> SUFFICES ASSUME NEW e \in Execs PROVE ~Busy(th'[e]) \/ th'[e] = th[e]
        OBVIOUS
    <3>1. e # f => th'[e] = th[e]
        BY <1>1, <2>2, ThreadFacts
    <3>2. th'[f] = th[f] \/ (th'[f].pc = "idle" /\ th'[f].todo = <<>>)
      <4>1. ASSUME NEW n, th' = [th EXCEPT ![f] = [Idle(f[1]) EXCEPT !.tries = n]]
            PROVE  th'[f].pc = "idle" /\ th'[f].todo = <<>>
        <5> DEFINE rec == [Idle(f[1]) EXCEPT !.tries = n]
        <5>1. rec.pc = "idle" /\ rec.todo = <<>>
            BY DEF Idle
        <5>2. th' = [th EXCEPT ![f] = rec]
            BY <4>1
        <5> HIDE DEF rec
        <5> QED BY <1>1, <5>1, <5>2, ThreadFacts
      <4>2. StepReturns(f) => th'[f].pc = "idle" /\ th'[f].todo = <<>>
          BY <1>1, ThreadFacts, IdleIsFree DEF StepReturns
      <4>3. StepRaises(f) => th'[f].pc = "idle" /\ th'[f].todo = <<>>
          BY <4>1 DEF StepRaises
      <4> QED BY <1>4, <4>2, <4>3 DEF WorkflowStep, ReceiveAnswer, ReceiveControl, volatile
    <3> QED BY <3>1, <3>2 DEF Busy, Returned
  <2>5. \A e \in Execs : wf'[e].at = wf[e].at \/ ~Busy(th'[e])
    <3> SUFFICES ASSUME NEW e \in Execs PROVE wf'[e].at = wf[e].at \/ ~Busy(th'[e])
        OBVIOUS
    <3>1. Placed(e)
        BY <1>1
    <3> QED BY <1>1, <3>1, PointsStay DEF Busy, Returned
  <2> QED BY <1>1, <2>1, <2>3, <2>4, <2>5, LoopStays
<1>5. CASE OwnerStep
    BY <1>1, <1>5, OwnerHolds
<1>6. CASE MainStep \/ BackendFault(Main)
    BY <1>1, <1>6, MainHolds
<1>7. CASE Crash
  <2>1. \A t \in Threads : ~Busy(th'[t])
      BY <1>7, IdleIsFree DEF Crash
  <2> QED BY <2>1 DEF LoopHeld
<1>8. CASE UNCHANGED vars
    BY <1>1, <1>8 DEF vars, LoopHeld, OnLoop
<1> QED BY <1>2, <1>3, <1>4, <1>5, <1>6, <1>7, <1>8 DEF Next

-----------------------------------------------------------------------------
(* Startup *)

LEMMA BootRuns ==
    ASSUME TypeOK, NEW rec, Run(Main, rec), rec.pc \in {"boot", "raise"}
    PROVE  th'[Main] = rec
BY ThreadFacts DEF Run, Returned, TypeOK, ThreadsOK

LEMMA StartupTail ==
    ASSUME NEW q \in Seq(Call), q # <<>>, NEW held, NEW new,
           \A i \in DOMAIN q : StartupCall(q[i], held),
           new.state = held.state \/ new.state # "paused"
    PROVE  \A i \in DOMAIN Tail(q) : StartupCall(Tail(q)[i], new)
<1>1. \A i \in DOMAIN Tail(q) : i + 1 \in DOMAIN q /\ Tail(q)[i] = q[i + 1]
    OBVIOUS
<1> QED BY <1>1 DEF StartupCall

LEMMA StartupCalls ==
    ASSUME Execution, Starting, StoreCall(Main), up = "starting"
    PROVE  \/ /\ th'[Main].pc = "boot"
              /\ \A i \in DOMAIN th'[Main].todo : StartupCall(th'[Main].todo[i], th'[Main].held)
           \/ th'[Main].pc = "raise" /\ th'[Main].todo = <<>>
<1> DEFINE me == th[Main]
           q  == me.todo
           o  == Head(q)
<1>1. /\ TypeOK /\ me \in Thread /\ q \in Seq(Call) /\ q # <<>> /\ o \in Call
      /\ Main \in Threads
    BY ThreadFacts, CallBasics, CallFacts DEF TypeOK
<1>2. me.pc = "boot" /\ \A i \in DOMAIN q : StartupCall(q[i], me.held)
    BY <1>1 DEF Starting
<1>3. StartupCall(o, me.held)
  <2>1. 1 \in DOMAIN q /\ o = q[1]
      BY <1>1
  <2> QED BY <1>2, <2>1
<1>4. ASSUME NEW rec \in Thread, rec.todo = q, rec.pc = "boot", Did(Main, rec),
             rec.held.state = me.held.state \/ rec.held.state # "paused"
      PROVE  /\ th'[Main].pc = "boot"
             /\ \A i \in DOMAIN th'[Main].todo : StartupCall(th'[Main].todo[i], th'[Main].held)
  <2> DEFINE new == [rec EXCEPT !.todo = Tail(rec.todo)]
  <2>1. new.pc = "boot" /\ new.todo = Tail(q) /\ new.held = rec.held
      BY <1>4 DEF Thread
  <2>2. Run(Main, new)
      BY <1>4 DEF Did, Thread
  <2> HIDE DEF new
  <2>3. th'[Main] = new
      BY <1>1, <2>1, <2>2, BootRuns
  <2>4. \A i \in DOMAIN Tail(q) : StartupCall(Tail(q)[i], rec.held)
      BY <1>1, <1>2, <1>4, StartupTail
  <2> QED BY <2>1, <2>3, <2>4
<1>5. CASE DoSave(Main)
  <2> DEFINE new == NewRecord(me, o)
             rec == [me EXCEPT !.held = new]
  <2>1. new \in Item
      BY <1>1, <1>5, NewRecordOK DEF DoSave, Calls
  <2>2. /\ rec \in Thread /\ rec.todo = q /\ rec.pc = "boot" /\ rec.held = new
      BY <1>1, <1>2, <2>1 DEF Thread
  <2>3. new.state = me.held.state \/ new.state # "paused"
    <3>1. o.op \in {"move", "touch"}
        BY <1>5 DEF DoSave, Calls
    <3>2. \A n : WithProgress(me.held, n).state = me.held.state
        BY <1>1 DEF WithProgress, Thread, Item
    <3>3. \A n : Transition(me.held, "waiting_for_owner", n).state
                   \in {me.held.state, "waiting_for_owner"}
        BY <1>1 DEF Transition, Thread, Item
    <3>4. CASE o.op = "touch"
        BY <3>2, <3>4 DEF NewRecord
    <3>5. CASE o.op = "move"
        BY <1>3, <3>3, <3>5 DEF NewRecord, StartupCall
    <3> QED BY <3>1, <3>4, <3>5
  <2>4. Did(Main, rec)
      BY <1>5 DEF DoSave
  <2> HIDE DEF new, rec
  <2> QED BY <1>4, <2>2, <2>3, <2>4
<1>6. CASE RejectSave(Main)
  <2> DEFINE rec == [me EXCEPT !.todo = <<>>, !.pc = "raise"]
  <2>1. rec.pc = "raise" /\ rec.todo = <<>>
      BY <1>1 DEF Thread
  <2>2. Run(Main, rec)
      BY <1>1, <1>2, <1>6 DEF RejectSave, Raise, Thread
  <2> HIDE DEF rec
  <2> QED BY <1>1, <2>1, <2>2, BootRuns
<1>7. CASE DoInterrupt(Main)
  <2>1. PICK n \in Nat : Did(Main, [me EXCEPT !.sid = n])
    <3>1. RunningSteps(me.w) \subseteq Nat
        BY <1>1, CallFacts DEF RunningSteps, TypeOK, StoreOK
    <3> QED BY <1>7, <3>1 DEF DoInterrupt
  <2> DEFINE rec == [me EXCEPT !.sid = n]
  <2>2. /\ rec \in Thread /\ rec.todo = q /\ rec.pc = "boot" /\ rec.held = me.held
      BY <1>1, <1>2 DEF Thread
  <2>3. Did(Main, rec)
      BY <2>1
  <2> HIDE DEF rec
  <2> QED BY <1>4, <2>2, <2>3
<1>8. CASE DoNotify(Main)
    BY <1>1, <1>2, <1>4, <1>8 DEF DoNotify
<1>9. \/ DoSave(Main) \/ RejectSave(Main) \/ DoInterrupt(Main) \/ DoNotify(Main)
    BY <1>3 DEF StoreCall, StartupCall, Calls, DoRead, DoAdd, DoMark, DoBlocker, DoClear,
                DoSend, DoSubmit, DoRestart, DoBind
<1> QED BY <1>5, <1>6, <1>7, <1>8, <1>9

LEMMA InterruptedStarts ==
    ASSUME TypeOK, Starting, NEW w \in Works, BootInterrupted(w)
    PROVE  Starting'
<1> DEFINE it    == item[w]
           marks == [i \in 1 .. Cardinality(RunningSteps(w)) |-> Interrupt]
           Good  == {o \in Call : StartupCall(o, it)}
<1>1. up = "starting" /\ up' = up /\ th[Main].pc = "boot"
    BY DEF BootInterrupted, AtBoot, env
<1>2. Interrupt \in Good /\ Touch("own") \in Good /\ Notify \in Good
      /\ (it.state # "paused" => Move("waiting_for_owner", "own") \in Good)
    BY CallOps, CallTypes DEF StartupCall, WorkStates, Waiting
<1>3. marks \in Seq(Good)
  <2>1. IsFiniteSet(DOMAIN steps[w])
      BY FS_Interval, LenProperties DEF TypeOK, StoreOK
  <2>2. Cardinality(RunningSteps(w)) \in Nat
      BY <2>1, FS_Subset, FS_CardinalityType DEF RunningSteps
  <2> HIDE DEF Good
  <2> QED BY <1>2, <2>2
<1>4. /\ <<Touch("own")>> \in Seq(Good)
      /\ it.state # "paused" => <<Move("waiting_for_owner", "own"), Notify>> \in Seq(Good)
  <2> HIDE DEF Good
  <2> QED BY <1>2, ShortSeqs
<1> HIDE DEF marks, Good
<1>5. PICK calls \in Seq(Good) :
          Run(Main, [th[Main] EXCEPT !.w = w, !.held = it, !.todo = calls])
    BY <1>3, <1>4, ConcatProperties DEF BootInterrupted, marks
<1> DEFINE rec == [th[Main] EXCEPT !.w = w, !.held = it, !.todo = calls]
<1>6. rec.pc = "boot" /\ rec.todo = calls /\ rec.held = it
    BY <1>1, ThreadFacts DEF TypeOK, ThreadsOK, Thread
<1>7. Run(Main, rec)
    BY <1>5
<1> HIDE DEF rec
<1>8. th'[Main] = rec
    BY <1>6, <1>7, BootRuns
<1>9. \A i \in DOMAIN calls : StartupCall(calls[i], it)
    BY DEF Good
<1> QED BY <1>1, <1>6, <1>8, <1>9 DEF Starting

LEMMA StartingNext ==
    ASSUME Pausing, [Next]_vars
    PROVE  Starting'
<1>1. TypeOK /\ Execution /\ Starting /\ th \in [Threads -> Thread]
    BY DEF Pausing, Execution, Versions, TypeOK, ThreadsOK
<1>2. ASSUME up' = up, th'[Main] = th[Main] PROVE Starting'
    BY <1>1, <1>2 DEF Starting
<1>3. ASSUME NEW t \in Threads, StoreCall(t)
      PROVE  Starting'
  <2>1. up' = up /\ up # "down"
      BY <1>3, StoreCallRuns
  <2>2. CASE t = Main
      BY <1>1, <1>3, <2>1, <2>2, StartupCalls DEF Starting
  <2>3. CASE t # Main
      BY <1>1, <1>2, <1>3, <2>1, <2>3, StoreCallMoves, ThreadFacts DEF OthersKeep
  <2> QED BY <2>2, <2>3
<1>4. ASSUME NEW e \in Execs, EngineStep(e) PROVE Starting'
    BY <1>1, <1>2, <1>4, EngineIsUp, EngineMoves, ThreadFacts
<1>5. ASSUME NEW e \in Execs, WorkflowStep(e) PROVE Starting'
  <2>1. up' = up
      BY <1>5 DEF WorkflowStep, StepReturns, StepRaises, ReceiveAnswer, ReceiveControl, env
  <2>2. th' = th \/ \E rec : th' = [th EXCEPT ![e] = rec]
      BY <1>5 DEF WorkflowStep, StepReturns, StepRaises, ReceiveAnswer, ReceiveControl, volatile
  <2> QED BY <1>1, <1>2, <2>1, <2>2, ThreadFacts
<1>6. CASE OwnerStep
  <2>1. up = "up" /\ up' = up
      BY <1>6 DEF OwnerStep, OwnerStart, OwnerPause, OwnerResume, OwnerCancel, OwnerRetry,
                  OwnerReprioritize, OwnerAnswer, Commanded
  <2> QED BY <2>1 DEF Starting
<1>7. CASE CancelAgain
  <2>1. up' = up /\ th[Main].pc = "cancel" /\ up \in {"down", "starting", "up"}
      BY <1>1, <1>7 DEF CancelAgain, Only, env, TypeOK, EnvOK
  <2> QED BY <1>1, <2>1 DEF Starting
<1>8. CASE BootStart
  <2>1. th' = [th EXCEPT ![Main] = [th[Main] EXCEPT !.pc = "boot"]]
      BY <1>8 DEF BootStart
  <2>2. th[Main] \in Thread /\ th[Main].todo = <<>>
      BY <1>1, <1>8, ThreadFacts DEF BootStart, Starting
  <2>3. th'[Main].pc = "boot" /\ th'[Main].todo = <<>>
      BY <1>1, <2>1, <2>2, ThreadFacts DEF Thread
  <2>4. up' = "starting"
      BY <1>8 DEF BootStart
  <2> QED BY <2>3, <2>4 DEF Starting
<1>9. CASE BootLaunch \/ BootResubmit
  <2>1. up' = "up"
      BY <1>9 DEF BootLaunch, BootResubmit, env
  <2> QED BY <2>1 DEF Starting
<1>10. CASE \E w \in Works : BootInterrupted(w)
    BY <1>1, <1>10, InterruptedStarts
<1>11. CASE BackendFault(Main)
  <2> DEFINE q == th[Main].todo
  <2>1. /\ up # "down" /\ up' = up /\ q # <<>>
        /\ Head(q).op \in {"submit", "restart", "send"}
      BY <1>11 DEF BackendFault, Calls
  <2>2. q \in Seq(Call)
      BY <1>1, ThreadFacts DEF Thread
  <2>3. 1 \in DOMAIN q /\ Head(q) = q[1]
      BY <2>1, <2>2
  <2>4. up # "starting"
      BY <1>1, <2>1, <2>3 DEF Starting, StartupCall
  <2> QED BY <2>1, <2>4 DEF Starting
<1>12. CASE Crash
    BY <1>12, ThreadFacts, IdleIsFree DEF Crash, Starting
<1>13. CASE UNCHANGED vars
    BY <1>2, <1>13 DEF vars
<1> QED BY <1>3, <1>4, <1>5, <1>6, <1>7, <1>8, <1>9, <1>10, <1>11, <1>12, <1>13
        DEF Next, MainStep

-----------------------------------------------------------------------------
(* The theorem *)

LEMMA PausingInitially == Init => Pausing
<1> SUFFICES ASSUME Init PROVE Pausing
    OBVIOUS
<1>1. Execution
    BY ExecutionInitially
<1>2. \A t \in Threads : th[t].pc = "idle" /\ th[t].todo = <<>> /\ ~Busy(th[t])
    BY IdleIsFree DEF Init
<1>3. LoopHeld /\ Starting
    BY <1>2 DEF Init, LoopHeld, Starting
<1>4. ASSUME NEW e \in Execs PROVE Placed(e) /\ Careful(e)
  <2>1. th[e].pc = "idle" /\ th[e].todo = <<>>
      BY <1>2, ThreadFacts
  <2>2. \A held, row : Guarded(<<>>, held, row)
      BY MildLists, GuardedLists
  <2> QED BY <2>1, <2>2, MildLists DEF Placed, Careful, Inside
<1> QED BY <1>1, <1>3, <1>4 DEF Pausing

LEMMA PausingNext == Pausing /\ [Next]_vars => Pausing'
<1> SUFFICES ASSUME Pausing, [Next]_vars PROVE Pausing'
    OBVIOUS
<1>1. Execution'
    BY ExecutionNext DEF Pausing
<1>2. \A e \in Execs : Placed(e)' /\ Careful(e)'
    BY CarefulNext
<1> QED BY <1>1, <1>2, LoopHeldNext, StartingNext DEF Pausing

\* What moves a paused item on is a save of the main thread, under a command.
LEMMA PausedStays ==
    ASSUME Pausing, [Next]_vars, NEW w \in Works,
           item[w].state = "paused", item'[w].state # "paused"
    PROVE  loop = Main /\ th[Main].w = w /\ up = "up"
<1>1. Versions /\ TypeOK
    BY DEF Pausing, Execution, Versions
<1>2. PICK t \in Threads : SavesAs(t, w, item'[w].state)
    BY <1>1, StateChanges
<1> DEFINE q == th[t].todo
<1>3. /\ q \in Seq(Call) /\ q # <<>> /\ up # "down" /\ th[t].w = w
      /\ th[t].held = item[w] /\ Risky(Head(q))
    BY <1>1, <1>2, CallFacts DEF SavesAs, DoSave, Calls, TypeOK, Thread, Risky
<1>4. 1 \in DOMAIN q /\ q[1] = Head(q)
    BY <1>3
<1>5. t = Main
  <2>1. ASSUME t \in Execs PROVE FALSE
      BY <1>3, <1>4, <2>1 DEF Pausing, Careful, Guarded
  <2> QED BY <2>1, ThreadFacts
<1>6. up = "up"
  <2>1. ASSUME up = "starting" PROVE FALSE
    <3>1. StartupCall(q[1], th[Main].held)
        BY <1>3, <1>4, <1>5, <2>1 DEF Pausing, Starting
    <3> QED BY <1>3, <1>4, <1>5, <3>1 DEF StartupCall, Risky
  <2> QED BY <1>1, <1>3, <2>1 DEF TypeOK, EnvOK
<1>7. loop = Main
    BY <1>3, <1>5, CallsAreBusy, ThreadFacts DEF Pausing, LoopHeld, OnLoop
<1> QED BY <1>3, <1>5, <1>6, <1>7

\* A paused item leaves that state only by a save the main thread makes for it
\* under a command of the owner: no execution that was past its look at the
\* item, no answer in flight and no restart takes it on.
THEOREM OwnerUnpauses == Spec => OnlyTheOwnerUnpauses
<1>1. Spec => []Pausing
    BY PausingInitially, PausingNext, PTL DEF Spec
<1>2. Pausing /\ [Next]_vars =>
         [\A w \in Works : item[w].state = "paused" /\ item'[w].state # "paused" =>
              loop = Main /\ th[Main].w = w /\ up = "up"]_vars
    BY PausedStays
<1> QED BY <1>1, <1>2, PTL DEF Spec, OnlyTheOwnerUnpauses

-----------------------------------------------------------------------------
(* What a segment of the engine leaves to do *)

Waits == <<Add("pressure"), Mark("completed", ""), Read, Move("waiting_resource", "own")>>

WaitsBlocked == <<Add("pressure"), Mark("completed", ""), Read,
                  Move("waiting_resource", "own"), Blocker>>

\* The calls that end a cycle: by one of them, by the failure of the item, by a
\* question, or by what was learnt.
Closing == {Notify, Clear, Touch("none"), Touch("keep"), Move("running", "none"),
            Move("waiting_dependency", "none"), Move("paused", "keep"),
            Move("waiting_resource", "keep"), Move("retrying", "own")}

Failing == {<<Move("failed", "none"), Notify>>, <<Move("failed", "own"), Notify>>,
            <<Move("failed", "keep"), Clear, Notify>>,
            <<Move("running", "none"), Move("failed", "none"), Notify>>}

Asking == {<<Move("waiting_for_owner", "none"), Notify>>,
           <<Move("waiting_for_owner", "own"), Notify>>}

Learning == {Waits, WaitsBlocked, <<Move("completed", "none"), Clear, Notify>>,
             <<Add("note"), Mark("completed", ""), Read, Touch("none")>>,
             <<Move("running", "none"), Read, Move("paused", "keep")>>}
            \cup {<<Add("owner_input"), Mark("completed", text), Move("running", "none")>> :
                      text \in Answers}

Script(pc, q) ==
    \/ pc # "exec" /\ q = <<>>
    \/ pc = "brain" /\ q = <<Move("running", "none")>>
    \/ pc = "admit" /\ q = <<Move("running", "none"), Read>>
    \/ pc = "failing" /\ q = <<Add("note"), Mark("failed", ""), Read>>
    \/ pc = "lease" /\ q = <<Move("waiting_resource", "none")>>
    \/ pc = "exec" /\ q = Start
    \/ /\ pc \in {"done", "settle", "asking"}
       /\ \E st \in {"completed", "failed"}, obs \in {"", "ask", "ask_secret"} :
             q = <<Mark(st, obs), Read>>
    \/ pc = "ret" /\ \/ q \in Failing \cup Asking \cup Learning
                     \/ \E o \in Closing : q = <<o>>

\* Thread e stands where the engine put it, with a script to follow.
Follows(e) ==
    /\ Script(th'[e].pc, th'[e].todo)
    /\ th'[e].sid = th[e].sid /\ th'[e].w = th[e].w
    /\ th'[e].pc \in {"done", "settle", "asking"} => Executing(e)

LEMMA SegmentFollows ==
    ASSUME TypeOK, NEW e \in Execs, NEW held, NEW pc, NEW calls, Script(pc, calls),
           pc \in {"done", "settle", "asking"} => Executing(e),
           Only(e, held, pc, calls) \/ Pressed(e, held, pc, calls) \/ Segment(e, held, pc, calls)
    PROVE  Follows(e)
BY SegmentMoves, ThreadFacts DEF Only, Pressed, Follows

LEMMA RaiseFollows ==
    ASSUME TypeOK, NEW e \in Execs, Raise(e)
    PROVE  Follows(e)
<1> DEFINE rec == [th[e] EXCEPT !.todo = <<>>, !.pc = "raise"]
<1>1. th[e] \in Thread /\ e \in Threads /\ e # Main
    BY ExecOK, ThreadFacts
<1>2. Run(e, rec)
    BY <1>1 DEF Raise
<1>3. rec.todo = <<>> /\ rec.sid = th[e].sid /\ rec.w = th[e].w /\ rec.pc = "raise"
    BY <1>1 DEF Thread
<1> HIDE DEF rec
<1> QED BY <1>1, <1>2, <1>3, RunMoves DEF Follows, Script

LEMMA ThreeCalls == \A a, b, c : <<a>> \o <<b, c>> = <<a, b, c>>
<1> TAKE a, b, c
<1> DEFINE S == {a, b, c}
           q == <<a>> \o <<b, c>>
           r == <<a, b, c>>
<1>1. <<a>> \in Seq(S) /\ <<b, c>> \in Seq(S) /\ r \in Seq(S)
    OBVIOUS
<1>2. Len(<<a>>) = 1 /\ Len(<<b, c>>) = 2
    OBVIOUS
<1>3. /\ q \in Seq(S) /\ Len(q) = 3
      /\ q[1] = a /\ q[2] = <<b, c>>[2 - 1] /\ q[3] = <<b, c>>[3 - 1]
    BY <1>1, <1>2, ConcatProperties
<1>4. <<b, c>>[2 - 1] = b /\ <<b, c>>[3 - 1] = c
    OBVIOUS
<1>5. Len(r) = 3 /\ r[1] = a /\ r[2] = b /\ r[3] = c
    OBVIOUS
<1> HIDE DEF q, r, S
<1>6. \A i \in 1 .. Len(q) : q[i] = r[i]
    BY <1>3, <1>4, <1>5
<1> QED BY <1>1, <1>3, <1>5, <1>6, SeqEqual DEF q, r

LEMMA AdmissionFollows ==
    ASSUME TypeOK, NEW e \in Execs, NEW it, Admission(e, it)
    PROVE  Follows(e)
<1> DEFINE fails == <<Move("failed", "none"), Notify>>
           runs  == <<Move("running", "none")>>
<1>1. <<>> \o fails = fails /\ runs \o fails = <<Move("running", "none"), Move("failed", "none"), Notify>>
  <2>1. fails \in Seq({Move("failed", "none"), Notify})
      OBVIOUS
  <2> QED BY <2>1, ConcatEmptySeq, ThreeCalls
<1>2. Script("ret", <<Notify>>) /\ Script("ret", <<Move("paused", "keep")>>)
    BY DEF Script, Closing
<1>3. MakeRunning(it) \in {<<>>, runs}
    BY DEF MakeRunning
<1>4. Script("brain", MakeRunning(it)) /\ Script("ret", MakeRunning(it) \o fails)
    BY <1>1, <1>3 DEF Script, Failing
<1> HIDE DEF fails
<1> QED BY <1>2, <1>4, SegmentFollows DEF Admission, fails

LEMMA EngineFollows ==
    ASSUME TypeOK, NEW e \in Execs, EngineStep(e)
    PROVE  Follows(e)
<1>1. CASE AdvanceStopped(e)
  <2>1. Script("ret", <<>>) /\ Script("ret", <<Notify>>)
      BY DEF Script, Closing
  <2> QED BY <1>1, <2>1, SegmentFollows DEF AdvanceStopped
<1>2. CASE AdvanceDependent(e)
  <2>1. /\ Script("ret", <<>>) /\ Script("ret", <<Move("failed", "none"), Notify>>)
        /\ Script("ret", <<Move("waiting_dependency", "none")>>)
        /\ Script("admit", <<Move("running", "none"), Read>>)
      BY DEF Script, Closing, Failing
  <2> QED BY <1>2, <2>1, SegmentFollows DEF AdvanceDependent
<1>3. CASE Advance(e) \/ Admit(e)
  <2>1. Script("ret", <<>>)
      BY DEF Script
  <2> QED BY <1>3, <2>1, SegmentFollows, AdmissionFollows DEF Advance, Admit
<1>4. CASE BrainUnavailable(e)
  <2>1. Waits \o <<Blocker>> = WaitsBlocked
      BY FiveCalls DEF Waits, WaitsBlocked
  <2>2. /\ Script("ret", Waits) /\ Script("ret", WaitsBlocked)
        /\ Script("ret", <<Move("waiting_resource", "keep")>>)
      BY DEF Script, Learning, Closing
  <2>3. PICK held, calls : Pressed(e, held, "ret", calls) /\ Script("ret", calls)
      BY <1>4, <2>1, <2>2 DEF BrainUnavailable, Waits
  <2> QED BY <2>3, SegmentFollows
<1>5. CASE DecideTooLate(e) \/ BrainFails(e) \/ BrainCompletes(e) \/ BrainAsks(e) \/ BrainActs(e)
  <2>1. /\ Script("ret", <<>>)
        /\ Script("failing", <<Add("note"), Mark("failed", ""), Read>>)
        /\ Script("ret", <<Add("note"), Mark("completed", ""), Read, Touch("none")>>)
        /\ Script("ret", <<Move("completed", "none"), Clear, Notify>>)
        /\ Script("ret", <<Move("waiting_for_owner", "none"), Notify>>)
        /\ Script("lease", <<Move("waiting_resource", "none")>>)
      BY DEF Script, Learning, Asking
  <2>2. ASSUME NEW held, NEW pc \in {"ret", "failing", "lease"}, NEW calls,
               Only(e, held, pc, calls), Script(pc, calls)
        PROVE  Follows(e)
    <3>1. pc \notin {"done", "settle", "asking"}
        OBVIOUS
    <3> QED BY <2>2, <3>1, SegmentFollows
  <2> QED BY <1>5, <2>1, <2>2
          DEF DecideTooLate, BrainFails, BrainCompletes, BrainAsks, BrainActs
<1>6. CASE Leased(e)
  <2>1. Script("ret", <<>>)
        /\ Script("ret", <<Move("running", "none"), Read, Move("paused", "keep")>>)
      BY DEF Script, Learning
  <2>2. CASE th' = [th EXCEPT ![e] = [@ EXCEPT !.pc = "exec", !.held = item[e[1]],
                                               !.todo = Start]]
    <3> DEFINE rec == [th[e] EXCEPT !.pc = "exec", !.held = item[e[1]], !.todo = Start]
    <3>1. th[e] \in Thread /\ e \in Threads
        BY ExecOK
    <3>2. rec.pc = "exec" /\ rec.todo = Start /\ rec.sid = th[e].sid /\ rec.w = th[e].w
        BY <3>1 DEF Thread
    <3>3. th' = [th EXCEPT ![e] = rec]
        BY <2>2
    <3> HIDE DEF rec
    <3>4. th'[e] = rec
        BY <3>1, <3>3 DEF TypeOK, ThreadsOK
    <3> QED BY <3>2, <3>4 DEF Follows, Script
  <2> QED BY <1>6, <2>1, <2>2, SegmentFollows DEF Leased, Start
<1>7. CASE LeaseRefused(e) \/ StepDone(e) \/ StepAsks(e) \/ StepFails(e)
  <2>1. /\ Script("ret", <<>>) /\ Script("ret", <<Touch("keep")>>)
        /\ Script("ret", <<Touch("none")>>)
        /\ Script("ret", <<Move("waiting_for_owner", "own"), Notify>>)
        /\ Script("ret", <<Move("failed", "own"), Notify>>)
        /\ Script("ret", <<Move("retrying", "own")>>)
      BY DEF Script, Closing, Asking, Failing
  <2> QED BY <1>7, <2>1, SegmentFollows DEF LeaseRefused, StepDone, StepAsks, StepFails
<1>8. CASE Executed(e)
  <2>1. \A st \in {"completed", "failed"}, obs \in {"", "ask", "ask_secret"} :
            \A pc \in {"done", "settle", "asking"} : Script(pc, <<Mark(st, obs), Read>>)
      BY DEF Script
  <2> QED BY <1>8, <2>1, SegmentFollows DEF Executed, Resumes, Executing
<1>9. CASE ApplyPlain(e)
  <2>1. wf[e].msg \in Message
      BY <1>9 DEF ApplyPlain, AtStep, TypeOK, DbosOK
  <2>2. wf[e].msg.text \in Answers
      BY <2>1 DEF Message
  <2>3. /\ Script("ret", <<>>)
        /\ Script("ret", <<Add("owner_input"), Mark("completed", wf[e].msg.text),
                           Move("running", "none")>>)
      BY <2>2 DEF Script, Learning
  <2> QED BY <1>9, <2>3, SegmentFollows, RaiseFollows DEF ApplyPlain
<1>10. CASE ApplySealed(e)
  <2>1. Script("ret", <<>>)
      BY DEF Script
  <2> QED BY <1>10, <2>1, SegmentFollows, RaiseFollows DEF ApplySealed
<1>11. CASE FailBounded(e)
  <2>1. Script("ret", <<Clear>>) /\ Script("ret", <<Move("failed", "keep"), Clear, Notify>>)
      BY DEF Script, Closing, Failing
  <2> QED BY <1>11, <2>1, SegmentFollows DEF FailBounded
<1> QED BY <1>1, <1>2, <1>3, <1>4, <1>5, <1>6, <1>7, <1>8, <1>9, <1>10, <1>11 DEF EngineStep

-----------------------------------------------------------------------------
(* What a call and the owner leave to do *)

\* The step number a call leaves the thread with.
Numbers(t) ==
    \/ th'[t].sid = th[t].sid /\ ~DoAdd(t)
    \/ DoAdd(t) /\ th'[t].sid = Len(steps[th[t].w]) + 1
    \/ DoRestart(t)
    \/ DoInterrupt(t) /\ th'[t].sid \in RunningSteps(th[t].w)

LEMMA CallMoves ==
    ASSUME TypeOK, NEW t \in Threads, StoreCall(t)
    PROVE  \/ t = Main /\ th'[t] = Idle(Owner)
           \/ /\ RejectSave(t) /\ th'[t].todo = <<>>
              /\ th'[t].w = th[t].w /\ th'[t].sid = th[t].sid
              /\ th'[t].pc \in {"raise", "cancel"}
           \/ /\ th'[t].todo = Tail(th[t].todo) /\ th'[t].pc = th[t].pc
              /\ th'[t].w = th[t].w /\ Numbers(t) /\ ~RejectSave(t)
<1> DEFINE me == th[t]
           Idles == t = Main /\ th'[t] = Idle(Owner)
           Goes == th'[t].todo = Tail(me.todo) /\ th'[t].pc = me.pc /\ th'[t].w = me.w
<1>1. me.todo # <<>> /\ ThreadsOK
    BY DEF StoreCall, DoRead, DoSave, RejectSave, DoAdd, DoMark, DoInterrupt, DoNotify,
           DoBlocker, DoClear, DoSend, DoSubmit, DoRestart, DoBind, Calls, TypeOK
<1>2. me \in Thread /\ me.w \in Works
    BY <1>1, CallFacts
<1>3. CASE RejectSave(t)
  <2>1. ASSUME NEW rec, Run(t, rec), rec.todo = <<>>, rec.w = me.w, rec.sid = me.sid,
               rec.pc \in {"raise", "cancel"}
        PROVE  \/ Idles
               \/ /\ th'[t].todo = <<>> /\ th'[t].w = me.w /\ th'[t].sid = me.sid
                  /\ th'[t].pc \in {"raise", "cancel"}
      BY <2>1, RunMoves
  <2>2. CASE Run(t, [me EXCEPT !.todo = <<>>, !.pc = "cancel"])
    <3> DEFINE rec == [me EXCEPT !.todo = <<>>, !.pc = "cancel"]
    <3>1. rec.pc = "cancel" /\ rec.todo = <<>> /\ rec.w = me.w /\ rec.sid = me.sid
        BY <1>2 DEF Thread
    <3> HIDE DEF rec
    <3> QED BY <1>3, <2>1, <2>2, <3>1 DEF rec
  <2>3. CASE Raise(t)
    <3> DEFINE pc  == IF t = Main /\ me.pc # "boot" THEN "idle" ELSE "raise"
               rec == [me EXCEPT !.todo = <<>>, !.pc = pc]
    <3>1. rec.pc = pc /\ rec.todo = <<>> /\ rec.w = me.w /\ rec.sid = me.sid
        BY <1>2 DEF Thread
    <3>2. Run(t, rec)
        BY <1>2, <2>3 DEF Raise, Thread
    <3> HIDE DEF rec
    <3>3. CASE pc = "raise"
        BY <1>3, <2>1, <3>1, <3>2, <3>3
    <3>4. CASE pc # "raise"
      <4>1. t = Main /\ rec.pc = "idle"
          BY <3>1, <3>4
      <4>2. Returned(rec)
          BY <3>1, <4>1 DEF Returned
      <4> QED BY <3>2, <4>1, <4>2, ThreadFacts DEF Run, TypeOK, ThreadsOK
    <3> QED BY <3>3, <3>4
  <2> QED BY <1>3, <2>2, <2>3 DEF RejectSave
<1>4. ASSUME NEW h, Did(t, [me EXCEPT !.held = h]) PROVE Idles \/ (Goes /\ th'[t].sid = me.sid)
  <2> DEFINE rec == [[me EXCEPT !.held = h] EXCEPT !.todo = Tail(me.todo)]
  <2>1. /\ rec.pc = me.pc /\ rec.todo = Tail(me.todo) /\ rec.w = me.w /\ rec.sid = me.sid
        /\ Run(t, rec)
      BY <1>2, <1>4 DEF Did, Thread
  <2> HIDE DEF rec
  <2> QED BY <2>1, RunMoves
<1>5. ASSUME NEW n, Did(t, [me EXCEPT !.sid = n]) PROVE Idles \/ (Goes /\ th'[t].sid = n)
  <2> DEFINE rec == [[me EXCEPT !.sid = n] EXCEPT !.todo = Tail(me.todo)]
  <2>1. /\ rec.pc = me.pc /\ rec.todo = Tail(me.todo) /\ rec.w = me.w /\ rec.sid = n
        /\ Run(t, rec)
      BY <1>2, <1>5 DEF Did, Thread
  <2> HIDE DEF rec
  <2> QED BY <2>1, RunMoves
<1>6. ASSUME Did(t, me) PROVE Idles \/ (Goes /\ th'[t].sid = me.sid)
  <2> DEFINE rec == [me EXCEPT !.todo = Tail(me.todo)]
  <2>1. /\ rec.pc = me.pc /\ rec.todo = Tail(me.todo) /\ rec.w = me.w /\ rec.sid = me.sid
        /\ Run(t, rec)
      BY <1>2, <1>6 DEF Did, Thread
  <2> HIDE DEF rec
  <2> QED BY <2>1, RunMoves
<1>7. CASE DoAdd(t)
    BY <1>3, <1>5, <1>7 DEF DoAdd, Numbers
<1>8. CASE \/ DoRead(t) \/ DoSave(t) \/ DoMark(t) \/ DoNotify(t) \/ DoBlocker(t) \/ DoClear(t)
           \/ DoSend(t) \/ DoSubmit(t) \/ DoBind(t)
  <2>1. Did(t, me) \/ \E h : Did(t, [me EXCEPT !.held = h])
      BY <1>8 DEF DoRead, DoSave, DoMark, DoNotify, DoBlocker, DoClear, DoSend, DoSubmit, DoBind
  <2> QED BY <1>3, <1>4, <1>6, <1>7, <2>1 DEF Numbers
<1>9. CASE DoRestart(t)
    BY <1>3, <1>5, <1>7, <1>9 DEF DoRestart, Numbers
<1>10. CASE DoInterrupt(t)
    BY <1>3, <1>5, <1>7, <1>10 DEF DoInterrupt, Numbers
<1> QED BY <1>3, <1>7, <1>8, <1>9, <1>10 DEF StoreCall

\* The call lists the owner's commands, and their failures, leave the main thread.
Errand(q, held) ==
    \/ q = <<>>
    \/ q \in {<<Launch>>, <<Clear>>, <<Send("cancel")>>, <<Move("paused", "keep")>>,
              <<Touch("keep")>>, <<Move("cancelled", "keep"), Clear>>,
              <<Move("failed", "none"), Notify>>, <<Read, Move("failed", "keep"), Notify>>,
              <<Read, Move("paused", "keep")>>}
    \/ q = <<Add("note"), Mark("completed", ""), Move("retrying", "none"), Restart, Bind>>
    \/ /\ held.state = "paused"
       /\ q = <<Move(ResumeTarget(held), "keep"), Send("resume")>>

LEMMA ErrandRuns ==
    ASSUME TypeOK, NEW rec, Run(Main, rec), Errand(rec.todo, rec.held)
    PROVE  Errand(th'[Main].todo, th'[Main].held)
<1>1. Idle(Owner).todo = <<>>
    BY DEF Idle
<1> QED BY <1>1, RunMoves, ThreadFacts DEF Errand

LEMMA ErrandCommand ==
    ASSUME TypeOK, NEW w, NEW held, NEW pc, NEW calls, Command(w, held, pc, calls),
           Errand(calls, held)
    PROVE  Errand(th'[Main].todo, th'[Main].held)
<1> DEFINE rec == [Idle(w) EXCEPT !.pc = pc, !.held = held, !.todo = calls]
<1>1. rec.todo = calls /\ rec.held = held
    BY DEF Idle
<1>2. Run(Main, rec)
    BY DEF Command
<1> HIDE DEF rec
<1> QED BY <1>1, <1>2, ErrandRuns

LEMMA OwnerErrands ==
    ASSUME TypeOK, OwnerStep
    PROVE  /\ up = "up" /\ up' = up
           /\ th'[Main] = th[Main] \/ Errand(th'[Main].todo, th'[Main].held)
<1>1. up = "up" /\ up' = up
    BY DEF OwnerStep, OwnerStart, OwnerPause, OwnerResume, OwnerCancel, OwnerRetry,
           OwnerReprioritize, OwnerAnswer, Commanded
<1>2. PICK w \in Works : \/ OwnerStart(w) \/ OwnerPause(w) \/ OwnerResume(w) \/ OwnerCancel(w)
                         \/ OwnerRetry(w) \/ OwnerReprioritize(w) \/ OwnerAnswer(w)
    BY DEF OwnerStep
<1>3. \A held : /\ Errand(<<Launch>>, held) /\ Errand(<<Clear>>, held)
                /\ Errand(<<Send("cancel")>>, held) /\ Errand(<<Move("paused", "keep")>>, held)
                /\ Errand(<<Touch("keep")>>, held)
                /\ Errand(<<Add("note"), Mark("completed", ""), Move("retrying", "none"),
                            Restart, Bind>>, held)
    BY DEF Errand
<1>4. CASE OwnerStart(w) \/ OwnerPause(w)
    BY <1>1, <1>3, <1>4, ErrandCommand DEF OwnerStart, OwnerPause
<1>5. CASE OwnerResume(w)
  <2>1. Errand(<<Move(ResumeTarget(item[w]), "keep"), Send("resume")>>, item[w])
      BY <1>5 DEF OwnerResume, Errand
  <2> QED BY <1>1, <1>5, <2>1, ErrandCommand DEF OwnerResume
<1>6. CASE OwnerCancel(w)
    BY <1>1, <1>3, <1>6, ErrandCommand DEF OwnerCancel
<1>7. CASE OwnerRetry(w)
    BY <1>1, <1>3, <1>7, ErrandCommand DEF OwnerRetry
<1>8. CASE OwnerReprioritize(w)
    BY <1>1, <1>3, <1>8, ErrandCommand DEF OwnerReprioritize
<1>9. CASE OwnerAnswer(w)
    BY <1>1, <1>9 DEF OwnerAnswer, volatile
<1> QED BY <1>1, <1>2, <1>4, <1>5, <1>6, <1>7, <1>8, <1>9

\* When no call is due, the main thread idles, runs an errand or starts up.
LEMMA MainMoves ==
    ASSUME TypeOK, Starting, [Next]_vars
    PROVE  \/ th'[Main] = th[Main]
           \/ StoreCall(Main) \/ BootStart
           \/ \E w \in Works : BootInterrupted(w)
           \/ /\ up' = "up" \/ th'[Main].todo = <<>>
              /\ Errand(th'[Main].todo, th'[Main].held)
<1> DEFINE new == /\ up' = "up" \/ th'[Main].todo = <<>>
                  /\ Errand(th'[Main].todo, th'[Main].held)
<1>1. Main \in Threads /\ th[Main] \in Thread /\ up \in {"down", "starting", "up"}
    BY ThreadFacts DEF TypeOK, ThreadsOK, EnvOK
<1>2. ASSUME NEW t \in Threads, StoreCall(t), t # Main PROVE th'[Main] = th[Main]
    BY <1>1, <1>2, StoreCallMoves DEF OthersKeep
<1>3. ASSUME NEW e \in Execs, EngineStep(e) PROVE th'[Main] = th[Main]
    BY <1>1, <1>3, EngineMoves, ThreadFacts
<1>4. ASSUME NEW e \in Execs, WorkflowStep(e) PROVE th'[Main] = th[Main]
  <2>1. th' = th \/ \E rec : th' = [th EXCEPT ![e] = rec]
      BY <1>4 DEF WorkflowStep, StepReturns, StepRaises, ReceiveAnswer, ReceiveControl, volatile
  <2> QED BY <1>1, <2>1, ThreadFacts DEF TypeOK, ThreadsOK
<1>5. OwnerStep => th'[Main] = th[Main] \/ new
    BY OwnerErrands
<1>6. CASE CancelAgain
  <2> DEFINE it == item[th[Main].w]
  <2>1. Errand(<<Clear>>, it) /\ Errand(<<Move("cancelled", "keep"), Clear>>, it)
      BY DEF Errand
  <2>2. PICK pc, calls : Only(Main, it, pc, calls) /\ Errand(calls, it)
      BY <1>6, <2>1 DEF CancelAgain
  <2> DEFINE rec == [th[Main] EXCEPT !.pc = pc, !.held = it, !.todo = calls]
  <2>3. rec.todo = calls /\ rec.held = it /\ Run(Main, rec)
      BY <1>1, <2>2 DEF Only, Segment, Thread
  <2> HIDE DEF rec
  <2>4. Errand(th'[Main].todo, th'[Main].held)
      BY <2>2, <2>3, ErrandRuns
  <2>5. up = "up" /\ up' = up
      BY <1>1, <1>6, <2>2 DEF CancelAgain, Starting, Only, env
  <2> QED BY <2>4, <2>5
<1>7. CASE BootLaunch
    BY <1>7 DEF BootLaunch, volatile
<1>8. CASE BootResubmit
  <2>1. Idle(Owner).todo = <<>>
      BY DEF Idle
  <2>2. Errand(Idle(Owner).todo, Idle(Owner).held)
      BY <2>1 DEF Errand
  <2>3. up' = "up"
      BY <1>8 DEF BootResubmit, env
  <2> QED BY <1>8, <2>2, <2>3, ErrandRuns DEF BootResubmit
<1>9. CASE BackendFault(Main)
  <2> DEFINE q == th[Main].todo
             o == Head(th[Main].todo)
             rec == [th[Main] EXCEPT !.pc = "idle", !.todo = OnFault(o.op, o.a)]
  <2>1. /\ up # "down" /\ up' = up /\ q # <<>>
        /\ o.op \in {"submit", "restart", "send"} /\ Run(Main, rec)
      BY <1>9 DEF BackendFault, Calls
  <2>2. q \in Seq(Call)
      BY <1>1 DEF Thread
  <2>3. 1 \in DOMAIN q /\ o = q[1]
      BY <2>1, <2>2
  <2>4. up = "up"
      BY <1>1, <2>1, <2>3 DEF Starting, StartupCall
  <2>5. rec.todo = OnFault(o.op, o.a)
      BY <1>1 DEF Thread
  <2>6. Errand(rec.todo, rec.held)
      BY <2>1, <2>5 DEF OnFault, Errand
  <2> HIDE DEF rec, o
  <2> QED BY <2>1, <2>4, <2>6, ErrandRuns
<1>10. CASE Crash
  <2>1. th'[Main] = Idle(Owner)
      BY <1>1, <1>10 DEF Crash, Main
  <2>2. Idle(Owner).todo = <<>>
      BY DEF Idle
  <2> QED BY <2>1, <2>2 DEF Errand
<1>11. CASE UNCHANGED vars
    BY <1>11 DEF vars
<1> QED BY <1>2, <1>3, <1>4, <1>5, <1>6, <1>7, <1>8, <1>9, <1>10, <1>11 DEF Next, MainStep
=============================================================================
