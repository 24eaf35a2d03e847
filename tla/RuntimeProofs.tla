---------------------------- MODULE RuntimeProofs ----------------------------
(***************************************************************************)
(* What holds between an item, its steps, the owner's messages and the     *)
(* executions at work on it, for any number of items, retries and cycles.  *)
(*                                                                         *)
(* A sealed answer is stored only under its question, whatever crashes     *)
(* (SealedAnswerIsCurrent). The inductive invariant is Sealing: no thread  *)
(* is still to write the step that an item asks the owner about, and the   *)
(* answers on their way were given to a question asked in secret           *)
(* (Letters).                                                              *)
(*                                                                         *)
(* Until the first crash at most one execution works on an item            *)
(* (OneDriver). The inductive invariant is Driven: an execution is started *)
(* when nobody is Going for the item, because the record it is started     *)
(* from is of a failed or a new item, and who fails an item has only to    *)
(* report it and return.                                                   *)
(*                                                                         *)
(* As long as no item was retried, startup never raises                    *)
(* (StartupNeverAborts). The inductive invariant is Restartable: an item   *)
(* with a running step is in a state that can wait for the owner, or       *)
(* paused out of one; while the process is up such a step has its          *)
(* execution at work, from whose save the others keep away; and what       *)
(* startup has left to save is the item as it is.                          *)
(***************************************************************************)
EXTENDS ExecutionProofs

-----------------------------------------------------------------------------
(* Calls that bear on questions *)

Asks(o) == o.op = "move" /\ o.a = "waiting_for_owner"

\* What an execution may be about to do, unless it prepares an executor: it does
\* not renumber steps nor start executions, it pauses an item where it stands,
\* and it asks only under a step it has done with.
PlainCalls == {o \in Call : /\ o.op \notin {"restart", "interrupt", "submit", "send", "bind"}
                            /\ o.op = "move" /\ o.a = "paused" => o.b = "keep"
                            /\ o.op = "mark" /\ o.a = "running" => o.b = ""
                            /\ o.op = "touch" => o.b \in {"none", "keep"}}

AskFree  == {o \in PlainCalls : ~Asks(o)}
MarkFree == {o \in PlainCalls : o.op # "mark" /\ (Asks(o) => o.b \in {"none", "own"})}

Polite(e) == th[e].pc = "exec" \/ th[e].todo \in Seq(AskFree) \cup Seq(MarkFree)

\* What the main thread may be about to do: under a command it asks again only
\* what a paused item had asked, at startup it works on the step it interrupted.
ErrandCalls == {o \in Call : /\ ~Asks(o)
                             /\ o.op # "interrupt"
                             /\ o.op = "move" /\ o.a = "paused" => o.b = "keep"
                             /\ o.op = "mark" /\ o.a = "running" => o.b = ""
                             /\ o.op \in {"move", "touch"} => o.b \in {"none", "keep"}}

BootCalls == {Interrupt, Notify, Touch("own"), Move("waiting_for_owner", "own")}

AsksAgain(rec) ==
    /\ rec.held.state = "paused" /\ rec.held.from = "waiting_for_owner"
    /\ rec.todo = <<Move("waiting_for_owner", "keep"), Send("resume")>>

Orders ==
    /\ up = "up" => th[Main].todo \in Seq(ErrandCalls) \/ AsksAgain(th[Main])
    /\ up # "up" /\ th[Main].todo # <<>> =>
          /\ th[Main].todo \in Seq(BootCalls)
          /\ Head(th[Main].todo) # Interrupt =>
                th[Main].sid \in DOMAIN steps[th[Main].w]

LEMMA PoliteCalls ==
    /\ {Read, Notify, Clear, Blocker, Touch("none"), Touch("keep"),
        Move("running", "none"), Move("waiting_dependency", "none"),
        Move("paused", "keep"), Move("waiting_resource", "keep"),
        Move("waiting_resource", "none"), Move("waiting_resource", "own"),
        Move("retrying", "own"), Move("failed", "none"), Move("failed", "own"),
        Move("failed", "keep"), Move("completed", "none")} \subseteq AskFree \cap MarkFree
    /\ \A k \in StepKinds : Add(k) \in AskFree \cap MarkFree
    /\ \A st \in {"completed", "failed"}, obs \in Observed : Mark(st, obs) \in AskFree
    /\ Move("waiting_for_owner", "none") \in MarkFree
    /\ Move("waiting_for_owner", "own") \in MarkFree
<1>1. \A to \in WorkStates, s \in {"none", "keep", "own"} :
          /\ to \notin {"paused", "waiting_for_owner"} => Move(to, s) \in AskFree \cap MarkFree
          /\ to = "paused" /\ s = "keep" => Move(to, s) \in AskFree \cap MarkFree
          /\ to = "waiting_for_owner" /\ s # "keep" => Move(to, s) \in MarkFree
    BY CallTypes DEF Move, Op, AskFree, MarkFree, PlainCalls, Asks
<1>2. {"running", "waiting_dependency", "paused", "waiting_resource", "retrying", "failed",
       "completed", "waiting_for_owner"} \subseteq WorkStates
    BY DEF WorkStates, Waiting, Terminal
<1>3. {Read, Notify, Clear, Blocker, Touch("none"), Touch("keep")} \subseteq AskFree \cap MarkFree
  <2>1. Touch("none").b = "none" /\ Touch("keep").b = "keep"
      BY DEF Touch, Op
  <2>2. {Read, Notify, Clear, Blocker, Touch("none"), Touch("keep")} \subseteq Call
      BY CallTypes
  <2>3. \A o \in {Read, Notify, Clear, Blocker, Touch("none"), Touch("keep")} :
            /\ o.op \in {"read", "notify", "clear", "blocker", "touch"}
            /\ o.op = "touch" => o.b \in {"none", "keep"}
      BY <2>1, CallOps
  <2> QED BY <2>2, <2>3 DEF AskFree, MarkFree, PlainCalls, Asks
<1>4. \A k \in StepKinds : Add(k) \in AskFree \cap MarkFree
    BY CallTypes DEF Add, Op, AskFree, MarkFree, PlainCalls, Asks
<1>5. \A st \in {"completed", "failed"}, obs \in Observed : Mark(st, obs) \in AskFree
  <2>1. {"completed", "failed"} \subseteq StepStates
      BY DEF StepStates
  <2> QED BY <2>1, CallTypes DEF Mark, Op, AskFree, PlainCalls, Asks
<1> QED BY <1>1, <1>2, <1>3, <1>4, <1>5

LEMMA ScriptIsPolite ==
    ASSUME NEW pc, NEW q, Script(pc, q), pc # "exec"
    PROVE  q \in Seq(AskFree) \cup Seq(MarkFree)
<1>1. {"", "ask", "ask_secret"} \subseteq Observed /\ Answers \subseteq Observed
      /\ {"note", "owner_input", "pressure"} \subseteq StepKinds
    BY DEF Observed, StepKinds
<1>2. CASE q \in Asking
  <2>1. /\ <<Move("waiting_for_owner", "none"), Notify>> \in Seq(MarkFree)
        /\ <<Move("waiting_for_owner", "own"), Notify>> \in Seq(MarkFree)
      BY PoliteCalls, ShortSeqs
  <2> QED BY <1>2, <2>1 DEF Asking
<1>3. CASE q \in Failing
  <2>1. /\ <<Move("failed", "none"), Notify>> \in Seq(AskFree)
        /\ <<Move("failed", "own"), Notify>> \in Seq(AskFree)
        /\ <<Move("failed", "keep"), Clear, Notify>> \in Seq(AskFree)
        /\ <<Move("running", "none"), Move("failed", "none"), Notify>> \in Seq(AskFree)
      BY PoliteCalls, ShortSeqs
  <2> QED BY <1>3, <2>1 DEF Failing
<1>4. CASE q \in Learning
  <2>1. Waits \in Seq(AskFree) /\ WaitsBlocked \in Seq(AskFree)
      BY <1>1, PoliteCalls, ShortSeqs DEF Waits, WaitsBlocked
  <2>2. /\ <<Move("completed", "none"), Clear, Notify>> \in Seq(AskFree)
        /\ <<Add("note"), Mark("completed", ""), Read, Touch("none")>> \in Seq(AskFree)
        /\ <<Move("running", "none"), Read, Move("paused", "keep")>> \in Seq(AskFree)
      BY <1>1, PoliteCalls, ShortSeqs
  <2>3. \A text \in Answers :
            <<Add("owner_input"), Mark("completed", text), Move("running", "none")>> \in Seq(AskFree)
      BY <1>1, PoliteCalls, ShortSeqs
  <2> QED BY <1>4, <2>1, <2>2, <2>3 DEF Learning
<1>5. CASE \E o \in Closing : q = <<o>>
  <2>1. Closing \subseteq AskFree
      BY PoliteCalls DEF Closing
  <2> QED BY <1>5, <2>1, ShortSeqs
<1>6. CASE \/ q = <<>> \/ q = <<Move("running", "none")>>
           \/ q = <<Move("running", "none"), Read>>
           \/ q = <<Add("note"), Mark("failed", ""), Read>>
           \/ q = <<Move("waiting_resource", "none")>>
  <2>1. /\ <<>> \in Seq(AskFree) /\ <<Move("running", "none")>> \in Seq(AskFree)
        /\ <<Move("running", "none"), Read>> \in Seq(AskFree)
        /\ <<Add("note"), Mark("failed", ""), Read>> \in Seq(AskFree)
        /\ <<Move("waiting_resource", "none")>> \in Seq(AskFree)
      BY <1>1, PoliteCalls, ShortSeqs
  <2> QED BY <1>6, <2>1
<1>7. CASE \E st \in {"completed", "failed"}, obs \in {"", "ask", "ask_secret"} :
              q = <<Mark(st, obs), Read>>
  <2>1. \A st \in {"completed", "failed"}, obs \in Observed :
            <<Mark(st, obs), Read>> \in Seq(AskFree)
      BY PoliteCalls, ShortSeqs
  <2> QED BY <1>1, <1>7, <2>1
<1> QED BY <1>2, <1>3, <1>4, <1>5, <1>6, <1>7 DEF Script

LEMMA ErrandsAreOrders ==
    ASSUME NEW rec, rec.held \in Item, Errand(rec.todo, rec.held)
    PROVE  rec.todo \in Seq(ErrandCalls) \/ AsksAgain(rec)
<1> DEFINE q == rec.todo
           E == ErrandCalls
<1>1. \A to \in WorkStates, s \in {"none", "keep"} :
          to # "waiting_for_owner" /\ (to = "paused" => s = "keep") => Move(to, s) \in E
    BY CallTypes DEF Move, Op, ErrandCalls, Asks
<1>2. {"running", "waiting_dependency", "waiting_until", "paused", "queued", "retrying", "failed",
       "cancelled", "waiting_for_owner"} \subseteq WorkStates
    BY DEF WorkStates, Waiting, Terminal
<1>3. {Read, Notify, Clear, Launch, Restart, Bind, Touch("keep")} \subseteq E
  <2>1. /\ Launch.op = "submit" /\ Restart.op = "restart" /\ Bind.op = "bind"
        /\ Touch("keep").b = "keep"
      BY DEF Launch, Restart, Bind, Touch, Op
  <2>2. {Read, Notify, Clear, Launch, Restart, Bind, Touch("keep")} \subseteq Call
      BY CallTypes
  <2> QED BY <2>1, <2>2, CallOps DEF ErrandCalls, Asks
<1>4. \A c \in {"resume", "cancel"} : Send(c) \in E
    BY CallTypes DEF Send, Op, ErrandCalls, Asks
<1>5. Add("note") \in E /\ Mark("completed", "") \in E
  <2>1. "note" \in StepKinds /\ "completed" \in StepStates /\ "" \in Observed
      BY DEF StepKinds, StepStates, Observed
  <2> QED BY <2>1, CallTypes DEF Add, Mark, Op, ErrandCalls, Asks
<1> HIDE DEF E
<1>6. CASE \/ q = <<>>
           \/ q \in {<<Launch>>, <<Clear>>, <<Send("cancel")>>, <<Move("paused", "keep")>>,
                     <<Touch("keep")>>, <<Move("cancelled", "keep"), Clear>>,
                     <<Move("failed", "none"), Notify>>, <<Read, Move("failed", "keep"), Notify>>,
                     <<Read, Move("paused", "keep")>>}
  <2>1. /\ Move("paused", "keep") \in E /\ Move("cancelled", "keep") \in E
        /\ Move("failed", "none") \in E /\ Move("failed", "keep") \in E
      BY <1>1, <1>2
  <2>2. /\ <<>> \in Seq(E) /\ <<Launch>> \in Seq(E) /\ <<Clear>> \in Seq(E)
        /\ <<Send("cancel")>> \in Seq(E) /\ <<Move("paused", "keep")>> \in Seq(E)
        /\ <<Touch("keep")>> \in Seq(E)
      BY <1>3, <1>4, <2>1, ShortSeqs
  <2>3. /\ <<Move("cancelled", "keep"), Clear>> \in Seq(E)
        /\ <<Move("failed", "none"), Notify>> \in Seq(E)
        /\ <<Read, Move("failed", "keep"), Notify>> \in Seq(E)
        /\ <<Read, Move("paused", "keep")>> \in Seq(E)
      BY <1>3, <2>1, ShortSeqs
  <2> QED BY <1>6, <2>2, <2>3 DEF E
<1>7. CASE q = <<Add("note"), Mark("completed", ""), Move("retrying", "none"), Restart, Bind>>
  <2>1. Move("retrying", "none") \in E
      BY <1>1, <1>2
  <2>2. <<Add("note"), Mark("completed", ""), Move("retrying", "none"), Restart, Bind>> \in Seq(E)
      BY <1>3, <1>5, <2>1, ShortSeqs
  <2> QED BY <1>7, <2>2 DEF E
<1>8. CASE /\ rec.held.state = "paused"
           /\ q = <<Move(ResumeTarget(rec.held), "keep"), Send("resume")>>
  <2>1. CASE rec.held.from = "waiting_for_owner"
      BY <1>8, <2>1 DEF ResumeTarget, AsksAgain
  <2>2. CASE rec.held.from # "waiting_for_owner"
    <3>1. ResumeTarget(rec.held) \in {"queued", "waiting_dependency", "waiting_until", "running"}
        BY <2>2 DEF ResumeTarget
    <3>2. Move(ResumeTarget(rec.held), "keep") \in E
        BY <1>1, <1>2, <3>1
    <3> QED BY <1>4, <1>8, <3>2, ShortSeqs DEF E
  <2> QED BY <2>1, <2>2
<1> QED BY <1>6, <1>7, <1>8 DEF Errand

-----------------------------------------------------------------------------
(* Whose steps *)

LEMMA ScriptMarks ==
    ASSUME NEW q, NEW pc, Script(pc, q), Marks(q)
    PROVE  pc \in {"done", "settle", "asking"}
<1>1. {Read, Notify, Clear, Blocker, Touch("none"), Touch("keep"), Move("running", "none"),
       Move("waiting_dependency", "none"), Move("paused", "keep"),
       Move("waiting_resource", "keep"), Move("waiting_resource", "none"),
       Move("waiting_resource", "own"), Move("retrying", "own"), Move("failed", "none"),
       Move("failed", "own"), Move("failed", "keep"), Move("completed", "none"),
       Move("waiting_for_owner", "none"), Move("waiting_for_owner", "own")} \subseteq PlainCall
    BY CallKinds DEF WorkStates, Waiting, Terminal
<1>2. /\ {"", "ask", "ask_secret"} \subseteq Observed /\ Answers \subseteq Observed
      /\ {"note", "owner_input", "pressure"} \subseteq StepKinds
      /\ {"failed", "completed"} \subseteq StepStates
    BY DEF Observed, StepKinds, StepStates
<1>3. \A x \in Seq(PlainCall) : ~Marks(x)
    BY PlainIsClean DEF Clean
<1>4. CASE q \in Asking \cup Failing
  <2>1. /\ <<Move("waiting_for_owner", "none"), Notify>> \in Seq(PlainCall)
        /\ <<Move("waiting_for_owner", "own"), Notify>> \in Seq(PlainCall)
        /\ <<Move("failed", "none"), Notify>> \in Seq(PlainCall)
        /\ <<Move("failed", "own"), Notify>> \in Seq(PlainCall)
        /\ <<Move("failed", "keep"), Clear, Notify>> \in Seq(PlainCall)
        /\ <<Move("running", "none"), Move("failed", "none"), Notify>> \in Seq(PlainCall)
      BY <1>1, ShortSeqs
  <2> QED BY <1>3, <1>4, <2>1 DEF Asking, Failing
<1>5. CASE q \in Learning
  <2>1. \A b, c, d, f \in LateCall, k \in StepKinds :
            /\ ~Marks(<<Add(k), b, c>>) /\ ~Marks(<<Add(k), b, c, d>>)
            /\ ~Marks(<<Add(k), b, c, d, f>>)
      BY CleanLists DEF Clean
  <2>2. {Read, Blocker, Move("waiting_resource", "own"), Touch("none"), Move("running", "none")}
            \subseteq LateCall
      BY <1>1, CallKinds
  <2>3. \A obs \in Observed : Mark("completed", obs) \in LateCall
      BY <1>2, CallKinds
  <2>4. ~Marks(Waits) /\ ~Marks(WaitsBlocked)
      BY <1>2, <2>1, <2>2, <2>3 DEF Waits, WaitsBlocked
  <2>5. /\ ~Marks(<<Add("note"), Mark("completed", ""), Read, Touch("none")>>)
        /\ \A text \in Answers :
              ~Marks(<<Add("owner_input"), Mark("completed", text), Move("running", "none")>>)
      BY <1>2, <2>1, <2>2, <2>3
  <2>6. /\ <<Move("completed", "none"), Clear, Notify>> \in Seq(PlainCall)
        /\ <<Move("running", "none"), Read, Move("paused", "keep")>> \in Seq(PlainCall)
      BY <1>1, ShortSeqs
  <2> QED BY <1>3, <1>5, <2>4, <2>5, <2>6 DEF Learning
<1>6. CASE \E o \in Closing : q = <<o>>
  <2>1. Closing \subseteq PlainCall
      BY <1>1 DEF Closing
  <2> QED BY <1>3, <1>6, <2>1, ShortSeqs
<1>7. CASE \/ q = <<>> \/ q = <<Move("running", "none")>>
           \/ q = <<Move("running", "none"), Read>>
           \/ q = <<Move("waiting_resource", "none")>>
  <2>1. /\ <<>> \in Seq(PlainCall) /\ <<Move("running", "none")>> \in Seq(PlainCall)
        /\ <<Move("running", "none"), Read>> \in Seq(PlainCall)
        /\ <<Move("waiting_resource", "none")>> \in Seq(PlainCall)
      BY <1>1, ShortSeqs
  <2> QED BY <1>3, <1>7, <2>1
<1>8. CASE q = <<Add("note"), Mark("failed", ""), Read>>
  <2>1. Mark("failed", "") \in LateCall /\ Read \in LateCall
      BY <1>1, <1>2, CallKinds
  <2> QED BY <1>2, <1>8, <2>1, CleanLists DEF Clean
<1>9. CASE q = Start
    BY <1>9, StartIsClean DEF Clean
<1> QED BY <1>4, <1>5, <1>6, <1>7, <1>8, <1>9 DEF Script

LEMMA ScriptOwns ==
    ASSUME NEW e \in Execs, NEW q, NEW pc, Script(pc, q), th'[e].pc = pc, th'[e].todo = q,
           Owns(e)'
    PROVE  pc \in {"done", "settle", "asking"}
<1>1. pc = "exec" => q = Start
    BY DEF Script
<1>2. ~OnItsRow(th'[e])
    BY <1>1, StartIsClean DEF OnItsRow
<1> QED BY <1>2, ScriptMarks DEF Owns, Owning

LEMMA ErrandOwnsNothing ==
    ASSUME NEW q, NEW held, Errand(q, held)
    PROVE  ~Marks(q)
<1>1. /\ Launch.op # "mark" /\ Send("cancel").op # "mark" /\ Send("resume").op # "mark"
    BY DEF Launch, Send, Op
<1>2. \A a, b, c : /\ a.op # "mark" => ~Marks(<<a>>)
                   /\ a.op # "mark" /\ b.op # "mark" => ~Marks(<<a, b>>)
                   /\ a.op # "mark" /\ b.op # "mark" /\ c.op # "mark" => ~Marks(<<a, b, c>>)
    BY DEF Marks
<1>3. \A a, b, c, d, f : a.op = "add" => ~Marks(<<a, b, c, d, f>>)
  <2> TAKE a, b, c, d, f
  <2> SUFFICES ASSUME a.op = "add" PROVE ~Marks(<<a, b, c, d, f>>)
      OBVIOUS
  <2> DEFINE r == <<a, b, c, d, f>>
  <2>1. DOMAIN r = 1 .. 5 /\ r[1] = a
      OBVIOUS
  <2> HIDE DEF r
  <2>2. \A i \in 1 .. 5 : 1 \in 1 .. i
      OBVIOUS
  <2>3. ~Marks(r)
      BY <2>1, <2>2 DEF Marks
  <2> QED BY <2>3 DEF r
<1>4. ~Marks(<<>>)
    BY NothingIsClean DEF Clean
<1>5. CASE q = <<Add("note"), Mark("completed", ""), Move("retrying", "none"), Restart, Bind>>
    BY <1>3, <1>5, CallOps
<1>6. CASE q = <<Move(ResumeTarget(held), "keep"), Send("resume")>>
    BY <1>1, <1>2, <1>6, CallOps
<1>7. CASE q \in {<<Launch>>, <<Clear>>, <<Send("cancel")>>, <<Move("paused", "keep")>>,
                  <<Touch("keep")>>, <<Move("cancelled", "keep"), Clear>>,
                  <<Move("failed", "none"), Notify>>, <<Read, Move("failed", "keep"), Notify>>,
                  <<Read, Move("paused", "keep")>>}
  <2>1. ASSUME NEW a \in {Launch, Clear, Send("cancel"), Move("paused", "keep"), Touch("keep")}
        PROVE  ~Marks(<<a>>)
      BY <1>1, <1>2, CallOps
  <2>2. /\ ~Marks(<<Move("cancelled", "keep"), Clear>>) /\ ~Marks(<<Move("failed", "none"), Notify>>)
        /\ ~Marks(<<Read, Move("failed", "keep"), Notify>>)
        /\ ~Marks(<<Read, Move("paused", "keep")>>)
      BY <1>2, CallOps
  <2> QED BY <1>7, <2>1, <2>2
<1> QED BY <1>4, <1>5, <1>6, <1>7 DEF Errand

\* Startup begins an item with the interruption of a step.
LEMMA BootOrders ==
    ASSUME TypeOK, NEW w \in Works, BootInterrupted(w)
    PROVE  /\ up = "starting" /\ up' = up /\ steps' = steps /\ item' = item
           /\ th'[Main].pc = "boot" /\ th'[Main].w = w /\ th'[Main].held = item[w]
           /\ th'[Main].todo \in Seq(BootCalls) /\ th'[Main].todo # <<>>
           /\ Head(th'[Main].todo) = Interrupt
<1> DEFINE marks == [i \in 1 .. Cardinality(RunningSteps(w)) |-> Interrupt]
<1>1. /\ up = "starting" /\ up' = up /\ steps' = steps /\ item' = item
      /\ th[Main].pc = "boot" /\ RunningSteps(w) # {}
    BY DEF BootInterrupted, AtBoot, Interrupted, env, storeVars
<1>2. Cardinality(RunningSteps(w)) \in Nat \ {0}
  <2>1. IsFiniteSet(DOMAIN steps[w])
      BY FS_Interval, LenProperties DEF TypeOK, StoreOK
  <2>2. IsFiniteSet(RunningSteps(w))
      BY <2>1, FS_Subset DEF RunningSteps
  <2> QED BY <1>1, <2>2, FS_CardinalityType, FS_EmptySet
<1>3. marks \in Seq(BootCalls) /\ Len(marks) > 0 /\ marks[1] = Interrupt
  <2>1. Interrupt \in BootCalls
      BY DEF BootCalls
  <2> HIDE DEF BootCalls
  <2> QED BY <1>2, <2>1
<1>4. <<Touch("own")>> \in Seq(BootCalls)
      /\ <<Move("waiting_for_owner", "own"), Notify>> \in Seq(BootCalls)
    BY ShortSeqs DEF BootCalls
<1> HIDE DEF marks
<1>5. PICK tail \in Seq(BootCalls) :
          Run(Main, [th[Main] EXCEPT !.w = w, !.held = item[w], !.todo = marks \o tail])
    BY <1>4 DEF BootInterrupted, marks
<1> DEFINE calls == marks \o tail
           rec   == [th[Main] EXCEPT !.w = w, !.held = item[w], !.todo = calls]
<1>6. calls \in Seq(BootCalls) /\ calls # <<>> /\ Head(calls) = Interrupt
  <2>1. calls \in Seq(BootCalls) /\ Len(calls) = Len(marks) + Len(tail) /\ calls[1] = marks[1]
      BY <1>3, <1>5, ConcatProperties
  <2> HIDE DEF calls
  <2>2. Len(tail) \in Nat /\ Len(marks) \in Nat
      BY <1>3, <1>5, LenProperties
  <2>3. Len(calls) > 0
      BY <1>3, <2>1, <2>2
  <2> QED BY <1>3, <2>1, <2>3
<1> HIDE DEF calls
<1>7. rec.pc = "boot" /\ rec.w = w /\ rec.held = item[w] /\ rec.todo = calls
    BY <1>1, ThreadFacts DEF TypeOK, ThreadsOK, Thread
<1>8. Run(Main, rec)
    BY <1>5 DEF calls
<1> HIDE DEF rec
<1>9. th'[Main] = rec
    BY <1>7, <1>8, BootRuns
<1> QED BY <1>1, <1>6, <1>7, <1>9

\* No thread comes to own a step but one it owned, or one it has just added.
LEMMA OwnsLittleNext ==
    ASSUME Execution, Starting, [Next]_vars, NEW t \in Threads
    PROVE  OwnsLittle(t)
<1>1. TypeOK /\ th \in [Threads -> Thread]
    BY DEF Execution, Versions, TypeOK, ThreadsOK
<1>2. th'[t] = th[t] => OwnsLittle(t)
    BY <1>1 DEF OwnsLittle, Owns, OwnedRows
<1>3. \A rec : rec.todo = <<>> /\ rec.pc # "exec" => ~Owning(t, rec)
    BY NothingIsClean DEF Clean, Owning, OnItsRow
<1>4. CASE StoreCall(t)
  <2> DEFINE q == th[t].todo
  <2>1. q \in Seq(Call) /\ q # <<>> /\ th[t].w \in Works
      BY <1>4, CallBasics
  <2>2. CASE t = Main /\ th'[t] = Idle(Owner)
      BY <1>3, <2>2, IdleIsFree DEF OwnsLittle, Owns
  <2>3. CASE th'[t].todo = <<>> /\ th'[t].pc \in {"raise", "cancel"}
      BY <1>3, <2>3 DEF OwnsLittle, Owns
  <2>4. CASE /\ th'[t].todo = Tail(q) /\ th'[t].pc = th[t].pc
             /\ th'[t].w = th[t].w /\ Numbers(t)
    <3>1. CASE DoAdd(t) /\ th'[t].sid = Len(steps[th[t].w]) + 1
      <4>1. steps \in [Works -> Seq(StepRow)]
          BY <1>1 DEF TypeOK, StoreOK
      <4>2. \E row : AddStep(th[t].w, row)
          BY <3>1 DEF DoAdd
      <4> QED BY <2>1, <2>4, <3>1, <4>1, <4>2, AddStepRows DEF OwnsLittle
    <3>2. CASE Head(q).op \in {"restart", "interrupt"}
      <4>1. ~Marks(Tail(q))
          BY <2>1, <3>2, TailCalls DEF Execution
      <4>2. ASSUME t \in Execs PROVE ~OnItsRow(th'[t])
        <5>1. th[t].pc # "exec"
            BY <2>1, <3>2, <4>2, ExecutorCalls DEF Execution
        <5> QED BY <2>4, <5>1 DEF OnItsRow
      <4> QED BY <2>4, <4>1, <4>2 DEF OwnsLittle, Owns, Owning
    <3>3. CASE th'[t].sid = th[t].sid /\ Head(q).op # "add"
      <4>1. Marks(Tail(q)) => Marks(q)
          BY <2>1, <3>3, TailCalls
      <4>2. ASSUME t \in Execs, OnItsRow(th'[t]) PROVE Owns(t)
        <5>1. th[t].pc = "exec" /\ Shaped(t) /\ Tail(q) \in {<<Touch("own")>>, <<>>}
            BY <2>4, <4>2 DEF OnItsRow, Execution
        <5>2. q # Start /\ q # Tail(Start)
            BY <5>1, StartCalls, StartIsClean DEF Start
        <5>3. q = Tail(Tail(Start)) \/ OnItsRow(th[t])
            BY <5>1, <5>2 DEF Shaped
        <5>4. q = Tail(Tail(Start)) => Marks(q)
            BY <2>1, StartCalls, TailCalls
        <5> QED BY <4>2, <5>3, <5>4 DEF Owns, Owning
      <4> QED BY <2>4, <3>3, <4>1, <4>2 DEF OwnsLittle, Owns, Owning
    <3>4. \/ DoAdd(t) /\ th'[t].sid = Len(steps[th[t].w]) + 1
          \/ Head(q).op \in {"restart", "interrupt"}
          \/ th'[t].sid = th[t].sid /\ Head(q).op # "add"
      <4>1. Head(q).op = "add" => DoAdd(t)
          BY <1>4 DEF StoreCall, Calls, DoRead, DoSave, RejectSave, DoMark, DoInterrupt, DoNotify,
                      DoBlocker, DoClear, DoSend, DoSubmit, DoRestart, DoBind
      <4>2. DoRestart(t) \/ DoInterrupt(t) => Head(q).op \in {"restart", "interrupt"}
          BY DEF DoRestart, DoInterrupt, Calls
      <4> QED BY <2>4, <4>1, <4>2 DEF Numbers
    <3> QED BY <3>1, <3>2, <3>3, <3>4
  <2> QED BY <1>1, <1>4, <2>2, <2>3, <2>4, CallMoves
<1>5. CASE t \in Execs
  <2>1. CASE EngineStep(t)
    <3>1. Follows(t)
        BY <1>1, <1>5, <2>1, EngineFollows
    <3>2. Owns(t)' => Owns(t)
      <4>1. Owns(t)' => Executing(t)
          BY <1>5, <3>1, ScriptOwns DEF Follows
      <4> QED BY <1>5, <4>1 DEF Executing, Owns, Owning, OnItsRow
    <3> QED BY <3>1, <3>2 DEF Follows, OwnsLittle
  <2>2. CASE th'[t].pc = "idle" /\ th'[t].todo = <<>>
      BY <1>3, <2>2 DEF OwnsLittle, Owns
  <2> QED BY <1>1, <1>2, <1>4, <1>5, <2>1, <2>2, NextMoves
<1>6. CASE t = Main
  <2>1. Main \notin Execs /\ Main \in Threads
      BY ThreadFacts
  <2>2. CASE Errand(th'[Main].todo, th'[Main].held)
      BY <1>6, <2>1, <2>2, ErrandOwnsNothing DEF OwnsLittle, Owns, Owning
  <2>3. CASE BootStart
    <3>1. th' = [th EXCEPT ![Main] = [th[Main] EXCEPT !.pc = "boot"]] /\ th[Main].todo = <<>>
        BY <2>3 DEF BootStart, Starting
    <3>2. th'[Main].todo = <<>>
        BY <1>1, <2>1, <3>1 DEF Thread
    <3> QED BY <1>6, <2>1, <3>2, NothingIsClean DEF OwnsLittle, Owns, Owning, Clean
  <2>4. CASE \E w \in Works : BootInterrupted(w)
    <3>1. th'[Main].todo \in Seq(BootCalls)
        BY <1>1, <2>4, BootOrders
    <3>2. \A o \in BootCalls : o.op # "mark"
        BY CallOps DEF BootCalls
    <3>3. ~Marks(th'[Main].todo)
        BY <3>1, <3>2 DEF Marks
    <3> QED BY <1>6, <2>1, <3>3 DEF OwnsLittle, Owns, Owning
  <2> QED BY <1>1, <1>2, <1>4, <1>6, <2>2, <2>3, <2>4, MainMoves
<1> QED BY <1>5, <1>6, ThreadFacts

-----------------------------------------------------------------------------
(* Orders are followed *)

LEMMA PoliteNext ==
    ASSUME Execution, [Next]_vars, NEW e \in Execs, Polite(e)
    PROVE  Polite(e)'
<1>1. TypeOK /\ e \in Threads /\ e # Main
    BY ThreadFacts DEF Execution, Versions
<1>2. th'[e].todo = <<>> => Polite(e)'
    BY ShortSeqs DEF Polite
<1>3. CASE StoreCall(e)
  <2>1. th[e].todo # <<>>
      BY <1>1, <1>3, CallBasics
  <2>2. \A S : th[e].todo \in Seq(S) => Tail(th[e].todo) \in Seq(S)
      BY <2>1
  <2>3. \/ th'[e].todo = <<>>
        \/ th'[e].todo = Tail(th[e].todo) /\ th'[e].pc = th[e].pc
      BY <1>1, <1>3, CallMoves
  <2> QED BY <1>2, <2>2, <2>3 DEF Polite
<1>4. CASE EngineStep(e)
  <2>1. Script(th'[e].pc, th'[e].todo)
      BY <1>1, <1>4, EngineFollows DEF Follows
  <2> QED BY <2>1, ScriptIsPolite DEF Polite
<1> QED BY <1>1, <1>2, <1>3, <1>4, NextMoves DEF Polite

\* A row is rewritten by the thread that owns it, or declared interrupted.
Rewritten(w, i) ==
    \/ \E t \in Threads :
          /\ DoMark(t) /\ Owns(t) /\ th[t].w = w /\ th[t].sid = i
          /\ steps'[w][i].st = Head(th[t].todo).a /\ steps'[w][i].obs = Head(th[t].todo).b
    \/ /\ steps[w][i].st = "running"
       /\ steps'[w][i].st = "interrupted" /\ steps'[w][i].obs = ""

Recent(w, i) == steps'[w][i].obs \in {"", "redacted"} /\ steps'[w][i].st # "running"

LEMMA RowChanges ==
    ASSUME Execution, [Next]_vars, NEW w \in Works
    PROVE  /\ DOMAIN steps[w] \subseteq DOMAIN steps'[w]
           /\ \A i \in DOMAIN steps[w] : steps'[w][i] = steps[w][i] \/ Rewritten(w, i)
           /\ \A i \in DOMAIN steps'[w] \ DOMAIN steps[w] : Recent(w, i)
<1> DEFINE Goal == /\ DOMAIN steps[w] \subseteq DOMAIN steps'[w]
                   /\ \A i \in DOMAIN steps[w] : steps'[w][i] = steps[w][i] \/ Rewritten(w, i)
                   /\ \A i \in DOMAIN steps'[w] \ DOMAIN steps[w] : Recent(w, i)
<1>1. TypeOK /\ steps \in [Works -> Seq(StepRow)]
    BY DEF Execution, Versions, TypeOK, StoreOK
<1>2. steps' = steps => Goal
    OBVIOUS
<1>3. ASSUME NEW v \in Works, NEW row, AddStep(v, row), row.obs \in {"", "redacted"},
             row.st # "running"
      PROVE  Goal
  <2>1. steps' = [steps EXCEPT ![v] = Append(steps[v], row)]
      BY <1>3 DEF AddStep
  <2>2. v # w => steps'[w] = steps[w]
      BY <1>1, <2>1
  <2>3. v = w => steps'[w] = Append(steps[w], row)
      BY <1>1, <2>1
  <2>4. steps[w] \in Seq(StepRow)
      BY <1>1
  <2>5. /\ Len(Append(steps[w], row)) = Len(steps[w]) + 1
        /\ DOMAIN Append(steps[w], row) = 1 .. Len(steps[w]) + 1
        /\ \A i \in 1 .. Len(steps[w]) : Append(steps[w], row)[i] = steps[w][i]
        /\ Append(steps[w], row)[Len(steps[w]) + 1] = row
        /\ DOMAIN steps[w] = 1 .. Len(steps[w]) /\ Len(steps[w]) \in Nat
      BY <2>4
  <2>6. \A i \in (1 .. Len(steps[w]) + 1) \ (1 .. Len(steps[w])) : i = Len(steps[w]) + 1
      BY <2>5
  <2>7. v # w => Goal
      BY <2>2
  <2>8. CASE v = w
    <3>1. /\ DOMAIN steps'[w] = 1 .. Len(steps[w]) + 1
          /\ \A i \in 1 .. Len(steps[w]) : steps'[w][i] = steps[w][i]
          /\ steps'[w][Len(steps[w]) + 1] = row
        BY <2>3, <2>5, <2>8
    <3>2. 1 .. Len(steps[w]) \subseteq 1 .. Len(steps[w]) + 1
        BY <2>5
    <3> QED BY <1>3, <2>5, <2>6, <3>1, <3>2 DEF Recent
  <2> QED BY <2>7, <2>8
<1>4. ASSUME NEW t \in Threads, StoreCall(t) PROVE Goal
  <2> DEFINE me == th[t]
             o  == Head(th[t].todo)
  <2>1. me.w \in Works /\ me \in Thread /\ me.todo \in Seq(Call) /\ me.todo # <<>>
      BY <1>4, CallBasics
  <2>2. CASE DoAdd(t)
    <3> DEFINE row == [kind |-> o.a, st |-> "planned", obs |-> "", ver |-> 0]
    <3>1. AddStep(me.w, row) /\ row.obs \in {"", "redacted"} /\ row.st # "running"
        BY <2>2 DEF DoAdd
    <3> QED BY <1>3, <2>1, <3>1
  <2>3. CASE DoMark(t)
    <3>1. o.op = "mark" /\ SaveStep(me.w, me.sid, o.a, o.b)
        BY <2>3 DEF DoMark, Calls
    <3>2. Owns(t)
        BY <2>1, <3>1, TailCalls DEF Owns, Owning
    <3>3. me.sid \in DOMAIN steps[me.w]
        BY <3>2 DEF Execution, OwnedRows
    <3> HIDE DEF o
    <3>4. /\ \A x \in Works : DOMAIN steps'[x] = DOMAIN steps[x]
          /\ steps'[me.w][me.sid].st = o.a /\ steps'[me.w][me.sid].obs = o.b
          /\ \A x \in Works : \A j \in DOMAIN steps[x] :
                x # me.w \/ j # me.sid => steps'[x][j] = steps[x][j]
        BY <1>1, <2>1, <3>1, <3>3, SaveStepRows
    <3> QED BY <2>3, <3>2, <3>4 DEF Rewritten, o
  <2>4. CASE DoInterrupt(t)
    <3>1. PICK i \in RunningSteps(me.w) : SaveStep(me.w, i, "interrupted", "")
        BY <2>4 DEF DoInterrupt
    <3>2. i \in DOMAIN steps[me.w] /\ steps[me.w][i].st = "running"
        BY <3>1 DEF RunningSteps
    <3>3. /\ \A x \in Works : DOMAIN steps'[x] = DOMAIN steps[x]
          /\ steps'[me.w][i].st = "interrupted" /\ steps'[me.w][i].obs = ""
          /\ \A x \in Works : \A j \in DOMAIN steps[x] :
                x # me.w \/ j # i => steps'[x][j] = steps[x][j]
        BY <1>1, <2>1, <3>1, <3>2, SaveStepRows
    <3> QED BY <3>2, <3>3 DEF Rewritten
  <2>5. CASE \/ DoRead(t) \/ DoSave(t) \/ RejectSave(t) \/ DoNotify(t) \/ DoBlocker(t)
             \/ DoClear(t) \/ DoSend(t) \/ DoSubmit(t) \/ DoRestart(t) \/ DoBind(t)
      BY <1>2, <2>5 DEF DoRead, DoSave, RejectSave, DoNotify, DoBlocker, DoClear, DoSend,
                        DoSubmit, DoRestart, DoBind, storeVars
  <2> QED BY <1>4, <2>2, <2>3, <2>4, <2>5 DEF StoreCall
<1>5. ASSUME NEW e \in Execs, EngineStep(e) PROVE Goal
  <2>1. CASE ApplySealed(e)
    <3>1. e[1] \in Works
        BY ThreadFacts
    <3>2. steps' = steps \/ \E row : /\ AddStep(e[1], row)
                                     /\ row.obs = "redacted" /\ row.st # "running"
        BY <2>1 DEF ApplySealed
    <3> QED BY <1>2, <1>3, <3>1, <3>2
  <2>2. CASE ~ApplySealed(e)
    <3>1. steps' = steps
        BY <1>5, <2>2 DEF EngineStep, AdvanceStopped, AdvanceDependent, Advance, Admit, Admission,
             DecideTooLate, BrainUnavailable, BrainFails, BrainCompletes, BrainAsks,
             BrainActs, Leased, LeaseRefused, Executed, StepDone, StepAsks, StepFails,
             ApplyPlain, FailBounded, Only, Pressed, storeVars
    <3> QED BY <1>2, <3>1
  <2> QED BY <2>1, <2>2
<1>6. ASSUME \/ \E e \in Execs : WorkflowStep(e)
             \/ OwnerStep \/ MainStep \/ BackendFault(Main) \/ Crash \/ UNCHANGED vars
      PROVE  steps' = steps
    BY <1>6 DEF WorkflowStep, StepReturns, StepRaises, ReceiveAnswer, ReceiveControl, MainStep,
           CancelAgain, BootStart, BootLaunch, BootResubmit, BootInterrupted, BackendFault,
           OwnerStep, OwnerStart, OwnerPause, OwnerResume, OwnerCancel, OwnerRetry,
           OwnerReprioritize, OwnerAnswer, Crash, Only, storeVars, vars
<1> QED BY <1>2, <1>4, <1>5, <1>6 DEF Next

\* The process changes its state only while the main thread has nothing to do.
LEMMA UpChanges ==
    ASSUME TypeOK, Starting, [Next]_vars
    PROVE  up' = up \/ th'[Main].todo = <<>>
<1>1. /\ Main \in Threads /\ th[Main] \in Thread /\ up \in {"down", "starting", "up"}
      /\ th \in [Threads -> Thread]
    BY ThreadFacts DEF TypeOK, ThreadsOK, EnvOK
<1>2. ASSUME NEW t \in Threads, StoreCall(t) PROVE up' = up
    BY <1>2, StoreCallRuns
<1>3. ASSUME NEW e \in Execs, EngineStep(e) PROVE up' = up
    BY <1>3 DEF EngineStep, AdvanceStopped, AdvanceDependent, Advance, Admit, Admission,
         DecideTooLate, BrainUnavailable, BrainFails, BrainCompletes, BrainAsks,
         BrainActs, Leased, LeaseRefused, Executed, StepDone, StepAsks, StepFails,
         ApplyPlain, ApplySealed, FailBounded, Only, Pressed, env
<1>4. ASSUME NEW e \in Execs, WorkflowStep(e) PROVE up' = up
    BY <1>4 DEF WorkflowStep, StepReturns, StepRaises, ReceiveAnswer, ReceiveControl, env
<1>5. CASE BootStart
  <2>1. th' = [th EXCEPT ![Main] = [th[Main] EXCEPT !.pc = "boot"]] /\ th[Main].todo = <<>>
      BY <1>5 DEF BootStart, Starting
  <2> QED BY <1>1, <2>1 DEF Thread
<1>6. CASE BootLaunch
    BY <1>6 DEF BootLaunch, AtBoot, volatile
<1>7. CASE Crash
    BY SMTT(30), <1>1, <1>7, IdleIsFree DEF Crash, Main
<1>8. ASSUME OwnerStep \/ CancelAgain \/ BootResubmit \/ BackendFault(Main)
             \/ (\E w \in Works : BootInterrupted(w)) \/ UNCHANGED vars
      PROVE  up' = up
    BY <1>8 DEF OwnerStep, OwnerStart, OwnerPause, OwnerResume, OwnerCancel, OwnerRetry,
           OwnerReprioritize, OwnerAnswer, Commanded, CancelAgain, BootResubmit, BootInterrupted,
           BackendFault, Only, env, vars
<1> QED BY <1>2, <1>3, <1>4, <1>5, <1>6, <1>7, <1>8 DEF Next, MainStep

LEMMA OrdersNext ==
    ASSUME Execution, Starting, Orders, [Next]_vars
    PROVE  Orders'
<1> DEFINE me == th[Main]
           q  == th[Main].todo
<1>1. /\ TypeOK /\ TypeOK' /\ Main \in Threads
      /\ up \in {"down", "starting", "up"}
    BY TypesNext, ThreadFacts DEF Execution, Versions, TypeOK, EnvOK
<1>2. \A w \in Works : DOMAIN steps[w] \subseteq DOMAIN steps'[w]
    BY RowChanges
<1>3. th'[Main].todo = <<>> => Orders'
    BY ShortSeqs DEF Orders
<1>4. CASE th'[Main] = th[Main] /\ up' = up
  <2>1. q = <<>> \/ me.w \in Works
      BY <1>1, CallFacts DEF TypeOK
  <2> QED BY <1>2, <1>3, <1>4, <2>1 DEF Orders
<1>5. CASE StoreCall(Main)
  <2>1. /\ q \in Seq(Call) /\ q # <<>> /\ me.w \in Works /\ up' = up
      BY <1>1, <1>5, CallBasics
  <2>2. th'[Main].todo = <<>> \/ /\ th'[Main].todo = Tail(q)
                                 /\ th'[Main].w = me.w /\ Numbers(Main)
      BY <1>1, <1>5, CallMoves, IdleIsFree
  <2>3. CASE th'[Main].todo = Tail(q) /\ th'[Main].w = me.w /\ Numbers(Main)
    <3>1. CASE up = "up"
      <4>1. CASE q \in Seq(ErrandCalls)
        <5>1. Tail(q) \in Seq(ErrandCalls)
            BY <2>1, <4>1
        <5> QED BY <2>1, <2>3, <3>1, <5>1 DEF Orders
      <4>2. CASE AsksAgain(me)
        <5>1. q = <<Move("waiting_for_owner", "keep"), Send("resume")>>
            BY <4>2 DEF AsksAgain
        <5>2. Tail(q) = <<Send("resume")>>
            BY <5>1
        <5>3. Send("resume") \in ErrandCalls
            BY CallTypes DEF Send, Op, ErrandCalls, Asks
        <5>4. Tail(q) \in Seq(ErrandCalls)
            BY <5>2, <5>3, ShortSeqs
        <5> QED BY <2>1, <2>3, <3>1, <5>4 DEF Orders
      <4> QED BY <3>1, <4>1, <4>2 DEF Orders
    <3>2. CASE up # "up"
      <4>1. q \in Seq(BootCalls) /\ Tail(q) \in Seq(BootCalls) /\ Head(q) \in BootCalls
          BY <2>1, <3>2 DEF Orders
      <4>2. th'[Main].sid \in DOMAIN steps'[me.w]
        <5>1. CASE Head(q) = Interrupt
          <6>1. Head(q).op = "interrupt"
              BY <5>1, CallOps
          <6>2. ~DoAdd(Main) /\ ~DoRestart(Main)
              BY <6>1 DEF DoAdd, DoRestart, Calls
          <6>3. DoInterrupt(Main)
              BY <1>5, <6>1 DEF StoreCall, Calls, DoRead, DoSave, RejectSave, DoAdd, DoMark,
                   DoNotify, DoBlocker, DoClear, DoSend, DoSubmit, DoRestart, DoBind
          <6>4. \E i \in RunningSteps(me.w) : Did(Main, [me EXCEPT !.sid = i])
              BY <6>3 DEF DoInterrupt
          <6>5. th'[Main].sid \in RunningSteps(me.w)
            <7>1. PICK i \in RunningSteps(me.w) : Did(Main, [me EXCEPT !.sid = i])
                BY <6>4
            <7> DEFINE rec == [me EXCEPT !.sid = i]
            <7>2. me \in Thread /\ i \in Nat
                BY <1>1, <2>1 DEF TypeOK, ThreadsOK, StoreOK, RunningSteps
            <7>3. /\ rec \in Thread /\ rec.todo = q /\ rec.w = me.w /\ rec.pc = me.pc
                  /\ rec.sid = i /\ Did(Main, rec)
                BY <7>1, <7>2 DEF Thread
            <7> HIDE DEF rec
            <7>4. th'[Main].sid = i \/ th'[Main] = Idle(Owner)
                BY <1>1, <7>3, DidMoves
            <7>5. Idle(Owner).w = Owner
                BY DEF Idle
            <7> QED BY <2>1, <2>3, <7>4, <7>5, ThreadFacts
          <6> QED BY <1>2, <2>1, <6>5 DEF RunningSteps
        <5>2. CASE Head(q) # Interrupt
          <6>1. Head(q).op \notin {"add", "restart", "interrupt"}
              BY <4>1, <5>2, CallOps DEF BootCalls
          <6>2. th'[Main].sid = me.sid
              BY <2>3, <6>1 DEF Numbers, DoAdd, DoRestart, DoInterrupt, Calls
          <6>3. me.sid \in DOMAIN steps[me.w]
              BY <2>1, <3>2, <5>2 DEF Orders
          <6> QED BY <1>2, <2>1, <6>2, <6>3
        <5> QED BY <5>1, <5>2
      <4> QED BY <2>1, <2>3, <3>2, <4>1, <4>2 DEF Orders
    <3> QED BY <3>1, <3>2
  <2> QED BY <1>3, <2>2, <2>3
<1>6. CASE \E w \in Works : BootInterrupted(w)
    BY <1>1, <1>6, BootOrders DEF Orders
<1>7. CASE up' = "up" /\ Errand(th'[Main].todo, th'[Main].held)
  <2>1. th'[Main].held \in Item
      BY <1>1 DEF TypeOK, ThreadsOK, Thread
  <2> QED BY <1>7, <2>1, ErrandsAreOrders DEF Orders
<1>8. CASE BootStart
    BY <1>1, <1>3, <1>8, UpChanges DEF BootStart
<1> QED BY <1>1, <1>3, <1>4, <1>5, <1>6, <1>7, <1>8, MainMoves, UpChanges

-----------------------------------------------------------------------------
(* The question an item waits on *)

AskedFor(it) == it.state = "waiting_for_owner"
                \/ (it.state = "paused" /\ it.from = "waiting_for_owner")

\* The step an item asks the owner about, no thread is still to write.
Untouched ==
    \A w \in Works : AskedFor(item[w]) =>
        /\ item[w].step \in {0} \cup DOMAIN steps[w]
        /\ \A t \in Threads : Owns(t) /\ th[t].w = w => th[t].sid # item[w].step

\* The step number an execution is left with is of no other thread's step.
Numbered ==
    \A e \in Execs :
        /\ th[e].sid \in {0} \cup DOMAIN steps[e[1]]
        /\ \A t \in Threads \ {e} : Owns(t) /\ th[t].w = e[1] => th[t].sid # th[e].sid

\* A step that asked in secret does not run.
RowsFine ==
    \A w \in Works : \A i \in DOMAIN steps[w] :
        steps[w][i].obs = "ask_secret" => steps[w][i].st # "running"

\* Execution e has yet to apply answer m, or is about to.
Holds(e, m) == \/ \E i \in DOMAIN inbox[e].owner : inbox[e].owner[i] = m
               \/ wf[e].at = "apply" /\ wf[e].msg = m

\* An answer that travels sealed was given to a question asked in secret: while
\* the item waits under the version it was given to, it asks that question.
Letters ==
    \A e \in Execs, m \in Message : Holds(e, m) /\ m.sealed =>
        /\ m.ver <= item[e[1]].ver
        /\ m.ver = item[e[1]].ver /\ item[e[1]].state = "waiting_for_owner" =>
              Question(e[1]) = "ask_secret"

Sealing ==
    /\ Pausing /\ Orders /\ \A e \in Execs : Polite(e)
    /\ Numbered /\ Untouched /\ RowsFine /\ Letters

LEMMA MarksRunPlain ==
    ASSUME Execution, Orders, \A e \in Execs : Polite(e),
           NEW t \in Threads, DoMark(t), Head(th[t].todo).a = "running"
    PROVE  Head(th[t].todo).b = ""
<1> DEFINE q == th[t].todo
<1>1. StoreCall(t) /\ Head(q).op = "mark"
    BY DEF DoMark, Calls, StoreCall
<1>2. q \in Seq(Call) /\ q # <<>> /\ q[1] = Head(q) /\ 1 \in DOMAIN q
    BY <1>1, CallBasics
<1>3. CASE t \in Execs /\ th[t].pc = "exec"
  <2>1. /\ Shaped(t)
        /\ Head(Start).op # "mark" /\ Head(Tail(Start)).op # "mark"
        /\ Head(Tail(Tail(Start))) = Mark("running", "")
        /\ Head(<<Touch("own")>>).op # "mark"
      BY <1>3, StartCalls DEF Execution
  <2>2. q \in {Start, Tail(Start), Tail(Tail(Start)), <<Touch("own")>>}
      BY <1>2, <1>3, <2>1 DEF Shaped, OnItsRow
  <2>3. Head(q) = Mark("running", "")
      BY <1>1, <2>1, <2>2
  <2>4. Mark("running", "").b = ""
      BY DEF Mark, Op
  <2> QED BY <2>3, <2>4
<1>4. CASE t \in Execs /\ th[t].pc # "exec"
  <2>1. q \in Seq(AskFree) \cup Seq(MarkFree)
      BY <1>4 DEF Polite
  <2>2. Head(q) \in AskFree \cup MarkFree
      BY <1>2, <2>1
  <2> QED BY <1>1, <2>2 DEF AskFree, MarkFree, PlainCalls
<1>5. CASE t = Main
  <2>1. q \in Seq(ErrandCalls) \cup Seq(BootCalls) \/ AsksAgain(th[Main])
      BY <1>2, <1>5 DEF Orders
  <2>2. CASE q \in Seq(ErrandCalls)
    <3>1. Head(q) \in ErrandCalls
        BY <1>2, <2>2
    <3> QED BY <1>1, <3>1 DEF ErrandCalls
  <2>3. CASE q \in Seq(BootCalls)
    <3>1. Head(q) \in BootCalls
        BY <1>2, <2>3
    <3>2. \A o \in BootCalls : o.op # "mark"
        BY CallOps DEF BootCalls
    <3> QED BY <1>1, <3>1, <3>2
  <2>4. CASE AsksAgain(th[Main])
    <3>1. Head(q) = Move("waiting_for_owner", "keep")
        BY <1>5, <2>4 DEF AsksAgain
    <3>2. Move("waiting_for_owner", "keep").op # "mark"
        BY CallOps
    <3> QED BY <1>1, <3>1, <3>2
  <2> QED BY <2>1, <2>2, <2>3, <2>4
<1> QED BY <1>3, <1>4, <1>5, ThreadFacts

LEMMA RowsFineNext ==
    ASSUME Sealing, [Next]_vars
    PROVE  RowsFine'
<1> SUFFICES ASSUME NEW w \in Works, NEW i \in DOMAIN steps'[w], steps'[w][i].obs = "ask_secret"
             PROVE  steps'[w][i].st # "running"
    BY DEF RowsFine
<1>1. Execution /\ i \in DOMAIN steps[w]
    BY RowChanges DEF Sealing, Pausing, Recent
<1>3. steps'[w][i] = steps[w][i] \/ Rewritten(w, i)
    BY <1>1, RowChanges
<1>4. steps'[w][i] = steps[w][i] => steps'[w][i].st # "running"
    BY <1>1 DEF Sealing, RowsFine
<1>2. ASSUME NEW t \in Threads, DoMark(t),
             steps'[w][i].st = Head(th[t].todo).a, steps'[w][i].obs = Head(th[t].todo).b
      PROVE  steps'[w][i].st # "running"
    BY <1>1, <1>2, MarksRunPlain DEF Sealing
<1> QED BY <1>2, <1>3, <1>4 DEF Rewritten

\* The step numbers of an execution are kept, dropped, or those of new steps.
LEMMA SidChanges ==
    ASSUME Execution, [Next]_vars, NEW e \in Execs, Polite(e)
    PROVE  \/ th'[e].sid = th[e].sid \/ th'[e].sid = 0
           \/ /\ DoAdd(e) /\ th'[e].sid = Len(steps[e[1]]) + 1
              /\ th'[e].sid \in DOMAIN steps'[e[1]] \ DOMAIN steps[e[1]]
              /\ \A t \in Threads \ {e} : th'[t] = th[t]
<1>1. TypeOK /\ e \in Threads /\ e # Main /\ e[1] \in Works
    BY ThreadFacts DEF Execution, Versions
<1>2. CASE StoreCall(e)
  <2> DEFINE q == th[e].todo
  <2>1. q \in Seq(Call) /\ q # <<>> /\ th[e].w = e[1]
      BY <1>1, <1>2, CallBasics
  <2>2. Head(q).op \notin {"restart", "interrupt"}
    <3>1. CASE th[e].pc = "exec"
        BY <2>1, <3>1, ExecutorCalls DEF Execution
    <3>2. CASE q \in Seq(AskFree) \cup Seq(MarkFree)
      <4>1. Head(q) \in AskFree \cup MarkFree
          BY <2>1, <3>2
      <4> QED BY <4>1 DEF AskFree, MarkFree, PlainCalls
    <3> QED BY <3>1, <3>2 DEF Polite
  <2>3. ~DoRestart(e) /\ ~DoInterrupt(e)
      BY <2>2 DEF DoRestart, DoInterrupt, Calls
  <2>4. CASE DoAdd(e)
    <3>1. \E row : AddStep(e[1], row)
        BY <2>1, <2>4 DEF DoAdd
    <3>2. Len(steps[e[1]]) + 1 \in DOMAIN steps'[e[1]] \ DOMAIN steps[e[1]]
        BY <1>1, <3>1, AddStepRows DEF TypeOK, StoreOK
    <3>3. \A t \in Threads \ {e} : th'[t] = th[t]
        BY <1>1, <1>2, StoreCallMoves DEF OthersKeep
    <3>4. ~RejectSave(e)
        BY <2>4 DEF DoAdd, RejectSave, Calls
    <3>5. Numbers(e)
        BY <1>1, <1>2, <3>4, CallMoves
    <3> QED BY <2>1, <2>3, <2>4, <3>2, <3>3, <3>5 DEF Numbers
  <2> QED BY <1>1, <1>2, <2>3, <2>4, CallMoves DEF Numbers
<1>3. CASE EngineStep(e)
    BY <1>1, <1>3, EngineFollows DEF Follows
<1> QED BY <1>1, <1>2, <1>3, NextMoves

LEMMA NumberedNext ==
    ASSUME Sealing, [Next]_vars
    PROVE  Numbered'
<1> SUFFICES ASSUME NEW e \in Execs
             PROVE  /\ th'[e].sid \in {0} \cup DOMAIN steps'[e[1]]
                    /\ \A t \in Threads \ {e} :
                          Owns(t)' /\ th'[t].w = e[1] => th'[t].sid # th'[e].sid
    BY DEF Numbered
<1>1. Execution /\ Starting /\ Polite(e) /\ e[1] \in Works
    BY ThreadFacts DEF Sealing, Pausing
<1>2. /\ DOMAIN steps[e[1]] \subseteq DOMAIN steps'[e[1]] /\ 0 \notin DOMAIN steps[e[1]]
      /\ 0 \notin DOMAIN steps'[e[1]]
  <2>1. steps \in [Works -> Seq(StepRow)] /\ steps' \in [Works -> Seq(StepRow)]
      BY <1>1, TypesNext DEF Execution, Versions, TypeOK, StoreOK
  <2> QED BY <1>1, <2>1, RowChanges
<1>3. th[e].sid \in {0} \cup DOMAIN steps[e[1]]
    BY DEF Sealing, Numbered
<1>4. ASSUME NEW t \in Threads \ {e}, Owns(t)', th'[t].w = e[1] PROVE th'[t].sid # th'[e].sid
  <2>1. CASE Owns(t) /\ th[t].w = e[1] /\ th'[t].sid = th[t].sid
    <3>1. th[t].sid \in DOMAIN steps[e[1]] /\ th[t].sid # th[e].sid
        BY <1>1, <2>1 DEF Sealing, Numbered, Execution, OwnedRows
    <3> QED BY <1>1, <1>2, <2>1, <3>1, SidChanges
  <2>2. CASE th'[t].sid \in DOMAIN steps'[e[1]] \ DOMAIN steps[e[1]]
    <3>1. th'[t] = th[t] => th'[t].sid \in DOMAIN steps[e[1]]
      <4>1. th'[t] = th[t] => Owns(t)
          BY <1>4 DEF Owns
      <4> QED BY <1>1, <1>4, <4>1 DEF Execution, OwnedRows
    <3> QED BY <1>1, <1>2, <1>3, <2>2, <3>1, SidChanges
  <2> QED BY <1>1, <1>4, <2>1, <2>2, OwnsLittleNext DEF OwnsLittle
<1> QED BY <1>1, <1>2, <1>3, <1>4, SidChanges

\* A row is written by the save of a thread that holds it, or becomes one the
\* owner is asked nothing about.
LEMMA ItemWrites ==
    ASSUME Versions, [Next]_vars, NEW w \in Works, item'[w] # item[w]
    PROVE  \/ \E t \in Threads :
                /\ DoSave(t) /\ th[t].w = w /\ th[t].held = item[w] /\ steps' = steps
                /\ item'[w] = NewRecord(th[t], Head(th[t].todo))
           \/ /\ item[w].state \in {"absent", "waiting_for_owner"}
              /\ item'[w].state \in {"queued", "running"}
<1>1. TypeOK /\ item \in [Works -> Item]
    BY DEF Versions, TypeOK, StoreOK
<1>2. ASSUME NEW t \in Threads, StoreCall(t)
      PROVE  /\ DoSave(t) /\ th[t].w = w /\ th[t].held = item[w] /\ steps' = steps
             /\ item'[w] = NewRecord(th[t], Head(th[t].todo))
  <2>1. DoSave(t)
      BY <1>2 DEF StoreCall, DoRead, RejectSave, DoAdd, DoMark, DoInterrupt, DoNotify,
                  DoBlocker, DoClear, DoSend, DoSubmit, DoRestart, DoBind, storeVars
  <2> DEFINE me == th[t]
             o  == Head(th[t].todo)
  <2>2. me \in Thread /\ me.w \in Works
      BY <1>1, <2>1, CallFacts DEF DoSave, Calls, TypeOK
  <2>3. /\ Fresh(me.w, me.held) /\ steps' = steps
        /\ item' = [item EXCEPT ![me.w] = NewRecord(me, o)]
      BY <2>1 DEF DoSave, PutItem
  <2>4. me.held = item[me.w]
      BY <2>2, <2>3 DEF Versions, HeldIsTrueOrStale, Fresh
  <2> QED BY <1>1, <2>1, <2>2, <2>3, <2>4
<1>3. ASSUME NEW e \in Execs, EngineStep(e)
      PROVE  item[w].state = "waiting_for_owner" /\ item'[w].state = "running"
  <2>1. ApplySealed(e)
      BY <1>3 DEF EngineStep, AdvanceStopped, AdvanceDependent, Advance, Admit, Admission,
             DecideTooLate, BrainUnavailable, BrainFails, BrainCompletes, BrainAsks,
             BrainActs, Leased, LeaseRefused, Executed, StepDone, StepAsks, StepFails,
             ApplyPlain, FailBounded, Only, Pressed, storeVars
  <2>2. /\ item' = [item EXCEPT ![e[1]] = Transition(item[e[1]], "running", 0)]
        /\ item[e[1]].state = "waiting_for_owner"
      BY <2>1 DEF ApplySealed, PutItem, AnswersNow
  <2>3. w = e[1] /\ item'[w] = Transition(item[w], "running", 0)
      BY <1>1, <2>2, ExecOK
  <2>4. item'[w].state = "running"
      BY <2>2, <2>3 DEF Transition
  <2> QED BY <2>2, <2>3, <2>4
<1>4. ASSUME OwnerStep
      PROVE  item[w].state = "absent" /\ item'[w].state = "queued"
  <2>1. PICK v \in Works : OwnerStart(v)
      BY <1>4 DEF OwnerStep, OwnerPause, OwnerResume, OwnerCancel, OwnerRetry,
             OwnerReprioritize, OwnerAnswer, storeVars
  <2>2. item' = [item EXCEPT ![v] = NewItem] /\ ~Exists(item[v])
      BY <2>1 DEF OwnerStart, PutItem
  <2> QED BY <1>1, <2>2 DEF NewItem, Exists
<1>5. ~(\E e \in Execs : WorkflowStep(e)) /\ ~MainStep /\ ~BackendFault(Main) /\ ~Crash
      /\ ~UNCHANGED vars
    BY DEF WorkflowStep, StepReturns, StepRaises, ReceiveAnswer, ReceiveControl, MainStep,
           CancelAgain, BootStart, BootLaunch, BootResubmit, BootInterrupted, BackendFault,
           Crash, Only, storeVars, vars
<1> QED BY <1>2, <1>3, <1>4, <1>5 DEF Next

\* While the process is down or starting, no thread owns a step.
LEMMA NobodyOwns ==
    ASSUME Execution, Orders, up # "up", NEW t \in Threads
    PROVE  ~Owns(t)
<1>1. CASE t \in Execs
  <2>1. th[t].pc = "idle" /\ th[t].todo = <<>>
      BY <1>1 DEF Execution, Asleep
  <2> QED BY <2>1, NothingIsClean DEF Clean, Owns, Owning, OnItsRow
<1>2. CASE t = Main
  <2>1. th[Main].todo = <<>> \/ th[Main].todo \in Seq(BootCalls)
      BY DEF Orders
  <2>2. \A o \in BootCalls : o.op # "mark"
      BY CallOps DEF BootCalls
  <2>3. \A q \in Seq(BootCalls) : ~Marks(q)
      BY <2>2 DEF Marks
  <2> QED BY <1>2, <2>1, <2>3, NothingIsClean, ThreadFacts DEF Clean, Owns, Owning
<1> QED BY <1>1, <1>2, ThreadFacts

\* Where a thread is about to save a record that asks the owner, it asks again
\* what the item asks already, or asks under a step of its own.
LEMMA AskingCalls ==
    ASSUME Sealing, NEW t \in Threads, DoSave(t), th[t].held = item[th[t].w],
           NEW new, new = NewRecord(th[t], Head(th[t].todo)), new # item[th[t].w],
           AskedFor(new)
    PROVE  \/ new.step = item[th[t].w].step /\ AskedFor(item[th[t].w])
           \/ new.step = 0
           \/ /\ new.step = th[t].sid /\ t \in Execs /\ th[t].pc # "exec"
              /\ th[t].todo \in Seq(MarkFree)
           \/ new.step = th[t].sid /\ t = Main /\ up # "up"
              /\ th[t].sid \in DOMAIN steps[th[t].w]
<1> DEFINE me == th[t]
           q  == th[t].todo
           o  == Head(th[t].todo)
           it == item[th[t].w]
<1>1. Execution /\ StoreCall(t) /\ o.op \in {"move", "touch"}
    BY DEF Sealing, Pausing, DoSave, Calls, StoreCall
<1>2. q \in Seq(Call) /\ q # <<>> /\ me.w \in Works /\ me \in Thread /\ it \in Item
    BY <1>1, CallBasics DEF TypeOK, StoreOK
<1>3. CASE o.op = "touch"
  <2>1. new.step = StepArg(me, o.b) /\ new.state = it.state /\ new.from = it.from
      BY <1>2, <1>3 DEF NewRecord, WithProgress, Item
  <2>2. AskedFor(it) /\ it.state # "running"
      BY <2>1 DEF AskedFor
  <2>3. CASE o.b \in {"none", "keep"}
      BY <2>1, <2>2, <2>3 DEF StepArg
  <2>4. CASE t \in Execs
    <3>1. CASE th[t].pc = "exec"
      <4>1. Head(Start).op # "touch"
          BY StartCalls
      <4> QED BY <1>1, <1>2, <1>3, <2>2, <2>4, <3>1, <4>1 DEF Execution, Shaped
    <3>2. CASE th[t].pc # "exec"
      <4>1. q \in Seq(AskFree) \cup Seq(MarkFree)
          BY <2>4, <3>2 DEF Sealing, Polite
      <4>2. o \in PlainCalls
          BY <1>2, <4>1 DEF AskFree, MarkFree
      <4> QED BY <1>3, <2>3, <4>2 DEF PlainCalls
    <3> QED BY <3>1, <3>2
  <2>5. CASE t = Main /\ up = "up"
    <3>1. CASE q \in Seq(ErrandCalls)
      <4>1. o \in ErrandCalls
          BY <1>2, <3>1
      <4> QED BY <1>3, <2>3, <4>1 DEF ErrandCalls
    <3>2. CASE AsksAgain(me)
      <4>1. o = Move("waiting_for_owner", "keep")
          BY <3>2 DEF AsksAgain
      <4>2. Move("waiting_for_owner", "keep").op = "move"
          BY CallOps
      <4> QED BY <1>3, <4>1, <4>2
    <3> QED BY <2>5, <3>1, <3>2 DEF Sealing, Orders
  <2>6. CASE t = Main /\ up # "up"
    <3>1. q \in Seq(BootCalls)
          /\ (o # Interrupt => me.sid \in DOMAIN steps[me.w])
        BY <1>2, <2>6 DEF Sealing, Orders
    <3>2. o \in BootCalls /\ o # Interrupt
        BY <1>2, <1>3, <3>1, CallOps
    <3>3. o = Touch("own")
      <4>1. Move("waiting_for_owner", "own").op = "move" /\ Notify.op = "notify"
          BY CallOps
      <4> QED BY <1>3, <3>2, <4>1 DEF BootCalls
    <3>4. Touch("own").b = "own"
        BY DEF Touch, Op
    <3> QED BY <2>1, <2>6, <3>1, <3>2, <3>3, <3>4 DEF StepArg
  <2> QED BY SMTT(30), <2>4, <2>5, <2>6, ThreadFacts
<1>4. CASE o.op = "move"
  <2>1. /\ o.a # it.state /\ new.state = o.a /\ new.step = StepArg(me, o.b)
        /\ o.a = "paused" => new.from = it.state
    <3>1. new = Transition(it, o.a, StepArg(me, o.b))
        BY <1>4 DEF NewRecord
    <3> HIDE DEF o
    <3> QED BY <3>1 DEF Transition
  <2>2. /\ o.a \in {"paused", "waiting_for_owner"}
        /\ o.a = "paused" => it.state = "waiting_for_owner"
      BY <2>1 DEF AskedFor
  <2>3. /\ o.b = "keep" => new.step = it.step
        /\ o.b = "none" => new.step = 0
        /\ o.b = "own" => new.step = me.sid
      BY <2>1 DEF StepArg
  <2>4. o.a = "paused" => AskedFor(it)
      BY <2>2 DEF AskedFor
  <2>5. CASE t \in Execs
    <3>1. CASE th[t].pc = "exec"
      <4>1. Head(Start).a = "running"
            /\ Head(Tail(Start)).op # "move" /\ Head(Tail(Tail(Start))).op # "move"
            /\ Head(<<Touch("own")>>).op # "move"
          BY StartCalls
      <4>2. q \in {Start, Tail(Start), Tail(Tail(Start)), <<Touch("own")>>}
          BY <1>1, <1>2, <2>5, <3>1 DEF Execution, Shaped, OnItsRow
      <4> QED BY <1>4, <2>2, <4>1, <4>2
    <3>2. CASE q \in Seq(AskFree) /\ th[t].pc # "exec"
      <4>1. o \in AskFree
          BY <1>2, <3>2
      <4>2. o.a = "paused" /\ o.b = "keep"
          BY <1>4, <2>2, <4>1 DEF AskFree, PlainCalls, Asks
      <4> QED BY <2>3, <2>4, <4>2
    <3>3. CASE q \in Seq(MarkFree) /\ th[t].pc # "exec"
      <4>1. o \in MarkFree
          BY <1>2, <3>3
      <4>2. \/ o.a = "paused" /\ o.b = "keep"
            \/ o.a = "waiting_for_owner" /\ o.b \in {"none", "own"}
          BY <1>4, <2>2, <4>1 DEF MarkFree, PlainCalls, Asks
      <4> QED BY <2>3, <2>4, <2>5, <3>3, <4>2
    <3> QED BY <2>5, <3>1, <3>2, <3>3 DEF Sealing, Polite
  <2>6. CASE t = Main /\ up = "up"
    <3>1. CASE q \in Seq(ErrandCalls)
      <4>1. o \in ErrandCalls
          BY <1>2, <3>1
      <4>2. o.a = "paused" /\ o.b = "keep"
          BY <1>4, <2>2, <4>1 DEF ErrandCalls, Asks
      <4> QED BY <2>3, <2>4, <4>2
    <3>2. CASE AsksAgain(me)
      <4>1. o = Move("waiting_for_owner", "keep") /\ AskedFor(it)
          BY <3>2 DEF AsksAgain, AskedFor
      <4>2. o.b = "keep"
          BY <4>1 DEF Move, Op
      <4> QED BY <2>3, <4>1, <4>2
    <3> QED BY <2>6, <3>1, <3>2 DEF Sealing, Orders
  <2>7. CASE t = Main /\ up # "up"
    <3>1. q \in Seq(BootCalls)
          /\ (o # Interrupt => me.sid \in DOMAIN steps[me.w])
        BY <1>2, <2>7 DEF Sealing, Orders
    <3>2. o \in BootCalls /\ o # Interrupt
        BY <1>2, <1>4, <3>1, CallOps
    <3>3. o = Move("waiting_for_owner", "own")
      <4>1. Touch("own").op = "touch" /\ Notify.op = "notify"
          BY CallOps
      <4> QED BY <1>4, <3>2, <4>1 DEF BootCalls
    <3>4. Move("waiting_for_owner", "own").b = "own"
        BY DEF Move, Op
    <3> QED BY <2>3, <2>7, <3>1, <3>2, <3>3, <3>4
  <2> QED BY <2>5, <2>6, <2>7, ThreadFacts
<1> QED BY <1>1, <1>3, <1>4

LEMMA UntouchedNext ==
    ASSUME Sealing, [Next]_vars
    PROVE  Untouched'
<1> SUFFICES ASSUME NEW w \in Works, AskedFor(item'[w])
             PROVE  /\ item'[w].step \in {0} \cup DOMAIN steps'[w]
                    /\ \A t \in Threads : Owns(t)' /\ th'[t].w = w => th'[t].sid # item'[w].step
    BY DEF Untouched, AskedFor
<1> DEFINE n == item'[w].step
<1>1. Execution /\ Starting /\ Versions /\ TypeOK
    BY DEF Sealing, Pausing, Execution, Versions
<1>2. /\ DOMAIN steps[w] \subseteq DOMAIN steps'[w]
      /\ 0 \notin DOMAIN steps[w] /\ 0 \notin DOMAIN steps'[w]
  <2>1. steps \in [Works -> Seq(StepRow)] /\ steps' \in [Works -> Seq(StepRow)]
      BY <1>1, TypesNext DEF TypeOK, StoreOK
  <2> QED BY <1>1, <2>1, RowChanges
<1>3. CASE n \in {0} \cup DOMAIN steps[w]
           /\ \A t \in Threads :
                 Owns(t) /\ th[t].w = w /\ Owns(t)' => th[t].sid # n
  <2>1. ASSUME NEW t \in Threads, Owns(t)', th'[t].w = w PROVE th'[t].sid # n
      BY <1>1, <1>2, <1>3, <2>1, OwnsLittleNext DEF OwnsLittle
  <2> QED BY <1>2, <1>3, <2>1
<1>4. AskedFor(item[w]) => /\ item[w].step \in {0} \cup DOMAIN steps[w]
                           /\ \A t \in Threads : Owns(t) /\ th[t].w = w => th[t].sid # item[w].step
    BY DEF Sealing, Untouched
<1>5. \A t \in Threads : Owns(t) /\ th[t].w = w => th[t].sid \in DOMAIN steps[w]
    BY <1>1 DEF Execution, OwnedRows
<1>6. CASE item'[w] = item[w] \/ n = 0 \/ (n = item[w].step /\ AskedFor(item[w]))
  <2>1. CASE n = 0
      BY <1>2, <1>3, <1>5, <2>1
  <2>2. CASE n # 0
    <3>1. n = item[w].step /\ AskedFor(item[w])
        BY <1>6, <2>2
    <3> QED BY <1>3, <1>4, <3>1
  <2> QED BY <2>1, <2>2
<1>7. ASSUME NEW t \in Execs, th[t].w = w, n = th[t].sid, DoSave(t), th[t].pc # "exec",
             th[t].todo \in Seq(MarkFree)
      PROVE  /\ n \in {0} \cup DOMAIN steps[w]
             /\ \A u \in Threads :
                   Owns(u) /\ th[u].w = w /\ Owns(u)' => th[u].sid # n
  <2>1. t \in Threads /\ t # Main /\ StoreCall(t)
      BY <1>7, ThreadFacts DEF StoreCall
  <2>2. t[1] = w /\ th[t].todo # <<>>
      BY <1>1, <1>7, <2>1, CallBasics
  <2>3. \A q \in Seq(MarkFree) : ~Marks(q)
      BY DEF Marks, MarkFree
  <2>4. Tail(th[t].todo) \in Seq(MarkFree)
      BY <1>7, <2>2
  <2>5. ~Owns(t)'
    <3>1. \/ th'[t].todo = <<>> /\ th'[t].pc # "exec"
          \/ th'[t].todo = Tail(th[t].todo) /\ th'[t].pc = th[t].pc
        BY <1>1, <2>1, CallMoves
    <3>2. <<>> \in Seq(MarkFree)
        OBVIOUS
    <3> QED BY <1>7, <2>3, <2>4, <3>1, <3>2 DEF Owns, Owning, OnItsRow
  <2> QED BY <1>7, <2>2, <2>5 DEF Sealing, Numbered
<1>8. CASE item'[w] # item[w]
  <2>1. PICK t \in Threads :
            /\ DoSave(t) /\ th[t].w = w /\ th[t].held = item[w] /\ steps' = steps
            /\ item'[w] = NewRecord(th[t], Head(th[t].todo))
    <3>1. item'[w].state \notin {"queued", "running"}
        BY DEF AskedFor
    <3> QED BY <1>1, <1>8, <3>1, ItemWrites
  <2>2. CASE (n = item[w].step /\ AskedFor(item[w])) \/ n = 0
      BY <1>6, <2>2
  <2>3. CASE n = th[t].sid /\ t \in Execs /\ th[t].pc # "exec" /\ th[t].todo \in Seq(MarkFree)
      BY <1>3, <1>7, <2>1, <2>3
  <2>4. CASE n = th[t].sid /\ t = Main /\ up # "up" /\ th[t].sid \in DOMAIN steps[th[t].w]
    <3>1. \A u \in Threads : ~Owns(u)
        BY <1>1, <2>4, NobodyOwns DEF Sealing
    <3> QED BY <1>3, <2>1, <2>4, <3>1
  <2> QED BY <1>8, <2>1, <2>2, <2>3, <2>4, AskingCalls
<1> QED BY <1>6, <1>8

-----------------------------------------------------------------------------
(* Answers in flight *)

\* Answer m is the one the owner gives now to the item of execution e.
Given(e, m) ==
    /\ m.ver = item[e[1]].ver /\ m.sealed = AskedInSecret(e[1])
    /\ item' = item /\ steps' = steps

LEMMA MailChanges ==
    ASSUME TypeOK, [Next]_vars, NEW e \in Execs, NEW m, Holds(e, m)'
    PROVE  Holds(e, m) \/ Given(e, m)
<1>1. /\ inbox \in [Execs -> [owner : Seq(Message), control : Seq({"resume", "cancel"})]]
      /\ wf \in [Execs -> Workflow(Message \cup {NoMessage})]
    BY DEF TypeOK, DbosOK
<1>2. /\ inbox[e].owner \in Seq(Message) /\ wf[e] \in Workflow(Message \cup {NoMessage})
      /\ e \in Threads /\ e[1] \in Works
    BY <1>1, ThreadFacts
<1>3. ASSUME inbox'[e].owner = inbox[e].owner,
             wf'[e].at = "apply" => wf[e].at = "apply" /\ wf'[e].msg = wf[e].msg
      PROVE  Holds(e, m)
    BY <1>3 DEF Holds
<1>4. ASSUME NEW f \in Execs, NEW c, NEW v, SendControl(f, c, v)
      PROVE  inbox'[e].owner = inbox[e].owner
  <2> DEFINE row == [inbox[f] EXCEPT !.control = Append(@, c)]
  <2>1. row.owner = inbox[f].owner
      BY <1>1
  <2>2. inbox' = inbox \/ inbox' = [inbox EXCEPT ![f] = row]
      BY <1>4 DEF SendControl
  <2> HIDE DEF row
  <2> QED BY <1>1, <2>1, <2>2
<1>5. ASSUME NEW f \in Execs, Submit(f)
      PROVE  wf'[e].at = wf[e].at /\ wf'[e].msg = wf[e].msg
  <2> DEFINE row == [wf[f] EXCEPT !.st = "live"]
  <2>1. row.at = wf[f].at /\ row.msg = wf[f].msg
      BY <1>1 DEF Workflow
  <2>2. wf' = wf \/ wf' = [wf EXCEPT ![f] = row]
      BY <1>5 DEF Submit
  <2> HIDE DEF row
  <2> QED BY <1>1, <2>1, <2>2
<1>6. ASSUME NEW t \in Threads, StoreCall(t) PROVE Holds(e, m)
  <2>1. th[t].w \in Works
      BY <1>6, StoreCallRuns, CallFacts DEF TypeOK
  <2>2. CASE DoSend(t)
    <3>1. ref[th[t].w] \in Nat /\ wf' = wf
        BY <2>1, <2>2 DEF DoSend, TypeOK, StoreOK
    <3>2. inbox'[e].owner = inbox[e].owner
      <4>1. CASE BoundExec(th[t].w) \in Execs
          BY <1>4, <2>2, <4>1 DEF DoSend
      <4>2. CASE BoundExec(th[t].w) \notin Execs
        <5> DEFINE f == BoundExec(th[t].w)
                   row == [inbox[f] EXCEPT !.control = Append(@, Head(th[t].todo).a)]
        <5>1. inbox' = inbox \/ inbox' = [inbox EXCEPT ![f] = row]
            BY <2>2 DEF DoSend, SendControl
        <5> HIDE DEF row, f
        <5> QED BY <1>1, <4>2, <5>1 DEF f
      <4> QED BY <4>1, <4>2
    <3> QED BY <1>3, <3>1, <3>2
  <2>3. CASE DoSubmit(t)
    <3>1. <<th[t].w, 0>> \in Execs /\ Submit(<<th[t].w, 0>>) /\ inbox' = inbox
        BY <2>1, <2>3, ThreadFacts DEF DoSubmit
    <3> QED BY <1>3, <1>5, <3>1
  <2>4. CASE DoRestart(t)
    <3>1. PICK n \in 1 .. MaxRetries : Submit(<<th[t].w, n>>)
        BY <2>4 DEF DoRestart
    <3>2. <<th[t].w, n>> \in Execs /\ inbox' = inbox
        BY <2>1, <2>4, <3>1, RetriesAssumption DEF DoRestart, Execs
    <3> QED BY <1>3, <1>5, <3>1, <3>2
  <2>5. CASE ~DoSend(t) /\ ~DoSubmit(t) /\ ~DoRestart(t)
    <3>1. inbox' = inbox /\ wf' = wf
        BY <1>6, <2>5 DEF StoreCall, DoRead, DoSave, RejectSave, DoAdd, DoMark, DoInterrupt,
             DoNotify, DoBlocker, DoClear, DoBind, dbosVars
    <3> QED BY <1>3, <3>1
  <2> QED BY <2>2, <2>3, <2>4, <2>5
<1>7. ASSUME NEW f \in Execs, EngineStep(f) PROVE Holds(e, m)
  <2>1. wf' = wf /\ inbox' = inbox
      BY <1>7, EngineRuns DEF EngineStep, AdvanceStopped, AdvanceDependent, Advance, Admit, Admission,
             DecideTooLate, BrainUnavailable, BrainFails, BrainCompletes, BrainAsks,
             BrainActs, Leased, LeaseRefused, Executed, StepDone, StepAsks, StepFails,
             ApplyPlain, ApplySealed, FailBounded, Only, Pressed, dbosVars
  <2> QED BY SMTT(30), <1>3, <2>1
<1>8. ASSUME NEW f \in Execs, WorkflowStep(f), f # e PROVE Holds(e, m)
  <2>1. (wf' = wf \/ \E row : wf' = [wf EXCEPT ![f] = row])
        /\ (inbox' = inbox \/ \E row : inbox' = [inbox EXCEPT ![f] = row])
    <3>1. CASE StepReturns(f) \/ StepRaises(f)
        BY <3>1 DEF StepReturns, StepRaises
    <3>2. CASE ReceiveControl(f)
        BY <3>2 DEF ReceiveControl
    <3>3. CASE ReceiveAnswer(f)
        BY <3>3 DEF ReceiveAnswer
    <3> QED BY <1>8, <3>1, <3>2, <3>3 DEF WorkflowStep
  <2>2. wf'[e] = wf[e] /\ inbox'[e] = inbox[e]
      BY <1>1, <1>8, <2>1
  <2> QED BY <1>3, <2>2
<1>9. CASE StepReturns(e)
  <2> DEFINE row == wf[e]
             kept == [row EXCEPT !.at = "advance", !.msg = NoMessage]
             over == [row EXCEPT !.st = "done"]
  <2>1. inbox' = inbox /\ wf'[e] = CASE row.at = "advance" -> AfterAdvance(row, th[e].held.state)
                                     [] row.at = "apply" -> kept
                                     [] OTHER -> over
      BY <1>1, <1>9 DEF StepReturns
  <2>2. kept.at = "advance" /\ over.at = row.at
      BY <1>2 DEF Workflow
  <2>3. row.at = "advance" => AfterAdvance(row, th[e].held.state).at # "apply"
      BY <1>2 DEF AfterAdvance, LoopOrFail, Workflow
  <2> HIDE DEF kept, over
  <2>4. wf'[e].at # "apply"
      BY <2>1, <2>2, <2>3
  <2> QED BY <1>3, <2>1, <2>4
<1>10. CASE StepRaises(e)
  <2> DEFINE over == [wf[e] EXCEPT !.st = "error"]
  <2>1. over.at = wf[e].at /\ over.msg = wf[e].msg
      BY <1>2 DEF Workflow
  <2>2. inbox' = inbox /\ (wf' = wf \/ wf' = [wf EXCEPT ![e] = over])
      BY <1>10 DEF StepRaises
  <2> HIDE DEF over
  <2> QED BY <1>1, <1>3, <2>1, <2>2
<1>11. CASE ReceiveControl(e)
  <2> DEFINE rest == [inbox[e] EXCEPT !.control = Tail(@)]
             on   == [wf[e] EXCEPT !.at = "advance"]
             over == [wf[e] EXCEPT !.st = "done"]
  <2>1. /\ rest.owner = inbox[e].owner /\ on.at = "advance"
        /\ over.at = wf[e].at /\ over.msg = wf[e].msg
      BY <1>1, <1>2 DEF Workflow
  <2>2. /\ inbox' = [inbox EXCEPT ![e] = rest]
        /\ wf' = [wf EXCEPT ![e] = on] \/ wf' = [wf EXCEPT ![e] = over]
      BY <1>11 DEF ReceiveControl
  <2> HIDE DEF rest, on, over
  <2> QED BY <1>1, <1>3, <2>1, <2>2
<1>12. CASE ReceiveAnswer(e)
  <2> DEFINE q == inbox[e].owner
             rest == [inbox[e] EXCEPT !.owner = Tail(@)]
             on   == [wf[e] EXCEPT !.at = "advance"]
             got  == [[wf[e] EXCEPT !.at = "apply"] EXCEPT !.msg = Head(q)]
  <2>1. CASE q # <<>> /\ inbox' = [inbox EXCEPT ![e] = rest]
             /\ wf' = [wf EXCEPT ![e].at = "apply", ![e].msg = Head(q)]
    <3>1. wf'[e].msg = Head(q)
        BY <1>1, <1>2, <2>1 DEF Workflow
    <3>2. rest.owner = Tail(q)
        BY <1>1
    <3> HIDE DEF rest
    <3>3. inbox'[e].owner = Tail(q)
        BY <1>1, <2>1, <3>2
    <3>4. Head(q) = q[1] /\ 1 \in DOMAIN q /\ q \in Seq(Message)
        BY <1>2, <2>1
    <3>5. \A i \in DOMAIN Tail(q) : i + 1 \in DOMAIN q /\ Tail(q)[i] = q[i + 1]
        BY <1>2, <2>1
    <3> HIDE DEF q
    <3> QED BY <3>1, <3>3, <3>4, <3>5 DEF Holds, q
  <2>2. CASE inbox' = inbox /\ wf' = [wf EXCEPT ![e] = on]
    <3>1. on.at = "advance"
        BY <1>2 DEF Workflow
    <3> HIDE DEF on
    <3> QED BY <1>1, <1>3, <2>2, <3>1
  <2> QED BY <1>12, <2>1, <2>2 DEF ReceiveAnswer
<1>13. ASSUME NEW w \in Works, OwnerAnswer(w) PROVE Holds(e, m) \/ Given(e, m)
  <2>1. PICK text \in Answers :
            SendOwner(BoundExec(w), [text |-> text, ver |-> item[w].ver,
                                     sealed |-> AskedInSecret(w)])
      BY <1>13 DEF OwnerAnswer
  <2> DEFINE new == [text |-> text, ver |-> item[w].ver, sealed |-> AskedInSecret(w)]
             f   == BoundExec(w)
             row == [inbox[f] EXCEPT !.owner = Append(@, new)]
  <2>2. new.ver = item[w].ver /\ new.sealed = AskedInSecret(w)
      OBVIOUS
  <2>3. inbox' = inbox \/ inbox' = [inbox EXCEPT ![f] = row]
      BY <2>1 DEF SendOwner
  <2>4. wf' = wf /\ item' = item /\ steps' = steps
      BY <1>13 DEF OwnerAnswer, storeVars
  <2>5. CASE inbox'[e] = inbox[e]
      BY <1>3, <2>4, <2>5
  <2>6. CASE f = e /\ inbox' = [inbox EXCEPT ![f] = row]
    <3>1. e[1] = w
        BY <2>6 DEF BoundExec
    <3>2. row.owner = Append(inbox[e].owner, new)
        BY <1>1, <2>6
    <3> HIDE DEF row, new, f
    <3>3. inbox'[e].owner = Append(inbox[e].owner, new)
        BY <1>1, <2>6, <3>2
    <3>4. \A i \in DOMAIN Append(inbox[e].owner, new) :
              \/ i \in DOMAIN inbox[e].owner
                 /\ Append(inbox[e].owner, new)[i] = inbox[e].owner[i]
              \/ Append(inbox[e].owner, new)[i] = new
        BY <1>2
    <3> QED BY <2>2, <2>4, <3>1, <3>3, <3>4 DEF Holds, Given
  <2> HIDE DEF row, f
  <2> QED BY <1>1, <2>3, <2>5, <2>6
<1>14. CASE BootResubmit
  <2>1. inbox' = inbox /\ wf'[e] \in {wf[e], [wf[e] EXCEPT !.st = "live"]}
      BY <1>14 DEF BootResubmit
  <2>2. wf'[e].at = wf[e].at /\ wf'[e].msg = wf[e].msg
      BY <1>2, <2>1 DEF Workflow
  <2> QED BY <1>3, <2>1, <2>2
<1>15. ASSUME \/ \E w \in Works : \/ OwnerStart(w) \/ OwnerPause(w) \/ OwnerResume(w)
                                  \/ OwnerCancel(w) \/ OwnerRetry(w) \/ OwnerReprioritize(w)
                                  \/ BootInterrupted(w)
              \/ CancelAgain \/ BootStart \/ BootLaunch \/ BackendFault(Main) \/ Crash
              \/ UNCHANGED vars
      PROVE  Holds(e, m)
  <2>1. wf' = wf /\ inbox' = inbox
      BY <1>15 DEF OwnerStart, OwnerPause, OwnerResume, OwnerCancel, OwnerRetry,
           OwnerReprioritize, BootInterrupted, CancelAgain, BootStart, BootLaunch, BackendFault,
           Crash, Only, dbosVars, vars
  <2> QED BY <1>3, <2>1
<1> QED BY <1>6, <1>7, <1>8, <1>9, <1>10, <1>11, <1>12, <1>13, <1>14, <1>15
        DEF Next, MainStep, OwnerStep, WorkflowStep

LEMMA LettersNext ==
    ASSUME Sealing, [Next]_vars
    PROVE  Letters'
<1> SUFFICES ASSUME NEW e \in Execs, NEW m \in Message, Holds(e, m)', m.sealed
             PROVE  /\ m.ver <= item'[e[1]].ver
                    /\ m.ver = item'[e[1]].ver /\ item'[e[1]].state = "waiting_for_owner" =>
                          Question(e[1])' = "ask_secret"
    BY DEF Letters
<1> DEFINE w == e[1]
<1>1. Execution /\ Versions /\ TypeOK /\ w \in Works
    BY ThreadFacts DEF Sealing, Pausing, Execution, Versions
<1>2. CASE Given(e, m)
  <2>1. Question(w)' = Question(w) /\ Question(w) = "ask_secret"
      BY <1>2 DEF Given, AskedInSecret, Question
  <2>2. item[w].ver \in Nat
      BY <1>1 DEF TypeOK, StoreOK, Item
  <2> QED BY <1>2, <2>1, <2>2 DEF Given
<1>3. CASE Holds(e, m)
  <2>1. /\ m.ver <= item[w].ver
        /\ m.ver = item[w].ver /\ item[w].state = "waiting_for_owner" => Question(w) = "ask_secret"
      BY <1>3 DEF Sealing, Letters
  <2>2. item'[w] = item[w] \/ item'[w].ver = item[w].ver + 1
    <3>1. item' = item \/ \E v \in Works, new \in Item :
              item' = [item EXCEPT ![v] = new] /\ Successor(item[v], new)
        BY <1>1, NextEffect DEF Effects, ItemEffect
    <3>2. item \in [Works -> Item]
        BY <1>1 DEF TypeOK, StoreOK
    <3> QED BY <1>1, <3>1, <3>2 DEF Successor
  <2>3. m.ver \in Nat /\ item[w].ver \in Nat
      BY <1>1 DEF TypeOK, StoreOK, Item, Message
  <2>4. CASE item'[w] # item[w]
      BY <2>1, <2>2, <2>3, <2>4
  <2>5. CASE item'[w] = item[w] /\ m.ver = item[w].ver /\ item[w].state = "waiting_for_owner"
    <3> DEFINE n == item[w].step
    <3>1. n \in DOMAIN steps[w] /\ steps[w][n].obs = "ask_secret"
        BY <2>1, <2>5 DEF Question
    <3>2. n \in DOMAIN steps'[w] /\ (steps'[w][n] = steps[w][n] \/ Rewritten(w, n))
        BY <1>1, <3>1, RowChanges
    <3>3. ~Rewritten(w, n)
      <4>1. \A t \in Threads : Owns(t) /\ th[t].w = w => th[t].sid # n
          BY <1>1, <2>5 DEF Sealing, Untouched, AskedFor
      <4>2. steps[w][n].st # "running"
          BY <1>1, <3>1 DEF Sealing, RowsFine
      <4> QED BY <4>1, <4>2 DEF Rewritten
    <3>4. Question(w)' = "ask_secret"
        BY <2>5, <3>1, <3>2, <3>3 DEF Question
    <3> QED BY <2>1, <2>5, <3>4
  <2> QED BY <2>1, <2>4, <2>5
<1> QED BY <1>1, <1>2, <1>3, MailChanges

LEMMA SealingInitially == Init => Sealing
<1> SUFFICES ASSUME Init PROVE Sealing
    OBVIOUS
<1>1. Pausing
    BY PausingInitially
<1>2. ASSUME NEW t \in Threads
      PROVE  th[t].todo = <<>> /\ th[t].pc = "idle" /\ th[t].sid = 0 /\ ~Owns(t)
  <2>1. th[t].todo = <<>> /\ th[t].pc = "idle" /\ th[t].sid = 0
      BY DEF Init, Idle
  <2> QED BY <2>1, NothingIsClean DEF Clean, Owns, Owning, OnItsRow
<1>3. Orders /\ \A e \in Execs : Polite(e)
    BY <1>2, ShortSeqs, ThreadFacts DEF Orders, Polite, Init
<1>4. Numbered
    BY <1>2, ThreadFacts DEF Numbered
<1>5. Untouched /\ RowsFine
    BY DEF Init, StoreInit, Untouched, AskedFor, Absent, RowsFine
<1>6. Letters
    BY ThreadFacts DEF Init, StoreInit, Letters, Holds, NoWorkflow
<1> QED BY <1>1, <1>3, <1>4, <1>5, <1>6 DEF Sealing

LEMMA SealingNext == Sealing /\ [Next]_vars => Sealing'
<1> SUFFICES ASSUME Sealing, [Next]_vars PROVE Sealing'
    OBVIOUS
<1>1. Pausing' /\ Orders'
    BY PausingNext, OrdersNext DEF Sealing, Pausing
<1>2. \A e \in Execs : Polite(e)'
    BY PoliteNext DEF Sealing, Pausing
<1> QED BY <1>1, <1>2, NumberedNext, UntouchedNext, RowsFineNext, LettersNext DEF Sealing

\* Only apply_protected_owner_input stores a value.
LEMMA SecretsComeSealed ==
    ASSUME Sealing, [Next]_vars, NEW w \in Works, secret'[w], ~secret[w]
    PROVE  /\ item[w].state = "waiting_for_owner"
           /\ Question(w) = "ask_secret"
           /\ steps'[w][Len(steps'[w])].ver = item[w].ver
<1>1. /\ TypeOK /\ secret \in [Works -> BOOLEAN]
      /\ steps \in [Works -> Seq(StepRow)]
    BY DEF Sealing, Pausing, Execution, Versions, TypeOK, StoreOK
<1>2. ASSUME NEW t \in Threads, StoreCall(t) PROVE FALSE
  <2>1. secret' = secret \/ secret' = [secret EXCEPT ![th[t].w] = FALSE]
      BY <1>2 DEF StoreCall, DoRead, DoSave, RejectSave, DoAdd, DoMark, DoInterrupt, DoNotify,
                  DoBlocker, DoClear, DoSend, DoSubmit, DoRestart, DoBind, storeVars
  <2> QED BY <1>1, <2>1
<1>3. ASSUME NEW e \in Execs, EngineStep(e), ~ApplySealed(e) PROVE FALSE
  <2>1. secret' \in {secret, [secret EXCEPT ![e[1]] = FALSE]}
      BY <1>3 DEF EngineStep, AdvanceStopped, AdvanceDependent, Advance, Admit, Admission,
             DecideTooLate, BrainUnavailable, BrainFails, BrainCompletes, BrainAsks,
             BrainActs, Leased, LeaseRefused, Executed, StepDone, StepAsks, StepFails,
             ApplyPlain, FailBounded, Only, Pressed, storeVars
  <2> QED BY <1>1, <2>1
<1>4. ~(\E e \in Execs : WorkflowStep(e)) /\ ~OwnerStep /\ ~MainStep /\ ~BackendFault(Main)
      /\ ~Crash /\ ~UNCHANGED vars
    BY DEF WorkflowStep, StepReturns, StepRaises, ReceiveAnswer, ReceiveControl, MainStep,
           CancelAgain, BootStart, BootLaunch, BootResubmit, BootInterrupted, BackendFault,
           OwnerStep, OwnerStart, OwnerPause, OwnerResume, OwnerCancel, OwnerRetry,
           OwnerReprioritize, OwnerAnswer, Crash, Only, storeVars, vars
<1>5. PICK e \in Execs : ApplySealed(e)
    BY <1>2, <1>3, <1>4 DEF Next
<1> DEFINE m == wf[e].msg
<1>6. m.sealed /\ wf[e].at = "apply"
    BY <1>5 DEF ApplySealed, AtStep
<1>7. m \in Message /\ Holds(e, m) /\ e[1] \in Works
    BY <1>1, <1>6, ThreadFacts DEF TypeOK, DbosOK, Holds
<1>8. secret' # secret
    OBVIOUS
<1> DEFINE row == [kind |-> "owner_input", st |-> "completed", obs |-> "redacted", ver |-> m.ver]
<1>9. /\ AnswersNow(item[e[1]], m)
      /\ AddStep(e[1], row)
      /\ secret' = [secret EXCEPT ![e[1]] = TRUE]
    BY <1>5, <1>8 DEF ApplySealed
<1>10. w = e[1]
    BY <1>1, <1>7, <1>9
<1>11. item[w].state = "waiting_for_owner" /\ item[w].ver = m.ver
    BY <1>9, <1>10 DEF AnswersNow
<1>12. Question(w) = "ask_secret"
    BY <1>6, <1>7, <1>10, <1>11 DEF Sealing, Letters
<1>13. steps'[w] = Append(steps[w], row)
    BY <1>1, <1>9, <1>10 DEF AddStep
<1>14. steps'[w][Len(steps'[w])] = row
  <2>1. steps[w] \in Seq(StepRow)
      BY <1>1
  <2> HIDE DEF row
  <2> QED BY <1>13, <2>1
<1>15. row.ver = m.ver
    OBVIOUS
<1> QED BY <1>11, <1>12, <1>14, <1>15

\* A value the owner gave under seal is stored only in answer to the question
\* it was given to: no later question of the item, no crash before the answer
\* is applied and no rewriting of the asked step can come between.
THEOREM SealedAnswers == Spec => SealedAnswerIsCurrent
<1>1. Spec => []Sealing
    BY SealingInitially, SealingNext, PTL DEF Spec
<1>2. Sealing /\ [Next]_vars =>
         [\A w \in Works : secret'[w] /\ ~secret[w] =>
              /\ item[w].state = "waiting_for_owner"
              /\ Question(w) = "ask_secret"
              /\ steps'[w][Len(steps'[w])].ver = item[w].ver]_vars
    BY SecretsComeSealed
<1> QED BY <1>1, <1>2, PTL DEF Spec, SealedAnswerIsCurrent

-----------------------------------------------------------------------------
(* One execution at a time *)

\* No crash has come yet.
Calm == fuel.crash = Fuel.crash

\* The step that failed the item has only to return, which ends its execution.
Finishing(e) ==
    /\ th[e].pc = "ret" /\ wf[e].at # "apply" /\ th[e].held.state = "failed"
    /\ \A i \in DOMAIN th[e].todo : th[e].todo[i].op \in {"notify", "clear"}

Going(e) == wf[e].st = "live" /\ ~Finishing(e)

NobodyFor(w) == \A e \in Execs : e[1] = w => ~Going(e)

OneGoing == \A e, f \in Execs : Going(e) /\ Going(f) /\ e[1] = f[1] => e = f

\* An item that does not exist, or failed and may be retried, has nobody at work.
NobodyForFailed ==
    \A w \in Works : item[w].state \in {"absent", "failed"} => NobodyFor(w)

\* An execution that is to fail its item does nothing else, and then finishes.
Fails(o) == o.op = "move" /\ o.a = "failed"

FailsLast ==
    \A e \in Execs : (\E i \in DOMAIN th[e].todo : Fails(th[e].todo[i])) =>
        th[e].pc = "ret" /\ wf[e].at # "apply" /\ th[e].todo \in Failing

\* The main thread starts an execution, or fails an item it could not start, when
\* nobody else is at work on it.
Again == <<Add("note"), Mark("completed", ""), Move("retrying", "none"), Restart, Bind>>

Starts(o) == o.op \in {"submit", "restart"} \/ Fails(o)

Prepared(rec) ==
    /\ NobodyFor(rec.w)
    /\ \/ rec.todo = <<Launch>> /\ item[rec.w].state = "queued"
       \/ rec.todo \in {Again, Tail(Again), Tail(Tail(Again))}
       \/ rec.todo = <<Restart, Bind>> /\ item[rec.w].state = "retrying"
       \/ rec.todo \in {<<Read, Move("failed", "keep"), Notify>>,
                        <<Move("failed", "none"), Notify>>, <<Move("failed", "keep"), Notify>>}

StartsAlone ==
    (\E i \in DOMAIN th[Main].todo : Starts(th[Main].todo[i])) => Prepared(th[Main])

Undisturbed ==
    /\ up = "up" /\ th[Main].pc # "boot"
    /\ OneGoing /\ NobodyForFailed /\ FailsLast /\ StartsAlone

\* A thread at work is that of a live execution.
BusyIsLive == \A e \in Execs : th[e].pc # "idle" => wf[e].st = "live"

Driven ==
    /\ Sealing /\ BusyIsLive
    /\ fuel.crash <= Fuel.crash
    /\ Calm => Undisturbed

-----------------------------------------------------------------------------
(* Which executions are live *)

\* An execution makes no call that starts another.
LEMMA EngineCallsOnly ==
    ASSUME Sealing, NEW e \in Execs, StoreCall(e)
    PROVE  /\ Head(th[e].todo).op \notin {"submit", "restart", "interrupt", "send", "bind"}
           /\ th[e].pc # "idle"
<1>1. Execution /\ Polite(e) /\ Placed(e)
    BY DEF Sealing, Pausing
<1>2. e \in Threads /\ th[e].todo # <<>> /\ th[e].todo \in Seq(Call)
    BY <1>1, CallBasics, ThreadFacts
<1>3. th[e].pc # "idle"
    BY <1>1, <1>2 DEF Placed
<1>4. CASE th[e].pc = "exec"
    BY <1>1, <1>2, <1>3, <1>4, ExecutorCalls DEF Execution
<1>5. CASE th[e].todo \in Seq(AskFree)
  <2>1. Head(th[e].todo) \in AskFree
      BY <1>2, <1>5
  <2> QED BY <1>3, <2>1 DEF AskFree, PlainCalls
<1>6. CASE th[e].todo \in Seq(MarkFree)
  <2>1. Head(th[e].todo) \in MarkFree
      BY <1>2, <1>6
  <2> QED BY <1>3, <2>1 DEF MarkFree, PlainCalls
<1> QED BY <1>1, <1>4, <1>5, <1>6 DEF Polite

\* What a store call does to the workflows.
LEMMA CallWorkflows ==
    ASSUME Sealing, NEW t \in Threads, StoreCall(t)
    PROVE  \/ wf' = wf
           \/ /\ t = Main /\ Head(th[t].todo).op \in {"submit", "restart"}
              /\ \E g \in Execs : g[1] = th[t].w /\ Submit(g)
<1>1. TypeOK
    BY DEF Sealing, Pausing, Execution, Versions
<1>2. th[t].w \in Works
    BY CallBasics DEF Sealing, Pausing
<1>3. CASE DoSubmit(t)
  <2>1. Head(th[t].todo).op = "submit" /\ Submit(<<th[t].w, 0>>)
      BY <1>3 DEF DoSubmit, Calls
  <2>2. t = Main
      BY <2>1, EngineCallsOnly, ThreadFacts
  <2>3. <<th[t].w, 0>> \in Execs
      BY <1>2, ThreadFacts
  <2> QED BY <2>1, <2>2, <2>3
<1>4. CASE DoRestart(t)
  <2>1. PICK n \in 1 .. MaxRetries : Submit(<<th[t].w, n>>)
      BY <1>4 DEF DoRestart
  <2>2. Head(th[t].todo).op = "restart"
      BY <1>4 DEF DoRestart, Calls
  <2>3. t = Main
      BY <2>2, EngineCallsOnly, ThreadFacts
  <2>4. <<th[t].w, n>> \in Execs
      BY <1>2, <2>1, RetriesAssumption DEF Execs
  <2> QED BY <2>1, <2>2, <2>3, <2>4
<1>5. CASE ~DoSubmit(t) /\ ~DoRestart(t)
    BY <1>5 DEF StoreCall, DoRead, DoSave, RejectSave, DoAdd, DoMark, DoInterrupt, DoNotify,
       DoBlocker, DoClear, DoSend, DoBind, dbosVars
<1> QED BY <1>3, <1>4, <1>5

\* The row of a workflow changes by a step of its own, or when the main thread
\* starts it.
LEMMA RowMoves ==
    ASSUME Sealing, [Next]_vars, NEW e \in Execs
    PROVE  \/ wf'[e] = wf[e]
           \/ WorkflowStep(e)
           \/ BootResubmit
           \/ /\ StoreCall(Main) /\ Head(th[Main].todo).op \in {"submit", "restart"}
              /\ \E g \in Execs : g[1] = th[Main].w /\ Submit(g)
<1>1. CASE \E t \in Threads : StoreCall(t)
    BY <1>1, CallWorkflows
<1>2. CASE \E f \in Execs : EngineStep(f)
    BY <1>2, EngineRuns DEF Sealing, Pausing
<1>3. ASSUME NEW f \in Execs, WorkflowStep(f), f # e
      PROVE  wf'[e] = wf[e]
  <2>1. TypeOK /\ e \in DOMAIN wf
      BY DEF Sealing, Pausing, Execution, Versions, TypeOK, DbosOK
  <2> QED BY <1>3, <2>1 DEF WorkflowStep, StepReturns, StepRaises, ReceiveAnswer, ReceiveControl
<1>4. CASE MainStep \/ OwnerStep \/ BackendFault(Main) \/ Crash \/ UNCHANGED vars
    BY <1>4 DEF MainStep, CancelAgain, BootStart, BootLaunch, BootInterrupted, OwnerStep,
       OwnerStart, OwnerPause, OwnerResume, OwnerCancel, OwnerRetry, OwnerReprioritize,
       OwnerAnswer, BackendFault, Crash, Only, vars, dbosVars
<1> QED BY <1>1, <1>2, <1>3, <1>4 DEF Next

\* A live execution is not started again.
LEMMA LiveRowMoves ==
    ASSUME Sealing, [Next]_vars, NEW e \in Execs, wf[e].st = "live"
    PROVE  wf'[e] = wf[e] \/ WorkflowStep(e)
<1>1. TypeOK
    BY DEF Sealing, Pausing, Execution, Versions
<1>2. ASSUME NEW g \in Execs, Submit(g)
      PROVE  wf'[e] = wf[e]
    BY <1>1, <1>2 DEF Submit, TypeOK, DbosOK
<1>3. CASE BootResubmit
    BY <1>3 DEF BootResubmit
<1> QED BY <1>2, <1>3, RowMoves

\* A step of the workflow's own leaves its thread idle, and goes on only with an
\* execution that was not finishing.
LEMMA OwnRowMoves ==
    ASSUME TypeOK, NEW e \in Execs, WorkflowStep(e)
    PROVE  /\ th'[e].pc = "idle"
           /\ wf'[e].st = "live" => Going(e)
<1> DEFINE row == wf[e]
<1>1. /\ e \in Threads /\ th \in [Threads -> Thread] /\ row \in Workflow(Message \cup {NoMessage})
      /\ wf \in [Execs -> Workflow(Message \cup {NoMessage})]
    BY ExecOK DEF TypeOK, ThreadsOK, DbosOK
<1>2. CASE StepReturns(e)
  <2>1. th'[e] = Idle(e[1]) /\ th[e].pc = "ret" /\ th[e].todo = <<>>
      BY <1>1, <1>2 DEF StepReturns
  <2>2. wf'[e] = CASE row.at = "advance" -> AfterAdvance(row, th[e].held.state)
                   [] row.at = "apply"   -> [row EXCEPT !.at = "advance", !.msg = NoMessage]
                   [] OTHER              -> [row EXCEPT !.st = "done"]
      BY <1>1, <1>2 DEF StepReturns
  <2>3. CASE row.at = "advance"
    <3>1. wf'[e] = AfterAdvance(row, th[e].held.state)
        BY <2>2, <2>3
    <3>2. wf'[e].st \in {row.st, "done"} /\ (th[e].held.state \in Terminal => wf'[e].st = "done")
      <4>1. \A u, v : /\ [row EXCEPT !.at = v].st = row.st
                      /\ [row EXCEPT !.used = u, !.at = v].st = row.st
                      /\ [row EXCEPT !.st = v].st = v
          BY <1>1 DEF Workflow
      <4> DEFINE state == th[e].held.state
                 used  == row.used + (IF Spends(state) THEN 1 ELSE 0)
      <4>2. CASE state \in Terminal
        <5>1. wf'[e] = [row EXCEPT !.st = "done"]
            BY <3>1, <4>2 DEF AfterAdvance, Terminal
        <5> QED BY <4>1, <5>1
      <4>3. CASE state \in {"waiting_for_owner", "paused"}
        <5>1. state \notin Terminal
            BY <4>3 DEF Terminal
        <5>2. \E v : wf'[e] = [row EXCEPT !.at = v]
            BY <3>1, <4>3, <5>1 DEF AfterAdvance
        <5> QED BY <4>1, <5>1, <5>2
      <4>4. CASE state \notin Terminal \cup {"waiting_for_owner", "paused"}
        <5>1. wf'[e] = [row EXCEPT !.used = used, !.at = LoopOrFail(used)]
            BY <3>1, <4>4 DEF AfterAdvance
        <5> HIDE DEF used
        <5> QED BY <4>1, <4>4, <5>1
      <4> QED BY <4>2, <4>3, <4>4
    <3> QED BY <2>1, <3>2, IdleIsFree DEF Going, Finishing, Terminal
  <2>4. CASE row.at = "apply"
    <3>1. wf'[e] = [row EXCEPT !.at = "advance", !.msg = NoMessage]
        BY <2>2, <2>4
    <3>2. wf'[e].st = row.st
        BY <1>1, <3>1 DEF Workflow
    <3> QED BY <2>1, <2>4, <3>2, IdleIsFree DEF Going, Finishing
  <2>5. CASE row.at \notin {"advance", "apply"}
    <3>1. wf'[e].st = "done"
        BY <1>1, <2>2, <2>5 DEF Workflow
    <3> QED BY <2>1, <3>1, IdleIsFree
  <2> QED BY <2>3, <2>4, <2>5
<1>3. CASE StepRaises(e)
  <2>1. th'[e].pc = "idle"
    <3>1. th'[e] = [Idle(e[1]) EXCEPT !.tries = IF th[e].tries + 1 < StepAttempts THEN th[e].tries + 1 ELSE 0]
        BY <1>1, <1>3 DEF StepRaises
    <3> QED BY <3>1 DEF Idle
  <2>2. th[e].pc = "raise" /\ (wf' = wf \/ wf' = [wf EXCEPT ![e].st = "error"])
      BY <1>3 DEF StepRaises
  <2> QED BY <1>1, <2>1, <2>2 DEF Going, Finishing, Workflow
<1>4. CASE ReceiveAnswer(e) \/ ReceiveControl(e)
    BY <1>4 DEF ReceiveAnswer, ReceiveControl, AtStep, volatile, Going, Finishing
<1> QED BY <1>2, <1>3, <1>4 DEF WorkflowStep

LEMMA CrashesOnce ==
    ASSUME TypeOK, [Next]_vars, fuel.crash <= Fuel.crash
    PROVE  /\ fuel'.crash <= Fuel.crash
           /\ fuel'.crash = Fuel.crash => Calm /\ ~Crash
<1>1. fuel \in [owner : Nat, crash : Nat, fault : Nat, press : Nat] /\ Fuel.crash \in Nat
    BY BoundsAssumption DEF TypeOK, EnvOK
<1>2. ASSUME NEW what \in {"owner", "fault", "press"}, Spend(what)
      PROVE  fuel'.crash = fuel.crash
    BY <1>1, <1>2 DEF Spend
<1>3. CASE Crash
  <2>1. Spend("crash")
      BY <1>3 DEF Crash
  <2>2. fuel'.crash = fuel.crash - 1 /\ fuel.crash > 0
      BY <1>1, <2>1 DEF Spend
  <2> QED BY <1>1, <2>2
<1>4. CASE fuel' = fuel \/ \E what \in {"owner", "fault", "press"} : Spend(what)
    BY <1>2, <1>4, <1>3 DEF Calm
<1>5. Crash \/ fuel' = fuel \/ \E what \in {"owner", "fault", "press"} : Spend(what)
  <2>1. ASSUME NEW t \in Threads, StoreCall(t)
        PROVE  fuel' = fuel
      BY <2>1 DEF StoreCall, DoRead, DoSave, RejectSave, DoAdd, DoMark, DoInterrupt, DoNotify,
         DoBlocker, DoClear, DoSend, DoSubmit, DoRestart, DoBind, env
  <2>2. ASSUME NEW e \in Execs, EngineStep(e)
        PROVE  fuel' = fuel \/ Spend("press")
      BY <2>2 DEF EngineStep, AdvanceStopped, AdvanceDependent, Advance, Admit, Admission,
         DecideTooLate, BrainUnavailable, BrainFails, BrainCompletes, BrainAsks, BrainActs,
         Leased, LeaseRefused, Executed, StepDone, StepAsks, StepFails, ApplyPlain,
         ApplySealed, FailBounded, Only, Pressed, env
  <2>3. ASSUME NEW e \in Execs, WorkflowStep(e)
        PROVE  fuel' = fuel
      BY SMTT(30), <2>3 DEF WorkflowStep, StepReturns, StepRaises, ReceiveAnswer, ReceiveControl, env
  <2>4. CASE MainStep \/ OwnerStep \/ BackendFault(Main) \/ UNCHANGED vars
      BY <2>4 DEF MainStep, CancelAgain, BootStart, BootLaunch, BootResubmit, BootInterrupted,
         OwnerStep, OwnerStart, OwnerPause, OwnerResume, OwnerCancel, OwnerRetry,
         OwnerReprioritize, OwnerAnswer, Commanded, BackendFault, Only, vars, env
  <2> QED BY <2>1, <2>2, <2>3, <2>4 DEF Next
<1> QED BY <1>3, <1>4, <1>5

\* An execution that is finishing does nothing else before its end.
LEMMA FinishingMoves ==
    ASSUME Sealing, [Next]_vars, ~Crash, NEW e \in Execs, wf[e].st = "live", Finishing(e)
    PROVE  Finishing(e)' \/ wf'[e].st # "live"
<1>1. TypeOK
    BY DEF Sealing, Pausing, Execution, Versions
<1>2. CASE WorkflowStep(e)
    BY <1>1, <1>2, OwnRowMoves DEF Going
<1>3. CASE ~WorkflowStep(e)
  <2>1. wf'[e] = wf[e]
      BY <1>3, LiveRowMoves
  <2>2. CASE th'[e] = th[e]
      BY <2>1, <2>2 DEF Finishing
  <2>3. CASE EngineStep(e)
      BY <2>3 DEF Finishing, EngineStep, AdvanceStopped, AdvanceDependent, Advance, Admit,
         DecideTooLate, BrainUnavailable, BrainFails, BrainCompletes, BrainAsks, BrainActs,
         Leased, LeaseRefused, Executed, StepDone, StepAsks, StepFails, ApplyPlain,
         ApplySealed, FailBounded, AtStep, Resumes, Continues, Decides
  <2>4. CASE StoreCall(e)
    <3>1. th[e] \in Thread /\ th[e].todo \in Seq(Call) /\ th[e].todo # <<>> /\ e \in Threads
        BY <2>4, CallBasics, ThreadFacts DEF Sealing, Pausing
    <3>2. Head(th[e].todo).op \in {"notify", "clear"}
        BY <3>1 DEF Finishing
    <3>3. DoNotify(e) \/ DoClear(e)
        BY <2>4, <3>2 DEF StoreCall, DoRead, DoSave, RejectSave, DoAdd, DoMark, DoInterrupt,
           DoBlocker, DoSend, DoSubmit, DoRestart, DoBind, Calls
    <3>4. Did(e, th[e])
        BY <3>3 DEF DoNotify, DoClear
    <3>5. th'[e].pc = "ret" /\ th'[e].todo = Tail(th[e].todo) /\ th'[e].held = th[e].held
        BY <1>1, <3>1, <3>4, DidMoves, ThreadFacts DEF Finishing
    <3>6. \A i \in DOMAIN Tail(th[e].todo) :
              i + 1 \in DOMAIN th[e].todo /\ Tail(th[e].todo)[i] = th[e].todo[i + 1]
        BY <3>1
    <3> QED BY <2>1, <3>5, <3>6 DEF Finishing
  <2> QED BY <1>1, <1>3, <2>2, <2>3, <2>4, NextMoves
<1> QED BY <1>2, <1>3

\* Nobody starts to go by a step of their own.
LEMMA GoingStays ==
    ASSUME Sealing, [Next]_vars, ~Crash, NEW e \in Execs, Going(e)',
           WorkflowStep(e) \/ wf'[e] = wf[e]
    PROVE  Going(e)
<1>1. TypeOK
    BY DEF Sealing, Pausing, Execution, Versions
<1>2. wf'[e].st = "live" /\ ~Finishing(e)'
    BY DEF Going
<1>3. CASE WorkflowStep(e)
    BY <1>1, <1>2, <1>3, OwnRowMoves
<1>4. CASE wf'[e] = wf[e]
    BY <1>1, <1>2, <1>4, FinishingMoves DEF Going
<1> QED BY <1>3, <1>4

\* Whoever is going was going, or is the one execution the main thread starts.
LEMMA GoingMoves ==
    ASSUME Sealing, [Next]_vars, ~Crash, th[Main].pc # "boot"
    PROVE  \/ \A e \in Execs : Going(e)' => Going(e)
           \/ /\ StoreCall(Main) /\ Head(th[Main].todo).op \in {"submit", "restart"}
              /\ \E g \in Execs : /\ g[1] = th[Main].w
                                  /\ \A e \in Execs : Going(e)' => Going(e) \/ e = g
<1>1. TypeOK
    BY DEF Sealing, Pausing, Execution, Versions
<1>2. ~BootResubmit
    BY DEF BootResubmit
<1>3. CASE /\ StoreCall(Main) /\ Head(th[Main].todo).op \in {"submit", "restart"}
           /\ \E g \in Execs : g[1] = th[Main].w /\ Submit(g)
  <2>1. PICK g \in Execs : g[1] = th[Main].w /\ Submit(g)
      BY <1>3
  <2>2. \A e \in Execs \ {g} : wf'[e] = wf[e]
      BY <1>1, <2>1 DEF Submit, TypeOK, DbosOK
  <2> QED BY <1>3, <2>1, <2>2, GoingStays
<1>4. CASE \A e \in Execs : WorkflowStep(e) \/ wf'[e] = wf[e]
    BY <1>4, GoingStays
<1> QED BY <1>2, <1>3, <1>4, RowMoves

-----------------------------------------------------------------------------
(* Threads that work are live, and fail their item last *)

LEMMA EngineIsLive ==
    ASSUME BusyIsLive, NEW e \in Execs, EngineStep(e)
    PROVE  wf[e].st = "live"
BY DEF BusyIsLive, EngineStep, AdvanceStopped, AdvanceDependent, Advance, Admit,
   DecideTooLate, BrainUnavailable, BrainFails, BrainCompletes, BrainAsks, BrainActs,
   Leased, LeaseRefused, Executed, StepDone, StepAsks, StepFails, ApplyPlain,
   ApplySealed, FailBounded, AtStep, Resumes, Continues, Decides

LEMMA BusyIsLiveNext ==
    ASSUME Sealing, BusyIsLive, [Next]_vars
    PROVE  BusyIsLive'
<1> SUFFICES ASSUME NEW e \in Execs, th'[e].pc # "idle"
             PROVE  wf'[e].st = "live"
    BY DEF BusyIsLive
<1>1. TypeOK
    BY DEF Sealing, Pausing, Execution, Versions
<1>2. ~WorkflowStep(e)
    BY <1>1, OwnRowMoves
<1>3. th'[e] = th[e] \/ StoreCall(e) \/ EngineStep(e)
    BY <1>1, NextMoves
<1>4. wf[e].st = "live"
    BY <1>3, EngineCallsOnly, EngineIsLive DEF BusyIsLive
<1> QED BY <1>2, <1>4, LiveRowMoves

\* Calls that fail no item.
FailFree == {o \in Call : ~Fails(o)}

LEMMA FailFreeCalls ==
    /\ {Read, Notify, Clear, Blocker, Touch("none"), Touch("keep"), Touch("own"),
        Move("running", "none"), Move("waiting_dependency", "none"),
        Move("paused", "keep"), Move("waiting_resource", "keep"),
        Move("waiting_resource", "none"), Move("waiting_resource", "own"),
        Move("retrying", "own"), Move("completed", "none"),
        Move("waiting_for_owner", "none"), Move("waiting_for_owner", "own")} \subseteq FailFree
    /\ \A k \in StepKinds : Add(k) \in FailFree
    /\ \A st \in StepStates, obs \in Observed : Mark(st, obs) \in FailFree
<1>1. \A to \in WorkStates, s \in {"none", "keep", "own"} :
          to # "failed" => Move(to, s) \in FailFree
    BY CallTypes DEF Move, Op, FailFree, Fails
<1>2. {"running", "waiting_dependency", "paused", "waiting_resource", "retrying",
       "completed", "waiting_for_owner"} \subseteq WorkStates
    BY DEF WorkStates, Waiting, Terminal
<1>3. {Read, Notify, Clear, Blocker, Touch("none"), Touch("keep"), Touch("own")} \subseteq FailFree
  <2>1. {Read, Notify, Clear, Blocker, Touch("none"), Touch("keep"), Touch("own")} \subseteq Call
      BY CallTypes
  <2>2. \A o \in {Read, Notify, Clear, Blocker, Touch("none"), Touch("keep"), Touch("own")} :
            o.op \in {"read", "notify", "clear", "blocker", "touch"}
      BY CallOps
  <2> QED BY <2>1, <2>2 DEF FailFree, Fails
<1>4. \A k \in StepKinds : Add(k) \in FailFree
    BY CallTypes DEF Add, Op, FailFree, Fails
<1>5. \A st \in StepStates, obs \in Observed : Mark(st, obs) \in FailFree
    BY CallTypes DEF Mark, Op, FailFree, Fails
<1> QED BY <1>1, <1>2, <1>3, <1>4, <1>5

\* A segment of the engine that fails the item leaves nothing else to do.
LEMMA ScriptFails ==
    ASSUME NEW pc, NEW q, Script(pc, q)
    PROVE  q \in Seq(FailFree) \/ (pc = "ret" /\ q \in Failing)
<1>1. /\ {"", "ask", "ask_secret"} \subseteq Observed /\ Answers \subseteq Observed
      /\ {"note", "owner_input", "pressure", "work"} \subseteq StepKinds
      /\ {"failed", "completed", "running"} \subseteq StepStates
    BY DEF Observed, StepKinds, StepStates
<1>2. CASE q \in Asking
  <2>1. /\ <<Move("waiting_for_owner", "none"), Notify>> \in Seq(FailFree)
        /\ <<Move("waiting_for_owner", "own"), Notify>> \in Seq(FailFree)
      BY FailFreeCalls, ShortSeqs
  <2> QED BY <1>2, <2>1 DEF Asking
<1>3. CASE q \in Learning
  <2>1. Waits \in Seq(FailFree) /\ WaitsBlocked \in Seq(FailFree)
      BY <1>1, FailFreeCalls, ShortSeqs DEF Waits, WaitsBlocked
  <2>2. /\ <<Move("completed", "none"), Clear, Notify>> \in Seq(FailFree)
        /\ <<Add("note"), Mark("completed", ""), Read, Touch("none")>> \in Seq(FailFree)
        /\ <<Move("running", "none"), Read, Move("paused", "keep")>> \in Seq(FailFree)
      BY <1>1, FailFreeCalls, ShortSeqs
  <2>3. \A text \in Answers :
            <<Add("owner_input"), Mark("completed", text), Move("running", "none")>> \in Seq(FailFree)
      BY <1>1, FailFreeCalls, ShortSeqs
  <2> QED BY <1>3, <2>1, <2>2, <2>3 DEF Learning
<1>4. CASE \E o \in Closing : q = <<o>>
  <2>1. Closing \subseteq FailFree
      BY FailFreeCalls DEF Closing
  <2> QED BY <1>4, <2>1, ShortSeqs
<1>5. CASE \/ q = <<>> \/ q = <<Move("running", "none")>>
           \/ q = <<Move("running", "none"), Read>>
           \/ q = <<Add("note"), Mark("failed", ""), Read>>
           \/ q = <<Move("waiting_resource", "none")>>
  <2>1. /\ <<>> \in Seq(FailFree) /\ <<Move("running", "none")>> \in Seq(FailFree)
        /\ <<Move("running", "none"), Read>> \in Seq(FailFree)
        /\ <<Add("note"), Mark("failed", ""), Read>> \in Seq(FailFree)
        /\ <<Move("waiting_resource", "none")>> \in Seq(FailFree)
      BY <1>1, FailFreeCalls, ShortSeqs
  <2> QED BY <1>5, <2>1
<1>6. CASE \E st \in {"completed", "failed"}, obs \in {"", "ask", "ask_secret"} :
              q = <<Mark(st, obs), Read>>
  <2>1. \A st \in {"completed", "failed"}, obs \in Observed :
            <<Mark(st, obs), Read>> \in Seq(FailFree)
      BY <1>1, FailFreeCalls, ShortSeqs
  <2> QED BY <1>1, <1>6, <2>1
<1>7. CASE q = Start
  <2>1. <<Move("running", "none"), Add("work"), Mark("running", ""), Touch("own")>> \in Seq(FailFree)
      BY <1>1, FailFreeCalls, ShortSeqs
  <2> QED BY <1>7, <2>1 DEF Start
<1> QED BY <1>2, <1>3, <1>4, <1>5, <1>6, <1>7 DEF Script

\* The list of a failing segment, call by call.
LEMMA FailingTails ==
    ASSUME NEW q \in Failing, Fails(Head(q)) \/ \E i \in DOMAIN Tail(q) : Fails(Tail(q)[i])
    PROVE  /\ ~Fails(Head(q)) => Tail(q) \in Failing
           /\ Fails(Head(q)) => \A i \in DOMAIN Tail(q) : Tail(q)[i].op \in {"notify", "clear"}
<1>1. /\ Fails(Move("failed", "none")) /\ Fails(Move("failed", "own"))
      /\ Fails(Move("failed", "keep")) /\ ~Fails(Move("running", "none"))
    BY DEF Move, Op, Fails
<1>2. \A a, b, c : /\ Head(<<a, b>>) = a /\ Tail(<<a, b>>) = <<b>>
                   /\ Head(<<a, b, c>>) = a /\ Tail(<<a, b, c>>) = <<b, c>>
    OBVIOUS
<1>3. /\ \A i \in DOMAIN <<Notify>> : <<Notify>>[i].op \in {"notify", "clear"}
      /\ \A i \in DOMAIN <<Clear, Notify>> : <<Clear, Notify>>[i].op \in {"notify", "clear"}
    BY CallOps
<1>4. CASE q \in {<<Move("failed", "none"), Notify>>, <<Move("failed", "own"), Notify>>}
  <2>1. Head(q) \in {Move("failed", "none"), Move("failed", "own")} /\ Tail(q) = <<Notify>>
      BY <1>2, <1>4
  <2> QED BY <1>1, <1>3, <2>1
<1>5. CASE q = <<Move("failed", "keep"), Clear, Notify>>
  <2>1. Head(q) = Move("failed", "keep") /\ Tail(q) = <<Clear, Notify>>
      BY <1>2, <1>5
  <2> QED BY <1>1, <1>3, <2>1
<1>6. CASE q = <<Move("running", "none"), Move("failed", "none"), Notify>>
    BY <1>1, <1>2, <1>6 DEF Failing
<1> QED BY <1>4, <1>5, <1>6 DEF Failing

\* An answer fails no item.
LEMMA AnswersFailNothing ==
    ASSUME TypeOK, NEW e \in Execs, Placed(e), EngineStep(e), wf[e].at = "apply"
    PROVE  th'[e].todo \in Seq(FailFree)
<1>1. e \in Threads /\ e # Main /\ <<>> \in Seq(FailFree)
    BY ThreadFacts, ShortSeqs
<1>2. ApplyPlain(e) \/ ApplySealed(e)
    BY DEF Placed, Inside, EngineStep, AdvanceStopped, AdvanceDependent, Advance, Admit,
       DecideTooLate, BrainUnavailable, BrainFails, BrainCompletes, BrainAsks, BrainActs,
       Leased, LeaseRefused, Executed, StepDone, StepAsks, StepFails, FailBounded,
       AtStep, Resumes, Continues, Decides
<1>3. CASE Raise(e)
    BY <1>1, <1>3, RaiseMoves
<1>4. ASSUME NEW held, NEW pc, NEW calls \in Seq(FailFree), Segment(e, held, pc, calls)
      PROVE  th'[e].todo \in Seq(FailFree)
    BY <1>1, <1>4, SegmentMoves
<1>5. CASE ApplyPlain(e)
  <2>1. \A text \in Answers :
            <<Add("owner_input"), Mark("completed", text), Move("running", "none")>> \in Seq(FailFree)
    <3>1. "owner_input" \in StepKinds /\ "completed" \in StepStates /\ Answers \subseteq Observed
        BY DEF StepKinds, StepStates, Observed
    <3> QED BY <3>1, FailFreeCalls, ShortSeqs
  <2>2. wf[e].msg \in Message
      BY DEF TypeOK, DbosOK
  <2>3. <<Add("owner_input"), Mark("completed", wf[e].msg.text), Move("running", "none")>> \in Seq(FailFree)
      BY <2>1, <2>2 DEF Message
  <2> QED BY <1>1, <1>3, <1>4, <1>5, <2>3 DEF ApplyPlain, Only
<1>6. CASE ApplySealed(e)
    BY <1>1, <1>3, <1>4, <1>6 DEF ApplySealed
<1> QED BY <1>2, <1>5, <1>6

LEMMA FailsLastNext ==
    ASSUME Sealing, FailsLast, [Next]_vars
    PROVE  FailsLast'
<1> SUFFICES ASSUME NEW e \in Execs, NEW i \in DOMAIN th'[e].todo, Fails(th'[e].todo[i])
             PROVE  th'[e].pc = "ret" /\ wf'[e].at # "apply" /\ th'[e].todo \in Failing
    BY DEF FailsLast
<1>1. TypeOK /\ Placed(e)
    BY DEF Sealing, Pausing, Execution, Versions
<1>2. th'[e].todo \notin Seq(FailFree)
    BY DEF FailFree
<1>3. CASE th'[e] = th[e]
  <2>1. th[e].pc = "ret" /\ wf[e].at # "apply" /\ th[e].todo \in Failing
      BY <1>3 DEF FailsLast
  <2> QED BY <1>1, <1>3, <2>1, PointsStay
<1>4. CASE EngineStep(e)
  <2>1. Follows(e) /\ wf' = wf
      BY <1>1, <1>4, EngineFollows, EngineRuns
  <2>2. th'[e].pc = "ret" /\ th'[e].todo \in Failing
      BY <1>2, <2>1, ScriptFails DEF Follows
  <2> QED BY <1>1, <1>2, <1>4, <2>1, <2>2, AnswersFailNothing
<1>5. CASE StoreCall(e)
  <2>1. e \in Threads /\ e # Main /\ th[e].todo \in Seq(Call) /\ th[e].todo # <<>>
      BY <1>5, CallBasics, ThreadFacts DEF Sealing, Pausing
  <2>2. th'[e].todo = Tail(th[e].todo) /\ th'[e].pc = th[e].pc /\ wf'[e].at = wf[e].at
      BY <1>1, <1>5, <2>1, CallMoves, StoreCallWf
  <2>3. i + 1 \in DOMAIN th[e].todo /\ th[e].todo[i + 1] = Tail(th[e].todo)[i]
      BY <2>1, <2>2
  <2>4. th[e].pc = "ret" /\ wf[e].at # "apply" /\ th[e].todo \in Failing
      BY <2>2, <2>3 DEF FailsLast
  <2>5. ~Fails(Head(th[e].todo))
      BY <2>2, <2>4, FailingTails DEF Fails
  <2>6. Tail(th[e].todo) \in Failing
      BY <2>2, <2>4, <2>5, FailingTails
  <2> QED BY <2>2, <2>4, <2>6
<1>6. th'[e].todo # <<>>
    OBVIOUS
<1> QED BY <1>1, <1>3, <1>4, <1>5, <1>6, NextMoves

\* An execution that fails its item is finishing.
LEMMA FailerFinishes ==
    ASSUME Sealing, BusyIsLive, FailsLast, NEW e \in Execs, DoSave(e), Fails(Head(th[e].todo))
    PROVE  Going(e) /\ Finishing(e)'
<1>1. TypeOK /\ StoreCall(e)
    BY DEF Sealing, Pausing, Execution, Versions, StoreCall
<1>2. e \in Threads /\ e # Main /\ th[e] \in Thread /\ th[e].todo \in Seq(Call) /\ th[e].todo # <<>>
    BY <1>1, CallBasics, ThreadFacts DEF Sealing, Pausing
<1>3. 1 \in DOMAIN th[e].todo /\ th[e].todo[1] = Head(th[e].todo)
    BY <1>2
<1>4. th[e].pc = "ret" /\ wf[e].at # "apply" /\ th[e].todo \in Failing
    BY <1>3 DEF FailsLast
<1>5. Going(e)
    BY <1>3, <1>4 DEF Going, Finishing, BusyIsLive, Fails
<1> DEFINE new == NewRecord(th[e], Head(th[e].todo))
           me  == [th[e] EXCEPT !.held = new]
<1>6. new.state = "failed"
  <2>1. new = Transition(th[e].held, "failed", StepArg(th[e], Head(th[e].todo).b))
      BY DEF NewRecord, Fails
  <2> HIDE DEF new
  <2> QED BY <2>1 DEF Transition
<1>7. Did(e, me) /\ me.held = new /\ me.pc = th[e].pc /\ me.w = th[e].w /\ me.todo = th[e].todo
    BY <1>2 DEF DoSave, Thread
<1>8. me \in Thread
  <2>1. new \in Item
      BY <1>2, <1>3, NewRecordOK DEF DoSave, Fails
  <2> QED BY <1>2, <2>1 DEF Thread
<1> HIDE DEF new, me
<1>9. th'[e].pc = "ret" /\ th'[e].todo = Tail(th[e].todo) /\ th'[e].held = new
    BY <1>1, <1>2, <1>4, <1>7, <1>8, DidMoves
<1>10. \A i \in DOMAIN Tail(th[e].todo) : Tail(th[e].todo)[i].op \in {"notify", "clear"}
    BY <1>4, FailingTails
<1>11. wf'[e].at = wf[e].at
    BY <1>1, <1>2, StoreCallWf
<1> QED BY <1>4, <1>5, <1>6, <1>9, <1>10, <1>11 DEF Finishing

-----------------------------------------------------------------------------
(* The main thread, until the first crash *)

\* Once the process is up, the main thread moves by a call, a command of the
\* owner, or the refusal of a call.
LEMMA MainActs ==
    ASSUME TypeOK, up = "up", th[Main].pc # "boot", ~Crash, [Next]_vars
    PROVE  /\ up' = "up"
           /\ \/ th'[Main] = th[Main]
              \/ StoreCall(Main) \/ OwnerStep \/ CancelAgain \/ BackendFault(Main)
<1>1. Main \in Threads
    BY ThreadFacts
<1>2. ASSUME NEW t \in Threads, StoreCall(t)
      PROVE  up' = up /\ (t # Main => th'[Main] = th[Main])
    BY <1>1, <1>2, StoreCallRuns, StoreCallMoves DEF OthersKeep
<1>3. ASSUME NEW e \in Execs, EngineStep(e)
      PROVE  up' = up /\ th'[Main] = th[Main]
  <2>1. up' = up
      BY <1>3 DEF EngineStep, AdvanceStopped, AdvanceDependent, Advance, Admit, Admission,
         DecideTooLate, BrainUnavailable, BrainFails, BrainCompletes, BrainAsks, BrainActs,
         Leased, LeaseRefused, Executed, StepDone, StepAsks, StepFails, ApplyPlain,
         ApplySealed, FailBounded, Only, Pressed, env
  <2> QED BY <1>1, <1>3, <2>1, EngineMoves, ThreadFacts
<1>4. ASSUME NEW e \in Execs, WorkflowStep(e)
      PROVE  up' = up /\ th'[Main] = th[Main]
  <2>1. e # Main /\ th \in [Threads -> Thread]
      BY ThreadFacts DEF TypeOK, ThreadsOK
  <2> QED BY <1>1, <1>4, <2>1 DEF WorkflowStep, StepReturns, StepRaises, ReceiveAnswer,
             ReceiveControl, volatile, env
<1>5. OwnerStep \/ CancelAgain \/ BackendFault(Main) => up' = up
    BY DEF OwnerStep, OwnerStart, OwnerPause, OwnerResume, OwnerCancel, OwnerRetry,
       OwnerReprioritize, OwnerAnswer, CancelAgain, BackendFault, Only, env
<1>6. MainStep => CancelAgain
    BY DEF MainStep, BootStart, BootLaunch, BootResubmit, BootInterrupted, AtBoot
<1>7. UNCHANGED vars => up' = up /\ th'[Main] = th[Main]
    BY DEF vars
<1> QED BY <1>2, <1>3, <1>4, <1>5, <1>6, <1>7 DEF Next

LEMMA CommandMoves ==
    ASSUME TypeOK, NEW w, NEW held, NEW pc, NEW calls, Command(w, held, pc, calls)
    PROVE  \/ th'[Main] = Idle(Owner)
           \/ /\ th'[Main].w = w /\ th'[Main].pc = pc /\ th'[Main].todo = calls
              /\ th'[Main].held = held
<1> DEFINE rec == [Idle(w) EXCEPT !.pc = pc, !.held = held, !.todo = calls]
<1>1. rec.todo = calls /\ rec.held = held /\ rec.pc = pc /\ rec.w = w
    BY DEF Idle
<1>2. Run(Main, rec)
    BY DEF Command
<1> HIDE DEF rec
<1> QED BY <1>1, <1>2, RunMoves, ThreadFacts

\* Calls that neither start an execution nor fail an item.
StartFree == {o \in Call : ~Starts(o)}

LEMMA StartFreeLists ==
    /\ <<>> \in Seq(StartFree) /\ <<Bind>> \in Seq(StartFree) /\ <<Notify>> \in Seq(StartFree)
    /\ <<Clear>> \in Seq(StartFree) /\ <<Touch("keep")>> \in Seq(StartFree)
    /\ <<Send("cancel")>> \in Seq(StartFree) /\ <<Move("paused", "keep")>> \in Seq(StartFree)
    /\ <<Read, Move("paused", "keep")>> \in Seq(StartFree)
    /\ <<Move("cancelled", "keep"), Clear>> \in Seq(StartFree)
    /\ \A it \in Item : <<Move(ResumeTarget(it), "keep"), Send("resume")>> \in Seq(StartFree)
<1>1. {"paused", "cancelled"} \subseteq WorkStates
      /\ \A it \in Item : ResumeTarget(it) \in WorkStates \ {"failed"}
    BY DEF WorkStates, Waiting, Terminal, ResumeTarget, Item
<1>2. \A to \in WorkStates \ {"failed"} : Move(to, "keep") \in StartFree
    BY CallTypes DEF Move, Op, StartFree, Starts, Fails
<1>3. {Read, Bind, Notify, Clear, Touch("keep")} \subseteq StartFree
  <2>1. Bind.op = "bind"
      BY DEF Bind, Op
  <2>2. \A o \in {Read, Bind, Notify, Clear, Touch("keep")} :
            o.op \in {"read", "bind", "notify", "clear", "touch"}
      BY <2>1, CallOps
  <2>3. {Read, Bind, Notify, Clear, Touch("keep")} \subseteq Call
      BY CallTypes
  <2> QED BY <2>2, <2>3 DEF StartFree, Starts, Fails
<1>4. \A c \in {"resume", "cancel"} : Send(c) \in StartFree
    BY CallTypes DEF Send, Op, StartFree, Starts, Fails
<1>5. \A it \in Item : Move(ResumeTarget(it), "keep") \in StartFree
    BY <1>1, <1>2
<1>6. Send("cancel") \in StartFree /\ Send("resume") \in StartFree
    BY <1>4
<1>7. Move("paused", "keep") \in StartFree /\ Move("cancelled", "keep") \in StartFree
    BY <1>1, <1>2
<1> QED BY <1>3, <1>5, <1>6, <1>7, ShortSeqs

\* The owner has an execution started by start and by retry only, of an item that
\* is not there and of one that failed.
LEMMA OwnerStarts ==
    ASSUME TypeOK, OwnerStep
    PROVE  \/ th'[Main] = th[Main]
           \/ th'[Main].pc # "boot" /\ th'[Main].todo \in Seq(StartFree)
           \/ /\ th'[Main].pc # "boot" /\ th'[Main].w \in Works
              /\ th'[Main].todo = <<Launch>> /\ ~Exists(item[th'[Main].w])
              /\ item'[th'[Main].w].state = "queued"
           \/ /\ th'[Main].pc # "boot" /\ th'[Main].w \in Works
              /\ th'[Main].todo = Again /\ item[th'[Main].w].state = "failed"
<1>1. PICK w \in Works :
          \/ OwnerStart(w) \/ OwnerPause(w) \/ OwnerResume(w) \/ OwnerCancel(w)
          \/ OwnerRetry(w) \/ OwnerReprioritize(w) \/ OwnerAnswer(w)
    BY DEF OwnerStep
<1>2. Idle(Owner).pc # "boot" /\ Idle(Owner).todo \in Seq(StartFree)
    BY IdleIsFree, StartFreeLists
<1>3. ASSUME NEW held, NEW pc \in {"idle", "cancel"}, NEW calls \in Seq(StartFree),
             Command(w, held, pc, calls)
      PROVE  th'[Main].pc # "boot" /\ th'[Main].todo \in Seq(StartFree)
    BY <1>2, <1>3, CommandMoves
<1>4. CASE OwnerStart(w)
  <2>1. Command(w, NewItem, "idle", <<Launch>>) /\ ~Exists(item[w])
        /\ item' = [item EXCEPT ![w] = NewItem]
      BY <1>4 DEF OwnerStart, PutItem
  <2>2. item'[w].state = "queued"
      BY <2>1 DEF TypeOK, StoreOK, NewItem
  <2> QED BY <1>2, <2>1, <2>2, CommandMoves
<1>5. CASE OwnerRetry(w)
  <2>1. Command(w, item[w], "idle", Again) /\ item[w].state = "failed"
      BY <1>5 DEF OwnerRetry, Again
  <2> QED BY <1>2, <2>1, CommandMoves
<1>6. CASE OwnerAnswer(w)
    BY <1>6 DEF OwnerAnswer, volatile
<1>7. CASE OwnerResume(w)
  <2>1. item[w] \in Item
      BY DEF TypeOK, StoreOK
  <2> QED BY <1>3, <1>7, <2>1, StartFreeLists DEF OwnerResume
<1>8. CASE OwnerPause(w) \/ OwnerCancel(w) \/ OwnerReprioritize(w)
    BY <1>3, <1>8, StartFreeLists DEF OwnerPause, OwnerCancel, OwnerReprioritize
<1> QED BY <1>1, <1>4, <1>5, <1>6, <1>7, <1>8

LEMMA AgainCalls ==
    /\ Tail(Tail(Again)) = <<Move("retrying", "none"), Restart, Bind>>
    /\ Head(Again).op = "add" /\ Head(Tail(Again)).op = "mark"
    /\ Tail(Tail(Tail(Again))) = <<Restart, Bind>>
    /\ Head(Tail(Tail(Again))) = Move("retrying", "none")
<1> DEFINE a == Add("note")
           b == Mark("completed", "")
           c == Move("retrying", "none")
<1>1. a.op = "add" /\ b.op = "mark"
    BY DEF Add, Mark, Op
<1>2. {a, b, c, Restart, Bind} \subseteq Call
    BY CallTypes DEF WorkStates, StepKinds, StepStates, Observed
<1>3. Again = <<a, b, c, Restart, Bind>>
    BY DEF Again
<1> HIDE DEF a, b, c
<1>4. Tail(<<a, b, c, Restart, Bind>>) = <<b, c, Restart, Bind>>
      /\ Head(<<a, b, c, Restart, Bind>>) = a
    BY <1>2
<1>5. /\ Tail(<<b, c, Restart, Bind>>) = <<c, Restart, Bind>>
      /\ Head(<<b, c, Restart, Bind>>) = b
      /\ Tail(<<c, Restart, Bind>>) = <<Restart, Bind>> /\ Head(<<c, Restart, Bind>>) = c
    BY <1>2, Peel
<1> QED BY <1>1, <1>3, <1>4, <1>5 DEF a, b, c

\* While the main thread is about to start an execution, the item stays as it is.
LEMMA ItemStays ==
    ASSUME Sealing, BusyIsLive, [Next]_vars, ~StoreCall(Main), NEW w \in Works, NobodyFor(w),
           item[w].state \in {"queued", "retrying"}
    PROVE  item'[w].state = item[w].state
<1> SUFFICES ASSUME item'[w].state # item[w].state
             PROVE  FALSE
    OBVIOUS
<1>1. Versions /\ TypeOK
    BY DEF Sealing, Pausing, Execution, Versions
<1>2. PICK t \in Threads : DoSave(t) /\ th[t].w = w
    BY <1>1, StateChanges DEF SavesAs
<1>3. StoreCall(t) /\ t # Main
    BY <1>2 DEF StoreCall
<1>4. t \in Execs /\ t[1] = w
    BY <1>1, <1>2, <1>3, ThreadFacts, ExecOK
<1>5. Finishing(t)
    BY <1>3, <1>4, EngineCallsOnly DEF NobodyFor, Going, BusyIsLive
<1>6. th[t].todo \in Seq(Call) /\ th[t].todo # <<>>
    BY <1>3, CallBasics DEF Sealing, Pausing
<1>7. Head(th[t].todo).op \in {"notify", "clear"}
    BY <1>5, <1>6 DEF Finishing
<1> QED BY <1>2, <1>7 DEF DoSave, Calls

LEMMA StartsInTail ==
    ASSUME NEW q \in Seq(Call), q # <<>>, NEW i \in DOMAIN Tail(q), Starts(Tail(q)[i])
    PROVE  \E j \in DOMAIN q : Starts(q[j])
<1>1. i + 1 \in DOMAIN q /\ Tail(q)[i] = q[i + 1]
    OBVIOUS
<1> QED BY <1>1

\* A call brings the main thread nearer to the start it prepares.
LEMMA CallsPrepare ==
    ASSUME Driven, Undisturbed, ~Crash, [Next]_vars, StoreCall(Main)
    PROVE  th'[Main].pc # "boot" /\ StartsAlone'
<1> DEFINE me == th[Main]
           q  == th[Main].todo
<1>1. TypeOK /\ Sealing
    BY DEF Driven, Sealing, Pausing, Execution, Versions
<1>2. q \in Seq(Call) /\ q # <<>> /\ me.w \in Works /\ me \in Thread /\ Main \in Threads
    BY <1>1, CallBasics, ThreadFacts DEF Sealing, Pausing
<1>3. CASE th'[Main].todo = <<>> /\ th'[Main].pc # "boot"
    BY SMTT(30), <1>3 DEF StartsAlone
<1>4. CASE /\ th'[Main].todo = Tail(q) /\ th'[Main].pc = me.pc
           /\ th'[Main].w = me.w /\ ~RejectSave(Main)
  <2>1. me.pc # "boot"
      BY DEF Undisturbed
  <2> SUFFICES ASSUME NEW i \in DOMAIN Tail(q), Starts(Tail(q)[i])
               PROVE  Prepared(th[Main])'
      BY <1>4, <2>1 DEF StartsAlone
  <2>2. Prepared(me)
      BY <1>2, StartsInTail DEF Undisturbed, StartsAlone
  <2>3. Head(q).op \notin {"submit", "restart"} => NobodyFor(th[Main].w)'
      BY <1>1, <1>4, <2>1, <2>2, GoingMoves DEF Prepared, NobodyFor
  <2>4. /\ ~Starts(Bind) /\ ~Starts(Notify)
        /\ Move("failed", "keep").op = "move" /\ Move("failed", "none").op = "move"
        /\ Move("retrying", "none").op = "move" /\ Move("retrying", "none").a = "retrying"
        /\ Read.op = "read"
      BY CallOps DEF Bind, Op, Starts, Fails
  <2>5. q # <<Launch>> /\ q # <<Restart, Bind>> /\ q # <<Move("failed", "none"), Notify>>
        /\ q # <<Move("failed", "keep"), Notify>>
    <3>1. /\ \A a : Tail(<<a>>) = <<>>
          /\ \A a, b : Tail(<<a, b>>) = <<b>>
        OBVIOUS
    <3>2. \A b : DOMAIN <<b>> = {1} /\ <<b>>[1] = b
        OBVIOUS
    <3>3. Tail(q) # <<>> /\ Tail(q) # <<Bind>> /\ Tail(q) # <<Notify>>
      <4>1. /\ Tail(q) = <<Bind>> => Tail(q)[i] = Bind
            /\ Tail(q) = <<Notify>> => Tail(q)[i] = Notify
          BY <3>2
      <4>2. Tail(q) # <<>>
          OBVIOUS
      <4> QED BY <2>4, <4>1, <4>2
    <3>4. q # <<Launch>> /\ q # <<Restart, Bind>>
        BY <3>1, <3>3
    <3>5. /\ Tail(<<Move("failed", "none"), Notify>>) = <<Notify>>
          /\ Tail(<<Move("failed", "keep"), Notify>>) = <<Notify>>
        BY <3>1
    <3> QED BY <3>3, <3>4, <3>5
  <2>6. CASE q = <<Read, Move("failed", "keep"), Notify>>
    <3>1. Head(q) = Read /\ Tail(q) = <<Move("failed", "keep"), Notify>>
        BY <2>6
    <3> QED BY <1>4, <2>3, <2>4, <3>1 DEF Prepared
  <2>7. CASE q \in {Again, Tail(Again)}
    <3>1. Head(q).op \in {"add", "mark"} /\ Tail(q) \in {Tail(Again), Tail(Tail(Again))}
        BY <2>7, AgainCalls
    <3> QED BY <1>4, <2>3, <3>1 DEF Prepared
  <2>8. CASE q = Tail(Tail(Again))
    <3>1. Head(q) = Move("retrying", "none") /\ Tail(q) = <<Restart, Bind>>
        BY <2>8, AgainCalls
    <3>2. DoSave(Main)
        BY <1>4, <2>4, <3>1 DEF StoreCall, DoRead, DoAdd, DoMark, DoInterrupt, DoNotify,
           DoBlocker, DoClear, DoSend, DoSubmit, DoRestart, DoBind, Calls
    <3>3. item' = [item EXCEPT ![me.w] = NewRecord(me, Head(q))]
        BY <3>2 DEF DoSave, PutItem
    <3>4. NewRecord(me, Head(q)) = Transition(me.held, "retrying", StepArg(me, Head(q).b))
        BY <2>4, <3>1 DEF NewRecord
    <3>5. NewRecord(me, Head(q)).state = "retrying"
        BY <3>4 DEF Transition
    <3>6. item'[me.w].state = "retrying"
        BY <1>1, <1>2, <3>3, <3>5 DEF TypeOK, StoreOK
    <3> QED BY <1>4, <2>3, <2>4, <3>1, <3>6 DEF Prepared
  <2> QED BY <2>2, <2>5, <2>6, <2>7, <2>8 DEF Prepared
<1> QED BY <1>1, <1>2, <1>3, <1>4, CallMoves, IdleIsFree

\* Nothing comes between the owner's command and the start it prepares.
LEMMA StartsAloneNext ==
    ASSUME Driven, Undisturbed, ~Crash, [Next]_vars
    PROVE  up' = "up" /\ th'[Main].pc # "boot" /\ StartsAlone'
<1> DEFINE me == th[Main]
           q  == th[Main].todo
<1>1. TypeOK /\ Sealing /\ BusyIsLive /\ me.pc # "boot" /\ up = "up" /\ Main \in Threads
    BY ThreadFacts DEF Driven, Undisturbed, Sealing, Pausing, Execution, Versions
<1>2. up' = "up" /\ (th'[Main] = me \/ StoreCall(Main) \/ OwnerStep \/ CancelAgain
                     \/ BackendFault(Main))
    BY <1>1, MainActs
<1>3. ASSUME th'[Main].todo \in Seq(StartFree)
      PROVE  StartsAlone'
    BY <1>3 DEF StartsAlone, StartFree
<1>4. CASE StoreCall(Main)
    BY <1>2, <1>4, CallsPrepare
<1>5. ASSUME ~StoreCall(Main), NEW w, NobodyFor(w)
      PROVE  NobodyFor(w)'
    BY <1>1, <1>5, GoingMoves DEF NobodyFor
<1>6. CASE th'[Main] = me /\ ~StoreCall(Main)
  <2> SUFFICES ASSUME \E i \in DOMAIN q : Starts(q[i])
               PROVE  Prepared(th[Main])'
      BY <1>1, <1>2, <1>6 DEF StartsAlone
  <2>1. Prepared(me)
      BY DEF Undisturbed, StartsAlone
  <2>2. NobodyFor(th[Main].w)'
      BY <1>5, <1>6, <2>1 DEF Prepared, NobodyFor
  <2>3. me.w \in Works
      BY <1>1, CallFacts DEF TypeOK
  <2>4. item[me.w].state \in {"queued", "retrying"} => item'[me.w].state = item[me.w].state
      BY <1>1, <1>6, <2>1, <2>3, ItemStays DEF Prepared
  <2> QED BY <1>6, <2>1, <2>2, <2>4 DEF Prepared
<1>7. CASE OwnerStep /\ ~StoreCall(Main) /\ th'[Main] # me
  <2>1. CASE th'[Main].pc # "boot" /\ th'[Main].todo \in Seq(StartFree)
      BY <1>2, <1>3, <2>1
  <2>2. CASE /\ th'[Main].pc # "boot" /\ th'[Main].w \in Works
             /\ th'[Main].todo = <<Launch>> /\ ~Exists(item[th'[Main].w])
             /\ item'[th'[Main].w].state = "queued"
    <3>1. NobodyFor(th'[Main].w)
        BY <2>2 DEF Undisturbed, NobodyForFailed, Exists
    <3>2. NobodyFor(th[Main].w)'
        BY <1>5, <1>7, <3>1 DEF NobodyFor
    <3> QED BY <1>2, <2>2, <3>2 DEF StartsAlone, Prepared
  <2>3. CASE /\ th'[Main].pc # "boot" /\ th'[Main].w \in Works
             /\ th'[Main].todo = Again /\ item[th'[Main].w].state = "failed"
    <3>1. NobodyFor(th'[Main].w)
        BY <2>3 DEF Undisturbed, NobodyForFailed
    <3>2. NobodyFor(th[Main].w)'
        BY <1>5, <1>7, <3>1 DEF NobodyFor
    <3> QED BY <1>2, <2>3, <3>2 DEF StartsAlone, Prepared
  <2> QED BY <1>1, <1>7, <2>1, <2>2, <2>3, OwnerStarts
<1>8. CASE CancelAgain
  <2>1. ASSUME NEW held, NEW pc \in {"idle", "cancelled"}, NEW calls \in Seq(StartFree),
               Segment(Main, held, pc, calls)
        PROVE  th'[Main].pc # "boot" /\ th'[Main].todo \in Seq(StartFree)
    <3>1. (th'[Main].pc = pc /\ th'[Main].todo = calls) \/ th'[Main] = Idle(Owner)
        BY <1>1, <2>1, SegmentMoves
    <3> QED BY <3>1, IdleIsFree, StartFreeLists
  <2>2. \E held : \/ Segment(Main, held, "idle", <<Clear>>)
                  \/ Segment(Main, held, "cancelled", <<Move("cancelled", "keep"), Clear>>)
      BY <1>8 DEF CancelAgain, Only
  <2>3. th'[Main].pc # "boot" /\ th'[Main].todo \in Seq(StartFree)
      BY <2>1, <2>2, StartFreeLists
  <2> QED BY <1>2, <1>3, <2>3
<1>9. CASE BackendFault(Main)
  <2> DEFINE o   == Head(q)
             rec == [me EXCEPT !.pc = "idle", !.todo = OnFault(o.op, o.a)]
  <2>1. Run(Main, rec) /\ q # <<>> /\ o.op \in {"submit", "restart", "send"} /\ wf' = wf
      BY <1>9 DEF BackendFault, Calls, dbosVars
  <2>2. me \in Thread /\ q \in Seq(Call)
      BY <1>1, <2>1, CallFacts DEF TypeOK, Thread
  <2>3. rec.pc = "idle" /\ rec.todo = OnFault(o.op, o.a) /\ rec.w = me.w
      BY <2>2 DEF Thread
  <2> HIDE DEF rec
  <2>4. th'[Main] = rec \/ th'[Main] = Idle(Owner)
      BY <1>1, <2>1, RunMoves
  <2>5. th'[Main].pc # "boot"
      BY <2>3, <2>4, IdleIsFree
  <2>6. CASE th'[Main] = Idle(Owner) \/ o.op = "send"
    <3>1. o.op = "send" => OnFault(o.op, o.a) \in Seq(StartFree)
        BY StartFreeLists DEF OnFault
    <3> QED BY <1>2, <1>3, <2>3, <2>4, <2>5, <2>6, <3>1, IdleIsFree, StartFreeLists
  <2>7. CASE th'[Main] = rec /\ o.op \in {"submit", "restart"}
    <3>1. 1 \in DOMAIN q /\ q[1] = o
        BY <2>1, <2>2
    <3>2. NobodyFor(me.w)
        BY <2>7, <3>1 DEF Undisturbed, StartsAlone, Starts, Prepared
    <3>3. NobodyFor(th[Main].w)'
        BY <1>1, <2>1, <2>3, <2>7, <3>2, GoingStays DEF NobodyFor
    <3>4. th'[Main].todo \in {<<Read, Move("failed", "keep"), Notify>>,
                             <<Move("failed", "none"), Notify>>}
        BY <2>3, <2>7 DEF OnFault
    <3> QED BY <1>2, <2>5, <3>3, <3>4 DEF StartsAlone, Prepared
  <2> QED BY <2>1, <2>4, <2>6, <2>7
<1> QED BY <1>2, <1>4, <1>6, <1>7, <1>8, <1>9

\* The one execution that may start has the item to itself.
LEMMA NewcomerIsAlone ==
    ASSUME Driven, Undisturbed, StoreCall(Main), Head(th[Main].todo).op \in {"submit", "restart"}
    PROVE  NobodyFor(th[Main].w) /\ item[th[Main].w].state \in {"queued", "retrying"}
           /\ item' = item /\ th[Main].w \in Works
<1> DEFINE q == th[Main].todo
<1>1. q \in Seq(Call) /\ q # <<>> /\ th[Main].w \in Works
    BY CallBasics, ThreadFacts DEF Driven, Sealing, Pausing
<1>2. 1 \in DOMAIN q /\ q[1] = Head(q)
    BY <1>1
<1>3. Prepared(th[Main])
    BY <1>2 DEF Undisturbed, StartsAlone, Starts
<1>4. /\ Read.op = "read" /\ Move("failed", "keep").op = "move"
      /\ Move("failed", "none").op = "move" /\ Move("retrying", "none").op = "move"
    BY CallOps
<1>5. /\ Head(<<Read, Move("failed", "keep"), Notify>>) = Read
      /\ Head(<<Move("failed", "keep"), Notify>>) = Move("failed", "keep")
      /\ Head(<<Move("failed", "none"), Notify>>) = Move("failed", "none")
    OBVIOUS
<1>6. item[th[Main].w].state \in {"queued", "retrying"}
    BY <1>3, <1>4, <1>5, AgainCalls DEF Prepared
<1>7. item' = item
    BY DEF StoreCall, DoRead, DoSave, RejectSave, DoAdd, DoMark, DoInterrupt, DoNotify,
       DoBlocker, DoClear, DoSend, DoSubmit, DoRestart, DoBind, Calls, storeVars
<1> QED BY <1>1, <1>3, <1>6, <1>7 DEF Prepared

LEMMA OneGoingNext ==
    ASSUME Driven, Undisturbed, ~Crash, [Next]_vars
    PROVE  OneGoing'
<1> SUFFICES ASSUME NEW e \in Execs, NEW f \in Execs, Going(e)', Going(f)', e[1] = f[1]
             PROVE  e = f
    BY DEF OneGoing
<1>1. Sealing /\ th[Main].pc # "boot" /\ OneGoing
    BY DEF Driven, Undisturbed
<1>2. CASE Going(e) /\ Going(f)
    BY <1>1, <1>2 DEF OneGoing
<1>3. ASSUME StoreCall(Main), Head(th[Main].todo).op \in {"submit", "restart"},
             NEW g \in Execs, g[1] = th[Main].w,
             \A x \in Execs : Going(x)' => Going(x) \/ x = g
      PROVE  e = f
    BY <1>2, <1>3, NewcomerIsAlone DEF NobodyFor
<1> QED BY <1>1, <1>2, <1>3, GoingMoves

LEMMA NobodyForFailedNext ==
    ASSUME Driven, Undisturbed, ~Crash, [Next]_vars
    PROVE  NobodyForFailed'
<1> SUFFICES ASSUME NEW w \in Works, item'[w].state \in {"absent", "failed"},
                    NEW e \in Execs, e[1] = w, Going(e)'
             PROVE  FALSE
    BY DEF NobodyForFailed, NobodyFor
<1>1. Sealing /\ BusyIsLive /\ Versions /\ th[Main].pc # "boot" /\ OneGoing /\ FailsLast
      /\ NobodyForFailed /\ StartsAlone
    BY DEF Driven, Undisturbed, Sealing, Pausing, Execution
<1>2. item'[w] # item[w] => \A x \in Execs : Going(x)' => Going(x)
    BY <1>1, GoingMoves, NewcomerIsAlone
<1>3. CASE item[w].state \in {"absent", "failed"}
  <2>1. ~Going(e)
      BY <1>1, <1>3 DEF NobodyForFailed, NobodyFor
  <2>2. PICK g \in Execs : /\ StoreCall(Main) /\ Head(th[Main].todo).op \in {"submit", "restart"}
                           /\ g[1] = th[Main].w /\ e = g
      BY <1>1, <2>1, GoingMoves
  <2> QED BY <1>3, <2>2, NewcomerIsAlone
<1>4. CASE item[w].state \notin {"absent", "failed"}
  <2>1. item'[w].state # item[w].state
      BY <1>4
  <2>2. PICK t \in Threads : SavesAs(t, w, item'[w].state)
      BY <1>1, <2>1, StateChanges
  <2>3. DoSave(t) /\ th[t].w = w /\ Head(th[t].todo).op = "move"
        /\ Head(th[t].todo).a = item'[w].state /\ Head(th[t].todo).a \in Allowed[item[w].state]
      BY <2>2 DEF SavesAs
  <2>4. StoreCall(t) /\ TypeOK
      BY <1>1, <2>3 DEF StoreCall, Versions
  <2>5. th[t].todo \in Seq(Call) /\ th[t].todo # <<>>
      BY <1>1, <2>4, CallBasics DEF Sealing, Pausing
  <2>6. Head(th[t].todo) \in Call /\ 1 \in DOMAIN th[t].todo /\ th[t].todo[1] = Head(th[t].todo)
      BY <2>5
  <2>7. Fails(Head(th[t].todo))
      BY <2>3, <2>6 DEF Fails, Call, WorkStates, Waiting, Terminal
  <2>8. Going(e)
      BY <1>2, <2>1
  <2>9. CASE t = Main
      BY <1>1, <2>3, <2>6, <2>7, <2>8, <2>9 DEF StartsAlone, Starts, Prepared, NobodyFor
  <2>10. CASE t \in Execs
    <3>1. Going(t) /\ Finishing(t)' /\ t[1] = w
        BY <1>1, <2>3, <2>4, <2>7, <2>10, FailerFinishes, ExecOK
    <3>2. e = t
        BY <1>1, <2>8, <2>10, <3>1 DEF OneGoing
    <3> QED BY <3>1, <3>2 DEF Going
  <2> QED BY <2>9, <2>10, ThreadFacts
<1> QED BY <1>3, <1>4

LEMMA DrivenInitially == Init => Driven
<1> SUFFICES ASSUME Init
             PROVE  Driven
    OBVIOUS
<1>1. Sealing
    BY SealingInitially
<1>2. \A t \in Threads : th[t].pc = "idle" /\ th[t].todo = <<>>
    BY IdleIsFree DEF Init
<1>3. \A e \in Execs : wf[e].st = "none"
    BY DEF Init, StoreInit, NoWorkflow
<1>4. fuel = Fuel /\ up = "up" /\ Fuel.crash \in Nat
    BY BoundsAssumption DEF Init
<1>5. Undisturbed
    BY <1>2, <1>3, <1>4, ThreadFacts DEF Undisturbed, OneGoing, NobodyForFailed, NobodyFor,
       Going, FailsLast, StartsAlone
<1> QED BY <1>1, <1>2, <1>4, <1>5, ThreadFacts DEF Driven, BusyIsLive

LEMMA DrivenNext == Driven /\ [Next]_vars => Driven'
<1> SUFFICES ASSUME Driven, [Next]_vars
             PROVE  Driven'
    OBVIOUS
<1>1. Sealing /\ BusyIsLive /\ TypeOK
    BY DEF Driven, Sealing, Pausing, Execution, Versions
<1>2. Sealing' /\ BusyIsLive'
    BY <1>1, SealingNext, BusyIsLiveNext
<1>3. /\ fuel'.crash <= Fuel.crash
      /\ fuel'.crash = Fuel.crash => Calm /\ ~Crash
    BY <1>1, CrashesOnce DEF Driven
<1>4. ASSUME fuel'.crash = Fuel.crash
      PROVE  Undisturbed'
  <2>1. Undisturbed /\ ~Crash
      BY <1>3, <1>4 DEF Driven
  <2>2. FailsLast'
      BY <1>1, <2>1, FailsLastNext DEF Undisturbed
  <2> QED BY <2>1, <2>2, StartsAloneNext, OneGoingNext, NobodyForFailedNext DEF Undisturbed
<1> QED BY <1>2, <1>3, <1>4 DEF Driven, Calm

\* Until the first crash no item is driven by two executions: a command starts one
\* only when the item has none, or when the one that failed it has nothing left
\* to do but to report it and end.
THEOREM OneDriverUntilACrash == Spec => [](Calm => OneDriver)
<1>1. Driven => (Calm => OneDriver)
  <2> SUFFICES ASSUME Driven, Calm, NEW e \in Execs, NEW f \in Execs,
                      Driving(e), Driving(f), e[1] = f[1]
               PROVE  e = f
      BY DEF OneDriver
  <2>1. \A x \in Execs : Driving(x) => Going(x)
      BY DEF Driven, BusyIsLive, Driving, Going, Finishing
  <2> QED BY <2>1 DEF Driven, Undisturbed, OneGoing
<1> QED BY <1>1, DrivenInitially, DrivenNext, PTL DEF Spec

-----------------------------------------------------------------------------
(* Recovery of items that were never retried *)

\* No item was given a second execution.
Unretried == \A e \in Execs : e[2] # 0 => wf[e].st = "none"

\* States in which startup can deal with a running step: it can make the item wait
\* for the owner, leave it paused, or need not look.
Leavable(it) == \/ it.state \in {"running", "cancelled"}
                \/ it.state = "paused" /\ it.from = "running"

RowsLeavable == \A w \in Works : RunningSteps(w) # {} => Leavable(item[w])

Begins(o) == o.op = "mark" /\ o.a = "running"

\* The executor has not returned, or what it returned is to be marked next.
AtWork(rec) ==
    \/ OnItsRow(rec)
    \/ /\ rec.pc \in {"done", "settle", "asking"} /\ rec.todo # <<>>
       /\ Head(rec.todo).op = "mark" /\ ~Begins(Head(rec.todo))

\* While the process is up a running step has an execution that will end it,
\* unless it was lost in a crash and its item cancelled.
Attended ==
    up = "up" =>
        \A w \in Works : item[w].state # "cancelled" =>
            \A i \in RunningSteps(w) : AtWork(th[<<w, 0>>]) /\ i = th[<<w, 0>>].sid

\* From the save that makes an item running until its executor is awaited,
\* nobody else writes the item.
Timely ==
    \A e \in Execs :
        /\ th[e].pc = "exec"
        /\ th[e].todo \in {Tail(Start), Tail(Tail(Start)), <<Touch("own")>>}
        => th[e].held = item[e[1]]

\* A step begins to run only on the way to an executor.
BeginsInLease ==
    \A e \in Execs : th[e].pc # "exec" =>
        \A i \in DOMAIN th[e].todo : ~Begins(th[e].todo[i])

\* Calls that take an item away from the execution that was at work on it.
Vital(o) == o.op \in {"submit", "restart"} \/ (o.op = "move" /\ o.a \in {"failed", "retrying"})

Duty(rec, i) ==
    /\ ~Begins(rec.todo[i])
    /\ rec.todo[i].op = "move" =>
          \/ rec.todo[i].a \in {"paused", "cancelled", "failed", "retrying"}
          \/ i = 1 /\ rec.held.state = "paused" /\ rec.todo[i].a = ResumeTarget(rec.held)

Dutiful == \A i \in DOMAIN th[Main].todo : Duty(th[Main], i)

VitalAlone ==
    (\E i \in DOMAIN th[Main].todo : Vital(th[Main].todo[i])) => RunningSteps(th[Main].w) = {}

\* What the owner's commands leave the main thread to do takes no item away from a
\* running step, except to pause, cancel or resume it.
Duties ==
    up = "up" =>
        /\ th[Main].pc = "boot" => th[Main].todo = <<>>
        /\ Dutiful /\ VitalAlone

Saves(o) == o.op \in {"move", "touch"}

\* Startup interrupts every running step of an item, and then saves the item as it
\* is on record, once, in a state that allows it.
Restarts(rec) ==
    LET q == rec.todo n == Cardinality(RunningSteps(rec.w)) IN
    /\ n <= Len(q)
    /\ \A i \in DOMAIN q : i <= n <=> q[i] = Interrupt
    /\ \A i \in DOMAIN q : Saves(q[i]) =>
          /\ rec.held = item[rec.w] /\ Leavable(rec.held) /\ Active(rec.held)
          /\ q[i].op = "move" => rec.held.state = "running" /\ q[i].a = "waiting_for_owner"
          /\ \A j \in DOMAIN q : j > i => ~Saves(q[j])

Restarting == up = "starting" /\ th[Main].todo # <<>> => Restarts(th[Main])

Recoverable ==
    /\ RowsLeavable /\ Attended /\ Timely /\ Duties /\ Restarting
    /\ StartupNeverAborts

Restartable ==
    /\ Sealing /\ BusyIsLive /\ BeginsInLease
    /\ Unretried => Recoverable

-----------------------------------------------------------------------------
(* Executions of items that were never retried *)

LEMMA UnretriedBefore ==
    ASSUME Sealing, [Next]_vars, Unretried'
    PROVE  Unretried
<1> SUFFICES ASSUME NEW e \in Execs, e[2] # 0, wf[e].st # "none"
             PROVE  FALSE
    BY DEF Unretried
<1>1. TypeOK /\ wf \in [Execs -> Workflow(Message \cup {NoMessage})]
    BY DEF Sealing, Pausing, Execution, Versions, TypeOK, DbosOK
<1>2. wf'[e].st = "none"
    BY DEF Unretried
<1>3. CASE WorkflowStep(e)
  <2>1. CASE StepReturns(e)
    <3> DEFINE row == wf[e] state == th[e].held.state
    <3>1. row \in Workflow(Message \cup {NoMessage})
        BY <1>1
    <3>2. wf'[e] = CASE row.at = "advance" -> AfterAdvance(row, state)
                     [] row.at = "apply"   -> [row EXCEPT !.at = "advance", !.msg = NoMessage]
                     [] OTHER              -> [row EXCEPT !.st = "done"]
        BY <1>1, <2>1 DEF StepReturns
    <3>3. AfterAdvance(row, state).st \in {"done", row.st}
        BY <3>1 DEF AfterAdvance, Workflow
    <3>4. /\ [row EXCEPT !.at = "advance", !.msg = NoMessage].st = row.st
          /\ [row EXCEPT !.st = "done"].st = "done"
        BY <3>1 DEF Workflow
    <3> HIDE DEF row, state
    <3>5. wf'[e].st \in {"done", row.st}
      <4>1. CASE row.at = "advance"
          BY <3>2, <3>3, <4>1
      <4>2. CASE row.at = "apply"
          BY <3>2, <3>4, <4>2
      <4>3. CASE row.at # "advance" /\ row.at # "apply"
          BY <3>2, <3>4, <4>3
      <4> QED BY <4>1, <4>2, <4>3
    <3> QED BY <1>2, <3>5 DEF row
  <2>2. CASE StepRaises(e)
      BY <1>1, <1>2, <2>2 DEF StepRaises, Workflow
  <2>3. CASE ReceiveAnswer(e)
      BY <1>1, <1>2, <2>3 DEF ReceiveAnswer, Workflow, AtStep
  <2>4. CASE ReceiveControl(e)
    <3>1. wf[e] \in Workflow(Message \cup {NoMessage}) /\ wf[e].st = "live"
        BY <1>1, <2>4 DEF ReceiveControl, AtStep
    <3>2. /\ [wf[e] EXCEPT !.at = "advance"].st = wf[e].st
          /\ [wf[e] EXCEPT !.st = "done"].st = "done"
        BY <3>1 DEF Workflow
    <3>3. wf'[e] \in {[wf[e] EXCEPT !.at = "advance"], [wf[e] EXCEPT !.st = "done"]}
        BY <1>1, <2>4 DEF ReceiveControl
    <3> QED BY <1>2, <3>1, <3>2, <3>3
  <2> QED BY <1>3, <2>1, <2>2, <2>3, <2>4 DEF WorkflowStep
<1>4. CASE BootResubmit
    BY <1>1, <1>2, <1>4 DEF BootResubmit
<1>5. ASSUME NEW g \in Execs, Submit(g) PROVE FALSE
    BY <1>1, <1>2, <1>5 DEF Submit, Workflow
<1> QED BY <1>2, <1>3, <1>4, <1>5, RowMoves

LEMMA TheOnlyExecution ==
    ASSUME Sealing, BusyIsLive, Unretried, NEW e \in Execs,
           th[e].pc # "idle" \/ wf[e].st = "live" \/ th[e].todo # <<>>
    PROVE  e = <<e[1], 0>>
<1>1. wf[e].st = "live"
    BY DEF BusyIsLive, Sealing, Pausing, Placed
<1> QED BY <1>1 DEF Unretried, Execs

\* Calls that begin no step.
BeginFree == {o \in Call : ~Begins(o)}

LEMMA BeginFreeCalls ==
    /\ {Read, Notify, Clear, Blocker, Touch("none"), Touch("keep"), Touch("own"),
        Interrupt, Launch, Restart, Bind} \subseteq BeginFree
    /\ \A to \in WorkStates, s \in {"none", "keep", "own"} : Move(to, s) \in BeginFree
    /\ \A k \in StepKinds : Add(k) \in BeginFree
    /\ \A st \in StepStates, obs \in Observed : st # "running" => Mark(st, obs) \in BeginFree
<1>1. \A to \in WorkStates, s \in {"none", "keep", "own"} : Move(to, s) \in BeginFree
    BY CallTypes DEF Move, Op, BeginFree, Begins
<1>2. {Read, Notify, Clear, Blocker, Touch("none"), Touch("keep"), Touch("own"),
       Interrupt, Launch, Restart, Bind} \subseteq BeginFree
  <2>1. {Read, Notify, Clear, Blocker, Touch("none"), Touch("keep"), Touch("own"),
         Interrupt, Launch, Restart, Bind} \subseteq Call
      BY CallTypes
  <2>2. Launch.op = "submit" /\ Restart.op = "restart" /\ Bind.op = "bind"
      BY DEF Launch, Restart, Bind, Op
  <2>3. \A o \in {Read, Notify, Clear, Blocker, Touch("none"), Touch("keep"), Touch("own"),
                  Interrupt, Launch, Restart, Bind} : o.op # "mark"
      BY <2>2, CallOps
  <2> QED BY <2>1, <2>3 DEF BeginFree, Begins
<1>3. \A k \in StepKinds : Add(k) \in BeginFree
    BY CallTypes DEF Add, Op, BeginFree, Begins
<1>4. \A st \in StepStates, obs \in Observed : st # "running" => Mark(st, obs) \in BeginFree
    BY CallTypes DEF Mark, Op, BeginFree, Begins
<1> QED BY <1>1, <1>2, <1>3, <1>4

\* Only a script that leads to an executor begins a step.
LEMMA ScriptBegins ==
    ASSUME NEW pc, NEW q, Script(pc, q), pc # "exec"
    PROVE  q \in Seq(BeginFree)
<1>1. /\ {"", "ask", "ask_secret"} \subseteq Observed /\ Answers \subseteq Observed
      /\ {"note", "owner_input", "pressure", "work"} \subseteq StepKinds
      /\ {"failed", "completed", "running"} \subseteq StepStates
    BY DEF Observed, StepKinds, StepStates
<1>2. {"running", "waiting_dependency", "paused", "waiting_resource", "retrying", "failed",
       "completed", "waiting_for_owner"} \subseteq WorkStates
    BY DEF WorkStates, Waiting, Terminal
<1>3. CASE q \in Asking
  <2>1. /\ <<Move("waiting_for_owner", "none"), Notify>> \in Seq(BeginFree)
        /\ <<Move("waiting_for_owner", "own"), Notify>> \in Seq(BeginFree)
      BY <1>2, BeginFreeCalls, ShortSeqs
  <2> QED BY <1>3, <2>1 DEF Asking
<1>4. CASE q \in Failing
  <2>1. /\ <<Move("failed", "none"), Notify>> \in Seq(BeginFree)
        /\ <<Move("failed", "own"), Notify>> \in Seq(BeginFree)
        /\ <<Move("failed", "keep"), Clear, Notify>> \in Seq(BeginFree)
        /\ <<Move("running", "none"), Move("failed", "none"), Notify>> \in Seq(BeginFree)
      BY <1>2, BeginFreeCalls, ShortSeqs
  <2> QED BY <1>4, <2>1 DEF Failing
<1>5. CASE q \in Learning
  <2>1. Waits \in Seq(BeginFree) /\ WaitsBlocked \in Seq(BeginFree)
      BY <1>1, <1>2, BeginFreeCalls, ShortSeqs DEF Waits, WaitsBlocked
  <2>2. /\ <<Move("completed", "none"), Clear, Notify>> \in Seq(BeginFree)
        /\ <<Add("note"), Mark("completed", ""), Read, Touch("none")>> \in Seq(BeginFree)
        /\ <<Move("running", "none"), Read, Move("paused", "keep")>> \in Seq(BeginFree)
      BY <1>1, <1>2, BeginFreeCalls, ShortSeqs
  <2>3. \A text \in Answers :
            <<Add("owner_input"), Mark("completed", text), Move("running", "none")>> \in Seq(BeginFree)
      BY <1>1, <1>2, BeginFreeCalls, ShortSeqs
  <2> QED BY <1>5, <2>1, <2>2, <2>3 DEF Learning
<1>6. CASE \E o \in Closing : q = <<o>>
  <2>1. Closing \subseteq BeginFree
      BY <1>2, BeginFreeCalls DEF Closing
  <2> QED BY <1>6, <2>1, ShortSeqs
<1>7. CASE \/ q = <<>> \/ q = <<Move("running", "none")>>
           \/ q = <<Move("running", "none"), Read>>
           \/ q = <<Add("note"), Mark("failed", ""), Read>>
           \/ q = <<Move("waiting_resource", "none")>>
  <2>1. /\ <<>> \in Seq(BeginFree) /\ <<Move("running", "none")>> \in Seq(BeginFree)
        /\ <<Move("running", "none"), Read>> \in Seq(BeginFree)
        /\ <<Add("note"), Mark("failed", ""), Read>> \in Seq(BeginFree)
        /\ <<Move("waiting_resource", "none")>> \in Seq(BeginFree)
      BY <1>1, <1>2, BeginFreeCalls, ShortSeqs
  <2> QED BY <1>7, <2>1
<1>8. CASE \E st \in {"completed", "failed"}, obs \in {"", "ask", "ask_secret"} :
              q = <<Mark(st, obs), Read>>
  <2>1. \A st \in {"completed", "failed"}, obs \in Observed :
            <<Mark(st, obs), Read>> \in Seq(BeginFree)
      BY <1>1, BeginFreeCalls, ShortSeqs
  <2> QED BY <1>1, <1>8, <2>1
<1> QED BY <1>3, <1>4, <1>5, <1>6, <1>7, <1>8 DEF Script

LEMMA BeginsInLeaseNext ==
    ASSUME Sealing, BeginsInLease, [Next]_vars
    PROVE  BeginsInLease'
<1> SUFFICES ASSUME NEW e \in Execs, th'[e].pc # "exec"
             PROVE  \A i \in DOMAIN th'[e].todo : ~Begins(th'[e].todo[i])
    BY DEF BeginsInLease
<1>1. TypeOK /\ Execution /\ e \in Threads /\ e # Main
    BY ThreadFacts DEF Sealing, Pausing, Execution, Versions
<1>2. CASE th'[e].todo = <<>>
    BY <1>2
<1>3. CASE StoreCall(e)
  <2>1. th[e].todo # <<>> /\ th[e].todo \in Seq(Call)
      BY <1>1, <1>3, CallBasics
  <2>2. th'[e].todo # <<>> => th'[e].todo = Tail(th[e].todo) /\ th'[e].pc = th[e].pc
      BY <1>1, <1>3, CallMoves
  <2>3. \A i \in DOMAIN Tail(th[e].todo) :
            \E j \in DOMAIN th[e].todo : Tail(th[e].todo)[i] = th[e].todo[j]
      BY <2>1
  <2> QED BY <1>2, <2>2, <2>3 DEF BeginsInLease
<1>4. CASE EngineStep(e)
  <2>1. th'[e].todo \in Seq(BeginFree)
      BY <1>1, <1>4, EngineFollows, ScriptBegins DEF Follows
  <2> QED BY <2>1 DEF BeginFree
<1>5. CASE th'[e] = th[e]
    BY <1>5 DEF BeginsInLease
<1> QED BY <1>1, <1>2, <1>3, <1>4, <1>5, NextMoves

-----------------------------------------------------------------------------
(* Which steps come to run *)

\* What holds of the state before a step of a process that was never retried.
Recovering == Sealing /\ BusyIsLive /\ BeginsInLease /\ Unretried /\ Recoverable

\* The execution about to begin its step.
AtBegin(e) == th[e].pc = "exec" /\ th[e].todo = Tail(Tail(Start))

LEMMA StartLists ==
    /\ Start \notin {Tail(Start), Tail(Tail(Start)), <<Touch("own")>>, <<>>}
    /\ Tail(Start) \notin {Tail(Tail(Start)), <<Touch("own")>>, <<>>}
    /\ Tail(Tail(Start)) \notin {<<Touch("own")>>, <<>>}
    /\ <<Touch("own")>> # <<>>
<1>1. /\ Head(Start).op = "move" /\ Head(Tail(Start)).op = "add"
      /\ Head(Tail(Tail(Start))).op = "mark" /\ Head(<<Touch("own")>>).op = "touch"
    BY StartCalls
<1> QED BY <1>1, StartCalls

\* The calls of an execution at its executor, one after the other.
LEMMA ExecutorLists ==
    ASSUME Execution, NEW e \in Execs, th[e].pc = "exec"
    PROVE  /\ th[e].todo \in {Start, Tail(Start), Tail(Tail(Start)), <<Touch("own")>>, <<>>}
           /\ th[e].todo # Start => th[e].held.state = "running"
           /\ th[e].todo = Start => Head(th[e].todo).op = "move"
           /\ th[e].todo = Tail(Start) => Head(th[e].todo).op = "add"
           /\ th[e].todo = Tail(Tail(Start)) => Head(th[e].todo) = Mark("running", "")
           /\ th[e].todo = <<Touch("own")>> => Head(th[e].todo).op = "touch"
BY StartCalls DEF Execution, Shaped, OnItsRow

LEMMA BeginsAtBegin ==
    ASSUME Sealing, BeginsInLease, NEW e \in Execs, th[e].todo # <<>>, Begins(Head(th[e].todo))
    PROVE  AtBegin(e)
<1>1. TypeOK /\ Execution /\ e \in Threads
    BY ThreadFacts DEF Sealing, Pausing, Execution, Versions
<1>2. th[e].todo \in Seq(Call)
    BY <1>1 DEF TypeOK, ThreadsOK, Thread
<1>3. 1 \in DOMAIN th[e].todo /\ Head(th[e].todo) = th[e].todo[1]
    BY <1>2
<1>4. th[e].pc = "exec"
    BY <1>3 DEF BeginsInLease
<1> QED BY <1>1, <1>4, ExecutorLists DEF AtBegin, Begins

\* A step that runs ran before, or an execution has just begun it.
LEMMA RunningRows ==
    ASSUME Recovering, [Next]_vars, NEW w \in Works, NEW i \in RunningSteps(w)'
    PROVE  \/ i \in RunningSteps(w)
           \/ \E e \in Execs : DoMark(e) /\ e[1] = w /\ th[e].sid = i /\ AtBegin(e)
<1>1. Execution /\ TypeOK
    BY DEF Recovering, Sealing, Pausing, Execution, Versions
<1>2. i \in DOMAIN steps'[w] /\ steps'[w][i].st = "running"
    BY DEF RunningSteps
<1>3. i \in DOMAIN steps[w]
    BY <1>1, <1>2, RowChanges DEF Recent
<1>4. CASE steps'[w][i] = steps[w][i]
    BY <1>2, <1>3, <1>4 DEF RunningSteps
<1>5. ASSUME NEW t \in Threads, DoMark(t), Owns(t), th[t].w = w, th[t].sid = i,
             steps'[w][i].st = Head(th[t].todo).a
      PROVE  \E e \in Execs : DoMark(e) /\ e[1] = w /\ th[e].sid = i /\ AtBegin(e)
  <2>1. StoreCall(t) /\ Begins(Head(th[t].todo))
      BY <1>2, <1>5 DEF DoMark, Calls, StoreCall, Begins
  <2>2. th[t].todo \in Seq(Call) /\ th[t].todo # <<>> /\ (t \in Execs => th[t].w = t[1])
      BY <1>1, <2>1, CallBasics
  <2>3. 1 \in DOMAIN th[t].todo /\ Head(th[t].todo) = th[t].todo[1]
      BY <2>2
  <2>4. t # Main
    <3> SUFFICES ASSUME t = Main PROVE FALSE
        OBVIOUS
    <3>1. up # "up"
        BY <2>1, <2>3 DEF Recovering, Recoverable, Duties, Dutiful, Duty
    <3>2. Head(th[Main].todo) \in BootCalls
        BY <2>2, <2>3, <3>1 DEF Recovering, Sealing, Orders
    <3>3. Head(th[Main].todo).op # "mark"
        BY <3>2, CallOps DEF BootCalls
    <3> QED BY <2>1, <3>3 DEF Begins
  <2> QED BY <1>5, <2>1, <2>2, <2>4, BeginsAtBegin, ThreadFacts DEF Recovering
<1> QED BY <1>2, <1>3, <1>4, <1>5, RowChanges, <1>1 DEF Rewritten

-----------------------------------------------------------------------------
(* An execution on its way to an executor has the item to itself *)

LEMMA SavedRecord ==
    ASSUME Versions, NEW t \in Threads, DoSave(t)
    PROVE  /\ th[t].w \in Works /\ th[t].held = item[th[t].w] /\ steps' = steps
           /\ item'[th[t].w] = NewRecord(th[t], Head(th[t].todo))
           /\ \A w \in Works : w # th[t].w => item'[w] = item[w]
           /\ Permitted(th[t], Head(th[t].todo))
           /\ \/ th'[t].held = item'[th[t].w] /\ th'[t].w = th[t].w
              \/ t = Main /\ th'[t] = Idle(Owner)
<1> DEFINE me == th[t]
           o  == Head(th[t].todo)
<1>1. TypeOK /\ item \in [Works -> Item] /\ me.todo # <<>>
    BY DEF Versions, TypeOK, StoreOK, DoSave, Calls
<1>2. me \in Thread /\ me.w \in Works
    BY <1>1, CallFacts DEF TypeOK
<1>3. /\ Fresh(me.w, me.held) /\ steps' = steps /\ Permitted(me, o)
      /\ item' = [item EXCEPT ![me.w] = NewRecord(me, o)]
      /\ Did(t, [me EXCEPT !.held = NewRecord(me, o)])
    BY DEF DoSave, PutItem
<1>4. me.held = item[me.w]
    BY <1>2, <1>3 DEF Versions, HeldIsTrueOrStale, Fresh
<1>5. item'[me.w] = NewRecord(me, o) /\ \A w \in Works : w # me.w => item'[w] = item[w]
    BY <1>1, <1>2, <1>3
<1>6. \/ th'[t].held = NewRecord(me, o) /\ th'[t].w = me.w
      \/ t = Main /\ th'[t] = Idle(Owner)
  <2> DEFINE new == NewRecord(me, o)
             rec == [[me EXCEPT !.held = new] EXCEPT !.todo = Tail(me.todo)]
  <2> HIDE DEF new
  <2>1. rec.held = new /\ rec.w = me.w
      BY <1>2 DEF Thread
  <2>2. Run(t, rec)
      BY <1>2, <1>3 DEF Did, Thread, new
  <2> HIDE DEF rec
  <2> QED BY <1>1, <2>1, <2>2, RunMoves DEF new
<1> QED BY <1>2, <1>3, <1>4, <1>5, <1>6

\* Nobody else saves the item of an execution that has the event loop.
LEMMA NobodyElseSaves ==
    ASSUME Recovering, NEW e \in Execs, th[e].pc = "exec", th[e].todo # <<>>,
           NEW t \in Threads, t # e, th[t].todo # <<>>, th[t].w = e[1]
    PROVE  FALSE
<1>1. /\ LoopHeld /\ Placed(e) /\ e \in Threads /\ Main \in Threads /\ e # Main
      /\ Sealing /\ BusyIsLive /\ Unretried /\ TypeOK
    BY ThreadFacts DEF Recovering, Sealing, Pausing, Execution, Versions
<1>2. wf[e].at = "advance"
    BY <1>1 DEF Placed, Inside
<1>3. loop = e
    BY <1>1, <1>2, CallsAreBusy DEF LoopHeld, OnLoop
<1>4. CASE t = Main
  <2>1. loop = Main
      BY <1>1, <1>4, CallsAreBusy DEF LoopHeld, OnLoop
  <2> QED BY <1>1, <1>3, <2>1
<1>5. CASE t \in Execs
  <2>1. t = <<t[1], 0>> /\ e = <<e[1], 0>>
      BY <1>1, <1>5, TheOnlyExecution
  <2>2. th[t].w = t[1]
      BY <1>1, <1>5, ExecOK
  <2> QED BY <2>1, <2>2
<1> QED BY <1>4, <1>5, ThreadFacts

LEMMA TailIsShorter ==
    ASSUME NEW q \in Seq(Call), q # <<>>
    PROVE  Tail(q) # q
<1> DEFINE n == Len(q)
           m == Len(Tail(q))
<1>1. m = n - 1 /\ n \in Nat
    OBVIOUS
<1>2. Tail(q) = q => m = n
    BY ZenonT(10)
<1> HIDE DEF n, m
<1>3. m # n
    BY <1>1
<1> QED BY <1>2, <1>3

LEMMA TimelyNext ==
    ASSUME Recovering, [Next]_vars
    PROVE  Timely'
<1> DEFINE Soon == {Tail(Start), Tail(Tail(Start)), <<Touch("own")>>}
<1> SUFFICES ASSUME NEW e \in Execs, th'[e].pc = "exec", th'[e].todo \in Soon
             PROVE  th'[e].held = item'[e[1]]
    BY DEF Timely
<1>1. /\ TypeOK /\ Execution /\ Versions /\ e \in Threads /\ e # Main /\ e[1] \in Works
      /\ Placed(e)
    BY ThreadFacts DEF Recovering, Sealing, Pausing, Execution, Versions
<1>2. CASE StoreCall(e)
  <2>1. th[e].todo # <<>> /\ th[e].w = e[1]
      BY <1>1, <1>2, CallBasics
  <2>2. th'[e].todo = Tail(th[e].todo) /\ th[e].pc = "exec" /\ ~RejectSave(e)
      BY <1>1, <1>2, CallMoves, StartLists
  <2>3. th[e].todo \in {Start, Tail(Start), Tail(Tail(Start)), <<Touch("own")>>}
      BY <1>1, <2>1, <2>2, ExecutorLists
  <2>4. Head(th[e].todo).op \in {"move", "touch"} => DoSave(e)
      BY <1>2, <2>2 DEF StoreCall, Calls, DoRead, DoAdd, DoMark, DoInterrupt, DoNotify,
         DoBlocker, DoClear, DoSend, DoSubmit, DoRestart, DoBind
  <2>5. CASE DoSave(e)
      BY <1>1, <2>1, <2>5, SavedRecord
  <2>6. CASE Head(th[e].todo).op \in {"add", "mark"}
    <3>1. DoAdd(e) \/ DoMark(e)
        BY <1>2, <2>6 DEF StoreCall, Calls, DoRead, DoSave, RejectSave, DoInterrupt, DoNotify,
           DoBlocker, DoClear, DoSend, DoSubmit, DoRestart, DoBind
    <3>2. item' = item
        BY <3>1 DEF DoAdd, DoMark
    <3>3. th'[e].held = th[e].held
      <4> DEFINE new == Len(steps[th[e].w]) + 1
      <4>1. new \in Nat
          BY <1>1, <2>1 DEF TypeOK, StoreOK
      <4> HIDE DEF new
      <4>2. th[e] \in Thread /\ [th[e] EXCEPT !.sid = new] \in Thread
            /\ [th[e] EXCEPT !.sid = new].held = th[e].held
            /\ [th[e] EXCEPT !.sid = new].todo = th[e].todo
            /\ [th[e] EXCEPT !.sid = new].w = th[e].w
            /\ [th[e] EXCEPT !.sid = new].pc = th[e].pc
          BY <1>1, <4>1, ExecOK DEF Thread
      <4>3. Did(e, th[e]) \/ Did(e, [th[e] EXCEPT !.sid = new])
          BY <3>1 DEF DoAdd, DoMark, new
      <4> QED BY <1>1, <4>2, <4>3, DidMoves
    <3>4. th[e].todo \in Soon
        BY <2>3, <2>6, <1>1, <2>2, ExecutorLists
    <3> QED BY <2>2, <3>2, <3>3, <3>4 DEF Recovering, Recoverable, Timely
  <2>7. Head(th[e].todo).op \in {"move", "add", "mark", "touch"}
      BY <1>1, <2>2, <2>3, ExecutorLists, StartCalls
  <2> QED BY <2>4, <2>5, <2>6, <2>7
<1>3. CASE EngineStep(e)
    BY <1>1, <1>3, EngineMoves, StartLists
<1>4. CASE th'[e] = th[e]
  <2>1. /\ th[e].held = item[e[1]] /\ th[e].held.state = "running" /\ th[e].todo # <<>>
        /\ th[e].pc = "exec"
      BY <1>1, <1>4, StartLists, ExecutorLists DEF Recovering, Recoverable, Timely
  <2>2. item'[e[1]] = item[e[1]]
    <3> SUFFICES ASSUME item'[e[1]] # item[e[1]] PROVE FALSE
        OBVIOUS
    <3>1. PICK t \in Threads : DoSave(t) /\ th[t].w = e[1]
        BY <1>1, <2>1, ItemWrites
    <3>2. StoreCall(t) /\ th[t].todo # <<>>
        BY <3>1 DEF StoreCall, DoSave, Calls
    <3>3. t = e
        BY <2>1, <3>1, <3>2, NobodyElseSaves
    <3>4. th'[e].todo = <<>> \/ th'[e].todo = Tail(th[e].todo)
        BY <1>1, <3>2, <3>3, CallMoves
    <3>5. th[e].todo \in Seq(Call)
        BY <1>1, <3>2, <3>3, CallBasics
    <3>6. Tail(th[e].todo) # th[e].todo
        BY <2>1, <3>5, TailIsShorter
    <3> QED BY <1>4, <2>1, <3>4, <3>6
  <2> QED BY <1>4, <2>1, <2>2
<1>5. CASE th'[e].todo = <<>>
    BY <1>5, StartLists, StartCalls
<1> QED BY <1>1, <1>2, <1>3, <1>4, <1>5, NextMoves

-----------------------------------------------------------------------------
(* A running step is attended to, or its item can be left *)

\* The process comes up when no item is left to interrupt.
LEMMA Awakening ==
    ASSUME Execution, [Next]_vars, up # "up", up' = "up"
    PROVE  Interrupted = {} /\ item' = item /\ steps' = steps /\ th' = th
<1>1. TypeOK
    BY DEF Execution, Versions
<1>2. ASSUME NEW t \in Threads, StoreCall(t) PROVE up' = up
    BY <1>2, StoreCallRuns
<1>3. ASSUME NEW e \in Execs, EngineStep(e) PROVE up' = up
    BY <1>3, EngineIsUp
<1>4. ASSUME NEW e \in Execs, WorkflowStep(e) PROVE up' = up
    BY SMTT(30), <1>4 DEF WorkflowStep, StepReturns, StepRaises, ReceiveAnswer, ReceiveControl, env
<1>5. ASSUME OwnerStep \/ CancelAgain \/ BootResubmit \/ BackendFault(Main)
             \/ (\E w \in Works : BootInterrupted(w)) \/ UNCHANGED vars
      PROVE  up' = up
    BY <1>5 DEF OwnerStep, OwnerStart, OwnerPause, OwnerResume, OwnerCancel, OwnerRetry,
           OwnerReprioritize, OwnerAnswer, Commanded, CancelAgain, BootResubmit, BootInterrupted,
           BackendFault, Only, env, vars
<1>6. ~Crash /\ ~BootStart
    BY DEF Crash, BootStart
<1>7. BootLaunch
    BY <1>2, <1>3, <1>4, <1>5, <1>6 DEF Next, MainStep
<1> QED BY <1>7 DEF BootLaunch, volatile

LEMMA CancelledStays ==
    ASSUME Versions, [Next]_vars, NEW w \in Works, item[w].state = "cancelled"
    PROVE  item'[w].state = "cancelled"
<1> SUFFICES ASSUME item'[w].state # "cancelled" PROVE FALSE
    OBVIOUS
<1>1. Allowed["cancelled"] = {}
    BY DEF Allowed, WorkStates, Waiting, Terminal
<1> QED BY <1>1, StateChanges DEF SavesAs

LEMMA EngineReady ==
    ASSUME NEW e \in Execs, Placed(e), EngineStep(e)
    PROVE  /\ th[e].todo = <<>>
           /\ th[e].pc = "exec" => Executed(e)
           /\ th[e].pc \notin {"ret", "raise"}
BY DEF EngineStep, Placed, AdvanceStopped, AdvanceDependent, Advance, Admit,
       DecideTooLate, BrainUnavailable, BrainFails, BrainCompletes, BrainAsks,
       BrainActs, Decides, Leased, LeaseRefused, Executed, StepDone, StepAsks, StepFails,
       ApplyPlain, ApplySealed, FailBounded, AtStep, Resumes, Continues

\* What the executor returned is marked next, as the step ended.
LEMMA ExecutedMarks ==
    ASSUME TypeOK, NEW e \in Execs, Executed(e)
    PROVE  AtWork(th'[e]) /\ th'[e].sid = th[e].sid
<1> DEFINE it == th[e].held
<1>1. PICK pc, st, obs :
          /\ pc \in {"done", "settle", "asking"} /\ st \in {"completed", "failed"}
          /\ Segment(e, it, pc, <<Mark(st, obs), Read>>)
    BY DEF Executed
<1>2. /\ th'[e].pc = pc /\ th'[e].todo = <<Mark(st, obs), Read>>
      /\ th'[e].sid = th[e].sid
    BY <1>1, SegmentMoves, ThreadFacts
<1>3. Mark(st, obs).op = "mark" /\ Mark(st, obs).a = st
    BY DEF Mark, Op
<1>4. th'[e].todo # <<>> /\ Head(th'[e].todo) = Mark(st, obs)
    BY <1>2
<1> QED BY <1>1, <1>2, <1>3, <1>4 DEF AtWork, Begins

\* An execution at work stays at work until it ends its step.
LEMMA AtWorkNext ==
    ASSUME Recovering, [Next]_vars, up' = "up", NEW e \in Execs, AtWork(th[e]),
           th[e].sid \in RunningSteps(e[1])'
    PROVE  AtWork(th'[e]) /\ th'[e].sid = th[e].sid
<1>1. /\ TypeOK /\ Execution /\ Versions /\ e \in Threads /\ e # Main /\ e[1] \in Works
      /\ Placed(e)
    BY ThreadFacts DEF Recovering, Sealing, Pausing, Execution, Versions
<1>2. th[e].pc \in InLease /\ th[e].pc # "ret"
    BY DEF AtWork, OnItsRow, InLease
<1>3. CASE StoreCall(e)
  <2>1. th[e].todo # <<>> /\ th[e].w = e[1] /\ th[e].todo \in Seq(Call)
      BY <1>1, <1>3, CallBasics
  <2>2. CASE OnItsRow(th[e])
    <3>1. th[e].todo = <<Touch("own")>> /\ th[e].pc = "exec"
        BY <2>1, <2>2 DEF OnItsRow
    <3>2. Head(th[e].todo).op = "touch" /\ th[e].held.state = "running"
        BY <1>1, <3>1, ExecutorLists, StartLists
    <3>3. th[e].held = item[e[1]]
        BY <3>1 DEF Recovering, Recoverable, Timely
    <3>4. Permitted(th[e], Head(th[e].todo)) /\ Fresh(th[e].w, th[e].held)
        BY <2>1, <3>2, <3>3 DEF Permitted, CanTouch, Active, WorkStates, Terminal, Fresh
    <3>5. DoSave(e) /\ ~RejectSave(e) /\ ~DoAdd(e) /\ ~DoRestart(e) /\ ~DoInterrupt(e)
        BY <1>3, <3>2, <3>4 DEF StoreCall, Calls, DoRead, RejectSave, DoAdd, DoMark,
           DoInterrupt, DoNotify, DoBlocker, DoClear, DoSend, DoSubmit, DoRestart, DoBind
    <3>6. th'[e].todo = Tail(th[e].todo) /\ th'[e].pc = "exec" /\ th'[e].sid = th[e].sid
        BY <1>1, <1>3, <3>1, <3>5, CallMoves DEF Numbers
    <3> QED BY <3>1, <3>6, StartCalls DEF AtWork, OnItsRow
  <2>3. CASE ~OnItsRow(th[e])
    <3>1. Head(th[e].todo).op = "mark" /\ ~Begins(Head(th[e].todo))
        BY SMTT(30), <2>3 DEF AtWork
    <3>2. DoMark(e)
        BY <1>3, <3>1 DEF StoreCall, Calls, DoRead, DoSave, RejectSave, DoAdd,
           DoInterrupt, DoNotify, DoBlocker, DoClear, DoSend, DoSubmit, DoRestart, DoBind
    <3>3. SaveStep(th[e].w, th[e].sid, Head(th[e].todo).a, Head(th[e].todo).b)
        BY <3>2 DEF DoMark
    <3>4. Owns(e)
        BY <2>1, <3>1, TailCalls DEF Owns, Owning
    <3>5. th[e].sid \in DOMAIN steps[e[1]]
        BY <1>1, <2>1, <3>4 DEF Execution, OwnedRows
    <3>6. steps'[e[1]][th[e].sid].st = Head(th[e].todo).a
        BY <1>1, <2>1, <3>3, <3>5, SaveStepRows DEF TypeOK, StoreOK
    <3> QED BY <3>1, <3>6 DEF Begins, RunningSteps
  <2> QED BY <2>2, <2>3
<1>4. CASE EngineStep(e)
  <2>1. th[e].todo = <<>> /\ (th[e].pc = "exec" => Executed(e))
      BY <1>1, <1>4, EngineReady
  <2>2. th[e].pc = "exec"
      BY <2>1 DEF AtWork, OnItsRow
  <2> QED BY <1>1, <2>1, <2>2, ExecutedMarks
<1>5. CASE th'[e] = th[e]
    BY <1>5
<1>6. CASE WorkflowStep(e)
    BY <1>2, <1>6 DEF WorkflowStep, StepReturns, StepRaises, ReceiveAnswer, ReceiveControl,
       AtStep, InLease
<1>7. ~Crash
    BY DEF Crash
<1> QED BY <1>1, <1>3, <1>4, <1>5, <1>6, <1>7, NextMoves

LEMMA AttendedNext ==
    ASSUME Recovering, [Next]_vars
    PROVE  Attended'
<1> SUFFICES ASSUME up' = "up", NEW w \in Works, item'[w].state # "cancelled",
                    NEW i \in RunningSteps(w)'
             PROVE  AtWork(th'[<<w, 0>>]) /\ i = th'[<<w, 0>>].sid
    BY DEF Attended
<1> DEFINE e == <<w, 0>>
<1>1. /\ TypeOK /\ Execution /\ Versions /\ e \in Execs /\ e[1] = w /\ e # Main
      /\ e \in Threads
    BY ThreadFacts DEF Recovering, Sealing, Pausing, Execution, Versions
<1> HIDE DEF e
<1>2. item[w].state # "cancelled"
    BY <1>1, CancelledStays
<1>3. CASE up # "up"
  <2>1. Interrupted = {} /\ item' = item /\ steps' = steps
      BY <1>1, <1>3, Awakening
  <2>2. i \in RunningSteps(w)
      BY <2>1 DEF RunningSteps
  <2>3. Active(item[w])
      BY <1>2, <2>2 DEF Recovering, Recoverable, RowsLeavable, Leavable, Active, WorkStates,
         Terminal, Waiting
  <2> QED BY <2>1, <2>2, <2>3 DEF Interrupted
<1>4. CASE up = "up" /\ i \in RunningSteps(w)
  <2>1. AtWork(th[e]) /\ i = th[e].sid
      BY <1>2, <1>4 DEF Recovering, Recoverable, Attended, e
  <2> QED BY <1>1, <2>1, AtWorkNext DEF e
<1>5. ASSUME NEW f \in Execs, DoMark(f), f[1] = w, th[f].sid = i, AtBegin(f)
      PROVE  AtWork(th'[e]) /\ i = th'[e].sid
  <2>1. f = e
      BY <1>5, TheOnlyExecution DEF Recovering, AtBegin, e
  <2>2. StoreCall(e) /\ ~RejectSave(e) /\ ~DoAdd(e) /\ ~DoRestart(e) /\ ~DoInterrupt(e)
      BY <1>5, <2>1 DEF StoreCall, DoMark, Calls, RejectSave, DoAdd, DoRestart, DoInterrupt
  <2>3. th'[e].todo = Tail(th[e].todo) /\ th'[e].pc = "exec" /\ th'[e].sid = i
      BY <1>1, <1>5, <2>1, <2>2, CallMoves DEF Numbers, AtBegin
  <2>4. th'[e].todo = <<Touch("own")>>
      BY <1>5, <2>1, <2>3, StartCalls DEF AtBegin
  <2> QED BY <2>3, <2>4 DEF AtWork, OnItsRow
<1> QED BY <1>3, <1>4, <1>5, RunningRows DEF e

LEMMA RunningCounts ==
    ASSUME TypeOK, NEW w \in Works
    PROVE  /\ IsFiniteSet(RunningSteps(w)) /\ Cardinality(RunningSteps(w)) \in Nat
           /\ Cardinality(RunningSteps(w)) = 0 <=> RunningSteps(w) = {}
<1>1. IsFiniteSet(DOMAIN steps[w])
    BY FS_Interval, LenProperties DEF TypeOK, StoreOK
<1>2. IsFiniteSet(RunningSteps(w))
    BY <1>1, FS_Subset DEF RunningSteps
<1> QED BY <1>2, FS_CardinalityType, FS_EmptySet

\* Startup does not save an item before its running steps are interrupted.
LEMMA InterruptsComeFirst ==
    ASSUME TypeOK, Restarts(th[Main]), th[Main].todo # <<>>, Head(th[Main].todo) # Interrupt
    PROVE  RunningSteps(th[Main].w) = {} /\ Cardinality(RunningSteps(th[Main].w)) = 0
<1> DEFINE q == th[Main].todo
           n == Cardinality(RunningSteps(th[Main].w))
<1>1. q \in Seq(Call) /\ th[Main].w \in Works
    BY CallFacts, ThreadFacts DEF TypeOK, ThreadsOK, Thread
<1>2. 1 \in DOMAIN q /\ q[1] = Head(q)
    BY <1>1
<1>3. ~(1 <= n)
    BY <1>2 DEF Restarts
<1>4. n \in Nat /\ (n = 0 <=> RunningSteps(th[Main].w) = {})
    BY <1>1, RunningCounts
<1> HIDE DEF n
<1>5. n = 0
    BY <1>3, <1>4
<1> QED BY <1>4, <1>5 DEF n

LEMMA NewStates ==
    ASSUME NEW me \in Thread, NEW o \in Call, o.op \in {"move", "touch"}, Permitted(me, o)
    PROVE  \/ NewRecord(me, o).state = me.held.state /\ NewRecord(me, o).from = me.held.from
           \/ /\ o.op = "move" /\ o.a # me.held.state /\ o.a \in Allowed[me.held.state]
              /\ NewRecord(me, o).state = o.a
              /\ NewRecord(me, o).from = IF o.a = "paused" THEN me.held.state ELSE "none"
<1>1. me.held \in Item
    BY DEF Thread
<1>2. CASE o.op = "touch"
    BY <1>1, <1>2 DEF NewRecord, WithProgress, Item
<1>3. CASE o.op = "move"
    BY <1>1, <1>3 DEF NewRecord, Transition, Permitted, CanMove
<1> QED BY <1>2, <1>3

\* The saves of the main thread leave an item with a running step running, paused
\* or cancelled.
LEMMA MainLeaves ==
    ASSUME Recovering, DoSave(Main), NEW w \in Works, th[Main].w = w, RunningSteps(w) # {},
           NEW o, o = Head(th[Main].todo), o.op = "move", o.a # item[w].state,
           o.a \in Allowed[item[w].state], th[Main].held = item[w]
    PROVE  o.a \in {"paused", "cancelled", "running"} /\ (o.a = "paused" => item[w].state = "running")
<1>1. TypeOK /\ Execution /\ th[Main].todo # <<>> /\ up # "down" /\ Main \in Threads
    BY ThreadFacts DEF Recovering, Sealing, Pausing, Execution, Versions, DoSave, Calls
<1>2. th[Main].todo \in Seq(Call)
    BY <1>1 DEF TypeOK, ThreadsOK, Thread
<1>3. 1 \in DOMAIN th[Main].todo /\ th[Main].todo[1] = o
    BY <1>1, <1>2
<1>4. Leavable(item[w])
    BY DEF Recovering, Recoverable, RowsLeavable
<1>5. up = "up"
  <2> SUFFICES ASSUME up # "up" PROVE FALSE
      OBVIOUS
  <2>1. up = "starting"
      BY <1>1 DEF TypeOK, EnvOK
  <2>2. Restarts(th[Main])
      BY <1>1, <2>1 DEF Recovering, Recoverable, Restarting
  <2>3. Interrupt.op # "move"
      BY CallOps
  <2> QED BY <1>1, <2>2, <2>3, InterruptsComeFirst
<1>6. Duty(th[Main], 1) /\ ~Vital(o)
    BY <1>3, <1>5 DEF Recovering, Recoverable, Duties, Dutiful, VitalAlone
<1>7. \/ o.a \in {"paused", "cancelled"}
      \/ item[w].state = "paused" /\ o.a = ResumeTarget(item[w])
    BY <1>3, <1>6 DEF Duty, Vital
<1>8. item[w].state = "cancelled" => Allowed[item[w].state] = {}
    BY DEF Allowed, WorkStates, Waiting, Terminal
<1>9. item[w].state = "paused" => ResumeTarget(item[w]) = "running"
    BY <1>4 DEF Leavable, ResumeTarget
<1> QED BY <1>4, <1>7, <1>8, <1>9 DEF Leavable

LEMMA RowsLeavableNext ==
    ASSUME Recovering, [Next]_vars
    PROVE  RowsLeavable'
<1> SUFFICES ASSUME NEW w \in Works, NEW i \in RunningSteps(w)'
             PROVE  Leavable(item'[w])
    BY DEF RowsLeavable
<1>1. TypeOK /\ Execution /\ Versions
    BY DEF Recovering, Sealing, Pausing, Execution, Versions
<1>2. CASE i \in RunningSteps(w)
  <2>1. Leavable(item[w])
      BY <1>2 DEF Recovering, Recoverable, RowsLeavable
  <2>2. CASE item'[w] = item[w]
      BY <2>1, <2>2
  <2>3. ASSUME NEW t \in Threads, DoSave(t), th[t].w = w, th[t].held = item[w],
               item'[w] = NewRecord(th[t], Head(th[t].todo))
        PROVE  Leavable(item'[w])
    <3> DEFINE me == th[t]
               o  == Head(th[t].todo)
    <3>1. me \in Thread /\ o \in Call /\ o.op \in {"move", "touch"} /\ Permitted(me, o)
          /\ StoreCall(t) /\ th[t].todo # <<>>
        BY <1>1, <2>3, CallFacts DEF DoSave, Calls, TypeOK, StoreCall
    <3> HIDE DEF me, o
    <3>2. CASE item'[w].state = me.held.state /\ item'[w].from = me.held.from
        BY <2>1, <2>3, <3>2 DEF Leavable, me
    <3>3. CASE /\ o.op = "move" /\ o.a # me.held.state /\ o.a \in Allowed[me.held.state]
               /\ item'[w].state = o.a
               /\ item'[w].from = IF o.a = "paused" THEN me.held.state ELSE "none"
      <4>1. CASE t = Main
        <5>1. /\ o.a \in {"paused", "cancelled", "running"}
              /\ o.a = "paused" => item[w].state = "running"
            BY <1>2, <2>3, <3>3, <4>1, MainLeaves DEF me, o
        <5> QED BY <2>3, <3>3, <5>1 DEF Leavable, me
      <4>2. CASE t \in Execs
        <5>1. t = <<w, 0>> /\ up = "up"
            BY <1>1, <2>3, <3>1, <4>2, CallBasics, TheOnlyExecution DEF Recovering
        <5>2. CASE item[w].state = "cancelled"
          <6>1. Allowed["cancelled"] = {}
              BY DEF Allowed, WorkStates, Waiting, Terminal
          <6> QED BY <2>3, <3>3, <5>2, <6>1 DEF me
        <5>3. CASE item[w].state # "cancelled"
          <6>1. AtWork(th[t])
              BY <1>2, <5>1, <5>3 DEF Recovering, Recoverable, Attended
          <6>2. o.op \in {"touch", "mark"}
              BY <3>1, <6>1, StartCalls DEF AtWork, OnItsRow, o
          <6> QED BY <3>3, <6>2
        <5> QED BY <5>2, <5>3
      <4> QED BY <4>1, <4>2, ThreadFacts
    <3> QED BY <2>3, <3>1, <3>2, <3>3, NewStates DEF me, o
  <2> QED BY <1>1, <2>1, <2>2, <2>3, ItemWrites DEF Leavable
<1>3. ASSUME NEW e \in Execs, DoMark(e), e[1] = w, AtBegin(e)
      PROVE  Leavable(item'[w])
  <2>1. item' = item
      BY <1>3 DEF DoMark
  <2>2. th[e].held = item[w] /\ th[e].held.state = "running"
      BY <1>1, <1>3, ExecutorLists, StartLists
         DEF Recovering, Recoverable, Timely, AtBegin
  <2> QED BY <2>1, <2>2 DEF Leavable
<1> QED BY <1>2, <1>3, RunningRows

-----------------------------------------------------------------------------
(* What the owner's commands leave to do *)

DutyFree == {o \in Call : /\ ~Begins(o)
                          /\ o.op = "move" => o.a \in {"paused", "cancelled", "failed", "retrying"}}

VitalFree == {o \in Call : ~Vital(o)}

LEMMA DutyFreeCalls ==
    /\ {Launch, Clear, Notify, Read, Restart, Bind, Touch("keep"), Send("cancel"),
        Send("resume"), Add("note"), Mark("completed", ""), Move("paused", "keep"),
        Move("cancelled", "keep"), Move("failed", "none"), Move("failed", "keep"),
        Move("retrying", "none")} \subseteq DutyFree
    /\ {Clear, Notify, Read, Bind, Touch("keep"), Send("cancel"), Send("resume"), Add("note"),
        Mark("completed", ""), Move("paused", "keep"), Move("cancelled", "keep")}
           \subseteq VitalFree
<1>1. /\ "note" \in StepKinds /\ "completed" \in StepStates /\ "" \in Observed
      /\ {"paused", "cancelled", "failed", "retrying"} \subseteq WorkStates
    BY DEF StepKinds, StepStates, Observed, WorkStates, Waiting, Terminal
<1>2. /\ {Launch, Clear, Notify, Read, Restart, Bind, Touch("keep"), Send("cancel"),
          Send("resume"), Add("note"), Mark("completed", ""), Move("paused", "keep"),
          Move("cancelled", "keep"), Move("failed", "none"), Move("failed", "keep"),
          Move("retrying", "none")} \subseteq Call
    BY <1>1, CallTypes
<1>3. /\ Launch.op = "submit" /\ Restart.op = "restart" /\ Bind.op = "bind"
      /\ \A c : Send(c).op = "send"
      /\ Mark("completed", "").op = "mark" /\ Mark("completed", "").a = "completed"
    BY DEF Launch, Restart, Bind, Send, Mark, Op
<1>4. \A o \in {Launch, Clear, Notify, Read, Restart, Bind, Touch("keep"), Send("cancel"),
                Send("resume"), Add("note")} : o.op \notin {"move", "mark"}
    BY <1>3, CallOps
<1>5. \A o \in {Clear, Notify, Read, Bind, Touch("keep"), Send("cancel"), Send("resume"),
                Add("note"), Mark("completed", "")} : o.op \notin {"submit", "restart", "move"}
    BY <1>3, CallOps
<1>6. \A o \in {Move("paused", "keep"), Move("cancelled", "keep"), Move("failed", "none"),
                Move("failed", "keep"), Move("retrying", "none")} :
          o.op = "move" /\ o.a \in {"paused", "cancelled", "failed", "retrying"}
    BY CallOps
<1>7. \A o \in {Move("paused", "keep"), Move("cancelled", "keep")} :
          o.op = "move" /\ o.a \in {"paused", "cancelled"}
    BY CallOps
<1>8. {Launch, Clear, Notify, Read, Restart, Bind, Touch("keep"), Send("cancel"),
       Send("resume"), Add("note")} \subseteq DutyFree
    BY <1>2, <1>4 DEF DutyFree, Begins
<1>9. {Move("paused", "keep"), Move("cancelled", "keep"), Move("failed", "none"),
       Move("failed", "keep"), Move("retrying", "none")} \subseteq DutyFree
    BY <1>2, <1>6 DEF DutyFree, Begins
<1>10. Mark("completed", "") \in DutyFree
    BY <1>2, <1>3, CallOps DEF DutyFree, Begins
<1>11. {Clear, Notify, Read, Bind, Touch("keep"), Send("cancel"), Send("resume"),
        Add("note"), Mark("completed", "")} \subseteq VitalFree
    BY <1>2, <1>5 DEF VitalFree, Vital
<1>12. {Move("paused", "keep"), Move("cancelled", "keep")} \subseteq VitalFree
    BY <1>2, <1>7 DEF VitalFree, Vital
<1> QED BY <1>8, <1>9, <1>10, <1>11, <1>12

\* The lists of the commands that start an execution, or report that none started.
Grave == {<<Launch>>, Again, <<Move("failed", "none"), Notify>>,
          <<Read, Move("failed", "keep"), Notify>>}

LEMMA ErrandDuties ==
    ASSUME NEW rec, rec.held \in Item, Errand(rec.todo, rec.held)
    PROVE  /\ \A i \in DOMAIN rec.todo : Duty(rec, i)
           /\ rec.todo \in Grave \cup Seq(VitalFree)
<1> DEFINE q == rec.todo
<1>1. q \in Seq(DutyFree) => \A i \in DOMAIN q : Duty(rec, i)
    BY DEF Duty, DutyFree
<1>2. CASE q \in {<<>>, <<Clear>>, <<Send("cancel")>>, <<Move("paused", "keep")>>,
              <<Touch("keep")>>, <<Move("cancelled", "keep"), Clear>>,
              <<Read, Move("paused", "keep")>>}
  <2>1. /\ <<>> \in Seq(DutyFree) /\ <<Clear>> \in Seq(DutyFree)
        /\ <<Send("cancel")>> \in Seq(DutyFree) /\ <<Move("paused", "keep")>> \in Seq(DutyFree)
        /\ <<Touch("keep")>> \in Seq(DutyFree)
        /\ <<Move("cancelled", "keep"), Clear>> \in Seq(DutyFree)
        /\ <<Read, Move("paused", "keep")>> \in Seq(DutyFree)
      BY DutyFreeCalls, ShortSeqs
  <2>2. /\ <<>> \in Seq(VitalFree) /\ <<Clear>> \in Seq(VitalFree)
        /\ <<Send("cancel")>> \in Seq(VitalFree) /\ <<Move("paused", "keep")>> \in Seq(VitalFree)
        /\ <<Touch("keep")>> \in Seq(VitalFree)
        /\ <<Move("cancelled", "keep"), Clear>> \in Seq(VitalFree)
        /\ <<Read, Move("paused", "keep")>> \in Seq(VitalFree)
      BY DutyFreeCalls, ShortSeqs
  <2>3. q \in Seq(DutyFree)
      BY <1>2, <2>1
  <2>4. q \in Seq(VitalFree)
      BY <1>2, <2>2
  <2> QED BY <1>1, <2>3, <2>4
<1>3. CASE q \in Grave
  <2>1. <<Launch>> \in Seq(DutyFree) /\ <<Move("failed", "none"), Notify>> \in Seq(DutyFree)
        /\ <<Read, Move("failed", "keep"), Notify>> \in Seq(DutyFree)
      BY DutyFreeCalls, ShortSeqs
  <2>2. Again \in Seq(DutyFree)
      BY DutyFreeCalls, ShortSeqs DEF Again
  <2>3. q \in Seq(DutyFree)
      BY <1>3, <2>1, <2>2 DEF Grave
  <2> QED BY <1>1, <1>3, <2>3
<1>4. CASE rec.held.state = "paused"
           /\ q = <<Move(ResumeTarget(rec.held), "keep"), Send("resume")>>
  <2> DEFINE to == ResumeTarget(rec.held)
  <2>1. to \in WorkStates /\ to \notin {"failed", "retrying"}
      BY DEF ResumeTarget, WorkStates, Waiting, Terminal
  <2>2. Move(to, "keep") \in Call /\ Move(to, "keep").op = "move" /\ Move(to, "keep").a = to
      BY <2>1, CallTypes, CallOps
  <2>3. Move(to, "keep") \in VitalFree /\ ~Begins(Move(to, "keep"))
      BY <2>1, <2>2 DEF VitalFree, Vital, Begins
  <2> HIDE DEF to
  <2>4. q \in Seq(VitalFree)
    <3>1. <<Move(to, "keep"), Send("resume")>> \in Seq(VitalFree)
        BY <2>3, DutyFreeCalls, ShortSeqs
    <3> QED BY <1>4, <3>1 DEF to
  <2>5. DOMAIN q = {1, 2} /\ q[1] = Move(to, "keep") /\ q[2] = Send("resume")
      BY <1>4 DEF to
  <2>6. Duty(rec, 1)
      BY <1>4, <2>2, <2>3, <2>5 DEF Duty, to
  <2>7. Send("resume").op = "send"
      BY DEF Send, Op
  <2>8. Duty(rec, 2)
      BY <2>5, <2>7 DEF Duty, Begins
  <2> QED BY <2>4, <2>5, <2>6, <2>8
<1> QED BY <1>2, <1>3, <1>4 DEF Errand, Grave, Again

LEMMA GraveStarts ==
    ASSUME NEW q \in Grave
    PROVE  q \notin Seq(StartFree)
<1>1. /\ Launch.op = "submit" /\ Restart.op = "restart"
      /\ \A s : Move("failed", s).op = "move" /\ Move("failed", s).a = "failed"
    BY CallOps DEF Launch, Restart, Op
<1>2. Starts(Launch) /\ Starts(Restart) /\ \A s : Starts(Move("failed", s))
    BY <1>1 DEF Starts, Fails
<1>3. \E i \in DOMAIN q : Starts(q[i])
  <2>1. CASE q = <<Launch>>
      BY <1>2, <2>1
  <2>2. CASE q = Again
    <3>1. 4 \in DOMAIN Again /\ Again[4] = Restart
        BY DEF Again
    <3> QED BY <1>2, <2>2, <3>1
  <2>3. CASE q = <<Move("failed", "none"), Notify>>
    <3>1. 1 \in DOMAIN q /\ q[1] = Move("failed", "none")
        BY <2>3
    <3> QED BY <1>2, <3>1
  <2>4. CASE q = <<Read, Move("failed", "keep"), Notify>>
    <3>1. 2 \in DOMAIN q /\ q[2] = Move("failed", "keep")
        BY <2>4
    <3> QED BY <1>2, <3>1
  <2> QED BY <2>1, <2>2, <2>3, <2>4 DEF Grave
<1> QED BY <1>3 DEF StartFree

\* While the main thread is busy for an item, nobody begins a step of it.
LEMMA NobodyBegins ==
    ASSUME Recovering, [Next]_vars, th[Main].todo # <<>>, RunningSteps(th[Main].w) = {},
           th'[Main].w = th[Main].w
    PROVE  RunningSteps(th[Main].w)' = {}
<1>1. /\ th[Main].w \in Works /\ Main \in Threads /\ Main \notin Execs
    BY CallFacts, ThreadFacts DEF Recovering, Sealing, Pausing, Execution, Versions, TypeOK
<1>2. PICK w \in Works : w = th[Main].w
    BY <1>1
<1>3. ASSUME NEW i \in RunningSteps(w)' PROVE FALSE
  <2>1. PICK e \in Execs : DoMark(e) /\ e[1] = w /\ AtBegin(e)
      BY <1>2, <1>3, RunningRows
  <2>2. th[e].pc = "exec" /\ th[e].todo # <<>>
      BY <2>1, StartLists DEF AtBegin
  <2> QED BY <1>1, <1>2, <2>1, <2>2, NobodyElseSaves
<1> QED BY <1>2, <1>3 DEF RunningSteps

\* The end of startup leaves the main thread nothing to do.
LEMMA BootEnds ==
    ASSUME TypeOK, [Next]_vars, up = "up", up' = "up", th[Main].pc = "boot",
           th[Main].todo = <<>>
    PROVE  th'[Main].todo = <<>>
<1>1. Main \in Threads /\ Main \notin Execs /\ th \in [Threads -> Thread]
    BY ThreadFacts DEF TypeOK, ThreadsOK
<1>2. ASSUME NEW t \in Threads, StoreCall(t) PROVE th'[Main] = th[Main]
  <2>1. t # Main
      BY <1>2, StoreCallRuns
  <2> QED BY <1>1, <1>2, <2>1, StoreCallMoves DEF OthersKeep
<1>3. ASSUME NEW e \in Execs, EngineStep(e) PROVE th'[Main] = th[Main]
    BY <1>1, <1>3, EngineMoves
<1>4. ASSUME NEW e \in Execs, WorkflowStep(e) PROVE th'[Main] = th[Main]
    BY <1>1, <1>4 DEF WorkflowStep, StepReturns, StepRaises, ReceiveAnswer, ReceiveControl, volatile
<1>5. ~OwnerStep
  <2>1. Idle(Owner).pc # "boot"
      BY IdleIsFree
  <2> QED BY <2>1 DEF OwnerStep, OwnerStart, OwnerPause, OwnerResume, OwnerCancel,
             OwnerRetry, OwnerReprioritize, OwnerAnswer, Commanded
<1>6. ~CancelAgain /\ ~BootStart /\ ~BootLaunch /\ ~BackendFault(Main) /\ ~Crash
      /\ ~\E w \in Works : BootInterrupted(w)
    BY DEF CancelAgain, BootStart, BootLaunch, BackendFault, Calls, Crash, BootInterrupted, AtBoot
<1>7. BootResubmit => th'[Main].todo = <<>>
  <2>1. Idle(Owner).todo = <<>>
      BY IdleIsFree
  <2> QED BY <1>1, <2>1, RunMoves DEF BootResubmit
<1>8. UNCHANGED vars => th'[Main] = th[Main]
    BY DEF vars
<1> QED BY <1>2, <1>3, <1>4, <1>5, <1>6, <1>7, <1>8 DEF Next, MainStep

LEMMA DutiesNext ==
    ASSUME Recovering, [Next]_vars
    PROVE  Duties'
<1> DEFINE me == th[Main]
           q  == th[Main].todo
<1> SUFFICES ASSUME up' = "up"
             PROVE  /\ th'[Main].pc = "boot" => th'[Main].todo = <<>>
                    /\ Dutiful' /\ VitalAlone'
    BY DEF Duties
<1>1. /\ TypeOK /\ Execution /\ Sealing /\ Starting /\ Main \in Threads
      /\ th'[Main].held \in Item /\ ~Crash
    BY ThreadFacts, TypesNext DEF Recovering, Sealing, Pausing, Execution, Versions, TypeOK,
       ThreadsOK, Thread, Crash
<1>2. CASE th'[Main].todo = <<>>
    BY <1>2 DEF Dutiful, VitalAlone
<1>3. CASE up = "up" /\ th[Main].pc = "boot"
    BY <1>1, <1>2, <1>3, BootEnds DEF Recovering, Recoverable, Duties, Dutiful, VitalAlone
<1>4. ASSUME up = "up", th[Main].pc # "boot", th'[Main] = th[Main]
      PROVE  Dutiful' /\ VitalAlone'
  <2>1. Dutiful'
      BY <1>4 DEF Recovering, Recoverable, Duties, Dutiful, VitalAlone
  <2>2. VitalAlone'
    <3> SUFFICES ASSUME NEW i \in DOMAIN q, Vital(q[i]) PROVE RunningSteps(th[Main].w)' = {}
        BY <1>4 DEF VitalAlone
    <3>1. RunningSteps(me.w) = {} /\ q # <<>>
        BY <1>4 DEF Recovering, Recoverable, Duties, Dutiful, VitalAlone
    <3> QED BY <1>4, <3>1, NobodyBegins
  <2> QED BY <2>1, <2>2
<1>5. ASSUME up = "up", th[Main].pc # "boot", StoreCall(Main), th'[Main].todo # <<>>
      PROVE  th'[Main].pc # "boot" /\ Dutiful' /\ VitalAlone'
  <2>1. q \in Seq(Call) /\ q # <<>>
      BY <1>1, <1>5, CallBasics
  <2>2. /\ th'[Main].todo = Tail(q) /\ th'[Main].pc = me.pc /\ th'[Main].w = me.w
      BY <1>1, <1>5, CallMoves, IdleIsFree
  <2>3. \A i \in DOMAIN Tail(q) : /\ i + 1 \in DOMAIN q /\ i + 1 # 1
                                  /\ Tail(q)[i] = q[i + 1]
      BY <2>1
  <2>4. Dutiful'
    <3> SUFFICES ASSUME NEW i \in DOMAIN Tail(q) PROVE Duty(th'[Main], i)
        BY <2>2 DEF Dutiful
    <3>1. Duty(me, i + 1)
        BY <1>5, <2>3 DEF Recovering, Recoverable, Duties, Dutiful, VitalAlone
    <3> QED BY <2>2, <2>3, <3>1 DEF Duty
  <2>5. VitalAlone'
    <3> SUFFICES ASSUME NEW i \in DOMAIN Tail(q), Vital(Tail(q)[i])
                 PROVE  RunningSteps(th[Main].w)' = {}
        BY <2>2 DEF VitalAlone
    <3>1. RunningSteps(me.w) = {}
        BY <1>5, <2>3 DEF Recovering, Recoverable, Duties, Dutiful, VitalAlone
    <3> QED BY <2>1, <2>2, <3>1, NobodyBegins
  <2> QED BY <1>5, <2>2, <2>4, <2>5
<1>6. ASSUME th'[Main].pc # "boot", Errand(th'[Main].todo, th'[Main].held),
             th'[Main].todo \in Grave => RunningSteps(th[Main].w)' = {}
      PROVE  th'[Main].pc # "boot" /\ Dutiful' /\ VitalAlone'
  <2>1. Dutiful' /\ th'[Main].todo \in Grave \cup Seq(VitalFree)
      BY <1>1, <1>6, ErrandDuties DEF Dutiful
  <2>2. th'[Main].todo \in Seq(VitalFree) => VitalAlone'
      BY DEF VitalFree, VitalAlone
  <2> QED BY <1>6, <2>1, <2>2 DEF VitalAlone
<1>7. ASSUME NEW w \in Works, steps' = steps, item[w].state \in {"absent", "failed"}
      PROVE  RunningSteps(w)' = {}
    BY <1>7 DEF Recovering, Recoverable, RowsLeavable, Leavable, RunningSteps
<1>8. ASSUME OwnerStep, th'[Main] # th[Main]
      PROVE  th'[Main].pc # "boot" /\ Dutiful' /\ VitalAlone'
  <2>1. Errand(th'[Main].todo, th'[Main].held) /\ th'[Main].pc # "boot"
      BY <1>1, <1>8, OwnerErrands, OwnerStarts
  <2>2. steps' = steps
      BY <1>8 DEF OwnerStep, OwnerStart, OwnerPause, OwnerResume, OwnerCancel, OwnerRetry,
         OwnerReprioritize, OwnerAnswer, storeVars
  <2>3. ASSUME th'[Main].todo \in Grave PROVE RunningSteps(th[Main].w)' = {}
    <3>1. PICK w \in Works : w = th'[Main].w /\ item[w].state \in {"absent", "failed"}
        BY <1>1, <1>8, <2>3, OwnerStarts, GraveStarts DEF Exists
    <3>2. RunningSteps(w)' = {}
        BY <1>7, <2>2, <3>1
    <3> QED BY <3>1, <3>2
  <2> QED BY <1>1, <1>6, <2>1, <2>3
<1>9. ASSUME CancelAgain, th'[Main].todo # <<>>
      PROVE  th'[Main].pc # "boot" /\ Dutiful' /\ VitalAlone'
  <2> DEFINE it == item[th[Main].w]
  <2>1. Errand(<<Clear>>, it) /\ Errand(<<Move("cancelled", "keep"), Clear>>, it)
      BY DEF Errand
  <2>2. /\ <<Clear>> \in Seq(VitalFree) /\ <<Move("cancelled", "keep"), Clear>> \in Seq(VitalFree)
      BY DutyFreeCalls, ShortSeqs
  <2>3. PICK pc \in {"idle", "cancelled"}, calls \in Seq(VitalFree) :
            Segment(Main, it, pc, calls) /\ Errand(calls, it)
      BY <1>9, <2>1, <2>2 DEF CancelAgain, Only
  <2>4. /\ th'[Main].pc = pc /\ th'[Main].todo = calls /\ th'[Main].held = it
      BY <1>1, <1>9, <2>3, SegmentMoves, IdleIsFree
  <2>5. Dutiful'
      BY <1>1, <2>3, <2>4, ErrandDuties DEF Dutiful
  <2>6. VitalAlone'
      BY <2>3, <2>4 DEF VitalFree, VitalAlone
  <2> QED BY <2>3, <2>4, <2>5, <2>6
<1>10. ASSUME up = "up", BackendFault(Main), th'[Main].todo # <<>>
       PROVE  th'[Main].pc # "boot" /\ Dutiful' /\ VitalAlone'
  <2> DEFINE o   == Head(q)
             rec == [me EXCEPT !.pc = "idle", !.todo = OnFault(o.op, o.a)]
  <2>1. /\ q # <<>> /\ o.op \in {"submit", "restart", "send"} /\ Run(Main, rec)
        /\ steps' = steps
      BY <1>10 DEF BackendFault, Calls, storeVars
  <2>2. me \in Thread /\ q \in Seq(Call) /\ me.w \in Works
      BY <1>1, <2>1, CallFacts DEF TypeOK, ThreadsOK, Thread
  <2>3. rec.pc = "idle" /\ rec.todo = OnFault(o.op, o.a) /\ rec.w = me.w /\ rec.held = me.held
      BY <2>2 DEF Thread
  <2> HIDE DEF rec
  <2>4. th'[Main] = rec
      BY <1>1, <1>10, <2>1, RunMoves, IdleIsFree
  <2>5. Errand(OnFault(o.op, o.a), me.held)
      BY <2>1 DEF OnFault, Errand
  <2>6. CASE o.op \in {"submit", "restart"}
    <3>1. Vital(o) /\ 1 \in DOMAIN q /\ q[1] = o
        BY <2>1, <2>2, <2>6 DEF Vital
    <3>2. RunningSteps(me.w) = {}
        BY <1>10, <3>1 DEF Recovering, Recoverable, Duties, Dutiful, VitalAlone
    <3>3. RunningSteps(th[Main].w)' = {}
        BY <2>1, <2>3, <2>4, <3>2 DEF RunningSteps
    <3> QED BY <1>1, <1>6, <2>3, <2>4, <2>5, <3>3
  <2>7. CASE o.op = "send"
    <3>1. <<>> \in Seq(VitalFree) /\ <<Read, Move("paused", "keep")>> \in Seq(VitalFree)
        BY DutyFreeCalls, ShortSeqs
    <3>2. OnFault(o.op, o.a) \in {<<>>, <<Read, Move("paused", "keep")>>}
        BY <2>7 DEF OnFault
    <3>3. th'[Main].todo \in Seq(VitalFree)
        BY <2>3, <2>4, <3>1, <3>2
    <3>4. VitalAlone'
        BY <3>3 DEF VitalFree, VitalAlone
    <3>5. Dutiful'
        BY <1>1, <2>3, <2>4, <2>5, ErrandDuties DEF Dutiful
    <3> QED BY <2>3, <2>4, <3>4, <3>5
  <2> QED BY <2>1, <2>6, <2>7
<1>11. CASE up = "up" /\ th[Main].pc # "boot"
    BY <1>1, <1>2, <1>4, <1>5, <1>8, <1>9, <1>10, <1>11, MainActs
<1>12. CASE up # "up"
    BY <1>1, <1>2, <1>12, UpChanges
<1> QED BY <1>3, <1>11, <1>12

-----------------------------------------------------------------------------
(* Startup *)

\* While the process starts, nobody but the main thread makes a call.
LEMMA StartupStill ==
    ASSUME Execution, [Next]_vars, up # "up", ~StoreCall(Main)
    PROVE  item' = item /\ steps' = steps
<1>1. ASSUME NEW t \in Threads, StoreCall(t) PROVE FALSE
    BY <1>1, CallBasics, ThreadFacts
<1>2. ASSUME NEW e \in Execs, EngineStep(e) PROVE FALSE
    BY <1>2, EngineIsUp
<1>3. ~OwnerStep
    BY DEF OwnerStep, OwnerStart, OwnerPause, OwnerResume, OwnerCancel, OwnerRetry,
       OwnerReprioritize, OwnerAnswer, Commanded
<1>4. ASSUME \/ \E e \in Execs : WorkflowStep(e)
             \/ MainStep \/ BackendFault(Main) \/ Crash \/ UNCHANGED vars
      PROVE  item' = item /\ steps' = steps
    BY <1>4 DEF WorkflowStep, StepReturns, StepRaises, ReceiveAnswer, ReceiveControl, MainStep,
           CancelAgain, BootStart, BootLaunch, BootResubmit, BootInterrupted, BackendFault,
           Crash, Only, storeVars, vars
<1> QED BY <1>1, <1>2, <1>3, <1>4 DEF Next

\* The calls startup has left, after one of them.
LEMMA RestartsTail ==
    ASSUME TypeOK, Restarts(th[Main]), th[Main].todo # <<>>,
           th'[Main].todo = Tail(th[Main].todo), th'[Main].w = th[Main].w,
           Saves(Head(th[Main].todo)) \/ (th'[Main].held = th[Main].held /\ item' = item),
           Cardinality(RunningSteps(th[Main].w))' =
               IF Head(th[Main].todo) = Interrupt
               THEN Cardinality(RunningSteps(th[Main].w)) - 1 ELSE 0
    PROVE  Restarts(th[Main])'
<1> DEFINE me == th[Main]
           q  == th[Main].todo
           n  == Cardinality(RunningSteps(th[Main].w))
           k  == Cardinality(RunningSteps(th[Main].w))'
<1>1. q \in Seq(Call) /\ n \in Nat
    BY CallFacts, RunningCounts, ThreadFacts DEF TypeOK, ThreadsOK, Thread
<1>2. /\ Len(Tail(q)) = Len(q) - 1 /\ Len(q) \in Nat /\ Head(q) = q[1] /\ 1 \in DOMAIN q
      /\ \A i \in DOMAIN Tail(q) : /\ i \in Nat /\ i > 0 /\ i + 1 \in DOMAIN q
                                   /\ Tail(q)[i] = q[i + 1]
    BY <1>1
<1>3. /\ n <= Len(q)
      /\ \A i \in DOMAIN q : i <= n <=> q[i] = Interrupt
      /\ \A i \in DOMAIN q : Saves(q[i]) =>
            /\ me.held = item[me.w] /\ Leavable(me.held) /\ Active(me.held)
            /\ q[i].op = "move" => me.held.state = "running" /\ q[i].a = "waiting_for_owner"
            /\ \A j \in DOMAIN q : j > i => ~Saves(q[j])
    BY DEF Restarts
<1>4. (k = n - 1 /\ n > 0) \/ (k = 0 /\ n = 0)
  <2>1. CASE Head(q) = Interrupt
    <3>1. 1 <= n
        BY <1>2, <1>3, <2>1
    <3> QED BY <1>1, <2>1, <3>1
  <2>2. CASE Head(q) # Interrupt
      BY <2>2, InterruptsComeFirst
  <2> QED BY <2>1, <2>2
<1> HIDE DEF n, k
<1>5. k <= Len(Tail(q))
    BY <1>1, <1>2, <1>3, <1>4
<1>6. ASSUME NEW i \in DOMAIN Tail(q) PROVE i <= k <=> Tail(q)[i] = Interrupt
  <2>1. i + 1 <= n <=> Tail(q)[i] = Interrupt
      BY <1>2, <1>3
  <2>2. i \in Nat /\ i > 0
      BY <1>2
  <2> QED BY <1>1, <1>4, <2>1, <2>2
<1>7. ASSUME NEW i \in DOMAIN Tail(q), Saves(Tail(q)[i])
      PROVE  /\ th'[Main].held = item'[th'[Main].w]
             /\ Leavable(th'[Main].held) /\ Active(th'[Main].held)
             /\ Tail(q)[i].op = "move" =>
                   th'[Main].held.state = "running" /\ Tail(q)[i].a = "waiting_for_owner"
             /\ \A j \in DOMAIN Tail(q) : j > i => ~Saves(Tail(q)[j])
  <2>1. i + 1 \in DOMAIN q /\ Saves(q[i + 1]) /\ Tail(q)[i] = q[i + 1] /\ i + 1 > 1
      BY <1>2, <1>7
  <2>2. ~Saves(Head(q))
      BY <1>2, <1>3, <2>1
  <2>3. \A j \in DOMAIN Tail(q) : j > i => ~Saves(Tail(q)[j])
    <3> SUFFICES ASSUME NEW j \in DOMAIN Tail(q), j > i PROVE ~Saves(Tail(q)[j])
        OBVIOUS
    <3>1. j + 1 \in DOMAIN q /\ Tail(q)[j] = q[j + 1] /\ j + 1 > i + 1
        BY <1>2
    <3> QED BY <1>3, <2>1, <3>1
  <2> QED BY <1>3, <2>1, <2>2, <2>3
<1> QED BY <1>5, <1>6, <1>7 DEF Restarts, k

LEMMA RestartingNext ==
    ASSUME Recovering, [Next]_vars
    PROVE  Restarting'
<1> DEFINE me == th[Main]
           q  == th[Main].todo
<1> SUFFICES ASSUME up' = "starting", th'[Main].todo # <<>>
             PROVE  Restarts(th[Main])'
    BY DEF Restarting
<1>1. /\ TypeOK /\ Versions /\ Execution /\ Starting /\ Sealing /\ Main \in Threads
    BY ThreadFacts DEF Recovering, Sealing, Pausing, Execution, Versions
<1>2. up = "starting"
    BY <1>1, UpChanges
<1>3. CASE StoreCall(Main)
  <2>1. q \in Seq(Call) /\ q # <<>> /\ me.w \in Works /\ me \in Thread
      BY <1>1, <1>3, CallBasics
  <2>2. Restarts(me)
      BY <1>2, <2>1 DEF Recovering, Recoverable, Restarting
  <2>3. th'[Main].todo = Tail(q) /\ th'[Main].w = me.w
      BY <1>1, <1>3, CallMoves, IdleIsFree
  <2>4. q \in Seq(BootCalls) /\ Head(q) \in BootCalls
      BY <1>1, <1>2, <2>1 DEF Sealing, Orders
  <2>5. PICK w \in Works : w = me.w
      BY <2>1
  <2>6. CASE Head(q) = Interrupt
    <3>1. DoInterrupt(Main)
        BY <1>3, <2>6, CallOps DEF StoreCall, Calls, DoRead, DoSave, RejectSave, DoAdd, DoMark,
             DoNotify, DoBlocker, DoClear, DoSend, DoSubmit, DoRestart, DoBind
    <3>2. PICK i \in RunningSteps(w) :
              SaveStep(w, i, "interrupted", "") /\ Did(Main, [me EXCEPT !.sid = i])
        BY <2>5, <3>1 DEF DoInterrupt
    <3>3. /\ steps \in [Works -> Seq(StepRow)] /\ steps[w] \in Seq(StepRow)
          /\ i \in DOMAIN steps[w] /\ i \in Nat /\ item' = item
      <4>1. steps \in [Works -> Seq(StepRow)] /\ steps[w] \in Seq(StepRow)
          BY <1>1 DEF TypeOK, StoreOK
      <4>2. i \in DOMAIN steps[w]
          BY <2>5, <3>2 DEF RunningSteps
      <4>3. i \in Nat
          BY <4>1, <4>2
      <4>4. item' = item
          BY <3>1 DEF DoInterrupt
      <4> QED BY <4>1, <4>2, <4>3, <4>4
    <3>4. th'[Main].held = me.held
      <4> DEFINE rec == [me EXCEPT !.sid = i]
      <4>1. rec \in Thread /\ rec.held = me.held /\ rec.todo = q /\ rec.w = me.w /\ rec.pc = me.pc
          BY <2>1, <3>3 DEF Thread
      <4>2. Did(Main, rec)
          BY <3>2
      <4> HIDE DEF rec
      <4> QED BY <1>1, <4>1, <4>2, DidMoves, IdleIsFree
    <3>5. /\ DOMAIN steps'[w] = DOMAIN steps[w] /\ steps'[w][i].st = "interrupted"
          /\ \A j \in DOMAIN steps[w] : j # i => steps'[w][j] = steps[w][j]
      <4>1. PICK obs : SaveStep(w, i, "interrupted", obs)
          BY <3>2
      <4>2. /\ \A v \in Works : DOMAIN steps'[v] = DOMAIN steps[v]
            /\ steps'[w][i].st = "interrupted"
            /\ \A v \in Works : \A j \in DOMAIN steps[v] :
                  v # w \/ j # i => steps'[v][j] = steps[v][j]
          BY <2>5, <3>3, <4>1, SaveStepRows
      <4> QED BY <2>5, <3>3, <4>2
    <3>6. RunningSteps(w)' = RunningSteps(w) \ {i}
        BY <3>5 DEF RunningSteps
    <3>7. Cardinality(RunningSteps(w))' = Cardinality(RunningSteps(w)) - 1
        BY <1>1, <3>2, <3>6, RunningCounts, FS_RemoveElement
    <3> QED BY <1>1, <2>1, <2>2, <2>3, <2>5, <2>6, <3>3, <3>4, <3>7, RestartsTail
  <2>7. CASE Head(q) # Interrupt
    <3>1. RunningSteps(w) = {}
        BY <1>1, <2>1, <2>2, <2>5, <2>7, InterruptsComeFirst
    <3>2. Head(q).op \in {"notify", "touch", "move"}
        BY <2>4, <2>7, CallOps DEF BootCalls
    <3>3. DoNotify(Main) \/ DoSave(Main) \/ RejectSave(Main)
        BY <1>3, <3>2 DEF StoreCall, Calls, DoRead, DoAdd, DoMark, DoInterrupt,
             DoBlocker, DoClear, DoSend, DoSubmit, DoRestart, DoBind
    <3>4. steps' = steps
        BY <3>3 DEF DoNotify, DoSave, RejectSave, storeVars
    <3>5. RunningSteps(w)' = {}
        BY <3>1, <3>4 DEF RunningSteps
    <3>6. Cardinality(RunningSteps(w))' = 0
        BY <3>5, FS_EmptySet
    <3>7. Saves(Head(q)) \/ (th'[Main].held = me.held /\ item' = item)
      <4>1. CASE Head(q).op = "notify"
        <5>1. Did(Main, me) /\ item' = item
            BY <3>3, <4>1 DEF DoNotify, DoSave, RejectSave, Calls
        <5> QED BY <1>1, <2>1, <5>1, DidMoves, IdleIsFree
      <4> QED BY <3>2, <4>1 DEF Saves
    <3> QED BY <1>1, <2>1, <2>2, <2>3, <2>5, <2>7, <3>6, <3>7, RestartsTail
  <2> QED BY <2>6, <2>7
<1>4. CASE th'[Main] = th[Main] /\ ~StoreCall(Main)
  <2>1. item' = item /\ steps' = steps
      BY <1>1, <1>2, <1>4, StartupStill
  <2>2. Restarts(me)
      BY <1>2, <1>4 DEF Recovering, Recoverable, Restarting
  <2> QED BY <1>4, <2>1, <2>2 DEF Restarts, RunningSteps
<1>5. ASSUME NEW w \in Works, BootInterrupted(w) PROVE Restarts(th[Main])'
  <2> DEFINE n     == Cardinality(RunningSteps(w))
             marks == [i \in 1 .. n |-> Interrupt]
             tail  == IF item[w].state = "paused"
                      THEN <<Touch("own")>>
                      ELSE <<Move("waiting_for_owner", "own"), Notify>>
             calls == marks \o tail
             rec   == [me EXCEPT !.w = w, !.held = item[w], !.todo = calls]
  <2>1. /\ item' = item /\ steps' = steps /\ th'[Main].w = w /\ th'[Main].held = item[w]
        /\ th'[Main].todo # <<>>
      BY <1>1, <1>5, BootOrders
  <2>2. Run(Main, rec) /\ Active(item[w]) /\ RunningSteps(w) # {}
      BY <1>5 DEF BootInterrupted, Interrupted
  <2>3. rec.todo = calls
      BY <1>1 DEF TypeOK, ThreadsOK, Thread
  <2>4. th'[Main].todo = calls
    <3> HIDE DEF calls
    <3>1. rec.todo = calls
        BY <2>3
    <3> HIDE DEF rec
    <3> QED BY <1>1, <2>1, <2>2, <3>1, RunMoves, IdleIsFree
  <2>5. Leavable(item[w]) /\ item[w].state \in {"running", "paused"}
      BY <2>2 DEF Recovering, Recoverable, RowsLeavable, Leavable, Active, Terminal
  <2>6. n \in Nat
      BY <1>1, RunningCounts
  <2> HIDE DEF n
  <2>7. /\ Len(marks) = n /\ \A i \in 1 .. n : marks[i] = Interrupt
        /\ marks \in Seq({Interrupt})
      BY <2>6
  <2>8. /\ Len(tail) \in {1, 2} /\ tail \in Seq(Call)
        /\ tail[1] # Interrupt /\ Saves(tail[1])
        /\ tail[1].op = "move" => item[w].state = "running" /\ tail[1].a = "waiting_for_owner"
        /\ Len(tail) = 2 => tail[2] # Interrupt /\ ~Saves(tail[2])
    <3>1. /\ Touch("own").op = "touch" /\ Interrupt.op = "interrupt" /\ Notify.op = "notify"
          /\ Move("waiting_for_owner", "own").op = "move"
          /\ Move("waiting_for_owner", "own").a = "waiting_for_owner"
        BY CallOps
    <3>2. {Touch("own"), Notify, Move("waiting_for_owner", "own")} \subseteq Call
        BY CallTypes DEF WorkStates, Waiting
    <3>3. CASE item[w].state = "paused"
      <4>1. tail = <<Touch("own")>>
          BY <3>3
      <4> HIDE DEF tail
      <4>2. Len(tail) = 1 /\ tail[1] = Touch("own") /\ tail \in Seq(Call)
          BY <3>2, <4>1
      <4> QED BY <3>1, <4>2 DEF Saves
    <3>4. CASE item[w].state # "paused"
      <4>1. tail = <<Move("waiting_for_owner", "own"), Notify>>
          BY <3>4
      <4> HIDE DEF tail
      <4>2. /\ Len(tail) = 2 /\ tail[1] = Move("waiting_for_owner", "own") /\ tail[2] = Notify
            /\ tail \in Seq(Call)
          BY <3>2, <4>1
      <4> QED BY <2>5, <3>1, <3>4, <4>2 DEF Saves
    <3> QED BY <3>3, <3>4
  <2> HIDE DEF marks, tail
  <2>9. /\ Len(calls) = n + Len(tail) /\ DOMAIN calls = 1 .. (n + Len(tail))
        /\ \A i \in 1 .. n : calls[i] = Interrupt
        /\ calls[n + 1] = tail[1]
        /\ Len(tail) = 2 => calls[n + 2] = tail[2]
      BY <2>6, <2>7, <2>8
  <2>10. ~Saves(Interrupt)
      BY CallOps DEF Saves
  <2> HIDE DEF calls
  <2>17. \A i \in DOMAIN calls : /\ i \in Int
                                 /\ i \in 1 .. n \/ i = n + 1 \/ (i = n + 2 /\ Len(tail) = 2)
    <3> SUFFICES ASSUME NEW i \in 1 .. (n + Len(tail))
                 PROVE  /\ i \in Int
                        /\ i \in 1 .. n \/ i = n + 1 \/ (i = n + 2 /\ Len(tail) = 2)
        BY <2>9
    <3>1. CASE Len(tail) = 1
      <4>1. i \in 1 .. (n + 1)
          BY <3>1
      <4> QED BY <2>6, <4>1
    <3>2. CASE Len(tail) = 2
      <4>1. i \in 1 .. (n + 2)
          BY <3>2
      <4> QED BY <2>6, <3>2, <4>1
    <3> QED BY <2>8, <3>1, <3>2
  <2>11. \A i \in DOMAIN calls : i <= n <=> calls[i] = Interrupt
    <3> SUFFICES ASSUME NEW i \in DOMAIN calls PROVE i <= n <=> calls[i] = Interrupt
        OBVIOUS
    <3>1. CASE i \in 1 .. n
        BY <2>9, <3>1
    <3>2. CASE i = n + 1
        BY <2>6, <2>8, <2>9, <3>2
    <3>3. CASE i = n + 2 /\ Len(tail) = 2
        BY <2>6, <2>8, <2>9, <3>3
    <3> QED BY <2>17, <3>1, <3>2, <3>3
  <2>12. \A i \in DOMAIN calls : Saves(calls[i]) => i = n + 1
    <3> SUFFICES ASSUME NEW i \in DOMAIN calls, Saves(calls[i]) PROVE i = n + 1
        OBVIOUS
    <3>1. ~(i \in 1 .. n)
        BY <2>9, <2>10
    <3>2. ~(i = n + 2 /\ Len(tail) = 2)
        BY <2>8, <2>9
    <3> QED BY <2>17, <3>1, <3>2
  <2>13. \A i \in DOMAIN calls : Saves(calls[i]) =>
            /\ calls[i].op = "move" => item[w].state = "running" /\ calls[i].a = "waiting_for_owner"
            /\ \A j \in DOMAIN calls : j > i => ~Saves(calls[j])
      BY <2>6, <2>8, <2>9, <2>12
  <2>14. n <= Len(calls)
      BY <2>6, <2>8, <2>9
  <2>15. RunningSteps(w)' = RunningSteps(w)
      BY <2>1 DEF RunningSteps
  <2>16. Cardinality(RunningSteps(th[Main].w))' = n
      BY <2>1, <2>15 DEF n
  <2> HIDE DEF rec
  <2> QED BY <2>1, <2>2, <2>4, <2>5, <2>11, <2>13, <2>14, <2>16 DEF Restarts
<1>6. ~BootStart
    BY <1>2 DEF BootStart
<1> QED BY <1>1, <1>3, <1>4, <1>5, <1>6, MainMoves

\* Only a call that the store refuses can end startup with an exception.
LEMMA OnlyCallsRaise ==
    ASSUME TypeOK, [Next]_vars, ~StoreCall(Main), StartupNeverAborts
    PROVE  StartupNeverAborts'
<1>1. Main \in Threads /\ th[Main] \in Thread /\ th \in [Threads -> Thread]
      /\ th[Main].pc # "raise" /\ Idle(Owner).pc = "idle"
    BY ThreadFacts, IdleIsFree DEF TypeOK, ThreadsOK, StartupNeverAborts
<1>2. SUFFICES th'[Main].pc # "raise"
    BY DEF StartupNeverAborts
<1>3. ASSUME NEW t \in Threads, StoreCall(t) PROVE th'[Main] = th[Main]
    BY <1>1, <1>3, StoreCallMoves DEF OthersKeep
<1>4. ASSUME NEW e \in Execs, EngineStep(e) PROVE th'[Main] = th[Main]
    BY <1>1, <1>4, EngineMoves, ThreadFacts
<1>5. ASSUME NEW e \in Execs, WorkflowStep(e) PROVE th'[Main] = th[Main]
  <2>1. e # Main
      BY ThreadFacts
  <2> QED BY <1>1, <1>5, <2>1 DEF WorkflowStep, StepReturns, StepRaises, ReceiveAnswer,
             ReceiveControl, volatile, env
<1>6. ASSUME OwnerStep PROVE th'[Main].pc # "raise"
  <2>1. PICK w \in Works :
            \/ OwnerStart(w) \/ OwnerPause(w) \/ OwnerResume(w) \/ OwnerCancel(w)
            \/ OwnerRetry(w) \/ OwnerReprioritize(w) \/ OwnerAnswer(w)
      BY <1>6 DEF OwnerStep
  <2>2. ASSUME NEW held, NEW pc \in {"idle", "cancel"}, NEW calls,
               Command(w, held, pc, calls)
        PROVE  th'[Main].pc # "raise"
      BY <1>1, <2>2, CommandMoves
  <2>3. CASE OwnerAnswer(w)
      BY <1>1, <2>3 DEF OwnerAnswer, volatile
  <2>4. CASE OwnerCancel(w)
      BY <2>2, <2>4 DEF OwnerCancel
  <2>5. CASE OwnerStart(w)
      BY <2>2, <2>5 DEF OwnerStart
  <2>6. CASE OwnerPause(w) \/ OwnerReprioritize(w)
      BY <2>2, <2>6 DEF OwnerPause, OwnerReprioritize
  <2>7. CASE OwnerResume(w)
      BY <2>2, <2>7 DEF OwnerResume
  <2>8. CASE OwnerRetry(w)
    <3>1. Command(w, item[w], "idle", Again)
        BY <2>8 DEF OwnerRetry, Again
    <3> QED BY <2>2, <3>1
  <2> QED BY <2>1, <2>3, <2>4, <2>5, <2>6, <2>7, <2>8
<1>7. CASE CancelAgain
  <2>1. PICK it, pc, calls :
            pc \in {"idle", "cancelled"} /\ Only(Main, it, pc, calls)
      BY <1>7 DEF CancelAgain
  <2> DEFINE rec == [th[Main] EXCEPT !.pc = pc, !.held = it, !.todo = calls]
  <2>2. rec.pc = pc /\ Run(Main, rec)
      BY <1>1, <2>1 DEF Only, Segment, Thread
  <2> HIDE DEF rec
  <2> QED BY <1>1, <2>1, <2>2, RunMoves
<1>8. CASE BootStart
  <2>1. [th[Main] EXCEPT !.pc = "boot"].pc = "boot"
      BY <1>1 DEF Thread
  <2> QED BY <1>1, <1>8, <2>1 DEF BootStart
<1>9. CASE BootLaunch
    BY <1>1, <1>9 DEF BootLaunch, volatile
<1>10. CASE BootResubmit
    BY <1>1, <1>10, RunMoves DEF BootResubmit
<1>11. ASSUME NEW w \in Works, BootInterrupted(w) PROVE th'[Main].pc # "raise"
    BY <1>11, BootOrders
<1>12. CASE BackendFault(Main)
  <2> DEFINE o   == Head(th[Main].todo)
             rec == [th[Main] EXCEPT !.pc = "idle", !.todo = OnFault(o.op, o.a)]
  <2>1. rec.pc = "idle" /\ Run(Main, rec)
      BY <1>1, <1>12 DEF BackendFault, Thread
  <2> HIDE DEF rec
  <2> QED BY <1>1, <2>1, RunMoves
<1>13. CASE Crash
    BY <1>1, <1>13 DEF Crash, Main
<1>14. CASE UNCHANGED vars
    BY <1>1, <1>14 DEF vars
<1> QED BY <1>1, <1>3, <1>4, <1>5, <1>6, <1>7, <1>8, <1>9, <1>10, <1>11, <1>12, <1>13,
           <1>14 DEF Next, MainStep

\* The store takes every save of startup: the item is as it was read, in a state
\* that can wait for the owner, or paused.
LEMMA NothingIsRefused ==
    ASSUME Recovering, RejectSave(Main)
    PROVE  th[Main].pc # "boot"
<1> DEFINE me == th[Main]
           q  == th[Main].todo
<1> SUFFICES ASSUME me.pc = "boot" PROVE FALSE
    OBVIOUS
<1>1. Execution /\ StoreCall(Main) /\ Main \in Threads
    BY ThreadFacts DEF Recovering, Sealing, Pausing, StoreCall
<1>2. /\ q \in Seq(Call) /\ q # <<>> /\ up \in {"down", "starting", "up"}
      /\ up # "down" /\ Saves(Head(q))
      /\ ~(Permitted(me, Head(q)) /\ Fresh(me.w, me.held))
    BY <1>1, CallBasics DEF RejectSave, Calls, Saves, TypeOK, EnvOK
<1>3. up = "starting"
    BY <1>2 DEF Recovering, Recoverable, Duties
<1>4. Restarts(me) /\ 1 \in DOMAIN q /\ Head(q) = q[1]
    BY <1>2, <1>3 DEF Recovering, Recoverable, Restarting
<1>5. /\ me.held = item[me.w] /\ Active(me.held)
      /\ Head(q).op = "move" => me.held.state = "running" /\ Head(q).a = "waiting_for_owner"
    BY <1>2, <1>4 DEF Restarts
<1>6. Fresh(me.w, me.held)
    BY <1>5 DEF Fresh
<1>7. Permitted(me, Head(q))
    BY <1>5 DEF Permitted, CanMove, CanTouch, Allowed, Active, WorkStates, Waiting, Terminal
<1> QED BY <1>2, <1>6, <1>7

LEMMA StartupNeverAbortsNext ==
    ASSUME Recovering, [Next]_vars
    PROVE  StartupNeverAborts'
<1>1. Execution /\ TypeOK /\ Main \in Threads /\ StartupNeverAborts /\ th[Main] \in Thread
    BY ThreadFacts DEF Recovering, Recoverable, Sealing, Pausing, Execution, Versions, TypeOK,
       ThreadsOK
<1>2. CASE StoreCall(Main)
  <2>1. CASE RejectSave(Main)
    <3> DEFINE rec == [th[Main] EXCEPT !.todo = <<>>, !.pc = "cancel"]
               out == [th[Main] EXCEPT !.todo = <<>>, !.pc = "idle"]
    <3>1. Run(Main, rec) \/ Run(Main, out)
        BY <1>1, <2>1, NothingIsRefused DEF RejectSave, Raise
    <3>2. rec.pc = "cancel" /\ out.pc = "idle"
        BY <1>1 DEF Thread
    <3> HIDE DEF rec, out
    <3> QED BY <1>1, <3>1, <3>2, RunMoves, IdleIsFree DEF StartupNeverAborts
  <2>2. CASE ~RejectSave(Main)
      BY <1>1, <1>2, <2>2, CallMoves, IdleIsFree DEF StartupNeverAborts
  <2> QED BY <2>1, <2>2
<1>3. CASE ~StoreCall(Main)
    BY <1>1, <1>3, OnlyCallsRaise
<1> QED BY <1>2, <1>3

LEMMA RestartableInitially == Init => Restartable
<1> SUFFICES ASSUME Init
             PROVE  Restartable
    OBVIOUS
<1>1. Sealing
    BY SealingInitially
<1>2. \A t \in Threads : th[t].pc = "idle" /\ th[t].todo = <<>>
    BY IdleIsFree DEF Init
<1>3. \A w \in Works : RunningSteps(w) = {}
    BY DEF Init, StoreInit, RunningSteps
<1>4. up = "up" /\ Main \in Threads /\ Execs \subseteq Threads
    BY ThreadFacts DEF Init
<1>5. BusyIsLive /\ BeginsInLease
    BY <1>2, <1>4 DEF BusyIsLive, BeginsInLease
<1>6. RowsLeavable /\ Attended /\ Timely
    BY <1>2, <1>3, <1>4 DEF RowsLeavable, Attended, Timely
<1>7. Duties /\ Restarting /\ StartupNeverAborts
    BY <1>2, <1>4 DEF Duties, Dutiful, VitalAlone, Restarting, StartupNeverAborts
<1> QED BY <1>1, <1>5, <1>6, <1>7 DEF Restartable, Recoverable

LEMMA RestartableNext == Restartable /\ [Next]_vars => Restartable'
<1> SUFFICES ASSUME Restartable, [Next]_vars
             PROVE  Restartable'
    OBVIOUS
<1>1. Sealing' /\ BusyIsLive' /\ BeginsInLease'
    BY SealingNext, BusyIsLiveNext, BeginsInLeaseNext DEF Restartable
<1>2. ASSUME Unretried' PROVE Recoverable'
  <2>1. Recovering
      BY <1>2, UnretriedBefore DEF Restartable, Recovering
  <2> QED BY <2>1, RowsLeavableNext, AttendedNext, TimelyNext, DutiesNext, RestartingNext,
             StartupNeverAbortsNext DEF Recoverable
<1> QED BY <1>1, <1>2 DEF Restartable

\* As long as no item was given a second execution, reconcile_interrupted_steps
\* never raises at startup: the process comes up again, wherever it crashed.
THEOREM StartupSurvives == Spec => [](Unretried => StartupNeverAborts)
<1>1. Restartable => (Unretried => StartupNeverAborts)
    BY DEF Restartable, Recoverable
<1> QED BY <1>1, RestartableInitially, RestartableNext, PTL DEF Spec
=============================================================================
