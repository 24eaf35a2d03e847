------------------------------ MODULE WorkStore ------------------------------
(***************************************************************************)
(* The SQLite WorkStore and the DBOS system database: everything that       *)
(* survives a crash.  Each operator below is one transaction; the processes *)
(* that call them, and can stop between any two of them, are in             *)
(* WorkThreads and the modules that extend it.                              *)
(***************************************************************************)
EXTENDS WorkModels, Sequences, FiniteSets

CONSTANTS Works,        \* identities of work items
          Answers,      \* texts the owner may answer a question with
          MaxRetries    \* retry executions an item may be given

ASSUME WorksAssumption == Works # {} /\ IsFiniteSet(Works)
ASSUME RetriesAssumption == MaxRetries \in Nat

VARIABLES item,     \* work_items
          steps,    \* work_steps, in creation order
          box,      \* work_deliveries, as the set of their event keys
          secret,   \* whether work_sensitive_inputs holds a value for the item
          ref,      \* work_execution_refs: 0 is the canonical execution
          wf,       \* DBOS workflow rows with their last checkpoint
          inbox,    \* DBOS notifications not yet received, by topic
          sent      \* idempotency keys DBOS has seen

storeVars == <<item, steps, box, secret, ref>>
dbosVars  == <<wf, inbox, sent>>

\* Execution <<w, 0>> has workflow id w; <<w, n>> is the n-th retry of w.
Execs == Works \X (0 .. MaxRetries)

StepKinds  == {"work", "note", "pressure", "owner_input"}
StepStates == {"planned", "running", "completed", "failed", "interrupted"}
Observed   == {"", "ask", "ask_secret", "redacted"} \cup Answers
StepRow    == [kind : StepKinds, st : StepStates, obs : Observed, ver : Nat]

Notice == [kind : {"completion", "failure", "owner_input", "blocker"}, ver : Nat]

Message == [text : Answers, ver : Nat, sealed : BOOLEAN]

WorkflowStates == {"none", "live", "done", "error"}
Checkpoints    == {"advance", "owner", "apply", "control", "fail"}

Workflow(msgs) == [st : WorkflowStates, at : Checkpoints, used : Nat, msg : msgs]

CONSTANT NoMessage   \* the value of msg while no owner answer is being applied

NoWorkflow == [st |-> "none", at |-> "advance", used |-> 0, msg |-> NoMessage]

StoreInit ==
    /\ item   = [w \in Works |-> Absent]
    /\ steps  = [w \in Works |-> <<>>]
    /\ box    = [w \in Works |-> {}]
    /\ secret = [w \in Works |-> FALSE]
    /\ ref    = [w \in Works |-> 0]
    /\ wf     = [e \in Execs |-> NoWorkflow]
    /\ inbox  = [e \in Execs |-> [owner |-> <<>>, control |-> <<>>]]
    /\ sent   = {}

-----------------------------------------------------------------------------
(* Reads *)

RunningSteps(w) == {i \in DOMAIN steps[w] : steps[w][i].st = "running"}

\* Consecutive failed steps at the end of the list.
TrailingFailures(w) ==
    LET n == Len(steps[w])
        Tails == {k \in 0 .. n : \A i \in (n - k + 1) .. n : steps[w][i].st = "failed"}
    IN  CHOOSE k \in Tails : \A j \in Tails : j <= k

\* The observation of the completed step the item is waiting on, if any.
Question(w) ==
    IF item[w].step \in DOMAIN steps[w] THEN steps[w][item[w].step].obs ELSE ""

AskedInSecret(w) == Question(w) = "ask_secret"

BoundExec(w) == <<w, ref[w]>>

-----------------------------------------------------------------------------
(* Writes *)

\* Mutant of Fresh: save() without the version in its WHERE clause.
FreshUnchecked(w, held) == TRUE

\* save(): compare-and-swap on the version.
Fresh(w, held) == item[w].ver = held.ver
PutItem(w, new) == item' = [item EXCEPT ![w] = new]

AddStep(w, row) == steps' = [steps EXCEPT ![w] = Append(@, row)]
SaveStep(w, i, st, obs) ==
    steps' = [steps EXCEPT ![w][i] = [@ EXCEPT !.st = st, !.obs = obs]]

\* enqueue_delivery(): idempotent by (work_id, event_key).
Enqueue(w, notice) == box' = [box EXCEPT ![w] = @ \cup {notice}]

\* Mutant of StateNotices: the question's event key does not name its version.
StateNoticesUnversioned(it) ==
    CASE it.state = "completed"         -> {[kind |-> "completion", ver |-> 0]}
      [] it.state = "failed"            -> {[kind |-> "failure", ver |-> it.ver]}
      [] it.state = "waiting_for_owner" -> {[kind |-> "owner_input", ver |-> 0]}
      [] OTHER                          -> {}

\* The delivery each state calls for (_ensure_state_delivery).
StateNotices(it) ==
    CASE it.state = "completed"         -> {[kind |-> "completion", ver |-> 0]}
      [] it.state = "failed"            -> {[kind |-> "failure", ver |-> it.ver]}
      [] it.state = "waiting_for_owner" -> {[kind |-> "owner_input", ver |-> it.ver]}
      [] OTHER                          -> {}

\* enqueue_workflow under a fixed workflow id: a no-op when the id is known,
\* whatever became of that workflow.
Submit(e) ==
    wf' = IF wf[e].st = "none" THEN [wf EXCEPT ![e].st = "live"] ELSE wf

\* DBOS.send under an idempotency key, to the control topic.
SendControl(e, command, ver) ==
    /\ sent' = sent \cup {<<e, command, ver>>}
    /\ inbox' = IF <<e, command, ver>> \in sent
                THEN inbox
                ELSE [inbox EXCEPT ![e].control = Append(@, command)]

SendOwner(e, m) ==
    /\ sent' = sent \cup {<<e, "owner", m.ver>>}
    /\ inbox' = IF <<e, "owner", m.ver>> \in sent
                THEN inbox
                ELSE [inbox EXCEPT ![e].owner = Append(@, m)]
=============================================================================
