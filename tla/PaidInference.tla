---------------------------- MODULE PaidInference ----------------------------
(***************************************************************************)
(* One logical request from its routing decision to its result: the free      *)
(* target first, the paid one when quota pressure allows it. Two lanes use    *)
(* the same store: the brain of a WorkItem (src/jarvis/work/reasoner.py,      *)
(* decide) and voice, hands and memory (src/jarvis/model_routing/invoker.py,   *)
(* invoke_scoped_structured). Each action is one transaction of the store, or  *)
(* the answer of a provider; any process may die between two of them.         *)
(***************************************************************************)
EXTENDS PaidBudget, FreeRecovery

CONSTANTS Item,   \* the WorkItem of each request in Work
          Hands,  \* the scoped requests for hands planning
          Kinds   \* bound of the model: how the free target may fail

ASSUME LaneAssumption ==
    /\ Hands \subseteq Scoped /\ Work \subseteq DOMAIN Item
    /\ Kinds \subseteq {"pressure", "transient", "contract", "unavailable", "rejected", "503"}

VARIABLES call,    \* what a process is doing for each request
          plan,    \* ordered_target_ids of its decision, {} while undecided
          tried,   \* the targets with a recorded failed attempt
          claim,   \* its invocation claim
          doubt    \* requests that may have been sent and have no outcome

requestVars == <<call, plan, tried, claim, doubt>>
vars == <<alive, ledgerVars, recoveryVars, requestVars>>

\* late: it left for the free target before the last pressure was recorded.
Idle == [pc |-> "idle", at |-> NoProc, target |-> "none", leased |-> FALSE, late |-> FALSE,
         left |-> {}, prev |-> "none", fault |-> "none", visits |-> 0]

Init ==
    /\ AliveInit /\ LedgerInit /\ RecoveryInit
    /\ call  = [r \in Requests |-> Idle]
    /\ plan  = [r \in Requests |-> {}]
    /\ tried = [r \in Requests |-> {}]
    /\ claim = [r \in Requests |-> "none"]
    /\ doubt = {}

Is(r, pc)  == call[r].pc = pc
Go(r, pc)  == call' = [call EXCEPT ![r].pc = pc]
End(r)     == call' = [call EXCEPT ![r] = Idle]
Sibling(q, r) == q \in Work /\ r \in Work /\ Item[q] = Item[r]

\* A lease that was claimed is given back before the call ends.
Quit(r) == IF call[r].leased THEN Go(r, "quit") ELSE End(r)

-----------------------------------------------------------------------------
(* Routing and the choice of a target *)

\* route: the decision of a request is durable. The paid target may be out for
\* reasons of its own.
Decide(r) ==
    IF plan[r] # {} THEN UNCHANGED <<plan, recoveryVars>>
    ELSE /\ \E paid \in SUBSET {"paid"} :
              plan' = [plan EXCEPT ![r] = paid \cup IF Eligible THEN {"free"} ELSE {}]
         /\ ResetExpired

\* A Work result that was saved is reused and a scoped claim is taken once:
\* neither reaches a provider again.
Wanted(r) == IF r \in Work
             THEN claim[r] # "result" /\ \A q \in Work : Sibling(q, r) => Is(q, "idle")
             ELSE claim[r] = "none"

Begin(r, p) ==
    /\ p \in alive
    /\ Is(r, "idle") /\ Wanted(r)
    /\ Decide(r)
    /\ plan'[r] # {}
    /\ call' = [call EXCEPT ![r] = [Idle EXCEPT
                    !.pc = "pick", !.at = p,
                    !.left = IF "paid" \in tried[r] THEN {} ELSE plan'[r] \ tried[r]]]
    /\ claim' = IF r \in Scoped THEN [claim EXCEPT ![r] = "open"] ELSE claim
    /\ UNCHANGED <<alive, ledgerVars, tried, doubt>>

\* _next_target: a degraded target is tried again after its own failure.
WantsFreeAgain(r) ==
    /\ "free" \in tried[r] /\ "paid" \notin tried[r]
    /\ call[r].prev # "refused lease"
    /\ Effective = "degraded"

WantsFree(r) ==
    /\ Is(r, "pick") /\ call[r].visits <= Cardinality(plan[r])
    /\ IF r \in Work THEN WantsFreeAgain(r) \/ ("free" \in call[r].left /\ Eligible)
                     ELSE "free" \in call[r].left

\* The paid target is for pressure on the free one, or for the failure of this
\* very request that hands planning may bypass.
WantsPaid(r) ==
    /\ Is(r, "pick") /\ call[r].visits <= Cardinality(plan[r])
    /\ ~WantsFree(r)
    /\ "paid" \in call[r].left
    /\ \/ health = "pressure"
       \/ r \in Scoped /\ call[r].prev \in {"pressure", "503"}

Visit(r, target, leased) ==
    call' = [call EXCEPT ![r].pc = IF r \in Work THEN "claim" ELSE "gate",
                         ![r].target = target, ![r].leased = leased,
                         ![r].left = @ \ {target}, ![r].visits = @ + 1]

PickFree(r) ==
    /\ WantsFree(r)
    /\ IF Cooldown THEN ClaimLease(r) /\ Visit(r, "free", TRUE)
       ELSE Visit(r, "free", FALSE) /\ UNCHANGED recoveryVars
    /\ UNCHANGED <<alive, ledgerVars, plan, tried, claim, doubt>>

SkipFree(r) ==
    /\ WantsFree(r)
    /\ Cooldown /\ LeaseRefused
    /\ call' = [call EXCEPT ![r].left = @ \ {"free"}, ![r].prev = "refused lease"]
    /\ UNCHANGED <<alive, ledgerVars, recoveryVars, plan, tried, claim, doubt>>

PickPaid(r) ==
    /\ WantsPaid(r)
    /\ Visit(r, "paid", FALSE)
    /\ UNCHANGED <<alive, ledgerVars, recoveryVars, plan, tried, claim, doubt>>

\* RoutingResourceBlocked, RoutedInferenceFailure or PaidBudgetDenied. Of the paid
\* target a WorkItem also asks whether it is in a cooldown of its own.
PickNothing(r) ==
    /\ Is(r, "pick")
    /\ ~WantsFree(r) /\ (WantsPaid(r) => r \in Work)
    /\ End(r)
    /\ UNCHANGED <<alive, ledgerVars, recoveryVars, plan, tried, claim, doubt>>

-----------------------------------------------------------------------------
(* Before the provider is asked *)

\* A WorkItem has an inference whose dispatch is on record and not its outcome.
Unresolved(r) ==
    \/ \E q \in Work : Sibling(q, r) /\ claim[q] = "open"
    \/ \E q \in Work : Sibling(q, r) /\ Pending(q)

\* Mutant of Claimable: only the claim of the same decision is looked at.
ClaimableAlone(r) == claim[r] # "open" /\ ~Pending(r)

Claimable(r) == ~Unresolved(r)

\* The request leaves for the free target.
SendFree(r) == call' = [call EXCEPT ![r].pc = "free", ![r].late = FALSE]

Proceed(r) ==
    CASE call[r].target = "paid" -> Go(r, "admit")
      [] call[r].leased          -> Go(r, "start")
      [] OTHER                   -> SendFree(r)

\* claim_work_invocation.
ClaimWork(r) ==
    /\ Is(r, "claim")
    /\ IF Claimable(r)
       THEN claim' = [claim EXCEPT ![r] = "open"] /\ Proceed(r)
       ELSE Quit(r) /\ UNCHANGED claim
    /\ UNCHANGED <<alive, ledgerVars, recoveryVars, plan, tried, doubt>>

\* before_dispatch: the source of the request is validated again, or it is over.
Validate(r) ==
    /\ Is(r, "gate")
    /\ Proceed(r) \/ Quit(r)
    /\ UNCHANGED <<alive, ledgerVars, recoveryVars, plan, tried, claim, doubt>>

StartProbe(r) ==
    /\ Is(r, "start")
    /\ StartLease(r, call[r].at)
    /\ SendFree(r)
    /\ UNCHANGED <<alive, ledgerVars, plan, tried, claim, doubt>>

\* Ownership changed before dispatch.
LoseProbe(r) ==
    /\ Is(r, "start") /\ ~Startable(r)
    /\ Quit(r)
    /\ UNCHANGED <<alive, ledgerVars, recoveryVars, plan, tried, claim, doubt>>

QuitLease(r) ==
    /\ Is(r, "quit")
    /\ ReleaseLease(r)
    /\ End(r)
    /\ UNCHANGED <<alive, ledgerVars, plan, tried, claim, doubt>>

-----------------------------------------------------------------------------
(* The free target answers *)

\* An attempt is on record: that of a Work request settles its claim.
Attempted(r, target) ==
    /\ tried' = [tried EXCEPT ![r] = @ \cup {target}]
    /\ claim' = IF r \in Work THEN [claim EXCEPT ![r] = "closed"] ELSE claim

FreeSucceeds(r) ==
    /\ Is(r, "free")
    /\ Go(r, "won")
    /\ UNCHANGED <<alive, ledgerVars, recoveryVars, plan, tried, claim, doubt>>

FreeFails(r) ==
    /\ Is(r, "free")
    /\ \E fault \in Kinds :
        /\ fault = "503" => r \in Hands
        /\ call' = [call EXCEPT ![r].pc = "failing", ![r].fault = fault]
    /\ Attempted(r, "free")
    /\ UNCHANGED <<alive, ledgerVars, recoveryVars, plan, doubt>>

\* The task of the request is cancelled while the provider has it: the owner
\* speaks, or JARVIS shuts down. No attempt resolves the claim.
FreeCancelled(r) ==
    /\ Is(r, "free")
    /\ doubt' = doubt \cup {r}
    /\ Quit(r)
    /\ UNCHANGED <<alive, ledgerVars, recoveryVars, plan, tried, claim>>

\* A 503 of hands planning admits the paid target and says nothing of pressure.
Bypasses(r) == call[r].fault = "503" /\ "paid" \in call[r].left

NotePressure(r) ==
    /\ Is(r, "failing") /\ call[r].fault = "pressure"
    /\ RecordPressure
    /\ call' = [q \in Requests |->
                   IF q = r THEN [call[q] EXCEPT !.pc = "after"]
                   ELSE [call[q] EXCEPT !.late = call[q].pc \in {"free", "won", "saved"}]]
    /\ UNCHANGED <<alive, ledgerVars, plan, tried, claim, doubt>>

NoteNothing(r) ==
    /\ Is(r, "failing") /\ Bypasses(r)
    /\ Go(r, "after")
    /\ UNCHANGED <<alive, ledgerVars, recoveryVars, plan, tried, claim, doubt>>

\* The record is read, and saved against the version that was read.
NoteFailure(r) ==
    /\ Is(r, "failing") /\ call[r].fault # "pressure" /\ ~Bypasses(r)
    /\ ReadHealth(r)
    /\ Go(r, "saving")
    /\ UNCHANGED <<alive, ledgerVars, plan, tried, claim, doubt>>

\* What apply_provider_failure makes of the failure; a first transient one is
\* worth another try.
Transient(r) == IF call[r].fault = "503" THEN "transient" ELSE call[r].fault

SaveHealth(r) ==
    /\ call[r].pc \in {"saving", "resaving"} /\ r \in fresh
    /\ SaveFailure(Transient(r))
    /\ call' = [call EXCEPT ![r].pc = "after",
                            ![r].fault = IF Transient(r) = "transient" /\ health = "healthy"
                                         THEN "retry" ELSE Transient(r)]
    /\ UNCHANGED <<alive, ledgerVars, plan, tried, claim, doubt>>

\* Another process wrote the record since: the Work lane reads it once more, the
\* scoped one raises out of the call.
SaveConflict(r) ==
    /\ call[r].pc \in {"saving", "resaving"} /\ r \notin fresh
    /\ IF r \in Work /\ Is(r, "saving")
       THEN Go(r, "resaving") /\ ReadHealth(r)
       ELSE End(r) /\ UNCHANGED recoveryVars
    /\ UNCHANGED <<alive, ledgerVars, plan, tried, claim, doubt>>

\* The request goes on to another target, or ends.
Continues(r) ==
    IF r \in Work THEN call[r].fault # "rejected"
    ELSE \/ call[r].fault \in {"pressure", "503"}
         \/ call[r].fault = "retry" /\ call[r].prev # "retry"

AfterFree(r) ==
    /\ Is(r, "after")
    /\ IF call[r].leased THEN ReleaseLease(r) ELSE UNCHANGED recoveryVars
    /\ IF Continues(r)
       THEN call' = [call EXCEPT ![r].pc = "pick", ![r].leased = FALSE,
                                 ![r].prev = call[r].fault,
                                 ![r].left = IF r \in Scoped /\ call[r].fault = "retry"
                                             THEN @ \cup {"free"} ELSE @]
       ELSE End(r)
    /\ UNCHANGED <<alive, ledgerVars, plan, tried, claim, doubt>>

-----------------------------------------------------------------------------
(* The paid target *)

\* invoke_structured_with_telemetry: pressure on the free target, or the 503 of
\* this request, admits it; then sessions of dead owners are found.
Admission(r) ==
    /\ Is(r, "admit")
    /\ health = "pressure" \/ (r \in Hands /\ call[r].prev = "503")
    /\ Recover
    /\ Go(r, "reserve")
    /\ UNCHANGED <<alive, recoveryVars, plan, tried, claim, doubt>>

\* PaidBudgetDenied: the checks above, the credential, prices or the bounds.
AdmissionDenied(r) ==
    /\ Is(r, "admit")
    /\ End(r)
    /\ UNCHANGED <<alive, ledgerVars, recoveryVars, plan, tried, claim, doubt>>

Reserve(r) ==
    /\ Is(r, "reserve")
    /\ IF Admits(r) THEN Admit(r) /\ Go(r, "client") ELSE End(r) /\ UNCHANGED ledgerVars
    /\ UNCHANGED <<alive, recoveryVars, plan, tried, claim, doubt>>

\* The client cannot be built: nothing was sent, and the failure is recorded.
ClientFails(r) ==
    /\ Is(r, "client")
    /\ CancelUnsent(r)
    /\ Attempted(r, "paid")
    /\ End(r)
    /\ UNCHANGED <<alive, recoveryVars, plan, doubt>>

\* mark_dispatched refuses a row that is past "reserved": nothing is sent twice.
SendPaid(r) ==
    /\ Is(r, "client")
    /\ IF state[r] = "reserved" THEN MarkDispatched(r) /\ Go(r, "paid")
       ELSE End(r) /\ UNCHANGED ledgerVars
    /\ UNCHANGED <<alive, recoveryVars, plan, tried, claim, doubt>>

\* The answer is accepted whether or not its usage is complete.
PaidSucceeds(r) ==
    /\ Is(r, "paid")
    /\ \E complete \in BOOLEAN : Settle(r, complete)
    /\ Go(r, "won")
    /\ UNCHANGED <<alive, recoveryVars, plan, tried, claim, doubt>>

PaidFails(r) ==
    /\ Is(r, "paid")
    /\ Settle(r, FALSE)
    /\ Attempted(r, "paid")
    /\ End(r)
    /\ UNCHANGED <<alive, recoveryVars, plan, doubt>>

PaidCancelled(r) ==
    /\ Is(r, "paid")
    /\ Settle(r, FALSE)
    /\ doubt' = doubt \cup {r}
    /\ End(r)
    /\ UNCHANGED <<alive, recoveryVars, plan, tried, claim>>

-----------------------------------------------------------------------------
(* After success *)

\* save_work_inference_result and the attempt; a scoped result is not kept.
SaveResult(r) ==
    /\ Is(r, "won")
    /\ claim' = [claim EXCEPT ![r] = IF r \in Work THEN "result" ELSE @]
    /\ Go(r, "saved")
    /\ UNCHANGED <<alive, ledgerVars, recoveryVars, plan, tried, doubt>>

\* _brain_decision refuses the answer of a WorkItem: an action outside the catalog,
\* parameters that are no JSON object, a decision that contradicts itself.
RefuseAnswer(r) ==
    /\ Is(r, "won") /\ r \in Work
    /\ End(r)
    /\ UNCHANGED <<alive, ledgerVars, recoveryVars, plan, tried, claim, doubt>>

Conclude(r) ==
    /\ Is(r, "saved")
    /\ IF call[r].leased THEN CompleteLease(r, call[r].at) ELSE UNCHANGED recoveryVars
    /\ claim' = [claim EXCEPT ![r] = IF r \in Scoped THEN "completed" ELSE @]
    /\ End(r)
    /\ UNCHANGED <<alive, ledgerVars, plan, tried, doubt>>

-----------------------------------------------------------------------------

Ask(r) ==
    \/ \E p \in Procs : Begin(r, p)
    \/ PickFree(r) \/ SkipFree(r) \/ PickPaid(r) \/ PickNothing(r)
    \/ ClaimWork(r) \/ Validate(r) \/ StartProbe(r) \/ LoseProbe(r) \/ QuitLease(r)

Free(r) ==
    \/ FreeSucceeds(r) \/ FreeFails(r) \/ FreeCancelled(r)
    \/ NotePressure(r) \/ NoteNothing(r) \/ NoteFailure(r)
    \/ SaveHealth(r) \/ SaveConflict(r) \/ AfterFree(r)

Paid(r) ==
    \/ Admission(r) \/ AdmissionDenied(r) \/ Reserve(r)
    \/ ClientFails(r) \/ SendPaid(r)
    \/ PaidSucceeds(r) \/ PaidFails(r) \/ PaidCancelled(r)

Answered(r) == SaveResult(r) \/ RefuseAnswer(r) \/ Conclude(r)

\* A live session of a running process, which recovers before it reserves, and
\* the owner's review of it.
LiveVoice(l, p) ==
    /\ p \in alive
    /\ Session(l, p) \/ Administration(l, p) \/ (state[l] = "none" /\ Recover)
    /\ UNCHANGED <<alive, recoveryVars, requestVars>>

\* The process dies. Of a claimed request nobody knows whether it was sent.
Crash(p) ==
    /\ Die(p)
    /\ call' = [r \in Requests |-> IF call[r].at = p THEN Idle ELSE call[r]]
    /\ doubt' = doubt \cup {r \in Requests : call[r].at = p /\ claim[r] = "open"}
    /\ UNCHANGED <<ledgerVars, recoveryVars, plan, tried, claim>>

Clock == Time /\ UNCHANGED <<alive, ledgerVars, requestVars>>

Next ==
    \/ \E r \in Requests : Ask(r) \/ Free(r) \/ Paid(r) \/ Answered(r)
    \/ \E p \in Procs : Crash(p) \/ \E l \in Lives : LiveVoice(l, p)
    \/ Clock

Spec == Init /\ [][Next]_vars

-----------------------------------------------------------------------------
(* Properties *)

Steps == {"idle", "pick", "claim", "gate", "start", "quit", "free", "failing", "saving",
          "resaving", "after", "admit", "reserve", "client", "paid", "won", "saved"}

Faults == {"none", "pressure", "transient", "contract", "unavailable", "rejected", "503",
           "retry", "refused lease"}

Calls == [pc : Steps, at : Procs \cup {NoProc}, target : {"none", "free", "paid"},
          leased : BOOLEAN, late : BOOLEAN, left : SUBSET {"free", "paid"},
          prev : Faults, fault : Faults, visits : 0..3]

RequestTypeOK ==
    /\ call \in [Requests -> Calls]
    /\ plan \in [Requests -> SUBSET {"free", "paid"}]
    /\ tried \in [Requests -> SUBSET {"free", "paid"}]
    /\ claim \in [Requests -> {"none", "open", "closed", "result", "completed"}]
    /\ doubt \subseteq Requests

\* The variables have their types.
TypeOK == LedgerTypeOK /\ RecoveryTypeOK /\ RequestTypeOK

\* The outcome of an earlier dispatch of q is not known.
Unsure(q) == q \in doubt \/ state[q] \in {"dispatched", "uncertain"}

Sends(r) == call[r].pc \notin {"free", "paid"} /\ call'[r].pc \in {"free", "paid"}

\* Inference is not bought again while its outcome is unknown: neither for the
\* same request after a restart or a cancellation, nor for the same WorkItem
\* under a new decision (store.py, claim_work_invocation).
NoRepurchase ==
    [][\A r \in Requests : Sends(r) =>
          r \notin doubt /\ \A q \in Work : Sibling(q, r) /\ q # r => ~Unsure(q)]_vars

\* Neither time, nor a lease that is given back or lost, nor an answer or a failure
\* older than the record ends quota pressure. A call under the lease that was sent to
\* the free target after the pressure was recorded makes it healthy (store.py,
\* complete_free_recovery); and the failure of a call, once it is read against the
\* pressure itself, takes its place (store.py, save_health; health.py).
PressureEndsByCalls ==
    [][health = "pressure" /\ health' # "pressure" =>
          \E r \in Requests :
             IF health' = "healthy" THEN Is(r, "saved") /\ call[r].leased /\ ~call[r].late
             ELSE r \in fresh /\ call[r].pc \in {"saving", "resaving"}]_vars
=============================================================================
