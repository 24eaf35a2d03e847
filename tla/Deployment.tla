----------------------------- MODULE Deployment -----------------------------
(***************************************************************************)
(* The supervisor of the production runtime: it deploys what was merged, falls    *)
(* back to the Last Known Good release, resumes after a crash and observes what    *)
(* it deployed (src/jarvis/dev_supervisor.py, promotion/deployment.py and           *)
(* observation.py), while the owner's tools go on in the runtime that it stops       *)
(* and starts (Promotion). The guardian starts the supervisor again when that ends    *)
(* with an error, some times, and not when it stops on purpose                       *)
(* (self_repair/windows_guardian.py).                                               *)
(***************************************************************************)
EXTENDS Promotion

CONSTANTS Required,      \* healthy samples before a release is known to be good
          RestartCount,  \* restart_count: how often the guardian starts the supervisor again
          MaxCalls, MaxCrashes, MaxFaults  \* bounds of the model

ASSUME BoundsAssumption ==
    /\ {Required, RestartCount} \subseteq Nat \ {0}
    /\ {MaxCalls, MaxCrashes, MaxFaults} \subseteq Nat

vars == <<recordVars, tool, run, sup, fuel>>

\* c: the change that is being deployed. ident: the release that is started again when
\* the runtime ends. boot: the supervisor did not start the runtime yet. left: the
\* restarts that the guardian has left. The supervisor is "down" while the guardian is
\* going to start it, "closed" while it is not.
Init ==
    /\ RecordInit
    /\ tool = [t \in Tools |-> NoCall]
    /\ run = Initial
    /\ sup = [pc |-> "poll", c |-> NoChange, ident |-> Initial, boot |-> FALSE,
              left |-> RestartCount]
    /\ fuel = [call |-> MaxCalls, crash |-> MaxCrashes, fault |-> MaxFaults]

Step(pc) == sup' = [sup EXCEPT !.pc = pc]

\* The supervisor is done with what it was about.
Done(pc, ident) == sup' = [sup EXCEPT !.pc = pc, !.ident = ident, !.c = NoChange]
Loop == Done("poll", sup.ident)

\* No transaction of the tools, and no fault.
Quiet == UNCHANGED <<base, paper, gate, main, merged, fuel>>

\* The runtime ends, and the threads of the tools with it.
Halt == run' = NoChange /\ tool' = [t \in Tools |-> NoCall]

Undisturbed == UNCHANGED <<run, tool>>

\* resume ends: the release that is now active is the one to start again.
Resumed(ident) == Done(IF sup.boot THEN "launch" ELSE "poll", ident)

\* The supervisor stops the runtime and exits with 0: the guardian ends with it.
FailClosed == Done("closed", sup.ident) /\ Halt

\* It ends with an error, and the runtime with it: the guardian starts it again while
\* it has restarts left.
Exit == IF sup.left = 0 THEN FailClosed
        ELSE /\ sup' = [sup EXCEPT !.pc = "down", !.c = NoChange, !.left = @ - 1]
             /\ Halt

-----------------------------------------------------------------------------
(* What there is to resume or to deploy: _resume_pending_phase7_deployment *)

\* Where the deployment goes on in each phase.
Resumption(phase) == CASE phase = "staged"   -> "prepare"
                       [] phase = "stopped"  -> "start"
                       [] phase = "started"  -> "ensure"
                       [] phase = "verified" -> "assure"

\* Mutant of Resumable: only a deployment that has not stopped the runtime yet.
ResumableUntilStopped == recovery.phase = "staged" /\ attempt[recovery.of] = "deploying"

Resumable == recovery.phase # "failed" /\ attempt[recovery.of] = "deploying"

\* Mutant of AsReviewed: evidence once reviewed stays good.
AsReviewedOnce(c) == paper[c].bound # 0

\* The Last Known Good release is the one of the evidence that was approved.
AsReviewed(c) == paper[c].lkg = lkg

Look ==
    /\ sup.pc = "look"
    /\ UNCHANGED recordVars /\ Undisturbed /\ Quiet
    /\ IF recovery.of # NoChange
       THEN IF Resumable
            THEN sup' = [sup EXCEPT !.pc = Resumption(recovery.phase), !.c = recovery.of]
            ELSE Step(IF sup.boot THEN "launch" ELSE "probe")
       ELSE CASE InState("merged") = {}            -> Step(IF sup.boot THEN "launch" ELSE "probe")
              [] Cardinality(InState("merged")) > 1 -> Resumed(sup.ident)
              [] OTHER ->
                   \E c \in InState("merged") :
                      IF AsReviewed(c) THEN sup' = [sup EXCEPT !.pc = "record", !.c = c]
                                         ELSE Resumed(active)

\* prepare: the record of the recovery comes before the attempt is deploying.
RecordRecovery ==
    /\ sup.pc = "record"
    /\ recovery' = [of |-> sup.c, phase |-> "staged", lkg |-> lkg]
    /\ Step("hand")
    /\ UNCHANGED <<change, attempt, active, lkg, samples>> /\ Undisturbed /\ Quiet

HandOver ==
    /\ sup.pc = "hand"
    /\ Moved(sup.c, "merged", "deploying")
    /\ Step("prepare")
    /\ UNCHANGED <<change, metadataVars>> /\ Undisturbed /\ Quiet

\* The release cannot be staged, or a process not be started: the exception is not one
\* that the supervisor expects.
Unexpected ==
    /\ sup.pc \in {"record", "start", "assure", "launch"} /\ Spend("fault")
    /\ Exit
    /\ UNCHANGED recordVars

-----------------------------------------------------------------------------
(* resume *)

PrepareRelease ==
    /\ sup.pc = "prepare"
    /\ Step("stop")
    /\ UNCHANGED recordVars /\ Undisturbed /\ Quiet

PrepareFails ==
    /\ sup.pc = "prepare" /\ Spend("fault")
    /\ Resumed(active)
    /\ UNCHANGED recordVars /\ Undisturbed

StopRuntime ==
    /\ sup.pc = "stop"
    /\ Halt
    /\ Step("stopped")
    /\ UNCHANGED recordVars /\ Quiet

StartRuntime ==
    /\ sup.pc = "start"
    /\ run' = sup.c
    /\ Step("started")
    /\ UNCHANGED <<recordVars, tool>> /\ Quiet

\* Each of these is put on record once it is done.
RecordPhase ==
    /\ sup.pc \in {"stopped", "started", "fail", "verified"}
    /\ Recorded(sup.c, IF sup.pc = "fail" THEN "failed" ELSE sup.pc)
    /\ Step(CASE sup.pc = "stopped"  -> "start"
              [] sup.pc = "started"  -> "ensure"
              [] sup.pc = "fail"     -> "retreat"
              [] sup.pc = "verified" -> "observe")
    /\ UNCHANGED <<change, attempt, active, lkg, samples>> /\ Undisturbed /\ Quiet

\* A release that did not start is not tried again.
EnsureFails ==
    /\ sup.pc = "ensure"
    /\ Step("fail")
    /\ UNCHANGED recordVars /\ Undisturbed /\ Quiet

\* The candidate is started again if it ended, and is ready.
EnsureRelease ==
    /\ sup.pc \in {"ensure", "assure"}
    /\ run' = sup.c
    /\ Step("activate")
    /\ UNCHANGED <<recordVars, tool>> /\ Quiet

StopCandidate ==
    /\ sup.pc = "retreat"
    /\ Halt
    /\ Step("fallback")
    /\ UNCHANGED recordVars /\ Quiet

StartLkg ==
    /\ sup.pc = "fallback"
    /\ run' = recovery.lkg
    /\ Step("restore")
    /\ UNCHANGED <<recordVars, tool>> /\ Quiet

\* It does not start, or is not ready in time. The supervisor that has no runtime left
\* to watch fails closed.
StartLkgFails ==
    /\ sup.pc = "fallback" /\ Spend("fault")
    /\ UNCHANGED <<recordVars, tool>>
    /\ \/ /\ UNCHANGED run
          /\ IF sup.boot THEN Resumed(active) ELSE Done("closed", active)
       \/ /\ run' = recovery.lkg
          /\ Resumed(active)

RestoreActive ==
    /\ sup.pc = "restore"
    /\ active' = recovery.lkg
    /\ Resumed(recovery.lkg)
    /\ UNCHANGED <<change, attempt, lkg, recovery, samples>> /\ Undisturbed /\ Quiet

\* _finish_verified.
Activate ==
    /\ sup.pc = "activate"
    /\ active' = sup.c
    /\ Step("verified")
    /\ UNCHANGED <<change, attempt, lkg, recovery, samples>> /\ Undisturbed /\ Quiet

BeginObservation ==
    /\ sup.pc = "observe"
    /\ Moved(sup.c, "deploying", "observing")
    /\ Step("enter")
    /\ UNCHANGED <<change, metadataVars>> /\ Undisturbed /\ Quiet

\* A change that was not promoted stays what it is.
EnterObservation ==
    /\ sup.pc = "enter"
    /\ change' = IF change[sup.c] = "promoted" THEN [change EXCEPT ![sup.c] = "observing"] ELSE change
    /\ Resumed(active)
    /\ UNCHANGED <<attempt, metadataVars>> /\ Undisturbed /\ Quiet

Deploy ==
    \/ RecordRecovery \/ HandOver \/ PrepareRelease \/ StopRuntime \/ StartRuntime
    \/ RecordPhase \/ EnsureRelease \/ StopCandidate \/ StartLkg \/ RestoreActive
    \/ Activate \/ BeginObservation \/ EnterObservation

DeployFails == Unexpected \/ PrepareFails \/ EnsureFails \/ StartLkgFails

-----------------------------------------------------------------------------
(* The loop of the supervisor *)

\* What resume left running is not started again.
Launch ==
    /\ sup.pc = "launch"
    /\ run' = IF run = NoChange THEN sup.ident ELSE run
    /\ Step("await")
    /\ UNCHANGED <<recordVars, tool>> /\ Quiet

Await ==
    /\ sup.pc = "await"
    /\ UNCHANGED recordVars /\ Quiet
    /\ IF run = sup.ident
       THEN sup' = [sup EXCEPT !.pc = "poll", !.boot = FALSE] /\ Undisturbed
       ELSE FailClosed

Poll ==
    /\ sup.pc = "poll" /\ run # NoChange
    /\ Step("look")
    /\ UNCHANGED recordVars /\ Undisturbed /\ Quiet

\* _recover_unexpected_exit: the same release once more.
Restart ==
    /\ sup.pc = "poll" /\ run = NoChange
    /\ run' = sup.ident
    /\ UNCHANGED <<recordVars, tool, sup>> /\ Quiet

\* Self repair does not restart the runtime, or initial readiness does not come.
GivesUp ==
    /\ \/ sup.pc = "poll" /\ run = NoChange
       \/ sup.pc = "await"
    /\ Spend("fault")
    /\ FailClosed
    /\ UNCHANGED recordVars

Probe ==
    /\ sup.pc = "probe"
    /\ IF run = NoChange THEN Loop
                         ELSE Step("sample")
    /\ UNCHANGED recordVars /\ Undisturbed /\ Quiet

\* The watchdog restarts a runtime that does not answer, or gives up: the restarts of
\* self repair are spent, or the revision that runs is not the one of the checkout.
Unresponsive ==
    /\ sup.pc = "probe" /\ run # NoChange /\ Spend("fault")
    /\ UNCHANGED recordVars
    /\ \/ /\ run' = sup.ident
          /\ tool' = [t \in Tools |-> NoCall]
          /\ Loop
       \/ FailClosed

-----------------------------------------------------------------------------
(* Observation *)

Attributable(c) == InState("observing") = {c} /\ active = c

\* Counted as far as it matters.
NextSample(n) == IF n < Required THEN n + 1 ELSE n

\* _record_phase7_healthy_observation, and the assessment that follows.
Sample ==
    /\ sup.pc = "sample"
    /\ UNCHANGED <<change, attempt, active, lkg, recovery>> /\ Undisturbed /\ Quiet
    /\ \/ /\ \A c \in Changes : ~Attributable(c)
          /\ Loop /\ UNCHANGED samples
       \/ \E c \in Changes :
            /\ Attributable(c)
            /\ samples' = [samples EXCEPT ![c] = NextSample(@)]
            /\ IF samples'[c] = Required /\ recovery.of = c
               THEN sup' = [sup EXCEPT !.pc = "good", !.c = c]
               ELSE Loop

\* close_success.
SetLkg ==
    /\ sup.pc = "good"
    /\ lkg' = active
    /\ Step("clear")
    /\ UNCHANGED <<change, attempt, active, recovery, samples>> /\ Undisturbed /\ Quiet

ClearRecovery ==
    /\ sup.pc = "clear"
    /\ recovery' = NoRecovery
    /\ Step("complete")
    /\ UNCHANGED <<change, attempt, active, lkg, samples>> /\ Undisturbed /\ Quiet

Complete ==
    /\ sup.pc = "complete"
    /\ Moved(sup.c, "observing", "completed")
    /\ Step("close")
    /\ UNCHANGED <<change, metadataVars>> /\ Undisturbed /\ Quiet

CloseChange ==
    /\ sup.pc = "close"
    /\ change' = IF change[sup.c] = "observing" THEN [change EXCEPT ![sup.c] = "closed"] ELSE change
    /\ Loop
    /\ UNCHANGED <<attempt, metadataVars>> /\ Undisturbed /\ Quiet

Observe == Probe \/ Sample \/ SetLkg \/ ClearRecovery \/ Complete \/ CloseChange

-----------------------------------------------------------------------------
(* Crashes *)

RuntimeEnds ==
    /\ run # NoChange /\ Spend("fault")
    /\ Halt
    /\ UNCHANGED <<recordVars, sup>>

\* The job object of the supervisor ends the runtime with it. The machine may go down,
\* and the guardian too.
Crash ==
    /\ sup.pc # "closed" /\ Spend("crash")
    /\ (sup.pc # "down" /\ Exit) \/ FailClosed
    /\ UNCHANGED recordVars

\* Mutant of Boot: the release of the recovery record is started.
BootRecovered ==
    /\ sup.pc = "down"
    /\ sup' = [sup EXCEPT !.pc = "look", !.ident = recovery.of, !.boot = TRUE]
    /\ UNCHANGED recordVars /\ Undisturbed /\ Quiet

\* run_supervisor: the release to start is the one that is active.
Start(left) ==
    /\ sup' = [sup EXCEPT !.pc = "look", !.ident = active, !.boot = TRUE, !.left = left]
    /\ UNCHANGED recordVars /\ Undisturbed /\ Quiet

Boot == sup.pc = "down" /\ Start(sup.left)

\* The owner logs on: the guardian is started, with all of its restarts.
Logon == sup.pc = "closed" /\ Start(RestartCount)

-----------------------------------------------------------------------------

Supervisor == Look \/ Deploy \/ Launch \/ Await \/ Poll \/ Restart \/ Observe \/ Boot

Next ==
    \/ Owner \/ ToolStep
    \/ Supervisor
    \/ DeployFails \/ GivesUp \/ Unresponsive \/ RuntimeEnds \/ Crash \/ Logon

Spec == Init /\ [][Next]_vars /\ WF_vars(Supervisor)
-----------------------------------------------------------------------------
(* Properties *)

ChangeStates  == {"developing", "ready", "waiting", "withdrawn", "promoted", "observing", "closed"}
AttemptStates == {"none", "created", "stale", "evidence_ready", "authorized", "merged",
                  "deploying", "observing", "completed"}
Phases        == {"none", "staged", "stopped", "started", "failed", "verified"}

ToolSteps == {"idle", "create", "stale", "external", "lkg", "write", "bind", "check", "present",
              "verify", "permit", "main", "merge", "confirm", "mark", "promote"}
SupSteps  == {"down", "closed", "look", "record", "hand", "prepare", "stop", "stopped", "start", "started",
              "ensure", "assure", "fail", "retreat", "fallback", "restore", "activate",
              "verified", "observe", "enter", "launch", "await", "poll", "probe", "sample",
              "good", "clear", "complete", "close"}

Papers     == [latest : Nat, bound : Nat, lkg : Releases]
Recoveries == [of : Changes \cup {NoChange}, phase : Phases, lkg : Releases]
Calls      == [pc : ToolSteps, c : Changes \cup {NoChange}, att : AttemptStates, main : Releases,
               lkg : Releases, doc : Nat, granted : BOOLEAN]
Runs       == Releases \cup {NoChange}

\* The variables have their types.
TypeOK ==
    /\ change \in [Changes -> ChangeStates] /\ attempt \in [Changes -> AttemptStates]
    /\ base \in [Changes -> Releases] /\ paper \in [Changes -> Papers]
    /\ gate \in [Changes -> {"none", "pending", "approved"}]
    /\ main \in Releases /\ merged \subseteq Changes
    /\ active \in Releases /\ lkg \in Releases /\ recovery \in Recoveries
    /\ samples \in [Changes -> 0 .. Required]
    /\ tool \in [Tools -> Calls]
    /\ run \in Runs
    /\ sup \in [pc : SupSteps, c : Changes \cup {NoChange}, ident : Releases,
                boot : BOOLEAN, left : 0 .. RestartCount]
    /\ fuel \in [call : 0 .. MaxCalls, crash : 0 .. MaxCrashes, fault : 0 .. MaxFaults]

\* What runs, and what will run after a restart, is a release the owner approved and
\* that went through the protected branch (merge.py; deployment.py).
OnlyApprovedRuns ==
    \A c \in Changes : c \in {run, active, recovery.of} => gate[c] = "approved" /\ c \in merged

\* No release is Last Known Good before it was healthy for as long as is required
\* (observation.py, close_success). Until the new release has been verified, the way
\* back leads to it, and it is the one that the owner was shown (deployment.py).
FallbackIsKnownGood ==
    /\ lkg # Initial => samples[lkg] = Required
    /\ recovery.phase \in {"staged", "stopped", "started", "failed"} =>
          /\ recovery.lkg = lkg /\ paper[recovery.of].lkg = lkg
          /\ active \in {lkg, recovery.of}

\* The supervisor watches the Last Known Good release, or, when a crash left the failed
\* one active and the other did not start, that which is active.
FellBack ==
    /\ recovery.phase = "failed" /\ sup.pc = "poll"
    /\ run = lkg \/ (active = recovery.of /\ run = active)

\* A deployment that was handed over ends, whatever crashes: with the new release under
\* observation, or with a release that runs in its place (deployment.py, resume). It may
\* be left as it is only while the guardian has stopped, and goes on after a logon.
DeploymentEnds ==
    \A c \in Changes :
       attempt[c] = "deploying" ~> attempt[c] = "observing" \/ FellBack \/ sup.pc = "closed"

\* A deployment that was put on record is resumed after a restart.
StagedIsResumed == recovery.phase = "staged" ~> recovery.phase # "staged" \/ sup.pc = "closed"
=============================================================================
