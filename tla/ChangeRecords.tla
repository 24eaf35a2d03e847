---------------------------- MODULE ChangeRecords ----------------------------
(***************************************************************************)
(* The canonical records of one EngineeringChange, its architecture            *)
(* revisions, its gates and its stages (src/jarvis/engineering_change/store.py *)
(* and gates.py). Every operator with a prime is one transaction.               *)
(***************************************************************************)
EXTENDS Integers, Sequences

CONSTANT MaxPlans  \* bound of the model: the architectures the owner is offered

ASSUME PlansAssumption == MaxPlans \in Nat \ {0}

VARIABLES state,     \* of the change
          plans,     \* the latest architecture revision, 0 while there is none
          approved,  \* the revisions with an approving decision
          gates,     \* kinds whose latest artifact is presented
          evidence,  \* the stage that each acceptance artifact is about
          stage      \* the WorkItem of each stage attempt, and its execution

recordVars == <<state, plans, approved, gates, evidence, stage>>

\* The architecture source, and the attempts at development.
Research == 0
Builds   == 1 .. MaxPlans
Attempts == {Research} \cup Builds

\* plan is the architecture an attempt is pinned to, exec the execution of its
\* WorkItem and box the commands sent to it.
NoStage == [work |-> "none", plan |-> 0, exec |-> "none", box |-> <<>>]

RecordInit ==
    /\ state = "none"
    /\ plans = 0
    /\ approved = {} /\ gates = {}
    /\ evidence = <<>>
    /\ stage = [k \in Attempts |-> NoStage]

Linked(k) == stage[k].work # "none"
Ended(k)  == stage[k].work \in {"completed", "failed", "cancelled"}
Current(k) == k \in Builds /\ Linked(k) /\ stage[k].plan = plans

\* None while the change is not created.
Transitions ==
    [none                    |-> {},
     proposed                |-> {"researching"},
     researching             |-> {"architecture_ready", "failed"},
     architecture_ready      |-> {"waiting_owner_approval"},
     waiting_owner_approval  |-> {"approved_for_build", "rejected", "architecture_ready"},
     approved_for_build      |-> {"developing"},
     developing              |-> {"verifying", "failed"},
     verifying               |-> {"waiting_owner_acceptance"},
     waiting_owner_acceptance |-> {"ready_for_promotion", "rejected"},
     ready_for_promotion     |-> {},
     rejected                |-> {},
     failed                  |-> {}]

\* transition: the caller holds the current version.
Transition(goal) ==
    /\ goal \in Transitions[state]
    /\ state' = goal
    /\ UNCHANGED <<plans, approved, gates, evidence, stage>>

-----------------------------------------------------------------------------
(* Artifacts *)

\* Mutant of Superseded: what is already reviewed for acceptance stands.
SupersededUntilReview == {"waiting_owner_approval", "approved_for_build", "developing", "verifying"}

\* A new architecture takes the change back from these states.
Superseded == {"waiting_owner_approval", "approved_for_build", "developing", "verifying",
               "waiting_owner_acceptance", "ready_for_promotion"}

Revisable == state \notin {"rejected", "failed"} /\ plans < MaxPlans

AddPlan ==
    /\ Revisable
    /\ plans' = plans + 1
    /\ gates' = gates \ {"architecture"}
    /\ state' = IF state \in Superseded THEN "architecture_ready" ELSE state
    /\ UNCHANGED <<approved, evidence, stage>>

AddEvidence(k) ==
    /\ evidence' = Append(evidence, k)
    /\ gates' = gates \ {"acceptance"}
    /\ UNCHANGED <<state, plans, approved, stage>>

-----------------------------------------------------------------------------
(* Gates *)

Kinds == {"architecture", "acceptance"}

Gate == [architecture |-> [required |-> "architecture_ready",
                           waiting  |-> "waiting_owner_approval",
                           granted  |-> "approved_for_build"],
         acceptance   |-> [required |-> "verifying",
                           waiting  |-> "waiting_owner_acceptance",
                           granted  |-> "ready_for_promotion"]]

\* The revision of the latest artifact of a kind.
Latest(kind) == IF kind = "architecture" THEN plans ELSE Len(evidence)

Presentable(kind) == state \in {Gate[kind].required, Gate[kind].waiting}

Present(kind) ==
    /\ Presentable(kind)
    /\ gates' = gates \cup {kind}
    /\ state' = Gate[kind].waiting
    /\ UNCHANGED <<plans, approved, evidence, stage>>

Decidable(kind, revision) == Latest(kind) = revision /\ state = Gate[kind].waiting

Decide(kind, revision) ==
    /\ Decidable(kind, revision)
    /\ \/ /\ state' = Gate[kind].granted
          /\ approved' = IF kind = "architecture" THEN approved \cup {revision} ELSE approved
       \/ /\ state' = "rejected"
          /\ UNCHANGED approved
    /\ UNCHANGED <<plans, gates, evidence, stage>>

-----------------------------------------------------------------------------
(* Stages *)

\* _admit_stage, of a change in state s: development needs the owner's approval
\* of the latest architecture.
Admits(k, s) == IF k = Research THEN s = "researching"
                ELSE s \in {"approved_for_build", "developing"} /\ plans \in approved

\* work_admitted: and the attempt belongs to that architecture.
WorkAdmitted(k) == Admits(k, state) /\ (k \in Builds => Current(k))

Linkable(k) == Admits(k, state) /\ ~Linked(k)

\* link_work: the WorkItem and the link are one transaction.
Link(k) ==
    /\ Linkable(k)
    /\ stage' = [stage EXCEPT ![k] = [work |-> "open", exec |-> "none", box |-> <<>>,
                                      plan |-> IF k = Research THEN 0 ELSE plans]]
    /\ UNCHANGED <<state, plans, approved, gates, evidence>>

StageState(k) == IF k = Research THEN "researching" ELSE "developing"

\* reopen_failed_stage_for_retry.
Reopenable(k) ==
    /\ stage[k].work = "failed"
    /\ k \in Builds => Current(k)
    /\ state \in {"failed", StageState(k)}

Reopen(k) ==
    /\ Reopenable(k)
    /\ state' = StageState(k)
    /\ UNCHANGED <<plans, approved, gates, evidence, stage>>
=============================================================================
