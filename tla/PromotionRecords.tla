-------------------------- MODULE PromotionRecords --------------------------
(***************************************************************************)
(* What is on record of the changes that the owner accepted and that go to     *)
(* production: the EngineeringChange, its promotion attempt and its promotion    *)
(* artifacts (src/jarvis/promotion/store.py, engineering_change/store.py), the   *)
(* deployment metadata (promotion/release.py) and the protected branch on GitHub. *)
(* The release that comes from a change is named by that change.                  *)
(***************************************************************************)
EXTENDS Integers, FiniteSets

CONSTANTS Changes,  \* the changes that reach promotion, each with one candidate
          Initial,  \* the release that runs to begin with
          NoChange  \* what no deployment is about, and what a dead process runs

ASSUME ReleasesAssumption == Initial \notin Changes /\ NoChange \notin Changes \cup {Initial}

Releases == Changes \cup {Initial}

VARIABLES change,    \* state of each EngineeringChange
          attempt,   \* state of its promotion attempt
          base,      \* the revision of main that its candidate was built upon
          paper,     \* its promotion artifacts
          gate,      \* the promotion gate of the artifact the attempt is bound to
          main,      \* head of the protected branch
          merged,    \* changes whose pull request is merged
          active, lkg, recovery,  \* the three files of the deployment metadata
          samples    \* healthy observations of each attempt

promotionVars == <<change, attempt, base, paper, gate, main, merged>>
metadataVars  == <<active, lkg, recovery, samples>>
recordVars    == <<promotionVars, metadataVars>>

\* latest: the last artifact, bound: the one of the attempt, 0 for none, lkg: the Last
\* Known Good release that the latter names.
NoPaper == [latest |-> 0, bound |-> 0, lkg |-> Initial]

NoRecovery == [of |-> NoChange, phase |-> "none", lkg |-> Initial]

\* The first release was accepted by its owner: it is active and the Last Known Good.
RecordInit ==
    /\ change  = [c \in Changes |-> "developing"]
    /\ attempt = [c \in Changes |-> "none"]
    /\ base    = [c \in Changes |-> Initial]
    /\ paper   = [c \in Changes |-> NoPaper]
    /\ gate    = [c \in Changes |-> "none"]
    /\ main = Initial /\ merged = {}
    /\ active = Initial /\ lkg = Initial /\ recovery = NoRecovery
    /\ samples = [c \in Changes |-> 0]

\* States in which a change can be reviewed for promotion.
Reviewable(c) == change[c] \in {"ready", "waiting"}

InState(s) == {c \in Changes : attempt[c] = s}

\* transition: an attempt is moved on from the state that the caller read, which is the
\* version it read, since no attempt is ever twice in the same state.
Moved(c, from, goal) ==
    /\ attempt[c] = from
    /\ attempt' = [attempt EXCEPT ![c] = goal]

\* present, of an artifact that was the latest when it was looked at.
Present(c) ==
    /\ Reviewable(c)
    /\ gate' = [gate EXCEPT ![c] = IF @ = "none" THEN "pending" ELSE @]
    /\ change' = [change EXCEPT ![c] = "waiting"]

\* decide: the owner approves the gate of the latest artifact.
Decidable(c) ==
    /\ gate[c] = "pending"
    /\ paper[c].bound = paper[c].latest
    /\ change[c] = "waiting"

\* Mutant of Granted: a gate that was put to the owner counts as his decision.
GrantedOncePresented(c) == gate[c] # "none"

Granted(c) == gate[c] = "approved"

\* mark_promoted.
Promotable(c) ==
    /\ change[c] = "waiting"
    /\ paper[c].bound = paper[c].latest
    /\ Granted(c)

\* set_recovery.
Recorded(c, phase) == recovery' = [of |-> c, phase |-> phase, lkg |-> recovery.lkg]
=============================================================================
