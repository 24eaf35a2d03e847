------------------------------ MODULE Promotion ------------------------------
(***************************************************************************)
(* The owner's tools that take an accepted change to the protected branch: the   *)
(* preparation of its review and, once he approves, its merge (src/jarvis/         *)
(* promotion/coordinator.py, authority.py, merge.py). Each call runs in a thread   *)
(* of the runtime, several may run at once, and all of them end with the runtime.  *)
(***************************************************************************)
EXTENDS PromotionRecords

CONSTANT Tools  \* the threads of the runtime

VARIABLES tool,  \* what each of them is doing
          run,   \* the release that the runtime runs, NoChange while there is none
          sup,   \* the supervisor
          fuel   \* what may still go wrong

toolVars == <<promotionVars, tool>>
hostVars == <<metadataVars, run, sup>>

\* c: the change of the call. att: the state of its attempt that was read. main, lkg:
\* what was read of them. doc: the artifact at hand. granted: the gate was approved.
NoCall == [pc |-> "idle", c |-> NoChange, att |-> "none", main |-> Initial,
           lkg |-> Initial, doc |-> 0, granted |-> FALSE]

Spend(what) == fuel[what] > 0 /\ fuel' = [fuel EXCEPT ![what] = @ - 1]

At(t, pc) == tool[t].pc = pc
Idle(t) == At(t, "idle") /\ run # NoChange

Take(t, l) == tool' = [tool EXCEPT ![t] = l] /\ UNCHANGED hostVars
Continue(t, l) == Take(t, l) /\ UNCHANGED fuel
Go(t, pc) == Continue(t, [tool[t] EXCEPT !.pc = pc])

\* The call returns, or raises.
Leave(t) == Continue(t, NoCall)
Raise(t) == Leave(t) /\ UNCHANGED promotionVars

-----------------------------------------------------------------------------
(* Where the changes come from *)

\* A candidate, built upon what main was, is accepted by the owner.
Accept(c) ==
    /\ run # NoChange /\ change[c] = "developing"
    /\ change' = [change EXCEPT ![c] = "ready"]
    /\ base' = [base EXCEPT ![c] = main]
    /\ UNCHANGED <<attempt, paper, gate, main, merged, tool, hostVars, fuel>>

\* revise_architecture: what will be built instead has another attempt.
Revise(c) ==
    /\ run # NoChange /\ Reviewable(c)
    /\ change' = [change EXCEPT ![c] = "withdrawn"]
    /\ UNCHANGED <<attempt, base, paper, gate, main, merged, tool, hostVars, fuel>>

-----------------------------------------------------------------------------
(* prepare_review. Calls that can only raise are left out *)

PrepareReview(t, c) ==
    /\ Idle(t) /\ Spend("call") /\ Reviewable(c)
    /\ attempt[c] \in {"none", "created", "evidence_ready"}
    /\ Take(t, [NoCall EXCEPT !.pc = "create", !.c = c, !.main = main])
    /\ UNCHANGED promotionVars

Opened(c) == IF attempt[c] = "none" THEN "created" ELSE attempt[c]

\* verify_and_create_attempt: an attempt that is not for the main that was read is
\* marked as stale unless it went further.
CreateAttempt(t) ==
    LET c == tool[t].c
        fits == tool[t].main = base[c]
    IN  /\ At(t, "create") /\ Reviewable(c)
        /\ attempt' = [attempt EXCEPT ![c] = Opened(c)]
        /\ IF fits \/ Opened(c) = "created"
           THEN Continue(t, [tool[t] EXCEPT !.pc = IF fits THEN "external" ELSE "stale",
                                            !.att = Opened(c)])
           ELSE Leave(t)
        /\ UNCHANGED <<change, base, paper, gate, main, merged>>

CreateRefused(t) ==
    /\ At(t, "create") /\ ~Reviewable(tool[t].c)
    /\ Raise(t)

MarkStale(t) ==
    /\ At(t, "stale")
    /\ \/ Moved(tool[t].c, "created", "stale")
       \/ attempt[tool[t].c] # "created" /\ UNCHANGED attempt
    /\ Leave(t)
    /\ UNCHANGED <<change, base, paper, gate, main, merged>>

\* The pull request is open and its checks have passed on the base of the candidate.
External(t) ==
    /\ At(t, "external")
    /\ UNCHANGED promotionVars
    /\ IF main = base[tool[t].c] /\ tool[t].c \notin merged THEN Go(t, "lkg") ELSE Leave(t)

\* Evidence that is there must name the Last Known Good release of now.
ReadLkg(t) ==
    LET c == tool[t].c IN
    /\ At(t, "lkg")
    /\ UNCHANGED promotionVars
    /\ \/ /\ tool[t].att = "created"
          /\ Continue(t, [tool[t] EXCEPT !.pc = "write", !.lkg = lkg])
       \/ /\ tool[t].att = "evidence_ready" /\ paper[c].lkg = lkg
          /\ Continue(t, [tool[t] EXCEPT !.pc = "check", !.doc = paper[c].bound])
       \/ /\ tool[t].att # "created"
          /\ ~(tool[t].att = "evidence_ready" /\ paper[c].lkg = lkg)
          /\ Leave(t)

WriteArtifact(t) ==
    LET c == tool[t].c IN
    /\ At(t, "write")
    /\ paper' = [paper EXCEPT ![c].latest = @ + 1]
    /\ Continue(t, [tool[t] EXCEPT !.pc = "bind", !.doc = paper[c].latest + 1])
    /\ UNCHANGED <<change, attempt, base, gate, main, merged>>

BindArtifact(t) ==
    LET c == tool[t].c IN
    /\ At(t, "bind")
    /\ Moved(c, "created", "evidence_ready")
    /\ paper' = [paper EXCEPT ![c] = [@ EXCEPT !.bound = tool[t].doc, !.lkg = tool[t].lkg]]
    /\ Go(t, "check")
    /\ UNCHANGED <<change, base, gate, main, merged>>

BindRefused(t) ==
    /\ At(t, "bind") /\ attempt[tool[t].c] # "created"
    /\ Raise(t)

CheckLatest(t) ==
    /\ At(t, "check")
    /\ UNCHANGED promotionVars
    /\ IF tool[t].doc = paper[tool[t].c].latest THEN Go(t, "present") ELSE Leave(t)

PresentGate(t) ==
    /\ At(t, "present")
    /\ Present(tool[t].c)
    /\ Leave(t)
    /\ UNCHANGED <<attempt, base, paper, main, merged>>

PresentRefused(t) ==
    /\ At(t, "present") /\ ~Reviewable(tool[t].c)
    /\ Raise(t)

Preparation(t) ==
    \/ CreateAttempt(t) \/ CreateRefused(t) \/ MarkStale(t)
    \/ External(t) \/ ReadLkg(t) \/ WriteArtifact(t) \/ BindArtifact(t) \/ BindRefused(t)
    \/ CheckLatest(t) \/ PresentGate(t) \/ PresentRefused(t)

-----------------------------------------------------------------------------
(* authorize_and_merge *)

Authorize(t, c) ==
    /\ Idle(t) /\ Spend("call") /\ gate[c] # "none"
    /\ attempt[c] \in {"evidence_ready", "authorized"}
    /\ Take(t, [NoCall EXCEPT !.pc = "verify", !.c = c, !.att = attempt[c],
                                  !.granted = Granted(c)])
    /\ UNCHANGED promotionVars

\* The owner is verified, and his decision put on record.
DecideGate(t) ==
    LET c == tool[t].c IN
    /\ At(t, "verify") /\ ~tool[t].granted
    /\ Decidable(c)
    /\ gate' = [gate EXCEPT ![c] = "approved"]
    /\ Go(t, "permit")
    /\ UNCHANGED <<change, attempt, base, paper, main, merged>>

\* It is on record already: from before, or from the same turn of the owner.
DecidedBefore(t) ==
    /\ At(t, "verify") /\ Granted(tool[t].c)
    /\ Go(t, "permit")
    /\ UNCHANGED promotionVars

\* He is not verified, he decided in another turn, or the gate is not current.
DecideRefused(t) == At(t, "verify") /\ Raise(t)

\* Authority issues a permit for one merge.
Permit(t) ==
    LET c == tool[t].c IN
    /\ At(t, "permit")
    /\ \/ /\ tool[t].att = "evidence_ready"
          /\ Moved(c, "evidence_ready", "authorized")
       \/ /\ tool[t].att = "authorized"
          /\ UNCHANGED attempt
    /\ Go(t, "main")
    /\ UNCHANGED <<change, base, paper, gate, main, merged>>

PermitRefused(t) ==
    /\ At(t, "permit") /\ tool[t].att = "evidence_ready"
    /\ attempt[tool[t].c] # "evidence_ready"
    /\ Raise(t)

\* The attempt is read again, and then GitHub. A merge that nobody put on record is
\* recognised by its revision.
ReadMain(t) ==
    LET c == tool[t].c IN
    /\ At(t, "main")
    /\ UNCHANGED promotionVars
    /\ CASE attempt[c] # "authorized"          -> Leave(t)
         [] main = base[c] /\ c \notin merged  -> Go(t, "merge")
         [] main = c                           -> Go(t, "mark")
         [] OTHER                              -> Leave(t)

\* squash_merge names the head of the pull request, and never the main that was read.
Merge(t) ==
    LET c == tool[t].c IN
    /\ At(t, "merge") /\ c \notin merged
    /\ merged' = merged \cup {c}
    /\ main' = c
    /\ \/ Go(t, "confirm")
       \/ Leave(t)
    /\ UNCHANGED <<change, attempt, base, paper, gate>>

\* The permit has expired, or GitHub does not merge.
MergeRefused(t) == At(t, "merge") /\ Raise(t)

ConfirmMain(t) ==
    /\ At(t, "confirm")
    /\ UNCHANGED promotionVars
    /\ IF main = tool[t].c THEN Go(t, "mark") ELSE Leave(t)

\* _mark_merged: the attempt first, and its change in a transaction of its own.
MarkMerged(t) ==
    /\ At(t, "mark")
    /\ Moved(tool[t].c, "authorized", "merged")
    /\ Go(t, "promote")
    /\ UNCHANGED <<change, base, paper, gate, main, merged>>

MarkRefused(t) ==
    /\ At(t, "mark") /\ attempt[tool[t].c] # "authorized"
    /\ Raise(t)

Promote(t) ==
    LET c == tool[t].c IN
    /\ At(t, "promote")
    /\ change' = IF Promotable(c) THEN [change EXCEPT ![c] = "promoted"] ELSE change
    /\ Leave(t)
    /\ UNCHANGED <<attempt, base, paper, gate, main, merged>>

Execution(t) ==
    \/ DecideGate(t) \/ DecidedBefore(t) \/ DecideRefused(t) \/ Permit(t) \/ PermitRefused(t)
    \/ ReadMain(t) \/ Merge(t) \/ MergeRefused(t) \/ ConfirmMain(t)
    \/ MarkMerged(t) \/ MarkRefused(t) \/ Promote(t)

Owner ==
    \/ \E c \in Changes : Accept(c) \/ Revise(c)
    \/ \E t \in Tools, c \in Changes : PrepareReview(t, c) \/ Authorize(t, c)

ToolStep == \E t \in Tools : Preparation(t) \/ Execution(t)
=============================================================================
