-------------------------- MODULE DeploymentProofs --------------------------
(***************************************************************************)
(* Proofs about promotion and deployment, for any number of changes, of tool      *)
(* threads, of samples, of calls, of crashes and of faults.                        *)
(***************************************************************************)
EXTENDS Deployment, TLAPS

\* If r is the release of a change, the owner approved it and it is merged.
MayRun(r) == r \in Changes => Granted(r) /\ r \in merged

\* What a tool thread at l does next is still right.
CallFits(l) ==
    /\ l.pc # "idle" => l.c \in Changes
    /\ l.pc \in {"permit", "main", "merge", "confirm", "mark", "promote"} => Granted(l.c)
    /\ l.pc \in {"confirm", "mark", "promote"} => l.c \in merged

CallsOK == \A t \in Tools : CallFits(tool[t])

\* States of an attempt that went through the protected branch.
Late == {"merged", "deploying", "observing", "completed"}

MergesOK ==
    /\ main \in Changes => main \in merged
    /\ \A c \in Changes : attempt[c] \in Late => MayRun(c)

\* Everything that the supervisor may start.
ReleasesOK ==
    /\ MayRun(run) /\ MayRun(active) /\ MayRun(lkg)
    /\ MayRun(recovery.of) /\ MayRun(recovery.lkg)

\* The phases before the new release has been verified.
Switching == {"staged", "stopped", "started", "failed"}

\* The way back, while there is one.
WayBack ==
    /\ recovery.of = NoChange <=> recovery.phase = "none"
    /\ recovery.of = NoChange => active = lkg
    /\ recovery.of # NoChange => attempt[recovery.of] \in Late
    /\ recovery.phase \in Switching =>
          /\ attempt[recovery.of] \in {"merged", "deploying"}
          /\ recovery.lkg = lkg /\ AsReviewed(recovery.of)
          /\ active \in {lkg, recovery.of}
    /\ lkg \in Changes => samples[lkg] = Required

\* Where the supervisor is in a deployment, and the phase that is on record then.
Switches == {"hand", "prepare", "stop", "stopped", "start", "started", "ensure", "assure", "fail",
             "retreat", "fallback", "restore", "activate", "verified", "observe"}

PhaseOK(pc) ==
    /\ pc \in {"hand", "prepare", "stop", "stopped"} => recovery.phase = "staged"
    /\ pc \in {"start", "started"}                   => recovery.phase = "stopped"
    /\ pc \in {"ensure", "fail"}                     => recovery.phase = "started"
    /\ pc \in {"retreat", "fallback", "restore"}     => recovery.phase = "failed"
    /\ pc \in {"assure", "observe"}                  => recovery.phase = "verified"
    /\ pc \in {"activate", "verified"}               => recovery.phase \in {"started", "verified"}

\* What the supervisor at l does next is still right.
SupFits(l) ==
    /\ MayRun(l.c) /\ MayRun(l.ident)
    /\ l.pc \in {"record", "enter", "complete", "close"} => l.c \in Changes
    /\ l.pc = "record" =>
          recovery.of = NoChange /\ attempt[l.c] = "merged" /\ AsReviewed(l.c)
    /\ l.pc \in Switches =>
          /\ recovery.of = l.c /\ PhaseOK(l.pc)
          /\ attempt[l.c] = IF l.pc = "hand" THEN "merged" ELSE "deploying"
    /\ l.pc = "good" =>
          /\ recovery.of = l.c /\ attempt[l.c] = "observing"
          /\ active = l.c /\ samples[l.c] = Required
    /\ l.pc = "clear" => l.c \in Changes /\ active = lkg

DeployInv == TypeOK /\ CallsOK /\ MergesOK /\ ReleasesOK /\ WayBack /\ SupFits(sup)

-----------------------------------------------------------------------------
(* The parts of the types *)

Sups  == [pc : SupSteps, c : Changes \cup {NoChange}, ident : Releases, boot : BOOLEAN,
          left : 0 .. RestartCount]
Fuels == [call : 0 .. MaxCalls, crash : 0 .. MaxCrashes, fault : 0 .. MaxFaults]

PromotionTyped ==
    /\ change \in [Changes -> ChangeStates] /\ attempt \in [Changes -> AttemptStates]
    /\ base \in [Changes -> Releases] /\ paper \in [Changes -> Papers]
    /\ gate \in [Changes -> {"none", "pending", "approved"}]
    /\ main \in Releases /\ merged \subseteq Changes

MetadataTyped ==
    /\ active \in Releases /\ lkg \in Releases /\ recovery \in Recoveries
    /\ samples \in [Changes -> 0 .. Required]

LEMMA TypeParts ==
    TypeOK <=> /\ PromotionTyped /\ MetadataTyped
               /\ tool \in [Tools -> Calls] /\ run \in Runs /\ sup \in Sups /\ fuel \in Fuels
BY DEF TypeOK, PromotionTyped, MetadataTyped, Sups, Fuels

LEMMA Names ==
    /\ Changes \subseteq Releases /\ Initial \in Releases
    /\ NoChange \notin Releases /\ Initial \notin Changes
    /\ NoCall \in Calls /\ NoCall.pc = "idle"
BY ReleasesAssumption DEF Releases, NoCall, Calls, ToolSteps, AttemptStates

-----------------------------------------------------------------------------
(* Steps of the tools *)

\* What such a step leaves as it was, or only adds to.
Keeps ==
    /\ UNCHANGED hostVars
    /\ merged \subseteq merged'
    /\ \A c \in Changes :
        /\ Granted(c) => Granted(c)'
        /\ attempt[c] \in Late => attempt'[c] = attempt[c] /\ paper'[c].lkg = paper[c].lkg

ToolStepOK ==
    /\ Keeps
    /\ PromotionTyped' /\ tool' \in [Tools -> Calls] /\ fuel' \in Fuels
    /\ CallsOK' /\ MergesOK'

LEMMA ToolStepSuffices ==
    ASSUME DeployInv, ToolStepOK
    PROVE  DeployInv'
<1>1. TypeOK /\ PromotionTyped /\ MetadataTyped /\ run \in Runs /\ sup \in Sups
  BY TypeParts DEF DeployInv
<1>2. /\ active' = active /\ lkg' = lkg /\ recovery' = recovery /\ samples' = samples
      /\ run' = run /\ sup' = sup
  BY DEF ToolStepOK, Keeps, hostVars, metadataVars
<1>3. TypeOK'
  BY <1>1, <1>2, TypeParts DEF ToolStepOK, MetadataTyped, TypeOK, PromotionTyped, Sups, Fuels
<1>4. \A r : MayRun(r) => MayRun(r)'
  BY DEF MayRun, ToolStepOK, Keeps
<1>5. ReleasesOK'
  BY <1>2, <1>4 DEF DeployInv, ReleasesOK, MayRun, ToolStepOK, Keeps
<1>6. \A c \in Changes : attempt[c] \in Late =>
          attempt'[c] = attempt[c] /\ (AsReviewed(c) => AsReviewed(c)')
  BY <1>2 DEF ToolStepOK, Keeps, AsReviewed
<1>7. recovery.of \in Changes \cup {NoChange}
  BY <1>1 DEF MetadataTyped, Recoveries
<1>8. WayBack'
  BY <1>2, <1>6, <1>7 DEF DeployInv, WayBack, Late, Switching
<1>9. SupFits(sup)'
  <2>1. sup.c \in Changes \cup {NoChange} /\ sup.ident \in Releases
    BY <1>1 DEF Sups
  <2>2. MayRun(sup.c)' /\ MayRun(sup.ident)'
    BY <1>2, <1>4 DEF DeployInv, SupFits, MayRun, ToolStepOK, Keeps
  <2>3. PhaseOK(sup.pc) => PhaseOK(sup.pc)'
    BY <1>2 DEF PhaseOK
  <2>4. sup.pc \in {"record", "enter", "complete", "close"} => sup.c \in Changes
    BY DEF DeployInv, SupFits
  <2>5. sup.pc = "record" => recovery.of = NoChange /\ attempt[sup.c] = "merged" /\ AsReviewed(sup.c)
    BY DEF DeployInv, SupFits
  <2>6. sup.pc = "record" => attempt'[sup.c] = "merged" /\ AsReviewed(sup.c)'
    BY <1>2, <1>6, <2>4, <2>5 DEF Late, AsReviewed
  <2>7. sup.pc \in Switches =>
          /\ recovery.of = sup.c /\ PhaseOK(sup.pc)
          /\ attempt[sup.c] = IF sup.pc = "hand" THEN "merged" ELSE "deploying"
    BY DEF DeployInv, SupFits
  <2>8. sup.pc \in Switches => recovery.phase # "none" /\ sup.c \in Changes
    BY <2>7, <1>7 DEF PhaseOK, Switches, DeployInv, WayBack
  <2>9. sup.pc \in Switches => attempt'[sup.c] = attempt[sup.c]
    BY <1>6, <2>7, <2>8 DEF Late
  <2>10. sup.pc = "good" => /\ recovery.of = sup.c /\ attempt[sup.c] = "observing"
                            /\ active = sup.c /\ samples[sup.c] = Required
    BY DEF DeployInv, SupFits
  <2>11. sup.pc = "good" => sup.c \in Changes
    BY <2>1, <2>10, <1>1, Names DEF MetadataTyped
  <2>12. sup.pc = "good" => attempt'[sup.c] = "observing"
    BY <1>6, <2>10, <2>11 DEF Late
  <2>13. sup.pc = "clear" => sup.c \in Changes /\ active = lkg
    BY DEF DeployInv, SupFits
  <2> QED
    BY <1>2, <2>2, <2>3, <2>4, <2>5, <2>6, <2>7, <2>9, <2>10, <2>12, <2>13 DEF SupFits
<1> QED BY <1>3, <1>5, <1>8, <1>9 DEF DeployInv, ToolStepOK

\* A step that only reads what is on record.
LEMMA Reading ==
    ASSUME DeployInv, UNCHANGED promotionVars, UNCHANGED hostVars
    PROVE  Keeps /\ PromotionTyped' /\ MergesOK'
<1>1. PromotionTyped /\ MergesOK
  BY TypeParts DEF DeployInv
<1> QED BY <1>1 DEF Keeps, promotionVars, PromotionTyped, MergesOK, MayRun, Granted

\* Thread t goes on at l, and the others stay where they are.
LEMMA Acted ==
    ASSUME DeployInv, Keeps, NEW t \in Tools, NEW l \in Calls, Take(t, l), CallFits(l)'
    PROVE  tool' \in [Tools -> Calls] /\ CallsOK'
<1>1. tool \in [Tools -> Calls] /\ CallsOK
  BY TypeParts DEF DeployInv
<1>2. tool' = [tool EXCEPT ![t] = l]
  BY DEF Take
<1>3. tool' \in [Tools -> Calls]
  BY <1>1, <1>2
<1>4. ASSUME NEW u \in Tools PROVE CallFits(tool[u])'
  <2>1. CASE u = t
    BY <1>1, <1>2, <2>1 DEF CallFits, Granted
  <2>2. CASE u # t
    <3>1. tool'[u] = tool[u] /\ CallFits(tool[u])
      BY <1>1, <1>2, <2>2 DEF CallsOK
    <3>2. tool[u].pc # "idle" => tool[u].c \in Changes
      BY <3>1 DEF CallFits
    <3> QED BY <3>1, <3>2 DEF CallFits, Keeps
  <2> QED BY <2>1, <2>2
<1> QED BY <1>3, <1>4 DEF CallsOK

LEMMA Left ==
    ASSUME DeployInv, Keeps, NEW t \in Tools, Leave(t)
    PROVE  tool' \in [Tools -> Calls] /\ CallsOK' /\ fuel' \in Fuels
<1>1. CallFits(NoCall)'
  BY Names DEF CallFits
<1> QED BY <1>1, Names, Acted, TypeParts DEF Leave, Continue, DeployInv

LEMMA Raised ==
    ASSUME DeployInv, NEW t \in Tools, Raise(t)
    PROVE  ToolStepOK
<1>1. UNCHANGED promotionVars /\ UNCHANGED hostVars /\ Leave(t)
  BY DEF Raise, Leave, Continue, Take
<1> QED BY <1>1, Reading, Left DEF ToolStepOK

\* Thread t goes on at pc, and remembers what it remembers.
LEMMA Gone ==
    ASSUME DeployInv, Keeps, NEW t \in Tools, NEW pc \in ToolSteps, Go(t, pc),
           pc # "idle" => tool[t].c \in Changes,
           pc \in {"permit", "main", "merge", "confirm", "mark", "promote"} =>
              gate'[tool[t].c] = "approved",
           pc \in {"confirm", "mark", "promote"} => tool[t].c \in merged'
    PROVE  tool' \in [Tools -> Calls] /\ CallsOK' /\ fuel' \in Fuels
<1>1. tool[t] \in Calls /\ fuel \in Fuels
  BY TypeParts DEF DeployInv
<1>2. PICK l : l = [tool[t] EXCEPT !.pc = pc]
  OBVIOUS
<1>3. l \in Calls /\ l.pc = pc /\ l.c = tool[t].c
  BY <1>1, <1>2 DEF Calls
<1>4. Take(t, l) /\ UNCHANGED fuel
  BY <1>2 DEF Go, Continue
<1>5. CallFits(l)'
  BY <1>3 DEF CallFits, Granted
<1> QED BY <1>1, <1>3, <1>4, <1>5, Acted

\* What is known of a thread that is about to act.
LEMMA Acting ==
    ASSUME DeployInv, NEW t \in Tools
    PROVE  /\ PromotionTyped /\ MetadataTyped /\ fuel \in Fuels /\ tool[t] \in Calls
           /\ CallFits(tool[t]) /\ MergesOK
BY TypeParts DEF DeployInv, CallsOK

\* The attempt of c goes on to g, which is past the protected branch only if c is.
AttemptMoves(c, g) ==
    /\ attempt' = [attempt EXCEPT ![c] = g]
    /\ g # attempt[c] => attempt[c] \notin Late /\ (g \in Late => MayRun(c))
    /\ UNCHANGED <<change, base, gate, main, merged>> /\ UNCHANGED hostVars
    /\ \/ UNCHANGED paper
       \/ attempt[c] \notin Late /\ \E q \in Papers : paper' = [paper EXCEPT ![c] = q]

LEMMA AttemptStep ==
    ASSUME DeployInv, NEW c \in Changes, NEW g \in AttemptStates, AttemptMoves(c, g)
    PROVE  Keeps /\ PromotionTyped' /\ MergesOK'
<1>1. PromotionTyped /\ MergesOK
  BY TypeParts DEF DeployInv
<1>2. \A d \in Changes : attempt'[d] = IF d = c THEN g ELSE attempt[d]
  BY <1>1 DEF PromotionTyped, AttemptMoves
<1>3. \A d \in Changes : attempt[d] \in Late => attempt'[d] = attempt[d] /\ paper'[d] = paper[d]
  BY <1>1, <1>2 DEF PromotionTyped, AttemptMoves
<1>4. Keeps
  BY <1>3 DEF Keeps, Granted, AttemptMoves
<1>5. PromotionTyped'
  BY <1>1 DEF PromotionTyped, AttemptMoves
<1>6. \A d \in Changes : MayRun(d)' <=> MayRun(d)
  BY DEF MayRun, Granted, AttemptMoves
<1>7. MergesOK'
  BY <1>1, <1>2, <1>6 DEF MergesOK, AttemptMoves
<1> QED BY <1>4, <1>5, <1>7

-----------------------------------------------------------------------------
(* prepare_review *)

LEMMA AcceptOK ==
    ASSUME DeployInv, NEW c \in Changes, Accept(c)
    PROVE  ToolStepOK
<1>1. Keeps
  BY DEF Accept, Keeps, hostVars, Granted
<1>2. PromotionTyped' /\ MergesOK'
  BY TypeParts DEF DeployInv, Accept, PromotionTyped, MergesOK, MayRun, Granted, ChangeStates
<1> QED BY <1>1, <1>2, TypeParts DEF DeployInv, ToolStepOK, Accept, CallsOK, CallFits, Granted

LEMMA ReviseOK ==
    ASSUME DeployInv, NEW c \in Changes, Revise(c)
    PROVE  ToolStepOK
<1>1. Keeps
  BY DEF Revise, Keeps, hostVars, Granted
<1>2. PromotionTyped' /\ MergesOK'
  BY TypeParts DEF DeployInv, Revise, PromotionTyped, MergesOK, MayRun, Granted, ChangeStates
<1> QED BY <1>1, <1>2, TypeParts DEF DeployInv, ToolStepOK, Revise, CallsOK, CallFits, Granted

LEMMA PrepareReviewOK ==
    ASSUME DeployInv, NEW t \in Tools, NEW c \in Changes, PrepareReview(t, c)
    PROVE  ToolStepOK
<1>1. UNCHANGED promotionVars /\ UNCHANGED hostVars /\ main \in Releases /\ fuel' \in Fuels
  BY Acting, BoundsAssumption DEF PrepareReview, Take, PromotionTyped, Fuels, Spend
<1>2. PICK l : l = [NoCall EXCEPT !.pc = "create", !.c = c, !.main = main]
  OBVIOUS
<1>3. l \in Calls /\ l.pc = "create" /\ l.c = c /\ Take(t, l)
  BY <1>1, <1>2, Names DEF PrepareReview, Calls, ToolSteps
<1>4. CallFits(l)'
  BY <1>3 DEF CallFits
<1> QED BY <1>1, <1>3, <1>4, Reading, Acted DEF ToolStepOK

LEMMA CreateAttemptOK ==
    ASSUME DeployInv, NEW t \in Tools, CreateAttempt(t)
    PROVE  ToolStepOK
<1> DEFINE c == tool[t].c
           fits == tool[t].main = base[c]
<1>1. c \in Changes /\ tool[t] \in Calls /\ PromotionTyped /\ fuel \in Fuels
  BY Acting DEF CreateAttempt, At, CallFits
<1>2. PICK s \in AttemptStates : s = Opened(c)
  BY <1>1 DEF Opened, PromotionTyped, AttemptStates
<1>3. attempt' = [attempt EXCEPT ![c] = s] /\ (s # attempt[c] => attempt[c] = "none" /\ s = "created")
  BY <1>1, <1>2 DEF CreateAttempt, Opened
<1>4. UNCHANGED <<change, base, paper, gate, main, merged>> /\ UNCHANGED hostVars
  BY DEF CreateAttempt, Leave, Continue, Take
<1>5. AttemptMoves(c, s)
  BY <1>3, <1>4 DEF AttemptMoves, Late
<1>8. Keeps /\ PromotionTyped' /\ MergesOK'
  BY <1>1, <1>5, AttemptStep
<1>6. CASE fits \/ s = "created"
  <2>1. PICK pc : pc = IF fits THEN "external" ELSE "stale"
    OBVIOUS
  <2>2. PICK m : m = [tool[t] EXCEPT !.pc = pc, !.att = s]
    OBVIOUS
  <2>3. m \in Calls /\ m.pc \in {"external", "stale"} /\ m.c = c
    BY <1>1, <2>1, <2>2 DEF Calls, ToolSteps
  <2>4. Take(t, m) /\ UNCHANGED fuel
    BY <1>2, <1>6, <2>1, <2>2 DEF CreateAttempt, Continue
  <2>5. CallFits(m)'
    BY <1>1, <2>3 DEF CallFits
  <2> QED BY <1>1, <1>8, <2>3, <2>4, <2>5, Acted DEF ToolStepOK
<1>7. CASE ~(fits \/ s = "created")
  BY <1>2, <1>7, <1>8, Left DEF c, CreateAttempt, ToolStepOK
<1> QED BY <1>6, <1>7

LEMMA MarkStaleOK ==
    ASSUME DeployInv, NEW t \in Tools, MarkStale(t)
    PROVE  ToolStepOK
<1> DEFINE c == tool[t].c
<1>1. c \in Changes /\ PromotionTyped
  BY Acting DEF MarkStale, At, CallFits
<1>2. UNCHANGED <<change, base, paper, gate, main, merged>> /\ UNCHANGED hostVars /\ Leave(t)
  BY DEF MarkStale, Leave, Continue, Take
<1>3. Keeps /\ PromotionTyped' /\ MergesOK'
  <2>1. CASE Moved(c, "created", "stale")
    <3>1. AttemptMoves(c, "stale")
      BY <1>2, <2>1 DEF Moved, Late, AttemptMoves
    <3> QED BY <1>1, <3>1, AttemptStep DEF AttemptStates
  <2>2. CASE UNCHANGED attempt
    BY <1>2, <2>2, Reading DEF promotionVars
  <2> QED BY <2>1, <2>2 DEF MarkStale
<1> QED BY <1>2, <1>3, Left DEF ToolStepOK

LEMMA ExternalOK ==
    ASSUME DeployInv, NEW t \in Tools, External(t)
    PROVE  ToolStepOK
<1>1. UNCHANGED promotionVars /\ UNCHANGED hostVars /\ tool[t].c \in Changes
  BY Acting DEF External, Go, Leave, Continue, Take, At, CallFits
<1>2. Leave(t) \/ Go(t, "lkg")
  BY DEF External
<1> QED BY <1>1, <1>2, Reading, Left, Gone DEF ToolStepOK, ToolSteps

LEMMA ReadLkgOK ==
    ASSUME DeployInv, NEW t \in Tools, ReadLkg(t)
    PROVE  ToolStepOK
<1>1. UNCHANGED promotionVars /\ UNCHANGED hostVars /\ tool[t].c \in Changes
      /\ tool[t] \in Calls /\ PromotionTyped /\ MetadataTyped /\ fuel \in Fuels
  BY Acting DEF ReadLkg, Leave, Continue, Take, At, CallFits
<1>2. Keeps /\ PromotionTyped' /\ MergesOK'
  BY <1>1, Reading
<1>3. CASE Continue(t, [tool[t] EXCEPT !.pc = "write", !.lkg = lkg])
  <2>1. PICK m : m = [tool[t] EXCEPT !.pc = "write", !.lkg = lkg]
    OBVIOUS
  <2>2. m \in Calls /\ m.pc = "write" /\ m.c = tool[t].c
    BY <1>1, <2>1 DEF Calls, ToolSteps, MetadataTyped
  <2>3. CallFits(m)' /\ Take(t, m) /\ UNCHANGED fuel
    BY <1>1, <1>3, <2>1, <2>2 DEF CallFits, Continue
  <2> QED BY <1>1, <1>2, <2>2, <2>3, Acted DEF ToolStepOK
<1>4. CASE Continue(t, [tool[t] EXCEPT !.pc = "check", !.doc = paper[tool[t].c].bound])
  <2>1. PICK doc \in Nat : doc = paper[tool[t].c].bound
    BY <1>1 DEF PromotionTyped, Papers
  <2>2. PICK m : m = [tool[t] EXCEPT !.pc = "check", !.doc = doc]
    OBVIOUS
  <2>3. m \in Calls /\ m.pc = "check" /\ m.c = tool[t].c
    BY <1>1, <2>2 DEF Calls, ToolSteps
  <2>4. CallFits(m)' /\ Take(t, m) /\ UNCHANGED fuel
    BY <1>1, <1>4, <2>1, <2>2, <2>3 DEF CallFits, Continue
  <2> QED BY <1>1, <1>2, <2>3, <2>4, Acted DEF ToolStepOK
<1>5. CASE Leave(t)
  BY <1>2, <1>5, Left DEF ToolStepOK
<1> QED BY <1>3, <1>4, <1>5 DEF ReadLkg

LEMMA WriteArtifactOK ==
    ASSUME DeployInv, NEW t \in Tools, WriteArtifact(t)
    PROVE  ToolStepOK
<1> DEFINE c == tool[t].c
<1>1. /\ c \in Changes /\ tool[t] \in Calls /\ PromotionTyped /\ MergesOK /\ fuel \in Fuels
      /\ paper[c] \in Papers
  BY Acting DEF WriteArtifact, At, CallFits, PromotionTyped
<1>2. UNCHANGED <<change, attempt, base, gate, main, merged>> /\ UNCHANGED hostVars
      /\ paper' = [paper EXCEPT ![c].latest = @ + 1]
  BY DEF WriteArtifact, Continue, Take
<1>3. [paper[c] EXCEPT !.latest = @ + 1] \in Papers
  BY <1>1 DEF Papers
<1>4. Keeps
  BY <1>1, <1>2 DEF Keeps, Granted, PromotionTyped, Papers
<1>5. PromotionTyped'
  BY <1>1, <1>2, <1>3 DEF PromotionTyped
<1>6. MergesOK'
  BY <1>1, <1>2 DEF MergesOK, MayRun, Granted
<1>7. PICK doc \in Nat : doc = paper[c].latest + 1
  BY <1>1 DEF Papers
<1>8. PICK m : m = [tool[t] EXCEPT !.pc = "bind", !.doc = doc]
  OBVIOUS
<1>9. m \in Calls /\ m.pc = "bind" /\ m.c = c
  BY <1>1, <1>8 DEF Calls, ToolSteps
<1>10. CallFits(m)' /\ Take(t, m) /\ UNCHANGED fuel
  BY <1>1, <1>7, <1>8, <1>9 DEF CallFits, WriteArtifact, Continue
<1> QED BY <1>1, <1>4, <1>5, <1>6, <1>9, <1>10, Acted DEF ToolStepOK

LEMMA BindArtifactOK ==
    ASSUME DeployInv, NEW t \in Tools, BindArtifact(t)
    PROVE  ToolStepOK
<1> DEFINE c == tool[t].c
<1>1. c \in Changes /\ tool[t] \in Calls /\ PromotionTyped /\ paper[c] \in Papers
  BY Acting DEF BindArtifact, At, CallFits, PromotionTyped
<1>2. PICK q : q = [paper[c] EXCEPT !.bound = tool[t].doc, !.lkg = tool[t].lkg]
  OBVIOUS
<1>3. q \in Papers
  BY <1>1, <1>2 DEF Papers, Calls
<1>4. /\ attempt[c] = "created" /\ attempt' = [attempt EXCEPT ![c] = "evidence_ready"]
      /\ paper' = [paper EXCEPT ![c] = q]
      /\ UNCHANGED <<change, base, gate, main, merged>> /\ UNCHANGED hostVars
      /\ Go(t, "check")
  BY <1>2 DEF BindArtifact, Moved, Go, Continue, Take
<1>5. AttemptMoves(c, "evidence_ready")
  BY <1>3, <1>4 DEF AttemptMoves, Late
<1>6. Keeps /\ PromotionTyped' /\ MergesOK'
  BY <1>1, <1>5, AttemptStep DEF AttemptStates
<1> QED BY <1>1, <1>4, <1>6, Gone DEF ToolStepOK, ToolSteps

LEMMA CheckLatestOK ==
    ASSUME DeployInv, NEW t \in Tools, CheckLatest(t)
    PROVE  ToolStepOK
<1>1. UNCHANGED promotionVars /\ UNCHANGED hostVars /\ tool[t].c \in Changes
  BY Acting DEF CheckLatest, Go, Leave, Continue, Take, At, CallFits
<1>2. Leave(t) \/ Go(t, "present")
  BY DEF CheckLatest
<1> QED BY <1>1, <1>2, Reading, Left, Gone DEF ToolStepOK, ToolSteps

\* A gate that goes on from s to g stays approved if it is.
LEMMA GateStep ==
    ASSUME DeployInv, NEW c \in Changes, NEW g \in {"pending", "approved"},
           gate' = [gate EXCEPT ![c] = g], gate[c] = "approved" => g = "approved",
           change' \in [Changes -> ChangeStates],
           UNCHANGED <<attempt, base, paper, main, merged>>, UNCHANGED hostVars
    PROVE  Keeps /\ PromotionTyped' /\ MergesOK'
<1>1. PromotionTyped /\ MergesOK
  BY TypeParts DEF DeployInv
<1>2. \A d \in Changes : Granted(d) => Granted(d)'
  BY <1>1 DEF Granted, PromotionTyped
<1>3. MergesOK'
  BY <1>1, <1>2 DEF MergesOK, MayRun
<1> QED BY <1>1, <1>2, <1>3 DEF Keeps, PromotionTyped

LEMMA PresentGateOK ==
    ASSUME DeployInv, NEW t \in Tools, PresentGate(t)
    PROVE  ToolStepOK
<1> DEFINE c == tool[t].c
<1>1. c \in Changes /\ PromotionTyped
  BY Acting DEF PresentGate, At, CallFits
<1>2. PICK g : g = IF gate[c] = "none" THEN "pending" ELSE gate[c]
  OBVIOUS
<1>3. /\ g \in {"pending", "approved"} /\ (gate[c] = "approved" => g = "approved")
      /\ gate' = [gate EXCEPT ![c] = g]
      /\ change' \in [Changes -> ChangeStates]
  BY <1>1, <1>2 DEF PresentGate, Present, PromotionTyped, ChangeStates
<1>4. UNCHANGED <<attempt, base, paper, main, merged>> /\ UNCHANGED hostVars /\ Leave(t)
  BY DEF PresentGate, Leave, Continue, Take
<1>5. Keeps /\ PromotionTyped' /\ MergesOK'
  BY <1>1, <1>3, <1>4, GateStep
<1> QED BY <1>4, <1>5, Left DEF ToolStepOK

-----------------------------------------------------------------------------
(* authorize_and_merge *)

LEMMA AuthorizeOK ==
    ASSUME DeployInv, NEW t \in Tools, NEW c \in Changes, Authorize(t, c)
    PROVE  ToolStepOK
<1>1. UNCHANGED promotionVars /\ UNCHANGED hostVars /\ fuel' \in Fuels /\ PromotionTyped
  BY Acting, BoundsAssumption DEF Authorize, Take, Fuels, Spend
<1>2. PICK a \in AttemptStates : a = attempt[c]
  BY <1>1 DEF PromotionTyped
<1>3. PICK b \in BOOLEAN : b = Granted(c)
  BY DEF Granted
<1>4. PICK l : l = [NoCall EXCEPT !.pc = "verify", !.c = c, !.att = a, !.granted = b]
  OBVIOUS
<1>5. l \in Calls /\ l.pc = "verify" /\ l.c = c
  BY <1>4, Names DEF Calls, ToolSteps
<1>6. Take(t, l)
  BY <1>2, <1>3, <1>4 DEF Authorize
<1>7. CallFits(l)'
  BY <1>5 DEF CallFits
<1> QED BY <1>1, <1>5, <1>6, <1>7, Reading, Acted DEF ToolStepOK

LEMMA DecideGateOK ==
    ASSUME DeployInv, NEW t \in Tools, DecideGate(t)
    PROVE  ToolStepOK
<1> DEFINE c == tool[t].c
<1>1. c \in Changes /\ PromotionTyped
  BY Acting DEF DecideGate, At, CallFits
<1>2. /\ gate' = [gate EXCEPT ![c] = "approved"] /\ change' \in [Changes -> ChangeStates]
      /\ UNCHANGED <<attempt, base, paper, main, merged>> /\ UNCHANGED hostVars
      /\ Go(t, "permit")
  BY <1>1 DEF DecideGate, Go, Continue, Take, PromotionTyped
<1>3. Keeps /\ PromotionTyped' /\ MergesOK'
  BY <1>1, <1>2, GateStep
<1>4. gate'[c] = "approved"
  BY <1>1, <1>2 DEF PromotionTyped
<1> QED BY <1>1, <1>2, <1>3, <1>4, Gone DEF ToolStepOK, ToolSteps

LEMMA DecidedBeforeOK ==
    ASSUME DeployInv, NEW t \in Tools, DecidedBefore(t)
    PROVE  ToolStepOK
<1>1. /\ UNCHANGED promotionVars /\ UNCHANGED hostVars /\ tool[t].c \in Changes
      /\ Go(t, "permit")
  BY Acting DEF DecidedBefore, Go, Continue, Take, At, CallFits
<1>2. gate'[tool[t].c] = "approved"
  BY <1>1 DEF DecidedBefore, Granted, promotionVars
<1> QED BY <1>1, <1>2, Reading, Gone DEF ToolStepOK, ToolSteps

LEMMA PermitOK ==
    ASSUME DeployInv, NEW t \in Tools, Permit(t)
    PROVE  ToolStepOK
<1> DEFINE c == tool[t].c
<1>1. c \in Changes /\ PromotionTyped /\ gate[c] = "approved"
  BY Acting DEF Permit, At, CallFits, Granted
<1>2. /\ UNCHANGED <<change, base, paper, gate, main, merged>> /\ UNCHANGED hostVars
      /\ Go(t, "main")
  BY DEF Permit, Go, Continue, Take
<1>3. Keeps /\ PromotionTyped' /\ MergesOK'
  <2>1. CASE Moved(c, "evidence_ready", "authorized")
    <3>1. AttemptMoves(c, "authorized")
      BY <1>2, <2>1 DEF Moved, Late, AttemptMoves
    <3> QED BY <1>1, <3>1, AttemptStep DEF AttemptStates
  <2>2. CASE UNCHANGED attempt
    BY <1>2, <2>2, Reading DEF promotionVars
  <2> QED BY <2>1, <2>2 DEF Permit
<1> QED BY <1>1, <1>2, <1>3, Gone DEF ToolStepOK, ToolSteps

LEMMA ReadMainOK ==
    ASSUME DeployInv, NEW t \in Tools, ReadMain(t)
    PROVE  ToolStepOK
<1> DEFINE c == tool[t].c
<1>1. c \in Changes /\ gate[c] = "approved" /\ MergesOK
  BY Acting DEF ReadMain, At, CallFits, Granted
<1>2. UNCHANGED promotionVars
  BY DEF ReadMain
<1>3. Leave(t) \/ Go(t, "merge") \/ (main = c /\ Go(t, "mark"))
  BY DEF ReadMain
<1>4. UNCHANGED hostVars
  BY <1>3 DEF Leave, Go, Continue, Take
<1>5. Keeps /\ PromotionTyped' /\ MergesOK'
  BY <1>2, <1>4, Reading
<1>6. gate'[c] = "approved" /\ (main = c => c \in merged')
  BY <1>1, <1>2 DEF promotionVars, MergesOK
<1> QED BY <1>1, <1>3, <1>5, <1>6, Left, Gone DEF ToolStepOK, ToolSteps

LEMMA MergeOK ==
    ASSUME DeployInv, NEW t \in Tools, Merge(t)
    PROVE  ToolStepOK
<1> DEFINE c == tool[t].c
<1>1. c \in Changes /\ gate[c] = "approved" /\ PromotionTyped /\ MergesOK
  BY Acting DEF Merge, At, CallFits, Granted
<1>2. /\ merged' = merged \cup {c} /\ main' = c
      /\ UNCHANGED <<change, attempt, base, paper, gate>>
  BY DEF Merge
<1>3. UNCHANGED hostVars
  BY DEF Merge, Leave, Go, Continue, Take
<1>4. Keeps
  BY <1>2, <1>3 DEF Keeps, Granted
<1>5. PromotionTyped' /\ MergesOK'
  BY <1>1, <1>2, Names DEF PromotionTyped, MergesOK, MayRun, Granted
<1>6. gate'[c] = "approved" /\ c \in merged'
  BY <1>1, <1>2
<1> QED BY <1>1, <1>4, <1>5, <1>6, Left, Gone DEF Merge, ToolStepOK, ToolSteps

LEMMA ConfirmMainOK ==
    ASSUME DeployInv, NEW t \in Tools, ConfirmMain(t)
    PROVE  ToolStepOK
<1>1. /\ UNCHANGED promotionVars /\ UNCHANGED hostVars
      /\ tool[t].c \in Changes /\ gate[tool[t].c] = "approved" /\ tool[t].c \in merged
  BY Acting DEF ConfirmMain, Go, Leave, Continue, Take, At, CallFits, Granted
<1>2. gate'[tool[t].c] = "approved" /\ tool[t].c \in merged'
  BY <1>1 DEF promotionVars
<1>3. Leave(t) \/ Go(t, "mark")
  BY DEF ConfirmMain
<1> QED BY <1>1, <1>2, <1>3, Reading, Left, Gone DEF ToolStepOK, ToolSteps

LEMMA MarkMergedOK ==
    ASSUME DeployInv, NEW t \in Tools, MarkMerged(t)
    PROVE  ToolStepOK
<1> DEFINE c == tool[t].c
<1>1. c \in Changes /\ gate[c] = "approved" /\ c \in merged
  BY Acting DEF MarkMerged, At, CallFits, Granted
<1>2. /\ UNCHANGED <<change, base, paper, gate, main, merged>> /\ UNCHANGED hostVars
      /\ Moved(c, "authorized", "merged") /\ Go(t, "promote")
  BY DEF MarkMerged, Go, Continue, Take
<1>3. AttemptMoves(c, "merged")
  BY <1>1, <1>2 DEF Moved, Late, AttemptMoves, MayRun, Granted
<1>4. Keeps /\ PromotionTyped' /\ MergesOK'
  BY <1>1, <1>3, AttemptStep DEF AttemptStates
<1> QED BY <1>1, <1>2, <1>4, Gone DEF ToolStepOK, ToolSteps

LEMMA PromoteOK ==
    ASSUME DeployInv, NEW t \in Tools, Promote(t)
    PROVE  ToolStepOK
<1> DEFINE c == tool[t].c
<1>1. c \in Changes /\ PromotionTyped /\ MergesOK
  BY Acting DEF Promote, At, CallFits
<1>2. UNCHANGED <<attempt, base, paper, gate, main, merged>> /\ UNCHANGED hostVars /\ Leave(t)
  BY DEF Promote, Leave, Continue, Take
<1>3. Keeps
  BY <1>2 DEF Keeps, Granted
<1>4. PromotionTyped' /\ MergesOK'
  BY <1>1, <1>2 DEF Promote, PromotionTyped, MergesOK, MayRun, Granted, ChangeStates
<1> QED BY <1>2, <1>3, <1>4, Left DEF ToolStepOK

LEMMA ToolsKeepInv ==
    ASSUME DeployInv, Owner \/ ToolStep
    PROVE  DeployInv'
<1>1. ASSUME NEW c \in Changes, Accept(c) \/ Revise(c) PROVE ToolStepOK
  BY <1>1, AcceptOK, ReviseOK
<1>2. ASSUME NEW t \in Tools, NEW c \in Changes, PrepareReview(t, c) \/ Authorize(t, c)
      PROVE ToolStepOK
  BY <1>2, PrepareReviewOK, AuthorizeOK
<1>3. ASSUME NEW t \in Tools, Preparation(t) PROVE ToolStepOK
  <2>1. CASE CreateRefused(t) \/ BindRefused(t) \/ PresentRefused(t)
    BY <2>1, Raised DEF CreateRefused, BindRefused, PresentRefused
  <2> QED
    BY <1>3, <2>1, CreateAttemptOK, MarkStaleOK, ExternalOK, ReadLkgOK, WriteArtifactOK,
       BindArtifactOK, CheckLatestOK, PresentGateOK DEF Preparation
<1>4. ASSUME NEW t \in Tools, Execution(t) PROVE ToolStepOK
  <2>1. CASE DecideRefused(t) \/ PermitRefused(t) \/ MergeRefused(t) \/ MarkRefused(t)
    BY <2>1, Raised DEF DecideRefused, PermitRefused, MergeRefused, MarkRefused
  <2> QED
    BY <1>4, <2>1, DecideGateOK, DecidedBeforeOK, PermitOK, ReadMainOK, MergeOK,
       ConfirmMainOK, MarkMergedOK, PromoteOK DEF Execution
<1> QED BY <1>1, <1>2, <1>3, <1>4, ToolStepSuffices DEF Owner, ToolStep

-----------------------------------------------------------------------------
(* Steps of the supervisor and of the runtime *)

\* The tools go on, or end with the runtime.
ToolsKept == tool' = tool \/ tool' = [t \in Tools |-> NoCall]

HostStepOK ==
    /\ UNCHANGED <<base, paper, gate, main, merged>> /\ ToolsKept
    /\ change' \in [Changes -> ChangeStates] /\ attempt' \in [Changes -> AttemptStates]
    /\ \A c \in Changes : attempt'[c] \in Late => attempt[c] \in Late
    /\ MetadataTyped' /\ run' \in Runs /\ sup' \in Sups /\ fuel' \in Fuels
    /\ ReleasesOK' /\ WayBack' /\ SupFits(sup)'

LEMMA HostStepSuffices ==
    ASSUME DeployInv, HostStepOK
    PROVE  DeployInv'
<1>1. PromotionTyped /\ tool \in [Tools -> Calls] /\ CallsOK /\ MergesOK
  BY TypeParts DEF DeployInv
<1>2. PromotionTyped'
  BY <1>1 DEF HostStepOK, PromotionTyped
<1>3. tool' \in [Tools -> Calls] /\ CallsOK'
  <2>1. CASE tool' = tool
    BY <1>1, <2>1 DEF CallsOK, CallFits, HostStepOK, Granted
  <2>2. CASE tool' = [t \in Tools |-> NoCall]
    BY <2>2, Names DEF CallsOK, CallFits
  <2> QED BY <2>1, <2>2 DEF HostStepOK, ToolsKept
<1>4. MergesOK'
  BY <1>1 DEF MergesOK, HostStepOK, MayRun, Granted
<1>5. TypeOK'
  BY <1>2, <1>3 DEF HostStepOK, TypeOK, PromotionTyped, MetadataTyped, Sups, Fuels
<1> QED BY <1>3, <1>4, <1>5 DEF DeployInv, HostStepOK

\* What is known when such a step begins.
LEMMA Hosting ==
    ASSUME DeployInv
    PROVE  /\ PromotionTyped /\ MetadataTyped /\ run \in Runs /\ sup \in Sups /\ fuel \in Fuels
           /\ ReleasesOK /\ WayBack /\ SupFits(sup) /\ MergesOK
           /\ recovery.of \in Changes \cup {NoChange} /\ recovery.lkg \in Releases
           /\ recovery.phase \in Phases
           /\ sup.c \in Changes \cup {NoChange} /\ sup.ident \in Releases /\ sup.boot \in BOOLEAN
<1>1. MetadataTyped /\ sup \in Sups
  BY TypeParts DEF DeployInv
<1> QED BY <1>1, TypeParts DEF DeployInv, MetadataTyped, Recoveries, Sups

LEMMA NothingMayRun == MayRun(NoChange) /\ MayRun(Initial)
BY Names DEF MayRun, Releases

\* Where the supervisor is not about a deployment.
Free == {"down", "closed", "look", "launch", "await", "poll", "probe", "sample"}

\* The supervisor goes on at l, with nothing else on record than before.
Onward(l) ==
    /\ sup' = l /\ l \in Sups /\ SupFits(l)
    /\ run' \in Runs /\ MayRun(run') /\ ToolsKept /\ fuel' \in Fuels
    /\ UNCHANGED recordVars

LEMMA OnwardOK ==
    ASSUME DeployInv, NEW l, Onward(l)
    PROVE  DeployInv'
<1>1. UNCHANGED <<change, attempt, base, paper, gate, main, merged, active, lkg, recovery, samples>>
  BY DEF Onward, recordVars, promotionVars, metadataVars
<1>2. MetadataTyped' /\ PromotionTyped'
  BY <1>1, Hosting DEF MetadataTyped, PromotionTyped
<1>3. ReleasesOK' /\ WayBack'
  <2>1. MayRun(run)'
    BY <1>1 DEF Onward, MayRun, Granted
  <2>2. ReleasesOK'
    BY <1>1, <2>1, Hosting DEF ReleasesOK, MayRun, Granted
  <2> QED BY <1>1, <2>2, Hosting DEF WayBack, AsReviewed
<1>4. SupFits(sup)'
  BY <1>1 DEF Onward, SupFits, PhaseOK, MayRun, Granted, AsReviewed
<1> QED
  BY <1>1, <1>2, <1>3, <1>4, HostStepSuffices DEF HostStepOK, Onward, PromotionTyped

LEMMA FreeFits ==
    ASSUME NEW l \in Sups, l.pc \in Free, MayRun(l.c), MayRun(l.ident)
    PROVE  SupFits(l)
BY DEF SupFits, Free, Switches

\* The supervisor is done with a deployment, and goes on at pc with ident.
LEMMA DoneShape ==
    ASSUME DeployInv, NEW pc \in Free, NEW ident \in Releases, Done(pc, ident)
    PROVE  sup' \in Sups /\ sup'.pc = pc /\ sup'.c = NoChange /\ sup'.ident = ident
<1>1. PICK l : l = [sup EXCEPT !.pc = pc, !.ident = ident, !.c = NoChange]
  OBVIOUS
<1>2. l \in Sups /\ l.pc = pc /\ l.c = NoChange /\ l.ident = ident
  BY <1>1, Hosting DEF Sups, SupSteps, Free
<1>3. sup' = l
  BY <1>1 DEF Done
<1> QED BY <1>2, <1>3

LEMMA ResumedShape ==
    ASSUME DeployInv, NEW ident \in Releases, Resumed(ident)
    PROVE  sup' \in Sups /\ sup'.pc \in Free /\ sup'.c = NoChange /\ sup'.ident = ident
<1>1. PICK pc \in Free : pc = IF sup.boot THEN "launch" ELSE "poll"
  BY DEF Free
<1> QED BY <1>1, DoneShape DEF Resumed

LEMMA DoneFits ==
    ASSUME DeployInv, NEW pc \in Free, NEW ident \in Releases, MayRun(ident), Done(pc, ident)
    PROVE  sup' \in Sups /\ SupFits(sup')
BY DoneShape, FreeFits, NothingMayRun

LEMMA ResumedFits ==
    ASSUME DeployInv, NEW ident \in Releases, MayRun(ident), Resumed(ident)
    PROVE  sup' \in Sups /\ SupFits(sup')
BY ResumedShape, FreeFits, NothingMayRun

LEMMA LoopFits ==
    ASSUME DeployInv, Loop
    PROVE  sup' \in Sups /\ SupFits(sup')
BY DoneFits, Hosting DEF Loop, Free, SupFits

LEMMA StepShape ==
    ASSUME DeployInv, NEW pc \in SupSteps, Step(pc)
    PROVE  /\ sup' \in Sups /\ sup'.pc = pc /\ sup'.c = sup.c /\ sup'.ident = sup.ident
           /\ MayRun(sup'.c) /\ MayRun(sup'.ident)
<1>1. PICK l : l = [sup EXCEPT !.pc = pc]
  OBVIOUS
<1>2. l \in Sups /\ l.pc = pc /\ l.c = sup.c /\ l.ident = sup.ident
  BY <1>1, Hosting DEF Sups
<1>3. sup' = l
  BY <1>1 DEF Step
<1> QED BY <1>2, <1>3, Hosting DEF SupFits

LEMMA StepFree ==
    ASSUME DeployInv, NEW pc \in Free, Step(pc)
    PROVE  sup' \in Sups /\ SupFits(sup')
BY StepShape, FreeFits DEF Free, SupSteps

LEMMA SpendOK ==
    ASSUME DeployInv, NEW what \in {"call", "crash", "fault"}, Spend(what)
    PROVE  fuel' \in Fuels
BY Hosting, BoundsAssumption DEF Spend, Fuels

LEMMA QuietOK == ASSUME DeployInv, Quiet PROVE fuel' \in Fuels
BY Hosting DEF Quiet

LEMMA HaltOK == Halt => ToolsKept /\ run' \in Runs /\ MayRun(run')
BY NothingMayRun DEF Halt, ToolsKept, Runs

LEMMA UndisturbedOK ==
    ASSUME DeployInv, UNCHANGED run
    PROVE  run' \in Runs /\ MayRun(run')
BY Hosting DEF ReleasesOK

-----------------------------------------------------------------------------
(* Steps that put nothing on record *)

LEMMA FailClosedOK ==
    ASSUME DeployInv, FailClosed, UNCHANGED recordVars, fuel' \in Fuels
    PROVE  DeployInv'
<1>1. ToolsKept /\ run' \in Runs /\ MayRun(run')
  BY HaltOK DEF FailClosed
<1>2. sup' \in Sups /\ SupFits(sup')
  BY DoneFits, Hosting DEF FailClosed, Free, SupFits
<1> QED BY <1>1, <1>2, OnwardOK DEF Onward

LEMMA ExitOK ==
    ASSUME DeployInv, Exit, UNCHANGED recordVars, fuel' \in Fuels
    PROVE  DeployInv'
<1>1. CASE sup.left = 0
  BY <1>1, FailClosedOK DEF Exit
<1>2. CASE sup.left # 0
  <2>1. ToolsKept /\ run' \in Runs /\ MayRun(run')
    BY <1>2, HaltOK DEF Exit
  <2>2. PICK left : left = sup.left - 1
    OBVIOUS
  <2>3. left \in 0 .. RestartCount
    BY <1>2, <2>2, BoundsAssumption, Hosting DEF Sups
  <2>4. PICK l : l = [sup EXCEPT !.pc = "down", !.c = NoChange, !.left = left]
    OBVIOUS
  <2>5. l \in Sups /\ l.pc = "down" /\ l.c = NoChange /\ l.ident = sup.ident
    BY <2>3, <2>4, Hosting DEF Sups, SupSteps
  <2>6. SupFits(l)
    BY <2>5, FreeFits, NothingMayRun, Hosting DEF Free, SupFits
  <2>7. sup' = l
    BY <1>2, <2>2, <2>4 DEF Exit
  <2> QED BY <2>1, <2>5, <2>6, <2>7, OnwardOK DEF Onward
<1> QED BY <1>1, <1>2

\* The runtime and the tools go on.
LEMMA AsideOK ==
    ASSUME DeployInv, UNCHANGED recordVars, Undisturbed, fuel' \in Fuels,
           sup' \in Sups, SupFits(sup')
    PROVE  DeployInv'
<1>1. run' \in Runs /\ MayRun(run') /\ ToolsKept
  BY UndisturbedOK DEF Undisturbed, ToolsKept
<1> QED BY <1>1, OnwardOK DEF Onward

\* A deployment at pc goes on at goal: nothing on record tells these two apart.
LEMMA OnAt ==
    ASSUME DeployInv, NEW goal \in Switches, Step(goal), sup.pc \in Switches,
           sup.pc # "hand", goal # "hand", PhaseOK(goal)
    PROVE  sup' \in Sups /\ SupFits(sup')
<1>1. /\ sup' \in Sups /\ sup'.pc = goal /\ sup'.c = sup.c
      /\ MayRun(sup'.c) /\ MayRun(sup'.ident)
  BY StepShape DEF Switches, SupSteps
<1>2. recovery.of = sup.c /\ attempt[sup.c] = "deploying"
  BY Hosting DEF SupFits
<1>3. PhaseOK(sup'.pc)
  BY <1>1 DEF PhaseOK
<1>4. goal \notin {"record", "enter", "complete", "close", "good", "clear"}
  BY DEF Switches
<1> QED BY <1>1, <1>2, <1>3, <1>4 DEF SupFits

\* Where it may run the change at hand.
LEMMA Deploying ==
    ASSUME DeployInv, sup.pc \in Switches
    PROVE  /\ sup.c \in Changes /\ recovery.of = sup.c /\ PhaseOK(sup.pc)
           /\ attempt[sup.c] = IF sup.pc = "hand" THEN "merged" ELSE "deploying"
           /\ sup.c \in Releases
<1>1. recovery.of = sup.c /\ PhaseOK(sup.pc) /\ WayBack
  BY Hosting DEF SupFits
<1>2. recovery.phase # "none"
  BY <1>1 DEF PhaseOK, Switches
<1>3. sup.c \in Changes
  BY <1>1, <1>2, Hosting DEF WayBack
<1> QED BY <1>1, <1>3, Names, Hosting DEF SupFits

LEMMA LookOK ==
    ASSUME DeployInv, Look
    PROVE  DeployInv'
<1>1. UNCHANGED recordVars /\ Undisturbed /\ fuel' \in Fuels
  BY QuietOK DEF Look
<1>2. SUFFICES sup' \in Sups /\ SupFits(sup')
  BY <1>1, AsideOK
<1>3. ASSUME Step(IF sup.boot THEN "launch" ELSE "probe")
      PROVE  sup' \in Sups /\ SupFits(sup')
  <2>1. PICK pc \in Free : pc = IF sup.boot THEN "launch" ELSE "probe"
    BY DEF Free
  <2> QED BY <1>3, <2>1, StepFree
<1>4. CASE recovery.of # NoChange /\ Resumable
  <2>1. recovery.of \in Changes /\ recovery.phase \in Phases \ {"none", "failed"}
    BY <1>4, Hosting DEF Resumable, WayBack
  <2>2. PICK l : l = [sup EXCEPT !.pc = Resumption(recovery.phase), !.c = recovery.of]
    OBVIOUS
  <2>3. PICK pc : pc = Resumption(recovery.phase)
    OBVIOUS
  <2>4. pc \in {"prepare", "start", "ensure", "assure"} /\ PhaseOK(pc)
    BY <2>1, <2>3 DEF Resumption, Phases, PhaseOK
  <2>5. l.pc = pc /\ l.c = recovery.of /\ l.ident = sup.ident /\ l \in Sups
    BY <2>1, <2>2, <2>3, <2>4, Hosting DEF Sups, SupSteps
  <2>6. SupFits(l)
    BY <1>4, <2>4, <2>5, Hosting DEF SupFits, Resumable, ReleasesOK, Switches
  <2>7. sup' = l
    BY <1>4, <2>2 DEF Look
  <2> QED BY <2>5, <2>6, <2>7
<1>5. CASE recovery.of # NoChange /\ ~Resumable
  BY <1>3, <1>5 DEF Look
<1>6. CASE recovery.of = NoChange
  <2>1. CASE Step(IF sup.boot THEN "launch" ELSE "probe")
    BY <1>3, <2>1
  <2>2. CASE Resumed(sup.ident)
    BY <2>2, ResumedFits, Hosting DEF SupFits
  <2>3. CASE Resumed(active)
    BY <2>3, ResumedFits, Hosting DEF ReleasesOK, MetadataTyped
  <2>4. ASSUME NEW c \in InState("merged"), AsReviewed(c),
               sup' = [sup EXCEPT !.pc = "record", !.c = c]
        PROVE  sup' \in Sups /\ SupFits(sup')
    <3>1. PICK l : l = [sup EXCEPT !.pc = "record", !.c = c]
      OBVIOUS
    <3>2. c \in Changes /\ attempt[c] = "merged" /\ MayRun(c)
      BY Hosting DEF InState, MergesOK, Late
    <3>3. l.pc = "record" /\ l.c = c /\ l.ident = sup.ident /\ l \in Sups
      BY <3>1, <3>2, Hosting DEF Sups, SupSteps
    <3>4. SupFits(l)
      BY <1>6, <2>4, <3>2, <3>3, Hosting DEF SupFits, Switches
    <3> QED BY <2>4, <3>1, <3>3, <3>4
  <2>5. \/ Step(IF sup.boot THEN "launch" ELSE "probe")
        \/ Resumed(sup.ident) \/ Resumed(active)
        \/ \E c \in InState("merged") :
              AsReviewed(c) /\ sup' = [sup EXCEPT !.pc = "record", !.c = c]
    BY <1>6, Zenon DEF Look
  <2> QED BY <2>1, <2>2, <2>3, <2>4, <2>5
<1> QED BY <1>4, <1>5, <1>6

LEMMA UnexpectedOK == ASSUME DeployInv, Unexpected PROVE DeployInv'
BY ExitOK, SpendOK DEF Unexpected

LEMMA PrepareReleaseOK ==
    ASSUME DeployInv, PrepareRelease
    PROVE  DeployInv'
<1>1. PhaseOK("stop")
  BY Deploying DEF PrepareRelease, Switches, PhaseOK
<1> QED BY <1>1, OnAt, AsideOK, QuietOK DEF PrepareRelease, Switches

LEMMA PrepareFailsOK == ASSUME DeployInv, PrepareFails PROVE DeployInv'
BY ResumedFits, AsideOK, SpendOK, Hosting DEF PrepareFails, ReleasesOK, MetadataTyped

LEMMA StopRuntimeOK ==
    ASSUME DeployInv, StopRuntime
    PROVE  DeployInv'
<1>1. PhaseOK("stopped")
  BY Deploying DEF StopRuntime, Switches, PhaseOK
<1>2. sup' \in Sups /\ SupFits(sup')
  BY <1>1, OnAt DEF StopRuntime, Switches
<1> QED BY <1>2, OnwardOK, HaltOK, QuietOK DEF StopRuntime, Onward

LEMMA StartRuntimeOK ==
    ASSUME DeployInv, StartRuntime
    PROVE  DeployInv'
<1>1. PhaseOK("started") /\ sup.c \in Releases
  BY Deploying DEF StartRuntime, Switches, PhaseOK
<1>2. sup' \in Sups /\ SupFits(sup')
  BY <1>1, OnAt DEF StartRuntime, Switches
<1>3. run' \in Runs /\ MayRun(run')
  BY <1>1, Hosting DEF StartRuntime, SupFits, Runs
<1> QED BY <1>2, <1>3, OnwardOK, QuietOK DEF StartRuntime, Onward, ToolsKept

LEMMA EnsureFailsOK ==
    ASSUME DeployInv, EnsureFails
    PROVE  DeployInv'
<1>1. PhaseOK("fail")
  BY Deploying DEF EnsureFails, Switches, PhaseOK
<1> QED BY <1>1, OnAt, AsideOK, QuietOK DEF EnsureFails, Switches

LEMMA EnsureReleaseOK ==
    ASSUME DeployInv, EnsureRelease
    PROVE  DeployInv'
<1>1. PhaseOK("activate") /\ sup.c \in Releases
  BY Deploying DEF EnsureRelease, Switches, PhaseOK
<1>2. sup' \in Sups /\ SupFits(sup')
  BY <1>1, OnAt DEF EnsureRelease, Switches
<1>3. run' \in Runs /\ MayRun(run')
  BY <1>1, Hosting DEF EnsureRelease, SupFits, Runs
<1> QED BY <1>2, <1>3, OnwardOK, QuietOK DEF EnsureRelease, Onward, ToolsKept

LEMMA StopCandidateOK ==
    ASSUME DeployInv, StopCandidate
    PROVE  DeployInv'
<1>1. PhaseOK("fallback")
  BY Deploying DEF StopCandidate, Switches, PhaseOK
<1>2. sup' \in Sups /\ SupFits(sup')
  BY <1>1, OnAt DEF StopCandidate, Switches
<1> QED BY <1>2, OnwardOK, HaltOK, QuietOK DEF StopCandidate, Onward

LEMMA StartLkgOK ==
    ASSUME DeployInv, StartLkg
    PROVE  DeployInv'
<1>1. PhaseOK("restore")
  BY Deploying DEF StartLkg, Switches, PhaseOK
<1>2. sup' \in Sups /\ SupFits(sup')
  BY <1>1, OnAt DEF StartLkg, Switches
<1>3. run' \in Runs /\ MayRun(run')
  BY Hosting DEF StartLkg, ReleasesOK, Runs
<1> QED BY <1>2, <1>3, OnwardOK, QuietOK DEF StartLkg, Onward, ToolsKept

LEMMA StartLkgFailsOK ==
    ASSUME DeployInv, StartLkgFails
    PROVE  DeployInv'
<1>1. active \in Releases /\ MayRun(active)
  BY Hosting DEF ReleasesOK, MetadataTyped
<1>2. sup' \in Sups /\ SupFits(sup')
  BY <1>1, ResumedFits, DoneFits DEF StartLkgFails, Free
<1>3. run' \in Runs /\ MayRun(run')
  BY Hosting DEF StartLkgFails, ReleasesOK, Runs
<1> QED BY <1>2, <1>3, OnwardOK, SpendOK DEF StartLkgFails, Onward, ToolsKept

LEMMA LaunchOK ==
    ASSUME DeployInv, Launch
    PROVE  DeployInv'
<1>1. run' \in Runs /\ MayRun(run')
  BY Hosting DEF Launch, ReleasesOK, SupFits, Runs
<1>2. sup' \in Sups /\ SupFits(sup')
  BY StepFree DEF Launch, Free
<1> QED BY <1>1, <1>2, OnwardOK, QuietOK DEF Launch, Onward, ToolsKept

LEMMA AwaitOK ==
    ASSUME DeployInv, Await
    PROVE  DeployInv'
<1>1. CASE FailClosed
  BY <1>1, FailClosedOK, QuietOK DEF Await
<1>2. CASE sup' = [sup EXCEPT !.pc = "poll", !.boot = FALSE] /\ Undisturbed
  <2>1. PICK l : l = [sup EXCEPT !.pc = "poll", !.boot = FALSE]
    OBVIOUS
  <2>2. l \in Sups /\ l.pc = "poll" /\ l.c = sup.c /\ l.ident = sup.ident
    BY <2>1, Hosting DEF Sups, SupSteps
  <2>3. SupFits(l)
    BY <2>2, FreeFits, Hosting DEF Free, SupFits
  <2> QED BY <1>2, <2>1, <2>2, <2>3, AsideOK, QuietOK DEF Await
<1> QED BY <1>1, <1>2 DEF Await

LEMMA PollOK == ASSUME DeployInv, Poll PROVE DeployInv'
BY StepFree, AsideOK, QuietOK DEF Poll, Free

LEMMA RestartOK ==
    ASSUME DeployInv, Restart
    PROVE  DeployInv'
<1>1. run' \in Runs /\ MayRun(run') /\ sup' \in Sups /\ SupFits(sup')
  BY Hosting DEF Restart, SupFits, Runs
<1> QED BY <1>1, OnwardOK, QuietOK DEF Restart, Onward, ToolsKept

LEMMA GivesUpOK == ASSUME DeployInv, GivesUp PROVE DeployInv'
BY FailClosedOK, SpendOK DEF GivesUp

LEMMA ProbeOK ==
    ASSUME DeployInv, Probe
    PROVE  DeployInv'
<1>1. sup' \in Sups /\ SupFits(sup')
  BY LoopFits, StepFree DEF Probe, Free
<1> QED BY <1>1, AsideOK, QuietOK DEF Probe

LEMMA UnresponsiveOK ==
    ASSUME DeployInv, Unresponsive
    PROVE  DeployInv'
<1>1. UNCHANGED recordVars /\ fuel' \in Fuels
  BY SpendOK DEF Unresponsive
<1>2. ASSUME run' = sup.ident, tool' = [t \in Tools |-> NoCall], Loop
      PROVE  DeployInv'
  <2>1. run' \in Runs /\ MayRun(run')
    BY <1>2, Hosting DEF SupFits, Runs
  <2> QED BY <1>1, <1>2, <2>1, LoopFits, OnwardOK DEF Onward, ToolsKept
<1> QED BY <1>1, <1>2, FailClosedOK DEF Unresponsive

LEMMA RuntimeEndsOK ==
    ASSUME DeployInv, RuntimeEnds
    PROVE  DeployInv'
<1>1. sup' \in Sups /\ SupFits(sup')
  BY Hosting DEF RuntimeEnds
<1> QED BY <1>1, OnwardOK, HaltOK, SpendOK DEF RuntimeEnds, Onward

LEMMA CrashOK == ASSUME DeployInv, Crash PROVE DeployInv'
BY ExitOK, FailClosedOK, SpendOK DEF Crash

LEMMA StartOK ==
    ASSUME DeployInv, NEW left \in 0 .. RestartCount, Start(left)
    PROVE  DeployInv'
<1>1. PICK l : l = [sup EXCEPT !.pc = "look", !.ident = active, !.boot = TRUE, !.left = left]
  OBVIOUS
<1>2. l \in Sups /\ l.pc = "look" /\ l.c = sup.c /\ l.ident = active
  BY <1>1, Hosting DEF Sups, SupSteps, MetadataTyped
<1>3. SupFits(l)
  BY <1>2, FreeFits, Hosting DEF Free, SupFits, ReleasesOK
<1> QED BY <1>1, <1>2, <1>3, AsideOK, QuietOK DEF Start

LEMMA BootOK == ASSUME DeployInv, Boot PROVE DeployInv'
<1>1. sup.left \in 0 .. RestartCount
  BY Hosting DEF Sups
<1> QED BY <1>1, StartOK DEF Boot

LEMMA LogonOK == ASSUME DeployInv, Logon PROVE DeployInv'
<1>1. RestartCount \in 0 .. RestartCount
  BY BoundsAssumption
<1> QED BY <1>1, StartOK DEF Logon

-----------------------------------------------------------------------------
(* Steps that put something on record *)

\* The parts of HostStepOK that such a step, if it leaves all but these alone, has for free.
LEMMA Recording ==
    ASSUME DeployInv, Quiet, Undisturbed
    PROVE  /\ UNCHANGED <<base, paper, gate, main, merged>> /\ ToolsKept
           /\ run' \in Runs /\ MayRun(run)' /\ fuel' \in Fuels
           /\ \A r : MayRun(r)' <=> MayRun(r)
<1>1. UNCHANGED <<base, paper, gate, main, merged, fuel, run, tool>>
  BY DEF Quiet, Undisturbed
<1>2. run \in Runs /\ MayRun(run) /\ fuel \in Fuels
  BY Hosting DEF ReleasesOK
<1> QED BY <1>1, <1>2 DEF ToolsKept, MayRun, Granted

LEMMA RecordRecoveryOK ==
    ASSUME DeployInv, RecordRecovery
    PROVE  DeployInv'
<1> DEFINE c == sup.c
<1>1. /\ c \in Changes /\ recovery.of = NoChange /\ attempt[c] = "merged"
      /\ AsReviewed(c) /\ active = lkg
  BY Hosting DEF RecordRecovery, SupFits, WayBack
<1>2. /\ UNCHANGED <<change, attempt, base, paper, active, lkg, samples>>
      /\ recovery'.of = c /\ recovery'.phase = "staged" /\ recovery'.lkg = lkg
      /\ recovery' \in Recoveries
  BY <1>1, Hosting DEF RecordRecovery, Quiet, Recoveries, Phases, MetadataTyped
<1>3. MetadataTyped'
  BY <1>2, Hosting DEF MetadataTyped
<1>4. ReleasesOK'
  BY <1>2, Recording, Hosting DEF RecordRecovery, ReleasesOK, SupFits
<1>5. WayBack'
  BY <1>1, <1>2, Names, Hosting DEF WayBack, Switching, Late, AsReviewed
<1>6. sup' \in Sups /\ SupFits(sup)'
  <2>1. sup' \in Sups /\ sup'.pc = "hand" /\ sup'.c = c /\ MayRun(c) /\ MayRun(sup'.ident)
    BY StepShape DEF RecordRecovery, SupSteps
  <2>2. MayRun(c)' /\ MayRun(sup.ident)'
    BY <2>1, Recording DEF RecordRecovery
  <2> QED BY <1>1, <1>2, <2>1, <2>2 DEF SupFits, PhaseOK
<1> QED
  BY <1>2, <1>3, <1>4, <1>5, <1>6, Recording, Hosting, HostStepSuffices
  DEF RecordRecovery, HostStepOK, PromotionTyped

LEMMA HandOverOK ==
    ASSUME DeployInv, HandOver
    PROVE  DeployInv'
<1> DEFINE c == sup.c
<1>1. c \in Changes /\ recovery.of = c /\ recovery.phase = "staged" /\ attempt[c] = "merged"
  BY Deploying DEF HandOver, Switches, PhaseOK
<1>2. UNCHANGED <<change, base, paper, active, lkg, recovery, samples>>
  BY DEF HandOver, Quiet, metadataVars
<1>3. /\ attempt' = [attempt EXCEPT ![c] = "deploying"]
      /\ attempt' \in [Changes -> AttemptStates] /\ attempt'[c] = "deploying"
      /\ \A d \in Changes : attempt'[d] \in Late => attempt[d] \in Late
  BY <1>1, Hosting DEF HandOver, Moved, PromotionTyped, AttemptStates, Late
<1>4. MetadataTyped'
  BY <1>2, Hosting DEF MetadataTyped
<1>5. ReleasesOK'
  BY <1>2, Recording, Hosting DEF HandOver, ReleasesOK
<1>6. WayBack'
  BY <1>1, <1>2, <1>3, Hosting DEF WayBack, Late, AsReviewed
<1>7. sup' \in Sups /\ SupFits(sup)'
  <2>1. sup' \in Sups /\ sup'.pc = "prepare" /\ sup'.c = c /\ MayRun(c) /\ MayRun(sup'.ident)
    BY StepShape DEF HandOver, SupSteps
  <2>2. MayRun(c)' /\ MayRun(sup.ident)'
    BY <2>1, Recording DEF HandOver
  <2> QED BY <1>1, <1>2, <1>3, <2>1, <2>2 DEF SupFits, PhaseOK
<1> QED
  BY <1>2, <1>3, <1>4, <1>5, <1>6, <1>7, Recording, Hosting, HostStepSuffices
  DEF HandOver, HostStepOK, PromotionTyped

\* The phases in the order in which they are put on record, and where to go on.
LEMMA PhasesInOrder ==
    ASSUME DeployInv, RecordPhase
    PROVE  \E p \in Phases, pc \in Switches \ {"hand"} :
              /\ Recorded(sup.c, p) /\ Step(pc)
              /\ p # "none" /\ (p \in Switching => recovery.phase \in Switching)
              /\ \/ p = "stopped" /\ pc = "start"
                 \/ p = "started" /\ pc = "ensure"
                 \/ p = "failed" /\ pc = "retreat"
                 \/ p = "verified" /\ pc = "observe"
<1>1. PhaseOK(sup.pc)
  BY Deploying DEF RecordPhase, Switches
<1>2. CASE sup.pc = "stopped"
  <2>1. Recorded(sup.c, "stopped") /\ Step("start") /\ recovery.phase \in Switching
    BY <1>1, <1>2 DEF RecordPhase, PhaseOK, Switching
  <2> QED BY <2>1 DEF Phases, Switches
<1>3. CASE sup.pc = "started"
  <2>1. Recorded(sup.c, "started") /\ Step("ensure") /\ recovery.phase \in Switching
    BY <1>1, <1>3 DEF RecordPhase, PhaseOK, Switching
  <2> QED BY <2>1 DEF Phases, Switches
<1>4. CASE sup.pc = "fail"
  <2>1. Recorded(sup.c, "failed") /\ Step("retreat") /\ recovery.phase \in Switching
    BY <1>1, <1>4 DEF RecordPhase, PhaseOK, Switching
  <2> QED BY <2>1 DEF Phases, Switches
<1>5. CASE sup.pc = "verified"
  <2>1. Recorded(sup.c, "verified") /\ Step("observe")
    BY <1>5 DEF RecordPhase
  <2> QED BY <2>1 DEF Phases, Switches, Switching
<1> QED BY <1>2, <1>3, <1>4, <1>5 DEF RecordPhase

LEMMA RecordPhaseOK ==
    ASSUME DeployInv, RecordPhase
    PROVE  DeployInv'
<1> DEFINE c == sup.c
<1>1. c \in Changes /\ recovery.of = c /\ attempt[c] = "deploying"
  BY Deploying DEF RecordPhase, Switches
<1>2. PICK p \in Phases, pc \in Switches \ {"hand"} :
              /\ Recorded(sup.c, p) /\ Step(pc)
              /\ p # "none" /\ (p \in Switching => recovery.phase \in Switching)
              /\ \/ p = "stopped" /\ pc = "start"
                 \/ p = "started" /\ pc = "ensure"
                 \/ p = "failed" /\ pc = "retreat"
                 \/ p = "verified" /\ pc = "observe"
  BY PhasesInOrder
<1>3. /\ UNCHANGED <<change, attempt, base, paper, active, lkg, samples>>
      /\ recovery'.of = c /\ recovery'.phase = p /\ recovery'.lkg = recovery.lkg
      /\ recovery' \in Recoveries
  BY <1>1, <1>2, Hosting DEF RecordPhase, Recorded, Quiet, Recoveries
<1>4. MetadataTyped'
  BY <1>3, Hosting DEF MetadataTyped
<1>5. ReleasesOK'
  BY <1>1, <1>3, Recording, Hosting DEF RecordPhase, ReleasesOK
<1>6. WayBack'
  BY <1>1, <1>2, <1>3, Names, Hosting DEF WayBack, Late, AsReviewed
<1>7. sup' \in Sups /\ SupFits(sup)'
  <2>1. sup' \in Sups /\ sup'.pc = pc /\ sup'.c = c /\ MayRun(c) /\ MayRun(sup'.ident)
    BY <1>2, StepShape DEF SupSteps
  <2>2. MayRun(c)' /\ MayRun(sup.ident)'
    BY <2>1, Recording DEF RecordPhase
  <2>3. PhaseOK(pc)'
    BY <1>2, <1>3 DEF PhaseOK
  <2> QED BY <1>1, <1>2, <1>3, <2>1, <2>2, <2>3 DEF SupFits, PhaseOK
<1> QED
  BY <1>3, <1>4, <1>5, <1>6, <1>7, Recording, Hosting, HostStepSuffices
  DEF RecordPhase, HostStepOK, PromotionTyped

LEMMA RestoreActiveOK ==
    ASSUME DeployInv, RestoreActive
    PROVE  DeployInv'
<1>1. recovery.lkg = lkg /\ recovery.of # NoChange /\ lkg \in Releases /\ MayRun(lkg)
  BY Deploying, Names, Hosting
  DEF RestoreActive, Switches, PhaseOK, WayBack, Switching, MetadataTyped, ReleasesOK
<1>2. UNCHANGED <<change, attempt, base, paper, lkg, recovery, samples>> /\ active' = lkg
  BY <1>1 DEF RestoreActive, Quiet
<1>3. MetadataTyped'
  BY <1>1, <1>2, Hosting DEF MetadataTyped
<1>4. ReleasesOK'
  BY <1>1, <1>2, Recording, Hosting DEF RestoreActive, ReleasesOK
<1>5. WayBack'
  BY <1>1, <1>2, Hosting DEF WayBack, AsReviewed
<1>6. sup' \in Sups /\ sup'.c = NoChange /\ MayRun(sup'.ident) /\ sup'.pc \in Free
  BY <1>1, ResumedShape DEF RestoreActive
<1>7. SupFits(sup)'
  BY <1>6, Recording, NothingMayRun DEF RestoreActive, SupFits, Free, Switches
<1> QED
  BY <1>2, <1>3, <1>4, <1>5, <1>6, <1>7, Recording, Hosting, HostStepSuffices
  DEF RestoreActive, HostStepOK, PromotionTyped

LEMMA ActivateOK ==
    ASSUME DeployInv, Activate
    PROVE  DeployInv'
<1> DEFINE c == sup.c
<1>1. /\ c \in Changes /\ c \in Releases /\ recovery.of = c /\ attempt[c] = "deploying"
      /\ recovery.phase \in {"started", "verified"} /\ MayRun(c)
  BY Deploying, Hosting DEF Activate, Switches, PhaseOK, SupFits
<1>2. UNCHANGED <<change, attempt, base, paper, lkg, recovery, samples>> /\ active' = c
  BY DEF Activate, Quiet
<1>3. MetadataTyped'
  BY <1>1, <1>2, Hosting DEF MetadataTyped
<1>4. ReleasesOK'
  BY <1>1, <1>2, Recording, Hosting DEF Activate, ReleasesOK
<1>5. WayBack'
  BY <1>1, <1>2, Names, Hosting DEF WayBack, AsReviewed
<1>6. sup' \in Sups /\ SupFits(sup)'
  <2>1. sup' \in Sups /\ sup'.pc = "verified" /\ sup'.c = c /\ MayRun(c) /\ MayRun(sup'.ident)
    BY StepShape DEF Activate, SupSteps
  <2>2. MayRun(c)' /\ MayRun(sup.ident)'
    BY <2>1, Recording DEF Activate
  <2> QED BY <1>1, <1>2, <2>1, <2>2 DEF SupFits, PhaseOK
<1> QED
  BY <1>2, <1>3, <1>4, <1>5, <1>6, Recording, Hosting, HostStepSuffices
  DEF Activate, HostStepOK, PromotionTyped

LEMMA BeginObservationOK ==
    ASSUME DeployInv, BeginObservation
    PROVE  DeployInv'
<1> DEFINE c == sup.c
<1>1. c \in Changes /\ recovery.of = c /\ recovery.phase = "verified" /\ attempt[c] = "deploying"
  BY Deploying DEF BeginObservation, Switches, PhaseOK
<1>2. UNCHANGED <<change, base, paper, active, lkg, recovery, samples>>
  BY DEF BeginObservation, Quiet, metadataVars
<1>3. /\ attempt' \in [Changes -> AttemptStates] /\ attempt'[c] = "observing"
      /\ \A d \in Changes : attempt'[d] \in Late => attempt[d] \in Late
  BY <1>1, Hosting DEF BeginObservation, Moved, PromotionTyped, AttemptStates, Late
<1>4. MetadataTyped'
  BY <1>2, Hosting DEF MetadataTyped
<1>5. ReleasesOK'
  BY <1>2, Recording, Hosting DEF BeginObservation, ReleasesOK
<1>6. WayBack'
  BY <1>1, <1>2, <1>3, Hosting DEF WayBack, Late, Switching
<1>7. sup' \in Sups /\ SupFits(sup)'
  <2>1. sup' \in Sups /\ sup'.pc = "enter" /\ sup'.c = c /\ MayRun(c) /\ MayRun(sup'.ident)
    BY StepShape DEF BeginObservation, SupSteps
  <2>2. MayRun(c)' /\ MayRun(sup.ident)'
    BY <2>1, Recording DEF BeginObservation
  <2> QED BY <1>1, <2>1, <2>2 DEF SupFits, Switches
<1> QED
  BY <1>2, <1>3, <1>4, <1>5, <1>6, <1>7, Recording, Hosting, HostStepSuffices
  DEF BeginObservation, HostStepOK, PromotionTyped

\* With the supervisor free, only what it may start again matters.
LEMMA FreeStep ==
    ASSUME sup'.pc \in Free, sup'.c = NoChange, MayRun(sup.ident)'
    PROVE  SupFits(sup)'
BY Names DEF SupFits, Free, Switches, MayRun, Releases

LEMMA EnterObservationOK ==
    ASSUME DeployInv, EnterObservation
    PROVE  DeployInv'
<1>1. UNCHANGED <<attempt, base, paper, active, lkg, recovery, samples>>
  BY DEF EnterObservation, Quiet, metadataVars
<1>2. change' \in [Changes -> ChangeStates]
  BY Hosting DEF EnterObservation, PromotionTyped, ChangeStates
<1>3. MetadataTyped' /\ active \in Releases
  BY <1>1, Hosting DEF MetadataTyped
<1>4. ReleasesOK'
  BY <1>1, Recording, Hosting DEF EnterObservation, ReleasesOK
<1>5. WayBack'
  BY <1>1, Hosting DEF WayBack, AsReviewed
<1>6. sup' \in Sups /\ sup'.pc \in Free /\ sup'.c = NoChange /\ sup'.ident = active
  BY <1>3, ResumedShape DEF EnterObservation
<1>7. SupFits(sup)'
  BY <1>4, <1>1, <1>6, FreeStep DEF ReleasesOK
<1> QED
  BY <1>1, <1>2, <1>3, <1>4, <1>5, <1>6, <1>7, Recording, Hosting, HostStepSuffices
  DEF EnterObservation, HostStepOK, PromotionTyped

LEMMA SampleOK ==
    ASSUME DeployInv, Sample
    PROVE  DeployInv'
<1>1. UNCHANGED <<change, attempt, base, paper, active, lkg, recovery>>
  BY DEF Sample, Quiet
<1>2. ReleasesOK'
  BY <1>1, Recording, Hosting DEF Sample, ReleasesOK
<1>3. ASSUME Loop PROVE sup' \in Sups /\ SupFits(sup)'
  <2>1. sup' \in Sups /\ sup'.pc \in Free /\ sup'.c = NoChange /\ sup'.ident = sup.ident
    BY <1>3, DoneShape, Hosting DEF Loop, Free
  <2>2. MayRun(sup.ident)'
    BY <2>1, Recording, Hosting DEF Sample, SupFits
  <2> QED BY <2>1, <2>2, FreeStep
<1>4. CASE Loop /\ UNCHANGED samples
  <2>1. MetadataTyped' /\ WayBack'
    BY <1>1, <1>4, Hosting DEF MetadataTyped, WayBack, AsReviewed
  <2> QED
    BY <1>1, <1>2, <1>3, <1>4, <2>1, Recording, Hosting, HostStepSuffices
    DEF Sample, HostStepOK, PromotionTyped
<1>5. ASSUME NEW c \in Changes, Attributable(c),
             samples' = [samples EXCEPT ![c] = NextSample(@)],
             IF samples'[c] = Required /\ recovery.of = c
             THEN sup' = [sup EXCEPT !.pc = "good", !.c = c]
             ELSE Loop
      PROVE  DeployInv'
  <2>1. samples' \in [Changes -> 0 .. Required]
    BY <1>5, BoundsAssumption, Hosting DEF MetadataTyped, NextSample
  <2>2. \A d \in Changes : samples[d] = Required => samples'[d] = Required
    BY <1>5, BoundsAssumption, Hosting DEF MetadataTyped, NextSample
  <2>3. MetadataTyped'
    BY <1>1, <2>1, Hosting DEF MetadataTyped
  <2>4. WayBack'
    BY <1>1, <2>2, Hosting DEF WayBack, AsReviewed
  <2>5. sup' \in Sups /\ SupFits(sup)'
    <3>1. CASE samples'[c] = Required /\ recovery.of = c
      <4>1. PICK l : l = [sup EXCEPT !.pc = "good", !.c = c]
        OBVIOUS
      <4>2. l \in Sups /\ l.pc = "good" /\ l.c = c /\ l.ident = sup.ident
        BY <4>1, Hosting DEF Sups, SupSteps
      <4>3. sup' = l
        BY <1>5, <3>1, <4>1
      <4>4. attempt[c] = "observing" /\ active = c
        BY <1>5 DEF Attributable, InState
      <4>5. MayRun(c)' /\ MayRun(sup.ident)'
        <5>1. MayRun(c) /\ MayRun(l.ident)
          BY <3>1, <4>2, Hosting DEF ReleasesOK, SupFits
        <5> QED BY <5>1, <4>2, <4>3, Recording DEF Sample
      <4> QED BY <1>1, <3>1, <4>2, <4>3, <4>4, <4>5 DEF SupFits, Switches
    <3>2. CASE Loop
      BY <1>3, <3>2
    <3> QED BY <1>5, <3>1, <3>2
  <2> QED
    BY <1>1, <1>2, <2>3, <2>4, <2>5, Recording, Hosting, HostStepSuffices
    DEF Sample, HostStepOK, PromotionTyped
<1> QED BY <1>4, <1>5 DEF Sample

LEMMA SetLkgOK ==
    ASSUME DeployInv, SetLkg
    PROVE  DeployInv'
<1> DEFINE c == sup.c
<1>1. /\ c \in Changes /\ recovery.of = c /\ attempt[c] = "observing"
      /\ active = c /\ samples[c] = Required
  BY Names, Hosting DEF SetLkg, SupFits, MetadataTyped
<1>2. UNCHANGED <<change, attempt, base, paper, active, recovery, samples>> /\ lkg' = active
  BY DEF SetLkg, Quiet
<1>3. MetadataTyped'
  BY <1>2, Hosting DEF MetadataTyped
<1>4. ReleasesOK'
  BY <1>2, Recording, Hosting DEF SetLkg, ReleasesOK
<1>5. WayBack'
  BY <1>1, <1>2, Hosting DEF WayBack, Late
<1>6. sup' \in Sups /\ SupFits(sup)'
  <2>1. sup' \in Sups /\ sup'.pc = "clear" /\ sup'.c = c /\ MayRun(c) /\ MayRun(sup'.ident)
    BY StepShape DEF SetLkg, SupSteps
  <2>2. MayRun(c)' /\ MayRun(sup.ident)'
    BY <2>1, Recording DEF SetLkg
  <2> QED BY <1>1, <1>2, <2>1, <2>2 DEF SupFits, Switches
<1> QED
  BY <1>2, <1>3, <1>4, <1>5, <1>6, Recording, Hosting, HostStepSuffices
  DEF SetLkg, HostStepOK, PromotionTyped

LEMMA ClearRecoveryOK ==
    ASSUME DeployInv, ClearRecovery
    PROVE  DeployInv'
<1> DEFINE c == sup.c
<1>1. c \in Changes /\ active = lkg
  BY Hosting DEF ClearRecovery, SupFits
<1>2. /\ UNCHANGED <<change, attempt, base, paper, active, lkg, samples>>
      /\ recovery'.of = NoChange /\ recovery'.phase = "none" /\ recovery'.lkg = Initial
      /\ recovery' \in Recoveries
  BY Names DEF ClearRecovery, Quiet, NoRecovery, Recoveries, Phases
<1>3. MetadataTyped'
  BY <1>2, Hosting DEF MetadataTyped
<1>4. ReleasesOK'
  BY <1>2, Recording, NothingMayRun, Hosting DEF ClearRecovery, ReleasesOK
<1>5. WayBack'
  BY <1>1, <1>2, Hosting DEF WayBack, Switching
<1>6. sup' \in Sups /\ SupFits(sup)'
  <2>1. sup' \in Sups /\ sup'.pc = "complete" /\ sup'.c = c /\ MayRun(c) /\ MayRun(sup'.ident)
    BY StepShape DEF ClearRecovery, SupSteps
  <2>2. MayRun(c)' /\ MayRun(sup.ident)'
    BY <2>1, Recording DEF ClearRecovery
  <2> QED BY <1>1, <2>1, <2>2 DEF SupFits, Switches
<1> QED
  BY <1>2, <1>3, <1>4, <1>5, <1>6, Recording, Hosting, HostStepSuffices
  DEF ClearRecovery, HostStepOK, PromotionTyped

LEMMA CompleteOK ==
    ASSUME DeployInv, Complete
    PROVE  DeployInv'
<1> DEFINE c == sup.c
<1>1. c \in Changes /\ attempt[c] = "observing"
  BY Hosting DEF Complete, SupFits, Moved
<1>2. UNCHANGED <<change, base, paper, active, lkg, recovery, samples>>
  BY DEF Complete, Quiet, metadataVars
<1>3. /\ attempt' = [attempt EXCEPT ![c] = "completed"]
      /\ attempt' \in [Changes -> AttemptStates]
      /\ \A d \in Changes : /\ attempt'[d] \in Late <=> attempt[d] \in Late
                            /\ d # c => attempt'[d] = attempt[d]
  BY <1>1, Hosting DEF Complete, Moved, PromotionTyped, AttemptStates, Late
<1>4. MetadataTyped'
  BY <1>2, Hosting DEF MetadataTyped
<1>5. ReleasesOK'
  BY <1>2, Recording, Hosting DEF Complete, ReleasesOK
<1>6. WayBack'
  <2>1. recovery.phase \in Switching => recovery.of \in Changes /\ recovery.of # c
    BY <1>1, Hosting DEF WayBack, Switching
  <2> QED BY <1>2, <1>3, <2>1, Hosting DEF WayBack, AsReviewed
<1>7. sup' \in Sups /\ SupFits(sup)'
  <2>1. sup' \in Sups /\ sup'.pc = "close" /\ sup'.c = c /\ MayRun(c) /\ MayRun(sup'.ident)
    BY StepShape DEF Complete, SupSteps
  <2>2. MayRun(c)' /\ MayRun(sup.ident)'
    BY <2>1, Recording DEF Complete
  <2> QED BY <1>1, <2>1, <2>2 DEF SupFits, Switches
<1> QED
  BY <1>2, <1>3, <1>4, <1>5, <1>6, <1>7, Recording, Hosting, HostStepSuffices
  DEF Complete, HostStepOK, PromotionTyped

LEMMA CloseChangeOK ==
    ASSUME DeployInv, CloseChange
    PROVE  DeployInv'
<1>1. UNCHANGED <<attempt, base, paper, active, lkg, recovery, samples>>
  BY DEF CloseChange, Quiet, metadataVars
<1>2. change' \in [Changes -> ChangeStates]
  BY Hosting DEF CloseChange, PromotionTyped, ChangeStates
<1>3. MetadataTyped'
  BY <1>1, Hosting DEF MetadataTyped
<1>4. ReleasesOK'
  BY <1>1, Recording, Hosting DEF CloseChange, ReleasesOK
<1>5. WayBack'
  BY <1>1, Hosting DEF WayBack, AsReviewed
<1>6. sup' \in Sups /\ sup'.pc \in Free /\ sup'.c = NoChange /\ sup'.ident = sup.ident
  BY DoneShape, Hosting DEF CloseChange, Loop, Free
<1>7. MayRun(sup.ident)'
  BY <1>6, Recording, Hosting DEF CloseChange, SupFits
<1> QED
  BY <1>1, <1>2, <1>3, <1>4, <1>5, <1>6, <1>7, FreeStep, Recording, Hosting, HostStepSuffices
  DEF CloseChange, HostStepOK, PromotionTyped

-----------------------------------------------------------------------------
(* The invariant and what follows from it *)

LEMMA InitOK == Init => DeployInv
<1> SUFFICES ASSUME Init PROVE DeployInv
  OBVIOUS
<1>1. /\ change = [c \in Changes |-> "developing"] /\ attempt = [c \in Changes |-> "none"]
      /\ base = [c \in Changes |-> Initial] /\ paper = [c \in Changes |-> NoPaper]
      /\ gate = [c \in Changes |-> "none"] /\ main = Initial /\ merged = {}
      /\ active = Initial /\ lkg = Initial /\ recovery = NoRecovery
      /\ samples = [c \in Changes |-> 0]
      /\ tool = [t \in Tools |-> NoCall] /\ run = Initial
      /\ sup = [pc |-> "poll", c |-> NoChange, ident |-> Initial, boot |-> FALSE,
                 left |-> RestartCount]
      /\ fuel = [call |-> MaxCalls, crash |-> MaxCrashes, fault |-> MaxFaults]
  BY DEF Init, RecordInit
<1>2. NoPaper \in Papers /\ NoRecovery \in Recoveries
  BY Names DEF NoPaper, Papers, NoRecovery, Recoveries, Phases
<1>3. PromotionTyped
  BY <1>1, <1>2, Names DEF PromotionTyped, ChangeStates, AttemptStates
<1>4. MetadataTyped
  BY <1>1, <1>2, Names, BoundsAssumption DEF MetadataTyped
<1>5. sup \in Sups /\ fuel \in Fuels /\ run \in Runs /\ tool \in [Tools -> Calls]
  BY <1>1, Names, BoundsAssumption DEF Sups, SupSteps, Fuels, Runs
<1>6. CallsOK
  BY <1>1, Names DEF CallsOK, CallFits
<1>7. MergesOK
  BY <1>1, Names DEF MergesOK, Late
<1>8. ReleasesOK
  BY <1>1, NothingMayRun DEF ReleasesOK, NoRecovery
<1>9. WayBack
  BY <1>1, Names DEF WayBack, NoRecovery, Switching
<1>10. SupFits(sup)
  BY <1>1, <1>5, FreeFits, NothingMayRun DEF Free
<1> QED BY <1>3, <1>4, <1>5, <1>6, <1>7, <1>8, <1>9, <1>10, TypeParts DEF DeployInv

LEMMA DeployKeepsInv == ASSUME DeployInv, Deploy PROVE DeployInv'
BY RecordRecoveryOK, HandOverOK, PrepareReleaseOK, StopRuntimeOK, StartRuntimeOK,
   RecordPhaseOK, EnsureReleaseOK, StopCandidateOK, StartLkgOK, RestoreActiveOK,
   ActivateOK, BeginObservationOK, EnterObservationOK DEF Deploy

LEMMA ObserveKeepsInv == ASSUME DeployInv, Observe PROVE DeployInv'
BY ProbeOK, SampleOK, SetLkgOK, ClearRecoveryOK, CompleteOK, CloseChangeOK DEF Observe

LEMMA SupervisorKeepsInv == ASSUME DeployInv, Supervisor PROVE DeployInv'
BY LookOK, DeployKeepsInv, LaunchOK, AwaitOK, PollOK, RestartOK, ObserveKeepsInv, BootOK
DEF Supervisor

LEMMA FaultsKeepInv ==
    ASSUME DeployInv, DeployFails \/ GivesUp \/ Unresponsive \/ RuntimeEnds \/ Crash \/ Logon
    PROVE  DeployInv'
BY UnexpectedOK, PrepareFailsOK, EnsureFailsOK, StartLkgFailsOK, GivesUpOK, UnresponsiveOK,
   RuntimeEndsOK, CrashOK, LogonOK DEF DeployFails

LEMMA DeployStutter == ASSUME DeployInv, UNCHANGED vars PROVE DeployInv'
<1>1. /\ UNCHANGED recordVars /\ UNCHANGED <<tool, run, sup, fuel>>
      /\ UNCHANGED promotionVars /\ UNCHANGED metadataVars
  BY DEF vars, recordVars
<1>2. Undisturbed /\ sup' \in Sups /\ SupFits(sup') /\ fuel' \in Fuels
  BY <1>1, Hosting DEF Undisturbed
<1> QED BY <1>1, <1>2, AsideOK

\* The invariant holds throughout.
THEOREM DeployInvariant == Spec => []DeployInv
<1>1. ASSUME DeployInv, [Next]_vars PROVE DeployInv'
  BY <1>1, ToolsKeepInv, SupervisorKeepsInv, FaultsKeepInv, DeployStutter DEF Next
<1> QED BY InitOK, <1>1, PTL DEF Spec

\* All variables of promotion and deployment keep their types.
THEOREM DeploymentTyping == Spec => []TypeOK
<1>1. DeployInv => TypeOK
  BY DEF DeployInv
<1> QED BY <1>1, DeployInvariant, PTL

\* What runs, what is active and what the recovery record names is never a change that the
\* owner did not approve or that is not merged, whatever crashes in between (merge.py;
\* deployment.py, resume; dev_supervisor.py, run_supervisor).
THEOREM ApprovedReleases == Spec => []OnlyApprovedRuns
<1>1. ASSUME DeployInv PROVE OnlyApprovedRuns
  BY <1>1, Hosting DEF ReleasesOK, MayRun, OnlyApprovedRuns, Granted
<1> QED BY <1>1, DeployInvariant, PTL

\* The Last Known Good release was healthy for as long as is required, and until a new one
\* is verified the way back leads to it: the one the owner was shown (observation.py,
\* close_success; deployment.py).
THEOREM KnownGoodFallback == Spec => []FallbackIsKnownGood
<1>1. ASSUME DeployInv PROVE FallbackIsKnownGood
  <2>1. lkg # Initial => samples[lkg] = Required
    BY <1>1, Hosting DEF WayBack, MetadataTyped, Releases
  <2> QED BY <1>1, <2>1, Hosting DEF WayBack, Switching, AsReviewed, FallbackIsKnownGood
<1> QED BY <1>1, DeployInvariant, PTL
=============================================================================
