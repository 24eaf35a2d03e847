------------------------------ MODULE PaidProofs ------------------------------
(***************************************************************************)
(* Paid inference, for any number of requests, sessions and processes, any    *)
(* costs and any ceiling: what may have been sent stays held (SentIsHeld),     *)
(* what is unknown blocks (UnknownBlocks), the budget has spent what its rows  *)
(* account for (LedgerBalances) and, until a provider reports more than its    *)
(* bound, stays within its ceiling (WithinCeiling); nothing is bought again    *)
(* while its outcome is unknown (NoRepurchase), and time does not end quota    *)
(* pressure, nor does what is older than its record (PressureEndsByCalls).     *)
(*                                                                         *)
(* The first part is about the ledger of PaidBudget alone. None of its four    *)
(* properties is inductive. SentIsHeld needs that usage is reported as a lower *)
(* bound, UnknownBlocks that an overrun is never forgotten: RowsInv adds both. *)
(* LedgerInv adds the two sums. A transaction moves one row, and a total by    *)
(* what it moves that row (TotalMoves): an admission fits, any other accounts  *)
(* for what its row held already (Fitting, Frugal, AsPending).                 *)
(*                                                                         *)
(* The second part is about the whole system, whose inductive invariant is     *)
(* Inv. Every handler but four works for one request r: Elsewhere(r) says what *)
(* it leaves alone, Sound(r, c, d, v) that its new call c, claim d and plan v  *)
(* fit what the invariant says of r, and Moved that the two are enough.        *)
(***************************************************************************)
EXTENDS PaidInference, FiniteSetTheorems, TLAPS

\* What a row accounts for is a lower bound of what the provider charges. A
\* structured call is accounted for when it settles.
LowerBounds ==
    /\ \A i \in Rows : accounted[i] <= IF bill[i] < 0 THEN 0 ELSE bill[i]
    /\ \A r \in Requests :
        /\ state[r] \in {"dispatched", "uncertain", "settled"} => bill[r] >= 0
        /\ state[r] # "settled" => accounted[r] = 0
    /\ \A l \in Lives : live[l].round = "complete" => accounted[l] = bill[l]

\* When more than a bound was charged, the reason is "overrun" and stays so.
OverrunBlocks == \A i \in Rows : accounted[i] > Cost[i] => blocked = "overrun"

RowsInv == LedgerTypeOK /\ SentIsHeld /\ UnknownBlocks /\ OverrunBlocks /\ LowerBounds

-----------------------------------------------------------------------------
(* The initial ledger and a step that leaves it alone *)

\* An empty ledger satisfies the invariant.
LEMMA RowsStart ==
    ASSUME LedgerInit
    PROVE  RowsInv
BY LedgerAssumption, SMTT(20)
DEF LedgerInit, NoSession, RowsInv, LedgerTypeOK, Sessions, SentIsHeld,
    UnknownBlocks, OverrunBlocks, LowerBounds, Rows

\* The invariant speaks of the ledger only.
LEMMA RowsUntouched ==
    ASSUME RowsInv, UNCHANGED ledgerVars
    PROVE  RowsInv'
BY DEF ledgerVars, RowsInv, LedgerTypeOK, SentIsHeld, UnknownBlocks, OverrunBlocks,
       LowerBounds

-----------------------------------------------------------------------------
(* Structured calls *)

\* An invocation is admitted: nothing of it was sent.
LEMMA Admitted ==
    ASSUME RowsInv, NEW r \in Requests, Admit(r)
    PROVE  RowsInv'
BY LedgerAssumption, SMTT(20)
DEF Admit, Admits, RowsInv, LedgerTypeOK, Sessions, SentIsHeld, UnknownBlocks,
    OverrunBlocks, LowerBounds, Rows

\* A reservation of which nothing was sent is cancelled.
LEMMA Cancelled ==
    ASSUME RowsInv, NEW i \in Rows, CancelUnsent(i)
    PROVE  RowsInv'
BY LedgerAssumption, SMTT(20)
DEF CancelUnsent, RowsInv, LedgerTypeOK, Sessions, SentIsHeld, UnknownBlocks,
    OverrunBlocks, LowerBounds, Rows

\* A call is sent: from now on its row is held.
LEMMA Dispatched ==
    ASSUME RowsInv, NEW r \in Requests, MarkDispatched(r)
    PROVE  RowsInv'
BY LedgerAssumption, SMTT(20)
DEF MarkDispatched, RowsInv, LedgerTypeOK, Sessions, SentIsHeld, UnknownBlocks,
    OverrunBlocks, LowerBounds, Rows

\* A call settles at what it was billed, or becomes uncertain and blocks.
LEMMA Settled ==
    ASSUME RowsInv, NEW r \in Requests, NEW complete \in BOOLEAN, Settle(r, complete)
    PROVE  RowsInv'
BY LedgerAssumption, SMTT(20)
DEF Settle, Account, Refreshed, RowsInv, LedgerTypeOK, Sessions, SentIsHeld,
    UnknownBlocks, OverrunBlocks, LowerBounds, Rows

\* Sessions of dead owners become uncertain, and block.
LEMMA Recovered ==
    ASSUME RowsInv, Recover
    PROVE  RowsInv'
<1>1. LedgerTypeOK'
  <2>1. ASSUME NEW l \in Lives
        PROVE  live[l] \in Sessions /\ [live[l] EXCEPT !.doubtful = TRUE] \in Sessions
    <3>1. live[l] \in Sessions
      BY DEF RowsInv, LedgerTypeOK
    <3> QED
      BY <3>1 DEF Sessions
  <2>2. live' \in [Lives -> Sessions]
    BY <2>1 DEF Recover
  <2> QED
    BY <2>2, SMTT(20) DEF Recover, MarkUnknown, RowsInv, LedgerTypeOK, Rows
<1>2. SentIsHeld'
  BY LedgerAssumption, SMTT(20)
  DEF Recover, MarkUnknown, Orphans, RowsInv, LedgerTypeOK, Sessions, SentIsHeld,
      LowerBounds, Rows
<1>3. UnknownBlocks'
  <2>1. \A l \in Lives : live'[l].unaudited = live[l].unaudited
    <3>1. \A l \in Lives : live[l] \in Sessions
      BY DEF RowsInv, LedgerTypeOK
    <3> QED
      BY <3>1 DEF Recover, Sessions
  <2>2. CASE Orphans = {}
    BY <2>1, <2>2 DEF Recover, MarkUnknown, RowsInv, UnknownBlocks
  <2>3. CASE Orphans # {}
    <3>1. blocked' # "none"
      BY <2>3 DEF Recover, MarkUnknown
    <3> QED
      BY <3>1 DEF UnknownBlocks
  <2> QED
    BY <2>2, <2>3
<1>4. OverrunBlocks'
  BY LedgerAssumption, SMTT(20)
  DEF Recover, MarkUnknown, Orphans, RowsInv, LedgerTypeOK, Sessions,
      OverrunBlocks, Rows
<1>5. LowerBounds'
  BY LedgerAssumption, SMTT(20)
  DEF Recover, MarkUnknown, Orphans, RowsInv, LedgerTypeOK, Sessions, LowerBounds,
      SentIsHeld, Rows
<1> QED
  BY <1>1, <1>2, <1>3, <1>4, <1>5 DEF RowsInv

-----------------------------------------------------------------------------
(* Live sessions *)

\* A session is admitted.
LEMMA LiveReserved ==
    ASSUME RowsInv, NEW l \in Lives, NEW p \in Procs, ReserveLive(l, p)
    PROVE  RowsInv'
<1>1. LedgerTypeOK'
  <2>1. live[l] \in Sessions /\ live \in [Lives -> Sessions]
    BY DEF RowsInv, LedgerTypeOK
  <2>2. PICK profile \in BOOLEAN :
            live' = [live EXCEPT ![l] = [live[l] EXCEPT !.owner = p, !.capture = profile]]
    BY <2>1 DEF ReserveLive
  <2>3. [live[l] EXCEPT !.owner = p, !.capture = profile] \in Sessions
    BY <2>1, LedgerAssumption DEF Sessions
  <2>4. live' \in [Lives -> Sessions]
    BY <2>1, <2>2, <2>3
  <2> QED
    BY <2>4, LedgerAssumption, SMTT(20)
    DEF ReserveLive, RowsInv, LedgerTypeOK, LowerBounds, Rows
<1>2. SentIsHeld'
  BY LedgerAssumption, SMTT(20)
  DEF ReserveLive, RowsInv, LedgerTypeOK, Sessions, SentIsHeld, LowerBounds, Rows
<1>3. UnknownBlocks'
  BY LedgerAssumption, SMTT(20)
  DEF ReserveLive, RowsInv, LedgerTypeOK, Sessions, UnknownBlocks, OverrunBlocks,
      Rows
<1>4. OverrunBlocks'
  BY LedgerAssumption, SMTT(20)
  DEF ReserveLive, RowsInv, LedgerTypeOK, Sessions, OverrunBlocks, Rows
<1>5. LowerBounds'
  BY LedgerAssumption, SMTT(20)
  DEF ReserveLive, RowsInv, LedgerTypeOK, Sessions, LowerBounds, SentIsHeld, Rows
<1> QED
  BY <1>1, <1>2, <1>3, <1>4, <1>5 DEF RowsInv

\* A session is opened with the provider.
LEMMA SetUp ==
    ASSUME RowsInv, NEW l \in Lives, NEW p \in Procs, CheckpointSetup(l, p)
    PROVE  RowsInv'
<1>1. LedgerTypeOK'
  <2>1. live[l] \in Sessions /\ live \in [Lives -> Sessions]
    BY DEF RowsInv, LedgerTypeOK
  <2>2. live' = [live EXCEPT ![l] = [live[l] EXCEPT !.setup = TRUE]]
    BY <2>1 DEF CheckpointSetup
  <2>3. [live[l] EXCEPT !.setup = TRUE] \in Sessions
    BY <2>1, LedgerAssumption DEF Sessions
  <2>4. live' \in [Lives -> Sessions]
    BY <2>1, <2>2, <2>3
  <2> QED
    BY <2>4, LedgerAssumption, SMTT(20)
    DEF CheckpointSetup, MaySend, RowsInv, LedgerTypeOK, LowerBounds, Rows
<1>2. SentIsHeld'
  BY LedgerAssumption, SMTT(20)
  DEF CheckpointSetup, MaySend, RowsInv, LedgerTypeOK, Sessions, SentIsHeld,
      LowerBounds, Rows
<1>3. UnknownBlocks'
  BY LedgerAssumption, SMTT(20)
  DEF CheckpointSetup, MaySend, RowsInv, LedgerTypeOK, Sessions, UnknownBlocks,
      OverrunBlocks, Rows
<1>4. OverrunBlocks'
  BY LedgerAssumption, SMTT(20)
  DEF CheckpointSetup, MaySend, RowsInv, LedgerTypeOK, Sessions, OverrunBlocks,
      Rows
<1>5. LowerBounds'
  BY LedgerAssumption, SMTT(20)
  DEF CheckpointSetup, MaySend, RowsInv, LedgerTypeOK, Sessions, LowerBounds,
      SentIsHeld, Rows
<1> QED
  BY <1>1, <1>2, <1>3, <1>4, <1>5 DEF RowsInv

\* The first round of a session.
LEMMA Initial ==
    ASSUME RowsInv, NEW l \in Lives, NEW p \in Procs, CheckpointInitial(l, p)
    PROVE  RowsInv'
<1>1. LedgerTypeOK'
  <2>1. live[l] \in Sessions /\ live \in [Lives -> Sessions]
    BY DEF RowsInv, LedgerTypeOK
  <2>2. live' = [live EXCEPT ![l] = [live[l] EXCEPT !.round = "open", !.tools = 0]]
    BY <2>1 DEF CheckpointInitial, NewRound
  <2>3. [live[l] EXCEPT !.round = "open", !.tools = 0] \in Sessions
    <3>1. 0 \in 0..MaxTools
      BY LedgerAssumption
    <3> QED
      BY <2>1, <3>1 DEF Sessions
  <2>4. live' \in [Lives -> Sessions]
    BY <2>1, <2>2, <2>3
  <2> QED
    BY <2>4, LedgerAssumption, SMTT(20)
    DEF CheckpointInitial, NewRound, RowsInv, LedgerTypeOK, LowerBounds, Rows
<1>2. SentIsHeld'
  BY LedgerAssumption, SMTT(20)
  DEF CheckpointInitial, MaySend, NewRound, RowsInv, LedgerTypeOK, Sessions,
      SentIsHeld, LowerBounds, Rows
<1>3. UnknownBlocks'
  BY LedgerAssumption, SMTT(20)
  DEF CheckpointInitial, MaySend, NewRound, RowsInv, LedgerTypeOK, Sessions,
      UnknownBlocks, OverrunBlocks, Rows
<1>4. OverrunBlocks'
  BY LedgerAssumption, SMTT(20)
  DEF CheckpointInitial, MaySend, NewRound, RowsInv, LedgerTypeOK, Sessions,
      OverrunBlocks, Rows
<1>5. LowerBounds'
  BY LedgerAssumption, SMTT(20)
  DEF CheckpointInitial, MaySend, NewRound, RowsInv, LedgerTypeOK, Sessions,
      LowerBounds, SentIsHeld, Rows
<1> QED
  BY <1>1, <1>2, <1>3, <1>4, <1>5 DEF RowsInv

\* A continuation of a session; its bill only grows.
LEMMA Tool ==
    ASSUME RowsInv, NEW l \in Lives, NEW p \in Procs, CheckpointTool(l, p)
    PROVE  RowsInv'
BY LedgerAssumption, SMTT(20)
DEF CheckpointTool, MaySend, NewRound, RowsInv, LedgerTypeOK, Sessions,
    SentIsHeld, UnknownBlocks, OverrunBlocks, LowerBounds, Rows

\* A report is a lower bound, and the final one is exact.
LEMMA Observed ==
    ASSUME RowsInv, NEW l \in Lives, NEW p \in Procs, Observe(l, p)
    PROVE  RowsInv'
<1>1. LedgerTypeOK'
  <2>1. live[l] \in Sessions /\ live \in [Lives -> Sessions]
    BY DEF RowsInv, LedgerTypeOK
  <2>2. PICK final \in BOOLEAN :
            live' = [live EXCEPT ![l] = [live[l] EXCEPT !.round = IF final THEN "complete" ELSE "open"]]
    BY <2>1 DEF Observe
  <2>3. [live[l] EXCEPT !.round = IF final THEN "complete" ELSE "open"] \in Sessions
    BY <2>1, LedgerAssumption DEF Sessions
  <2>4. live' \in [Lives -> Sessions]
    BY <2>1, <2>2, <2>3
  <2> QED
    BY <2>4, LedgerAssumption, SMTT(20)
    DEF Observe, Open, Account, RowsInv, LedgerTypeOK, LowerBounds, Rows
<1>2. SentIsHeld'
  BY LedgerAssumption, SMTT(20)
  DEF Observe, Open, Account, RowsInv, LedgerTypeOK, Sessions, SentIsHeld,
      LowerBounds, Rows
<1>3. UnknownBlocks'
  BY LedgerAssumption, SMTT(20)
  DEF Observe, Open, Account, RowsInv, LedgerTypeOK, Sessions, UnknownBlocks,
      OverrunBlocks, Rows
<1>4. OverrunBlocks'
  BY LedgerAssumption, SMTT(20)
  DEF Observe, Open, Account, RowsInv, LedgerTypeOK, Sessions, OverrunBlocks, Rows
<1>5. LowerBounds'
  BY LedgerAssumption, SMTT(20)
  DEF Observe, Open, Account, RowsInv, LedgerTypeOK, Sessions, LowerBounds,
      SentIsHeld, Rows
<1> QED
  BY <1>1, <1>2, <1>3, <1>4, <1>5 DEF RowsInv

\* A report that regresses makes the session uncertain.
LEMMA ObservedBad ==
    ASSUME RowsInv, NEW l \in Lives, NEW p \in Procs, ObserveBad(l, p)
    PROVE  RowsInv'
<1>1. LedgerTypeOK'
  <2>1. live[l] \in Sessions /\ live \in [Lives -> Sessions]
    BY DEF RowsInv, LedgerTypeOK
  <2>2. PICK q \in {live[l].qualified, FALSE} :
            live' = [live EXCEPT ![l] = [live[l] EXCEPT !.doubtful = TRUE, !.qualified = q]]
    BY <2>1 DEF ObserveBad
  <2>3. [live[l] EXCEPT !.doubtful = TRUE, !.qualified = q] \in Sessions
    BY <2>1, <2>2 DEF Sessions
  <2>4. live' \in [Lives -> Sessions]
    BY <2>1, <2>2, <2>3
  <2> QED
    BY <2>4, LedgerAssumption, SMTT(20)
    DEF ObserveBad, MarkUnknown, RowsInv, LedgerTypeOK, LowerBounds, Rows
<1>2. SentIsHeld'
  BY LedgerAssumption, SMTT(20)
  DEF ObserveBad, Open, MarkUnknown, RowsInv, LedgerTypeOK, Sessions, SentIsHeld,
      LowerBounds, Rows
<1>3. UnknownBlocks'
  BY LedgerAssumption, SMTT(20)
  DEF ObserveBad, Open, MarkUnknown, RowsInv, LedgerTypeOK, Sessions,
      UnknownBlocks, OverrunBlocks, Rows
<1>4. OverrunBlocks'
  BY LedgerAssumption, SMTT(20)
  DEF ObserveBad, Open, MarkUnknown, RowsInv, LedgerTypeOK, Sessions,
      OverrunBlocks, Rows
<1>5. LowerBounds'
  BY LedgerAssumption, SMTT(20)
  DEF ObserveBad, Open, MarkUnknown, RowsInv, LedgerTypeOK, Sessions, LowerBounds,
      SentIsHeld, Rows
<1> QED
  BY <1>1, <1>2, <1>3, <1>4, <1>5 DEF RowsInv

\* A session settles only if every usage was reported.
LEMMA Finished ==
    ASSUME RowsInv, NEW l \in Lives, NEW p \in Procs, Finish(l, p)
    PROVE  RowsInv'
<1>1. LedgerTypeOK'
  BY LedgerAssumption, SMTT(20)
  DEF Finish, Open, Settles, MarkUnknown, RowsInv, LedgerTypeOK, Sessions, Rows
<1>2. SentIsHeld'
  BY LedgerAssumption, SMTT(20)
  DEF Finish, Open, Settles, MarkUnknown, RowsInv, LedgerTypeOK, Sessions,
      SentIsHeld, LowerBounds, Rows
<1>3. UnknownBlocks'
  BY LedgerAssumption, SMTT(20)
  DEF Finish, Open, Settles, MarkUnknown, RowsInv, LedgerTypeOK, Sessions,
      UnknownBlocks, OverrunBlocks, Rows
<1>4. OverrunBlocks'
  BY LedgerAssumption, SMTT(20)
  DEF Finish, Open, Settles, MarkUnknown, RowsInv, LedgerTypeOK, Sessions,
      OverrunBlocks, Rows
<1>5. LowerBounds'
  BY LedgerAssumption, SMTT(20)
  DEF Finish, Open, Settles, MarkUnknown, RowsInv, LedgerTypeOK, Sessions,
      LowerBounds, SentIsHeld, Rows
<1> QED
  BY <1>1, <1>2, <1>3, <1>4, <1>5 DEF RowsInv

-----------------------------------------------------------------------------
(* Decisions of the owner *)

\* Exact evidence settles a session at what it was billed.
LEMMA Reconciled ==
    ASSUME RowsInv, NEW l \in Lives, NEW p \in Procs, Reconcile(l, p)
    PROVE  RowsInv'
<1>1. LedgerTypeOK'
  <2>1. live[l] \in Sessions /\ live \in [Lives -> Sessions]
    BY DEF RowsInv, LedgerTypeOK
  <2>2. live' = [live EXCEPT ![l] = [live[l] EXCEPT !.unaudited = @ \cup {"reconcile"}, !.admin = p,
        !.operation = "reconcile", !.doubtful = FALSE]]
    BY <2>1 DEF Reconcile, Committed
  <2>3. [live[l] EXCEPT !.unaudited = @ \cup {"reconcile"}, !.admin = p,
        !.operation = "reconcile", !.doubtful = FALSE] \in Sessions
    BY <2>1, LedgerAssumption DEF Sessions
  <2>4. live' \in [Lives -> Sessions]
    BY <2>1, <2>2, <2>3
  <2> QED
    BY <2>4, LedgerAssumption, SMTT(20)
    DEF Reconcile, Attributable, Account, Committed, Refreshed, RowsInv,
        LedgerTypeOK, LowerBounds, Rows
<1>2. SentIsHeld'
  BY LedgerAssumption, SMTT(20)
  DEF Reconcile, Attributable, Account, Committed, Refreshed, RowsInv,
      LedgerTypeOK, Sessions, SentIsHeld, LowerBounds, Rows
<1>3. UnknownBlocks'
  <2>1. live[l] \in Sessions /\ live \in [Lives -> Sessions]
    BY DEF RowsInv, LedgerTypeOK
  <2>2. live'[l].unaudited # {}
    BY <2>1 DEF Reconcile, Committed, Sessions
  <2>3. blocked' # "none"
    BY <2>2 DEF Reconcile, Refreshed
  <2> QED
    BY <2>3 DEF UnknownBlocks
<1>4. OverrunBlocks'
  BY LedgerAssumption, SMTT(20)
  DEF Reconcile, Attributable, Account, Committed, Refreshed, RowsInv,
      LedgerTypeOK, Sessions, OverrunBlocks, Rows
<1>5. LowerBounds'
  BY LedgerAssumption, SMTT(20)
  DEF Reconcile, Attributable, Account, Committed, Refreshed, RowsInv,
      LedgerTypeOK, Sessions, LowerBounds, SentIsHeld, Rows
<1> QED
  BY <1>1, <1>2, <1>3, <1>4, <1>5 DEF RowsInv

\* An acknowledged session stays held.
LEMMA Acknowledged ==
    ASSUME RowsInv, NEW l \in Lives, NEW p \in Procs, Acknowledge(l, p)
    PROVE  RowsInv'
<1>1. LedgerTypeOK'
  <2>1. live[l] \in Sessions /\ live \in [Lives -> Sessions]
    BY DEF RowsInv, LedgerTypeOK
  <2>2. live' = [live EXCEPT ![l] = [live[l] EXCEPT !.unaudited = @ \cup {"acknowledge"}, !.admin = p,
        !.operation = "acknowledge"]]
    BY <2>1 DEF Acknowledge, Committed
  <2>3. [live[l] EXCEPT !.unaudited = @ \cup {"acknowledge"}, !.admin = p,
        !.operation = "acknowledge"] \in Sessions
    BY <2>1, LedgerAssumption DEF Sessions
  <2>4. live' \in [Lives -> Sessions]
    BY <2>1, <2>2, <2>3
  <2> QED
    BY <2>4, LedgerAssumption, SMTT(20)
    DEF Acknowledge, Committed, Refreshed, RowsInv, LedgerTypeOK, LowerBounds,
        Rows
<1>2. SentIsHeld'
  BY LedgerAssumption, SMTT(20)
  DEF Acknowledge, Committed, Refreshed, RowsInv, LedgerTypeOK, Sessions,
      SentIsHeld, LowerBounds, Rows
<1>3. UnknownBlocks'
  <2>1. live[l] \in Sessions /\ live \in [Lives -> Sessions]
    BY DEF RowsInv, LedgerTypeOK
  <2>2. live'[l].unaudited # {}
    BY <2>1 DEF Acknowledge, Committed, Sessions
  <2>3. blocked' # "none"
    BY <2>2 DEF Acknowledge, Refreshed
  <2> QED
    BY <2>3 DEF UnknownBlocks
<1>4. OverrunBlocks'
  BY LedgerAssumption, SMTT(20)
  DEF Acknowledge, Committed, Refreshed, RowsInv, LedgerTypeOK, Sessions,
      OverrunBlocks, Rows
<1>5. LowerBounds'
  BY LedgerAssumption, SMTT(20)
  DEF Acknowledge, Committed, Refreshed, RowsInv, LedgerTypeOK, Sessions,
      LowerBounds, SentIsHeld, Rows
<1> QED
  BY <1>1, <1>2, <1>3, <1>4, <1>5 DEF RowsInv

\* A profile is qualified; the commit waits for its audit.
LEMMA Qualified ==
    ASSUME RowsInv, NEW l \in Lives, NEW p \in Procs, Qualify(l, p)
    PROVE  RowsInv'
<1>1. LedgerTypeOK'
  <2>1. live[l] \in Sessions /\ live \in [Lives -> Sessions]
    BY DEF RowsInv, LedgerTypeOK
  <2>2. live' = [live EXCEPT ![l] = [live[l] EXCEPT !.unaudited = @ \cup {"qualify"}, !.admin = p,
        !.operation = "qualify"]]
    BY <2>1 DEF Qualify, Committed
  <2>3. [live[l] EXCEPT !.unaudited = @ \cup {"qualify"}, !.admin = p,
        !.operation = "qualify"] \in Sessions
    BY <2>1, LedgerAssumption DEF Sessions
  <2>4. live' \in [Lives -> Sessions]
    BY <2>1, <2>2, <2>3
  <2> QED
    BY <2>4, LedgerAssumption, SMTT(20)
    DEF Qualify, Committed, Refreshed, RowsInv, LedgerTypeOK, LowerBounds, Rows
<1>2. SentIsHeld'
  BY LedgerAssumption, SMTT(20)
  DEF Qualify, Attributable, Committed, Refreshed, RowsInv, LedgerTypeOK,
      Sessions, SentIsHeld, LowerBounds, Rows
<1>3. UnknownBlocks'
  <2>1. live[l] \in Sessions /\ live \in [Lives -> Sessions]
    BY DEF RowsInv, LedgerTypeOK
  <2>2. live'[l].unaudited # {}
    BY <2>1 DEF Qualify, Committed, Sessions
  <2>3. blocked' # "none"
    BY <2>2 DEF Qualify, Refreshed
  <2> QED
    BY <2>3 DEF UnknownBlocks
<1>4. OverrunBlocks'
  BY LedgerAssumption, SMTT(20)
  DEF Qualify, Attributable, Committed, Refreshed, RowsInv, LedgerTypeOK,
      Sessions, OverrunBlocks, Rows
<1>5. LowerBounds'
  BY LedgerAssumption, SMTT(20)
  DEF Qualify, Attributable, Committed, Refreshed, RowsInv, LedgerTypeOK,
      Sessions, LowerBounds, SentIsHeld, Rows
<1> QED
  BY <1>1, <1>2, <1>3, <1>4, <1>5 DEF RowsInv

\* An audit lifts the block only if nothing else holds it.
LEMMA Audited ==
    ASSUME RowsInv, NEW l \in Lives, NEW p \in Procs, Audit(l, p)
    PROVE  RowsInv'
<1>1. LedgerTypeOK'
  <2>1. live[l] \in Sessions /\ live \in [Lives -> Sessions]
    BY DEF RowsInv, LedgerTypeOK
  <2>2. live' = [live EXCEPT ![l] = [live[l] EXCEPT !.unaudited = @ \ {live[l].operation}, !.admin = NoProc]]
    BY <2>1 DEF Audit
  <2>3. [live[l] EXCEPT !.unaudited = @ \ {live[l].operation}, !.admin = NoProc] \in Sessions
    BY <2>1, LedgerAssumption DEF Sessions
  <2>4. live' \in [Lives -> Sessions]
    BY <2>1, <2>2, <2>3
  <2> QED
    BY <2>4, LedgerAssumption, SMTT(20)
    DEF Audit, Refreshed, RowsInv, LedgerTypeOK, LowerBounds, Rows
<1>2. SentIsHeld'
  BY LedgerAssumption, SMTT(20)
  DEF Audit, Refreshed, RowsInv, LedgerTypeOK, Sessions, SentIsHeld, LowerBounds,
      Rows
<1>3. UnknownBlocks'
  BY LedgerAssumption, SMTT(20)
  DEF Audit, Refreshed, RowsInv, LedgerTypeOK, Sessions, UnknownBlocks,
      OverrunBlocks, Rows
<1>4. OverrunBlocks'
  BY LedgerAssumption, SMTT(20)
  DEF Audit, Refreshed, RowsInv, LedgerTypeOK, Sessions, OverrunBlocks, Rows
<1>5. LowerBounds'
  BY LedgerAssumption, SMTT(20)
  DEF Audit, Refreshed, RowsInv, LedgerTypeOK, Sessions, LowerBounds, SentIsHeld,
      Rows
<1> QED
  BY <1>1, <1>2, <1>3, <1>4, <1>5 DEF RowsInv

-----------------------------------------------------------------------------

\* Whatever a session or the owner does, the invariant holds after it.
LEMMA LiveRows ==
    ASSUME RowsInv, NEW l \in Lives, NEW p \in Procs,
           Session(l, p) \/ Administration(l, p) \/ Recover
    PROVE  RowsInv'
<1>1. CASE Session(l, p)
  <2>1. l \in Rows
    BY DEF Rows
  <2> QED
    BY <1>1, <2>1, LiveReserved, SetUp, Initial, Tool, Observed, ObservedBad, Finished,
       Cancelled
    DEF Session
<1>2. CASE Administration(l, p)
  BY <1>2, Reconciled, Acknowledged, Qualified, Audited DEF Administration
<1>3. CASE Recover
  BY <1>3, Recovered
<1> QED
  BY <1>1, <1>2, <1>3
-----------------------------------------------------------------------------
(* The sums of the ledger *)

\* The minor units that one row of a total counts.
LEMMA RowUnits ==
    ASSUME NEW i, NEW n \in Nat
    PROVE  IsFiniteSet({i} \X (1..n)) /\ Cardinality({i} \X (1..n)) = n
<1> DEFINE A == {i}
           B == 1..n
<1>1. IsFiniteSet(A) /\ Cardinality(A) = 1
  BY FS_Singleton
<1>2. IsFiniteSet(B) /\ Cardinality(B) = n
  BY FS_Interval
<1>3. Cardinality(A \X B) = Cardinality(A) * Cardinality(B) /\ IsFiniteSet(A \X B)
  <2> HIDE DEF A, B
  <2> QED BY <1>1, <1>2, FS_Product
<1>4. 1 * n = n
  OBVIOUS
<1> QED BY <1>1, <1>2, <1>3, <1>4

\* A total, over some of the rows, is a natural number: there are finitely many.
LEMMA TotalType ==
    ASSUME NEW amount \in [Rows -> Nat], NEW S \in SUBSET Rows
    PROVE  /\ IsFiniteSet(UNION {{i} \X (1..amount[i]) : i \in S})
           /\ Cardinality(UNION {{i} \X (1..amount[i]) : i \in S}) \in Nat
<1> DEFINE row == [i \in S |-> {i} \X (1..amount[i])]
           T   == {{i} \X (1..amount[i]) : i \in S}
<1>1. row \in Surjection(S, T)
  BY DEF Surjection
<1>2. IsFiniteSet(S)
  BY LedgerAssumption, FS_Subset
<1>3. IsFiniteSet(T)
  <2> HIDE DEF row, T
  <2> QED BY <1>1, <1>2, FS_Surjection
<1>4. \A t \in T : IsFiniteSet(t)
  <2>1. \A i \in S : IsFiniteSet({i} \X (1..amount[i]))
    BY RowUnits
  <2> QED BY <2>1
<1>5. IsFiniteSet(UNION T)
  <2> HIDE DEF T
  <2> QED BY <1>3, <1>4, FS_UNION
<1> QED BY <1>5, FS_CardinalityType

\* A total changes by what one of its rows changes by.
LEMMA TotalMoves ==
    ASSUME NEW f \in [Rows -> Nat], NEW g \in [Rows -> Nat], NEW k \in Rows,
           \A i \in Rows : i # k => g[i] = f[i]
    PROVE  Total(f) \in Nat /\ Total(g) \in Nat /\ Total(g) = Total(f) - f[k] + g[k]
<1> DEFINE A == UNION {{i} \X (1..f[i]) : i \in Rows \ {k}}
           F == {k} \X (1..f[k])
           G == {k} \X (1..g[k])
<1>1. UNION {{i} \X (1..f[i]) : i \in Rows} = A \cup F
  OBVIOUS
<1>2. UNION {{i} \X (1..g[i]) : i \in Rows} = A \cup G
  OBVIOUS
<1>3. A \cap F = {} /\ A \cap G = {}
  OBVIOUS
<1>4. IsFiniteSet(A) /\ Cardinality(A) \in Nat
  BY TotalType
<1>5. /\ IsFiniteSet(F) /\ Cardinality(F) = f[k]
      /\ IsFiniteSet(G) /\ Cardinality(G) = g[k]
      /\ f[k] \in Nat /\ g[k] \in Nat
  BY RowUnits
<1> HIDE DEF A, F, G
<1>6. Cardinality({}) = 0
  BY FS_EmptySet
<1>7. Cardinality(A \cup F) = Cardinality(A) + Cardinality(F) - Cardinality(A \cap F)
  BY <1>4, <1>5, FS_Union
<1>8. Cardinality(A \cup G) = Cardinality(A) + Cardinality(G) - Cardinality(A \cap G)
  BY <1>4, <1>5, FS_Union
<1>9. Total(f) = Cardinality(A \cup F) /\ Total(g) = Cardinality(A \cup G)
  BY <1>1, <1>2 DEF Total
<1>10. Cardinality(A \cap F) = 0 /\ Cardinality(A \cap G) = 0
  BY <1>3, <1>6
<1> QED BY <1>4, <1>5, <1>7, <1>8, <1>9, <1>10

\* A transaction on row k moves the sums by what it moves that row.
LEMMA RowMoved ==
    ASSUME RowsInv, RowsInv', LedgerBalances, NEW k \in Rows,
           \A i \in Rows : i # k => state'[i] = state[i] /\ accounted'[i] = accounted[i],
           spent' = spent + accounted'[k] - accounted[k]
    PROVE  /\ spent \in Nat /\ spent' \in Nat
           /\ Held(k) \in Nat /\ Held(k)' \in Nat /\ Exposure \in Nat
           /\ Exposure' = Exposure - Held(k) + Held(k)'
           /\ LedgerBalances'
<1> DEFINE f == [i \in Rows |-> Held(i)]
           g == [i \in Rows |-> Held(i)']
<1>1. /\ accounted \in [Rows -> Nat] /\ accounted' \in [Rows -> Nat]
      /\ spent \in Nat /\ spent' \in Nat
  BY LedgerAssumption DEF RowsInv, LedgerTypeOK
<1>2. \A i \in Rows : Held(i) \in Nat /\ Held(i)' \in Nat
  BY <1>1, LedgerAssumption DEF Held
<1>3. \A i \in Rows : i # k => Held(i)' = Held(i)
  BY DEF Held, Pending
<1>4. Total(f) \in Nat /\ Total(g) = Total(f) - f[k] + g[k]
  <2>1. f \in [Rows -> Nat] /\ g \in [Rows -> Nat] /\ \A i \in Rows : i # k => g[i] = f[i]
    BY <1>2, <1>3
  <2> HIDE DEF f, g
  <2> QED BY <2>1, TotalMoves
<1>5. Exposure = Total(f) /\ Exposure' = Total(g)
  BY DEF Exposure, Total
<1>6. f[k] = Held(k) /\ g[k] = Held(k)'
  OBVIOUS
<1>7. Total(accounted) \in Nat
      /\ Total(accounted') = Total(accounted) - accounted[k] + accounted'[k]
  BY <1>1, TotalMoves
<1>8. LedgerBalances'
  BY <1>1, <1>7 DEF LedgerBalances, Total
<1> HIDE DEF f, g
<1> QED
  BY <1>1, <1>2, <1>4, <1>5, <1>6, <1>8

\* The ledger balances, and what is spent and held is within the ceiling.
SumsInv == LedgerBalances /\ WithinCeiling

LedgerInv == RowsInv /\ SumsInv

\* A transaction that reserves nothing: what it accounts for is what it held.
LEMMA Frugal ==
    ASSUME LedgerInv, RowsInv', NEW k \in Rows,
           \A i \in Rows : i # k => state'[i] = state[i] /\ accounted'[i] = accounted[i],
           spent' = spent + accounted'[k] - accounted[k],
           blocked' # "overrun" =>
               blocked # "overrun" /\ accounted'[k] + Held(k)' <= accounted[k] + Held(k)
    PROVE  LedgerInv'
<1>1. /\ spent \in Nat /\ spent' \in Nat
      /\ Held(k) \in Nat /\ Held(k)' \in Nat /\ Exposure \in Nat
      /\ Exposure' = Exposure - Held(k) + Held(k)'
      /\ LedgerBalances'
  BY RowMoved DEF LedgerInv, SumsInv
<1>2. accounted[k] \in Nat /\ accounted'[k] \in Nat /\ Ceiling \in Nat
  BY LedgerAssumption DEF LedgerInv, RowsInv, LedgerTypeOK
<1>3. ASSUME blocked' # "overrun"
      PROVE  spent' + Exposure' <= Ceiling
  <2>1. spent + Exposure <= Ceiling /\ accounted'[k] + Held(k)' <= accounted[k] + Held(k)
    BY <1>3 DEF LedgerInv, SumsInv, WithinCeiling
  <2> QED
    BY <1>1, <1>2, <2>1
<1> QED
  BY <1>1, <1>3 DEF LedgerInv, SumsInv, WithinCeiling

\* An admission is made only where its bound fits.
LEMMA Fitting ==
    ASSUME LedgerInv, RowsInv', NEW k \in Rows, state[k] = "none", Fits(k),
           \A i \in Rows : i # k => state'[i] = state[i],
           state'[k] = "reserved", UNCHANGED <<accounted, spent, blocked>>
    PROVE  LedgerInv'
<1>1. accounted[k] \in Nat /\ accounted'[k] = accounted[k] /\ Ceiling \in Nat /\ Cost[k] \in Nat
  BY LedgerAssumption DEF LedgerInv, RowsInv, LedgerTypeOK
<1>2. /\ spent \in Nat /\ spent' \in Nat
      /\ Held(k) \in Nat /\ Held(k)' \in Nat /\ Exposure \in Nat
      /\ Exposure' = Exposure - Held(k) + Held(k)'
      /\ LedgerBalances'
  <2>1. spent' = spent + accounted'[k] - accounted[k]
    BY <1>1, LedgerAssumption DEF LedgerInv, RowsInv, LedgerTypeOK
  <2> QED
    BY <2>1, RowMoved DEF LedgerInv, SumsInv
<1>3. Held(k) = 0 /\ Held(k)' <= Cost[k]
  BY <1>1 DEF Held, Pending
<1>4. spent' + Exposure' <= Ceiling
  BY <1>1, <1>2, <1>3 DEF Fits
<1> QED
  BY <1>2, <1>4 DEF LedgerInv, SumsInv, WithinCeiling

\* A step that accounts for nothing and leaves every row as pending as it was.
LEMMA AsPending ==
    ASSUME LedgerInv, RowsInv', UNCHANGED <<accounted, spent>>,
           \A i \in Rows : Pending(i)' = Pending(i),
           blocked' # "overrun" => blocked # "overrun"
    PROVE  LedgerInv'
<1>1. \A i \in Rows : Held(i)' = Held(i)
  BY DEF Held
<1>2. Exposure' = Exposure /\ LedgerBalances'
  <2>1. [i \in Rows |-> Held(i)'] = [i \in Rows |-> Held(i)]
    BY <1>1
  <2> QED
    BY <2>1 DEF Exposure, Total, LedgerBalances, LedgerInv, SumsInv
<1> QED
  BY <1>2 DEF LedgerInv, SumsInv, WithinCeiling

-----------------------------------------------------------------------------
(* The steps of the ledger *)

\* An empty ledger balances.
LEMMA LedgerStarts ==
    ASSUME LedgerInit
    PROVE  LedgerInv
<1>1. RowsInv
  BY RowsStart
<1> DEFINE nothing == [i \in Rows |-> 0]
<1>2. Total(nothing) = 0
  <2>1. 1..0 = {}
    OBVIOUS
  <2>2. UNION {{i} \X (1..nothing[i]) : i \in Rows} = {}
    BY <2>1
  <2> QED
    BY <2>2, FS_EmptySet DEF Total
<1>3. accounted = nothing /\ [i \in Rows |-> Held(i)] = nothing
  BY DEF LedgerInit, Held, Pending
<1>4. spent = Total(accounted) /\ Exposure = 0 /\ spent = 0
  BY <1>2, <1>3 DEF LedgerInit, Exposure
<1> QED
  BY <1>1, <1>4, LedgerAssumption DEF LedgerInv, SumsInv, LedgerBalances, WithinCeiling

\* The invariant speaks of the ledger only.
LEMMA LedgerUntouched ==
    ASSUME LedgerInv, UNCHANGED ledgerVars
    PROVE  LedgerInv'
BY RowsUntouched, AsPending DEF ledgerVars, LedgerInv, Pending

\* Whatever a structured call does, the invariant holds after it.
LEMMA CallStep ==
    ASSUME LedgerInv, NEW r \in Requests,
           \/ Recover \/ Admit(r) \/ CancelUnsent(r) \/ MarkDispatched(r)
           \/ \E complete \in BOOLEAN : Settle(r, complete)
    PROVE  LedgerInv'
<1>0. /\ RowsInv /\ r \in Rows
      /\ state \in [Rows -> {"none", "reserved", "dispatched", "uncertain", "acknowledged",
                             "settled", "cancelled"}]
      /\ accounted \in [Rows -> Nat] /\ spent \in Nat
      /\ Cost \in [Rows -> Nat] /\ bill \in [Rows -> Int]
  BY LedgerAssumption DEF LedgerInv, RowsInv, LedgerTypeOK, Rows
<1>1. CASE Recover
  <2>1. RowsInv'
    BY <1>0, <1>1, Recovered
  <2>2. \A i \in Rows : Pending(i)' = Pending(i)
    BY <1>0, <1>1 DEF Recover, MarkUnknown, Orphans, Pending
  <2> QED
    BY <1>1, <2>1, <2>2, AsPending DEF Recover, MarkUnknown
<1>2. CASE Admit(r)
  <2>1. RowsInv'
    BY <1>0, <1>2, Admitted
  <2>2. CASE state[r] = "none"
    BY <1>0, <1>2, <2>1, <2>2, Fitting DEF Admit, Admits
  <2>3. CASE state[r] # "none"
    BY <1>0, <1>2, <2>1, <2>3, AsPending DEF Admit, Pending
  <2> QED
    BY <2>2, <2>3
<1>3. CASE CancelUnsent(r)
  <2>1. RowsInv'
    BY <1>0, <1>3, Cancelled
  <2>2. accounted'[r] + Held(r)' <= accounted[r] + Held(r)
    BY <1>0, <1>3 DEF CancelUnsent, Held, Pending
  <2>3. spent' = spent + accounted'[r] - accounted[r]
    BY <1>0, <1>3 DEF CancelUnsent
  <2> QED
    BY <1>0, <1>3, <2>1, <2>2, <2>3, Frugal DEF CancelUnsent
<1>4. CASE MarkDispatched(r)
  <2>1. RowsInv'
    BY <1>0, <1>4, Dispatched
  <2>2. \A i \in Rows : Pending(i)' = Pending(i)
    BY <1>0, <1>4 DEF MarkDispatched, Pending
  <2> QED
    BY <1>4, <2>1, <2>2, AsPending DEF MarkDispatched
<1>5. ASSUME NEW complete \in BOOLEAN, Settle(r, complete)
      PROVE  LedgerInv'
  <2>1. RowsInv'
    BY <1>0, <1>5, Settled
  <2>2. /\ \A i \in Rows : i # r => state'[i] = state[i] /\ accounted'[i] = accounted[i]
        /\ spent' = spent + accounted'[r] - accounted[r]
    BY <1>0, <1>5 DEF Settle, Account
  <2>3. ASSUME blocked' # "overrun"
        PROVE  blocked # "overrun" /\ accounted'[r] + Held(r)' <= accounted[r] + Held(r)
    <3>1. blocked # "overrun" /\ ~(complete /\ bill[r] > Cost[r])
      BY <1>5, <2>3 DEF Settle, Refreshed
    <3>2. accounted[r] = 0 /\ Pending(r)
      BY <1>0, <1>5 DEF Settle, RowsInv, LowerBounds, Pending
    <3>3. CASE complete
      <4>1. accounted'[r] = bill[r] /\ state'[r] = "settled"
        BY <1>0, <1>5, <3>3 DEF Settle, Account
      <4> QED
        BY <1>0, <3>1, <3>2, <3>3, <4>1 DEF Held, Pending
    <3>4. CASE ~complete
      <4>1. accounted'[r] = accounted[r] /\ Pending(r)'
        BY <1>0, <1>5, <3>4 DEF Settle, Account, Pending
      <4>2. Held(r)' = Held(r) /\ Held(r) \in Nat
        BY <1>0, <3>2, <4>1 DEF Held
      <4> QED
        BY <1>0, <3>1, <4>1, <4>2
    <3> QED
      BY <3>3, <3>4
  <2> QED
    BY <1>0, <2>1, <2>2, <2>3, Frugal
<1> QED
  BY <1>1, <1>2, <1>3, <1>4, <1>5

\* Whatever a session or the owner does, the invariant holds after it.
LEMMA LiveStep ==
    ASSUME LedgerInv, NEW l \in Lives, NEW p \in Procs,
           Session(l, p) \/ Administration(l, p) \/ Recover
    PROVE  LedgerInv'
<1>0. /\ RowsInv /\ l \in Rows
      /\ state \in [Rows -> {"none", "reserved", "dispatched", "uncertain", "acknowledged",
                             "settled", "cancelled"}]
      /\ accounted \in [Rows -> Nat] /\ spent \in Nat
      /\ Cost \in [Rows -> Nat] /\ bill \in [Rows -> Int]
  BY LedgerAssumption DEF LedgerInv, RowsInv, LedgerTypeOK, Rows
<1>1. RowsInv'
  BY <1>0, LiveRows
<1>2. CASE ReserveLive(l, p)
  BY <1>0, <1>1, <1>2, Fitting DEF ReserveLive
<1>3. CASE CheckpointSetup(l, p) \/ CheckpointInitial(l, p) \/ CheckpointTool(l, p)
  <2>1. \A i \in Rows : Pending(i)' = Pending(i)
    BY <1>0, <1>3
    DEF CheckpointSetup, CheckpointInitial, CheckpointTool, NewRound, MaySend, Pending
  <2> QED
    BY <1>1, <1>3, <2>1, AsPending
    DEF CheckpointSetup, CheckpointInitial, CheckpointTool, NewRound
<1>4. CASE Observe(l, p)
  <2>1. PICK amount \in accounted[l]..bill[l] :
            /\ Account(l, amount)
            /\ blocked' = IF amount > Cost[l] THEN "overrun" ELSE blocked
    BY <1>4 DEF Observe
  <2>2. /\ \A i \in Rows : i # l => state'[i] = state[i] /\ accounted'[i] = accounted[i]
        /\ spent' = spent + accounted'[l] - accounted[l]
        /\ accounted'[l] = amount
    BY <1>0, <1>4, <2>1 DEF Observe, Account
  <2>3. ASSUME blocked' # "overrun"
        PROVE  blocked # "overrun" /\ accounted'[l] + Held(l)' <= accounted[l] + Held(l)
    <3>1. blocked # "overrun" /\ amount <= Cost[l] /\ amount \in Int /\ accounted[l] <= amount
      BY <1>0, <2>1, <2>3
    <3>2. Pending(l) /\ Pending(l)'
      BY <1>4 DEF Observe, Open, Pending
    <3> QED
      BY <1>0, <2>2, <3>1, <3>2 DEF Held
  <2> QED
    BY <1>0, <1>1, <2>2, <2>3, Frugal
<1>5. CASE ObserveBad(l, p)
  <2>1. \A i \in Rows : Pending(i)' = Pending(i)
    BY <1>0, <1>5 DEF ObserveBad, Open, MarkUnknown, Pending
  <2> QED
    BY <1>1, <1>5, <2>1, AsPending DEF ObserveBad, MarkUnknown
<1>6. CASE Finish(l, p)
  <2>1. /\ \A i \in Rows : i # l => state'[i] = state[i] /\ accounted'[i] = accounted[i]
        /\ accounted'[l] = accounted[l] /\ spent' = spent
        /\ Pending(l) /\ (blocked' # "overrun" => blocked # "overrun")
    BY <1>0, <1>6 DEF Finish, Open, MarkUnknown, Pending
  <2>2. spent' = spent + accounted'[l] - accounted[l]
    BY <1>0, <2>1
  <2>3. accounted'[l] + Held(l)' <= accounted[l] + Held(l)
    BY <1>0, <2>1 DEF Held
  <2> QED
    BY <1>0, <1>1, <2>1, <2>2, <2>3, Frugal
<1>7. CASE CancelUnsent(l)
  <2>1. accounted'[l] + Held(l)' <= accounted[l] + Held(l)
    BY <1>0, <1>7 DEF CancelUnsent, Held, Pending
  <2>2. spent' = spent + accounted'[l] - accounted[l]
    BY <1>0, <1>7 DEF CancelUnsent
  <2> QED
    BY <1>0, <1>1, <1>7, <2>1, <2>2, Frugal DEF CancelUnsent
<1>8. CASE Reconcile(l, p)
  <2>1. /\ \A i \in Rows : i # l => state'[i] = state[i] /\ accounted'[i] = accounted[i]
        /\ spent' = spent + accounted'[l] - accounted[l]
        /\ accounted'[l] = bill[l] /\ state'[l] = "settled"
    BY <1>0, <1>8 DEF Reconcile, Account
  <2>2. ASSUME blocked' # "overrun"
        PROVE  blocked # "overrun" /\ accounted'[l] + Held(l)' <= accounted[l] + Held(l)
    <3>1. blocked # "overrun" /\ bill[l] <= Cost[l]
      BY <1>0, <1>8, <2>2 DEF Reconcile, Refreshed
    <3>2. Held(l)' = 0
      BY <2>1 DEF Held, Pending
    <3>3. CASE state[l] = "settled"
      <4>1. accounted[l] = bill[l]
        BY <1>0, <1>8, <3>3 DEF Reconcile, Attributable, RowsInv, SentIsHeld
      <4> QED
        BY <1>0, <2>1, <3>1, <3>2, <4>1 DEF Held
    <3>4. CASE state[l] # "settled"
      <4>1. Pending(l)
        BY <1>8, <3>4 DEF Reconcile, Attributable, Pending
      <4>2. accounted[l] <= bill[l]
        BY <1>0, <1>8 DEF Reconcile, Attributable, RowsInv, LowerBounds
      <4> QED
        BY <1>0, <2>1, <3>1, <3>2, <4>1, <4>2 DEF Held
    <3> QED
      BY <3>3, <3>4
  <2> QED
    BY <1>0, <1>1, <2>1, <2>2, Frugal
<1>9. CASE Acknowledge(l, p) \/ Qualify(l, p) \/ Audit(l, p)
  <2>1. \A i \in Rows : Pending(i)' = Pending(i)
    BY <1>0, <1>9 DEF Acknowledge, Qualify, Audit, Pending
  <2>2. UNCHANGED <<accounted, spent>> /\ (blocked' # "overrun" => blocked # "overrun")
    BY <1>9 DEF Acknowledge, Qualify, Audit, Refreshed
  <2> QED
    BY <1>1, <2>1, <2>2, AsPending
<1>10. CASE Recover
  <2>1. \A i \in Rows : Pending(i)' = Pending(i)
    BY <1>0, <1>10 DEF Recover, MarkUnknown, Orphans, Pending
  <2> QED
    BY <1>1, <1>10, <2>1, AsPending DEF Recover, MarkUnknown
<1> QED
  BY <1>2, <1>3, <1>4, <1>5, <1>6, <1>7, <1>8, <1>9, <1>10 DEF Session, Administration

-----------------------------------------------------------------------------
(* The whole system: who works for which request *)

\* Steps under a claim of the WorkItem, steps that follow a dispatch, steps towards
\* the paid target, and steps of a request that was sent before and has no outcome.
Asked  == {"start", "free", "admit", "reserve", "client", "paid", "won"}
Flying == {"free", "won", "saved"}
Paying == {"admit", "reserve", "client", "paid"}
Asking == {"idle", "pick", "claim", "quit"}
Over   == {"idle", "quit"}

\* One decision of a WorkItem is worked on at a time.
OneDecision ==
    \A q, r \in Work : Sibling(q, r) /\ q # r => Is(q, "idle") \/ Is(r, "idle")

\* No other decision of the same WorkItem is claimed or has a paid call unresolved.
Clear(r) == \A q \in Work : Sibling(q, r) /\ q # r => claim[q] # "open" /\ ~Pending(q)

AskedIsClaimed == \A r \in Work : call[r].pc \in Asked => claim[r] = "open" /\ Clear(r)

\* What may have been sent stays claimed, and is not on its way again.
DoubtIsClaimed ==
    /\ \A r \in Work : r \in doubt => claim[r] = "open" /\ call[r].pc \in Asking
    /\ \A r \in Scoped : r \in doubt => claim[r] # "none" /\ call[r].pc \in Over

LanesOK ==
    \A r \in Requests : /\ Is(r, "claim") => r \in Work
                        /\ Is(r, "gate") => r \in Scoped
                        /\ r \in Scoped /\ ~Is(r, "idle") => claim[r] # "none"

\* Only the free target is tried under a lease.
Unleases(c) ==
    /\ c.pc \in {"claim", "gate"} /\ c.target = "paid" => ~c.leased
    /\ c.pc \in Paying => ~c.leased

PaidIsUnleased == \A r \in Requests : Unleases(call[r])

\* A leased call that still holds the lease left after the last pressure.
ProbesAreFresh ==
    \A r \in Requests :
        call[r].pc \in Flying /\ call[r].leased /\ HeldBy(r) => ~call[r].late

VisitsOK == \A r \in Requests : call[r].visits <= Cardinality(plan[r]) + 1

RequestInv ==
    /\ RecoveryTypeOK /\ RequestTypeOK
    /\ OneDecision /\ AskedIsClaimed /\ DoubtIsClaimed
    /\ LanesOK /\ PaidIsUnleased /\ ProbesAreFresh /\ VisitsOK

Inv == LedgerInv /\ RequestInv

-----------------------------------------------------------------------------
(* What a step for one request leaves alone, and what it must provide *)

Claims == {"none", "open", "closed", "result", "completed"}

Elsewhere(r) ==
    /\ RecoveryTypeOK'
    /\ tried' \in [Requests -> SUBSET {"free", "paid"}]
    /\ \A q \in Requests : q # r => (HeldBy(q)' => HeldBy(q)) /\ state'[q] = state[q]

Moves(r, c, d, v) ==
    /\ call' = [call EXCEPT ![r] = c]
    /\ claim' = [claim EXCEPT ![r] = d]
    /\ plan' = [plan EXCEPT ![r] = v]
    /\ doubt' \subseteq doubt \cup {r}

Sound(r, c, d, v) ==
    /\ c \in Calls /\ d \in Claims /\ v \in SUBSET {"free", "paid"}
    /\ \A q \in Work : Sibling(q, r) /\ q # r => Is(q, "idle")
    /\ r \in Work /\ c.pc \in Asked => d = "open" /\ Clear(r)
    /\ r \in Work /\ r \in doubt' => d = "open" /\ c.pc \in Asking
    /\ r \in Scoped /\ r \in doubt' => d # "none" /\ c.pc \in Over
    /\ c.pc = "claim" => r \in Work
    /\ c.pc = "gate" => r \in Scoped
    /\ r \in Scoped /\ c.pc # "idle" => d # "none"
    /\ Unleases(c)
    /\ c.pc \in Flying /\ c.leased /\ HeldBy(r)' => ~c.late
    /\ c.visits <= Cardinality(v) + 1

\* A plan has at most two targets.
LEMMA PlanSize ==
    ASSUME NEW S \in SUBSET {"free", "paid"}
    PROVE  Cardinality(S) \in 0..2
<1>1. IsFiniteSet({"free", "paid"}) /\ Cardinality({"free", "paid"}) = 2
  <2>1. IsFiniteSet({"free"}) /\ Cardinality({"free"}) = 1
    BY FS_Singleton
  <2>2. "paid" \notin {"free"} /\ {"free", "paid"} = {"free"} \cup {"paid"}
    OBVIOUS
  <2> QED
    BY <2>1, <2>2, FS_AddElement
<1>2. IsFiniteSet(S) /\ Cardinality(S) <= Cardinality({"free", "paid"})
  BY <1>1, FS_Subset
<1> QED
  BY <1>1, <1>2, FS_CardinalityType

\* A sound move for one request preserves the invariant.
LEMMA Moved ==
    ASSUME RequestInv, NEW r \in Requests, NEW c, NEW d, NEW v,
           Elsewhere(r), Moves(r, c, d, v), Sound(r, c, d, v)
    PROVE  RequestInv'
<1> USE DEF Moves, Elsewhere
<1>1. call \in [Requests -> Calls] /\ claim \in [Requests -> Claims]
      /\ plan \in [Requests -> SUBSET {"free", "paid"}] /\ doubt \subseteq Requests
  BY DEF RequestInv, RequestTypeOK, Claims
<1>2. /\ call'[r] = c /\ claim'[r] = d /\ plan'[r] = v
      /\ \A q \in Requests : q # r => call'[q] = call[q] /\ claim'[q] = claim[q]
                                      /\ plan'[q] = plan[q]
  BY <1>1
<1>3. RequestTypeOK'
  BY <1>1 DEF Sound, RequestTypeOK, Claims
<1>4. OneDecision'
  BY <1>2 DEF RequestInv, OneDecision, Sound, Is, Sibling, Requests
<1>5. AskedIsClaimed'
  <2> SUFFICES ASSUME NEW s \in Work, (call[s].pc \in Asked)'
               PROVE  (claim[s] = "open" /\ Clear(s))'
    BY DEF AskedIsClaimed
  <2>1. CASE s = r
    BY <1>2, <2>1 DEF Sound, Clear, Pending, Requests, Sibling
  <2>2. CASE s # r /\ Sibling(r, s)
    <3>1. Is(s, "idle")
      BY <2>2 DEF Sound, Sibling
    <3> QED
      BY <1>2, <2>2, <3>1 DEF Is, Asked, Requests
  <2>3. CASE s # r /\ ~Sibling(r, s)
    BY <1>2, <2>3 DEF RequestInv, AskedIsClaimed, Clear, Pending, Requests, Sibling
  <2> QED
    BY <2>1, <2>2, <2>3
<1>6. DoubtIsClaimed'
  BY <1>2 DEF RequestInv, DoubtIsClaimed, Sound, Requests
<1>7. LanesOK'
  BY <1>2 DEF RequestInv, LanesOK, Sound, Is
<1>8. ProbesAreFresh'
  BY <1>2 DEF RequestInv, ProbesAreFresh, Sound
<1>9. VisitsOK'
  BY <1>2 DEF RequestInv, VisitsOK, Sound
<1>10. PaidIsUnleased'
  BY <1>2 DEF RequestInv, PaidIsUnleased, Unleases, Sound
<1> QED
  BY <1>3, <1>4, <1>5, <1>6, <1>7, <1>8, <1>9, <1>10 DEF RequestInv

-----------------------------------------------------------------------------
(* The transactions of the store, seen from other requests *)

HealthWork(r, p, kind) ==
    \/ UNCHANGED recoveryVars \/ ResetExpired \/ SaveFailure(kind)
    \/ ReadHealth(r) \/ ClaimLease(r) \/ StartLease(r, p) \/ ReleaseLease(r)
    \/ CompleteLease(r, p)

LedgerWork(r) ==
    \/ UNCHANGED ledgerVars \/ Recover \/ Admit(r) \/ CancelUnsent(r)
    \/ MarkDispatched(r) \/ \E complete \in BOOLEAN : Settle(r, complete)

\* A transaction on the health record or the lease is typed, and gives the lease
\* to nobody but the request that asked.
LEMMA LeaseAside ==
    ASSUME RecoveryTypeOK, UNCHANGED alive, NEW r \in Requests,
           NEW p \in Procs \cup {NoProc}, NEW kind, HealthWork(r, p, kind)
    PROVE  RecoveryTypeOK' /\ \A q \in Requests : q # r => (HeldBy(q)' => HeldBy(q))
<1> USE IdentityAssumption DEF RecoveryTypeOK, HeldBy
<1>1. CASE UNCHANGED recoveryVars
  BY <1>1 DEF recoveryVars
<1>2. CASE ResetExpired
  BY <1>2 DEF ResetExpired, Write, recoveryVars
<1>3. CASE SaveFailure(kind)
  BY <1>3 DEF SaveFailure, AfterFailure, Write
<1>4. CASE ReadHealth(r)
  BY <1>4 DEF ReadHealth
<1>5. CASE ClaimLease(r)
  BY <1>5 DEF ClaimLease, Claimed
<1>6. CASE StartLease(r, p)
  BY <1>6 DEF StartLease
<1>7. CASE ReleaseLease(r)
  BY <1>7 DEF ReleaseLease, Unleased
<1>8. CASE CompleteLease(r, p)
  BY <1>8 DEF CompleteLease, Write, Unleased, recoveryVars
<1> QED
  BY <1>1, <1>2, <1>3, <1>4, <1>5, <1>6, <1>7, <1>8 DEF HealthWork

\* The ledger changes no other structured call's row than the one it is asked for.
LEMMA RowAside ==
    ASSUME LedgerInv, NEW r \in Requests, LedgerWork(r)
    PROVE  /\ \A q \in Requests : q # r => state'[q] = state[q]
           /\ LedgerInv'
<1> USE DEF Rows
<1>1. state \in [Rows -> {"none", "reserved", "dispatched", "uncertain", "acknowledged",
                           "settled", "cancelled"}]
  BY DEF LedgerInv, RowsInv, LedgerTypeOK
<1>2. CASE UNCHANGED ledgerVars
  BY <1>2, LedgerUntouched DEF ledgerVars
<1>3. CASE Recover
  <2>1. \A q \in Requests : q \notin Orphans
    BY LedgerAssumption DEF Orphans
  <2> QED
    BY <1>1, <1>3, <2>1, CallStep DEF Recover, MarkUnknown
<1>4. CASE Admit(r)
  BY <1>1, <1>4, CallStep DEF Admit
<1>5. CASE CancelUnsent(r)
  BY <1>1, <1>5, CallStep DEF CancelUnsent
<1>6. CASE MarkDispatched(r)
  BY <1>1, <1>6, CallStep DEF MarkDispatched
<1>7. CASE \E complete \in BOOLEAN : Settle(r, complete)
  BY <1>1, <1>7, CallStep DEF Settle
<1> QED
  BY <1>2, <1>3, <1>4, <1>5, <1>6, <1>7 DEF LedgerWork

\* Together: what a handler leaves alone.
LEMMA Aside ==
    ASSUME Inv, UNCHANGED alive, NEW r \in Requests, NEW p \in Procs \cup {NoProc}, NEW kind,
           HealthWork(r, p, kind), LedgerWork(r),
           tried' \in [Requests -> SUBSET {"free", "paid"}]
    PROVE  Elsewhere(r) /\ LedgerInv'
BY LeaseAside, RowAside DEF Inv, RequestInv, Elsewhere

-----------------------------------------------------------------------------
(* The two moves most handlers make *)

\* A request that goes on to a step under the same claim.
LEMMA Went ==
    ASSUME RequestInv, NEW r \in Requests, NEW b \in Steps \ {"idle", "claim", "gate"},
           ~Is(r, "idle"), Go(r, b), Elsewhere(r), UNCHANGED <<plan, claim>>,
           doubt' \subseteq doubt \cup {r},
           r \in Work /\ b \in Asked => call[r].pc \in Asked,
           r \in doubt' => b = "quit" /\ (r \in Work => claim[r] = "open"),
           b \in Paying => call[r].pc \in Paying,
           \/ b \notin Flying
           \/ call[r].pc \in Paying
           \/ call[r].pc \in Flying /\ (HeldBy(r)' => HeldBy(r))
    PROVE  RequestInv'
<1> DEFINE c == [call[r] EXCEPT !.pc = b]
<1>1. call[r] \in Calls /\ claim[r] \in Claims /\ plan[r] \in SUBSET {"free", "paid"}
  BY DEF RequestInv, RequestTypeOK, Claims
<1>2. Moves(r, c, claim[r], plan[r])
  BY DEF Go, Moves, RequestInv, RequestTypeOK
<1>3. /\ c \in Calls /\ c.pc = b /\ c.leased = call[r].leased /\ c.late = call[r].late
      /\ c.visits = call[r].visits
  BY <1>1 DEF Calls
<1>4. Sound(r, c, claim[r], plan[r])
  BY <1>1, <1>3
  DEF Sound, Is, RequestInv, OneDecision, AskedIsClaimed, DoubtIsClaimed, LanesOK,
      PaidIsUnleased, Unleases, ProbesAreFresh, VisitsOK, Requests, Sibling, Asking, Over
<1> QED
  BY <1>2, <1>4, Moved

\* A request whose call ends, whatever becomes of its claim.
LEMMA Ended ==
    ASSUME RequestInv, NEW r \in Requests, NEW d \in Claims,
           ~Is(r, "idle"), End(r), Elsewhere(r), UNCHANGED plan,
           claim' = [claim EXCEPT ![r] = d], doubt' \subseteq doubt \cup {r},
           r \in doubt' => IF r \in Work THEN d = "open" ELSE d # "none"
    PROVE  RequestInv'
<1>1. claim[r] \in Claims /\ plan[r] \in SUBSET {"free", "paid"}
  BY DEF RequestInv, RequestTypeOK, Claims
<1>2. Moves(r, Idle, d, plan[r])
  BY DEF End, Moves, RequestInv, RequestTypeOK
<1>3. Idle \in Calls
  BY DEF Idle, Calls, Steps, Faults
<1>4. Cardinality(plan[r]) \in 0..2
  BY <1>1, PlanSize
<1>5. Sound(r, Idle, d, plan[r])
  BY <1>1, <1>3, <1>4, IdentityAssumption
  DEF Sound, Is, Idle, RequestInv, OneDecision, Requests, Sibling, Asking, Over, Asked,
      Flying, Paying, Unleases
<1> QED
  BY <1>2, <1>5, Moved

\* A request that gives its lease back first, or has none and ends.
LEMMA Quits ==
    ASSUME RequestInv, NEW r \in Requests, ~Is(r, "idle"), Quit(r), Elsewhere(r),
           UNCHANGED <<plan, claim>>, doubt' \subseteq doubt \cup {r},
           r \in doubt' /\ r \in Work => claim[r] = "open"
    PROVE  RequestInv'
<1>1. CASE Go(r, "quit")
  <2>1. "quit" \in Steps \ {"idle", "claim", "gate"} /\ "quit" \notin Asked \cup Flying \cup Paying
    BY DEF Steps, Asked, Flying, Paying
  <2> QED
    BY <1>1, <2>1, Went
<1>2. CASE End(r)
  <2>1. claim' = [claim EXCEPT ![r] = claim[r]] /\ claim[r] \in Claims
    BY DEF RequestInv, RequestTypeOK, Claims
  <2>2. r \in doubt' => IF r \in Work THEN claim[r] = "open" ELSE claim[r] # "none"
    BY DEF RequestInv, LanesOK, Requests
  <2> QED
    BY <1>2, <2>1, <2>2, Ended
<1> QED
  BY <1>1, <1>2 DEF Quit

\* A request that ends with its claim as it was.
LEMMA Stopped ==
    ASSUME RequestInv, NEW r \in Requests, ~Is(r, "idle"), End(r), Elsewhere(r),
           UNCHANGED <<plan, claim, doubt>>
    PROVE  RequestInv'
<1>1. claim' = [claim EXCEPT ![r] = claim[r]] /\ claim[r] \in Claims
  BY DEF RequestInv, RequestTypeOK, Claims
<1>2. r \in doubt' => IF r \in Work THEN claim[r] = "open" ELSE claim[r] # "none"
  BY DEF RequestInv, DoubtIsClaimed, Requests
<1> QED
  BY <1>1, <1>2, Ended

-----------------------------------------------------------------------------
(* Routing *)

\* Routing a request and choosing its target preserves the invariant.
LEMMA Begins ==
    ASSUME Inv, NEW r \in Requests, NEW p \in Procs, Begin(r, p)
    PROVE  Inv'
<1> DEFINE c == [Idle EXCEPT !.pc = "pick", !.at = p,
                    !.left = IF "paid" \in tried[r] THEN {} ELSE plan'[r] \ tried[r]]
           d == IF r \in Scoped THEN "open" ELSE claim[r]
<1>1. RequestInv /\ LedgerInv
  BY DEF Inv
<1>2. /\ call \in [Requests -> Calls] /\ claim \in [Requests -> Claims]
      /\ plan \in [Requests -> SUBSET {"free", "paid"}]
      /\ tried \in [Requests -> SUBSET {"free", "paid"}]
  BY <1>1 DEF RequestInv, RequestTypeOK, Claims
<1>3. HealthWork(r, p, "none") /\ LedgerWork(r)
  BY DEF Begin, Decide, HealthWork, LedgerWork
<1>4. Elsewhere(r) /\ LedgerInv'
  BY <1>2, <1>3, Aside DEF Begin
<1>5. PICK v \in SUBSET {"free", "paid"} : plan' = [plan EXCEPT ![r] = v]
  BY <1>2 DEF Begin, Decide
<1>6. Moves(r, c, d, v)
  BY <1>2, <1>5 DEF Begin, Moves
<1>7. Sound(r, c, d, v)
  <2>1. c.pc = "pick" /\ c.visits = 0 /\ c \in Calls
    <3>1. (IF "paid" \in tried[r] THEN {} ELSE plan'[r] \ tried[r]) \in SUBSET {"free", "paid"}
      BY <1>2, <1>5
    <3>2. Idle \in Calls /\ "pick" \in Steps
      BY DEF Idle, Calls, Steps, Faults
    <3> QED
      BY <3>1, <3>2 DEF Idle, Calls
  <2>2. d \in Claims /\ (r \in Work => d = claim[r]) /\ (r \in Scoped => d = "open")
    BY <1>2, IdentityAssumption DEF Claims
  <2>3. Cardinality(v) \in 0..2
    BY PlanSize
  <2>4. \A q \in Work : Sibling(q, r) /\ q # r => Is(q, "idle")
    BY DEF Begin, Wanted, Sibling
  <2>5. r \in doubt => r \in Work /\ claim[r] = "open"
    BY <1>1 DEF Begin, Wanted, RequestInv, DoubtIsClaimed, Requests
  <2> QED
    BY <2>1, <2>2, <2>3, <2>4, <2>5, IdentityAssumption
    DEF Sound, Begin, Asked, Asking, Flying, Paying, Unleases
<1>8. RequestInv'
  BY <1>1, <1>4, <1>6, <1>7, Moved
<1> QED
  BY <1>4, <1>8 DEF Inv

\* A request that visits a target.
LEMMA Visited ==
    ASSUME Inv, NEW r \in Requests, NEW target \in {"free", "paid"}, NEW leased \in BOOLEAN,
           Is(r, "pick"), call[r].visits <= Cardinality(plan[r]), leased => target = "free",
           Visit(r, target, leased), Elsewhere(r), UNCHANGED <<plan, claim, doubt>>
    PROVE  RequestInv'
<1> DEFINE c == [call[r] EXCEPT !.pc = IF r \in Work THEN "claim" ELSE "gate",
                                !.target = target, !.leased = leased,
                                !.left = @ \ {target}, !.visits = @ + 1]
<1>1. RequestInv
  BY DEF Inv
<1>2. call[r] \in Calls /\ claim[r] \in Claims /\ plan[r] \in SUBSET {"free", "paid"}
  BY <1>1 DEF RequestInv, RequestTypeOK, Claims
<1>3. Moves(r, c, claim[r], plan[r])
  BY <1>1 DEF Visit, Moves, RequestInv, RequestTypeOK
<1>4. Cardinality(plan[r]) \in 0..2
  BY <1>2, PlanSize
<1>5. c \in Calls /\ c.pc \in {"claim", "gate"} /\ c.visits = call[r].visits + 1
      /\ (c.pc = "claim" <=> r \in Work)
  <2>1. call[r].visits + 1 \in 0..3
    BY <1>2, <1>4 DEF Calls
  <2>2. (IF r \in Work THEN "claim" ELSE "gate") \in Steps
    BY DEF Steps
  <2> QED
    BY <1>2, <2>1, <2>2 DEF Calls
<1>6. /\ c.pc \notin Asked \cup Flying /\ (c.pc = "claim" => c.pc \in Asking)
      /\ Unleases(c)
  BY <1>2, <1>5 DEF Asked, Flying, Asking, Paying, Unleases, Calls
<1>7. c.visits <= Cardinality(plan[r]) + 1
  BY <1>2, <1>4, <1>5 DEF Calls
<1>8. /\ r \in doubt => r \in Work /\ claim[r] = "open"
      /\ r \in Scoped => claim[r] # "none"
      /\ \A q \in Work : Sibling(q, r) /\ q # r => Is(q, "idle")
  BY <1>1 DEF Is, RequestInv, OneDecision, DoubtIsClaimed, LanesOK, Requests, Sibling, Over
<1>9. Sound(r, c, claim[r], plan[r])
  BY <1>2, <1>5, <1>6, <1>7, <1>8, IdentityAssumption DEF Sound, Requests
<1> QED
  BY <1>1, <1>3, <1>9, Moved

\* A request that chooses again.
LEMMA ChoosesAgain ==
    ASSUME RequestInv, NEW r \in Requests, NEW c \in Calls, call[r].pc \notin Over,
           c.pc = "pick", c.visits = call[r].visits, call' = [call EXCEPT ![r] = c],
           Elsewhere(r), UNCHANGED <<plan, claim, doubt>>
    PROVE  RequestInv'
<1>1. claim[r] \in Claims /\ plan[r] \in SUBSET {"free", "paid"}
  BY DEF RequestInv, RequestTypeOK, Claims
<1>2. Moves(r, c, claim[r], plan[r])
  BY DEF Moves, RequestInv, RequestTypeOK
<1>3. Sound(r, c, claim[r], plan[r])
  BY <1>1, IdentityAssumption
  DEF Sound, Is, RequestInv, OneDecision, DoubtIsClaimed, LanesOK, VisitsOK, Requests,
      Sibling, Asked, Asking, Over, Flying, Paying, Unleases
<1> QED
  BY <1>2, <1>3, Moved

\* A request that goes on to its target.
LEMMA Proceeds ==
    ASSUME RequestInv, NEW r \in Requests, NEW d \in Claims,
           call[r].pc \in {"claim", "gate"}, Proceed(r),
           claim' = [claim EXCEPT ![r] = d], Elsewhere(r), UNCHANGED <<plan, doubt>>,
           r \in Work => d = "open" /\ Clear(r), r \in Scoped => d # "none", r \notin doubt
    PROVE  RequestInv'
<1>1. call[r] \in Calls /\ plan[r] \in SUBSET {"free", "paid"} /\ Unleases(call[r])
  BY DEF RequestInv, RequestTypeOK, PaidIsUnleased
<1>2. PICK c \in Calls : /\ call' = [call EXCEPT ![r] = c]
                         /\ c.pc \in {"admit", "start", "free"} /\ Unleases(c)
                         /\ c.pc = "free" => ~c.late
                         /\ c.visits = call[r].visits
  <2> DEFINE go(b) == [call[r] EXCEPT !.pc = b]
             send == [call[r] EXCEPT !.pc = "free", !.late = FALSE]
  <2>1. /\ go("admit") \in Calls /\ go("start") \in Calls /\ send \in Calls
        /\ go("admit").pc = "admit" /\ go("start").pc = "start"
        /\ send.pc = "free" /\ ~send.late /\ send.visits = call[r].visits
        /\ go("admit").visits = call[r].visits /\ go("start").visits = call[r].visits
    BY <1>1 DEF Calls, Steps
  <2>2. \/ call' = [call EXCEPT ![r] = go("admit")] /\ call[r].target = "paid"
        \/ call' = [call EXCEPT ![r] = go("start")]
        \/ call' = [call EXCEPT ![r] = send]
    BY DEF Proceed, Go, SendFree
  <2>3. /\ call[r].target = "paid" => Unleases(go("admit"))
        /\ Unleases(go("start")) /\ Unleases(send)
    BY <1>1 DEF Unleases, Calls, Paying
  <2> QED
    BY <2>1, <2>2, <2>3
<1>3. Moves(r, c, d, plan[r])
  BY <1>2 DEF Moves, RequestInv, RequestTypeOK
<1>4. Sound(r, c, d, plan[r])
  BY <1>1, <1>2
  DEF Sound, Is, RequestInv, OneDecision, VisitsOK, Requests, Sibling, Flying
<1> QED
  BY <1>3, <1>4, Moved

\* Routing a request, choosing a target, claiming and starting it.
LEMMA AskStep ==
    ASSUME Inv, NEW r \in Requests, Ask(r)
    PROVE  Inv'
<1>0. /\ RequestInv /\ LedgerInv
      /\ call[r] \in Calls /\ claim \in [Requests -> Claims]
      /\ tried \in [Requests -> SUBSET {"free", "paid"}]
  BY DEF Inv, RequestInv, RequestTypeOK, Claims
<1>1. CASE \E p \in Procs : Begin(r, p)
  BY <1>1, Begins
<1> DEFINE p == call[r].at
<1>a. ASSUME UNCHANGED <<alive, ledgerVars, tried>>, HealthWork(r, p, "none")
      PROVE  Elsewhere(r) /\ LedgerInv'
  <2>1. p \in Procs \cup {NoProc} /\ LedgerWork(r)
    BY <1>0, <1>a DEF Calls, LedgerWork
  <2> QED
    BY <1>0, <1>a, <2>1, Aside
<1>2. CASE PickFree(r)
  <2>1. HealthWork(r, p, "none")
    BY <1>2 DEF PickFree, HealthWork
  <2>2. Elsewhere(r) /\ LedgerInv'
    BY <1>2, <1>a, <2>1 DEF PickFree
  <2>3. Visit(r, "free", TRUE) \/ Visit(r, "free", FALSE)
    BY <1>2 DEF PickFree
  <2> QED
    BY <1>2, <2>2, <2>3, Visited DEF PickFree, WantsFree, Inv
<1>3. CASE SkipFree(r)
  <2> DEFINE c == [call[r] EXCEPT !.left = @ \ {"free"}, !.prev = "refused lease"]
  <2>1. Elsewhere(r) /\ LedgerInv'
    BY <1>3, <1>a DEF SkipFree, HealthWork
  <2>2. c \in Calls /\ c.pc = call[r].pc /\ c.visits = call[r].visits
    BY <1>0 DEF Calls, Faults
  <2>3. call[r].pc = "pick" /\ call[r].pc \notin Over
    BY <1>3 DEF SkipFree, WantsFree, Is, Over
  <2> QED
    BY <1>0, <1>3, <2>1, <2>2, <2>3, ChoosesAgain DEF SkipFree, Inv
<1>4. CASE PickPaid(r)
  <2>1. Elsewhere(r) /\ LedgerInv'
    BY <1>4, <1>a DEF PickPaid, HealthWork
  <2> QED
    BY <1>4, <2>1, Visited DEF PickPaid, WantsPaid, Inv
<1>5. CASE PickNothing(r)
  <2>1. Elsewhere(r) /\ LedgerInv'
    BY <1>5, <1>a DEF PickNothing, HealthWork
  <2> QED
    BY <1>0, <1>5, <2>1, Stopped DEF PickNothing, Inv, Is
<1>6. CASE ClaimWork(r)
  <2>1. /\ Elsewhere(r) /\ LedgerInv' /\ ~Is(r, "idle") /\ r \in Work
        /\ call[r].pc \in {"claim", "gate"}
    BY <1>0, <1>6, <1>a DEF ClaimWork, HealthWork, Is, RequestInv, LanesOK
  <2>2. CASE Claimable(r)
    <3>1. Clear(r) /\ r \notin doubt /\ r \notin Scoped
      BY <1>0, <2>1, <2>2, IdentityAssumption
      DEF Claimable, Unresolved, Clear, Sibling, RequestInv, DoubtIsClaimed
    <3>2. claim' = [claim EXCEPT ![r] = "open"] /\ Proceed(r) /\ "open" \in Claims
      BY <1>6, <2>2 DEF ClaimWork, Claims
    <3> QED
      BY <1>0, <1>6, <2>1, <3>1, <3>2, Proceeds DEF ClaimWork, Inv
  <2>3. CASE ~Claimable(r)
    <3>1. r \in doubt => claim[r] = "open"
      BY <1>0, <2>1 DEF RequestInv, DoubtIsClaimed
    <3> QED
      BY <1>0, <1>6, <2>1, <2>3, <3>1, Quits DEF ClaimWork, Inv
  <2> QED
    BY <2>2, <2>3
<1>7. CASE Validate(r)
  <2>1. /\ Elsewhere(r) /\ LedgerInv' /\ ~Is(r, "idle") /\ r \in Scoped
        /\ call[r].pc \in {"claim", "gate"}
    BY <1>0, <1>7, <1>a DEF Validate, HealthWork, Is, RequestInv, LanesOK
  <2>2. r \notin doubt /\ r \notin Work /\ claim[r] # "none" /\ claim[r] \in Claims
    BY <1>0, <1>7, <2>1, IdentityAssumption
    DEF Validate, Is, RequestInv, DoubtIsClaimed, LanesOK, Over
  <2>3. claim' = [claim EXCEPT ![r] = claim[r]]
    BY <1>0, <1>7 DEF Validate
  <2> QED
    BY <1>0, <1>7, <2>1, <2>2, <2>3, Proceeds, Quits DEF Validate, Inv
<1>8. CASE StartProbe(r)
  <2>1. Elsewhere(r) /\ LedgerInv'
    BY <1>8, <1>a DEF StartProbe, HealthWork
  <2>2. /\ ~Is(r, "idle") /\ r \notin doubt
        /\ r \in Work => claim[r] = "open" /\ Clear(r)
        /\ r \in Scoped => claim[r] # "none"
    BY <1>0, <1>8
    DEF StartProbe, Is, RequestInv, AskedIsClaimed, DoubtIsClaimed, LanesOK, Requests,
        Asked, Asking, Over
  <2> DEFINE c == [call[r] EXCEPT !.pc = "free", !.late = FALSE]
  <2>3. c \in Calls /\ c.pc = "free" /\ ~c.late /\ c.visits = call[r].visits
    BY <1>0 DEF Calls, Steps
  <2>4. Moves(r, c, claim[r], plan[r])
    BY <1>0, <1>8 DEF StartProbe, SendFree, Moves, RequestInv, RequestTypeOK
  <2>5. Sound(r, c, claim[r], plan[r])
    BY <1>0, <1>8, <2>2, <2>3
    DEF Sound, StartProbe, Is, RequestInv, RequestTypeOK, OneDecision, VisitsOK, Claims,
        Requests, Sibling, Paying, Unleases
  <2> QED
    BY <1>0, <2>1, <2>4, <2>5, Moved DEF Inv
<1>9. CASE LoseProbe(r)
  <2>1. Elsewhere(r) /\ LedgerInv' /\ ~Is(r, "idle")
    BY <1>9, <1>a DEF LoseProbe, HealthWork, Is
  <2>2. r \in doubt /\ r \in Work => claim[r] = "open"
    BY <1>0 DEF RequestInv, DoubtIsClaimed
  <2> QED
    BY <1>0, <1>9, <2>1, <2>2, Quits DEF LoseProbe, Inv
<1>10. CASE QuitLease(r)
  <2>1. Elsewhere(r) /\ LedgerInv' /\ ~Is(r, "idle")
    BY <1>10, <1>a DEF QuitLease, HealthWork, Is
  <2> QED
    BY <1>0, <1>10, <2>1, Stopped DEF QuitLease, Inv
<1> QED
  BY <1>1, <1>2, <1>3, <1>4, <1>5, <1>6, <1>7, <1>8, <1>9, <1>10 DEF Ask

-----------------------------------------------------------------------------
(* The free target *)

\* A request whose attempt, or the failure of it, is on record.
LEMMA Noted ==
    ASSUME RequestInv, NEW r \in Requests, NEW d \in Claims, NEW c \in Calls,
           ~Is(r, "idle"), r \notin doubt, UNCHANGED <<plan, doubt>>, Elsewhere(r),
           c.pc \in {"failing", "after"}, c.visits = call[r].visits,
           call' = [call EXCEPT ![r] = c], claim' = [claim EXCEPT ![r] = d],
           r \in Scoped => d # "none"
    PROVE  RequestInv'
<1>1. plan[r] \in SUBSET {"free", "paid"}
  BY DEF RequestInv, RequestTypeOK
<1>2. Moves(r, c, d, plan[r])
  BY DEF Moves, RequestInv, RequestTypeOK
<1>3. Sound(r, c, d, plan[r])
  BY <1>1
  DEF Sound, Is, RequestInv, OneDecision, VisitsOK, Requests, Sibling, Asked, Flying,
      Paying, Unleases
<1> QED
  BY <1>2, <1>3, Moved

\* Pressure is recorded: no lease is left, so no call holds one.
LEMMA PressureNoted ==
    ASSUME Inv, NEW r \in Requests, NotePressure(r)
    PROVE  Inv'
<1>1. RequestInv /\ LedgerInv /\ LedgerInv'
  BY LedgerUntouched DEF NotePressure, Inv
<1>2. call \in [Requests -> Calls]
  BY <1>1 DEF RequestInv, RequestTypeOK
<1>3. ASSUME NEW q \in Requests
      PROVE  /\ call'[q] \in Calls /\ call'[q].visits = call[q].visits
             /\ call'[q].leased = call[q].leased /\ call'[q].target = call[q].target
             /\ call'[q].pc = IF q = r THEN "after" ELSE call[q].pc
  <2>1. call[q] \in Calls
    BY <1>2
  <2>2. CASE q = r
    BY <2>1, <2>2 DEF NotePressure, Calls, Steps
  <2>3. CASE q # r
    <3>1. call'[q] = [call[q] EXCEPT !.late = call[q].pc \in {"free", "won", "saved"}]
      BY <2>3 DEF NotePressure
    <3>2. (call[q].pc \in {"free", "won", "saved"}) \in BOOLEAN
      OBVIOUS
    <3> QED
      BY <2>1, <2>3, <3>1, <3>2 DEF Calls
  <2> QED
    BY <2>2, <2>3
<1>4. call[r].pc = "failing" /\ call' = [q \in Requests |-> call'[q]]
  BY DEF NotePressure, Is
<1>5. RecoveryTypeOK' /\ \A q \in Requests : ~HeldBy(q)'
  BY <1>1, IdentityAssumption
  DEF NotePressure, RecordPressure, Write, Unleased, HeldBy, RequestInv, RecoveryTypeOK
<1>6. UNCHANGED <<plan, tried, claim, doubt, state>>
  BY DEF NotePressure, ledgerVars
<1>7. RequestTypeOK'
  BY <1>1, <1>3, <1>4, <1>6 DEF RequestInv, RequestTypeOK
<1>8. OneDecision' /\ LanesOK'
  BY <1>1, <1>3, <1>4, <1>6
  DEF RequestInv, OneDecision, LanesOK, Is, Sibling, Requests
<1>9. AskedIsClaimed' /\ DoubtIsClaimed'
  <2>1. \A q \in Requests :
            /\ call'[q].pc \in Asked => call[q].pc \in Asked
            /\ call[q].pc \in Asking => call'[q].pc \in Asking
            /\ call[q].pc \in Over => call'[q].pc \in Over
    BY <1>3, <1>4 DEF Asked, Asking, Over
  <2>2. AskedIsClaimed'
    BY <1>1, <1>6, <2>1
    DEF RequestInv, AskedIsClaimed, Clear, Pending, Sibling, Requests
  <2>3. DoubtIsClaimed'
    <3> SUFFICES ASSUME NEW s \in Requests, s \in doubt
                 PROVE  /\ s \in Work => claim[s] = "open" /\ call'[s].pc \in Asking
                        /\ s \in Scoped => claim[s] # "none" /\ call'[s].pc \in Over
      BY <1>6 DEF DoubtIsClaimed, Requests
    <3> QED
      BY <1>1, <2>1 DEF RequestInv, DoubtIsClaimed
  <2> QED
    BY <2>2, <2>3
<1>10. PaidIsUnleased' /\ ProbesAreFresh' /\ VisitsOK'
  BY <1>1, <1>3, <1>4, <1>5, <1>6
  DEF RequestInv, PaidIsUnleased, Unleases, Paying, ProbesAreFresh, VisitsOK
<1> QED
  BY <1>1, <1>5, <1>7, <1>8, <1>9, <1>10 DEF RequestInv, Inv

\* A free call is answered, fails or is cancelled, and its health is recorded.
LEMMA FreeStep ==
    ASSUME Inv, NEW r \in Requests, Free(r)
    PROVE  Inv'
<1>0. /\ RequestInv /\ LedgerInv
      /\ call[r] \in Calls /\ claim \in [Requests -> Claims]
      /\ tried \in [Requests -> SUBSET {"free", "paid"}]
  BY DEF Inv, RequestInv, RequestTypeOK, Claims
<1> DEFINE p == call[r].at
<1>a. ASSUME NEW kind, UNCHANGED <<alive, ledgerVars>>, HealthWork(r, p, kind),
             tried' \in [Requests -> SUBSET {"free", "paid"}]
      PROVE  Elsewhere(r) /\ LedgerInv'
  <2>1. p \in Procs \cup {NoProc} /\ LedgerWork(r)
    BY <1>0, <1>a DEF Calls, LedgerWork
  <2> QED
    BY <1>0, <1>a, <2>1, Aside
\* Of a request at any of these steps nothing is in doubt.
<1>b. ASSUME call[r].pc \notin Asking
      PROVE  r \notin doubt /\ (r \in Scoped => claim[r] # "none")
  BY <1>0, <1>b DEF RequestInv, DoubtIsClaimed, LanesOK, Is, Asking, Over, Requests
<1>1. CASE FreeSucceeds(r)
  <2>1. Elsewhere(r) /\ LedgerInv' /\ r \notin doubt /\ Is(r, "free")
    BY <1>0, <1>1, <1>a, <1>b DEF FreeSucceeds, HealthWork, Is, Asking
  <2>2. HeldBy(r)' => HeldBy(r)
    BY <1>1 DEF FreeSucceeds, recoveryVars, HeldBy
  <2>3. "won" \in Steps \ {"idle", "claim", "gate"} /\ "won" \notin Paying
    BY DEF Steps, Paying
  <2>4. call[r].pc \in Asked /\ call[r].pc \in Flying /\ ~Is(r, "idle")
    BY <2>1 DEF Is, Asked, Flying
  <2> QED
    BY <1>0, <1>1, <2>1, <2>2, <2>3, <2>4, Went DEF FreeSucceeds, Inv
<1>2. CASE FreeFails(r)
  <2>1. Elsewhere(r) /\ LedgerInv' /\ r \notin doubt /\ (r \in Scoped => claim[r] # "none")
    BY <1>0, <1>2, <1>a, <1>b DEF FreeFails, Attempted, HealthWork, Is, Asking
  <2>2. PICK fault \in Kinds :
            call' = [call EXCEPT ![r] = [call[r] EXCEPT !.pc = "failing", !.fault = fault]]
    BY <1>2 DEF FreeFails
  <2> DEFINE c == [call[r] EXCEPT !.pc = "failing", !.fault = fault]
             d == IF r \in Work THEN "closed" ELSE claim[r]
  <2>3. c \in Calls /\ c.pc = "failing" /\ c.visits = call[r].visits
    BY <1>0, LaneAssumption DEF Calls, Steps, Faults
  <2>4. claim' = [claim EXCEPT ![r] = d] /\ d \in Claims /\ (r \in Scoped => d # "none")
    BY <1>0, <1>2, <2>1, IdentityAssumption DEF FreeFails, Attempted, Claims
  <2> QED
    BY <1>0, <1>2, <2>1, <2>2, <2>3, <2>4, Noted DEF FreeFails, Is, Inv
<1>3. CASE FreeCancelled(r)
  <2>1. Elsewhere(r) /\ LedgerInv' /\ ~Is(r, "idle")
    BY <1>0, <1>3, <1>a DEF FreeCancelled, HealthWork, Is
  <2>2. r \in Work => claim[r] = "open"
    BY <1>0, <1>3 DEF FreeCancelled, Is, RequestInv, AskedIsClaimed, Asked
  <2> QED
    BY <1>0, <1>3, <2>1, <2>2, Quits DEF FreeCancelled, Inv
<1>4. CASE NotePressure(r)
  BY <1>4, PressureNoted
<1>5. CASE NoteNothing(r)
  <2>1. Elsewhere(r) /\ LedgerInv' /\ r \notin doubt /\ ~Is(r, "idle")
    BY <1>0, <1>5, <1>a, <1>b DEF NoteNothing, HealthWork, Is, Asking
  <2>2. /\ "after" \in Steps \ {"idle", "claim", "gate"}
        /\ "after" \notin Asked \cup Flying \cup Paying
    BY DEF Steps, Asked, Flying, Paying
  <2> QED
    BY <1>0, <1>5, <2>1, <2>2, Went DEF NoteNothing, Inv
<1>6. CASE NoteFailure(r)
  <2>1. Elsewhere(r) /\ LedgerInv' /\ r \notin doubt /\ ~Is(r, "idle")
    BY <1>0, <1>6, <1>a, <1>b DEF NoteFailure, HealthWork, Is, Asking
  <2>2. /\ "saving" \in Steps \ {"idle", "claim", "gate"}
        /\ "saving" \notin Asked \cup Flying \cup Paying
    BY DEF Steps, Asked, Flying, Paying
  <2> QED
    BY <1>0, <1>6, <2>1, <2>2, Went DEF NoteFailure, Inv
<1>7. CASE SaveHealth(r)
  <2>1. Elsewhere(r) /\ LedgerInv'
    BY <1>0, <1>7, <1>a DEF SaveHealth, HealthWork
  <2>2. r \notin doubt /\ ~Is(r, "idle") /\ (r \in Scoped => claim[r] # "none")
    BY <1>7, <1>b DEF SaveHealth, Is, Asking
  <2> DEFINE c == [call[r] EXCEPT !.pc = "after",
                       !.fault = IF Transient(r) = "transient" /\ health = "healthy"
                                 THEN "retry" ELSE Transient(r)]
  <2>3. c \in Calls /\ c.pc = "after" /\ c.visits = call[r].visits
    BY <1>0, ZenonT(60) DEF Calls, Steps, Faults, Transient
  <2>4. claim' = [claim EXCEPT ![r] = claim[r]] /\ claim[r] \in Claims
    BY <1>0, <1>7 DEF SaveHealth
  <2>5. call' = [call EXCEPT ![r] = c] /\ UNCHANGED <<plan, doubt>>
    BY <1>7 DEF SaveHealth
  <2> HIDE DEF c
  <2> QED
    BY <1>0, <2>1, <2>2, <2>3, <2>4, <2>5, Noted DEF Inv
<1>8. CASE SaveConflict(r)
  <2>1. Elsewhere(r) /\ LedgerInv'
    BY <1>0, <1>8, <1>a DEF SaveConflict, HealthWork
  <2>2. r \notin doubt /\ ~Is(r, "idle")
    BY <1>8, <1>b DEF SaveConflict, Is, Asking
  <2>3. /\ "resaving" \in Steps \ {"idle", "claim", "gate"}
        /\ "resaving" \notin Asked \cup Flying \cup Paying
    BY DEF Steps, Asked, Flying, Paying
  <2> QED
    BY <1>0, <1>8, <2>1, <2>2, <2>3, Went, Stopped DEF SaveConflict, Inv
<1>9. CASE AfterFree(r)
  <2>1. Elsewhere(r) /\ LedgerInv'
    BY <1>0, <1>9, <1>a DEF AfterFree, HealthWork
  <2>2. call[r].pc \notin Over /\ ~Is(r, "idle")
    BY <1>9 DEF AfterFree, Is, Over
  <2> DEFINE c == [call[r] EXCEPT !.pc = "pick", !.leased = FALSE, !.prev = call[r].fault,
                       !.left = IF r \in Scoped /\ call[r].fault = "retry"
                                THEN @ \cup {"free"} ELSE @]
  <2>3. c \in Calls /\ c.pc = "pick" /\ c.visits = call[r].visits
    BY <1>0 DEF Calls, Steps
  <2>4. UNCHANGED <<plan, claim, doubt>> /\ (call' = [call EXCEPT ![r] = c] \/ End(r))
    BY <1>9 DEF AfterFree
  <2> HIDE DEF c
  <2> QED
    BY <1>0, <2>1, <2>2, <2>3, <2>4, ChoosesAgain, Stopped DEF Inv
<1> QED
  BY <1>1, <1>2, <1>3, <1>4, <1>5, <1>6, <1>7, <1>8, <1>9 DEF Free

-----------------------------------------------------------------------------
(* The paid target, and success *)

\* A paid call is admitted, sent and settled.
LEMMA PaidStep ==
    ASSUME Inv, NEW r \in Requests, Paid(r)
    PROVE  Inv'
<1>0. /\ RequestInv /\ LedgerInv
      /\ call[r] \in Calls /\ claim \in [Requests -> Claims]
      /\ tried \in [Requests -> SUBSET {"free", "paid"}]
  BY DEF Inv, RequestInv, RequestTypeOK, Claims
<1>a. ASSUME UNCHANGED <<alive, recoveryVars>>, LedgerWork(r),
             tried' \in [Requests -> SUBSET {"free", "paid"}]
      PROVE  Elsewhere(r) /\ LedgerInv'
  <2>1. HealthWork(r, call[r].at, "none") /\ call[r].at \in Procs \cup {NoProc}
    BY <1>0, <1>a DEF Calls, HealthWork
  <2> QED
    BY <1>0, <1>a, <2>1, Aside
<1>b. ASSUME call[r].pc \in Paying
      PROVE  /\ call[r].pc \in Asked /\ ~Is(r, "idle") /\ r \notin doubt
             /\ r \in Scoped => claim[r] # "none"
             /\ r \in Work => claim[r] = "open"
  BY <1>0, <1>b DEF RequestInv, AskedIsClaimed, DoubtIsClaimed, LanesOK, Is, Asked, Asking,
                    Over, Paying, Requests
<1>c. /\ {"reserve", "client", "paid"} \subseteq Steps \ {"idle", "claim", "gate"}
      /\ "won" \in Steps \ {"idle", "claim", "gate"}
      /\ {"reserve", "client", "paid"} \cap Flying = {} /\ "won" \notin Paying
  BY DEF Steps, Flying, Paying
<1>1. CASE Admission(r)
  <2>1. Elsewhere(r) /\ LedgerInv'
    BY <1>0, <1>1, <1>a DEF Admission, LedgerWork
  <2>2. call[r].pc \in Paying
    BY <1>1 DEF Admission, Is, Paying
  <2> QED
    BY <1>0, <1>1, <1>b, <1>c, <2>1, <2>2, Went DEF Admission, Inv
<1>2. CASE AdmissionDenied(r)
  <2>1. Elsewhere(r) /\ LedgerInv' /\ ~Is(r, "idle")
    BY <1>0, <1>2, <1>a DEF AdmissionDenied, LedgerWork, Is
  <2> QED
    BY <1>0, <1>2, <2>1, Stopped DEF AdmissionDenied, Inv
<1>3. CASE Reserve(r)
  <2>1. Elsewhere(r) /\ LedgerInv'
    BY <1>0, <1>3, <1>a DEF Reserve, LedgerWork
  <2>2. call[r].pc \in Paying
    BY <1>3 DEF Reserve, Is, Paying
  <2> QED
    BY <1>0, <1>3, <1>b, <1>c, <2>1, <2>2, Went, Stopped DEF Reserve, Inv
<1>4. CASE ClientFails(r)
  <2> DEFINE d == IF r \in Work THEN "closed" ELSE claim[r]
  <2>1. Elsewhere(r) /\ LedgerInv'
    BY <1>0, <1>4, <1>a DEF ClientFails, LedgerWork, Attempted
  <2>2. call[r].pc \in Paying
    BY <1>4 DEF ClientFails, Is, Paying
  <2>3. claim' = [claim EXCEPT ![r] = d] /\ d \in Claims
    BY <1>0, <1>4 DEF ClientFails, Attempted, Claims
  <2> QED
    BY <1>0, <1>4, <1>b, <2>1, <2>2, <2>3, Ended DEF ClientFails, Inv
<1>5. CASE SendPaid(r)
  <2>1. Elsewhere(r) /\ LedgerInv'
    BY <1>0, <1>5, <1>a DEF SendPaid, LedgerWork
  <2>2. call[r].pc \in Paying
    BY <1>5 DEF SendPaid, Is, Paying
  <2> QED
    BY <1>0, <1>5, <1>b, <1>c, <2>1, <2>2, Went, Stopped DEF SendPaid, Inv
<1>6. CASE PaidSucceeds(r)
  <2>1. Elsewhere(r) /\ LedgerInv'
    BY <1>0, <1>6, <1>a DEF PaidSucceeds, LedgerWork
  <2>2. call[r].pc \in Paying
    BY <1>6 DEF PaidSucceeds, Is, Paying
  <2>3. Go(r, "won") /\ UNCHANGED <<plan, claim, doubt>>
    BY <1>6 DEF PaidSucceeds
  <2>4. call[r].pc \in Asked /\ ~Is(r, "idle") /\ r \notin doubt
    BY <1>b, <2>2
  <2>5. "won" \in Steps \ {"idle", "claim", "gate"} /\ "won" \notin Paying
    BY <1>c
  <2>6. RequestInv'
    <3>1. plan' = plan /\ claim' = claim /\ doubt' \subseteq doubt \cup {r} /\ r \notin doubt'
      BY <2>3, <2>4
    <3> QED
      BY <1>0, <2>1, <2>2, <2>3, <2>4, <2>5, <3>1, Went
  <2> QED
    BY <2>1, <2>6 DEF Inv
<1>7. CASE PaidFails(r)
  <2> DEFINE d == IF r \in Work THEN "closed" ELSE claim[r]
  <2>1. Elsewhere(r) /\ LedgerInv'
    BY <1>0, <1>7, <1>a DEF PaidFails, LedgerWork, Attempted
  <2>2. call[r].pc \in Paying
    BY <1>7 DEF PaidFails, Is, Paying
  <2>3. claim' = [claim EXCEPT ![r] = d] /\ d \in Claims
    BY <1>0, <1>7 DEF PaidFails, Attempted, Claims
  <2> QED
    BY <1>0, <1>7, <1>b, <2>1, <2>2, <2>3, Ended DEF PaidFails, Inv
<1>8. CASE PaidCancelled(r)
  <2>1. Elsewhere(r) /\ LedgerInv'
    BY <1>0, <1>8, <1>a DEF PaidCancelled, LedgerWork
  <2>2. call[r].pc \in Paying
    BY <1>8 DEF PaidCancelled, Is, Paying
  <2>3. claim' = [claim EXCEPT ![r] = claim[r]] /\ claim[r] \in Claims
    BY <1>0, <1>8 DEF PaidCancelled
  <2> QED
    BY <1>0, <1>8, <1>b, <2>1, <2>2, <2>3, Ended DEF PaidCancelled, Inv, Requests
<1> QED
  BY <1>1, <1>2, <1>3, <1>4, <1>5, <1>6, <1>7, <1>8 DEF Paid

\* An answer is saved, refused or concluded.
LEMMA AnsweredStep ==
    ASSUME Inv, NEW r \in Requests, Answered(r)
    PROVE  Inv'
<1>0. /\ RequestInv /\ LedgerInv
      /\ call[r] \in Calls /\ claim \in [Requests -> Claims]
      /\ plan[r] \in SUBSET {"free", "paid"}
      /\ tried \in [Requests -> SUBSET {"free", "paid"}]
  BY DEF Inv, RequestInv, RequestTypeOK, Claims
<1> DEFINE p == call[r].at
<1>a. ASSUME UNCHANGED <<alive, ledgerVars, tried>>, HealthWork(r, p, "none")
      PROVE  Elsewhere(r) /\ LedgerInv'
  <2>1. p \in Procs \cup {NoProc} /\ LedgerWork(r)
    BY <1>0, <1>a DEF Calls, LedgerWork
  <2> QED
    BY <1>0, <1>a, <2>1, Aside
<1>b. ASSUME Is(r, "won") \/ Is(r, "saved")
      PROVE  r \notin doubt /\ ~Is(r, "idle") /\ (r \in Scoped => claim[r] # "none")
  BY <1>0, <1>b DEF RequestInv, DoubtIsClaimed, LanesOK, Is, Asking, Over, Requests
<1>1. CASE SaveResult(r)
  <2> DEFINE c == [call[r] EXCEPT !.pc = "saved"]
             d == IF r \in Work THEN "result" ELSE claim[r]
  <2>1. Elsewhere(r) /\ LedgerInv'
    BY <1>1, <1>a DEF SaveResult, HealthWork
  <2>2. /\ c \in Calls /\ c.pc = "saved" /\ c.visits = call[r].visits
        /\ c.leased = call[r].leased /\ c.late = call[r].late
    BY <1>0 DEF Calls, Steps
  <2>3. Moves(r, c, d, plan[r]) /\ d \in Claims
    BY <1>0, <1>1
    DEF SaveResult, Go, Moves, Claims, RequestInv, RequestTypeOK
  <2>4. /\ r \notin doubt' /\ ~Is(r, "idle") /\ (r \in Scoped => d # "none")
        /\ HeldBy(r)' => HeldBy(r)
        /\ call[r].pc \in Flying
    BY <1>1, <1>b, IdentityAssumption DEF SaveResult, HeldBy, recoveryVars, Is, Flying
  <2>5. Sound(r, c, d, plan[r])
    BY <1>0, <2>2, <2>3, <2>4
    DEF Sound, Is, RequestInv, OneDecision, ProbesAreFresh, VisitsOK, Requests, Sibling,
        Asked, Paying, Unleases
  <2> QED
    BY <1>0, <2>1, <2>3, <2>5, Moved DEF Inv
<1>2. CASE RefuseAnswer(r)
  <2>1. Elsewhere(r) /\ LedgerInv'
    BY <1>2, <1>a DEF RefuseAnswer, HealthWork
  <2> QED
    BY <1>0, <1>2, <1>b, <2>1, Stopped DEF RefuseAnswer, Inv
<1>3. CASE Conclude(r)
  <2> DEFINE d == IF r \in Scoped THEN "completed" ELSE claim[r]
  <2>1. Elsewhere(r) /\ LedgerInv'
    BY <1>3, <1>a DEF Conclude, HealthWork
  <2>2. claim' = [claim EXCEPT ![r] = d] /\ d \in Claims /\ r \notin doubt'
    BY <1>0, <1>3, <1>b DEF Conclude, Claims
  <2> QED
    BY <1>0, <1>3, <1>b, <2>1, <2>2, Ended DEF Conclude, Inv
<1> QED
  BY <1>1, <1>2, <1>3 DEF Answered

-----------------------------------------------------------------------------
(* Steps of no request *)

\* Steps that leave every request alone, and give no lease away.
LEMMA RequestsAlone ==
    ASSUME RequestInv, UNCHANGED requestVars, RecoveryTypeOK',
           \A q \in Requests : (HeldBy(q)' => HeldBy(q)) /\ state'[q] = state[q]
    PROVE  RequestInv'
<1>1. UNCHANGED <<call, plan, tried, claim, doubt>>
  BY DEF requestVars
<1>2. RequestTypeOK' /\ OneDecision' /\ LanesOK' /\ PaidIsUnleased' /\ VisitsOK'
  BY <1>1
  DEF RequestInv, RequestTypeOK, OneDecision, LanesOK, PaidIsUnleased, VisitsOK, Is
<1>3. AskedIsClaimed' /\ DoubtIsClaimed'
  BY <1>1 DEF RequestInv, AskedIsClaimed, DoubtIsClaimed, Clear, Pending, Requests
<1>4. ProbesAreFresh'
  BY <1>1 DEF RequestInv, ProbesAreFresh
<1> QED
  BY <1>2, <1>3, <1>4 DEF RequestInv

\* Live sessions and the owner's decisions touch no structured call.
LEMMA LiveVoiceStep ==
    ASSUME Inv, NEW l \in Lives, NEW p \in Procs, LiveVoice(l, p)
    PROVE  Inv'
<1>1. RequestInv /\ LedgerInv /\ UNCHANGED <<alive, recoveryVars, requestVars>>
  BY DEF LiveVoice, Inv
<1>2. LedgerInv'
  BY <1>1, LiveStep DEF LiveVoice
<1>3. RecoveryTypeOK' /\ \A q \in Requests : HeldBy(q)' => HeldBy(q)
  BY <1>1 DEF RequestInv, RecoveryTypeOK, recoveryVars, HeldBy
<1>4. \A q \in Requests : state'[q] = state[q]
  <2>1. /\ state \in [Rows -> {"none", "reserved", "dispatched", "uncertain",
                               "acknowledged", "settled", "cancelled"}]
        /\ l \notin Requests /\ Orphans \cap Requests = {} /\ Requests \subseteq Rows
    BY <1>1, LedgerAssumption DEF LedgerInv, RowsInv, LedgerTypeOK, Orphans, Rows
  <2>2. CASE Session(l, p)
    BY <2>1, <2>2
    DEF Session, ReserveLive, CheckpointSetup, CheckpointInitial, CheckpointTool, NewRound,
        Observe, ObserveBad, Finish, MarkUnknown, CancelUnsent
  <2>3. CASE Administration(l, p)
    BY <2>1, <2>3 DEF Administration, Reconcile, Acknowledge, Qualify, Audit
  <2>4. CASE Recover
    BY <2>1, <2>4 DEF Recover, MarkUnknown
  <2> QED
    BY <2>2, <2>3, <2>4 DEF LiveVoice
<1> QED
  BY <1>1, <1>2, <1>3, <1>4, RequestsAlone DEF Inv

\* Deadlines pass.
LEMMA ClockStep ==
    ASSUME Inv, Clock
    PROVE  Inv'
<1>1. RequestInv /\ LedgerInv'
  BY LedgerUntouched DEF Clock, Inv
<1>2. RecoveryTypeOK' /\ \A q \in Requests : HeldBy(q)' => HeldBy(q)
  BY <1>1 DEF Clock, Time, CooldownEnds, LeaseExpires, RequestInv, RecoveryTypeOK, HeldBy
<1>3. \A q \in Requests : state'[q] = state[q]
  BY DEF Clock, ledgerVars
<1> QED
  BY <1>1, <1>2, <1>3, RequestsAlone DEF Clock, Inv

\* A process dies: its calls are over, and what it had claimed is in doubt.
LEMMA CrashStep ==
    ASSUME Inv, NEW p \in Procs, Crash(p)
    PROVE  Inv'
<1>1. RequestInv /\ LedgerInv'
  BY LedgerUntouched DEF Crash, Inv
<1>2. UNCHANGED <<plan, tried, claim, state, health, cooling, fresh, lease>>
  BY DEF Crash, ledgerVars, recoveryVars
<1>3. call \in [Requests -> Calls] /\ Idle \in Calls
  <2>1. Idle \in Calls
    BY DEF Idle, Calls, Steps, Faults
  <2> QED
    BY <1>1, <2>1 DEF RequestInv, RequestTypeOK
<1>4. /\ call' \in [Requests -> Calls]
      /\ \A r \in Requests : call'[r] = IF call[r].at = p THEN Idle ELSE call[r]
  BY <1>3 DEF Crash
<1>5. RequestTypeOK'
  BY <1>1, <1>2, <1>4 DEF Crash, RequestInv, RequestTypeOK
<1>6. RecoveryTypeOK'
  BY <1>1, <1>2 DEF Crash, Die, RequestInv, RecoveryTypeOK
<1>7. OneDecision' /\ LanesOK' /\ PaidIsUnleased' /\ ProbesAreFresh'
  BY <1>1, <1>2, <1>4
  DEF RequestInv, OneDecision, LanesOK, PaidIsUnleased, Unleases, ProbesAreFresh, HeldBy,
      Is, Idle, Requests, Sibling, Flying, Paying
<1>8. AskedIsClaimed'
  BY <1>1, <1>2, <1>4
  DEF RequestInv, AskedIsClaimed, Clear, Pending, Idle, Requests, Sibling, Asked
<1>9. DoubtIsClaimed'
  BY <1>1, <1>2, <1>4
  DEF Crash, RequestInv, DoubtIsClaimed, Idle, Requests, Asking, Over
<1>10. VisitsOK'
  <2>1. \A r \in Requests : Cardinality(plan[r]) \in 0..2
    BY <1>1, PlanSize DEF RequestInv, RequestTypeOK
  <2> QED
    BY <1>1, <1>2, <1>4, <2>1 DEF RequestInv, VisitsOK, Idle
<1> QED
  BY <1>1, <1>5, <1>6, <1>7, <1>8, <1>9, <1>10 DEF RequestInv, Inv

-----------------------------------------------------------------------------
(* Theorems *)

\* Nothing is asked for, sent or held at first.
LEMMA InitInv ==
    ASSUME Init
    PROVE  Inv
<1>1. LedgerInv
  BY LedgerStarts DEF Init
<1>2. RecoveryTypeOK
  BY DEF Init, AliveInit, RecoveryInit, Unleased, RecoveryTypeOK
<1>3. Idle \in Calls
  BY DEF Idle, Calls, Steps, Faults
<1>4. RequestTypeOK
  BY <1>3 DEF Init, RequestTypeOK
<1>5. OneDecision /\ AskedIsClaimed /\ DoubtIsClaimed
  BY DEF Init, OneDecision, AskedIsClaimed, DoubtIsClaimed, Is, Idle, Requests, Asked
<1>6. LanesOK /\ PaidIsUnleased /\ ProbesAreFresh
  BY DEF Init, LanesOK, PaidIsUnleased, Unleases, ProbesAreFresh, Is, Idle, Flying, Paying
<1>7. VisitsOK
  <2>1. Cardinality({}) = 0
    BY FS_EmptySet
  <2> QED
    BY <2>1 DEF Init, VisitsOK, Idle
<1> QED
  BY <1>1, <1>2, <1>4, <1>5, <1>6, <1>7 DEF RequestInv, Inv

\* Every step, of whatever process, preserves the invariant.
LEMMA NextInv ==
    ASSUME Inv, [Next]_vars
    PROVE  Inv'
<1>1. CASE \E r \in Requests : Ask(r) \/ Free(r) \/ Paid(r) \/ Answered(r)
  BY <1>1, AskStep, FreeStep, PaidStep, AnsweredStep
<1>2. CASE \E p \in Procs : Crash(p) \/ \E l \in Lives : LiveVoice(l, p)
  BY <1>2, CrashStep, LiveVoiceStep
<1>3. CASE Clock
  BY <1>3, ClockStep
<1>4. CASE UNCHANGED vars
  <2>1. RequestInv /\ LedgerInv'
    BY <1>4, LedgerUntouched DEF vars, Inv
  <2>2. RecoveryTypeOK' /\ \A q \in Requests : HeldBy(q)' => HeldBy(q)
    BY <1>4, <2>1 DEF vars, recoveryVars, RequestInv, RecoveryTypeOK, HeldBy
  <2>3. \A q \in Requests : state'[q] = state[q]
    BY <1>4 DEF vars, ledgerVars
  <2> QED
    BY <1>4, <2>1, <2>2, <2>3, RequestsAlone DEF vars, Inv
<1> QED
  BY <1>1, <1>2, <1>3, <1>4 DEF Next

\* Every reachable state satisfies the inductive invariant.
LEMMA Invariance == Spec => []Inv
<1>1. Init => Inv
  BY InitInv
<1>2. Inv /\ [Next]_vars => Inv'
  BY NextInv
<1> QED
  BY <1>1, <1>2, PTL DEF Spec

\* TypeOK: the variables have their types in every reachable state.
THEOREM TypeCorrectness == Spec => []TypeOK
<1>1. Inv => TypeOK
  BY DEF Inv, LedgerInv, RowsInv, RequestInv, TypeOK
<1> QED
  BY <1>1, Invariance, PTL

\* UnknownBlocks: while the usage of any call is unknown or a decision of the owner
\* is not audited, the budget admits nothing, over every order of settlements,
\* reports, recoveries and decisions.
THEOREM UnknownUsageBlocks == Spec => []UnknownBlocks
<1>1. Inv => UnknownBlocks
  BY DEF Inv, LedgerInv, RowsInv
<1> QED
  BY <1>1, Invariance, PTL

\* SentIsHeld: what may have been sent holds its bound until it is settled, at what
\* the provider charged.
THEOREM NothingSentIsRefunded == Spec => []SentIsHeld
<1>1. Inv => SentIsHeld
  BY DEF Inv, LedgerInv, RowsInv
<1> QED
  BY <1>1, Invariance, PTL

\* LedgerBalances: the budget has spent what its reservations account for, over
\* every order of settlements, reports and reconciliations, however many they are.
THEOREM LedgersBalance == Spec => []LedgerBalances
<1>1. Inv => LedgerBalances
  BY DEF Inv, LedgerInv, SumsInv
<1> QED
  BY <1>1, Invariance, PTL

\* WithinCeiling: until a provider reports more than its bound, what is spent and
\* what is held stay within the ceiling of the budget, whoever reserves next to
\* whom and whatever crashes.
THEOREM SpendingStaysWithinTheCeiling == Spec => []WithinCeiling
<1>1. Inv => WithinCeiling
  BY DEF Inv, LedgerInv, SumsInv
<1> QED
  BY <1>1, Invariance, PTL

\* A request is sent by four of its own handlers only.
LEMMA SendersAre ==
    ASSUME Inv, Next, NEW r \in Requests, Sends(r)
    PROVE  ClaimWork(r) \/ Validate(r) \/ StartProbe(r) \/ SendPaid(r)
<1>1. /\ call \in [Requests -> Calls]
      /\ call[r].pc \notin {"free", "paid"} /\ call'[r].pc \in {"free", "paid"}
  BY DEF Inv, RequestInv, RequestTypeOK, Sends
<1> USE DEF Is, Go, End, Quit, Idle
\* A handler of another request leaves the step of this one alone.
<1>2. ASSUME NEW s \in Requests, s # r, Ask(s) \/ Free(s) \/ Paid(s)
      PROVE  FALSE
  <2>1. ASSUME NEW c, call' = [call EXCEPT ![s] = c]
        PROVE  FALSE
    BY <1>1, <1>2, <2>1, SMTT(60)
  <2>2. CASE Ask(s)
    BY <2>1, <2>2
    DEF Ask, Begin, PickFree, SkipFree, PickPaid, PickNothing, Visit, ClaimWork, Validate,
        StartProbe, LoseProbe, QuitLease, Proceed, SendFree
  <2>3. CASE NotePressure(s)
    BY <1>1, <1>2, <2>3 DEF NotePressure, Calls
  <2>4. CASE Free(s) /\ ~NotePressure(s)
    BY <2>1, <2>4
    DEF Free, FreeSucceeds, FreeFails, FreeCancelled, NoteNothing, NoteFailure, SaveHealth,
        SaveConflict, AfterFree
  <2>5. CASE Paid(s)
    BY <2>1, <2>5
    DEF Paid, Admission, AdmissionDenied, Reserve, ClientFails, SendPaid, PaidSucceeds,
        PaidFails, PaidCancelled
  <2> QED
    BY <1>2, <2>2, <2>3, <2>4, <2>5
<1>3. CASE Ask(r)
  <2>1. CASE \E p \in Procs : Begin(r, p)
    BY <1>1, <2>1 DEF Begin
  <2>2. CASE PickFree(r) \/ PickPaid(r)
    <3>1. PICK target, leased : Visit(r, target, leased)
      BY <2>2 DEF PickFree, PickPaid
    <3> QED
      BY <1>1, <3>1 DEF Visit, Calls
  <2>3. CASE SkipFree(r)
    BY <1>1, <2>3 DEF SkipFree, WantsFree, Calls
  <2>4. CASE PickNothing(r) \/ QuitLease(r)
    BY <1>1, <2>4 DEF PickNothing, QuitLease
  <2>5. CASE LoseProbe(r)
    BY <1>1, <2>5 DEF LoseProbe, Calls
  <2> QED
    BY <1>3, <2>1, <2>2, <2>3, <2>4, <2>5 DEF Ask
<1>4. CASE Free(r)
  <2>1. CASE FreeSucceeds(r) \/ FreeFails(r) \/ FreeCancelled(r)
    BY <1>1, <2>1 DEF FreeSucceeds, FreeFails, FreeCancelled, Calls
  <2>2. CASE NotePressure(r)
    <3>1. call'[r] = [call[r] EXCEPT !.pc = "after"] /\ call[r] \in Calls
      BY <1>1, <2>2 DEF NotePressure
    <3> QED
      BY <1>1, <3>1 DEF Calls
  <2>3. CASE NoteNothing(r) \/ NoteFailure(r)
    BY <1>1, <2>3 DEF NoteNothing, NoteFailure, Calls
  <2>4. CASE SaveHealth(r)
    <3>1. PICK fault : call'[r] = [call[r] EXCEPT !.pc = "after", !.fault = fault]
      BY <1>1, <2>4 DEF SaveHealth
    <3> QED
      BY <1>1, <3>1 DEF Calls
  <2>5. CASE SaveConflict(r)
    <3> DEFINE c == [call[r] EXCEPT !.pc = "resaving"]
    <3>1. /\ call[r] \in Calls
          /\ call' = [call EXCEPT ![r] = c] \/ call' = [call EXCEPT ![r] = Idle]
      BY <1>1, <2>5 DEF SaveConflict
    <3>2. c.pc = "resaving"
      BY <3>1 DEF Calls
    <3> HIDE DEF c
    <3> QED
      BY <1>1, <3>1, <3>2
  <2>6. CASE AfterFree(r)
    <3> DEFINE c == [call[r] EXCEPT !.pc = "pick", !.leased = FALSE, !.prev = call[r].fault,
                         !.left = IF r \in Scoped /\ call[r].fault = "retry"
                                  THEN @ \cup {"free"} ELSE @]
    <3>1. /\ call[r] \in Calls
          /\ call' = [call EXCEPT ![r] = c] \/ call' = [call EXCEPT ![r] = Idle]
      BY <1>1, <2>6 DEF AfterFree
    <3>2. c.pc = "pick"
      BY <3>1 DEF Calls
    <3> HIDE DEF c
    <3> QED
      BY <1>1, <3>1, <3>2
  <2> QED
    BY <1>4, <2>1, <2>2, <2>3, <2>4, <2>5, <2>6 DEF Free
<1>5. CASE Paid(r)
  <2>1. CASE Admission(r) \/ AdmissionDenied(r) \/ Reserve(r) \/ ClientFails(r)
    BY <1>1, <2>1 DEF Admission, AdmissionDenied, Reserve, ClientFails, Calls
  <2>2. CASE PaidSucceeds(r) \/ PaidFails(r) \/ PaidCancelled(r)
    BY <1>1, <2>2 DEF PaidSucceeds, PaidFails, PaidCancelled, Calls
  <2> QED
    BY <1>5, <2>1, <2>2 DEF Paid
<1>6. ASSUME NEW s \in Requests, Answered(s)
      PROVE  FALSE
  BY <1>1, <1>6 DEF Answered, SaveResult, RefuseAnswer, Conclude, Calls
<1>7. ASSUME NEW p \in Procs, Crash(p) \/ \E l \in Lives : LiveVoice(l, p)
      PROVE  FALSE
  BY <1>1, <1>7 DEF Crash, LiveVoice, requestVars
<1>8. CASE Clock
  BY <1>1, <1>8 DEF Clock, requestVars
<1> QED
  BY <1>2, <1>3, <1>4, <1>5, <1>6, <1>7, <1>8 DEF Next

\* NoRepurchase: inference is not bought again while its outcome is unknown. A send
\* is made under an open claim (AskedIsClaimed), and a request in doubt is never on
\* its way (DoubtIsClaimed).
THEOREM InferenceIsNotBoughtAgain == Spec => NoRepurchase
<1> DEFINE P == \A r \in Requests : Sends(r) =>
                    r \notin doubt
                    /\ \A q \in Work : Sibling(q, r) /\ q # r => ~Unsure(q)
<1>1. ASSUME Inv, Next, NEW r \in Requests, Sends(r)
      PROVE  r \notin doubt /\ (r \in Work => Clear(r))
  <2>1. RequestInv
    BY <1>1 DEF Inv
  <2>2. CASE ClaimWork(r)
    <3>1. Claimable(r)
      BY <1>1, <2>1, <2>2
      DEF ClaimWork, Quit, Go, End, Idle, Sends, RequestInv, RequestTypeOK, Calls
    <3> QED
      BY <2>1, <2>2, <3>1
      DEF ClaimWork, Is, Claimable, Unresolved, Clear, Sibling, RequestInv, LanesOK,
          DoubtIsClaimed, Over, Requests
  <2>3. CASE Validate(r)
    <3>1. r \in Scoped /\ r \notin Work
      BY <2>1, <2>3, IdentityAssumption DEF Validate, RequestInv, LanesOK
    <3> QED
      BY <2>1, <2>3, <3>1 DEF Validate, Is, RequestInv, DoubtIsClaimed, Over
  <2>4. CASE StartProbe(r) \/ SendPaid(r)
    BY <2>1, <2>4
    DEF StartProbe, SendPaid, Is, RequestInv, AskedIsClaimed, DoubtIsClaimed, Requests,
        Asked, Asking, Over
  <2> QED
    BY <1>1, <2>2, <2>3, <2>4, SendersAre
<1>2. ASSUME Inv, Next
      PROVE  P
  <2>1. ASSUME NEW r \in Requests, Sends(r)
        PROVE  /\ r \notin doubt
               /\ \A q \in Work : Sibling(q, r) /\ q # r => ~Unsure(q)
    <3>1. r \notin doubt /\ (r \in Work => Clear(r))
      BY <1>1, <1>2, <2>1
    <3>2. \A q \in Work : q \in doubt => claim[q] = "open"
      BY <1>2 DEF Inv, RequestInv, DoubtIsClaimed
    <3> QED
      BY <3>1, <3>2 DEF Clear, Unsure, Pending, Sibling
  <2> QED
    BY <2>1
<1>3. Inv /\ [Next]_vars => [P]_vars
  BY <1>2
<1> QED
  BY <1>3, Invariance, PTL DEF Spec, NoRepurchase

\* PressureEndsByCalls: the free target is healthy again after quota pressure only by
\* a leased call that left after the last pressure (ProbesAreFresh). It is in another
\* state only by a failure that was read against that pressure. Time, a lease that is
\* given back or lost, and what is older than the pressure leave it as it is.
THEOREM PressureOutlastsTime == Spec => PressureEndsByCalls
<1> DEFINE Lifts(r) == IF health' = "healthy"
                       THEN Is(r, "saved") /\ call[r].leased /\ ~call[r].late
                       ELSE r \in fresh /\ call[r].pc \in {"saving", "resaving"}
           P == health = "pressure" /\ health' # "pressure" => \E r \in Requests : Lifts(r)
<1>1. ASSUME Inv, Next, health = "pressure", health' # "pressure"
      PROVE  \E r \in Requests : Lifts(r)
  <2>1. ASSUME NEW r \in Requests, Ask(r)
        PROVE  FALSE
    BY <1>1, <2>1
    DEF Ask, Begin, Decide, ResetExpired, ResetsByTime, PickFree, ClaimLease, SkipFree,
        PickPaid, PickNothing, ClaimWork, Validate, StartProbe, StartLease, LoseProbe,
        QuitLease, ReleaseLease, recoveryVars
  <2>2. ASSUME NEW r \in Requests, Free(r)
        PROVE  Lifts(r)
    <3>1. CASE SaveHealth(r)
      <4>1. health' # "healthy"
        BY <3>1 DEF SaveHealth, SaveFailure, AfterFailure, Write
      <4> QED
        BY <3>1, <4>1 DEF SaveHealth
    <3>2. CASE NotePressure(r)
      BY <1>1, <3>2 DEF NotePressure, RecordPressure, Write
    <3>3. CASE FreeSucceeds(r) \/ FreeFails(r) \/ FreeCancelled(r) \/ NoteNothing(r)
                 \/ NoteFailure(r) \/ SaveConflict(r) \/ AfterFree(r)
      BY <1>1, <3>3
      DEF FreeSucceeds, FreeFails, FreeCancelled, NoteNothing, NoteFailure, ReadHealth,
          SaveConflict, AfterFree, ReleaseLease, recoveryVars
    <3> QED
      BY <2>2, <3>1, <3>2, <3>3 DEF Free
  <2>3. ASSUME NEW r \in Requests, Paid(r)
        PROVE  FALSE
    BY <1>1, <2>3
    DEF Paid, Admission, AdmissionDenied, Reserve, ClientFails, SendPaid, PaidSucceeds,
        PaidFails, PaidCancelled, recoveryVars
  <2>4. ASSUME NEW r \in Requests, Answered(r)
        PROVE  Lifts(r)
    <3>1. Is(r, "saved") /\ call[r].leased /\ HeldBy(r) /\ health' = "healthy"
      BY <1>1, <2>4
      DEF Answered, SaveResult, RefuseAnswer, Conclude, CompleteLease, CompletesFor, Write,
          recoveryVars
    <3> QED
      BY <1>1, <3>1 DEF Inv, RequestInv, ProbesAreFresh, Is, Flying
  <2>5. ASSUME NEW p \in Procs, Crash(p) \/ \E l \in Lives : LiveVoice(l, p)
        PROVE  FALSE
    BY <1>1, <2>5 DEF Crash, LiveVoice, recoveryVars
  <2>6. CASE Clock
    BY <1>1, <2>6 DEF Clock, Time, CooldownEnds, LeaseExpires
  <2> HIDE DEF Lifts
  <2> QED
    BY <1>1, <2>1, <2>2, <2>3, <2>4, <2>5, <2>6 DEF Next
<1>2. Inv /\ [Next]_vars => [P]_vars
  BY <1>1
<1> QED
  BY <1>2, Invariance, PTL DEF Spec, PressureEndsByCalls
=============================================================================
