------------------------------ MODULE PaidBudget ------------------------------
(***************************************************************************)
(* The ledger of paid inference (PaidBudgetGovernor,                         *)
(* src/jarvis/model_routing/budget.py and operational_budget.py): one budget  *)
(* with a ceiling, one reservation per paid call. Each action is one          *)
(* BEGIN IMMEDIATE transaction of the store. A request visits the paid target *)
(* once, so it names its structured call ("strict" admission).               *)
(*                                                                         *)
(* A structured call is billed once: bill is what the provider charges for    *)
(* it, which the code learns only from usage that is complete. A live session *)
(* is billed per round and reports as it goes.                               *)
(***************************************************************************)
EXTENDS RoutingProcess, Integers, FiniteSets

CONSTANTS Lives,      \* live voice sessions ("operational_live_v1" admission)
          Cost,       \* reserved_minor: the bound an admission holds
          Ceiling,    \* ceiling_minor of the budget
          SoftStop,   \* soft_stop_minor of the live policy
          MaxBill,    \* bound of the model: what a call is billed
          MaxTools    \* max_tool_continuations of the live policy

Rows == Requests \cup Lives

ASSUME LedgerAssumption ==
    /\ IsFiniteSet(Rows) /\ Requests \cap Lives = {}
    /\ Cost \in [Rows -> Nat]
    /\ Ceiling \in Nat /\ SoftStop \in Nat /\ MaxBill \in Nat /\ MaxTools \in Nat

VARIABLES state,      \* of each reservation, "none" where there is no row
          accounted,  \* accounted_minor
          spent,      \* spent_minor of the budget
          blocked,    \* blocked_reason of the budget
          bill,       \* what the provider charges, -1 while nothing was sent
          live        \* operational_json and journal of each live session

ledgerVars == <<state, accounted, spent, blocked, bill, live>>

\* capture: usage is only captured, for the owner to review its profile.
\* doubtful: unknown_reason is set. qualified: every report can be evidence.
\* admin and operation: the process whose decision has yet to be audited.
NoSession == [owner |-> NoProc, capture |-> FALSE, round |-> "none", setup |-> FALSE, tools |-> 0,
              doubtful |-> FALSE, qualified |-> TRUE, closed |-> "no",
              admin |-> NoProc, operation |-> "none", unaudited |-> {}]

LedgerInit ==
    /\ state     = [i \in Rows |-> "none"]
    /\ accounted = [i \in Rows |-> 0]
    /\ spent     = 0
    /\ blocked   = "none"
    /\ bill      = [i \in Rows |-> -1]
    /\ live      = [l \in Lives |-> NoSession]

-----------------------------------------------------------------------------

Pending(i) == state[i] \notin {"none", "settled", "cancelled"}

Held(i) == IF Pending(i) /\ Cost[i] > accounted[i] THEN Cost[i] - accounted[i] ELSE 0

\* The sum of an amount over all rows: amounts are counted in minor units.
Total(amount) == Cardinality(UNION {{i} \X (1..amount[i]) : i \in Rows})

Exposure == Total([i \in Rows |-> Held(i)])

\* Mutant of Fits: what calls in flight may still cost is not counted.
FitsSpentOnly(i) == spent + Cost[i] <= Ceiling

Fits(i) == spent + Exposure + Cost[i] <= Ceiling

\* _refresh_admin_block, over the rows st and the journals js.
Refreshed(overrun, st, js) ==
    IF overrun THEN "overrun"
    ELSE IF \E l \in Lives : js[l].unaudited # {} THEN "audit"
    ELSE IF \E i \in Rows : st[i] = "uncertain" THEN "unknown"
    ELSE "none"

\* _unknown, for a set of live sessions.
MarkUnknown(ls) ==
    /\ state' = [i \in Rows |-> IF i \in ls THEN "uncertain" ELSE state[i]]
    /\ blocked' = IF ls # {} /\ blocked = "none" THEN "unknown" ELSE blocked

\* Mutant of Account: each report is counted from nothing.
AccountWhole(i, amount) ==
    /\ accounted' = [accounted EXCEPT ![i] = amount]
    /\ spent' = spent + amount

Account(i, amount) ==
    /\ accounted' = [accounted EXCEPT ![i] = amount]
    /\ spent' = spent + amount - accounted[i]

-----------------------------------------------------------------------------
(* Structured calls *)

\* recover: sessions whose owner is not known to live are of unknown outcome.
Orphans == {l \in Lives : /\ state[l] \in {"reserved", "dispatched"}
                          /\ "alive" \notin Verdicts(live[l].owner)}

Recover ==
    /\ MarkUnknown(Orphans)
    /\ live' = [l \in Lives |-> IF l \in Orphans THEN [live[l] EXCEPT !.doubtful = TRUE]
                                ELSE live[l]]
    /\ UNCHANGED <<accounted, spent, bill>>

\* An invocation that has its row gets it back, whatever became of it.
Admits(r) == state[r] # "none" \/ (blocked = "none" /\ Fits(r))

Admit(r) ==
    /\ Admits(r)
    /\ state' = [state EXCEPT ![r] = IF @ = "none" THEN "reserved" ELSE @]
    /\ UNCHANGED <<accounted, spent, blocked, bill, live>>

CancelUnsent(i) ==
    /\ state[i] = "reserved"
    /\ state' = [state EXCEPT ![i] = "cancelled"]
    /\ UNCHANGED <<accounted, spent, blocked, bill, live>>

\* mark_dispatched, and the request that leaves after it.
MarkDispatched(r) ==
    /\ state[r] = "reserved"
    /\ state' = [state EXCEPT ![r] = "dispatched"]
    /\ \E b \in 0..MaxBill : bill' = [bill EXCEPT ![r] = b]
    /\ UNCHANGED <<accounted, spent, blocked, live>>

\* Mutant of Settle: usage that is not complete counts as nothing used.
SettleAsFree(r, complete) ==
    /\ state[r] \in {"dispatched", "uncertain"}
    /\ state' = [state EXCEPT ![r] = "settled"]
    /\ Account(r, IF complete THEN bill[r] ELSE 0)
    /\ blocked' = Refreshed(blocked = "overrun" \/ (complete /\ bill[r] > Cost[r]), state', live)
    /\ UNCHANGED <<bill, live>>

\* Mutant of Settle: the reason of this call replaces what blocked the budget.
SettleAlone(r, complete) ==
    /\ state[r] \in {"dispatched", "uncertain"}
    /\ state' = [state EXCEPT ![r] = IF complete THEN "settled" ELSE "uncertain"]
    /\ Account(r, IF complete THEN bill[r] ELSE accounted[r])
    /\ blocked' = IF complete THEN (IF bill[r] > Cost[r] THEN "overrun" ELSE "none")
                  ELSE "unknown"
    /\ UNCHANGED <<bill, live>>

Settle(r, complete) ==
    /\ state[r] \in {"dispatched", "uncertain"}
    /\ state' = [state EXCEPT ![r] = IF complete THEN "settled" ELSE "uncertain"]
    /\ Account(r, IF complete THEN bill[r] ELSE accounted[r])
    /\ blocked' = Refreshed(blocked = "overrun" \/ (complete /\ bill[r] > Cost[r]), state', live)
    /\ UNCHANGED <<bill, live>>

-----------------------------------------------------------------------------
(* Live sessions *)

ReserveLive(l, p) ==
    /\ state[l] = "none"
    /\ blocked = "none"
    /\ \A k \in Lives : state[k] \notin {"reserved", "dispatched", "uncertain"}
    /\ Fits(l)
    /\ state' = [state EXCEPT ![l] = "reserved"]
    /\ \E profile \in BOOLEAN :
        live' = [live EXCEPT ![l].owner = p, ![l].capture = profile]
    /\ UNCHANGED <<accounted, spent, blocked, bill>>

\* The process p may still send for session l.
MaySend(l, p) ==
    /\ live[l].owner = p
    /\ state[l] \in {"reserved", "dispatched"}
    /\ blocked = "none"
    /\ accounted[l] < SoftStop

\* checkpoint, "setup" and "history": nothing is generated yet.
CheckpointSetup(l, p) ==
    /\ MaySend(l, p)
    /\ live[l].round = "none" /\ ~live[l].setup
    /\ state' = [state EXCEPT ![l] = "dispatched"]
    /\ live' = [live EXCEPT ![l].setup = TRUE]
    /\ bill' = [bill EXCEPT ![l] = IF @ < 0 THEN 0 ELSE @]
    /\ UNCHANGED <<accounted, spent, blocked>>

\* checkpoint, "initial" and "tool": a new round, and what the session will be
\* billed with it.
NewRound(l, tools) ==
    /\ state' = [state EXCEPT ![l] = "dispatched"]
    /\ live' = [live EXCEPT ![l].round = "open", ![l].tools = tools]
    /\ \E b \in 0..MaxBill : b >= bill[l] /\ bill' = [bill EXCEPT ![l] = b]
    /\ UNCHANGED <<accounted, spent, blocked>>

CheckpointInitial(l, p) ==
    /\ MaySend(l, p)
    /\ live[l].round = "none"
    /\ NewRound(l, 0)

\* Mutant of CheckpointTool: continuations are not counted.
ToolUncounted(l, p) ==
    /\ MaySend(l, p)
    /\ ~live[l].capture
    /\ live[l].round = "complete"
    /\ NewRound(l, live[l].tools + 1)

CheckpointTool(l, p) ==
    /\ MaySend(l, p)
    /\ ~live[l].capture
    /\ live[l].round = "complete"
    /\ live[l].tools < MaxTools
    /\ NewRound(l, live[l].tools + 1)

Open(l, p) == live[l].owner = p /\ state[l] \in {"dispatched", "uncertain"}

\* observe: a report for the current round, a lower bound or the final usage.
Observe(l, p) ==
    /\ Open(l, p)
    /\ live[l].round # "none"
    /\ \E amount \in accounted[l]..bill[l], final \in BOOLEAN :
        /\ final => amount = bill[l]
        /\ Account(l, amount)
        /\ blocked' = IF amount > Cost[l] THEN "overrun" ELSE blocked
        /\ live' = [live EXCEPT ![l].round = IF final THEN "complete" ELSE "open"]
    /\ UNCHANGED <<state, bill>>

\* observe: a report that regresses or belongs to no current round.
ObserveBad(l, p) ==
    /\ Open(l, p)
    /\ MarkUnknown({l})
    /\ \E q \in {live[l].qualified, FALSE} :
        live' = [live EXCEPT ![l].doubtful = TRUE, ![l].qualified = q]
    /\ UNCHANGED <<accounted, spent, bill>>

Settles(l, complete, teardown) ==
    /\ complete /\ teardown = "confirmed"
    /\ ~live[l].doubtful
    /\ live[l].round = "complete"
    /\ ~live[l].capture

\* finish: the session is closed once.
Finish(l, p) ==
    /\ Open(l, p)
    /\ live[l].closed = "no"
    /\ \E complete \in BOOLEAN, teardown \in {"confirmed", "unconfirmed"} :
        IF Settles(l, complete, teardown)
        THEN /\ state' = [state EXCEPT ![l] = "settled"]
             /\ live' = [live EXCEPT ![l].closed = teardown]
             /\ UNCHANGED blocked
        ELSE /\ MarkUnknown({l})
             /\ live' = [live EXCEPT ![l].closed = teardown, ![l].doubtful = TRUE]
    /\ UNCHANGED <<accounted, spent, bill>>

-----------------------------------------------------------------------------
(* What the owner decides about sessions of unknown usage. Each decision is   *)
(* committed, then audited in a second transaction.                          *)

Committed(l, p, operation) ==
    [live EXCEPT ![l].unaudited = @ \cup {operation}, ![l].admin = p,
                    ![l].operation = operation]

\* Exact evidence of every round and of the close.
Attributable(l) ==
    /\ state[l] \in {"uncertain", "acknowledged", "settled"}
    /\ live[l].closed = "confirmed" /\ live[l].qualified /\ live[l].round # "none"
    /\ bill[l] > 0

Reconcile(l, p) ==
    /\ Attributable(l)
    /\ Account(l, bill[l])
    /\ state' = [state EXCEPT ![l] = "settled"]
    /\ live' = [Committed(l, p, "reconcile") EXCEPT ![l].doubtful = FALSE]
    /\ blocked' = Refreshed(blocked = "overrun" \/ bill[l] > Cost[l], state', live')
    /\ UNCHANGED bill

\* acknowledge_unknown: a closed capture whose usage stays unknown, and held.
Acknowledge(l, p) ==
    /\ live[l].capture
    /\ state[l] \in {"uncertain", "acknowledged"}
    /\ blocked # "overrun"
    /\ live[l].closed = "confirmed"
    /\ accounted[l] <= Cost[l]
    /\ state' = [state EXCEPT ![l] = "acknowledged"]
    /\ live' = Committed(l, p, "acknowledge")
    /\ blocked' = Refreshed(FALSE, state', live')
    /\ UNCHANGED <<accounted, spent, bill>>

\* qualify_profile: a capture becomes the reason to trust its reporting profile.
Qualify(l, p) ==
    /\ live[l].capture
    /\ Attributable(l)
    /\ live' = Committed(l, p, "qualify")
    /\ blocked' = Refreshed(blocked = "overrun", state, live')
    /\ UNCHANGED <<state, accounted, spent, bill>>

\* complete_admin_audit: every commit of that operation on the same evidence.
Audit(l, p) ==
    /\ live[l].admin = p
    /\ live' = [live EXCEPT ![l].unaudited = @ \ {live[l].operation}, ![l].admin = NoProc]
    /\ blocked' = Refreshed(blocked = "overrun", state, live')
    /\ UNCHANGED <<state, accounted, spent, bill>>

-----------------------------------------------------------------------------

Session(l, p) ==
    \/ ReserveLive(l, p)
    \/ CheckpointSetup(l, p) \/ CheckpointInitial(l, p) \/ CheckpointTool(l, p)
    \/ Observe(l, p) \/ ObserveBad(l, p) \/ Finish(l, p)
    \/ live[l].owner = p /\ CancelUnsent(l)

Administration(l, p) ==
    Reconcile(l, p) \/ Acknowledge(l, p) \/ Qualify(l, p) \/ Audit(l, p)

-----------------------------------------------------------------------------
(* Properties of the ledger *)

Sessions == [owner : Procs \cup {NoProc}, capture : BOOLEAN,
             round : {"none", "open", "complete"}, setup : BOOLEAN, tools : 0..MaxTools,
             doubtful : BOOLEAN, qualified : BOOLEAN,
             closed : {"no", "unconfirmed", "confirmed"}, admin : Procs \cup {NoProc},
             operation : {"none", "reconcile", "acknowledge", "qualify"},
             unaudited : SUBSET {"reconcile", "acknowledge", "qualify"}]

LedgerTypeOK ==
    /\ state \in [Rows -> {"none", "reserved", "dispatched", "uncertain", "acknowledged",
                           "settled", "cancelled"}]
    /\ accounted \in [Rows -> 0..MaxBill]
    /\ spent \in Nat
    /\ blocked \in {"none", "unknown", "audit", "overrun"}
    /\ bill \in [Rows -> -1..MaxBill]
    /\ live \in [Lives -> Sessions]

\* What the budget has spent is what its rows account for, over every order of
\* settlements, reports and reconciliations (budget.py, settle;
\* operational_budget.py, observe and reconcile).
LedgerBalances == spent = Total(accounted)

\* Until a provider reports more than its bound, what is spent and what is held
\* stay within the ceiling, whoever reserves next to whom (budget.py, reserve).
WithinCeiling == blocked # "overrun" => spent + Exposure <= Ceiling

\* While usage is unknown or a decision of the owner is not audited, the budget
\* admits nothing, whatever settled since (operational_budget.py,
\* _refresh_admin_block).
UnknownBlocks ==
    (\/ \E i \in Rows : state[i] = "uncertain" \/ accounted[i] > Cost[i]
     \/ \E l \in Lives : live[l].unaudited # {}) => blocked # "none"

\* What may have been sent is never refunded: its row holds its bound until it is
\* settled, and it is settled at what the provider charged.
SentIsHeld ==
    \A i \in Rows : bill[i] >= 0 =>
        /\ state[i] \in {"dispatched", "uncertain", "acknowledged", "settled"}
        /\ state[i] = "settled" => accounted[i] = bill[i]
=============================================================================
