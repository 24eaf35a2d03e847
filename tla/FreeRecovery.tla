----------------------------- MODULE FreeRecovery -----------------------------
(***************************************************************************)
(* The health of the free target and the lease under which one request may    *)
(* try it again after a quota or rate limit (src/jarvis/model_routing/        *)
(* health.py, store.py, router.py). Each action is one transaction.          *)
(*                                                                         *)
(* health is the state of the record with the kind of its last failure:       *)
(* "pressure" is COOLDOWN after a quota or rate limit, "transient" COOLDOWN    *)
(* after any other failure. Deadlines are abstracted to whether they passed.  *)
(***************************************************************************)
EXTENDS RoutingProcess

VARIABLES health,   \* of the free target
          cooling,  \* cooldown_until_epoch is in the future
          fresh,    \* the requests whose read of the record is still its version
          lease     \* the active lease and its owner

recoveryVars == <<health, cooling, fresh, lease>>

\* by: the invocation that claimed it. pinned: the record still has the
\* health_version of the claim. owner: the process that started the leased call.
\* Nothing is read of a lease that is not active.
Unleased == [by |-> NoRequest, live |-> FALSE, pinned |-> FALSE, owner |-> NoProc]

RecoveryInit ==
    /\ health  = "healthy"
    /\ cooling = FALSE
    /\ fresh   = {}
    /\ lease   = Unleased

-----------------------------------------------------------------------------

Cooldown == health \in {"pressure", "transient"}

\* effective_state: eligible for a new request.
Effective == IF Cooldown /\ ~cooling THEN "healthy" ELSE health

Eligible == Effective \in {"healthy", "degraded"}

\* _write_health: every write is a new version.
Write(h, cools, l) ==
    /\ health' = h
    /\ cooling' = cools
    /\ fresh' = {}
    /\ lease' = [l EXCEPT !.pinned = FALSE]

\* Mutant of ResetsByTime: time lifts pressure too.
TimeResetsAll == Cooldown /\ ~cooling

\* _runtime_state: a cooldown that is over is forgotten, unless it is pressure.
ResetsByTime == health = "transient" /\ ~cooling

ResetExpired == IF ResetsByTime THEN Write("healthy", FALSE, lease)
                ELSE UNCHANGED recoveryVars

\* record_pressure: an earlier deadline is kept when it is later.
RecordPressure == Write("pressure", TRUE, Unleased)

ReadHealth(r) ==
    /\ fresh' = fresh \cup {r}
    /\ UNCHANGED <<health, cooling, lease>>

\* apply_provider_failure, by the failure and the record it is applied to.
AfterFailure(kind) ==
    CASE kind = "transient"   -> IF health = "healthy" THEN "degraded" ELSE "transient"
      [] kind = "contract"    -> "transient"
      [] kind = "unavailable" -> "unavailable"
      [] OTHER                -> "degraded"

SaveFailure(kind) ==
    LET next == AfterFailure(kind) IN Write(next, next = "transient", lease)

-----------------------------------------------------------------------------

HeldBy(r) == lease.by = r

\* The owner of a started call may still be at it (_recovery_owner_alive).
OwnerMayLive == lease.owner # NoProc /\ \E v \in Verdicts(lease.owner) : v # "gone"
OwnerIsGone  == lease.owner = NoProc \/ "gone" \in Verdicts(lease.owner)

Claimed(r) == [by |-> r, live |-> TRUE, pinned |-> TRUE, owner |-> NoProc]

\* claim_free_recovery granted.
ClaimLease(r) ==
    /\ health = "pressure" /\ ~cooling
    /\ lease = Unleased \/ (~lease.live /\ OwnerIsGone)
    /\ lease' = Claimed(r)
    /\ UNCHANGED <<health, cooling, fresh>>

\* claim_free_recovery returns None.
LeaseRefused ==
    \/ health # "pressure" \/ cooling
    \/ lease # Unleased /\ (lease.live \/ OwnerMayLive)

Startable(r) == HeldBy(r) /\ lease.live /\ lease.pinned

\* start_free_recovery.
StartLease(r, p) ==
    /\ Startable(r)
    /\ lease' = [lease EXCEPT !.owner = p]
    /\ UNCHANGED <<health, cooling, fresh>>

\* release_free_recovery; another holder's lease is left alone.
ReleaseLease(r) ==
    /\ lease' = IF HeldBy(r) THEN Unleased ELSE lease
    /\ UNCHANGED <<health, cooling, fresh>>

\* complete_free_recovery is true.
CompletesFor(r, p) == HeldBy(r) /\ (lease.live \/ lease.owner = p) /\ lease.pinned

CompleteLease(r, p) ==
    IF CompletesFor(r, p) THEN Write("healthy", FALSE, Unleased)
    ELSE UNCHANGED recoveryVars

-----------------------------------------------------------------------------
(* Time *)

CooldownEnds ==
    /\ cooling
    /\ cooling' = FALSE
    /\ UNCHANGED <<health, fresh, lease>>

LeaseExpires ==
    /\ lease.live
    /\ lease' = [lease EXCEPT !.live = FALSE]
    /\ UNCHANGED <<health, cooling, fresh>>

Time == CooldownEnds \/ LeaseExpires

-----------------------------------------------------------------------------

RecoveryTypeOK ==
    /\ alive \subseteq Procs
    /\ health \in {"healthy", "degraded", "unavailable", "pressure", "transient"}
    /\ cooling \in BOOLEAN
    /\ fresh \subseteq Requests
    /\ lease \in [by : Requests \cup {NoRequest}, live : BOOLEAN, pinned : BOOLEAN,
                  owner : Procs \cup {NoProc}]
=============================================================================
