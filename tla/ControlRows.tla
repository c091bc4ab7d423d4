---------------------------- MODULE ControlRows ----------------------------
(***************************************************************************)
(* The rows of the control_actions table and the pure decisions MEL takes  *)
(* over them: which state a proposal is stored in, what the guarded UPDATE  *)
(* of an approval or a rejection changes, which rows start-up recovery      *)
(* closes, which result the executor writes.                                *)
(*                                                                         *)
(* Sources: internal/db/control.go (the row and its full-row upsert),      *)
(* internal/db/trust.go (the guarded UPDATEs), internal/control/control.go *)
(* (the vocabulary), internal/service/control.go and trust.go (the rules). *)
(*                                                                         *)
(* Every operator here is state-free.  ControlPlane gives them processes,  *)
(* goroutines and interleavings.  An operator whose name ends in Bug is the *)
(* mutated form of the one that follows it and is used by no specification. *)
(***************************************************************************)
EXTENDS Naturals, Sequences, FiniteSets

CONSTANTS
    Actions,    \* primary control actions, proposed by the evaluator or an operator
    NoAction,   \* not an action: the id of a goroutine that holds none
    Operators,  \* operator identities
    System,     \* the submitter recorded for the evaluator's proposals
    Kind,       \* the action type of each action, reduced to what control tells apart
    Gated,      \* actions that resolveExecutionMode makes approval_required
    Submitter,  \* who submitted each action
    Holds,      \* freezes and maintenance windows
    Freezes,    \* the freezes among them; the other holds are maintenance windows
    Timed,      \* holds that end by the clock (expires_at, ends_at)
    Covers      \* the ids each hold applies to: its scope

Kinds == {"restart", "backoff_increase", "plain", "advisory"}

(***************************************************************************)
(* A row is named by its action and by whether it is the action itself or  *)
(* the follow-up the service derives from it (<id>-health-recheck after a   *)
(* restart, <id>-reset after a backoff increase).                          *)
(***************************************************************************)
Primary(a)  == <<a, "primary">>
FollowUp(i) == <<i[1], "followup">>

Ids  == Actions \X {"primary", "followup"}
NoId == <<NoAction, "primary">>

ASSUME ActionsAssumption == NoAction \notin Actions /\ Gated \subseteq Actions
ASSUME KindAssumption == Kind \in [Actions -> Kinds]
ASSUME SubmitterAssumption ==
    System \notin Operators /\ Submitter \in [Actions -> Operators \cup {System}]
ASSUME HoldsAssumption ==
    /\ Freezes \subseteq Holds
    /\ Timed \subseteq Holds
    /\ Covers \in [Holds -> SUBSET Ids]

IsPrimary(i) == i[2] = "primary"

\* A health recheck and a backoff reset are plain actuators that need no follow-up.
KindOf(i) == IF IsPrimary(i) THEN Kind[i[1]] ELSE "plain"

\* executeControlAction refuses types whose reality row is advisory (advisoryDenied).
AdvisoryDenied(i) == KindOf(i) = "advisory"

\* Follow-ups carry no execution mode, so the upsert stores them as "auto".
IsGated(i) == IsPrimary(i) /\ i[1] \in Gated

-----------------------------------------------------------------------------
Lifecycles == {"none", "pending_approval", "pending", "running", "completed", "recovered"}

Results == {"", "pending_approval", "approved", "rejected", "approval_expired",
            "denied_by_policy", "denied_by_freeze", "denied_by_maintenance",
            "executed_successfully", "failed_transient", "failed_terminal", "expired"}

Closures == {"", "recovered_and_closed", "expired_and_reverted", "superseded",
             "blocked_by_freeze", "blocked_by_maintenance",
             "rejected_by_operator", "approval_expired"}

Nobody == System

Rows == [lifecycle  : Lifecycles,
         result     : Results,
         closure    : Closures,
         approvedBy : Operators \cup {Nobody},
         sodBypass  : BOOLEAN]

\* A row that was never inserted.
NoRow == [lifecycle |-> "none", result |-> "", closure |-> "",
          approvedBy |-> Nobody, sodBypass |-> FALSE]

Terminal == {"completed", "recovered"}
InFlight == {"pending", "running"}

-----------------------------------------------------------------------------
(* New rows. *)

NewPending == [NoRow EXCEPT !.lifecycle = "pending"]

NewPendingApproval ==
    [NoRow EXCEPT !.lifecycle = "pending_approval", !.result = "pending_approval"]

Completed(r, result, closure) ==
    [r EXCEPT !.lifecycle = "completed", !.result = result, !.closure = closure]

\* The control queue had no slot: the new row is closed at once.
DroppedOnFullQueue == Completed(NewPending, "failed_transient", "superseded")

-----------------------------------------------------------------------------
(* The guarded UPDATEs of db/trust.go. *)

DecidableBug(r) == r.lifecycle \in {"pending_approval", "pending"}

\* WHERE lifecycle_state='pending_approval', and the read that precedes the UPDATE.
Decidable(r) == r.lifecycle = "pending_approval"

ApprovedBug(r, actor, bypass) ==
    [r EXCEPT !.lifecycle = "pending", !.result = "approved", !.approvedBy = actor,
              !.sodBypass = FALSE]

\* SET lifecycle_state='pending', result='approved', approved_by, sod_bypass
Approved(r, actor, bypass) ==
    [r EXCEPT !.lifecycle = "pending", !.result = "approved", !.approvedBy = actor,
              !.sodBypass = bypass]

Rejected(r) == Completed(r, "rejected", "rejected_by_operator")
Expired(r)  == Completed(r, "approval_expired", "approval_expired")

\* The submitter may not decide on their own action; the system may be overruled.
SodBlocks(a, actor) == Submitter[a] # System /\ actor = Submitter[a]

-----------------------------------------------------------------------------
(* The executor's gate, its denials and its closing write. *)

\* An approval_required snapshot runs only if it is pending or running.
GateOpen(i, r) == IsGated(i) => r.lifecycle \in InFlight

GateRefusal(r) == Completed(r, "denied_by_policy", "superseded")
AdvisoryRefusal(r) == Completed(r, "denied_by_policy", r.closure)
FreezeRefusal(r) == Completed(r, "denied_by_freeze", "blocked_by_freeze")
MaintenanceRefusal(r) == Completed(r, "denied_by_maintenance", "blocked_by_maintenance")

Running(r) == [r EXCEPT !.lifecycle = "running"]

\* What an actuator can report: done, target transport not found, deadline exceeded.
Outcomes == {"executed_successfully", "failed_terminal", "failed_transient"}

ClosureAfter(i, r, outcome) ==
    CASE outcome = "failed_transient" -> "superseded"
      [] outcome = "executed_successfully" /\ KindOf(i) = "plain" -> "recovered_and_closed"
      [] OTHER -> r.closure

Executed(i, r, outcome) == Completed(r, outcome, ClosureAfter(i, r, outcome))

WantsRecheck(i, r) == KindOf(i) = "restart" /\ r.result = "executed_successfully"

-----------------------------------------------------------------------------
(* Start-up recovery and the evidence-based reset. *)

IncompleteBug(r) == r.lifecycle = "running"

\* The rows IncompleteControlActions selects.
Incomplete(r) == r.lifecycle \in InFlight

RecoveredBug(i, r) == [r EXCEPT !.lifecycle = "pending"]

Recovered(i, r) ==
    IF KindOf(i) = "backoff_increase"
    THEN [r EXCEPT !.lifecycle = "recovered", !.result = "expired",
                   !.closure = "expired_and_reverted"]
    ELSE [r EXCEPT !.lifecycle = "recovered", !.result = "failed_transient",
                   !.closure = "superseded"]

\* A backoff increase that ran and that nothing has closed yet.
Revertible(i, r) ==
    /\ KindOf(i) = "backoff_increase"
    /\ r.result = "executed_successfully"
    /\ r.closure = ""

RevertedBug(r) == r
Reverted(r) == [r EXCEPT !.closure = "expired_and_reverted"]
=============================================================================
