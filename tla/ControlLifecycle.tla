-------------------------- MODULE ControlLifecycle --------------------------
(***************************************************************************)
(* What MEL promises about one control action, whatever queues, copies,     *)
(* goroutines and crashes there are between its states: the lifecycle of    *)
(* docs/ops/CONTROL_PLANE_TRUST.md as internal/service implements it.       *)
(* A row moves forward only, a gated row waits for a decision, the actuator *)
(* is called while the row is running and never twice.                      *)
(*                                                                         *)
(* ControlPlane implements this specification as long as one approver and   *)
(* one evaluator are active at a time, no CLI process works on the same     *)
(* database, and no statement fails.                                        *)
(***************************************************************************)
EXTENDS Naturals

CONSTANTS
    Ids,       \* control action ids
    GatedIds   \* the ids whose execution mode is approval_required

VARIABLES
    state,  \* the lifecycle_state of every action
    ran     \* how often its actuator was called

vars == <<state, ran>>

Init ==
    /\ state = [i \in Ids |-> "none"]
    /\ ran = [i \in Ids |-> 0]

Move(i, from, to) ==
    /\ state[i] \in from
    /\ \E s \in to : state' = [state EXCEPT ![i] = s]
    /\ UNCHANGED ran

\* A new row: denied or blocked at once, or waiting for what its mode demands.
Submit(i) ==
    IF i \in GatedIds THEN Move(i, {"none"}, {"pending_approval", "completed"})
                      ELSE Move(i, {"none"}, {"pending", "completed"})

\* An operator decides on one action; the expiry sweep may decide on several.
Decide ==
    \E is \in (SUBSET GatedIds) \ {{}} :
        /\ \A i \in is : state[i] = "pending_approval"
        /\ \E s \in {"pending", "completed"} :
              state' = [i \in Ids |-> IF i \in is THEN s ELSE state[i]]
        /\ UNCHANGED ran

Start(i) == Move(i, {"pending"}, {"running"})

\* The actuator, at most once.
Run(i) ==
    /\ state[i] = "running" /\ ran[i] = 0
    /\ ran' = [ran EXCEPT ![i] = 1]
    /\ UNCHANGED state

\* Executed, refused by a hold, dropped by a full queue.
Close(i) == Move(i, {"pending", "running"}, {"completed"})

\* Start-up recovery, without executing the action again.
Recover(i) == Move(i, {"pending", "running"}, {"recovered"})

Next ==
    \/ \E i \in Ids : Submit(i) \/ Start(i) \/ Run(i) \/ Close(i) \/ Recover(i)
    \/ Decide

Spec == Init /\ [][Next]_vars
=============================================================================
