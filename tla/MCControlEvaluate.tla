------------------------- MODULE MCControlEvaluate -------------------------
(***************************************************************************)
(* ControlEvaluate with constants small enough for TLC.                    *)
(***************************************************************************)
EXTENDS ControlEvaluate, TLC

CONSTANTS worker, spawned, t1, segment

\* A restart that may run unattended, and a backoff increase that needs approval.
Restart == [type |-> "restart", target |-> t1, rule |-> "alert"]
Backoff == [type |-> "backoff_increase", target |-> t1, rule |-> "alert"]

Both        == {Restart, Backoff}
JustBackoff == {Backoff}

\* One fault that persists or comes and goes, two that are never seen together, or one that passes.
Failing  == {{Restart}}
Flapping == {{Restart}, {}}
Unsteady == {{Restart}, {Backoff}}
Passing  == {{Backoff}, {}}

AllMeshes == {Failing, Flapping, Unsteady, Passing}
Rows    == Failing :> 5 @@ Flapping :> 3 @@ Unsteady :> 2 @@ Passing :> 3
Seconds == Failing :> 2 @@ Flapping :> 3 @@ Unsteady :> 3 @@ Passing :> 3
Hourly  == Failing :> 1 @@ Flapping :> 2 @@ Unsteady :> 1 @@ Passing :> 1
=============================================================================
