--------------------------- MODULE MCControlPlane ---------------------------
(***************************************************************************)
(* Constants for checking ControlPlane with TLC: two actions of different   *)
(* kinds, two operators, a few holds.                                      *)
(***************************************************************************)
EXTENDS ControlPlane, TLC

CONSTANTS a1, a2, op1, op2, fz, mw

\* a1 interrupts a transport and wants a recheck; a2 raises a backoff and may be reset.
RestartAndBackoff == a1 :> "restart" @@ a2 :> "backoff_increase"

OnlyRestart == a1 :> "restart"

\* a1 is an operator's, a2 the evaluator's.
FirstByOperator == [a \in Actions |-> IF a = a1 THEN op1 ELSE System]

\* Every hold is global; or the window is about a1's transport only.
Global == [h \in Holds |-> Ids]
Scoped == [h \in Holds |-> IF h = mw THEN {Primary(a1)} ELSE Ids]
=============================================================================
