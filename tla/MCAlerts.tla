------------------------------ MODULE MCAlerts ------------------------------
(***************************************************************************)
(* An instance of Alerts for TLC.                                          *)
(***************************************************************************)
EXTENDS Alerts, TLC

CONSTANTS worker, recheck, retry

Reasons == retry :> "retry_threshold_exceeded"

\* A behaviour in which the transport changes once, evaluations overlap and the
\* process may die; one in which they overlap and a statement fails; and one of the
\* worker alone, in which the transport flaps and a statement fails.
ThreeMixes ==
    {[changes |-> 1, rechecks |-> 1, faults |-> 0, crashes |-> 1],
     [changes |-> 0, rechecks |-> 1, faults |-> 1, crashes |-> 0],
     [changes |-> 2, rechecks |-> 0, faults |-> 1, crashes |-> 0]}
=============================================================================
