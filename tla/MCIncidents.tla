---------------------------- MODULE MCIncidents ----------------------------
(***************************************************************************)
(* Instances of Incidents for TLC.                                         *)
(***************************************************************************)
EXTENDS Incidents

Mix(dials, packets, restarts, requests, faults) ==
    [dials |-> dials, packets |-> packets, restarts |-> restarts, requests |-> requests,
     faults |-> faults]

\* One kind of trouble at a time: a behaviour has one of these mixes.
Mixes == {
    Mix(2, 1, 1, 0, 0),    \* a restart meets the loop and the packets of a lost connection
    Mix(1, 2, 0, 0, 0),    \* more packets than the ingest queue takes
    Mix(3, 0, 1, 0, 0),    \* a restart meets the loop as it connects again
    Mix(5, 0, 0, 0, 0),    \* outages one after the other, and a slow worker
    Mix(2, 0, 0, 2, 1)}    \* operators at work while notices come in, and the database fails once

Work == {Mix(2, 0, 0, 1, 0)}
=============================================================================
