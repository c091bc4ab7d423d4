---------------------------- MODULE MCPartition ----------------------------
(***************************************************************************)
(* Instances of Partition for TLC.                                         *)
(***************************************************************************)
EXTENDS Partition

Policy(limit, restrict, approval) == [limit |-> limit, restrict |-> restrict, approval |-> approval]

TwoPolicies == {Policy(2, TRUE, FALSE), Policy(1, FALSE, TRUE)}
=============================================================================
