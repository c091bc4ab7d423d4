------------------------ MODULE ControlPlaneProofs ------------------------
(***************************************************************************)
(* Theorems about ControlPlane, for every set of actions, operators,        *)
(* evaluators, HTTP handlers and CLI processes, every queue size and every  *)
(* number of crashes and failed statements.                                *)
(***************************************************************************)
EXTENDS ControlPlane, SequenceTheorems, TLAPS

(***************************************************************************)
(* Types of the row operators.                                             *)
(***************************************************************************)

\* The rows proposals insert are rows.
LEMMA NewRowTypes ==
    /\ NoRow \in Rows /\ NewPending \in Rows /\ NewPendingApproval \in Rows
    /\ DroppedOnFullQueue \in Rows
BY DEF NoRow, NewPending, NewPendingApproval, DroppedOnFullQueue, Completed, Rows,
       Lifecycles, Results, Closures, Nobody

\* What the UPDATEs, refusals and recovery make of a row is a row.
LEMMA RowTypes ==
    ASSUME NEW i \in Ids, NEW r \in Rows
    PROVE  /\ \A res \in Results, c \in Closures : Completed(r, res, c) \in Rows
           /\ \A op \in Operators \cup {Nobody}, b \in BOOLEAN : Approved(r, op, b) \in Rows
           /\ Rejected(r) \in Rows /\ Expired(r) \in Rows
           /\ GateRefusal(r) \in Rows /\ AdvisoryRefusal(r) \in Rows
           /\ FreezeRefusal(r) \in Rows /\ MaintenanceRefusal(r) \in Rows
           /\ Running(r) \in Rows
           /\ Recovered(i, r) \in Rows /\ Reverted(r) \in Rows
<1>1. \A res \in Results, c \in Closures : Completed(r, res, c) \in Rows
  BY DEF Completed, Rows, Lifecycles
<1>2. \A op \in Operators \cup {Nobody}, b \in BOOLEAN : Approved(r, op, b) \in Rows
  BY DEF Approved, Rows, Lifecycles, Results
<1>3. Rejected(r) \in Rows /\ Expired(r) \in Rows
  BY <1>1 DEF Rejected, Expired, Results, Closures
<1>4. /\ GateRefusal(r) \in Rows /\ AdvisoryRefusal(r) \in Rows
      /\ FreezeRefusal(r) \in Rows /\ MaintenanceRefusal(r) \in Rows
  <2>1. r.closure \in Closures
    BY DEF Rows
  <2>2. {"denied_by_policy", "denied_by_freeze", "denied_by_maintenance"} \subseteq Results
    BY DEF Results
  <2>3. {"superseded", "blocked_by_freeze", "blocked_by_maintenance"} \subseteq Closures
    BY DEF Closures
  <2> QED  BY <1>1, <2>1, <2>2, <2>3 DEF GateRefusal, AdvisoryRefusal, FreezeRefusal, MaintenanceRefusal
<1>5. Running(r) \in Rows
  BY DEF Running, Rows, Lifecycles
<1>6. Recovered(i, r) \in Rows
  BY DEF Recovered, Rows, Lifecycles, Results, Closures
<1>7. Reverted(r) \in Rows
  BY DEF Reverted, Rows, Closures
<1> QED
  BY <1>1, <1>2, <1>3, <1>4, <1>5, <1>6, <1>7

\* The closing write of an execution is a row.
LEMMA ExecutedType ==
    ASSUME NEW i \in Ids, NEW r \in Rows, NEW o \in Outcomes
    PROVE  Executed(i, r, o) \in Rows
BY DEF Executed, ClosureAfter, Completed, Outcomes, Rows, Lifecycles, Results, Closures

\* Ids are the primary actions and their follow-ups, and name their action.
LEMMA IdTypes ==
    /\ \A a \in Actions : Primary(a) \in Ids /\ Primary(a)[1] = a /\ IsPrimary(Primary(a))
    /\ \A i \in Ids : FollowUp(i) \in Ids /\ ~IsPrimary(FollowUp(i)) /\ i[1] \in Actions
    /\ \A i \in Ids : IsPrimary(i) => i = Primary(i[1])
BY DEF Primary, FollowUp, Ids, IsPrimary

(***************************************************************************)
(* Types of the steps that many actions share.                             *)
(***************************************************************************)

\* A goroutine that comes to rest is one of the goroutine states.
LEMMA RestType ==
    ASSUME NEW pc \in Resting
    PROVE  At(pc) \in Goroutines
BY NewRowTypes DEF At, Goroutines, Verbs, Pcs, Resting

\* Calls return to the end of a process, to recovery or to idleness.
LEMMA ReturnType == \A t : Return(t) \in {"exit", "recover", "idle"}
BY DEF Return

\* The fields of a goroutine; one that is at work holds the id of a row.
LEMMA BusyType ==
    ASSUME TypeOK, NEW t \in Threads
    PROVE  /\ th[t] \in Goroutines
           /\ th[t].id \in Ids \cup {NoId} /\ th[t].rec \in Rows
           /\ th[t].verb \in Verbs /\ th[t].actor \in Operators \cup {Nobody}
           /\ th[t].ack \in BOOLEAN /\ th[t].pc \in Pcs
           /\ th[t].held \in SUBSET Holds
           /\ th[t].pc \in Pcs \ Resting => th[t].id \in Ids
BY DEF TypeOK, Goroutines

\* What moving on, with its copy or another, makes of a goroutine.
LEMMA MovedOn ==
    ASSUME NEW s \in Goroutines, NEW pc \in Pcs, NEW r \in Rows, s.id \in Ids \/ pc \in Resting
    PROVE  [s EXCEPT !.pc = pc] \in Goroutines /\ [s EXCEPT !.pc = pc, !.rec = r] \in Goroutines
<1>1. [s EXCEPT !.pc = pc] \in Goroutines
  BY DEF Goroutines
<1>2. [s EXCEPT !.pc = pc, !.rec = r] \in Goroutines
  BY DEF Goroutines
<1> QED
  BY <1>1, <1>2

\* Moving on keeps a goroutine well typed.
LEMMA GotoType ==
    ASSUME TypeOK, NEW t \in Threads, NEW pc \in Pcs, th[t].id \in Ids, Goto(t, pc)
    PROVE  th' \in [Threads -> Goroutines]
<1>1. th[t] \in Goroutines
  BY BusyType
<1>2. [th[t] EXCEPT !.pc = pc] \in Goroutines
  BY <1>1, MovedOn, BusyType
<1> QED
  BY <1>2 DEF TypeOK, Goto

\* Leaving a call does.
LEMMA LeaveType ==
    ASSUME TypeOK, NEW t \in Threads, Leave(t)
    PROVE  th' \in [Threads -> Goroutines]
BY RestType, ReturnType DEF TypeOK, Leave, Resting

\* An upsert that may fail keeps the table, the faults and the losses well typed.
LEMMA WriteType ==
    ASSUME TypeOK, NEW i \in Ids, NEW r \in Rows, WriteOrIgnore(i, r)
    PROVE  /\ row' \in [Ids -> Rows]
           /\ faults' \in 0..MaxFaults
           /\ lost' \in SUBSET Ids
<1>1. row' \in [Ids -> Rows]
  BY DEF TypeOK, WriteOrIgnore, Write
<1>2. faults' \in 0..MaxFaults
  BY QueueAssumption DEF TypeOK, WriteOrIgnore, Write, StatementFails
<1>3. lost' \in SUBSET Ids
  BY DEF TypeOK, WriteOrIgnore, Write
<1>4. QED
  BY <1>1, <1>2, <1>3

\* A statement that fails, and with it the call, does.
LEMMA EndsCallType ==
    ASSUME TypeOK, NEW t \in Threads, th[t].id \in Ids, EndsCall(t)
    PROVE  /\ th' \in [Threads -> Goroutines] /\ row' \in [Ids -> Rows]
           /\ faults' \in 0..MaxFaults /\ lost' \in SUBSET Ids
<1>1. Leave(t) /\ StatementFails /\ lost' = lost \cup {th[t].id} /\ row' = row
  BY DEF EndsCall
<1>2. faults' \in 0..MaxFaults
  BY <1>1, QueueAssumption DEF StatementFails, TypeOK
<1> QED
  BY <1>1, <1>2, LeaveType DEF TypeOK

\* So do a look-up that fails and holds that are not seen.
LEMMA LookUpType ==
    ASSUME TypeOK, NEW i \in Ids, LookUpFails(i)
    PROVE  faults' \in 0..MaxFaults /\ missed' \in SUBSET Ids
BY QueueAssumption DEF LookUpFails, StatementFails, TypeOK

LEMMA HoldsType ==
    ASSUME TypeOK, NEW i \in Ids, PassesHolds(i)
    PROVE  faults' \in 0..MaxFaults
<1> DEFINE failed == (IF Frozen(i) THEN 1 ELSE 0) + (IF InMaintenance(i) THEN 1 ELSE 0)
<1>1. failed \in 0..2 /\ faults + failed <= MaxFaults /\ faults' = faults + failed
  BY DEF PassesHolds
<1> HIDE DEF failed
<1> QED
  BY <1>1, QueueAssumption DEF TypeOK

\* A push into a queue with room respects its capacity.
LEMMA EnqueueType ==
    ASSUME TypeOK, NEW t \in Threads, NEW i \in Ids, NEW r \in Rows,
           Room(Home(t)), Enqueue(t, i, r)
    PROVE  /\ queue' \in [Processes -> Seq(Copies)]
           /\ \A p \in Processes : Len(queue'[p]) <= MaxQueue
<1>1. Home(t) \in Processes
  BY DEF Home, Processes
<1>2. Copy(i, r) \in Copies
  BY DEF Copy, Copies
<1>3. queue[Home(t)] \in Seq(Copies) /\ Len(queue[Home(t)]) < MaxQueue
  BY <1>1 DEF TypeOK, Room
<1>4. /\ Append(queue[Home(t)], Copy(i, r)) \in Seq(Copies)
      /\ Len(Append(queue[Home(t)], Copy(i, r))) <= MaxQueue
  BY <1>2, <1>3, QueueAssumption, AppendProperties, LenProperties
<1>5. QED
  BY <1>1, <1>4 DEF TypeOK, Enqueue

\* A goroutine may come to rest from anywhere.
LEMMA RestingGotoType ==
    ASSUME TypeOK, NEW t \in Threads, NEW pc \in Resting, Goto(t, pc)
    PROVE  th' \in [Threads -> Goroutines]
<1>1. pc \in Pcs
  BY DEF Resting, Pcs
<1>2. th[t] \in Goroutines /\ th[t].rec \in Rows
  BY BusyType
<1>3. [th[t] EXCEPT !.pc = pc] \in Goroutines
  BY <1>1, <1>2, MovedOn
<1> QED
  BY <1>3 DEF TypeOK, Goto

\* Moving on with another copy keeps a goroutine well typed.
LEMMA CarryType ==
    ASSUME TypeOK, NEW t \in Threads, NEW pc \in Pcs, NEW r \in Rows, th[t].id \in Ids,
           th' = [th EXCEPT ![t].pc = pc, ![t].rec = r]
    PROVE  th' \in [Threads -> Goroutines]
<1>1. th[t] \in Goroutines
  BY BusyType
<1>2. [th[t] EXCEPT !.pc = pc, !.rec = r] \in Goroutines
  BY <1>1, MovedOn
<1> QED
  BY <1>2 DEF TypeOK

\* What follows a decision keeps goroutines well typed.
LEMMA AfterMergeType ==
    ASSUME TypeOK, NEW t \in Threads, th[t].id \in Ids, AfterMerge(t)
    PROVE  th' \in [Threads -> Goroutines]
BY GotoType, LeaveType DEF AfterMerge, Pcs

\* Queueing a follow-up, or dropping it, preserves the types.
LEMMA PushOrDropType ==
    ASSUME TypeOK, NEW t \in Threads, th[t].id \in Ids, PushOrDrop(t)
    PROVE  TypeOK'
<1>1. th' \in [Threads -> Goroutines]
  BY LeaveType DEF PushOrDrop
<1>2. /\ queue' \in [Processes -> Seq(Copies)]
      /\ \A p \in Processes : Len(queue'[p]) <= MaxQueue
  BY EnqueueType, IdTypes, NewRowTypes DEF PushOrDrop, TypeOK
<1>3. lost' \in SUBSET Ids
  BY IdTypes DEF PushOrDrop, TypeOK
<1>4. QED
  BY <1>1, <1>2, <1>3 DEF PushOrDrop, TypeOK, dbVars, faultVars

(***************************************************************************)
(* Type correctness.  A goroutine at work has an id, and a queue never  *)
(* exceeds its capacity.                                                   *)
(***************************************************************************)

\* The initial state has the types TypeOK names.
LEMMA TypeInit == Init => TypeOK
BY RestType, NewRowTypes, EmptySeq, QueueAssumption
   DEF Init, TypeOK, Resting

\* Every action preserves them.
LEMMA TypeNext == TypeOK /\ [Next]_vars => TypeOK'
<1> SUFFICES ASSUME TypeOK, [Next]_vars PROVE TypeOK'
  OBVIOUS
<1>1. ASSUME NEW t \in Threads, NEW a \in Actions, ProposeDenied(t, a)
      PROVE  TypeOK'
  BY <1>1, LeaveType, IdTypes, NewRowTypes, RowTypes
     DEF ProposeDenied, ClosesAtOnce, Insert, Results, Closures, TypeOK, dbVars, faultVars, history
<1>2. ASSUME NEW t \in Threads, NEW a \in Actions, ProposeBlocked(t, a)
      PROVE  TypeOK'
  BY <1>2, LeaveType, IdTypes, NewRowTypes, RowTypes
     DEF ProposeBlocked, ClosesAtOnce, Insert, Refusal, TypeOK, dbVars, faultVars, history
<1>3. ASSUME NEW t \in Threads, NEW a \in Actions, ProposeGated(t, a)
      PROVE  TypeOK'
  <2>1. faults' \in 0..MaxFaults
    BY <1>3, IdTypes, HoldsType DEF ProposeGated, TypeOK
  <2> QED
    BY <1>3, <2>1, LeaveType, IdTypes, NewRowTypes
       DEF ProposeGated, ClosesAtOnce, Insert, TypeOK, history
<1>4. ASSUME NEW t \in Threads, NEW a \in Actions, ProposeAuto(t, a)
      PROVE  TypeOK'
  <2>1. faults' \in 0..MaxFaults
    BY <1>4, IdTypes, HoldsType DEF ProposeAuto
  <2> QED
    BY <1>4, <2>1, IdTypes, NewRowTypes
       DEF ProposeAuto, Insert, At, Goroutines, Pcs, Verbs, TypeOK, history
<1>5. ASSUME NEW t \in Threads, PushNew(t)
      PROVE  TypeOK'
  BY <1>5, BusyType, GotoType, LeaveType, EnqueueType
     DEF PushNew, Pcs, Resting, TypeOK, dbVars, faultVars, history
<1>6. ASSUME NEW t \in Threads, DropNew(t)
      PROVE  TypeOK'
  BY <1>6, BusyType, LeaveType, WriteType, NewRowTypes
     DEF DropNew, Pcs, Resting, TypeOK, dbVars, faultVars, history
<1>7. ASSUME NEW t \in Threads, NEW a \in Actions, ResetBegin(t, a)
      PROVE  TypeOK'
  <2>1. faults' \in 0..MaxFaults /\ missed' \in SUBSET Ids
    BY <1>7, IdTypes, LookUpType DEF ResetBegin, TypeOK
  <2>2. th' \in [Threads -> Goroutines]
    BY <1>7, IdTypes DEF ResetBegin, At, Goroutines, Pcs, Verbs, TypeOK
  <2> QED
    BY <1>7, <2>1, <2>2 DEF ResetBegin, TypeOK, dbVars
<1>8. ASSUME NEW t \in Threads, ResetRow(t)
      PROVE  TypeOK'
  BY <1>8, BusyType, GotoType, WriteType, RowTypes
     DEF ResetRow, Pcs, Resting, TypeOK, dbVars, faultVars, history
<1>9. ASSUME NEW t \in Threads, ResetInsert(t)
      PROVE  TypeOK'
  BY <1>9, BusyType, GotoType, WriteType, IdTypes, NewRowTypes
     DEF ResetInsert, Pcs, Resting, TypeOK, dbVars, faultVars, history
<1>10. ASSUME NEW t \in Threads, ResetPush(t)
      PROVE  TypeOK'
  BY <1>10, BusyType, PushOrDropType DEF ResetPush, Pcs, Resting
<1>11. ASSUME NEW t \in Threads, NEW a \in Actions, NEW v \in Verbs,
             NEW op \in Operators, NEW k \in BOOLEAN, Load(t, a, v, op, k)
      PROVE  TypeOK'
  <2>1. th' \in [Threads -> Goroutines]
    BY <1>11, IdTypes, NewRowTypes DEF Load, At, Goroutines, Pcs, TypeOK
  <2> QED
    BY <1>11, <2>1 DEF Load, TypeOK, dbVars, faultVars, history
<1>12. ASSUME NEW t \in Threads, Recheck(t)
      PROVE  TypeOK'
  <2>1. th' \in [Threads -> Goroutines]
    BY <1>12, BusyType, GotoType, LeaveType DEF Recheck, Pcs, Resting
  <2>2. faults' \in 0..MaxFaults
    BY <1>12, QueueAssumption DEF Recheck, StatementFails, TypeOK
  <2> QED
    BY <1>12, <2>1, <2>2 DEF Recheck, TypeOK, dbVars, history
<1>13. ASSUME NEW t \in Threads, Update(t)
      PROVE  TypeOK'
  <2>1. th[t].id \in Ids /\ th[t].actor \in Operators \cup {Nobody}
    BY <1>13, BusyType DEF Update, Pcs, Resting
  <2>2. th' \in [Threads -> Goroutines]
    BY <1>13, <2>1, GotoType, LeaveType DEF Update, Pcs
  <2>3. Bypass(t) \in BOOLEAN
    BY DEF Bypass
  <2>4. /\ Approved(row[th[t].id], th[t].actor, Bypass(t)) \in Rows
           /\ Rejected(row[th[t].id]) \in Rows
    BY <2>1, <2>3, RowTypes DEF TypeOK
  <2>5. row' \in [Ids -> Rows]
    BY <1>13, <2>1, <2>4 DEF Update, DecideRow, TypeOK
  <2>6. decision' \in [Actions -> {"none", "approved", "rejected", "expired"}]
    BY <1>13, <2>1, IdTypes DEF Update, DecideRow, TypeOK
  <2>7. faults' \in 0..MaxFaults
    BY <1>13, QueueAssumption DEF Update, StatementFails, TypeOK
  <2> QED
    BY <1>13, <2>1, <2>2, <2>3, <2>4, <2>5, <2>6, <2>7
       DEF Update, TypeOK, dbVars, faultVars, history
<1>14. ASSUME NEW t \in Threads, Verify(t)
      PROVE  TypeOK'
  <2>1. th[t].id \in Ids
    BY <1>14, BusyType DEF Verify, Pcs, Resting
  <2>2. th' \in [Threads -> Goroutines]
    BY <1>14, <2>1, GotoType, LeaveType, AfterMergeType, EndsCallType DEF Verify, Pcs
  <2>3. row' \in [Ids -> Rows] /\ faults' \in 0..MaxFaults /\ lost' \in SUBSET Ids
    BY <1>14, <2>1, EndsCallType DEF Verify, TypeOK
  <2> QED
    BY <1>14, <2>2, <2>3 DEF Verify, TypeOK
<1>15. ASSUME NEW t \in Threads, MergeRead(t)
      PROVE  TypeOK'
  <2>1. th[t].id \in Ids
    BY <1>15, BusyType DEF MergeRead, Pcs, Resting
  <2>2. th' \in [Threads -> Goroutines]
    BY <1>15, <2>1, CarryType, EndsCallType DEF MergeRead, TypeOK, Pcs
  <2>3. row' \in [Ids -> Rows] /\ faults' \in 0..MaxFaults /\ lost' \in SUBSET Ids
    BY <1>15, <2>1, EndsCallType DEF MergeRead, TypeOK
  <2> QED
    BY <1>15, <2>2, <2>3 DEF MergeRead, TypeOK
<1>16. ASSUME NEW t \in Threads, MergeWrite(t)
      PROVE  TypeOK'
  <2>1. th[t].id \in Ids /\ th[t].rec \in Rows
    BY <1>16, BusyType DEF MergeWrite, Pcs, Resting
  <2>2. th' \in [Threads -> Goroutines]
    BY <1>16, <2>1, EndsCallType, AfterMergeType DEF MergeWrite
  <2>3. WriteOrIgnore(th[t].id, th[t].rec)
    BY <1>16 DEF MergeWrite, WriteOrIgnore, EndsCall
  <2>4. row' \in [Ids -> Rows] /\ faults' \in 0..MaxFaults /\ lost' \in SUBSET Ids
    BY <2>1, <2>3, WriteType
  <2> QED
    BY <1>16, <2>1, <2>2, <2>3, <2>4 DEF MergeWrite, TypeOK, dbVars, faultVars, history
<1>17. ASSUME NEW t \in Threads, Reload(t)
      PROVE  TypeOK'
  <2>1. th[t].id \in Ids
    BY <1>17, BusyType DEF Reload, Pcs, Resting
  <2>2. th' \in [Threads -> Goroutines]
    BY <1>17, <2>1, CarryType, EndsCallType DEF Reload, TypeOK, Pcs
  <2>3. row' \in [Ids -> Rows] /\ faults' \in 0..MaxFaults /\ lost' \in SUBSET Ids
    BY <1>17, <2>1, EndsCallType DEF Reload, TypeOK
  <2> QED
    BY <1>17, <2>2, <2>3 DEF Reload, TypeOK
<1>18. ASSUME NEW t \in Threads, PushApproved(t)
      PROVE  TypeOK'
  <2>1. th[t].id \in Ids /\ th[t].rec \in Rows
    BY <1>18, BusyType DEF PushApproved, Pcs, Resting
  <2>2. th' \in [Threads -> Goroutines]
    BY <1>18, LeaveType, RestType DEF PushApproved, Resting, TypeOK
  <2>3. lost' \in SUBSET Ids
    BY <1>18, <2>1 DEF PushApproved, TypeOK
  <2>4. /\ queue' \in [Processes -> Seq(Copies)]
           /\ \A p \in Processes : Len(queue'[p]) <= MaxQueue
    BY <1>18, <2>1, EnqueueType DEF PushApproved, TypeOK
  <2> QED
    BY <1>18, <2>1, <2>2, <2>3, <2>4 DEF PushApproved, TypeOK, dbVars, faultVars, history
<1>19. ASSUME NEW t \in Threads, CheckFreeze(t)
      PROVE  TypeOK'
  <2>1. th[t].id \in Ids /\ th[t].rec \in Rows
    BY <1>19, BusyType DEF CheckFreeze, Pcs, Resting
  <2>2. th' \in [Threads -> Goroutines]
    BY <1>19, <2>1, GotoType, CarryType, RowTypes DEF CheckFreeze, RefuseWith, Pcs
  <2>3. faults' \in 0..MaxFaults
    BY <1>19, QueueAssumption DEF CheckFreeze, StatementFails, TypeOK
  <2> QED
    BY <1>19, <2>1, <2>2, <2>3 DEF CheckFreeze, TypeOK, dbVars, faultVars, history
<1>20. ASSUME NEW t \in Threads, CheckMaintenance(t)
      PROVE  TypeOK'
  <2>1. th[t].id \in Ids /\ th[t].rec \in Rows
    BY <1>20, BusyType DEF CheckMaintenance, Pcs, Resting
  <2>2. th' \in [Threads -> Goroutines]
    BY <1>20, <2>1, GotoType, CarryType, RowTypes
       DEF CheckMaintenance, AfterHolds, RefuseWith, Pcs
  <2>3. faults' \in 0..MaxFaults
    BY <1>20, QueueAssumption DEF CheckMaintenance, StatementFails, TypeOK
  <2> QED
    BY <1>20, <2>1, <2>2, <2>3 DEF CheckMaintenance, TypeOK, dbVars, faultVars, history
<1>21. ASSUME NEW t \in Threads, Refuse(t)
      PROVE  TypeOK'
  BY <1>21, BusyType, LeaveType, WriteType
     DEF Refuse, Pcs, Resting, TypeOK, dbVars, faultVars, history
<1>22. ASSUME NEW t \in Threads, StartAction(t)
      PROVE  TypeOK'
  <2>1. th[t].id \in Ids /\ th[t].rec \in Rows
    BY <1>22, BusyType DEF StartAction, Pcs, Resting
  <2>2. Running(th[t].rec) \in Rows
    BY <2>1, RowTypes
  <2>3. th' \in [Threads -> Goroutines]
    BY <1>22, <2>1, <2>2, EndsCallType, CarryType DEF StartAction, Pcs
  <2>4. WriteOrIgnore(th[t].id, Running(th[t].rec))
    BY <1>22 DEF StartAction, WriteOrIgnore, EndsCall
  <2>5. row' \in [Ids -> Rows] /\ faults' \in 0..MaxFaults /\ lost' \in SUBSET Ids
    BY <2>1, <2>2, <2>4, WriteType
  <2> QED
    BY <1>22, <2>1, <2>2, <2>3, <2>4, <2>5
       DEF StartAction, TypeOK, dbVars, faultVars, history
<1>23. ASSUME NEW t \in Threads, Act(t)
      PROVE  TypeOK'
  <2>1. th[t].id \in Ids /\ th[t].rec \in Rows
    BY <1>23, BusyType DEF Act, Pcs, Resting
  <2>2. th' \in [Threads -> Goroutines]
    BY <1>23, <2>1, CarryType, ExecutedType DEF Act, Pcs
  <2>3. runs' \in [Ids -> Nat]
    BY <1>23, <2>1 DEF Act, TypeOK
  <2> QED
    BY <1>23, <2>1, <2>2, <2>3 DEF Act, TypeOK, dbVars, faultVars, history
<1>24. ASSUME NEW t \in Threads, Finish(t)
      PROVE  TypeOK'
  BY <1>24, BusyType, GotoType, LeaveType, WriteType
     DEF Finish, Pcs, Resting, TypeOK, dbVars, faultVars, history
<1>25. ASSUME NEW t \in Threads, SeenFollowUp(t)
      PROVE  TypeOK'
  <2>1. th[t].id \in Ids /\ FollowUp(th[t].id) \in Ids
    BY <1>25, BusyType, IdTypes DEF SeenFollowUp, Pcs, Resting
  <2>2. th' \in [Threads -> Goroutines]
    BY <1>25, <2>1, GotoType, LeaveType DEF SeenFollowUp, Pcs
  <2>3. faults' \in 0..MaxFaults /\ missed' \in SUBSET Ids
    BY <1>25, <2>1, LookUpType DEF SeenFollowUp, TypeOK
  <2> QED
    BY <1>25, <2>2, <2>3 DEF SeenFollowUp, TypeOK, dbVars
<1>26. ASSUME NEW t \in Threads, InsertFollowUp(t)
      PROVE  TypeOK'
  <2>1. th[t].id \in Ids /\ FollowUp(th[t].id) \in Ids
    BY <1>26, BusyType, IdTypes DEF InsertFollowUp, Pcs, Resting
  <2>2. th' \in [Threads -> Goroutines]
    BY <1>26, <2>1, LeaveType, GotoType DEF InsertFollowUp, Pcs
  <2>3. row' \in [Ids -> Rows] /\ lost' \in SUBSET Ids
    BY <1>26, <2>1, NewRowTypes DEF InsertFollowUp, Write, TypeOK
  <2>4. faults' \in 0..MaxFaults
    BY <1>26, QueueAssumption DEF InsertFollowUp, Write, StatementFails, TypeOK
  <2> QED
    BY <1>26, <2>1, <2>2, <2>3, <2>4 DEF InsertFollowUp, TypeOK, dbVars, faultVars, history
<1>27. ASSUME NEW t \in Threads, PushFollowUp(t)
      PROVE  TypeOK'
  BY <1>27, BusyType, PushOrDropType DEF PushFollowUp, Pcs, Resting
<1>28. ASSUME NEW t \in Threads, Dequeue(t)
      PROVE  TypeOK'
  <2>1. Home(t) \in Processes
    BY DEF Home, Processes
  <2>2. queue[Home(t)] \in Seq(Copies) /\ queue[Home(t)] # <<>>
    BY <1>28, <2>1 DEF Dequeue, TypeOK
  <2>3. /\ Head(queue[Home(t)]) \in Copies
           /\ Tail(queue[Home(t)]) \in Seq(Copies)
           /\ Len(Tail(queue[Home(t)])) = Len(queue[Home(t)]) - 1
           /\ Len(queue[Home(t)]) \in Nat
    BY <2>2, HeadTailProperties, LenProperties
  <2>4. /\ queue' \in [Processes -> Seq(Copies)]
           /\ \A p \in Processes : Len(queue'[p]) <= MaxQueue
    BY <1>28, <2>1, <2>2, <2>3, QueueAssumption DEF Dequeue, TypeOK
  <2>5. /\ Head(queue[Home(t)]).id \in Ids /\ Head(queue[Home(t)]).rec \in Rows
           /\ GateRefusal(Head(queue[Home(t)]).rec) \in Rows
    BY <2>3, RowTypes DEF Copies
  <2>6. \A pc \in Pcs, i \in Ids, r \in Rows, hs \in SUBSET Holds :
           /\ [At(pc) EXCEPT !.id = i, !.rec = r, !.held = hs] \in Goroutines
           /\ [At(pc) EXCEPT !.id = i, !.rec = r] \in Goroutines
    BY NewRowTypes DEF At, Goroutines, Verbs
  <2>7. HeldOver(Head(queue[Home(t)]).id) \in SUBSET Holds
    BY DEF HeldOver
  <2>8. th \in [Threads -> Goroutines] /\ "freeze" \in Pcs /\ "refuse" \in Pcs
    BY DEF TypeOK, Pcs
  <2>9. [At("freeze") EXCEPT !.id = Head(queue[Home(t)]).id, !.rec = Head(queue[Home(t)]).rec,
                             !.held = HeldOver(Head(queue[Home(t)]).id)] \in Goroutines
    BY <2>5, <2>6, <2>7, <2>8
  <2>10. GateOpen(Head(queue[Home(t)]).id, Head(queue[Home(t)]).rec) => th' \in [Threads -> Goroutines]
    BY <1>28, <2>8, <2>9 DEF Dequeue
  <2>11. ~GateOpen(Head(queue[Home(t)]).id, Head(queue[Home(t)]).rec) => th' \in [Threads -> Goroutines]
    BY <1>28, <2>5, <2>6, <2>8, LeaveType DEF Dequeue, GatedStop
  <2> QED
    BY <1>28, <2>1, <2>2, <2>3, <2>4, <2>5, <2>6, <2>7, <2>8, <2>9, <2>10, <2>11
       DEF Dequeue, TypeOK, dbVars, faultVars, history
<1>29. ASSUME NEW c \in Clis, CliExit(c)
      PROVE  TypeOK'
  <2>1. c \in Threads /\ c \in Processes
    BY DEF Threads, Handlers, Processes
  <2>2. th' \in [Threads -> Goroutines]
    BY <1>29, <2>1, RestType DEF CliExit, CliEnds, Resting, TypeOK
  <2>3. \A k \in 1..Len(queue[c]) : queue[c][k] \in Copies
    BY <2>1, ElementOfSeq DEF TypeOK
  <2>4. QueuedIn(c) \in SUBSET Ids
    BY <2>3 DEF QueuedIn, Copies
  <2>5. CarriedBy(c) \in SUBSET Ids
    BY <2>1, BusyType, IdTypes DEF CarriedBy, Pcs, Resting
  <2>6. lost' \in SUBSET Ids
    BY <1>29, <2>4, <2>5 DEF CliExit, CliEnds, TypeOK
  <2>7. /\ queue' \in [Processes -> Seq(Copies)]
           /\ \A p \in Processes : Len(queue'[p]) <= MaxQueue
    BY <1>29, <2>1, EmptySeq, QueueAssumption DEF CliExit, CliEnds, TypeOK
  <2>8. crashes' \in 0..MaxCrashes
    BY <1>29, QueueAssumption DEF CliExit, CliEnds, TypeOK
  <2> QED
    BY <1>29, <2>1, <2>2, <2>3, <2>4, <2>5, <2>6, <2>7, <2>8
       DEF CliExit, CliEnds, TypeOK, dbVars, faultVars, history
<1>30. ASSUME NEW c \in Clis, CliCrash(c)
      PROVE  TypeOK'
  <2>1. c \in Threads /\ c \in Processes
    BY DEF Threads, Handlers, Processes
  <2>2. th' \in [Threads -> Goroutines]
    BY <1>30, <2>1, RestType DEF CliCrash, CliEnds, Resting, TypeOK
  <2>3. \A k \in 1..Len(queue[c]) : queue[c][k] \in Copies
    BY <2>1, ElementOfSeq DEF TypeOK
  <2>4. QueuedIn(c) \in SUBSET Ids
    BY <2>3 DEF QueuedIn, Copies
  <2>5. CarriedBy(c) \in SUBSET Ids
    BY <2>1, BusyType, IdTypes DEF CarriedBy, Pcs, Resting
  <2>6. lost' \in SUBSET Ids
    BY <1>30, <2>4, <2>5 DEF CliCrash, CliEnds, TypeOK
  <2>7. /\ queue' \in [Processes -> Seq(Copies)]
           /\ \A p \in Processes : Len(queue'[p]) <= MaxQueue
    BY <1>30, <2>1, EmptySeq, QueueAssumption DEF CliCrash, CliEnds, TypeOK
  <2>8. crashes' \in 0..MaxCrashes
    BY <1>30, QueueAssumption DEF CliCrash, CliEnds, TypeOK
  <2> QED
    BY <1>30, <2>1, <2>2, <2>3, <2>4, <2>5, <2>6, <2>7, <2>8
       DEF CliCrash, CliEnds, TypeOK, dbVars, faultVars, history
<1>31. ASSUME Crash
      PROVE  TypeOK'
  <2>1. Server \in Processes
    BY DEF Processes
  <2>2. th' \in [Threads -> Goroutines]
    BY <1>31, RestType DEF Crash, Resting, TypeOK
  <2>3. /\ queue' \in [Processes -> Seq(Copies)]
           /\ \A p \in Processes : Len(queue'[p]) <= MaxQueue
    BY <1>31, <2>1, EmptySeq, QueueAssumption DEF Crash, TypeOK
  <2>4. crashes' \in 0..MaxCrashes
    BY <1>31, QueueAssumption DEF Crash, TypeOK
  <2> QED
    BY <1>31, <2>1, <2>2, <2>3, <2>4 DEF Crash, TypeOK, dbVars, faultVars, history
<1>32. ASSUME Restart
      PROVE  TypeOK'
  <2>1. IncompleteIds \in SUBSET Ids
    BY DEF IncompleteIds
  <2>2. recovery' \in SUBSET Copies /\ lost' \in SUBSET Ids
    BY <1>32, <2>1 DEF Restart, Copies, Copy, TypeOK
  <2>3. th' \in [Threads -> Goroutines]
    BY <1>32, RestingGotoType DEF Restart, Resting, Threads
  <2>4. faults' \in 0..MaxFaults
    BY <1>32, QueueAssumption DEF Restart, StatementFails, TypeOK
  <2> QED
    BY <1>32, <2>1, <2>2, <2>3, <2>4 DEF Restart, TypeOK, dbVars
<1>33. ASSUME NEW c \in recovery, RecoverRow(c)
      PROVE  TypeOK'
  <2>1. c.id \in Ids /\ c.rec \in Rows
    BY DEF Copies, TypeOK
  <2>2. Recovered(c.id, c.rec) \in Rows
    BY <2>1, RowTypes
  <2>3. row' \in [Ids -> Rows] /\ faults' \in 0..MaxFaults /\ lost' \in SUBSET Ids
    BY <1>33, <2>1, <2>2, WriteType DEF RecoverRow
  <2>4. [At("seen") EXCEPT !.id = c.id] \in Goroutines
    BY <2>1, NewRowTypes DEF At, Goroutines, Pcs, Verbs
  <2>5. th' \in [Threads -> Goroutines]
    BY <1>33, <2>4 DEF RecoverRow, Threads, TypeOK
  <2> QED
    BY <1>33, <2>1, <2>2, <2>3, <2>4, <2>5
       DEF RecoverRow, TypeOK, dbVars, faultVars, history
<1>34. ASSUME StartWorkers
      PROVE  TypeOK'
  <2>1. th' \in [Threads -> Goroutines]
    BY <1>34, RestingGotoType DEF StartWorkers, Resting, Threads
  <2> QED
    BY <1>34, <2>1 DEF StartWorkers, TypeOK, dbVars, faultVars, history
<1>35. ASSUME NEW hs, EndHolds(hs)
      PROVE  TypeOK'
  <2>1. \A t \in Threads : [th[t] EXCEPT !.held = @ \ hs] \in Goroutines
    BY BusyType DEF Goroutines
  <2>2. th' \in [Threads -> Goroutines]
    BY <1>35, <2>1 DEF EndHolds
  <2> QED
    BY <1>35, <2>1, <2>2 DEF EndHolds, TypeOK, dbVars, faultVars, history
<1>36. ASSUME NEW h \in Holds, BeginHold(h)
      PROVE  TypeOK'
  BY <1>36 DEF BeginHold, TypeOK, dbVars, faultVars, history
<1>37. ASSUME ExpireStaleApprovals
      PROVE  TypeOK'
  <2>1. \A i \in Ids : row[i] \in Rows /\ Expired(row[i]) \in Rows
    BY RowTypes DEF TypeOK
  <2>2. row' \in [Ids -> Rows]
    BY <1>37, <2>1 DEF ExpireStaleApprovals
  <2>3. decision' \in [Actions -> {"none", "approved", "rejected", "expired"}]
    BY <1>37 DEF ExpireStaleApprovals, TypeOK
  <2> QED
    BY <1>37, <2>1, <2>2, <2>3 DEF ExpireStaleApprovals, TypeOK, dbVars, faultVars, history
<1>38. CASE UNCHANGED vars
  BY <1>38 DEF vars, TypeOK
<1> QED
  <2>1. CASE Next
    BY <1>1, <1>2, <1>3, <1>4, <1>5, <1>6, <1>7, <1>8, <1>9, <1>10, <1>11, <1>12,
       <1>13, <1>14, <1>15, <1>16, <1>17, <1>18, <1>19, <1>20, <1>21, <1>22, <1>23, <1>24,
       <1>25, <1>26, <1>27, <1>28, <1>29, <1>30, <1>31, <1>32, <1>33, <1>34, <1>35, <1>36,
       <1>37, <2>1
       DEF Next, Propose, QueueReset, Decide, Execute, Recover, Operate, EndHold,
           ExpireOldFreezes, Threads, Handlers
  <2> QED
    BY <1>38, <2>1

\* Every reachable state has the types TypeOK names, and every goroutine at work
\* holds the id of a row.
THEOREM TypeCorrect == Spec => []TypeOK
BY TypeInit, TypeNext, PTL DEF Spec

(***************************************************************************)
(* The approval gate.  A copy that may be written back is past its         *)
(* decision (Sound), and stays so because decisions are taken once.        *)
(***************************************************************************)

DecisionKept == \A a \in Actions : decision[a] # "none" => decision'[a] = decision[a]

\* A row that exists, or is past its decision, stays so.
PastKept ==
    \A i \in Ids : /\ Sound(i, row[i]) => Sound(i, row[i])'
                   /\ row[i].lifecycle # "none" => row'[i].lifecycle # "none"

\* Where a goroutine relies on what it knows of its row.
Knowing == HoldsCopy \cup MayExecute \cup HasDecided \cup IsDeciding

\* The fields that tell the three new rows apart.
LEMMA RowFacts ==
    /\ NoRow.lifecycle = "none" /\ NoRow.result = ""
    /\ NewPending.lifecycle = "pending"
    /\ NewPendingApproval.lifecycle = "pending_approval"
    /\ NewPendingApproval.result = "pending_approval"
BY DEF NoRow, NewPending, NewPendingApproval

\* Nothing is proposed at first, so the invariant holds.
LEMMA GateInit == Init => GateInvariant
<1> SUFFICES ASSUME Init PROVE GateInvariant
  OBVIOUS
<1>1. RowsSound
  BY IdTypes DEF Init, RowsSound, RowSound
<1>2. QueuesSound /\ RecoverySound
  BY EmptySeq DEF Init, QueuesSound, RecoverySound
<1>3. ThreadsSound
  BY DEF Init, ThreadsSound, ThreadSound, At, HoldsCopy, MayExecute, HasDecided, IsDeciding
<1>4. ApprovalGate
  BY IdTypes, ActionsAssumption DEF Init, ApprovalGate
<1> QED
  BY <1>1, <1>2, <1>3, <1>4 DEF GateInvariant

\* Only primary actions are gated.
LEMMA GatedIds ==
    ASSUME NEW i \in Ids, IsGated(i)
    PROVE  i[1] \in Gated /\ i = Primary(i[1])
BY IdTypes DEF IsGated

\* A sound copy stays sound.
LEMMA SoundKept ==
    ASSUME DecisionKept, NEW i \in Ids, NEW r, Sound(i, r)
    PROVE  /\ r.lifecycle \notin {"none", "pending_approval"}
           /\ IsGated(i) /\ r.lifecycle \in InFlight => decision'[i[1]] = "approved"
BY IdTypes DEF Sound, IsApproved, DecisionKept

\* Sound copies stay sound wherever they are kept.
LEMMA KeptSound ==
    ASSUME TypeOK, GateInvariant, DecisionKept
    PROVE  /\ UNCHANGED queue => QueuesSound'
           /\ UNCHANGED recovery => RecoverySound'
           /\ UNCHANGED runs => ApprovalGate'
<1>1. ASSUME UNCHANGED queue PROVE QueuesSound'
  <2> SUFFICES ASSUME NEW p \in Processes, NEW k \in 1..Len(queue[p])
               PROVE  Sound(queue[p][k].id, queue[p][k].rec)'
    BY <1>1 DEF QueuesSound
  <2>0. queue[p] \in Seq(Copies)
    BY DEF TypeOK
  <2>4. queue[p][k] \in Copies
    BY <2>0, ElementOfSeq
  <2>1. queue[p][k].id \in Ids
    BY <2>4 DEF Copies
  <2>2. Sound(queue[p][k].id, queue[p][k].rec)
    BY DEF GateInvariant, QueuesSound
  <2> QED
    BY <1>1, <2>1, <2>2, SoundKept DEF Sound, IsApproved
<1>2. ASSUME UNCHANGED recovery PROVE RecoverySound'
  <2> SUFFICES ASSUME NEW c \in recovery PROVE Sound(c.id, c.rec)'
    BY <1>2 DEF RecoverySound
  <2>1. c.id \in Ids /\ Sound(c.id, c.rec)
    BY DEF TypeOK, Copies, GateInvariant, RecoverySound
  <2> QED
    BY <2>1, SoundKept DEF Sound, IsApproved
<1>3. ASSUME UNCHANGED runs PROVE ApprovalGate'
  BY <1>3, ActionsAssumption DEF GateInvariant, ApprovalGate, DecisionKept
<1> QED
  BY <1>1, <1>2, <1>3

\* A goroutine that does not move stays sound.
LEMMA StaySound ==
    ASSUME TypeOK, GateInvariant, DecisionKept, PastKept, NEW t \in Threads, th'[t] = th[t]
    PROVE  ThreadSound(th[t])'
<1>1. ThreadSound(th[t])
  BY DEF GateInvariant, ThreadsSound
<1>2. th[t].pc \in Knowing => th[t].id \in Ids
  BY BusyType DEF Knowing, HoldsCopy, MayExecute, HasDecided, IsDeciding, Pcs, Resting
<1>3. th[t].pc \in HoldsCopy \cup MayExecute => Sound(th[t].id, th[t].rec)'
  BY <1>1, <1>2, SoundKept DEF ThreadSound, Sound, IsApproved, Knowing
<1>4. th[t].pc \in MayExecute /\ IsGated(th[t].id) => IsApproved(th[t].id)'
  BY <1>1, <1>2, IdTypes DEF ThreadSound, IsApproved, DecisionKept, Knowing
<1>5. th[t].pc \in HasDecided => Sound(th[t].id, row[th[t].id])'
  BY <1>1, <1>2 DEF ThreadSound, PastKept, Knowing
<1>6. th[t].pc \in IsDeciding => row'[th[t].id].lifecycle # "none"
  BY <1>1, <1>2 DEF ThreadSound, PastKept, Knowing
<1> QED
  BY <1>1, <1>3, <1>4, <1>5, <1>6 DEF ThreadSound

\* A step of goroutine t leaves the other goroutines' copies sound.
LEMMA OthersSound ==
    ASSUME TypeOK, GateInvariant, DecisionKept, PastKept, NEW t \in Threads,
           \A u \in Threads \ {t} : th'[u] = th[u], ThreadSound(th[t])'
    PROVE  ThreadsSound'
BY StaySound DEF ThreadsSound

\* Writing a sound copy, or nothing, keeps every row sound.
LEMMA WriteSound ==
    ASSUME TypeOK, GateInvariant, UNCHANGED decision, NEW i \in Ids, NEW r \in Rows,
           row' = row \/ (row' = [row EXCEPT ![i] = r] /\ Sound(i, r))
    PROVE  RowsSound' /\ PastKept /\ DecisionKept
<1>1. \A j \in Ids : row'[j] = row[j] \/ Sound(j, row'[j])
  BY DEF TypeOK
<1>2. RowsSound'
  BY <1>1 DEF GateInvariant, RowsSound, RowSound, Sound, IsApproved
<1>3. PastKept
  BY <1>1 DEF PastKept, Sound, IsApproved
<1> QED
  BY <1>2, <1>3 DEF DecisionKept

\* Pushing a sound copy keeps every queued copy sound.
LEMMA PushSound ==
    ASSUME TypeOK, GateInvariant, UNCHANGED decision, NEW t \in Threads,
           NEW i \in Ids, NEW r \in Rows,
           UNCHANGED queue \/ (Enqueue(t, i, r) /\ Sound(i, r))
    PROVE  QueuesSound'
<1>1. CASE UNCHANGED queue
  BY <1>1, KeptSound DEF DecisionKept
<1>2. CASE Enqueue(t, i, r) /\ Sound(i, r)
  <2> SUFFICES ASSUME NEW p \in Processes, NEW k \in 1..Len(queue'[p])
               PROVE  Sound(queue[p][k].id, queue[p][k].rec)'
    BY DEF QueuesSound
  <2>1. queue[p] \in Seq(Copies) /\ Copy(i, r) \in Copies
    BY DEF TypeOK, Copy, Copies
  <2>2. queue'[p] = queue[p] \/ queue'[p] = Append(queue[p], Copy(i, r))
    BY <1>2 DEF Enqueue, TypeOK
  <2>3. \/ k \in 1..Len(queue[p]) /\ queue'[p][k] = queue[p][k]
        \/ queue'[p][k] = Copy(i, r)
    BY <2>1, <2>2, AppendProperties, LenProperties
  <2> QED
    BY <1>2, <2>3 DEF GateInvariant, QueuesSound, Sound, IsApproved, Copy
<1> QED
  BY <1>1, <1>2

\* The shape of most steps: one goroutine writes at most one sound copy, pushes
\* at most one, and ends up knowing something sound.
LEMMA QuietStep ==
    ASSUME TypeOK, GateInvariant, UNCHANGED <<decision, runs, recovery>>,
           NEW t \in Threads, NEW i \in Ids, NEW r \in Rows,
           row' = row \/ (row' = [row EXCEPT ![i] = r] /\ Sound(i, r)),
           UNCHANGED queue \/ (Enqueue(t, i, r) /\ Sound(i, r)),
           \A u \in Threads \ {t} : th'[u] = th[u],
           ThreadSound(th[t])'
    PROVE  GateInvariant' /\ DecisionKept
<1>1. RowsSound' /\ PastKept /\ DecisionKept
  BY WriteSound
<1>2. QueuesSound'
  BY PushSound
<1>3. ThreadsSound'
  BY <1>1, OthersSound
<1>4. RecoverySound' /\ ApprovalGate'
  BY <1>1, KeptSound
<1> QED
  BY <1>1, <1>2, <1>3, <1>4 DEF GateInvariant

\* A goroutine that comes to rest, or to a place where it knows nothing, is sound.
LEMMA IdleSound ==
    ASSUME TypeOK, NEW t \in Threads,
           \/ Leave(t)
           \/ \E pc \in Pcs \ Knowing : Goto(t, pc)
    PROVE  (\A u \in Threads \ {t} : th'[u] = th[u]) /\ ThreadSound(th[t])'
<1>1. CASE Leave(t)
  BY <1>1, ReturnType
     DEF Leave, At, TypeOK, ThreadSound, HoldsCopy, MayExecute, HasDecided, IsDeciding
<1>2. CASE \E pc \in Pcs \ Knowing : Goto(t, pc)
  <2>1. PICK pc \in Pcs \ Knowing : Goto(t, pc)
    BY <1>2
  <2>2. th'[t].pc = pc /\ (\A u \in Threads \ {t} : th'[u] = th[u])
    BY <2>1, BusyType DEF Goto, TypeOK, Goroutines
  <2> QED
    BY <2>1, <2>2 DEF ThreadSound, Knowing
<1> QED
  BY <1>1, <1>2

\* A row that is closed, or a follow-up, waits for no decision.
LEMMA ClosedSound ==
    ASSUME NEW i \in Ids, NEW r \in Rows
    PROVE  /\ \A res \in Results, c \in Closures : Sound(i, Completed(r, res, c))
           /\ Sound(i, DroppedOnFullQueue) /\ Sound(i, Recovered(i, r))
           /\ Sound(i, FreezeRefusal(r)) /\ Sound(i, MaintenanceRefusal(r))
           /\ Sound(i, GateRefusal(r)) /\ Sound(i, AdvisoryRefusal(r))
           /\ \A o \in Outcomes : Sound(i, Executed(i, r, o))
           /\ ~IsGated(i) => Sound(i, NewPending)
BY NewRowTypes
   DEF Sound, Completed, DroppedOnFullQueue, NewPending, NoRow, FreezeRefusal,
       MaintenanceRefusal, GateRefusal, AdvisoryRefusal, Executed, Recovered, InFlight, Rows

\* Following an action up, or dropping the follow-up, disturbs nothing.
LEMMA PushOrDropSound ==
    ASSUME TypeOK, GateInvariant, NEW t \in Threads, th[t].id \in Ids, PushOrDrop(t)
    PROVE  GateInvariant' /\ DecisionKept
<1>1. FollowUp(th[t].id) \in Ids /\ ~IsGated(FollowUp(th[t].id))
  BY IdTypes DEF IsGated
<1>2. Sound(FollowUp(th[t].id), NewPending)
  BY <1>1, ClosedSound, NewRowTypes
<1>3. /\ UNCHANGED <<decision, runs, recovery>> /\ row' = row
      /\ UNCHANGED queue \/ Enqueue(t, FollowUp(th[t].id), NewPending)
  BY DEF PushOrDrop, dbVars
<1>4. (\A u \in Threads \ {t} : th'[u] = th[u]) /\ ThreadSound(th[t])'
  BY IdleSound DEF PushOrDrop
<1> QED
  BY <1>1, <1>2, <1>3, <1>4, NewRowTypes, QuietStep

\* A decision moves actions that wait for one past it, and only those.
LEMMA DecideSound ==
    ASSUME TypeOK, GateInvariant, UNCHANGED <<queue, runs, recovery>>,
           NEW as \in SUBSET Actions,
           \A a \in as : /\ Decidable(row[Primary(a)])
                         /\ row'[Primary(a)].lifecycle \in {"pending", "completed"}
                         /\ row'[Primary(a)].lifecycle = "pending" => decision'[a] = "approved"
                         /\ decision'[a] # "none",
           \A i \in Ids : (\A a \in as : i # Primary(a)) => row'[i] = row[i],
           \A a \in Actions \ as : decision'[a] = decision[a]
    PROVE  /\ RowsSound' /\ QueuesSound' /\ RecoverySound' /\ ApprovalGate'
           /\ PastKept /\ DecisionKept
           /\ \A a \in as : Sound(Primary(a), row[Primary(a)])'
<1>1. \A a \in as : decision[a] = "none"
  <2> SUFFICES ASSUME NEW a \in as PROVE decision[a] = "none"
    OBVIOUS
  <2>1. a \in Actions /\ Primary(a) \in Ids /\ Primary(a)[1] = a /\ IsPrimary(Primary(a))
    BY IdTypes
  <2>2. row[Primary(a)].lifecycle = "pending_approval"
    BY DEF Decidable
  <2>3. RowSound(Primary(a)) /\ ~Sound(Primary(a), row[Primary(a)])
    BY <2>1, <2>2 DEF GateInvariant, RowsSound, Sound
  <2> QED
    BY <2>1, <2>2, <2>3, RowFacts DEF RowSound
<1>2. DecisionKept
  BY <1>1 DEF DecisionKept
<1>3. ASSUME NEW a \in as PROVE Sound(Primary(a), row[Primary(a)])'
  <2>1. Primary(a)[1] = a
    BY IdTypes
  <2>2. /\ row'[Primary(a)].lifecycle \in {"pending", "completed"}
        /\ row'[Primary(a)].lifecycle = "pending" => decision'[a] = "approved"
    OBVIOUS
  <2> QED
    BY <2>1, <2>2 DEF Sound, IsApproved, InFlight
<1>4. PastKept
  <2> SUFFICES ASSUME NEW i \in Ids
               PROVE  /\ Sound(i, row[i]) => Sound(i, row[i])'
                      /\ row[i].lifecycle # "none" => row'[i].lifecycle # "none"
    BY DEF PastKept
  <2>1. CASE \E a \in as : i = Primary(a)
    BY <1>3, <2>1 DEF Sound
  <2>2. CASE \A a \in as : i # Primary(a)
    <3>1. row'[i] = row[i]
      BY <2>2
    <3> QED
      BY <1>2, <3>1, SoundKept DEF Sound, IsApproved
  <2> QED
    BY <2>1, <2>2
<1>5. RowsSound'
  <2> SUFFICES ASSUME NEW i \in Ids PROVE RowSound(i)'
    BY DEF RowsSound
  <2>1. CASE \E a \in as : i = Primary(a)
    BY <1>3, <2>1 DEF RowSound
  <2>2. CASE \A a \in as : i # Primary(a)
    <3>1. row'[i] = row[i] /\ RowSound(i)
      BY <2>2 DEF GateInvariant, RowsSound
    <3>2. IsPrimary(i) => decision'[i[1]] = decision[i[1]]
      <4>1. IsPrimary(i) => i = Primary(i[1]) /\ i[1] \in Actions
        BY IdTypes
      <4> QED
        BY <2>2, <4>1
    <3>3. Sound(i, row[i]) => Sound(i, row[i])'
      BY <1>4 DEF PastKept
    <3>4. IsGated(i) => IsPrimary(i)
      BY DEF IsGated
    <3> QED
      BY <3>1, <3>2, <3>3, <3>4 DEF RowSound
  <2> QED
    BY <2>1, <2>2
<1> QED
  BY <1>2, <1>3, <1>4, <1>5, KeptSound

\* What Goto changes of a goroutine.
LEMMA GotoFacts ==
    ASSUME TypeOK, NEW t \in Threads, NEW pc, Goto(t, pc)
    PROVE  /\ \A u \in Threads \ {t} : th'[u] = th[u]
           /\ th'[t].pc = pc /\ th'[t].id = th[t].id /\ th'[t].rec = th[t].rec
BY BusyType DEF Goto, TypeOK, Goroutines

\* What moving on with another copy changes of a goroutine.
Carries(t, pc, r) == th' = [th EXCEPT ![t].pc = pc, ![t].rec = r]

LEMMA CarryFacts ==
    ASSUME TypeOK, NEW t \in Threads, NEW pc, NEW r, Carries(t, pc, r)
    PROVE  /\ \A u \in Threads \ {t} : th'[u] = th[u]
           /\ th'[t].pc = pc /\ th'[t].id = th[t].id /\ th'[t].rec = r
BY BusyType DEF TypeOK, Goroutines, Carries

\* A handler that goes on after its decision knows that there was one.
LEMMA AfterMergeSound ==
    ASSUME TypeOK, NEW t \in Threads, NEW i \in Ids, th[t].id = i,
           AfterMerge(t) \/ Goto(t, "merge_read"), Sound(i, row[i])'
    PROVE  (\A u \in Threads \ {t} : th'[u] = th[u]) /\ ThreadSound(th[t])'
<1>1. ASSUME NEW pc \in {"reload", "merge_read"}, Goto(t, pc)
      PROVE  (\A u \in Threads \ {t} : th'[u] = th[u]) /\ ThreadSound(th[t])'
  <2>1. /\ \A u \in Threads \ {t} : th'[u] = th[u]
        /\ th'[t].pc = pc /\ th'[t].id = i
    BY <1>1, GotoFacts
  <2> QED
    BY <2>1 DEF ThreadSound, HoldsCopy, MayExecute, HasDecided, IsDeciding
<1> QED
  BY <1>1, IdleSound DEF AfterMerge

\* The executor carries its copy to the next check, or a refusal to its write.
LEMMA HeldSound ==
    ASSUME TypeOK, UNCHANGED <<row, decision>>, NEW t \in Threads,
           NEW i \in Ids, NEW r \in Rows, i = th[t].id, r = th[t].rec,
           Sound(i, r), IsGated(i) => IsApproved(i),
           \/ \E pc \in {"maintenance", "start"} : Goto(t, pc)
           \/ \E q \in Rows : Sound(i, q) /\ RefuseWith(t, q)
    PROVE  (\A u \in Threads \ {t} : th'[u] = th[u]) /\ ThreadSound(th[t])'
<1>1. ASSUME NEW pc \in {"maintenance", "start"}, Goto(t, pc)
      PROVE  (\A u \in Threads \ {t} : th'[u] = th[u]) /\ ThreadSound(th[t])'
  <2>1. /\ \A u \in Threads \ {t} : th'[u] = th[u]
        /\ th'[t].pc = pc /\ th'[t].id = i /\ th'[t].rec = r
    BY <1>1, GotoFacts
  <2> QED
    BY <2>1
       DEF ThreadSound, HoldsCopy, MayExecute, HasDecided, IsDeciding, Sound, IsApproved
<1>2. ASSUME NEW q \in Rows, Sound(i, q), RefuseWith(t, q)
      PROVE  (\A u \in Threads \ {t} : th'[u] = th[u]) /\ ThreadSound(th[t])'
  <2>0. Carries(t, "refuse", q)
    BY <1>2 DEF RefuseWith, Carries
  <2>1. /\ \A u \in Threads \ {t} : th'[u] = th[u]
        /\ th'[t].pc = "refuse" /\ th'[t].id = i /\ th'[t].rec = q
    BY <2>0, CarryFacts
  <2> QED
    BY <1>2, <2>1
       DEF ThreadSound, HoldsCopy, MayExecute, HasDecided, IsDeciding, Sound, IsApproved
<1> QED
  BY <1>1, <1>2

\* Taking the head of a queue, or emptying one, leaves the rest sound.
LEMMA TailSound ==
    ASSUME TypeOK, GateInvariant, DecisionKept, NEW p \in Processes,
           \/ queue[p] # <<>> /\ queue' = [queue EXCEPT ![p] = Tail(@)]
           \/ queue' = [queue EXCEPT ![p] = <<>>]
    PROVE  QueuesSound'
<1> SUFFICES ASSUME NEW q \in Processes, NEW k \in 1..Len(queue'[q])
             PROVE  Sound(queue[q][k].id, queue[q][k].rec)'
  BY DEF QueuesSound
<1>1. queue[q] \in Seq(Copies) /\ queue[p] \in Seq(Copies)
  BY DEF TypeOK
<1>2. \E j \in 1..Len(queue[q]) : queue'[q][k] = queue[q][j]
  <2>1. CASE queue'[q] = queue[q]
    BY <2>1
  <2>2. CASE q = p /\ queue'[q] = <<>>
    BY <2>2, EmptySeq
  <2>3. CASE q = p /\ queue[p] # <<>> /\ queue'[q] = Tail(queue[p])
    BY <1>1, <2>3, HeadTailProperties, LenProperties
  <2> QED
    BY <2>1, <2>2, <2>3 DEF TypeOK
<1>3. PICK j \in 1..Len(queue[q]) : queue'[q][k] = queue[q][j]
  BY <1>2
<1>4. queue[q][j] \in Copies /\ Sound(queue[q][j].id, queue[q][j].rec)
  BY <1>1, ElementOfSeq DEF GateInvariant, QueuesSound
<1>5. queue[q][j].id \in Ids
  BY <1>4 DEF Copies
<1> QED
  BY <1>3, <1>4, <1>5, SoundKept DEF Sound, IsApproved

\* A step that leaves the table alone keeps the rows as they were.
LEMMA Unwritten ==
    ASSUME TypeOK, GateInvariant, UNCHANGED <<row, decision>>
    PROVE  RowsSound' /\ PastKept /\ DecisionKept
<1>1. RowsSound'
  BY DEF GateInvariant, RowsSound, RowSound, Sound, IsApproved
<1> QED
  BY <1>1 DEF PastKept, DecisionKept, Sound, IsApproved

\* Goroutines that stay where they are, or go where they know nothing, stay sound.
LEMMA QuietThreads ==
    ASSUME TypeOK, GateInvariant, DecisionKept, PastKept,
           \A t \in Threads : th'[t] = th[t] \/ th'[t].pc \notin Knowing
    PROVE  ThreadsSound'
<1> SUFFICES ASSUME NEW t \in Threads PROVE ThreadSound(th[t])'
  BY DEF ThreadsSound
<1>1. CASE th'[t] = th[t]
  BY <1>1, StaySound
<1>2. CASE th'[t].pc \notin Knowing
  BY <1>2 DEF ThreadSound, Knowing
<1> QED
  BY <1>1, <1>2


\* Every action preserves the invariant, and reverses no decision.
LEMMA GateNext ==
    TypeOK /\ GateInvariant /\ [Next]_vars => GateInvariant' /\ DecisionKept
<1> SUFFICES ASSUME TypeOK, GateInvariant, [Next]_vars
             PROVE  GateInvariant' /\ DecisionKept
  OBVIOUS
<1>1. ASSUME NEW t \in Threads, NEW a \in Actions, ProposeDenied(t, a)
      PROVE  GateInvariant' /\ DecisionKept
  <2> DEFINE r == Completed(NewPending, "denied_by_policy", "")
  <2>1. Primary(a) \in Ids /\ r \in Rows /\ Sound(Primary(a), r)
    BY IdTypes, NewRowTypes, RowTypes, ClosedSound DEF Results, Closures
  <2>2. /\ UNCHANGED <<decision, runs, recovery, queue>>
        /\ row' = [row EXCEPT ![Primary(a)] = r]
    BY <1>1 DEF ProposeDenied, Insert, ClosesAtOnce, history
  <2>3. (\A u \in Threads \ {t} : th'[u] = th[u]) /\ ThreadSound(th[t])'
    BY <1>1, IdleSound DEF ProposeDenied, ClosesAtOnce
  <2> HIDE DEF r
  <2> QED
    BY <2>1, <2>2, <2>3, QuietStep
<1>2. ASSUME NEW t \in Threads, NEW a \in Actions, ProposeBlocked(t, a)
      PROVE  GateInvariant' /\ DecisionKept
  <2> DEFINE r == Refusal(Primary(a), NewPending)
  <2>1. Primary(a) \in Ids /\ r \in Rows /\ Sound(Primary(a), r)
    BY IdTypes, NewRowTypes, RowTypes, ClosedSound DEF Refusal
  <2>2. /\ UNCHANGED <<decision, runs, recovery, queue>>
        /\ row' = [row EXCEPT ![Primary(a)] = r]
    BY <1>2 DEF ProposeBlocked, Insert, ClosesAtOnce, history
  <2>3. (\A u \in Threads \ {t} : th'[u] = th[u]) /\ ThreadSound(th[t])'
    BY <1>2, IdleSound DEF ProposeBlocked, ClosesAtOnce
  <2> HIDE DEF r
  <2> QED
    BY <2>1, <2>2, <2>3, QuietStep
<1>3. ASSUME NEW t \in Threads, NEW a \in Actions, ProposeGated(t, a)
      PROVE  GateInvariant' /\ DecisionKept
  <2>1. /\ Primary(a) \in Ids /\ Primary(a)[1] = a /\ IsPrimary(Primary(a))
        /\ IsGated(Primary(a))
    BY <1>3, IdTypes DEF ProposeGated, NeedsApproval, IsGated
  <2>2. /\ row[Primary(a)] = NoRow
        /\ row' = [row EXCEPT ![Primary(a)] = NewPendingApproval]
        /\ UNCHANGED <<decision, runs, recovery, queue>>
    BY <1>3 DEF ProposeGated, MayPropose, Insert, ClosesAtOnce, history
  <2>2a. ~Sound(Primary(a), row[Primary(a)])
    BY <2>2, RowFacts DEF Sound
  <2>3. decision[a] = "none"
    BY <2>1, <2>2, <2>2a, RowFacts DEF GateInvariant, RowsSound, RowSound
  <2>4. RowsSound'
    BY <2>1, <2>2, <2>3 DEF GateInvariant, RowsSound, RowSound, Sound, IsApproved, TypeOK
  <2>5. PastKept /\ DecisionKept
    BY <2>2, <2>2a, RowFacts DEF PastKept, DecisionKept, Sound, IsApproved, TypeOK
  <2>6. ThreadsSound'
    BY <1>3, <2>5, IdleSound, OthersSound DEF ProposeGated, ClosesAtOnce
  <2>7. QueuesSound' /\ RecoverySound' /\ ApprovalGate'
    BY <2>2, <2>5, KeptSound
  <2> QED
    BY <2>4, <2>5, <2>6, <2>7 DEF GateInvariant
<1>4. ASSUME NEW t \in Threads, NEW a \in Actions, ProposeAuto(t, a)
      PROVE  GateInvariant' /\ DecisionKept
  <2>1. /\ Primary(a) \in Ids /\ ~IsGated(Primary(a)) /\ NewPending \in Rows
        /\ Sound(Primary(a), NewPending)
    BY <1>4, IdTypes, NewRowTypes, ClosedSound DEF ProposeAuto, NeedsApproval, IsGated
  <2>2. /\ UNCHANGED <<decision, runs, recovery, queue>>
        /\ row' = [row EXCEPT ![Primary(a)] = NewPending]
    BY <1>4 DEF ProposeAuto, Insert, history
  <2>3. \A u \in Threads \ {t} : th'[u] = th[u]
    BY <1>4 DEF ProposeAuto
  <2>4. th'[t].pc = "push_new" /\ th'[t].id = Primary(a) /\ th'[t].rec = NewPending
    BY <1>4 DEF ProposeAuto, At, TypeOK
  <2>5. ThreadSound(th[t])'
    BY <2>1, <2>2, <2>4 DEF ThreadSound, Sound, IsApproved, HoldsCopy, MayExecute, HasDecided, IsDeciding
  <2> QED
    BY <2>1, <2>2, <2>3, <2>5, QuietStep
<1>5. ASSUME NEW t \in Threads, PushNew(t)
      PROVE  GateInvariant' /\ DecisionKept
  <2>1. /\ th[t].id \in Ids /\ th[t].rec \in Rows /\ Sound(th[t].id, th[t].rec)
    BY <1>5, BusyType
       DEF PushNew, GateInvariant, ThreadsSound, ThreadSound, HoldsCopy, Pcs, Resting
  <2>2. /\ UNCHANGED <<row, decision, runs, recovery>>
        /\ UNCHANGED queue \/ Enqueue(t, th[t].id, th[t].rec)
    BY <1>5 DEF PushNew, dbVars, history
  <2>3. (\A u \in Threads \ {t} : th'[u] = th[u]) /\ ThreadSound(th[t])'
    <3>1. "drop_new" \in Pcs \ Knowing
      BY DEF Pcs, Knowing, HoldsCopy, MayExecute, HasDecided, IsDeciding
    <3> QED
      BY <1>5, <3>1, IdleSound DEF PushNew
  <2> QED
    BY <2>1, <2>2, <2>3, QuietStep
<1>6. ASSUME NEW t \in Threads, DropNew(t)
      PROVE  GateInvariant' /\ DecisionKept
  <2>1. /\ th[t].id \in Ids /\ DroppedOnFullQueue \in Rows
        /\ Sound(th[t].id, DroppedOnFullQueue)
    BY <1>6, BusyType, NewRowTypes, ClosedSound DEF DropNew, Pcs, Resting
  <2>2. /\ UNCHANGED <<queue, decision, runs, recovery>>
        /\ row' = row \/ row' = [row EXCEPT ![th[t].id] = DroppedOnFullQueue]
    BY <1>6 DEF DropNew, WriteOrIgnore, Write
  <2>3. (\A u \in Threads \ {t} : th'[u] = th[u]) /\ ThreadSound(th[t])'
    BY <1>6, IdleSound DEF DropNew
  <2> QED
    BY <2>1, <2>2, <2>3, QuietStep
<1>7. ASSUME NEW t \in Threads, NEW a \in Actions, ResetBegin(t, a)
      PROVE  GateInvariant' /\ DecisionKept
  <2>1. Primary(a) \in Ids /\ row[Primary(a)] \in Rows
    BY IdTypes DEF TypeOK
  <2>2. Sound(Primary(a), row[Primary(a)])
    <3>1. row[Primary(a)].result = "executed_successfully"
      BY <1>7 DEF ResetBegin, Revertible
    <3>2. row[Primary(a)] # NoRow /\ row[Primary(a)] # NewPendingApproval
      BY <3>1, RowFacts
    <3> QED
      BY <2>1, <3>2 DEF GateInvariant, RowsSound, RowSound
  <2>3. UNCHANGED <<row, queue, decision, runs, recovery>>
    BY <1>7 DEF ResetBegin, dbVars, history
  <2>4. /\ \A u \in Threads \ {t} : th'[u] = th[u]
        /\ th'[t].pc = "reset_row" /\ th'[t].id = Primary(a) /\ th'[t].rec = row[Primary(a)]
    BY <1>7 DEF ResetBegin, At, TypeOK
  <2>5. ThreadSound(th[t])'
    BY <2>2, <2>3, <2>4 DEF ThreadSound, Sound, IsApproved, HoldsCopy, MayExecute, HasDecided, IsDeciding
  <2> QED
    BY <2>1, <2>3, <2>4, <2>5, QuietStep
<1>8. ASSUME NEW t \in Threads, ResetRow(t)
      PROVE  GateInvariant' /\ DecisionKept
  <2>1. /\ th[t].id \in Ids /\ th[t].rec \in Rows /\ Reverted(th[t].rec) \in Rows
        /\ Sound(th[t].id, th[t].rec)
    BY <1>8, BusyType, RowTypes
       DEF ResetRow, GateInvariant, ThreadsSound, ThreadSound, HoldsCopy, Pcs, Resting
  <2>2. Sound(th[t].id, Reverted(th[t].rec))
    BY <2>1 DEF Sound, Reverted, Rows
  <2>3. /\ UNCHANGED <<queue, decision, runs, recovery>>
        /\ row' = row \/ row' = [row EXCEPT ![th[t].id] = Reverted(th[t].rec)]
    BY <1>8 DEF ResetRow, WriteOrIgnore, Write
  <2>4. (\A u \in Threads \ {t} : th'[u] = th[u]) /\ ThreadSound(th[t])'
    <3>1. "reset_insert" \in Pcs \ Knowing
      BY DEF Pcs, Knowing, HoldsCopy, MayExecute, HasDecided, IsDeciding
    <3> QED
      BY <1>8, <3>1, IdleSound DEF ResetRow
  <2> QED
    BY <2>1, <2>2, <2>3, <2>4, QuietStep
<1>9. ASSUME NEW t \in Threads, ResetInsert(t)
      PROVE  GateInvariant' /\ DecisionKept
  <2>1. /\ FollowUp(th[t].id) \in Ids /\ NewPending \in Rows
        /\ Sound(FollowUp(th[t].id), NewPending)
    BY <1>9, BusyType, IdTypes, NewRowTypes, ClosedSound DEF ResetInsert, IsGated, Pcs, Resting
  <2>2. /\ UNCHANGED <<queue, decision, runs, recovery>>
        /\ row' = row \/ row' = [row EXCEPT ![FollowUp(th[t].id)] = NewPending]
    BY <1>9 DEF ResetInsert, WriteOrIgnore, Write
  <2>3. (\A u \in Threads \ {t} : th'[u] = th[u]) /\ ThreadSound(th[t])'
    <3>1. "reset_push" \in Pcs \ Knowing
      BY DEF Pcs, Knowing, HoldsCopy, MayExecute, HasDecided, IsDeciding
    <3> QED
      BY <1>9, <3>1, IdleSound DEF ResetInsert
  <2> QED
    BY <2>1, <2>2, <2>3, QuietStep
<1>10. ASSUME NEW t \in Threads, ResetPush(t)
      PROVE  GateInvariant' /\ DecisionKept
  BY <1>10, BusyType, PushOrDropSound DEF ResetPush, Pcs, Resting
<1>11. ASSUME NEW t \in Threads, NEW a \in Actions, NEW v \in Verbs, NEW op \in Operators,
             NEW k \in BOOLEAN, Load(t, a, v, op, k)
      PROVE  GateInvariant' /\ DecisionKept
  <2>1. Primary(a) \in Ids /\ NoRow \in Rows
    BY IdTypes, NewRowTypes
  <2>2. UNCHANGED <<row, queue, decision, runs, recovery>>
    BY <1>11 DEF Load, dbVars, history
  <2>3. /\ (\A u \in Threads \ {t} : th'[u] = th[u]) /\ th'[t].pc = "recheck"
        /\ th'[t].id = Primary(a)
    BY <1>11 DEF Load, At, TypeOK
  <2>4. ThreadSound(th[t])'
    BY <1>11, <2>2, <2>3 DEF Load, Decidable, ThreadSound, HoldsCopy, MayExecute, HasDecided, IsDeciding
  <2> QED
    BY <2>1, <2>2, <2>3, <2>4, QuietStep
<1>12. ASSUME NEW t \in Threads, Recheck(t)
      PROVE  GateInvariant' /\ DecisionKept
  <2>1. th[t].id \in Ids /\ NoRow \in Rows
    BY <1>12, BusyType, NewRowTypes DEF Recheck, Pcs, Resting
  <2>2. UNCHANGED <<row, queue, decision, runs, recovery>>
    BY <1>12 DEF Recheck, dbVars, history
  <2>3. CASE Leave(t)
    BY <1>12, <2>1, <2>2, <2>3, IdleSound, QuietStep
  <2>4. CASE Decidable(row[th[t].id]) /\ Goto(t, "update")
    <3>1. /\ \A u \in Threads \ {t} : th'[u] = th[u]
          /\ th'[t].pc = "update" /\ th'[t].id = th[t].id
      BY <1>12, <2>4, BusyType DEF Recheck, Goto, TypeOK, Goroutines
    <3>2. ThreadSound(th[t])'
      BY <2>2, <2>4, <3>1
         DEF Decidable, ThreadSound, HoldsCopy, MayExecute, HasDecided, IsDeciding
    <3> QED
      BY <2>1, <2>2, <3>1, <3>2, QuietStep
  <2> QED
    BY <1>12, <2>3, <2>4 DEF Recheck
<1>13. ASSUME NEW t \in Threads, Update(t)
      PROVE  GateInvariant' /\ DecisionKept
  <2>0. PICK i \in Ids : i = th[t].id
    BY <1>13, BusyType DEF Update, Pcs, Resting
  <2>1. i \in Ids /\ i[1] \in Actions /\ RowSound(i) /\ row[i].lifecycle # "none"
    BY <1>13, <2>0, IdTypes
       DEF Update, GateInvariant, RowsSound, ThreadsSound, ThreadSound, IsDeciding
  <2>2. UNCHANGED <<queue, runs, recovery>>
    BY <1>13 DEF Update
  <2>3. CASE UNCHANGED <<row, decision>> /\ Leave(t)
    BY <2>1, <2>2, <2>3, IdleSound, NewRowTypes, QuietStep
  <2>4. CASE DecideRow(t) /\ Goto(t, "verify")
    <3>1. /\ \A u \in Threads \ {t} : th'[u] = th[u]
          /\ th'[t].pc = "verify" /\ th'[t].id = i
      BY <2>0, <2>4, BusyType DEF Goto, TypeOK, Goroutines
    <3>2. CASE ~Decidable(row[i])
      <4>1. UNCHANGED <<row, decision>>
        BY <2>0, <2>4, <3>2 DEF DecideRow
      <4>2. Sound(i, row[i])
        BY <2>1, <3>2, RowFacts DEF RowSound, Decidable
      <4>3. ThreadSound(th[t])'
        BY <3>1, <4>1, <4>2
           DEF ThreadSound, HoldsCopy, MayExecute, HasDecided, IsDeciding, Sound, IsApproved
      <4> QED
        BY <2>1, <2>2, <3>1, <4>1, <4>3, NewRowTypes, QuietStep
    <3>3. CASE Decidable(row[i])
      <4>1. PICK r \in {Approved(row[i], th[t].actor, Bypass(t)), Rejected(row[i])},
                  d \in {"approved", "rejected"} :
                /\ row' = [row EXCEPT ![i] = r]
                /\ decision' = [decision EXCEPT ![i[1]] = d]
                /\ d = "rejected" => r = Rejected(row[i])
        BY <2>0, <2>4, <3>3 DEF DecideRow
      <4>2. /\ r.lifecycle \in {"pending", "completed"}
            /\ r.lifecycle = "pending" => d = "approved"
        BY <2>1, <4>1 DEF Approved, Rejected, Completed, TypeOK, Rows
      <4>3. /\ row'[i] = r /\ decision'[i[1]] = d
            /\ \A j \in Ids \ {i} : row'[j] = row[j]
            /\ \A a \in Actions : a # i[1] => decision'[a] = decision[a]
        BY <2>1, <4>1 DEF TypeOK
      <4>4. i = Primary(i[1])
        BY <2>1, <3>3, RowFacts, GatedIds DEF RowSound, Decidable, Sound
      <4>5. /\ RowsSound' /\ QueuesSound' /\ RecoverySound' /\ ApprovalGate'
            /\ PastKept /\ DecisionKept /\ Sound(i, row[i])'
        <5>1. PICK a \in Actions : a = i[1] /\ Primary(a) = i
          BY <2>1, <4>4
        <5>2. \A b \in {a} :
                 /\ Decidable(row[Primary(b)]) /\ decision'[b] # "none"
                 /\ row'[Primary(b)].lifecycle \in {"pending", "completed"}
                 /\ row'[Primary(b)].lifecycle = "pending" => decision'[b] = "approved"
          BY <3>3, <4>2, <4>3, <5>1
        <5>3. \A b \in Actions \ {a} : decision'[b] = decision[b]
          BY <4>3, <5>1
        <5>4. \A j \in Ids : (\A b \in {a} : j # Primary(b)) => row'[j] = row[j]
          BY <4>3, <5>1
        <5>5. {a} \in SUBSET Actions
          BY <5>1
        <5> QED
          BY <2>2, <5>1, <5>2, <5>3, <5>4, <5>5, DecideSound
      <4>6. ThreadSound(th[t])'
        BY <3>1, <4>5
           DEF ThreadSound, HoldsCopy, MayExecute, HasDecided, IsDeciding, Sound, IsApproved
      <4> QED
        BY <3>1, <4>5, <4>6, OthersSound DEF GateInvariant
    <3> QED
      BY <3>2, <3>3
  <2> QED
    BY <1>13, <2>3, <2>4 DEF Update
<1>14. ASSUME NEW t \in Threads, Verify(t)
      PROVE  GateInvariant' /\ DecisionKept
  <2>0. PICK i \in Ids : i = th[t].id
    BY <1>14, BusyType DEF Verify, Pcs, Resting
  <2>1. UNCHANGED <<row, queue, decision, runs, recovery>>
    BY <1>14 DEF Verify, EndsCall
  <2>2. Sound(i, row[i])
    BY <1>14, <2>0 DEF Verify, GateInvariant, ThreadsSound, ThreadSound, HasDecided
  <2>3. Sound(i, row[i])'
    BY <2>1, <2>2 DEF Sound, IsApproved
  <2>4. Leave(t) \/ AfterMerge(t) \/ Goto(t, "merge_read")
    BY <1>14 DEF Verify, EndsCall
  <2>5. (\A u \in Threads \ {t} : th'[u] = th[u]) /\ ThreadSound(th[t])'
    BY <2>0, <2>3, <2>4, IdleSound, AfterMergeSound
  <2> QED
    BY <2>1, <2>5, NewRowTypes, QuietStep
<1>15. ASSUME NEW t \in Threads, MergeRead(t)
      PROVE  GateInvariant' /\ DecisionKept
  <2>0. PICK i \in Ids : i = th[t].id
    BY <1>15, BusyType DEF MergeRead, Pcs, Resting
  <2>1. UNCHANGED <<row, queue, decision, runs, recovery>>
    BY <1>15 DEF MergeRead, EndsCall
  <2>2. Sound(i, row[i])
    BY <1>15, <2>0 DEF MergeRead, GateInvariant, ThreadsSound, ThreadSound, HasDecided
  <2>3. CASE Leave(t)
    BY <2>1, <2>2, <2>3, IdleSound, NewRowTypes, QuietStep
  <2>4. CASE Carries(t, "merge_write", row[i])
    <3>1. /\ \A u \in Threads \ {t} : th'[u] = th[u]
          /\ th'[t].pc = "merge_write" /\ th'[t].id = i /\ th'[t].rec = row[i]
      BY <2>0, <2>4, CarryFacts
    <3>2. ThreadSound(th[t])'
      BY <2>1, <2>2, <3>1
         DEF ThreadSound, HoldsCopy, MayExecute, HasDecided, IsDeciding, Sound, IsApproved
    <3> QED
      BY <2>1, <3>1, <3>2, NewRowTypes, QuietStep
  <2> QED
    BY <1>15, <2>0, <2>3, <2>4 DEF MergeRead, EndsCall, Carries
<1>16. ASSUME NEW t \in Threads, MergeWrite(t)
      PROVE  GateInvariant' /\ DecisionKept
  <2>0. PICK i \in Ids, r \in Rows : i = th[t].id /\ r = th[t].rec
    BY <1>16, BusyType DEF MergeWrite, Pcs, Resting
  <2>1. UNCHANGED <<queue, decision, runs, recovery>>
    BY <1>16 DEF MergeWrite
  <2>2. Sound(i, r)
    BY <1>16, <2>0 DEF MergeWrite, GateInvariant, ThreadsSound, ThreadSound, HoldsCopy
  <2>3. CASE row' = row /\ Leave(t)
    BY <2>1, <2>2, <2>3, IdleSound, QuietStep
  <2>4. CASE Write(i, r) /\ AfterMerge(t)
    <3>1. row' = [row EXCEPT ![i] = r]
      BY <2>4 DEF Write
    <3>2. row'[i] = r
      BY <3>1 DEF TypeOK
    <3>3. Sound(i, row[i])'
      BY <2>1, <2>2, <3>2 DEF Sound, IsApproved
    <3>4. (\A u \in Threads \ {t} : th'[u] = th[u]) /\ ThreadSound(th[t])'
      BY <2>0, <2>4, <3>3, AfterMergeSound
    <3> QED
      BY <2>1, <2>2, <3>1, <3>4, QuietStep
  <2> QED
    BY <1>16, <2>0, <2>3, <2>4 DEF MergeWrite, EndsCall
<1>17. ASSUME NEW t \in Threads, Reload(t)
      PROVE  GateInvariant' /\ DecisionKept
  <2>0. PICK i \in Ids : i = th[t].id
    BY <1>17, BusyType DEF Reload, Pcs, Resting
  <2>1. UNCHANGED <<row, queue, decision, runs, recovery>>
    BY <1>17 DEF Reload, EndsCall
  <2>2. Sound(i, row[i])
    BY <1>17, <2>0 DEF Reload, GateInvariant, ThreadsSound, ThreadSound, HasDecided
  <2>3. CASE Leave(t)
    BY <2>1, <2>2, <2>3, IdleSound, NewRowTypes, QuietStep
  <2>4. CASE Carries(t, "push_approved", row[i])
    <3>1. /\ \A u \in Threads \ {t} : th'[u] = th[u]
          /\ th'[t].pc = "push_approved" /\ th'[t].id = i /\ th'[t].rec = row[i]
      BY <2>0, <2>4, CarryFacts
    <3>2. ThreadSound(th[t])'
      BY <2>1, <2>2, <3>1
         DEF ThreadSound, HoldsCopy, MayExecute, HasDecided, IsDeciding, Sound, IsApproved
    <3> QED
      BY <2>1, <3>1, <3>2, NewRowTypes, QuietStep
  <2> QED
    BY <1>17, <2>0, <2>3, <2>4 DEF Reload, EndsCall, Carries
<1>18. ASSUME NEW t \in Threads, PushApproved(t)
      PROVE  GateInvariant' /\ DecisionKept
  <2>0. PICK i \in Ids, r \in Rows : i = th[t].id /\ r = th[t].rec
    BY <1>18, BusyType DEF PushApproved, Pcs, Resting
  <2>1. UNCHANGED <<row, decision, runs, recovery>>
    BY <1>18 DEF PushApproved, dbVars
  <2>2. Sound(i, r)
    BY <1>18, <2>0 DEF PushApproved, GateInvariant, ThreadsSound, ThreadSound, HoldsCopy
  <2>3. UNCHANGED queue \/ Enqueue(t, i, r)
    BY <1>18, <2>0 DEF PushApproved
  <2>4. \A u \in Threads \ {t} : th'[u] = th[u]
    BY <1>18 DEF PushApproved, Leave, TypeOK
  <2>5. th'[t].pc \in Resting
    BY <1>18, ReturnType DEF PushApproved, Leave, TypeOK, At, Resting
  <2>6. ThreadSound(th[t])'
    BY <2>5 DEF ThreadSound, HoldsCopy, MayExecute, HasDecided, IsDeciding, Resting
  <2> QED
    BY <2>1, <2>2, <2>3, <2>4, <2>6, QuietStep
<1>19. ASSUME NEW t \in Threads, CheckFreeze(t)
      PROVE  GateInvariant' /\ DecisionKept
  <2>0. PICK i \in Ids, r \in Rows : i = th[t].id /\ r = th[t].rec
    BY <1>19, BusyType DEF CheckFreeze, Pcs, Resting
  <2>1. UNCHANGED <<row, queue, decision, runs, recovery>>
    BY <1>19 DEF CheckFreeze, dbVars, history
  <2>2. Sound(i, r) /\ (IsGated(i) => IsApproved(i))
    BY <1>19, <2>0 DEF CheckFreeze, GateInvariant, ThreadsSound, ThreadSound, MayExecute
  <2>3. RefuseWith(t, FreezeRefusal(r)) \/ Goto(t, "maintenance")
    BY <1>19, <2>0 DEF CheckFreeze
  <2>3a. FreezeRefusal(r) \in Rows /\ Sound(i, FreezeRefusal(r))
    BY ClosedSound, RowTypes
  <2>4. (\A u \in Threads \ {t} : th'[u] = th[u]) /\ ThreadSound(th[t])'
    BY <2>0, <2>1, <2>2, <2>3, <2>3a, HeldSound
  <2> QED
    BY <2>1, <2>4, NewRowTypes, QuietStep
<1>20. ASSUME NEW t \in Threads, CheckMaintenance(t)
      PROVE  GateInvariant' /\ DecisionKept
  <2>0. PICK i \in Ids, r \in Rows : i = th[t].id /\ r = th[t].rec
    BY <1>20, BusyType DEF CheckMaintenance, Pcs, Resting
  <2>1. UNCHANGED <<row, queue, decision, runs, recovery>>
    BY <1>20 DEF CheckMaintenance, dbVars, history
  <2>2. Sound(i, r) /\ (IsGated(i) => IsApproved(i))
    BY <1>20, <2>0 DEF CheckMaintenance, GateInvariant, ThreadsSound, ThreadSound, MayExecute
  <2>3. \/ RefuseWith(t, MaintenanceRefusal(r)) \/ RefuseWith(t, AdvisoryRefusal(r))
        \/ Goto(t, "start")
    BY <1>20, <2>0 DEF CheckMaintenance, AfterHolds
  <2>3a. /\ MaintenanceRefusal(r) \in Rows /\ Sound(i, MaintenanceRefusal(r))
         /\ AdvisoryRefusal(r) \in Rows /\ Sound(i, AdvisoryRefusal(r))
    BY ClosedSound, RowTypes
  <2>4. (\A u \in Threads \ {t} : th'[u] = th[u]) /\ ThreadSound(th[t])'
    BY <2>0, <2>1, <2>2, <2>3, <2>3a, HeldSound
  <2> QED
    BY <2>1, <2>4, NewRowTypes, QuietStep
<1>21. ASSUME NEW t \in Threads, Refuse(t)
      PROVE  GateInvariant' /\ DecisionKept
  <2>0. PICK i \in Ids, r \in Rows : i = th[t].id /\ r = th[t].rec
    BY <1>21, BusyType DEF Refuse, Pcs, Resting
  <2>1. UNCHANGED <<queue, decision, runs, recovery>>
    BY <1>21 DEF Refuse
  <2>2. Sound(i, r)
    BY <1>21, <2>0 DEF Refuse, GateInvariant, ThreadsSound, ThreadSound, HoldsCopy
  <2>3. row' = row \/ row' = [row EXCEPT ![i] = r]
    BY <1>21, <2>0 DEF Refuse, WriteOrIgnore, Write
  <2>4. (\A u \in Threads \ {t} : th'[u] = th[u]) /\ ThreadSound(th[t])'
    BY <1>21, IdleSound DEF Refuse
  <2> QED
    BY <2>1, <2>2, <2>3, <2>4, QuietStep
<1>22. ASSUME NEW t \in Threads, StartAction(t)
      PROVE  GateInvariant' /\ DecisionKept
  <2>0. PICK i \in Ids, r \in Rows : i = th[t].id /\ r = th[t].rec
    BY <1>22, BusyType DEF StartAction, Pcs, Resting
  <2>1. UNCHANGED <<queue, decision, runs, recovery>>
    BY <1>22 DEF StartAction
  <2>2. Sound(i, r) /\ (IsGated(i) => IsApproved(i))
    BY <1>22, <2>0 DEF StartAction, GateInvariant, ThreadsSound, ThreadSound, MayExecute
  <2>3. Running(r) \in Rows /\ Sound(i, Running(r))
    BY <2>2, RowTypes DEF Running, Sound, Rows
  <2>4. CASE row' = row /\ Leave(t)
    BY <2>1, <2>3, <2>4, IdleSound, QuietStep
  <2>5. CASE /\ row' = [row EXCEPT ![i] = Running(r)]
             /\ th' = [th EXCEPT ![t].pc = "act", ![t].rec = Running(r)]
    <3>0. PICK q \in Rows : q = Running(r)
      BY <2>3
    <3>1. /\ \A u \in Threads \ {t} : th'[u] = th[u]
          /\ th'[t].pc = "act" /\ th'[t].id = i /\ th'[t].rec = q
      <4>1. Carries(t, "act", q)
        BY <2>5, <3>0 DEF Carries
      <4> QED
        BY <2>0, <4>1, CarryFacts
    <3>2. ThreadSound(th[t])'
      BY <2>1, <2>2, <2>3, <3>0, <3>1
         DEF ThreadSound, HoldsCopy, MayExecute, HasDecided, IsDeciding, Sound, IsApproved
    <3> QED
      BY <2>1, <2>3, <2>5, <3>1, <3>2, QuietStep
  <2> QED
    BY <1>22, <2>0, <2>4, <2>5 DEF StartAction, Write, EndsCall
<1>23. ASSUME NEW t \in Threads, Act(t)
      PROVE  GateInvariant' /\ DecisionKept
  <2>0. PICK i \in Ids, r \in Rows : i = th[t].id /\ r = th[t].rec
    BY <1>23, BusyType DEF Act, Pcs, Resting
  <2>1. UNCHANGED <<row, queue, decision, recovery>>
    BY <1>23 DEF Act, dbVars
  <2>2. IsGated(i) => IsApproved(i)
    BY <1>23, <2>0 DEF Act, GateInvariant, ThreadsSound, ThreadSound, MayExecute
  <2>3. PICK q :
             /\ th' = [th EXCEPT ![t].pc = "finish", ![t].rec = q]
             /\ \E outcome \in Outcomes : q = Executed(i, r, outcome)
             /\ runs' = runs \/ runs' = [runs EXCEPT ![i] = @ + 1]
    BY <1>23, <2>0 DEF Act
  <2>4. Sound(i, q)
    BY <2>3, ClosedSound
  <2>5. /\ \A u \in Threads \ {t} : th'[u] = th[u]
        /\ th'[t].pc = "finish" /\ th'[t].id = i /\ th'[t].rec = q
    <3>1. Carries(t, "finish", q)
      BY <2>3 DEF Carries
    <3> QED
      BY <2>0, <3>1, CarryFacts
  <2>6. ThreadSound(th[t])'
    BY <2>1, <2>4, <2>5
       DEF ThreadSound, HoldsCopy, MayExecute, HasDecided, IsDeciding, Sound, IsApproved
  <2>7. RowsSound' /\ PastKept /\ DecisionKept
    BY <2>1, NewRowTypes, WriteSound
  <2>8. ApprovalGate'
    <3> SUFFICES ASSUME NEW a \in Gated, runs'[Primary(a)] > 0 PROVE decision'[a] = "approved"
      BY DEF ApprovalGate
    <3>1. a \in Actions /\ Primary(a) \in Ids /\ Primary(a)[1] = a /\ IsPrimary(Primary(a))
      BY IdTypes, ActionsAssumption
    <3>2. CASE Primary(a) = i
      BY <2>1, <2>2, <3>1, <3>2 DEF IsGated, IsApproved
    <3>3. CASE Primary(a) # i
      <4>1. runs'[Primary(a)] = runs[Primary(a)]
        BY <2>3, <3>1, <3>3 DEF TypeOK
      <4> QED
        BY <2>1, <4>1 DEF GateInvariant, ApprovalGate
    <3> QED
      BY <3>2, <3>3
  <2>9. QueuesSound' /\ RecoverySound'
    BY <2>1, <2>7, KeptSound
  <2>10. ThreadsSound'
    BY <2>5, <2>6, <2>7, OthersSound
  <2> QED
    BY <2>7, <2>8, <2>9, <2>10 DEF GateInvariant
<1>24. ASSUME NEW t \in Threads, Finish(t)
      PROVE  GateInvariant' /\ DecisionKept
  <2>0. PICK i \in Ids, r \in Rows : i = th[t].id /\ r = th[t].rec
    BY <1>24, BusyType DEF Finish, Pcs, Resting
  <2>1. UNCHANGED <<queue, decision, runs, recovery>>
    BY <1>24 DEF Finish
  <2>2. Sound(i, r)
    BY <1>24, <2>0 DEF Finish, GateInvariant, ThreadsSound, ThreadSound, HoldsCopy
  <2>3. row' = row \/ row' = [row EXCEPT ![i] = r]
    BY <1>24, <2>0 DEF Finish, WriteOrIgnore, Write
  <2>4. (\A u \in Threads \ {t} : th'[u] = th[u]) /\ ThreadSound(th[t])'
    <3>1. "seen" \in Pcs \ Knowing
      BY DEF Pcs, Knowing, HoldsCopy, MayExecute, HasDecided, IsDeciding
    <3> QED
      BY <1>24, <3>1, IdleSound DEF Finish
  <2> QED
    BY <2>1, <2>2, <2>3, <2>4, QuietStep
<1>25. ASSUME NEW t \in Threads, SeenFollowUp(t)
      PROVE  GateInvariant' /\ DecisionKept
  <2>1. th[t].id \in Ids
    BY <1>25, BusyType DEF SeenFollowUp, Pcs, Resting
  <2>2. UNCHANGED <<row, queue, decision, runs, recovery>>
    BY <1>25 DEF SeenFollowUp, dbVars, history
  <2>3. (\A u \in Threads \ {t} : th'[u] = th[u]) /\ ThreadSound(th[t])'
    <3>1. "insert_followup" \in Pcs \ Knowing
      BY DEF Pcs, Knowing, HoldsCopy, MayExecute, HasDecided, IsDeciding
    <3> QED
      BY <1>25, <3>1, IdleSound DEF SeenFollowUp
  <2> QED
    BY <2>1, <2>2, <2>3, NewRowTypes, QuietStep
<1>26. ASSUME NEW t \in Threads, InsertFollowUp(t)
      PROVE  GateInvariant' /\ DecisionKept
  <2>1. /\ FollowUp(th[t].id) \in Ids /\ NewPending \in Rows
        /\ Sound(FollowUp(th[t].id), NewPending)
    BY <1>26, BusyType, IdTypes, NewRowTypes, ClosedSound
       DEF InsertFollowUp, IsGated, Pcs, Resting
  <2>2. /\ UNCHANGED <<queue, decision, runs, recovery>>
        /\ row' = row \/ row' = [row EXCEPT ![FollowUp(th[t].id)] = NewPending]
    BY <1>26 DEF InsertFollowUp, Write
  <2>3. (\A u \in Threads \ {t} : th'[u] = th[u]) /\ ThreadSound(th[t])'
    <3>1. "push_followup" \in Pcs \ Knowing
      BY DEF Pcs, Knowing, HoldsCopy, MayExecute, HasDecided, IsDeciding
    <3> QED
      BY <1>26, <3>1, IdleSound DEF InsertFollowUp
  <2> QED
    BY <2>1, <2>2, <2>3, QuietStep
<1>27. ASSUME NEW t \in Threads, PushFollowUp(t)
      PROVE  GateInvariant' /\ DecisionKept
  BY <1>27, BusyType, PushOrDropSound DEF PushFollowUp, Pcs, Resting
<1>28. ASSUME NEW t \in Threads, Dequeue(t)
      PROVE  GateInvariant' /\ DecisionKept
  <2>1. UNCHANGED <<row, decision, runs, recovery>>
    BY <1>28 DEF Dequeue, dbVars, history
  <2>2. /\ Home(t) \in Processes /\ queue[Home(t)] \in Seq(Copies)
        /\ queue[Home(t)] # <<>>
    BY <1>28 DEF Dequeue, Home, Processes, TypeOK
  <2>3. PICK i \in Ids, r \in Rows :
             i = Head(queue[Home(t)]).id /\ r = Head(queue[Home(t)]).rec
    <3>1. Head(queue[Home(t)]) \in Copies
      BY <2>2, HeadTailProperties
    <3> QED
      BY <3>1 DEF Copies
  <2>4. RowsSound' /\ PastKept /\ DecisionKept
    BY <2>1, WriteSound
  <2>5. Sound(i, r)
    <3>1. 1 \in 1..Len(queue[Home(t)]) /\ Head(queue[Home(t)]) = queue[Home(t)][1]
      BY <2>2, EmptySeq, LenProperties
    <3> QED
      BY <2>2, <2>3, <3>1 DEF GateInvariant, QueuesSound
  <2>6. QueuesSound'
    BY <1>28, <2>2, <2>4, TailSound DEF Dequeue
  <2>7. (\A u \in Threads \ {t} : th'[u] = th[u]) /\ ThreadSound(th[t])'
    <3>1. CASE GateOpen(i, r)
      <4>1. /\ \A u \in Threads \ {t} : th'[u] = th[u]
            /\ th'[t].pc = "freeze" /\ th'[t].id = i /\ th'[t].rec = r
        BY <1>28, <2>3, <3>1 DEF Dequeue, At, TypeOK
      <4>2. IsGated(i) => IsApproved(i)
        BY <2>5, <3>1 DEF GateOpen, Sound
      <4> QED
        BY <2>1, <2>5, <4>1, <4>2
           DEF ThreadSound, HoldsCopy, MayExecute, HasDecided, IsDeciding, Sound, IsApproved
    <3>2. CASE ~GateOpen(i, r)
      <4>1. Leave(t)
        BY <1>28, <2>3, <2>5, <3>2 DEF Dequeue, GatedStop, Sound
      <4> QED
        BY <4>1, IdleSound
    <3> QED
      BY <3>1, <3>2
  <2>8. ThreadsSound'
    BY <2>4, <2>7, OthersSound
  <2>9. RecoverySound' /\ ApprovalGate'
    BY <2>1, <2>4, KeptSound
  <2> QED
    BY <2>4, <2>6, <2>8, <2>9 DEF GateInvariant
<1>29. ASSUME NEW c \in Clis, CliEnds(c)
      PROVE  GateInvariant' /\ DecisionKept
  <2>1. c \in Threads /\ c \in Processes /\ NoId[1] = NoAction
    BY DEF Threads, Handlers, Processes, NoId
  <2>2. UNCHANGED <<row, decision, runs, recovery>>
    BY <1>29 DEF CliEnds, dbVars
  <2>3. RowsSound' /\ PastKept /\ DecisionKept
    BY <2>2, Unwritten
  <2>4. QueuesSound'
    BY <1>29, <2>1, <2>3, TailSound DEF CliEnds
  <2>5. (\A u \in Threads \ {c} : th'[u] = th[u]) /\ ThreadSound(th[c])'
    BY <1>29, <2>1 DEF CliEnds, TypeOK, At, ThreadSound, HoldsCopy, MayExecute, HasDecided,
                       IsDeciding
  <2>6. ThreadsSound'
    BY <2>1, <2>3, <2>5, OthersSound
  <2>7. RecoverySound' /\ ApprovalGate'
    BY <2>2, <2>3, KeptSound
  <2> QED
    BY <2>3, <2>4, <2>6, <2>7 DEF GateInvariant
<1>30. ASSUME Crash
      PROVE  GateInvariant' /\ DecisionKept
  <2>1. UNCHANGED <<row, decision, runs>> /\ recovery' = {}
    BY <1>30 DEF Crash, dbVars, history
  <2>2. RowsSound' /\ PastKept /\ DecisionKept
    BY <2>1, Unwritten
  <2>3. QueuesSound'
    BY <1>30, <2>2, TailSound DEF Crash, Processes
  <2>4. \A t \in Threads : th'[t] = th[t] \/ th'[t].pc = "idle"
    BY <1>30 DEF Crash, At
  <2>5. ThreadsSound'
    BY <2>2, <2>4, QuietThreads
       DEF HoldsCopy, MayExecute, HasDecided, IsDeciding, Knowing
  <2>6. RecoverySound' /\ ApprovalGate'
    BY <2>1, <2>2, KeptSound DEF RecoverySound
  <2> QED
    BY <2>2, <2>3, <2>5, <2>6 DEF GateInvariant
<1>31. ASSUME Restart
      PROVE  GateInvariant' /\ DecisionKept
  <2>1. UNCHANGED <<row, decision, runs, queue>>
    BY <1>31 DEF Restart, dbVars
  <2>2. RowsSound' /\ PastKept /\ DecisionKept
    BY <2>1, Unwritten
  <2>3. QueuesSound' /\ ApprovalGate'
    BY <2>1, <2>2, KeptSound
  <2>4. RecoverySound'
    <3> SUFFICES ASSUME NEW c \in recovery' PROVE Sound(c.id, c.rec)'
      BY DEF RecoverySound
    <3>1. PICK i \in IncompleteIds : c = Copy(i, row[i])
      BY <1>31 DEF Restart
    <3>2. i \in Ids /\ row[i].lifecycle \in InFlight /\ c.id = i /\ c.rec = row[i]
      BY <3>1 DEF IncompleteIds, Incomplete, Copy
    <3>3. Sound(i, row[i])
      BY <3>2, RowFacts DEF GateInvariant, RowsSound, RowSound, InFlight
    <3> QED
      BY <2>1, <3>2, <3>3 DEF Sound, IsApproved
  <2>5. Executor \in Threads /\ "recover" \in Pcs \ Knowing /\ Goto(Executor, "recover")
    BY <1>31
       DEF Restart, Threads, Pcs, Knowing, HoldsCopy, MayExecute, HasDecided, IsDeciding
  <2>6. ThreadsSound'
    BY <2>2, <2>5, IdleSound, OthersSound
  <2> QED
    BY <2>2, <2>3, <2>4, <2>6 DEF GateInvariant
<1>32. ASSUME NEW c \in recovery, RecoverRow(c)
      PROVE  GateInvariant' /\ DecisionKept
  <2>1. PICK i \in Ids, r \in Rows : i = c.id /\ r = Recovered(c.id, c.rec)
    BY RowTypes DEF TypeOK, Copies
  <2>2. Sound(i, r)
    BY <2>1, ClosedSound DEF TypeOK, Copies
  <2>3. /\ UNCHANGED <<queue, decision, runs>> /\ recovery' \subseteq recovery
        /\ row' = row \/ row' = [row EXCEPT ![i] = r]
    BY <1>32, <2>1 DEF RecoverRow, WriteOrIgnore, Write
  <2>4. RowsSound' /\ PastKept /\ DecisionKept
    BY <2>2, <2>3, WriteSound
  <2>5. QueuesSound' /\ ApprovalGate'
    BY <2>3, <2>4, KeptSound
  <2>6. RecoverySound'
    <3> SUFFICES ASSUME NEW d \in recovery' PROVE Sound(d.id, d.rec)'
      BY DEF RecoverySound
    <3>1. d.id \in Ids /\ Sound(d.id, d.rec)
      BY <2>3 DEF TypeOK, Copies, GateInvariant, RecoverySound
    <3> QED
      BY <2>4, <3>1, SoundKept DEF Sound, IsApproved
  <2>7. \A t \in Threads : th'[t] = th[t] \/ th'[t].pc = "seen"
    BY <1>32 DEF RecoverRow, At, TypeOK
  <2>8. ThreadsSound'
    BY <2>4, <2>7, QuietThreads
       DEF HoldsCopy, MayExecute, HasDecided, IsDeciding, Knowing
  <2> QED
    BY <2>4, <2>5, <2>6, <2>8 DEF GateInvariant
<1>33. ASSUME StartWorkers
      PROVE  GateInvariant' /\ DecisionKept
  <2>1. UNCHANGED <<row, queue, decision, runs, recovery>>
    BY <1>33 DEF StartWorkers, dbVars, history
  <2>2. Executor \in Threads /\ "idle" \in Pcs \ Knowing /\ Goto(Executor, "idle")
    BY <1>33
       DEF StartWorkers, Threads, Pcs, Knowing, HoldsCopy, MayExecute, HasDecided, IsDeciding
  <2>3. RowsSound' /\ PastKept /\ DecisionKept
    BY <2>1, Unwritten
  <2>4. ThreadsSound'
    BY <2>2, <2>3, IdleSound, OthersSound
  <2>5. QueuesSound' /\ RecoverySound' /\ ApprovalGate'
    BY <2>1, <2>3, KeptSound
  <2> QED
    BY <2>3, <2>4, <2>5 DEF GateInvariant
<1>34. ASSUME NEW hs, EndHolds(hs)
      PROVE  GateInvariant' /\ DecisionKept
  <2>1. UNCHANGED <<row, queue, decision, runs, recovery>>
    BY <1>34 DEF EndHolds, history
  <2>2. RowsSound' /\ PastKept /\ DecisionKept
    BY <2>1, Unwritten
  <2>3. \A t \in Threads : th'[t].pc = th[t].pc /\ th'[t].id = th[t].id /\ th'[t].rec = th[t].rec
    BY <1>34, BusyType DEF EndHolds, Goroutines
  <2>4. ThreadsSound'
    BY <2>1, <2>3 DEF GateInvariant, ThreadsSound, ThreadSound, Sound, IsApproved
  <2>5. QueuesSound' /\ RecoverySound' /\ ApprovalGate'
    BY <2>1, <2>2, KeptSound
  <2> QED
    BY <2>2, <2>4, <2>5 DEF GateInvariant
<1>35. CASE UNCHANGED <<row, queue, th, recovery, decision, runs>>
  <2>1. RowsSound' /\ PastKept /\ DecisionKept
    BY <1>35, Unwritten
  <2>2. ThreadsSound'
    BY <1>35, <2>1, QuietThreads
  <2>3. QueuesSound' /\ RecoverySound' /\ ApprovalGate'
    BY <1>35, <2>1, KeptSound
  <2> QED
    BY <2>1, <2>2, <2>3 DEF GateInvariant
<1>36. ASSUME ExpireStaleApprovals
      PROVE  GateInvariant' /\ DecisionKept
  <2>1. PICK as \in SUBSET Actions :
           /\ \A a \in as : Decidable(row[Primary(a)])
           /\ row' = [i \in Ids |-> IF IsPrimary(i) /\ i[1] \in as THEN Expired(row[i])
                                                                  ELSE row[i]]
           /\ decision' = [a \in Actions |-> IF a \in as THEN "expired" ELSE decision[a]]
           /\ UNCHANGED <<queue, th, recovery, runs>>
    BY <1>36 DEF ExpireStaleApprovals
  <2>2. \A a \in as : row'[Primary(a)] = Expired(row[Primary(a)])
    BY <2>1, IdTypes
  <2>3. \A a \in as : row'[Primary(a)].lifecycle = "completed"
    <3> SUFFICES ASSUME NEW a \in as PROVE row'[Primary(a)].lifecycle = "completed"
      OBVIOUS
    <3>1. row[Primary(a)] \in Rows
      BY IdTypes DEF TypeOK
    <3> QED
      BY <2>2, <3>1 DEF Expired, Completed, Rows
  <2>4. \A a \in as : decision'[a] # "none"
    BY <2>1
  <2>5. \A i \in Ids : (\A a \in as : i # Primary(a)) => row'[i] = row[i]
    BY <2>1, IdTypes
  <2>6. \A a \in Actions \ as : decision'[a] = decision[a]
    BY <2>1
  <2>7. \A a \in as :
           /\ Decidable(row[Primary(a)])
           /\ row'[Primary(a)].lifecycle \in {"pending", "completed"}
           /\ row'[Primary(a)].lifecycle = "pending" => decision'[a] = "approved"
           /\ decision'[a] # "none"
    BY <2>1, <2>3, <2>4
  <2>8. UNCHANGED <<queue, runs, recovery>>
    BY <2>1
  <2>9. /\ RowsSound' /\ QueuesSound' /\ RecoverySound' /\ ApprovalGate'
        /\ PastKept /\ DecisionKept
    BY <2>5, <2>6, <2>7, <2>8, DecideSound
  <2>10. ThreadsSound'
    BY <2>1, <2>9, QuietThreads
  <2> QED
    BY <2>9, <2>10 DEF GateInvariant
<1>37. ASSUME NEW h \in Holds, BeginHold(h)
      PROVE  GateInvariant' /\ DecisionKept
  BY <1>35, <1>37 DEF BeginHold, history
<1>38. CASE UNCHANGED vars
  BY <1>35, <1>38 DEF vars
<1> QED
  <2>1. CASE Next
    BY <1>1, <1>2, <1>3, <1>4, <1>5, <1>6, <1>7, <1>8, <1>9, <1>10, <1>11, <1>12,
       <1>13, <1>14, <1>15, <1>16, <1>17, <1>18, <1>19, <1>20, <1>21, <1>22, <1>23, <1>24,
       <1>25, <1>26, <1>27, <1>28, <1>29, <1>30, <1>31, <1>32, <1>33, <1>34, <1>36,
       <1>37, <2>1
       DEF Next, Propose, QueueReset, Decide, Execute, Recover, Operate, EndHold,
           ExpireOldFreezes, Threads, Handlers, CliExit, CliCrash
  <2> QED
    BY <1>38, <2>1

\* In every reachable state each row, each queued copy and each goroutine is past
\* its decision if it may still be written or run.
THEOREM GateHolds == Spec => []GateInvariant
<1>1. Init /\ [][Next]_vars => []GateInvariant
  BY TypeCorrect, GateInit, GateNext, PTL DEF Spec
<1> QED
  BY <1>1 DEF Spec

\* For every set of actions, goroutines, CLI processes and holds: the actuator of
\* a gated action is called only if an operator's guarded UPDATE approved it.
THEOREM ApprovalGateHolds == Spec => []ApprovalGate
<1>1. GateInvariant => ApprovalGate
  BY DEF GateInvariant
<1> QED
  BY <1>1, GateHolds, PTL

\* For every value of the constants: once the guarded UPDATE or the expiry sweep
\* has decided on an action, no step decides on it again.
THEOREM DecisionIsFinal == Spec => DecisionOnce
<1>1. TypeOK /\ GateInvariant /\ [Next]_vars =>
        [\A a \in Actions : decision[a] # "none" => decision'[a] = decision[a]]_vars
  BY GateNext DEF DecisionKept
<1> QED
  BY <1>1, TypeCorrect, GateHolds, PTL DEF Spec, DecisionOnce

(***************************************************************************)
(* Freezes and maintenance windows.                                        *)
(***************************************************************************)

\* Past the check of the freezes, and past that of the windows.
PastChecks == {"maintenance", "start", "act", "finish"}

\* The holds that a goroutine has been under since its dequeue are in force and cover its
\* row, and no check lets it pass under one of the holds it looks at.
RespectsHolds(s) ==
    /\ \A h \in s.held : Applies(h, s.id)
    /\ s.pc = "maintenance" => s.held \cap Freezes = {}
    /\ s.pc \in {"start", "act", "finish"} => s.held = {}

HoldsRespected == \A t \in Threads : RespectsHolds(th[t])

\* A goroutine that moves anywhere but past a check, or is under no hold, respects them.
LEMMA HeldMove ==
    ASSUME TypeOK, HoldsRespected, UNCHANGED hold, NEW t \in Threads,
           \A u \in Threads \ {t} : th'[u] = th[u],
           \/ th'[t].held = {}
           \/ /\ th'[t].held = th[t].held /\ th'[t].id = th[t].id
              /\ th'[t].pc \notin PastChecks
    PROVE  HoldsRespected'
<1>1. \A u \in Threads \ {t} : RespectsHolds(th[u])'
  BY DEF HoldsRespected, RespectsHolds, Applies
<1>2. RespectsHolds(th[t])
  BY DEF HoldsRespected
<1>3. RespectsHolds(th[t])'
  BY <1>2 DEF RespectsHolds, Applies, PastChecks
<1> QED
  BY <1>1, <1>3 DEF HoldsRespected

\* Such are the goroutines that go on, with their copy or another, ...
LEMMA HeldGoes ==
    ASSUME TypeOK, HoldsRespected, UNCHANGED hold, NEW t \in Threads, NEW pc, pc \notin PastChecks,
           Goto(t, pc) \/ \E r : Carries(t, pc, r)
    PROVE  HoldsRespected'
<1>1. th[t] \in Goroutines
  BY BusyType
<1>2. ASSUME Goto(t, pc) PROVE HoldsRespected'
  <2>1. th'[t] = [th[t] EXCEPT !.pc = pc] /\ \A u \in Threads \ {t} : th'[u] = th[u]
    BY <1>2 DEF Goto, TypeOK
  <2>2. th'[t].pc = pc /\ th'[t].held = th[t].held /\ th'[t].id = th[t].id
    BY <1>1, <2>1 DEF Goroutines
  <2> QED  BY <2>1, <2>2, HeldMove
<1>3. ASSUME NEW r, Carries(t, pc, r) PROVE HoldsRespected'
  <2>1. /\ th'[t] = [th[t] EXCEPT !.pc = pc, !.rec = r]
        /\ \A u \in Threads \ {t} : th'[u] = th[u]
    BY <1>3 DEF Carries, TypeOK
  <2>2. th'[t].pc = pc /\ th'[t].held = th[t].held /\ th'[t].id = th[t].id
    BY <1>1, <2>1 DEF Goroutines
  <2> QED  BY <2>1, <2>2, HeldMove
<1> QED
  BY <1>2, <1>3

\* ... those that start over, ...
LEMMA HeldFresh ==
    ASSUME TypeOK, HoldsRespected, UNCHANGED hold, NEW t \in Threads, NEW s, s.held = {},
           th' = [th EXCEPT ![t] = s]
    PROVE  HoldsRespected'
BY HeldMove DEF TypeOK

\* ... those that return from their call, ...
LEMMA HeldLeaves ==
    ASSUME TypeOK, HoldsRespected, UNCHANGED hold, NEW t \in Threads, Leave(t)
    PROVE  HoldsRespected'
BY HeldFresh DEF Leave, At

\* ... and, all of them, where nothing changes for them.
LEMMA HeldStays ==
    ASSUME HoldsRespected, UNCHANGED <<hold, th>>
    PROVE  HoldsRespected'
BY DEF HoldsRespected, RespectsHolds, Applies

\* When holds end, no goroutine is under them any more.
LEMMA HeldEnds ==
    ASSUME TypeOK, HoldsRespected, NEW hs \in SUBSET Holds, EndHolds(hs)
    PROVE  HoldsRespected'
<1> SUFFICES ASSUME NEW t \in Threads PROVE RespectsHolds(th[t])'
  BY DEF HoldsRespected
<1>1. th[t] \in Goroutines /\ RespectsHolds(th[t]) /\ th[t].held \subseteq Holds
  BY BusyType DEF HoldsRespected
<1>2. th'[t] = [th[t] EXCEPT !.held = @ \ hs]
  BY DEF EndHolds
<1>3. th'[t].held = th[t].held \ hs /\ th'[t].id = th[t].id /\ th'[t].pc = th[t].pc
  BY <1>1, <1>2 DEF Goroutines
<1>4. \A h \in th[t].held \ hs : hold'[h] = hold[h]
  BY <1>1 DEF EndHolds
<1> QED
  BY <1>1, <1>3, <1>4 DEF RespectsHolds, Applies

\* When no statement fails, every action respects the holds.
LEMMA HeldNext ==
    ASSUME MaxFaults = 0
    PROVE  TypeOK /\ HoldsRespected /\ [Next]_vars => HoldsRespected'
<1> SUFFICES ASSUME TypeOK, HoldsRespected, [Next]_vars PROVE HoldsRespected'
  OBVIOUS
<1>f. ~StatementFails
  BY DEF StatementFails, TypeOK
<1>g. {"exit", "recover", "idle", "drop_new", "reset_insert", "reset_push", "update", "verify",
       "merge_read", "merge_write", "reload", "push_approved", "refuse", "seen",
       "insert_followup", "push_followup"} \cap PastChecks = {}
  BY DEF PastChecks
<1>1. ASSUME NEW t \in Threads, Propose(t) PROVE HoldsRespected'
  <2>1. ASSUME NEW a \in Actions, ProposeDenied(t, a) \/ ProposeBlocked(t, a) \/ ProposeGated(t, a)
        PROVE  HoldsRespected'
    BY <2>1, HeldLeaves DEF ProposeDenied, ProposeBlocked, ProposeGated, ClosesAtOnce
  <2>2. ASSUME NEW a \in Actions, ProposeAuto(t, a) PROVE HoldsRespected'
    BY <2>2, HeldFresh DEF ProposeAuto, At
  <2>3. CASE PushNew(t)
    BY <1>g, <2>3, HeldLeaves, HeldGoes DEF PushNew, dbVars
  <2>4. CASE DropNew(t)
    BY <2>4, HeldLeaves DEF DropNew
  <2> QED  BY <1>1, <2>1, <2>2, <2>3, <2>4 DEF Propose
<1>2. ASSUME NEW t \in Threads, QueueReset(t) PROVE HoldsRespected'
  <2>1. ASSUME NEW a \in Actions, ResetBegin(t, a) PROVE HoldsRespected'
    BY <2>1, HeldFresh DEF ResetBegin, At, dbVars
  <2>2. CASE ResetRow(t) \/ ResetInsert(t)
    BY <1>g, <2>2, HeldGoes DEF ResetRow, ResetInsert
  <2>3. CASE ResetPush(t)
    BY <2>3, HeldLeaves DEF ResetPush, PushOrDrop, dbVars
  <2> QED  BY <1>2, <2>1, <2>2, <2>3 DEF QueueReset
<1>3. ASSUME NEW t \in Threads, Decide(t) PROVE HoldsRespected'
  <2>1. ASSUME NEW a \in Actions, NEW verb \in Verbs, NEW actor \in Operators, NEW ack \in BOOLEAN,
               Load(t, a, verb, actor, ack)
        PROVE  HoldsRespected'
    BY <2>1, HeldFresh DEF Load, At, dbVars
  <2>2. CASE Recheck(t)
    BY <1>g, <2>2, HeldLeaves, HeldGoes DEF Recheck, dbVars
  <2>3. CASE Update(t)
    BY <1>g, <2>3, HeldLeaves, HeldGoes DEF Update
  <2>4. CASE Verify(t)
    BY <1>g, <2>4, HeldLeaves, HeldGoes DEF Verify, AfterMerge, EndsCall
  <2>5. CASE MergeRead(t)
    BY <1>g, <2>5, HeldLeaves, HeldGoes DEF MergeRead, Carries, EndsCall
  <2>6. CASE MergeWrite(t)
    BY <1>g, <2>6, HeldLeaves, HeldGoes DEF MergeWrite, AfterMerge, EndsCall
  <2>7. CASE Reload(t)
    BY <1>g, <2>7, HeldLeaves, HeldGoes DEF Reload, Carries, EndsCall
  <2>8. CASE PushApproved(t)
    BY <2>8, HeldLeaves, HeldFresh DEF PushApproved, At, dbVars
  <2> QED  BY <1>3, <2>1, <2>2, <2>3, <2>4, <2>5, <2>6, <2>7, <2>8 DEF Decide
<1>4. ASSUME NEW t \in Threads, Execute(t) PROVE HoldsRespected'
  <2>0. th[t] \in Goroutines /\ RespectsHolds(th[t]) /\ th[t].held \subseteq Holds
    BY BusyType DEF HoldsRespected
  <2>1. CASE Dequeue(t)
    <3> DEFINE c == Head(queue[Home(t)])
               s == [At("freeze") EXCEPT !.id = c.id, !.rec = c.rec, !.held = HeldOver(c.id)]
    <3>1. hold' = hold
      BY <2>1 DEF Dequeue, dbVars
    <3>2. CASE th' = [th EXCEPT ![t] = s]
      <4>1. th'[t] = s /\ \A u \in Threads \ {t} : th'[u] = th[u]
        BY <3>2 DEF TypeOK
      <4>2. s.held = HeldOver(c.id) /\ s.id = c.id /\ s.pc = "freeze"
        BY DEF At
      <4>3. RespectsHolds(th[t])'
        BY <3>1, <4>1, <4>2 DEF RespectsHolds, HeldOver, Applies
      <4>4. \A u \in Threads \ {t} : RespectsHolds(th[u])'
        BY <3>1, <4>1 DEF HoldsRespected, RespectsHolds, Applies
      <4> QED  BY <4>3, <4>4 DEF HoldsRespected
    <3>3. CASE GatedStop(t, c.id, c.rec)
      BY <3>1, <3>3, HeldLeaves, HeldFresh DEF GatedStop, At
    <3> QED  BY <2>1, <3>2, <3>3 DEF Dequeue
  <2>2. CASE CheckFreeze(t)
    <3>1. hold' = hold
      BY <2>2 DEF CheckFreeze, dbVars
    <3>2. CASE RefuseWith(t, FreezeRefusal(th[t].rec))
      BY <1>g, <3>1, <3>2, HeldGoes DEF RefuseWith, Carries
    <3>3. CASE ~Frozen(th[t].id) /\ Goto(t, "maintenance")
      <4>1. th'[t] = [th[t] EXCEPT !.pc = "maintenance"] /\ \A u \in Threads \ {t} : th'[u] = th[u]
        BY <3>3 DEF Goto, TypeOK
      <4>2. th'[t].pc = "maintenance" /\ th'[t].held = th[t].held /\ th'[t].id = th[t].id
        BY <2>0, <4>1 DEF Goroutines
      <4>3. th[t].held \cap Freezes = {}
        BY <2>0, <3>3 DEF RespectsHolds, Frozen
      <4>4. RespectsHolds(th[t])'
        BY <2>0, <3>1, <4>2, <4>3 DEF RespectsHolds, Applies
      <4>5. \A u \in Threads \ {t} : RespectsHolds(th[u])'
        BY <3>1, <4>1 DEF HoldsRespected, RespectsHolds, Applies
      <4> QED  BY <4>4, <4>5 DEF HoldsRespected
    <3> QED  BY <1>f, <2>2, <3>2, <3>3 DEF CheckFreeze
  <2>3. CASE CheckMaintenance(t)
    <3>1. hold' = hold
      BY <2>3 DEF CheckMaintenance, dbVars
    <3>2. ASSUME NEW r, RefuseWith(t, r) PROVE HoldsRespected'
      BY <1>g, <3>1, <3>2, HeldGoes DEF RefuseWith, Carries
    <3>3. CASE ~InMaintenance(th[t].id) /\ Goto(t, "start")
      <4>1. th'[t] = [th[t] EXCEPT !.pc = "start"] /\ \A u \in Threads \ {t} : th'[u] = th[u]
        BY <3>3 DEF Goto, TypeOK
      <4>2. th'[t].held = th[t].held
        BY <2>0, <4>1 DEF Goroutines
      <4>3. th[t].held = {}
        BY <2>0, <2>3, <3>3 DEF CheckMaintenance, RespectsHolds, InMaintenance
      <4> QED  BY <3>1, <4>1, <4>2, <4>3, HeldMove
    <3> QED  BY <1>f, <2>3, <3>2, <3>3 DEF CheckMaintenance, AfterHolds
  <2>4. CASE Refuse(t)
    BY <2>4, HeldLeaves DEF Refuse
  <2>5. CASE StartAction(t)
    <3>1. CASE Carries(t, "act", Running(th[t].rec)) /\ th[t].pc = "start"
      <4>1. /\ th'[t] = [th[t] EXCEPT !.pc = "act", !.rec = Running(th[t].rec)]
            /\ \A u \in Threads \ {t} : th'[u] = th[u]
        BY <3>1 DEF Carries, TypeOK
      <4>2. th'[t].held = {}
        BY <2>0, <3>1, <4>1 DEF Goroutines, RespectsHolds
      <4> QED  BY <2>5, <4>1, <4>2, HeldMove DEF StartAction
    <3> QED  BY <1>f, <2>5, <3>1 DEF StartAction, Carries, EndsCall
  <2>6. CASE Act(t)
    <3>1. PICK outcome \in Outcomes :
            th' = [th EXCEPT ![t].pc = "finish",
                             ![t].rec = Executed(th[t].id, th[t].rec, outcome)]
      BY <2>6 DEF Act
    <3>2. /\ th'[t] = [th[t] EXCEPT !.pc = "finish",
                                    !.rec = Executed(th[t].id, th[t].rec, outcome)]
          /\ \A u \in Threads \ {t} : th'[u] = th[u]
      BY <3>1 DEF TypeOK
    <3>3. th'[t].held = {}
      BY <2>0, <2>6, <3>2 DEF Act, Goroutines, RespectsHolds
    <3> QED  BY <2>6, <3>2, <3>3, HeldMove DEF Act, dbVars
  <2>7. CASE Finish(t)
    BY <1>g, <2>7, HeldLeaves, HeldGoes DEF Finish
  <2>8. CASE SeenFollowUp(t) \/ InsertFollowUp(t)
    BY <1>g, <2>8, HeldLeaves, HeldGoes DEF SeenFollowUp, InsertFollowUp, dbVars
  <2>9. CASE PushFollowUp(t)
    BY <2>9, HeldLeaves DEF PushFollowUp, PushOrDrop, dbVars
  <2> QED  BY <1>4, <2>1, <2>2, <2>3, <2>4, <2>5, <2>6, <2>7, <2>8, <2>9 DEF Execute
<1>5. ASSUME NEW c \in Clis, CliExit(c) \/ CliCrash(c) PROVE HoldsRespected'
  <2>1. c \in Threads /\ CliEnds(c)
    BY <1>5 DEF Threads, Handlers, CliExit, CliCrash
  <2> QED  BY <2>1, HeldFresh DEF CliEnds, At, dbVars
<1>6. CASE Crash
  <2>1. \A t \in Threads : th'[t] = th[t] \/ th'[t] = At("idle")
    BY <1>6 DEF Crash
  <2>2. hold' = hold
    BY <1>6 DEF Crash, dbVars
  <2> QED  BY <2>1, <2>2 DEF HoldsRespected, RespectsHolds, Applies, At
<1>7. CASE Restart
  <2>1. Executor \in Threads
    BY DEF Threads
  <2> QED  BY <1>7, <1>g, <2>1, HeldGoes DEF Restart, dbVars
<1>8. CASE Recover
  <2>1. Executor \in Threads
    BY DEF Threads
  <2>2. ASSUME NEW c \in recovery, RecoverRow(c) PROVE HoldsRespected'
    BY <2>1, <2>2, HeldFresh, HeldStays DEF RecoverRow, At
  <2>3. CASE StartWorkers
    BY <1>g, <2>1, <2>3, HeldGoes DEF StartWorkers, dbVars
  <2> QED  BY <1>8, <2>2, <2>3 DEF Recover
<1>9. CASE Operate
  <2>1. CASE ExpireOldFreezes
    BY <2>1, HeldEnds, HoldsAssumption DEF ExpireOldFreezes
  <2>2. CASE ExpireStaleApprovals
    BY <2>2, HeldStays DEF ExpireStaleApprovals
  <2>3. ASSUME NEW h \in Holds, BeginHold(h) PROVE HoldsRespected'
    <3>1. \A k \in Holds : hold[k] = "active" => hold'[k] = "active"
      BY <2>3 DEF BeginHold, TypeOK
    <3>2. \A t \in Threads : th[t].held \subseteq Holds
      BY BusyType
    <3>3. th' = th
      BY <2>3 DEF BeginHold
    <3> QED  BY <3>1, <3>2, <3>3 DEF HoldsRespected, RespectsHolds, Applies
  <2>4. ASSUME NEW h \in Holds, EndHold(h) PROVE HoldsRespected'
    BY <2>4, HeldEnds DEF EndHold
  <2> QED  BY <1>9, <2>1, <2>2, <2>3, <2>4 DEF Operate
<1>10. CASE UNCHANGED vars
  BY <1>10, HeldStays DEF vars
<1> QED
  BY <1>1, <1>2, <1>3, <1>4, <1>5, <1>6, <1>7, <1>8, <1>9, <1>10
     DEF Next, Threads, Handlers

\* HeldActionNeverStarts: when no statement fails, an action that a freeze or a window covers
\* from its dequeue onward is stopped before it is started, whatever ends or begins meanwhile,
\* in the server and in every CLI process.
THEOREM HeldNeverStarts ==
    ASSUME MaxFaults = 0
    PROVE  Spec => []HeldActionNeverStarts
<1>1. Init => HoldsRespected
  BY DEF Init, HoldsRespected, RespectsHolds, At
<1>2. TypeOK /\ HoldsRespected /\ [Next]_vars => HoldsRespected'
  BY HeldNext
<1>3. HoldsRespected => HeldActionNeverStarts
  BY DEF HoldsRespected, RespectsHolds, HeldActionNeverStarts
<1> QED
  BY <1>1, <1>2, <1>3, TypeCorrect, PTL DEF Spec

(***************************************************************************)
(* Who approved.  Rows are upserted whole, so every copy of a gated action *)
(* that may be written back has to name its approver.                      *)
(***************************************************************************)

OnRecord(a, r) == r.approvedBy \in Operators /\ (SodBlocks(a, r.approvedBy) => r.sodBypass)

\* A copy of a gated action was read after its decision, and tells who took it.
Signed(i, r) ==
    IsGated(i) => decision[i[1]] # "none" /\ (IsApproved(i) => OnRecord(i[1], r))

\* A row does, too; and without a decision nothing has run, that a follow-up could undo.
RowSigned(i) ==
    IsGated(i) => /\ IsApproved(i) => OnRecord(i[1], row[i])
                  /\ decision[i[1]] = "none" => row[i].result # "executed_successfully"

\* A handler that is about to decide has seen that its caller may, and one that finds nothing to
\* decide any more comes after the decision.
ThreadSigned(s) ==
    /\ s.pc \in HoldsCopy \cup MayExecute => Signed(s.id, s.rec)
    /\ s.pc \in {"push_new", "drop_new"} => ~IsGated(s.id)
    /\ s.pc \in HasDecided \cup {"merge_write"} => IsGated(s.id) /\ decision[s.id[1]] # "none"
    /\ s.pc \in IsDeciding =>
          /\ IsGated(s.id) /\ (Decidable(row[s.id]) \/ decision[s.id[1]] # "none")
          /\ s.actor \in Operators /\ (SodBlocks(s.id[1], s.actor) => s.ack)

OnlyGatedDecided == \A a \in Actions : decision[a] # "none" => a \in Gated
RowsSigned == \A i \in Ids : RowSigned(i)
QueuesSigned ==
    \A p \in Processes : \A k \in 1..Len(queue[p]) : Signed(queue[p][k].id, queue[p][k].rec)
RecoverySigned == \A c \in recovery : Signed(c.id, c.rec)
ThreadsSigned == \A t \in Threads : ThreadSigned(th[t])

SignedInvariant ==
    OnlyGatedDecided /\ RowsSigned /\ QueuesSigned /\ RecoverySigned /\ ThreadsSigned

\* Where a goroutine knows something of that.
Signing == Knowing \cup {"drop_new"}

\* The program counters, sorted.
LEMMA SigningPcs ==
    /\ HoldsCopy \cup MayExecute \cup HasDecided \cup IsDeciding \cup {"push_new", "drop_new"} = Signing
    /\ "merge_write" \in Signing
    /\ {"idle", "exit", "recover", "drain", "seen", "reset_insert", "reset_push", "insert_followup",
        "push_followup"} \cap Signing = {}
BY DEF Signing, Knowing, HoldsCopy, MayExecute, HasDecided, IsDeciding

\* Nothing is decided at first.
LEMMA SignedInit == Init => SignedInvariant
<1> SUFFICES ASSUME Init PROVE SignedInvariant
  OBVIOUS
<1>1. OnlyGatedDecided
  BY DEF Init, OnlyGatedDecided
<1>2. RowsSigned
  BY IdTypes, RowFacts DEF Init, RowsSigned, RowSigned, IsApproved
<1>3. QueuesSigned /\ RecoverySigned
  BY EmptySeq DEF Init, QueuesSigned, RecoverySigned
<1>4. ThreadsSigned
  BY DEF Init, ThreadsSigned, ThreadSigned, At, HoldsCopy, MayExecute, HasDecided, IsDeciding
<1> QED
  BY <1>1, <1>2, <1>3, <1>4 DEF SignedInvariant

\* A signed copy stays signed, as its decision stays what it is.
LEMMA SignedKept ==
    ASSUME DecisionKept, NEW i \in Ids, NEW r, Signed(i, r)
    PROVE  IsGated(i) => /\ decision'[i[1]] # "none"
                         /\ decision'[i[1]] = "approved" => OnRecord(i[1], r)
BY IdTypes DEF Signed, IsApproved, DecisionKept

\* What the executor, recovery and the reset make of a row keeps the approver.
LEMMA StampedSigned ==
    ASSUME NEW i \in Ids, NEW r \in Rows, Signed(i, r)
    PROVE  /\ \A res, c : Signed(i, Completed(r, res, c))
           /\ Signed(i, Running(r)) /\ Signed(i, Reverted(r)) /\ Signed(i, Recovered(i, r))
<1>1. ASSUME NEW q, q.approvedBy = r.approvedBy, q.sodBypass = r.sodBypass PROVE Signed(i, q)
  BY <1>1 DEF Signed, OnRecord
<1>2. \A res, c : /\ Completed(r, res, c).approvedBy = r.approvedBy
                  /\ Completed(r, res, c).sodBypass = r.sodBypass
  BY DEF Completed, Rows
<1>3. /\ Running(r).approvedBy = r.approvedBy /\ Running(r).sodBypass = r.sodBypass
      /\ Reverted(r).approvedBy = r.approvedBy /\ Reverted(r).sodBypass = r.sodBypass
      /\ Recovered(i, r).approvedBy = r.approvedBy /\ Recovered(i, r).sodBypass = r.sodBypass
  BY DEF Running, Reverted, Recovered, Rows
<1> QED
  BY <1>1, <1>2, <1>3

\* A follow-up, and an action that needs no approval, has nobody to name.
LEMMA UngatedSigned == \A i \in Ids : ~IsGated(i) => \A r : Signed(i, r)
BY DEF Signed

\* Goroutines that do not move stay signed, when rows are only written as they may be.
LEMMA StaySigned ==
    ASSUME TypeOK, SignedInvariant, DecisionKept, NEW t \in Threads, th'[t] = th[t],
           \A i \in Ids : IsGated(i) /\ Decidable(row[i]) =>
                            Decidable(row[i])' \/ decision'[i[1]] # "none"
    PROVE  ThreadSigned(th[t])'
<1>1. ThreadSigned(th[t])
  BY DEF SignedInvariant, ThreadsSigned
<1>2. th[t].pc \in Knowing => th[t].id \in Ids
  BY BusyType DEF Knowing, HoldsCopy, MayExecute, HasDecided, IsDeciding, Pcs, Resting
<1>3. th[t].pc \in HoldsCopy \cup MayExecute => Signed(th[t].id, th[t].rec)'
  BY <1>1, <1>2, SignedKept DEF ThreadSigned, Signed, IsApproved, Knowing
<1>4. th[t].pc \in HasDecided \cup {"merge_write"} => decision'[th[t].id[1]] # "none"
  BY <1>1, <1>2, IdTypes DEF ThreadSigned, DecisionKept, Knowing, HoldsCopy
<1>5. th[t].pc \in IsDeciding => Decidable(row[th[t].id])' \/ decision'[th[t].id[1]] # "none"
  BY <1>1, <1>2, IdTypes DEF ThreadSigned, DecisionKept, Knowing
<1> QED
  BY <1>1, <1>3, <1>4, <1>5 DEF ThreadSigned

\* Copies that stay where they are do.
LEMMA KeptSigned ==
    ASSUME TypeOK, SignedInvariant, DecisionKept
    PROVE  /\ UNCHANGED queue => QueuesSigned'
           /\ recovery' \subseteq recovery => RecoverySigned'
<1>1. ASSUME UNCHANGED queue PROVE QueuesSigned'
  <2> SUFFICES ASSUME NEW p \in Processes, NEW k \in 1..Len(queue[p])
               PROVE  Signed(queue[p][k].id, queue[p][k].rec)'
    BY <1>1 DEF QueuesSigned
  <2>1. queue[p][k] \in Copies
    BY ElementOfSeq DEF TypeOK
  <2>2. queue[p][k].id \in Ids /\ Signed(queue[p][k].id, queue[p][k].rec)
    BY <2>1 DEF Copies, SignedInvariant, QueuesSigned
  <2> QED
    BY <1>1, <2>2, SignedKept DEF Signed, IsApproved
<1>2. ASSUME recovery' \subseteq recovery PROVE RecoverySigned'
  <2> SUFFICES ASSUME NEW c \in recovery' PROVE Signed(c.id, c.rec)'
    BY DEF RecoverySigned
  <2>1. c.id \in Ids /\ Signed(c.id, c.rec)
    BY <1>2 DEF TypeOK, Copies, SignedInvariant, RecoverySigned
  <2> QED
    BY <2>1, SignedKept DEF Signed, IsApproved
<1> QED
  BY <1>1, <1>2

\* Pushing a signed copy keeps every queued copy signed.
LEMMA PushSigned ==
    ASSUME TypeOK, SignedInvariant, UNCHANGED decision, NEW t \in Threads,
           NEW i \in Ids, NEW r \in Rows,
           UNCHANGED queue \/ (Enqueue(t, i, r) /\ Signed(i, r))
    PROVE  QueuesSigned'
<1>1. CASE UNCHANGED queue
  BY <1>1, KeptSigned DEF DecisionKept
<1>2. CASE Enqueue(t, i, r) /\ Signed(i, r)
  <2> SUFFICES ASSUME NEW p \in Processes, NEW k \in 1..Len(queue'[p])
               PROVE  Signed(queue[p][k].id, queue[p][k].rec)'
    BY DEF QueuesSigned
  <2>1. queue[p] \in Seq(Copies) /\ Copy(i, r) \in Copies
    BY DEF TypeOK, Copy, Copies
  <2>2. queue'[p] = queue[p] \/ queue'[p] = Append(queue[p], Copy(i, r))
    BY <1>2 DEF Enqueue, TypeOK
  <2>3. \/ k \in 1..Len(queue[p]) /\ queue'[p][k] = queue[p][k]
        \/ queue'[p][k] = Copy(i, r)
    BY <2>1, <2>2, AppendProperties, LenProperties
  <2> QED
    BY <1>2, <2>3 DEF SignedInvariant, QueuesSigned, Signed, IsApproved, Copy
<1> QED
  BY <1>1, <1>2

\* The shape of most steps, as in QuietStep.
LEMMA SignedStep ==
    ASSUME TypeOK, SignedInvariant, UNCHANGED decision, recovery' \subseteq recovery,
           NEW t \in Threads, NEW i \in Ids, NEW r \in Rows,
           row' = row \/ (row' = [row EXCEPT ![i] = r] /\ Signed(i, r)),
           UNCHANGED queue \/ (Enqueue(t, i, r) /\ Signed(i, r)),
           \A u \in Threads \ {t} : th'[u] = th[u],
           ThreadSigned(th[t])'
    PROVE  SignedInvariant'
<1>1. DecisionKept
  BY DEF DecisionKept
<1>2. \A j \in Ids : row'[j] = row[j] \/ (row'[j] = r /\ Signed(j, r))
  BY DEF TypeOK
<1>3. RowsSigned'
  BY <1>2 DEF SignedInvariant, RowsSigned, RowSigned, Signed, IsApproved
<1>4. \A j \in Ids : IsGated(j) /\ Decidable(row[j]) => Decidable(row[j])' \/ decision'[j[1]] # "none"
  BY <1>2 DEF Signed, Decidable
<1>5. ThreadsSigned'
  BY <1>1, <1>4, StaySigned DEF ThreadsSigned
<1>6. QueuesSigned' /\ RecoverySigned'
  BY <1>1, PushSigned, KeptSigned
<1>7. OnlyGatedDecided'
  BY DEF SignedInvariant, OnlyGatedDecided
<1> QED
  BY <1>3, <1>5, <1>6, <1>7 DEF SignedInvariant

\* A goroutine that comes to rest, or to a place where it knows nothing, has nothing to sign.
LEMMA IdleSigned ==
    ASSUME TypeOK, NEW t \in Threads, Leave(t) \/ \E pc \in Pcs \ Signing : Goto(t, pc)
    PROVE  (\A u \in Threads \ {t} : th'[u] = th[u]) /\ ThreadSigned(th[t])'
<1>1. (\A u \in Threads \ {t} : th'[u] = th[u]) /\ th'[t].pc \notin Signing
  <2>1. CASE Leave(t)
    BY <2>1, ReturnType, SigningPcs DEF Leave, At, TypeOK
  <2>2. ASSUME NEW pc \in Pcs \ Signing, Goto(t, pc)
        PROVE  (\A u \in Threads \ {t} : th'[u] = th[u]) /\ th'[t].pc \notin Signing
    BY <2>2, GotoFacts
  <2> QED  BY <2>1, <2>2
<1> QED
  BY <1>1, SigningPcs DEF ThreadSigned

\* One that moves on with a signed copy.
LEMMA CarrySigned ==
    ASSUME TypeOK, NEW t \in Threads, NEW i \in Ids, NEW r, UNCHANGED decision, i = th[t].id,
           Signed(i, r),
           NEW pc \in (HoldsCopy \cup MayExecute) \ {"push_new"},
           pc = "merge_write" => IsGated(i) /\ decision[i[1]] # "none",
           Carries(t, pc, r) \/ (Goto(t, pc) /\ r = th[t].rec)
    PROVE  (\A u \in Threads \ {t} : th'[u] = th[u]) /\ ThreadSigned(th[t])'
<1>1. /\ \A u \in Threads \ {t} : th'[u] = th[u]
      /\ th'[t].pc = pc /\ th'[t].id = i /\ th'[t].rec = r
  BY GotoFacts, CarryFacts
<1>2. pc \notin HasDecided /\ pc \notin IsDeciding /\ pc # "drop_new" /\ pc # "push_new"
  BY DEF HoldsCopy, MayExecute, HasDecided, IsDeciding
<1>3. Signed(i, r)'
  BY DEF Signed, IsApproved
<1> QED
  BY <1>1, <1>2, <1>3 DEF ThreadSigned

\* One that goes on after its decision.
LEMMA DecidedSigned ==
    ASSUME TypeOK, NEW t \in Threads, NEW i \in Ids, i = th[t].id,
           IsGated(i), decision'[i[1]] # "none",
           NEW pc \in HasDecided, Goto(t, pc)
    PROVE  (\A u \in Threads \ {t} : th'[u] = th[u]) /\ ThreadSigned(th[t])'
<1>1. (\A u \in Threads \ {t} : th'[u] = th[u]) /\ th'[t].pc = pc /\ th'[t].id = i
  BY GotoFacts
<1>2. pc \notin HoldsCopy \cup MayExecute /\ pc \notin IsDeciding /\ pc \notin {"push_new", "drop_new"}
  BY DEF HoldsCopy, MayExecute, HasDecided, IsDeciding
<1> QED
  BY <1>1, <1>2 DEF ThreadSigned

\* Proposals are rows of actions that nobody has decided on, and none has run.
LEMMA InsertSigned ==
    ASSUME TypeOK, GateInvariant, SignedInvariant, UNCHANGED <<decision, queue, recovery>>,
           NEW t \in Threads, NEW a \in Actions, row[Primary(a)] = NoRow,
           NEW r \in Rows, r.result # "executed_successfully",
           row' = [row EXCEPT ![Primary(a)] = r], Leave(t)
    PROVE  SignedInvariant'
<1>1. DecisionKept
  BY DEF DecisionKept
<1>2. Primary(a) \in Ids /\ Primary(a)[1] = a /\ IsPrimary(Primary(a))
  BY IdTypes
<1>3. decision[a] = "none"
  <2>1. ~Sound(Primary(a), row[Primary(a)])
    BY RowFacts DEF Sound
  <2> QED  BY <1>2, <2>1, RowFacts DEF GateInvariant, RowsSound, RowSound
<1>4. row'[Primary(a)] = r /\ \A i \in Ids \ {Primary(a)} : row'[i] = row[i]
  BY <1>2 DEF TypeOK
<1>5. RowsSigned'
  BY <1>2, <1>3, <1>4 DEF SignedInvariant, RowsSigned, RowSigned, IsApproved
<1>6. \A i \in Ids : IsGated(i) /\ Decidable(row[i]) => Decidable(row[i])' \/ decision'[i[1]] # "none"
  BY <1>4, RowFacts DEF Decidable
<1>7. ThreadsSigned'
  BY <1>1, <1>6, StaySigned, IdleSigned DEF ThreadsSigned
<1>8. QueuesSigned' /\ RecoverySigned'
  BY <1>1, KeptSigned
<1>9. OnlyGatedDecided'
  BY DEF SignedInvariant, OnlyGatedDecided
<1> QED
  BY <1>5, <1>7, <1>8, <1>9 DEF SignedInvariant

\* A decision signs the rows it is about, and moves no copy.
LEMMA DecideSigned ==
    ASSUME TypeOK, GateInvariant, SignedInvariant, DecisionKept, UNCHANGED <<queue, recovery>>,
           NEW as \in SUBSET Actions,
           \A a \in as : /\ Decidable(row[Primary(a)]) /\ decision'[a] # "none"
                         /\ decision'[a] = "approved" => OnRecord(a, row'[Primary(a)]),
           \A i \in Ids : (\A a \in as : i # Primary(a)) => row'[i] = row[i],
           \A a \in Actions \ as : decision'[a] = decision[a]
    PROVE  /\ OnlyGatedDecided' /\ RowsSigned' /\ QueuesSigned' /\ RecoverySigned'
           /\ \A t \in Threads : th'[t] = th[t] => ThreadSigned(th[t])'
<1>1. ASSUME NEW a \in as PROVE a \in Gated
  <2>1. a \in Actions /\ Primary(a) \in Ids /\ Primary(a)[1] = a
    BY IdTypes
  <2>2. row[Primary(a)].lifecycle = "pending_approval"
    BY DEF Decidable
  <2>3. RowSound(Primary(a)) /\ ~Sound(Primary(a), row[Primary(a)])
    BY <2>1, <2>2 DEF GateInvariant, RowsSound, Sound
  <2> QED  BY <2>1, <2>2, <2>3, RowFacts DEF RowSound, IsGated
<1>2. OnlyGatedDecided'
  BY <1>1 DEF SignedInvariant, OnlyGatedDecided
<1>3. \A i \in Ids : IsGated(i) => i = Primary(i[1]) /\ i[1] \in Actions
  BY IdTypes DEF IsGated
<1>4. RowsSigned'
  <2> SUFFICES ASSUME NEW i \in Ids, IsGated(i) PROVE RowSigned(i)'
    BY DEF RowsSigned, RowSigned
  <2>1. CASE i[1] \in as
    BY <1>3, <2>1 DEF RowSigned, IsApproved
  <2>2. CASE i[1] \notin as
    <3>1. decision'[i[1]] = decision[i[1]]
      BY <1>3, <2>2
    <3>2. row'[i] = row[i]
      <4>1. \A a \in as : Primary(a)[1] = a
        BY IdTypes
      <4> QED  BY <2>2, <4>1
    <3> QED  BY <3>1, <3>2 DEF SignedInvariant, RowsSigned, RowSigned, IsApproved
  <2> QED  BY <2>1, <2>2
<1>5. \A i \in Ids : IsGated(i) /\ Decidable(row[i]) => Decidable(row[i])' \/ decision'[i[1]] # "none"
  <2> SUFFICES ASSUME NEW i \in Ids, IsGated(i), Decidable(row[i]), decision'[i[1]] = "none"
               PROVE  Decidable(row[i])'
    OBVIOUS
  <2>1. ASSUME NEW a \in as PROVE i # Primary(a)
    <3>1. Primary(a)[1] = a
      BY IdTypes
    <3>2. decision'[a] # "none"
      OBVIOUS
    <3> QED  BY <3>1, <3>2
  <2>2. row'[i] = row[i]
    BY <2>1
  <2> QED  BY <2>2 DEF Decidable
<1> QED
  BY <1>2, <1>4, <1>5, KeptSigned, StaySigned

\* Proposing signs nothing: what needs approval waits for it, and what does not is never gated.
LEMMA ProposeSigned ==
    ASSUME TypeOK, GateInvariant, SignedInvariant, NEW t \in Threads, Propose(t)
    PROVE  SignedInvariant'
<1>1. ASSUME NEW a \in Actions, ProposeDenied(t, a) PROVE SignedInvariant'
  <2> DEFINE r == Completed(NewPending, "denied_by_policy", "")
  <2>1. r \in Rows /\ r.result # "executed_successfully"
    <3>1. Primary(a) \in Ids
      BY IdTypes
    <3>2. r \in Rows
      BY <3>1, NewRowTypes, RowTypes DEF Results, Closures
    <3> QED  BY <3>2, NewRowTypes DEF Completed, Rows
  <2>2. row[Primary(a)] = NoRow /\ row' = [row EXCEPT ![Primary(a)] = r]
    BY <1>1 DEF ProposeDenied, MayPropose, Insert
  <2>3. Leave(t) /\ UNCHANGED <<decision, queue, recovery>>
    BY <1>1 DEF ProposeDenied, ClosesAtOnce, history
  <2> HIDE DEF r
  <2> QED  BY <2>1, <2>2, <2>3, InsertSigned
<1>2. ASSUME NEW a \in Actions, ProposeBlocked(t, a) PROVE SignedInvariant'
  <2> DEFINE r == Refusal(Primary(a), NewPending)
  <2>1. r \in Rows /\ r.result # "executed_successfully"
    <3>1. Primary(a) \in Ids
      BY IdTypes
    <3>2. r \in Rows
      BY <3>1, NewRowTypes, RowTypes DEF Refusal
    <3> QED
      BY <3>2, NewRowTypes DEF Refusal, FreezeRefusal, MaintenanceRefusal, Completed, Rows
  <2>2. row[Primary(a)] = NoRow /\ row' = [row EXCEPT ![Primary(a)] = r]
    BY <1>2 DEF ProposeBlocked, MayPropose, Insert
  <2>3. Leave(t) /\ UNCHANGED <<decision, queue, recovery>>
    BY <1>2 DEF ProposeBlocked, ClosesAtOnce, history
  <2> HIDE DEF r
  <2> QED  BY <2>1, <2>2, <2>3, InsertSigned
<1>3. ASSUME NEW a \in Actions, ProposeGated(t, a) PROVE SignedInvariant'
  <2>1. row[Primary(a)] = NoRow /\ row' = [row EXCEPT ![Primary(a)] = NewPendingApproval]
    BY <1>3 DEF ProposeGated, MayPropose, Insert
  <2>2. Leave(t) /\ UNCHANGED <<decision, queue, recovery>>
    BY <1>3 DEF ProposeGated, ClosesAtOnce, history
  <2>3. NewPendingApproval.result # "executed_successfully"
    BY RowFacts
  <2> QED  BY <2>1, <2>2, <2>3, NewRowTypes, InsertSigned
<1>4. ASSUME NEW a \in Actions, ProposeAuto(t, a) PROVE SignedInvariant'
  <2>1. Primary(a) \in Ids /\ ~IsGated(Primary(a))
    BY <1>4, IdTypes DEF ProposeAuto, NeedsApproval, IsGated
  <2>2. row' = [row EXCEPT ![Primary(a)] = NewPending] /\ UNCHANGED <<decision, queue, recovery>>
    BY <1>4 DEF ProposeAuto, Insert, history
  <2>3. /\ \A u \in Threads \ {t} : th'[u] = th[u]
        /\ th'[t].pc = "push_new" /\ th'[t].id = Primary(a)
    BY <1>4 DEF ProposeAuto, At, TypeOK
  <2>4. ThreadSigned(th[t])'
    BY <2>1, <2>3 DEF ThreadSigned, Signed, HoldsCopy, MayExecute, HasDecided, IsDeciding
  <2> QED  BY <2>1, <2>2, <2>3, <2>4, NewRowTypes, UngatedSigned, SignedStep
<1>5. CASE PushNew(t)
  <2>1. th[t].id \in Ids /\ th[t].rec \in Rows /\ ~IsGated(th[t].id)
    BY <1>5, BusyType DEF PushNew, SignedInvariant, ThreadsSigned, ThreadSigned, Pcs, Resting
  <2>2. UNCHANGED <<row, decision, recovery>>
    BY <1>5 DEF PushNew, dbVars, history
  <2>3. CASE Enqueue(t, th[t].id, th[t].rec) /\ Leave(t)
    BY <2>1, <2>2, <2>3, IdleSigned, UngatedSigned, SignedStep
  <2>4. CASE UNCHANGED queue /\ Goto(t, "drop_new")
    <3>1. /\ \A u \in Threads \ {t} : th'[u] = th[u]
          /\ th'[t].pc = "drop_new" /\ th'[t].id = th[t].id
      BY <2>4, GotoFacts
    <3>2. ThreadSigned(th[t])'
      BY <2>1, <3>1 DEF ThreadSigned, HoldsCopy, MayExecute, HasDecided, IsDeciding
    <3> QED  BY <2>1, <2>2, <2>4, <3>1, <3>2, SignedStep
  <2> QED  BY <1>5, <2>3, <2>4 DEF PushNew
<1>6. CASE DropNew(t)
  <2>1. th[t].id \in Ids /\ ~IsGated(th[t].id)
    BY <1>6, BusyType DEF DropNew, SignedInvariant, ThreadsSigned, ThreadSigned, Pcs, Resting
  <2>2. /\ UNCHANGED <<queue, decision, recovery>> /\ Leave(t)
        /\ row' = row \/ row' = [row EXCEPT ![th[t].id] = DroppedOnFullQueue]
    BY <1>6 DEF DropNew, WriteOrIgnore, Write
  <2> QED  BY <2>1, <2>2, NewRowTypes, IdleSigned, UngatedSigned, SignedStep
<1> QED
  BY <1>1, <1>2, <1>3, <1>4, <1>5, <1>6 DEF Propose

\* Pushing a follow-up does neither.
LEMMA PushOrDropSigned ==
    ASSUME TypeOK, SignedInvariant, NEW t \in Threads, th[t].id \in Ids, PushOrDrop(t)
    PROVE  SignedInvariant'
<1>1. FollowUp(th[t].id) \in Ids /\ ~IsGated(FollowUp(th[t].id))
  BY IdTypes DEF IsGated
<1>2. /\ UNCHANGED <<row, decision, recovery>> /\ Leave(t)
      /\ UNCHANGED queue \/ Enqueue(t, FollowUp(th[t].id), NewPending)
  BY DEF PushOrDrop, dbVars
<1> QED
  BY <1>1, <1>2, NewRowTypes, IdleSigned, UngatedSigned, SignedStep

\* A reset keeps the approver of the row it closes.
LEMMA ResetSigned ==
    ASSUME TypeOK, SignedInvariant, NEW t \in Threads, QueueReset(t)
    PROVE  SignedInvariant'
<1>1. ASSUME NEW a \in Actions, ResetBegin(t, a) PROVE SignedInvariant'
  <2>1. Primary(a) \in Ids /\ row[Primary(a)] \in Rows /\ Primary(a)[1] = a
    BY IdTypes DEF TypeOK
  <2>2. Signed(Primary(a), row[Primary(a)])
    BY <1>1, <2>1 DEF ResetBegin, Revertible, SignedInvariant, RowsSigned, RowSigned, Signed
  <2>3. UNCHANGED <<row, queue, decision, recovery>>
    BY <1>1 DEF ResetBegin, dbVars, history
  <2>4. /\ \A u \in Threads \ {t} : th'[u] = th[u]
        /\ th'[t].pc = "reset_row" /\ th'[t].id = Primary(a) /\ th'[t].rec = row[Primary(a)]
    BY <1>1 DEF ResetBegin, At, TypeOK
  <2>5. ThreadSigned(th[t])'
    BY <2>2, <2>3, <2>4
       DEF ThreadSigned, Signed, IsApproved, HoldsCopy, MayExecute, HasDecided, IsDeciding
  <2> QED  BY <2>1, <2>3, <2>4, <2>5, SignedStep
<1>2. CASE ResetRow(t)
  <2>0. PICK i \in Ids, r \in Rows : i = th[t].id /\ r = th[t].rec
    BY <1>2, BusyType DEF ResetRow, Pcs, Resting
  <2>1. Signed(i, r)
    BY <1>2, <2>0 DEF ResetRow, SignedInvariant, ThreadsSigned, ThreadSigned, HoldsCopy
  <2>2. Reverted(r) \in Rows /\ Signed(i, Reverted(r))
    BY <2>1, RowTypes, StampedSigned
  <2>3. /\ UNCHANGED <<queue, decision, recovery>> /\ Goto(t, "reset_insert")
        /\ row' = row \/ row' = [row EXCEPT ![i] = Reverted(r)]
    BY <1>2, <2>0 DEF ResetRow, WriteOrIgnore, Write
  <2>4. "reset_insert" \in Pcs \ Signing
    BY SigningPcs DEF Pcs
  <2> QED  BY <2>2, <2>3, <2>4, IdleSigned, SignedStep
<1>3. CASE ResetInsert(t)
  <2>1. FollowUp(th[t].id) \in Ids /\ ~IsGated(FollowUp(th[t].id))
    BY <1>3, BusyType, IdTypes DEF ResetInsert, IsGated, Pcs, Resting
  <2>2. /\ UNCHANGED <<queue, decision, recovery>> /\ Goto(t, "reset_push")
        /\ row' = row \/ row' = [row EXCEPT ![FollowUp(th[t].id)] = NewPending]
    BY <1>3 DEF ResetInsert, WriteOrIgnore, Write
  <2>3. "reset_push" \in Pcs \ Signing
    BY SigningPcs DEF Pcs
  <2> QED  BY <2>1, <2>2, <2>3, NewRowTypes, IdleSigned, UngatedSigned, SignedStep
<1>4. CASE ResetPush(t)
  BY <1>4, BusyType, PushOrDropSigned DEF ResetPush, Pcs, Resting
<1> QED
  BY <1>1, <1>2, <1>3, <1>4 DEF QueueReset

\* The guarded UPDATE signs the row with the caller that the handler has let pass.
LEMMA UpdateSigned ==
    ASSUME TypeOK, GateInvariant, DecisionKept, SignedInvariant, NEW t \in Threads, Update(t)
    PROVE  SignedInvariant'
<1>0. PICK i \in Ids : i = th[t].id
  BY BusyType DEF Update, Pcs, Resting
<1>1. /\ IsGated(i) /\ (Decidable(row[i]) \/ decision[i[1]] # "none")
      /\ th[t].actor \in Operators /\ (SodBlocks(i[1], th[t].actor) => th[t].ack)
  BY <1>0 DEF Update, SignedInvariant, ThreadsSigned, ThreadSigned, IsDeciding
<1>2. i = Primary(i[1]) /\ i[1] \in Actions /\ row[i] \in Rows
  BY <1>1, IdTypes DEF IsGated, TypeOK
<1>3. UNCHANGED <<queue, recovery>>
  BY DEF Update
<1>4. CASE UNCHANGED <<row, decision>> /\ Leave(t)
  BY <1>2, <1>3, <1>4, IdleSigned, SignedStep
<1>5. CASE DecideRow(t) /\ Goto(t, "verify")
  <2>0. "verify" \in HasDecided
    BY DEF HasDecided
  <2>1. CASE ~Decidable(row[i])
    <3>1. UNCHANGED <<row, decision>>
      BY <1>0, <1>5, <2>1 DEF DecideRow
    <3>2. (\A u \in Threads \ {t} : th'[u] = th[u]) /\ ThreadSigned(th[t])'
      BY <1>0, <1>1, <1>5, <2>0, <2>1, <3>1, DecidedSigned
    <3> QED  BY <1>2, <1>3, <3>1, <3>2, SignedStep
  <2>2. CASE Decidable(row[i])
    <3>1. \/ /\ decision' = [decision EXCEPT ![i[1]] = "approved"]
             /\ row' = [row EXCEPT ![i] = Approved(row[i], th[t].actor, Bypass(t))]
          \/ /\ decision' = [decision EXCEPT ![i[1]] = "rejected"]
             /\ row' = [row EXCEPT ![i] = Rejected(row[i])]
      BY <1>0, <1>5, <2>2 DEF DecideRow
    <3>2. OnRecord(i[1], Approved(row[i], th[t].actor, Bypass(t)))
      BY <1>0, <1>1, <1>2 DEF OnRecord, Approved, Bypass, Rows
    <3>3. /\ decision'[i[1]] \in {"approved", "rejected"}
          /\ decision'[i[1]] = "approved" => OnRecord(i[1], row'[i])
          /\ \A j \in Ids \ {i} : row'[j] = row[j]
          /\ \A a \in Actions \ {i[1]} : decision'[a] = decision[a]
      BY <1>2, <3>1, <3>2 DEF TypeOK
    <3>4. /\ OnlyGatedDecided' /\ RowsSigned' /\ QueuesSigned' /\ RecoverySigned'
          /\ \A u \in Threads : th'[u] = th[u] => ThreadSigned(th[u])'
      <4>1. PICK a \in Actions : a = i[1] /\ Primary(a) = i
        BY <1>2
      <4>2. \A b \in {a} : /\ Decidable(row[Primary(b)]) /\ decision'[b] # "none"
                           /\ decision'[b] = "approved" => OnRecord(b, row'[Primary(b)])
        BY <2>2, <3>3, <4>1
      <4>3. \A j \in Ids : (\A b \in {a} : j # Primary(b)) => row'[j] = row[j]
        BY <3>3, <4>1
      <4>4. {a} \in SUBSET Actions /\ \A b \in Actions \ {a} : decision'[b] = decision[b]
        BY <3>3, <4>1
      <4> QED  BY <1>3, <4>2, <4>3, <4>4, DecideSigned
    <3>5. (\A u \in Threads \ {t} : th'[u] = th[u]) /\ ThreadSigned(th[t])'
      BY <1>0, <1>1, <1>5, <2>0, <3>3, DecidedSigned
    <3> QED  BY <3>4, <3>5 DEF SignedInvariant, ThreadsSigned
  <2> QED  BY <2>1, <2>2
<1> QED
  BY <1>4, <1>5 DEF Update

\* The rest of a decision writes and pushes what was read after it.
LEMMA HandlerSigned ==
    ASSUME TypeOK, GateInvariant, DecisionKept, SignedInvariant, NEW t \in Threads, Decide(t)
    PROVE  SignedInvariant'
<1>1. ASSUME NEW a \in Actions, NEW v \in Verbs, NEW op \in Operators, NEW k \in BOOLEAN,
             Load(t, a, v, op, k)
      PROVE  SignedInvariant'
  <2>1. Primary(a) \in Ids /\ Primary(a)[1] = a /\ NoRow \in Rows
    BY IdTypes, NewRowTypes
  <2>2. UNCHANGED <<row, queue, decision, recovery>>
    BY <1>1 DEF Load, dbVars, history
  <2>3. /\ \A u \in Threads \ {t} : th'[u] = th[u]
        /\ th'[t].pc = "recheck" /\ th'[t].id = Primary(a) /\ th'[t].actor = op /\ th'[t].ack = k
    BY <1>1 DEF Load, At, TypeOK
  <2>4. IsGated(Primary(a)) /\ Decidable(row[Primary(a)])
    <3>1. Decidable(row[Primary(a)]) /\ RowSound(Primary(a))
      BY <1>1, <2>1 DEF Load, GateInvariant, RowsSound
    <3> QED  BY <3>1, RowFacts DEF RowSound, Sound, Decidable
  <2>5. ThreadSigned(th[t])'
    BY <1>1, <2>1, <2>2, <2>3, <2>4
       DEF Load, Decidable, ThreadSigned, HoldsCopy, MayExecute, HasDecided, IsDeciding
  <2> QED  BY <2>1, <2>2, <2>3, <2>5, SignedStep
<1>2. CASE Recheck(t)
  <2>0. PICK i \in Ids, r \in Rows : i = th[t].id /\ r = th[t].rec
    BY <1>2, BusyType DEF Recheck, Pcs, Resting
  <2>1. UNCHANGED <<row, queue, decision, recovery>>
    BY <1>2 DEF Recheck, dbVars, history
  <2>2. CASE Leave(t)
    BY <2>0, <2>1, <2>2, IdleSigned, SignedStep
  <2>3. CASE Goto(t, "update")
    <3>1. /\ th'[t] = [th[t] EXCEPT !.pc = "update"] /\ \A u \in Threads \ {t} : th'[u] = th[u]
      BY <2>3 DEF Goto, TypeOK
    <3>2. /\ th'[t].pc = "update" /\ th'[t].id = th[t].id
          /\ th'[t].actor = th[t].actor /\ th'[t].ack = th[t].ack
      BY <3>1, BusyType DEF Goroutines
    <3>3. ThreadSigned(th[t]) /\ th[t].pc \in IsDeciding
      BY <1>2 DEF Recheck, SignedInvariant, ThreadsSigned, IsDeciding
    <3>4. ThreadSigned(th[t])'
      BY <2>1, <3>2, <3>3
         DEF ThreadSigned, Decidable, HoldsCopy, MayExecute, HasDecided, IsDeciding
    <3> QED  BY <2>0, <2>1, <3>1, <3>4, SignedStep
  <2> QED  BY <1>2, <2>2, <2>3 DEF Recheck
<1>3. CASE Update(t)
  BY <1>3, UpdateSigned
<1>4. CASE Verify(t)
  <2>0. PICK i \in Ids, r \in Rows : i = th[t].id /\ r = th[t].rec
    BY <1>4, BusyType DEF Verify, Pcs, Resting
  <2>1. UNCHANGED <<row, queue, decision, recovery>>
    BY <1>4 DEF Verify, EndsCall
  <2>2. IsGated(i) /\ decision'[i[1]] # "none"
    BY <1>4, <2>0, <2>1 DEF Verify, SignedInvariant, ThreadsSigned, ThreadSigned, HasDecided
  <2>3. Leave(t) \/ \E pc \in {"merge_read", "reload"} : Goto(t, pc)
    BY <1>4 DEF Verify, AfterMerge, EndsCall
  <2>4. (\A u \in Threads \ {t} : th'[u] = th[u]) /\ ThreadSigned(th[t])'
    BY <2>0, <2>2, <2>3, IdleSigned, DecidedSigned DEF HasDecided
  <2> QED  BY <2>0, <2>1, <2>4, SignedStep
<1>5. CASE MergeRead(t) \/ Reload(t)
  <2>0. PICK i \in Ids : i = th[t].id
    BY <1>5, BusyType DEF MergeRead, Reload, Pcs, Resting
  <2>1. UNCHANGED <<row, queue, decision, recovery>> /\ row[i] \in Rows
    BY <1>5 DEF MergeRead, Reload, EndsCall, TypeOK
  <2>2. IsGated(i) /\ decision[i[1]] # "none"
    BY <1>5, <2>0
       DEF MergeRead, Reload, SignedInvariant, ThreadsSigned, ThreadSigned, HasDecided
  <2>6. Signed(i, row[i])
    BY <2>2 DEF SignedInvariant, RowsSigned, RowSigned, Signed
  <2>3. Leave(t) \/ \E pc \in {"merge_write", "push_approved"} : Carries(t, pc, row[i])
    BY <1>5, <2>0 DEF MergeRead, Reload, Carries, EndsCall
  <2>4. {"merge_write", "push_approved"} \subseteq (HoldsCopy \cup MayExecute) \ {"push_new"}
    BY DEF HoldsCopy
  <2>5. (\A u \in Threads \ {t} : th'[u] = th[u]) /\ ThreadSigned(th[t])'
    BY <2>0, <2>1, <2>2, <2>3, <2>4, <2>6, CarrySigned, IdleSigned
  <2> QED  BY <2>1, <2>5, SignedStep
<1>6. CASE MergeWrite(t)
  <2>0. PICK i \in Ids, r \in Rows : i = th[t].id /\ r = th[t].rec
    BY <1>6, BusyType DEF MergeWrite, Pcs, Resting
  <2>1. UNCHANGED <<queue, decision, recovery>>
    BY <1>6 DEF MergeWrite
  <2>2. Signed(i, r)
    BY <1>6, <2>0 DEF MergeWrite, SignedInvariant, ThreadsSigned, ThreadSigned, HoldsCopy
  <2>3. CASE Leave(t)
    <3>1. row' = row \/ row' = [row EXCEPT ![i] = r]
      BY <1>6, <2>0 DEF MergeWrite, Write, EndsCall
    <3> QED  BY <2>0, <2>1, <2>2, <2>3, <3>1, IdleSigned, SignedStep
  <2>4. CASE row' = [row EXCEPT ![i] = r] /\ Goto(t, "reload")
    <3>1. IsGated(i) /\ decision'[i[1]] # "none" /\ "reload" \in HasDecided
      BY <1>6, <2>0, <2>1
         DEF MergeWrite, SignedInvariant, ThreadsSigned, ThreadSigned, HasDecided
    <3>2. (\A u \in Threads \ {t} : th'[u] = th[u]) /\ ThreadSigned(th[t])'
      BY <2>0, <2>4, <3>1, DecidedSigned
    <3> QED  BY <2>1, <2>2, <2>4, <3>2, SignedStep
  <2> QED  BY <1>6, <2>0, <2>3, <2>4 DEF MergeWrite, AfterMerge, Write, EndsCall
<1>7. CASE PushApproved(t)
  <2>0. PICK i \in Ids, r \in Rows : i = th[t].id /\ r = th[t].rec
    BY <1>7, BusyType DEF PushApproved, Pcs, Resting
  <2>1. /\ UNCHANGED <<row, decision, recovery>>
        /\ UNCHANGED queue \/ Enqueue(t, i, r)
    BY <1>7, <2>0 DEF PushApproved, dbVars
  <2>2. Signed(i, r)
    BY <1>7, <2>0 DEF PushApproved, SignedInvariant, ThreadsSigned, ThreadSigned, HoldsCopy
  <2>3. (\A u \in Threads \ {t} : th'[u] = th[u]) /\ th'[t].pc \in {"exit", "recover", "idle", "drain"}
    BY <1>7, ReturnType DEF PushApproved, Leave, TypeOK, At
  <2>4. ThreadSigned(th[t])'
    BY <2>3, SigningPcs DEF ThreadSigned
  <2> QED  BY <2>1, <2>2, <2>3, <2>4, SignedStep
<1> QED
  BY <1>1, <1>2, <1>3, <1>4, <1>5, <1>6, <1>7 DEF Decide

\* Goroutines at rest have nothing to sign, and the others keep what they know.
LEMMA RestingSigned ==
    ASSUME TypeOK, SignedInvariant, UNCHANGED <<row, decision>>, QueuesSigned', RecoverySigned',
           \A t \in Threads : th'[t] = th[t] \/ th'[t].pc \notin Signing
    PROVE  SignedInvariant'
<1>1. DecisionKept
  BY DEF DecisionKept
<1>2. ASSUME NEW t \in Threads PROVE ThreadSigned(th[t])'
  <2>1. CASE th'[t] = th[t]
    BY <1>1, <2>1, StaySigned DEF Decidable
  <2>2. CASE th'[t].pc \notin Signing
    BY <2>2, SigningPcs DEF ThreadSigned
  <2> QED  BY <2>1, <2>2
<1>3. OnlyGatedDecided' /\ RowsSigned'
  BY DEF SignedInvariant, OnlyGatedDecided, RowsSigned, RowSigned, IsApproved
<1> QED
  BY <1>2, <1>3 DEF SignedInvariant, ThreadsSigned

\* One goroutine moves and takes a copy out of a queue.
LEMMA OthersSigned ==
    ASSUME TypeOK, SignedInvariant, UNCHANGED <<row, decision, recovery>>, QueuesSigned',
           NEW t \in Threads, \A u \in Threads \ {t} : th'[u] = th[u], ThreadSigned(th[t])'
    PROVE  SignedInvariant'
<1>1. DecisionKept
  BY DEF DecisionKept
<1>2. ThreadsSigned'
  BY <1>1, StaySigned DEF ThreadsSigned, Decidable
<1>3. OnlyGatedDecided' /\ RowsSigned'
  BY DEF SignedInvariant, OnlyGatedDecided, RowsSigned, RowSigned, IsApproved
<1>4. RecoverySigned'
  BY <1>1, KeptSigned
<1> QED
  BY <1>2, <1>3, <1>4 DEF SignedInvariant

\* Taking the head of a queue, or emptying one, leaves the rest signed.
LEMMA TailSigned ==
    ASSUME TypeOK, SignedInvariant, DecisionKept, NEW p \in Processes,
           \/ queue[p] # <<>> /\ queue' = [queue EXCEPT ![p] = Tail(@)]
           \/ queue' = [queue EXCEPT ![p] = <<>>]
    PROVE  QueuesSigned'
<1> SUFFICES ASSUME NEW q \in Processes, NEW k \in 1..Len(queue'[q])
             PROVE  Signed(queue[q][k].id, queue[q][k].rec)'
  BY DEF QueuesSigned
<1>1. queue[q] \in Seq(Copies) /\ queue[p] \in Seq(Copies)
  BY DEF TypeOK
<1>2. PICK j \in 1..Len(queue[q]) : queue'[q][k] = queue[q][j]
  <2>1. CASE queue'[q] = queue[q]
    BY <2>1
  <2>2. CASE q = p /\ queue'[q] = <<>>
    BY <2>2, EmptySeq
  <2>3. CASE q = p /\ queue[p] # <<>> /\ queue'[q] = Tail(queue[p])
    BY <1>1, <2>3, HeadTailProperties, LenProperties
  <2> QED
    BY <2>1, <2>2, <2>3 DEF TypeOK
<1>3. queue[q][j] \in Copies /\ Signed(queue[q][j].id, queue[q][j].rec)
  BY <1>1, ElementOfSeq DEF SignedInvariant, QueuesSigned
<1>4. queue[q][j].id \in Ids
  BY <1>3 DEF Copies
<1> QED
  BY <1>2, <1>3, <1>4, SignedKept DEF Signed, IsApproved

\* The executor stamps its copy, and writes it.
LEMMA ExecuteSigned ==
    ASSUME TypeOK, SignedInvariant, NEW t \in Threads, Execute(t)
    PROVE  SignedInvariant'
<1>c. {"maintenance", "start", "refuse", "act", "finish"}
        \subseteq (HoldsCopy \cup MayExecute) \ {"push_new", "merge_write"}
  BY DEF HoldsCopy, MayExecute
<1>1. CASE Dequeue(t)
  <2>1. UNCHANGED <<row, decision, recovery>>
    BY <1>1 DEF Dequeue, dbVars, history
  <2>2. /\ Home(t) \in Processes /\ queue[Home(t)] \in Seq(Copies)
        /\ queue[Home(t)] # <<>>
    BY <1>1 DEF Dequeue, Home, Processes, TypeOK
  <2>3. PICK i \in Ids, r \in Rows :
             i = Head(queue[Home(t)]).id /\ r = Head(queue[Home(t)]).rec
    <3>1. Head(queue[Home(t)]) \in Copies
      BY <2>2, HeadTailProperties
    <3> QED  BY <3>1 DEF Copies
  <2>4. Signed(i, r)
    <3>1. 1 \in 1..Len(queue[Home(t)]) /\ Head(queue[Home(t)]) = queue[Home(t)][1]
      BY <2>2, EmptySeq, LenProperties
    <3> QED  BY <2>2, <2>3, <3>1 DEF SignedInvariant, QueuesSigned
  <2>5. QueuesSigned'
    BY <1>1, <2>1, <2>2, TailSigned DEF Dequeue, DecisionKept
  <2>6. (\A u \in Threads \ {t} : th'[u] = th[u]) /\ ThreadSigned(th[t])'
    <3>1. ASSUME NEW pc \in {"freeze", "refuse"}, NEW q, Signed(i, q),
                 NEW held, th' = [th EXCEPT ![t] = [At(pc) EXCEPT !.id = i, !.rec = q, !.held = held]]
          PROVE  (\A u \in Threads \ {t} : th'[u] = th[u]) /\ ThreadSigned(th[t])'
      <4>1. /\ \A u \in Threads \ {t} : th'[u] = th[u]
            /\ th'[t].pc = pc /\ th'[t].id = i /\ th'[t].rec = q
        BY <3>1 DEF At, TypeOK
      <4>2. Signed(i, q)'
        BY <2>1, <3>1 DEF Signed, IsApproved
      <4> QED  BY <4>1, <4>2 DEF ThreadSigned, HoldsCopy, MayExecute, HasDecided, IsDeciding
    <3>2. CASE GateOpen(i, r)
      BY <1>1, <2>3, <2>4, <3>1, <3>2 DEF Dequeue
    <3>3. CASE ~GateOpen(i, r) /\ r.lifecycle = "pending_approval"
      <4>1. th' = [th EXCEPT ![t] = [At("refuse") EXCEPT !.id = i, !.rec = GateRefusal(r)]]
        BY <1>1, <2>3, <3>3 DEF Dequeue, GatedStop
      <4>2. Signed(i, GateRefusal(r))
        BY <2>4, StampedSigned DEF GateRefusal
      <4>3. /\ \A u \in Threads \ {t} : th'[u] = th[u]
            /\ th'[t].pc = "refuse" /\ th'[t].id = i /\ th'[t].rec = GateRefusal(r)
        BY <4>1 DEF At, TypeOK
      <4>4. Signed(i, GateRefusal(r))'
        BY <2>1, <4>2 DEF Signed, IsApproved
      <4> QED  BY <4>3, <4>4 DEF ThreadSigned, HoldsCopy, MayExecute, HasDecided, IsDeciding
    <3>4. CASE ~GateOpen(i, r) /\ r.lifecycle # "pending_approval"
      BY <1>1, <2>3, <3>4, IdleSigned DEF Dequeue, GatedStop
    <3> QED  BY <3>2, <3>3, <3>4
  <2> QED  BY <2>1, <2>5, <2>6, OthersSigned
<1>2. ASSUME th[t].pc \in MayExecute, UNCHANGED <<row, queue, decision, recovery>>,
             \/ \E pc \in {"maintenance", "start"} : Goto(t, pc)
             \/ \E res, c : RefuseWith(t, Completed(th[t].rec, res, c))
             \/ \E res, c : Carries(t, "finish", Completed(th[t].rec, res, c))
      PROVE  SignedInvariant'
  <2>0. PICK i \in Ids, r \in Rows : i = th[t].id /\ r = th[t].rec
    BY <1>2, BusyType DEF MayExecute, Pcs, Resting
  <2>1. Signed(i, r)
    BY <1>2, <2>0 DEF SignedInvariant, ThreadsSigned, ThreadSigned
  <2>2. \A res, c : Signed(i, Completed(r, res, c))
    BY <2>1, StampedSigned
  <2>3. (\A u \in Threads \ {t} : th'[u] = th[u]) /\ ThreadSigned(th[t])'
    <3>1. ASSUME NEW pc \in {"maintenance", "start"}, Goto(t, pc)
          PROVE  (\A u \in Threads \ {t} : th'[u] = th[u]) /\ ThreadSigned(th[t])'
      BY <1>2, <1>c, <2>0, <2>1, <3>1, CarrySigned
    <3>2. ASSUME NEW res, NEW c, NEW pc \in {"refuse", "finish"},
                 Carries(t, pc, Completed(r, res, c))
          PROVE  (\A u \in Threads \ {t} : th'[u] = th[u]) /\ ThreadSigned(th[t])'
      <4>1. PICK q : q = Completed(r, res, c)
        OBVIOUS
      <4>2. Signed(i, q) /\ Carries(t, pc, q)
        BY <2>2, <3>2, <4>1
      <4> QED  BY <1>2, <1>c, <2>0, <4>2, CarrySigned
    <3> QED  BY <1>2, <2>0, <3>1, <3>2 DEF RefuseWith, Carries
  <2> QED  BY <1>2, <2>0, <2>3, SignedStep
<1>3. CASE CheckFreeze(t)
  <2>1. th[t].pc \in MayExecute /\ UNCHANGED <<row, queue, decision, recovery>>
    BY <1>3 DEF CheckFreeze, dbVars, history, MayExecute
  <2>2. RefuseWith(t, FreezeRefusal(th[t].rec)) \/ Goto(t, "maintenance")
    BY <1>3 DEF CheckFreeze
  <2> QED  BY <1>2, <2>1, <2>2 DEF FreezeRefusal
<1>4. CASE CheckMaintenance(t)
  <2>1. th[t].pc \in MayExecute /\ UNCHANGED <<row, queue, decision, recovery>>
    BY <1>4 DEF CheckMaintenance, dbVars, history, MayExecute
  <2>2. \/ RefuseWith(t, MaintenanceRefusal(th[t].rec)) \/ RefuseWith(t, AdvisoryRefusal(th[t].rec))
        \/ Goto(t, "start")
    BY <1>4 DEF CheckMaintenance, AfterHolds
  <2> QED  BY <1>2, <2>1, <2>2 DEF MaintenanceRefusal, AdvisoryRefusal
<1>5. CASE Act(t)
  <2>1. th[t].pc \in MayExecute /\ UNCHANGED <<row, queue, decision, recovery>>
    BY <1>5 DEF Act, dbVars, MayExecute
  <2>2. \E res, c : Carries(t, "finish", Completed(th[t].rec, res, c))
    BY <1>5 DEF Act, Executed, Carries
  <2> QED  BY <1>2, <2>1, <2>2
<1>6. CASE Refuse(t) \/ Finish(t)
  <2>0. PICK i \in Ids, r \in Rows : i = th[t].id /\ r = th[t].rec
    BY <1>6, BusyType DEF Refuse, Finish, Pcs, Resting
  <2>1. Signed(i, r)
    BY <1>6, <2>0 DEF Refuse, Finish, SignedInvariant, ThreadsSigned, ThreadSigned, HoldsCopy
  <2>2. /\ UNCHANGED <<queue, decision, recovery>>
        /\ row' = row \/ row' = [row EXCEPT ![i] = r]
    BY <1>6, <2>0 DEF Refuse, Finish, WriteOrIgnore, Write
  <2>3. "seen" \in Pcs \ Signing /\ (Leave(t) \/ Goto(t, "seen"))
    BY <1>6, SigningPcs DEF Refuse, Finish, Pcs
  <2> QED  BY <2>1, <2>2, <2>3, IdleSigned, SignedStep
<1>7. CASE StartAction(t)
  <2>0. PICK i \in Ids, r \in Rows : i = th[t].id /\ r = th[t].rec
    BY <1>7, BusyType DEF StartAction, Pcs, Resting
  <2>1. Signed(i, r)
    BY <1>7, <2>0 DEF StartAction, SignedInvariant, ThreadsSigned, ThreadSigned, MayExecute
  <2>2. PICK q \in Rows : q = Running(r) /\ Signed(i, q)
    BY <2>1, RowTypes, StampedSigned
  <2>3. UNCHANGED <<queue, decision, recovery>>
    BY <1>7 DEF StartAction
  <2>4. CASE row' = row /\ Leave(t)
    BY <2>2, <2>3, <2>4, IdleSigned, SignedStep
  <2>5. CASE row' = [row EXCEPT ![i] = q] /\ Carries(t, "act", q)
    <3>1. (\A u \in Threads \ {t} : th'[u] = th[u]) /\ ThreadSigned(th[t])'
      BY <1>c, <2>0, <2>2, <2>3, <2>5, CarrySigned
    <3> QED  BY <2>2, <2>3, <2>5, <3>1, SignedStep
  <2> QED  BY <1>7, <2>0, <2>2, <2>4, <2>5 DEF StartAction, Write, Carries, EndsCall
<1>8. CASE SeenFollowUp(t)
  <2>1. th[t].id \in Ids /\ UNCHANGED <<row, queue, decision, recovery>>
    BY <1>8, BusyType DEF SeenFollowUp, dbVars, history, Pcs, Resting
  <2>2. "insert_followup" \in Pcs \ Signing /\ (Leave(t) \/ Goto(t, "insert_followup"))
    BY <1>8, SigningPcs DEF SeenFollowUp, Pcs
  <2> QED  BY <2>1, <2>2, NewRowTypes, IdleSigned, SignedStep
<1>9. CASE InsertFollowUp(t)
  <2>1. FollowUp(th[t].id) \in Ids /\ ~IsGated(FollowUp(th[t].id))
    BY <1>9, BusyType, IdTypes DEF InsertFollowUp, IsGated, Pcs, Resting
  <2>2. /\ UNCHANGED <<queue, decision, recovery>>
        /\ row' = row \/ row' = [row EXCEPT ![FollowUp(th[t].id)] = NewPending]
    BY <1>9 DEF InsertFollowUp, Write
  <2>3. "push_followup" \in Pcs \ Signing /\ (Leave(t) \/ Goto(t, "push_followup"))
    BY <1>9, SigningPcs DEF InsertFollowUp, Pcs
  <2> QED  BY <2>1, <2>2, <2>3, NewRowTypes, IdleSigned, UngatedSigned, SignedStep
<1>10. CASE PushFollowUp(t)
  BY <1>10, BusyType, PushOrDropSigned DEF PushFollowUp, Pcs, Resting
<1> QED
  BY <1>1, <1>3, <1>4, <1>5, <1>6, <1>7, <1>8, <1>9, <1>10 DEF Execute

\* Every action keeps the approver on record.
LEMMA SignedNext ==
    TypeOK /\ GateInvariant /\ SignedInvariant /\ [Next]_vars => SignedInvariant'
<1> SUFFICES ASSUME TypeOK, GateInvariant, SignedInvariant, [Next]_vars PROVE SignedInvariant'
  OBVIOUS
<1>d. DecisionKept
  BY GateNext
<1>1. ASSUME NEW t \in Threads, Propose(t) \/ QueueReset(t) \/ Decide(t) \/ Execute(t)
      PROVE  SignedInvariant'
  BY <1>1, <1>d, ProposeSigned, ResetSigned, HandlerSigned, ExecuteSigned
<1>2. ASSUME NEW c \in Clis, CliEnds(c) PROVE SignedInvariant'
  <2>1. c \in Threads /\ c \in Processes
    BY DEF Threads, Handlers, Processes
  <2>2. UNCHANGED <<row, decision, recovery>>
    BY <1>2 DEF CliEnds, dbVars
  <2>3. QueuesSigned'
    BY <1>2, <1>d, <2>1, TailSigned DEF CliEnds
  <2>4. (\A u \in Threads \ {c} : th'[u] = th[u]) /\ ThreadSigned(th[c])'
    BY <1>2, <2>1
       DEF CliEnds, TypeOK, At, ThreadSigned, HoldsCopy, MayExecute, HasDecided, IsDeciding
  <2> QED  BY <2>1, <2>2, <2>3, <2>4, OthersSigned
<1>3. CASE Crash
  <2>1. UNCHANGED <<row, decision>> /\ recovery' = {}
    BY <1>3 DEF Crash, dbVars, history
  <2>2. QueuesSigned'
    BY <1>3, <1>d, TailSigned DEF Crash, Processes
  <2>3. \A t \in Threads : th'[t] = th[t] \/ th'[t].pc = "idle"
    BY <1>3 DEF Crash, At
  <2>4. RecoverySigned'
    BY <2>1 DEF RecoverySigned
  <2>5. "idle" \notin Signing
    BY SigningPcs
  <2> QED  BY <2>1, <2>2, <2>3, <2>4, <2>5, RestingSigned
<1>4. CASE Restart
  <2>1. UNCHANGED <<row, decision, queue>>
    BY <1>4 DEF Restart, dbVars
  <2>2. RecoverySigned'
    <3> SUFFICES ASSUME NEW c \in recovery' PROVE Signed(c.id, c.rec)'
      BY DEF RecoverySigned
    <3>1. PICK i \in IncompleteIds : c = Copy(i, row[i])
      BY <1>4 DEF Restart
    <3>2. i \in Ids /\ row[i].lifecycle \in InFlight /\ c.id = i /\ c.rec = row[i]
      BY <3>1 DEF IncompleteIds, Incomplete, Copy
    <3>3. Sound(i, row[i])
      BY <3>2, RowFacts DEF GateInvariant, RowsSound, RowSound, InFlight
    <3>4. Signed(i, row[i])
      BY <3>2, <3>3 DEF Sound, IsApproved, SignedInvariant, RowsSigned, RowSigned, Signed
    <3> QED  BY <2>1, <3>2, <3>4 DEF Signed, IsApproved
  <2>3. QueuesSigned'
    BY <1>d, <2>1, KeptSigned
  <2>4. Executor \in Threads /\ "recover" \in Pcs \ Signing /\ Goto(Executor, "recover")
    BY <1>4, SigningPcs DEF Restart, Threads, Pcs
  <2>5. \A t \in Threads : th'[t] = th[t] \/ th'[t].pc = "recover"
    BY <2>4, GotoFacts
  <2> QED  BY <2>1, <2>2, <2>3, <2>5, SigningPcs, RestingSigned
<1>5. ASSUME NEW c \in recovery, RecoverRow(c) PROVE SignedInvariant'
  <2>1. Executor \in Threads
    BY DEF Threads
  <2>2. PICK i \in Ids, q \in Rows : i = c.id /\ q = c.rec
    BY DEF TypeOK, Copies
  <2>3. Signed(i, q)
    BY <2>2 DEF SignedInvariant, RecoverySigned
  <2>4. PICK r \in Rows : r = Recovered(i, q) /\ Signed(i, r)
    BY <2>3, RowTypes, StampedSigned
  <2>5. /\ UNCHANGED <<queue, decision>> /\ recovery' \subseteq recovery
        /\ row' = row \/ row' = [row EXCEPT ![i] = r]
    BY <1>5, <2>2, <2>4 DEF RecoverRow, WriteOrIgnore, Write
  <2>6. /\ \A u \in Threads \ {Executor} : th'[u] = th[u]
        /\ th'[Executor] = th[Executor] \/ th'[Executor].pc = "seen"
    BY <1>5, <2>1 DEF RecoverRow, At, TypeOK
  <2>7. ThreadSigned(th[Executor])'
    <3>1. th[Executor].pc \notin Signing
      BY <1>5, SigningPcs DEF RecoverRow
    <3> QED  BY <2>6, <3>1, SigningPcs DEF ThreadSigned
  <2> QED  BY <2>1, <2>4, <2>5, <2>6, <2>7, SignedStep
<1>6. CASE StartWorkers
  <2>1. UNCHANGED <<row, decision, queue, recovery>>
    BY <1>6 DEF StartWorkers, dbVars, history
  <2>2. Executor \in Threads /\ Goto(Executor, "idle")
    BY <1>6 DEF StartWorkers, Threads
  <2>3. \A t \in Threads : th'[t] = th[t] \/ th'[t].pc = "idle"
    BY <2>2, GotoFacts
  <2>4. QueuesSigned' /\ RecoverySigned'
    BY <1>d, <2>1, KeptSigned
  <2> QED  BY <2>1, <2>3, <2>4, SigningPcs, RestingSigned
<1>7. ASSUME NEW hs, EndHolds(hs) PROVE SignedInvariant'
  <2>1. UNCHANGED <<row, decision, queue, recovery>>
    BY <1>7 DEF EndHolds, history
  <2>2. \A t \in Threads : /\ th'[t].pc = th[t].pc /\ th'[t].id = th[t].id /\ th'[t].rec = th[t].rec
                           /\ th'[t].actor = th[t].actor /\ th'[t].ack = th[t].ack
    BY <1>7, BusyType DEF EndHolds, Goroutines
  <2>3. ThreadsSigned'
    BY <2>1, <2>2
       DEF SignedInvariant, ThreadsSigned, ThreadSigned, Signed, IsApproved, Decidable
  <2>4. QueuesSigned' /\ RecoverySigned'
    BY <1>d, <2>1, KeptSigned
  <2> QED
    BY <2>1, <2>3, <2>4 DEF SignedInvariant, OnlyGatedDecided, RowsSigned, RowSigned, IsApproved
<1>8. CASE ExpireStaleApprovals
  <2>1. PICK as \in SUBSET Actions :
           /\ \A a \in as : Decidable(row[Primary(a)])
           /\ row' = [i \in Ids |-> IF IsPrimary(i) /\ i[1] \in as THEN Expired(row[i])
                                                                  ELSE row[i]]
           /\ decision' = [a \in Actions |-> IF a \in as THEN "expired" ELSE decision[a]]
           /\ UNCHANGED <<queue, th, recovery>>
    BY <1>8 DEF ExpireStaleApprovals
  <2>2. \A a \in as : decision'[a] = "expired"
    BY <2>1
  <2>3. \A i \in Ids : (\A a \in as : i # Primary(a)) => row'[i] = row[i]
    BY <2>1, IdTypes
  <2>4. \A a \in Actions \ as : decision'[a] = decision[a]
    BY <2>1
  <2>5. /\ OnlyGatedDecided' /\ RowsSigned' /\ QueuesSigned' /\ RecoverySigned'
        /\ \A t \in Threads : th'[t] = th[t] => ThreadSigned(th[t])'
    BY <1>d, <2>1, <2>2, <2>3, <2>4, DecideSigned
  <2> QED  BY <2>1, <2>5 DEF SignedInvariant, ThreadsSigned
<1>9. CASE UNCHANGED <<row, queue, th, recovery, decision>>
  <2>1. QueuesSigned' /\ RecoverySigned'
    BY <1>9, <1>d, KeptSigned
  <2> QED  BY <1>9, <2>1, RestingSigned
<1>10. ASSUME NEW h \in Holds, BeginHold(h) PROVE SignedInvariant'
  BY <1>9, <1>10 DEF BeginHold, history
<1>11. CASE UNCHANGED vars
  BY <1>9, <1>11 DEF vars
<1> QED
  <2>1. CASE Next
    BY <1>1, <1>2, <1>3, <1>4, <1>5, <1>6, <1>7, <1>8, <1>10, <2>1
       DEF Next, Recover, Operate, EndHold, ExpireOldFreezes, Threads, Handlers, CliExit, CliCrash
  <2> QED  BY <1>11, <2>1

\* ApproverOnRecord: over crashes, failed writes and any number of whole-row upserts by goroutines
\* and CLI processes, the row of an approved action names the operator who approved it, and a
\* submitter who approved their own action is on record as a bypass.
THEOREM ApproverStays == Spec => []ApproverOnRecord
<1>1. SignedInvariant => ApproverOnRecord
  BY IdTypes
     DEF SignedInvariant, OnlyGatedDecided, RowsSigned, RowSigned, OnRecord, IsGated, IsApproved,
         ApproverOnRecord
<1> QED
  BY <1>1, SignedInit, SignedNext, TypeCorrect, GateHolds, PTL DEF Spec

=============================================================================
