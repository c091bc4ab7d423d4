----------------------- MODULE ControlCarriersProofs -----------------------
(***************************************************************************)
(* Theorems about who carries a row of ControlPlane forward: the goroutine, *)
(* the queued copy or the recovery without which a pending or running row   *)
(* would wait for ever.  They are about one approver at a time, whatever    *)
(* the evaluators, the CLI processes, the crashes and the failed statements.*)
(***************************************************************************)
EXTENDS ControlPlaneProofs

OneApprover == \A h, g \in Handlers : h = g

(***************************************************************************)
(* What the copies say.  A copy on its way to the actuator is in flight, a  *)
(* closing write closes, and no copy of a row that ran says it did not.     *)
(***************************************************************************)

Honest(r) == r.result = "executed_successfully" => r.lifecycle = "completed"

\* A copy the executor will not turn away unwritten.
Runnable(i, r) == Honest(r) /\ (IsGated(i) \/ r.lifecycle \in InFlight)

\* Where a handler works on a row between its first read and its last write of it.
Handling == IsDeciding \cup HasDecided \cup {"merge_write"}

ThreadHonest(s) ==
    /\ s.pc \in HoldsCopy \cup MayExecute => Honest(s.rec)
    /\ s.pc \in {"push_new"} \cup MayExecute => s.rec.lifecycle \in InFlight
    /\ s.pc \in {"refuse", "finish", "reset_row"} => s.rec.lifecycle = "completed"
    /\ s.pc = "push_approved" => IsGated(s.id)

RowsHonest == \A i \in Ids : Honest(row[i])
QueuesHonest ==
    \A p \in Processes : \A k \in 1..Len(queue[p]) : Runnable(queue[p][k].id, queue[p][k].rec)
ThreadsHonest == \A t \in Threads : ThreadHonest(th[t])

\* One who rejects does not meet an approval: the only one who could have approved is busy here.
RejectersKnow ==
    \A h \in Handlers : th[h].pc \in Handling /\ th[h].verb = "reject"
                            => decision[th[h].id[1]] # "approved"

HonestInvariant == RowsHonest /\ QueuesHonest /\ ThreadsHonest /\ RejectersKnow

\* The program counters at which ThreadHonest says something.
Telling == HoldsCopy \cup MayExecute

LEMMA TellingPcs ==
    /\ "push_new" \in Telling /\ {"refuse", "finish", "reset_row", "push_approved"} \subseteq Telling
    /\ {"idle", "exit", "recover", "drain", "seen", "reset_insert", "reset_push", "insert_followup",
        "push_followup", "drop_new"} \cap (Telling \cup Handling) = {}
    /\ (IsDeciding \cup HasDecided) \cap Telling = {}
    /\ Telling \subseteq Pcs \ Resting /\ Handling \subseteq Pcs \ Resting
BY DEF Telling, HoldsCopy, MayExecute, Handling, IsDeciding, HasDecided, Pcs, Resting

\* What moving on keeps of a goroutine.
LEMMA MoveFacts ==
    ASSUME TypeOK, NEW t \in Threads, NEW pc
    PROVE  /\ Goto(t, pc) => /\ \A u \in Threads \ {t} : th'[u] = th[u]
                             /\ th'[t].pc = pc /\ th'[t].id = th[t].id
                             /\ th'[t].rec = th[t].rec /\ th'[t].verb = th[t].verb
           /\ \A r : Carries(t, pc, r) =>
                             /\ \A u \in Threads \ {t} : th'[u] = th[u]
                             /\ th'[t].pc = pc /\ th'[t].id = th[t].id
                             /\ th'[t].rec = r /\ th'[t].verb = th[t].verb
<1>1. Goto(t, pc) => /\ \A u \in Threads \ {t} : th'[u] = th[u]
                     /\ th'[t].pc = pc /\ th'[t].id = th[t].id
                     /\ th'[t].rec = th[t].rec /\ th'[t].verb = th[t].verb
  BY BusyType DEF Goto, TypeOK, Goroutines
<1>2. ASSUME NEW r, Carries(t, pc, r)
      PROVE  /\ \A u \in Threads \ {t} : th'[u] = th[u]
             /\ th'[t].pc = pc /\ th'[t].id = th[t].id
             /\ th'[t].rec = r /\ th'[t].verb = th[t].verb
  BY <1>2, BusyType DEF TypeOK, Goroutines, Carries
<1> QED
  BY <1>1, <1>2

LEMMA LeaveFacts ==
    ASSUME TypeOK, NEW t \in Threads, Leave(t)
    PROVE  /\ \A u \in Threads \ {t} : th'[u] = th[u]
           /\ th'[t].pc \in {"exit", "recover", "idle"} /\ th'[t].id = NoId
BY ReturnType DEF Leave, At, TypeOK

\* The rows the code makes: none says it was executed but the closing write of an execution.
LEMMA HonestRows ==
    /\ Honest(NoRow) /\ Honest(NewPending) /\ Honest(NewPendingApproval)
    /\ NewPending.lifecycle \in InFlight /\ NewPendingApproval.lifecycle \notin InFlight
    /\ NoRow.lifecycle \notin InFlight
    /\ DroppedOnFullQueue.lifecycle = "completed"
    /\ \A r \in Rows : /\ \A res, c : Completed(r, res, c).lifecycle = "completed"
                       /\ \A op, b : Honest(Approved(r, op, b))
                       /\ Running(r).lifecycle = "running" /\ Running(r).result = r.result
                       /\ Reverted(r).lifecycle = r.lifecycle
                       /\ \A i : /\ Recovered(i, r).lifecycle = "recovered"
                                 /\ Recovered(i, r).result # "executed_successfully"
    /\ \A r : r.lifecycle = "completed" => Honest(r) /\ r.lifecycle \notin InFlight
    /\ \A r : Honest(r) /\ r.lifecycle \in InFlight => r.result # "executed_successfully"
<1>1. /\ Honest(NoRow) /\ Honest(NewPending) /\ Honest(NewPendingApproval)
      /\ NewPending.lifecycle \in InFlight /\ NewPendingApproval.lifecycle \notin InFlight
      /\ NoRow.lifecycle \notin InFlight /\ DroppedOnFullQueue.lifecycle = "completed"
  BY DEF Honest, NoRow, NewPending, NewPendingApproval, InFlight, DroppedOnFullQueue, Completed
<1>2. ASSUME NEW r \in Rows
      PROVE  /\ \A res, c : Completed(r, res, c).lifecycle = "completed"
             /\ \A op, b : Honest(Approved(r, op, b))
             /\ Running(r).lifecycle = "running" /\ Running(r).result = r.result
             /\ Reverted(r).lifecycle = r.lifecycle
  BY DEF Completed, Approved, Honest, Running, Reverted, Rows
<1>3. ASSUME NEW r \in Rows, NEW i
      PROVE  /\ Recovered(i, r).lifecycle = "recovered"
             /\ Recovered(i, r).result # "executed_successfully"
  BY DEF Recovered, Rows
<1>4. /\ \A r : r.lifecycle = "completed" => Honest(r) /\ r.lifecycle \notin InFlight
      /\ \A r : Honest(r) /\ r.lifecycle \in InFlight => r.result # "executed_successfully"
  BY DEF Honest, InFlight
<1> QED
  BY <1>1, <1>2, <1>3, <1>4

\* Every queue is empty and every goroutine idle at first.
LEMMA HonestInit == Init => HonestInvariant
<1> SUFFICES ASSUME Init PROVE HonestInvariant
  OBVIOUS
<1>1. RowsHonest
  BY HonestRows DEF Init, RowsHonest
<1>2. QueuesHonest
  BY EmptySeq DEF Init, QueuesHonest
<1>3. ThreadsHonest /\ RejectersKnow
  <2>1. \A t \in Threads : th[t].pc = "idle"
    BY DEF Init, At
  <2> QED
    BY <2>1, TellingPcs DEF ThreadsHonest, ThreadHonest, RejectersKnow, Threads, Telling
<1> QED
  BY <1>1, <1>2, <1>3 DEF HonestInvariant

\* What a push or a take does to the queued copies.
LEMMA PushedCopies ==
    ASSUME TypeOK, NEW t \in Threads, NEW i \in Ids, NEW r \in Rows, Enqueue(t, i, r),
           NEW p \in Processes
    PROVE  /\ \A k \in 1..Len(queue'[p]) : \/ k \in 1..Len(queue[p]) /\ queue'[p][k] = queue[p][k]
                                           \/ queue'[p][k] = Copy(i, r)
           /\ \A k \in 1..Len(queue[p]) : k \in 1..Len(queue'[p]) /\ queue'[p][k] = queue[p][k]
           /\ \E q \in Processes : \E k \in 1..Len(queue'[q]) : queue'[q][k] = Copy(i, r)
<1>1. queue[p] \in Seq(Copies) /\ Copy(i, r) \in Copies /\ Home(t) \in Processes
      /\ queue[Home(t)] \in Seq(Copies)
  BY DEF TypeOK, Copy, Copies, Home, Processes
<1>2. queue'[p] = queue[p] \/ queue'[p] = Append(queue[p], Copy(i, r))
  BY DEF Enqueue, TypeOK
<1>3. queue'[Home(t)] = Append(queue[Home(t)], Copy(i, r))
  BY <1>1 DEF Enqueue, TypeOK
<1>4. /\ \A k \in 1..Len(queue'[p]) : \/ k \in 1..Len(queue[p]) /\ queue'[p][k] = queue[p][k]
                                      \/ queue'[p][k] = Copy(i, r)
      /\ \A k \in 1..Len(queue[p]) : k \in 1..Len(queue'[p]) /\ queue'[p][k] = queue[p][k]
  BY <1>1, <1>2, AppendProperties, LenProperties
<1>5. \E k \in 1..Len(queue'[Home(t)]) : queue'[Home(t)][k] = Copy(i, r)
  <2>1. /\ Len(queue'[Home(t)]) \in 1..Len(queue'[Home(t)])
        /\ queue'[Home(t)][Len(queue'[Home(t)])] = Copy(i, r)
    BY <1>1, <1>3, AppendProperties, LenProperties
  <2> QED
    BY <2>1
<1> QED
  BY <1>1, <1>4, <1>5

LEMMA TakenCopies ==
    ASSUME TypeOK, NEW p \in Processes, queue[p] # <<>>, queue' = [queue EXCEPT ![p] = Tail(@)],
           NEW q \in Processes
    PROVE  /\ \A k \in 1..Len(queue'[q]) : \E j \in 1..Len(queue[q]) : queue'[q][k] = queue[q][j]
           /\ \A j \in 1..Len(queue[q]) : \/ p = q /\ queue[q][j] = Head(queue[p])
                                          \/ \E k \in 1..Len(queue'[q]) : queue'[q][k] = queue[q][j]
<1>1. queue[q] \in Seq(Copies)
  BY DEF TypeOK
<1>2. CASE q # p
  <2>1. queue'[q] = queue[q]
    BY <1>2 DEF TypeOK
  <2> QED
    BY <2>1
<1>3. CASE q = p
  <2> DEFINE s == queue[q]
             n == Len(s)
  <2>1. queue'[q] = Tail(s) /\ s # <<>>
    BY <1>3 DEF TypeOK
  <2>2. /\ n \in Nat \ {0} /\ Len(Tail(s)) = n - 1 /\ Head(s) = s[1]
        /\ \A k \in 1..(n - 1) : Tail(s)[k] = s[k + 1]
    BY <1>1, <2>1, HeadTailProperties, LenProperties
  <2>3. ASSUME NEW k \in 1..(n - 1) PROVE \E j \in 1..n : Tail(s)[k] = s[j]
    <3>1. k + 1 \in 1..n
      BY <2>2
    <3> QED
      BY <2>2, <3>1
  <2>4. ASSUME NEW j \in 1..n, j # 1 PROVE \E k \in 1..(n - 1) : Tail(s)[k] = s[j]
    <3>1. j - 1 \in 1..(n - 1) /\ (j - 1) + 1 = j
      BY <2>2, <2>4
    <3>2. Tail(s)[j - 1] = s[j]
      BY <2>2, <3>1
    <3> QED
      BY <3>1, <3>2
  <2>5. PICK tail : tail = queue'[q]
    OBVIOUS
  <2>6. /\ Len(tail) = n - 1
        /\ \A k \in 1..(n - 1) : \E j \in 1..n : tail[k] = s[j]
        /\ \A j \in 1..n : j # 1 => \E k \in 1..(n - 1) : tail[k] = s[j]
    BY <2>1, <2>2, <2>3, <2>4, <2>5
  <2>7. \A j \in 1..n : j = 1 => s[j] = Head(queue[p])
    BY <1>3, <2>2
  <2> HIDE DEF s, n
  <2>8. /\ \A k \in 1..Len(tail) : \E j \in 1..n : tail[k] = s[j]
        /\ \A j \in 1..n : s[j] = Head(queue[p]) \/ \E k \in 1..Len(tail) : tail[k] = s[j]
    BY <2>6, <2>7
  <2> QED
    BY <1>3, <2>5, <2>8 DEF s, n
<1> QED
  BY <1>2, <1>3

\* Handlers that do not move know what they knew, unless somebody approves.
LEMMA RejectersKept ==
    ASSUME TypeOK, HonestInvariant, NEW h \in Handlers, th'[h] = th[h],
           \A a \in Actions : decision'[a] \in {decision[a], "rejected", "expired"}
    PROVE  th'[h].pc \in Handling /\ th'[h].verb = "reject" => decision'[th'[h].id[1]] # "approved"
<1> SUFFICES ASSUME th[h].pc \in Handling, th[h].verb = "reject"
             PROVE  decision'[th[h].id[1]] # "approved"
  OBVIOUS
<1>1. h \in Threads /\ th[h].id \in Ids
  BY BusyType, TellingPcs DEF Threads
<1>2. th[h].id[1] \in Actions
  BY <1>1, IdTypes
<1> QED
  BY <1>2 DEF HonestInvariant, RejectersKnow

\* The shape of most steps: one goroutine writes at most one honest copy, or pushes one, and ends up
\* with an honest one.
LEMMA HonestStep ==
    ASSUME TypeOK, HonestInvariant, UNCHANGED decision,
           NEW t \in Threads, NEW i \in Ids, NEW r \in Rows,
           row' = row \/ (row' = [row EXCEPT ![i] = r] /\ Honest(r)),
           UNCHANGED queue \/ (Enqueue(t, i, r) /\ Runnable(i, r)),
           \A u \in Threads \ {t} : th'[u] = th[u],
           ThreadHonest(th'[t]),
           th'[t].pc \in Handling =>
                \/ th'[t].id = th[t].id /\ th'[t].verb = th[t].verb /\ th[t].pc \in Handling
                \/ decision[th'[t].id[1]] # "approved"
    PROVE  HonestInvariant'
<1>1. RowsHonest'
  BY DEF TypeOK, HonestInvariant, RowsHonest
<1>2. QueuesHonest'
  <2> SUFFICES ASSUME NEW p \in Processes, NEW k \in 1..Len(queue'[p])
               PROVE  Runnable(queue'[p][k].id, queue'[p][k].rec)
    BY DEF QueuesHonest
  <2>1. CASE UNCHANGED queue
    BY <2>1 DEF HonestInvariant, QueuesHonest
  <2>2. CASE Enqueue(t, i, r) /\ Runnable(i, r)
    <3>1. \/ k \in 1..Len(queue[p]) /\ queue'[p][k] = queue[p][k]
          \/ queue'[p][k] = Copy(i, r)
      BY <2>2, PushedCopies
    <3> QED
      BY <2>2, <3>1 DEF HonestInvariant, QueuesHonest, Copy
  <2> QED
    BY <2>1, <2>2
<1>3. ThreadsHonest'
  BY DEF HonestInvariant, ThreadsHonest, ThreadHonest
<1>4. RejectersKnow'
  <2> SUFFICES ASSUME NEW h \in Handlers, th'[h].pc \in Handling, th'[h].verb = "reject"
               PROVE  decision'[th'[h].id[1]] # "approved"
    BY DEF RejectersKnow
  <2>1. CASE h # t
    BY <2>1, RejectersKept DEF Threads
  <2>2. CASE h = t
    BY <2>2 DEF HonestInvariant, RejectersKnow
  <2> QED
    BY <2>1, <2>2
<1> QED
  BY <1>1, <1>2, <1>3, <1>4 DEF HonestInvariant

\* A goroutine that comes to rest, or to a place where its copy says nothing, claims nothing.
LEMMA HonestIdle ==
    ASSUME TypeOK, NEW t \in Threads, Leave(t) \/ \E pc \in Pcs \ (Telling \cup Handling) : Goto(t, pc)
    PROVE  /\ \A u \in Threads \ {t} : th'[u] = th[u]
           /\ ThreadHonest(th'[t]) /\ th'[t].pc \notin Handling
<1>1. (\A u \in Threads \ {t} : th'[u] = th[u]) /\ th'[t].pc \notin Telling \cup Handling
  BY LeaveFacts, MoveFacts, TellingPcs
<1> QED
  BY <1>1, TellingPcs DEF ThreadHonest, Telling

LEMMA ProposeHonest ==
    ASSUME TypeOK, HonestInvariant, NEW t \in Threads, Propose(t)
    PROVE  HonestInvariant'
<1>1. ASSUME NEW a \in Actions, ProposeDenied(t, a) \/ ProposeBlocked(t, a) \/ ProposeGated(t, a)
      PROVE  HonestInvariant'
  <2>1. PICK r \in Rows : row' = [row EXCEPT ![Primary(a)] = r] /\ Honest(r)
    <3>1. Primary(a) \in Ids
      BY IdTypes
    <3>2. /\ Completed(NewPending, "denied_by_policy", "") \in Rows
          /\ Refusal(Primary(a), NewPending) \in Rows
      BY <3>1, NewRowTypes, RowTypes DEF Results, Closures, Refusal
    <3>3. /\ Honest(Completed(NewPending, "denied_by_policy", ""))
          /\ Honest(Refusal(Primary(a), NewPending))
      <4>1. \A res, c : Honest(Completed(NewPending, res, c))
        BY HonestRows, NewRowTypes
      <4> QED
        BY <4>1 DEF Refusal, FreezeRefusal, MaintenanceRefusal
    <3> QED
      BY <1>1, <3>2, <3>3, NewRowTypes, HonestRows DEF ProposeDenied, ProposeBlocked, ProposeGated, Insert
  <2>2. Leave(t) /\ UNCHANGED <<queue, decision>> /\ Primary(a) \in Ids
    BY <1>1, IdTypes DEF ProposeDenied, ProposeBlocked, ProposeGated, ClosesAtOnce, history
  <2> QED
    BY <2>1, <2>2, HonestIdle, HonestStep
<1>2. ASSUME NEW a \in Actions, ProposeAuto(t, a) PROVE HonestInvariant'
  <2>1. row' = [row EXCEPT ![Primary(a)] = NewPending] /\ UNCHANGED <<queue, decision>>
    BY <1>2 DEF ProposeAuto, Insert, history
  <2>2. /\ \A u \in Threads \ {t} : th'[u] = th[u]
        /\ th'[t].pc = "push_new" /\ th'[t].rec = NewPending
    BY <1>2 DEF ProposeAuto, At, TypeOK
  <2>3. ThreadHonest(th'[t]) /\ th'[t].pc \notin Handling
    BY <2>2, HonestRows DEF ThreadHonest, Handling, IsDeciding, HasDecided
  <2> QED
    BY <2>1, <2>2, <2>3, IdTypes, NewRowTypes, HonestRows, HonestStep
<1>3. CASE PushNew(t)
  <2>1. /\ th[t].id \in Ids /\ th[t].rec \in Rows /\ Runnable(th[t].id, th[t].rec)
    BY <1>3, BusyType
       DEF PushNew, HonestInvariant, ThreadsHonest, ThreadHonest, Runnable, HoldsCopy, Pcs, Resting
  <2>2. UNCHANGED <<row, decision>>
    BY <1>3 DEF PushNew, dbVars, history
  <2>3. \/ Leave(t) /\ Enqueue(t, th[t].id, th[t].rec)
        \/ Goto(t, "drop_new") /\ UNCHANGED queue
    BY <1>3 DEF PushNew
  <2>4. "drop_new" \in Pcs \ (Telling \cup Handling)
    BY TellingPcs DEF Pcs
  <2>5. /\ \A u \in Threads \ {t} : th'[u] = th[u]
        /\ ThreadHonest(th'[t]) /\ th'[t].pc \notin Handling
    BY <2>3, <2>4, HonestIdle
  <2>6. UNCHANGED queue \/ Enqueue(t, th[t].id, th[t].rec)
    BY <2>3
  <2> QED
    BY <2>1, <2>2, <2>5, <2>6, HonestStep
<1>4. CASE DropNew(t)
  <2>1. th[t].id \in Ids /\ Leave(t) /\ UNCHANGED <<queue, decision>>
    BY <1>4, BusyType DEF DropNew, Pcs, Resting
  <2>2. row' = row \/ row' = [row EXCEPT ![th[t].id] = DroppedOnFullQueue]
    BY <1>4 DEF DropNew, WriteOrIgnore, Write
  <2> QED
    BY <2>1, <2>2, HonestIdle, HonestRows, NewRowTypes, HonestStep
<1> QED
  BY <1>1, <1>2, <1>3, <1>4 DEF Propose

LEMMA PushOrDropHonest ==
    ASSUME TypeOK, HonestInvariant, NEW t \in Threads, th[t].id \in Ids, PushOrDrop(t)
    PROVE  HonestInvariant'
<1>1. /\ FollowUp(th[t].id) \in Ids /\ Runnable(FollowUp(th[t].id), NewPending)
      /\ UNCHANGED <<row, decision>> /\ Leave(t)
      /\ UNCHANGED queue \/ Enqueue(t, FollowUp(th[t].id), NewPending)
  BY IdTypes, HonestRows DEF PushOrDrop, dbVars, Runnable
<1> QED
  BY <1>1, NewRowTypes, HonestIdle, HonestStep

\* A reset rewrites a row that ran, and so was closed.
LEMMA ResetHonest ==
    ASSUME TypeOK, HonestInvariant, NEW t \in Threads, QueueReset(t)
    PROVE  HonestInvariant'
<1>1. ASSUME NEW a \in Actions, ResetBegin(t, a) PROVE HonestInvariant'
  <2>1. Primary(a) \in Ids /\ row[Primary(a)] \in Rows
    BY IdTypes DEF TypeOK
  <2>2. row[Primary(a)].lifecycle = "completed" /\ Honest(row[Primary(a)])
    BY <1>1, <2>1 DEF ResetBegin, Revertible, HonestInvariant, RowsHonest, Honest
  <2>3. UNCHANGED <<row, queue, decision>>
    BY <1>1 DEF ResetBegin, dbVars, history
  <2>4. /\ \A u \in Threads \ {t} : th'[u] = th[u]
        /\ th'[t].pc = "reset_row" /\ th'[t].rec = row[Primary(a)]
    BY <1>1 DEF ResetBegin, At, TypeOK
  <2>5. ThreadHonest(th'[t]) /\ th'[t].pc \notin Handling
    BY <2>2, <2>4 DEF ThreadHonest, MayExecute, Handling, IsDeciding, HasDecided
  <2> QED
    BY <2>1, <2>3, <2>4, <2>5, HonestStep
<1>2. CASE ResetRow(t)
  <2>1. th[t].id \in Ids /\ th[t].rec \in Rows /\ th[t].rec.lifecycle = "completed"
    BY <1>2, BusyType DEF ResetRow, Pcs, Resting, HonestInvariant, ThreadsHonest, ThreadHonest
  <2>2. Reverted(th[t].rec) \in Rows /\ Honest(Reverted(th[t].rec))
    BY <2>1, RowTypes, HonestRows
  <2>3. /\ UNCHANGED <<queue, decision>> /\ Goto(t, "reset_insert")
        /\ row' = row \/ row' = [row EXCEPT ![th[t].id] = Reverted(th[t].rec)]
    BY <1>2 DEF ResetRow, WriteOrIgnore, Write
  <2>4. "reset_insert" \in Pcs \ (Telling \cup Handling)
    BY TellingPcs DEF Pcs
  <2> QED
    BY <2>1, <2>2, <2>3, <2>4, HonestIdle, HonestStep
<1>3. CASE ResetInsert(t)
  <2>1. FollowUp(th[t].id) \in Ids
    BY <1>3, BusyType, IdTypes DEF ResetInsert, Pcs, Resting
  <2>2. /\ UNCHANGED <<queue, decision>> /\ Goto(t, "reset_push")
        /\ row' = row \/ row' = [row EXCEPT ![FollowUp(th[t].id)] = NewPending]
    BY <1>3 DEF ResetInsert, WriteOrIgnore, Write
  <2>3. "reset_push" \in Pcs \ (Telling \cup Handling)
    BY TellingPcs DEF Pcs
  <2> QED
    BY <2>1, <2>2, <2>3, NewRowTypes, HonestRows, HonestIdle, HonestStep
<1>4. CASE ResetPush(t)
  BY <1>4, BusyType, PushOrDropHonest DEF ResetPush, Pcs, Resting
<1> QED
  BY <1>1, <1>2, <1>3, <1>4 DEF QueueReset

\* A decision is written and read back; with one approver a rejection meets no approval.
LEMMA DecideHonest ==
    ASSUME OneApprover, TypeOK, GateInvariant, SignedInvariant, HonestInvariant,
           NEW t \in Handlers, Decide(t)
    PROVE  HonestInvariant'
<1>t. t \in Threads
  BY DEF Threads
<1>h. ASSUME NEW pc \in Handling \ Telling, Goto(t, pc), th[t].pc \in Handling
      PROVE  /\ \A u \in Threads \ {t} : th'[u] = th[u]
             /\ ThreadHonest(th'[t])
             /\ th'[t].id = th[t].id /\ th'[t].verb = th[t].verb /\ th[t].pc \in Handling
  <2>1. /\ \A u \in Threads \ {t} : th'[u] = th[u]
        /\ th'[t].pc \notin Telling /\ th'[t].id = th[t].id /\ th'[t].verb = th[t].verb
    BY <1>h, <1>t, MoveFacts
  <2> QED
    BY <1>h, <2>1, TellingPcs DEF ThreadHonest, Telling
<1>p. {"recheck", "update", "verify", "merge_read", "reload"} \subseteq Handling \ Telling
  BY DEF Handling, Telling, HoldsCopy, MayExecute, IsDeciding, HasDecided
<1>1. ASSUME NEW a \in Actions, NEW v \in Verbs, NEW op \in Operators, NEW k \in BOOLEAN,
             Load(t, a, v, op, k)
      PROVE  HonestInvariant'
  <2>1. Primary(a) \in Ids /\ Primary(a)[1] = a /\ UNCHANGED <<row, queue, decision>>
    BY <1>1, IdTypes DEF Load, dbVars, history
  <2>2. decision[a] = "none"
    <3>1. Decidable(row[Primary(a)]) /\ RowSound(Primary(a))
      BY <1>1, <2>1 DEF Load, GateInvariant, RowsSound
    <3> QED  BY <2>1, <3>1, RowFacts DEF RowSound, Sound, Decidable
  <2>3. /\ \A u \in Threads \ {t} : th'[u] = th[u]
        /\ th'[t].pc = "recheck" /\ th'[t].id = Primary(a)
    BY <1>1, <1>t DEF Load, At, TypeOK
  <2>4. ThreadHonest(th'[t])
    BY <1>p, <2>3, TellingPcs DEF ThreadHonest, Telling
  <2> QED
    BY <1>t, <2>1, <2>2, <2>3, <2>4, NewRowTypes, HonestStep
<1>2. CASE Recheck(t)
  <2>1. th[t].pc \in Handling /\ UNCHANGED <<row, queue, decision>> /\ (Leave(t) \/ Goto(t, "update"))
    BY <1>2, <1>p DEF Recheck, dbVars, history
  <2>2. th[t].id \in Ids
    BY <1>t, <2>1, BusyType, TellingPcs
  <2> QED
    BY <1>h, <1>p, <1>t, <2>1, <2>2, NewRowTypes, HonestIdle, HonestStep
<1>3. CASE Update(t)
  <2>0. PICK i \in Ids : i = th[t].id /\ i[1] \in Actions
    BY <1>3, <1>t, BusyType, IdTypes DEF Update, Pcs, Resting
  <2>1. th[t].pc = "update" /\ th[t].pc \in Handling /\ UNCHANGED <<queue, recovery>>
    BY <1>3, <1>p DEF Update
  <2>2. CASE UNCHANGED <<row, decision>>
    BY <1>3, <1>h, <1>p, <1>t, <2>0, <2>1, <2>2, NewRowTypes, HonestIdle, HonestStep DEF Update
  <2>3. CASE ~UNCHANGED <<row, decision>>
    <3>1. /\ DecideRow(t) /\ Goto(t, "verify") /\ Decidable(row[i])
      BY <1>3, <2>0, <2>3 DEF Update, DecideRow
    <3>2. \E r \in Rows : row' = [row EXCEPT ![i] = r] /\ Honest(r)
      <4>1. row[i] \in Rows /\ th[t].actor \in Operators \cup {Nobody} /\ Bypass(t) \in BOOLEAN
        BY <1>t, BusyType DEF TypeOK, Bypass
      <4>2. /\ Approved(row[i], th[t].actor, Bypass(t)) \in Rows
            /\ Honest(Approved(row[i], th[t].actor, Bypass(t)))
            /\ Rejected(row[i]) \in Rows /\ Honest(Rejected(row[i]))
        <5>1. Approved(row[i], th[t].actor, Bypass(t)) \in Rows /\ Rejected(row[i]) \in Rows
          BY <4>1, RowTypes
        <5>2. Honest(Approved(row[i], th[t].actor, Bypass(t)))
          BY <4>1, HonestRows
        <5>3. Rejected(row[i]).lifecycle = "completed"
          BY <4>1, HonestRows DEF Rejected
        <5> QED
          BY <5>1, <5>2, <5>3, HonestRows
      <4> QED
        BY <2>0, <3>1, <4>2 DEF DecideRow
    <3>3. /\ \A u \in Threads \ {t} : th'[u] = th[u]
          /\ ThreadHonest(th'[t])
          /\ th'[t].id = i /\ th'[t].verb = th[t].verb
      BY <1>h, <1>p, <1>t, <2>0, <2>1, <3>1
    <3>4. th[t].verb = "reject" => decision'[i[1]] = "rejected"
      BY <2>0, <3>1 DEF DecideRow, TypeOK
    <3>5. \A h \in Handlers : h = t
      BY DEF OneApprover
    <3>6. RejectersKnow'
      BY <3>3, <3>4, <3>5 DEF RejectersKnow
    <3>7. RowsHonest'
      BY <3>2 DEF TypeOK, HonestInvariant, RowsHonest
    <3>8. ThreadsHonest'
      BY <3>3 DEF HonestInvariant, ThreadsHonest, ThreadHonest
    <3>9. QueuesHonest'
      BY <2>1 DEF HonestInvariant, QueuesHonest
    <3> QED
      BY <3>6, <3>7, <3>8, <3>9 DEF HonestInvariant
  <2> QED
    BY <2>2, <2>3
<1>4. CASE Verify(t)
  <2>1. th[t].pc \in Handling /\ UNCHANGED <<row, queue, decision>>
    BY <1>4, <1>p DEF Verify, EndsCall
  <2>2. Leave(t) \/ Goto(t, "merge_read") \/ Goto(t, "reload")
    BY <1>4 DEF Verify, AfterMerge, EndsCall
  <2>3. th[t].id \in Ids
    BY <1>t, <2>1, BusyType, TellingPcs
  <2> QED
    BY <1>h, <1>p, <1>t, <2>1, <2>2, <2>3, NewRowTypes, HonestIdle, HonestStep
<1>5. CASE MergeRead(t) \/ Reload(t)
  <2>0. PICK i \in Ids : i = th[t].id
    BY <1>5, <1>t, BusyType DEF MergeRead, Reload, Pcs, Resting
  <2>1. /\ UNCHANGED <<row, queue, decision>> /\ row[i] \in Rows /\ Honest(row[i])
        /\ th[t].pc \in Handling /\ IsGated(i)
    BY <1>5, <1>t, <2>0 DEF MergeRead, Reload, EndsCall, TypeOK, HonestInvariant, RowsHonest,
                            Handling, HasDecided, SignedInvariant, ThreadsSigned, ThreadSigned
  <2>2. Leave(t) \/ \E pc \in {"merge_write", "push_approved"} : Carries(t, pc, row[i])
    BY <1>5, <2>0 DEF MergeRead, Reload, Carries, EndsCall
  <2>5. CASE Leave(t)
    BY <1>t, <2>0, <2>1, <2>5, NewRowTypes, HonestIdle, HonestStep
  <2>6. CASE \E pc \in {"merge_write", "push_approved"} : Carries(t, pc, row[i])
    <3>1. PICK pc \in {"merge_write", "push_approved"}, r \in Rows : r = row[i] /\ Carries(t, pc, r)
      BY <2>1, <2>6
    <3>2. /\ \A u \in Threads \ {t} : th'[u] = th[u]
          /\ th'[t].pc = pc /\ th'[t].id = i /\ th'[t].rec = r
      BY <1>t, <2>0, <3>1, CarryFacts
    <3>3. th'[t].verb = th[t].verb
      BY <1>t, <3>1, BusyType DEF Carries, TypeOK, Goroutines
    <3>4. ThreadHonest(th'[t])
      BY <2>1, <3>1, <3>2 DEF ThreadHonest, MayExecute
    <3> QED
      BY <1>t, <2>0, <2>1, <3>2, <3>3, <3>4, HonestStep
  <2> QED
    BY <2>2, <2>5, <2>6
<1>6. CASE MergeWrite(t)
  <2>1. /\ th[t].id \in Ids /\ th[t].rec \in Rows /\ Honest(th[t].rec) /\ th[t].pc \in Handling
    BY <1>6, <1>t, BusyType
       DEF MergeWrite, Pcs, Resting, HonestInvariant, ThreadsHonest, ThreadHonest, HoldsCopy, Handling
  <2>2. /\ UNCHANGED <<queue, decision>>
        /\ row' = row \/ row' = [row EXCEPT ![th[t].id] = th[t].rec]
        /\ Leave(t) \/ Goto(t, "reload")
    BY <1>6 DEF MergeWrite, Write, AfterMerge, EndsCall
  <2> QED
    BY <1>h, <1>p, <1>t, <2>1, <2>2, HonestIdle, HonestStep
<1>7. CASE PushApproved(t)
  <2>1. /\ th[t].id \in Ids /\ th[t].rec \in Rows /\ Runnable(th[t].id, th[t].rec)
    BY <1>7, <1>t, BusyType
       DEF PushApproved, Pcs, Resting, HonestInvariant, ThreadsHonest, ThreadHonest, HoldsCopy, Runnable
  <2>2. /\ UNCHANGED <<row, decision>>
        /\ UNCHANGED queue \/ Enqueue(t, th[t].id, th[t].rec)
    BY <1>7 DEF PushApproved, dbVars
  <2>3. (\A u \in Threads \ {t} : th'[u] = th[u]) /\ th'[t].pc \in {"exit", "recover", "idle", "drain"}
    BY <1>7, <1>t, ReturnType DEF PushApproved, Leave, TypeOK, At
  <2>4. ThreadHonest(th'[t]) /\ th'[t].pc \notin Handling
    BY <2>3, TellingPcs DEF ThreadHonest, Telling
  <2> QED
    BY <1>t, <2>1, <2>2, <2>3, <2>4, HonestStep
<1> QED
  BY <1>1, <1>2, <1>3, <1>4, <1>5, <1>6, <1>7 DEF Decide

\* Taking a copy, and queues that were emptied, leave the rest runnable.
LEMMA TailHonest ==
    ASSUME TypeOK, HonestInvariant, NEW p \in Processes,
           \/ queue[p] # <<>> /\ queue' = [queue EXCEPT ![p] = Tail(@)]
           \/ queue' = [queue EXCEPT ![p] = <<>>]
    PROVE  QueuesHonest'
<1> SUFFICES ASSUME NEW q \in Processes, NEW k \in 1..Len(queue'[q])
             PROVE  Runnable(queue'[q][k].id, queue'[q][k].rec)
  BY DEF QueuesHonest
<1>1. \E j \in 1..Len(queue[q]) : queue'[q][k] = queue[q][j]
  <2>1. CASE queue[p] # <<>> /\ queue' = [queue EXCEPT ![p] = Tail(@)]
    BY <2>1, TakenCopies
  <2>2. CASE queue' = [queue EXCEPT ![p] = <<>>]
    <3>1. queue'[q] = queue[q] \/ queue'[q] = <<>>
      BY <2>2 DEF TypeOK
    <3> QED
      BY <3>1, EmptySeq
  <2> QED
    BY <2>1, <2>2
<1> QED
  BY <1>1 DEF HonestInvariant, QueuesHonest

\* One goroutine takes a copy; or only goroutines that claim nothing change.
LEMMA HonestRest ==
    ASSUME TypeOK, HonestInvariant, QueuesHonest', RowsHonest',
           \A a \in Actions : decision'[a] \in {decision[a], "rejected", "expired"},
           \A t \in Threads : \/ th'[t] = th[t]
                              \/ ThreadHonest(th'[t]) /\ th'[t].pc \notin Handling
    PROVE  HonestInvariant'
<1>1. ThreadsHonest'
  BY DEF HonestInvariant, ThreadsHonest, ThreadHonest
<1>2. RejectersKnow'
  BY RejectersKept DEF RejectersKnow, Threads
<1> QED
  BY <1>1, <1>2 DEF HonestInvariant

\* The executor runs copies in flight, and its last write closes the row.
LEMMA ExecuteHonest ==
    ASSUME TypeOK, HonestInvariant, NEW t \in Threads, Execute(t)
    PROVE  HonestInvariant'
<1>p. (MayExecute \cup {"refuse", "finish"}) \cap Handling = {}
  BY DEF MayExecute, Handling, IsDeciding, HasDecided
<1>1. CASE Dequeue(t)
  <2> DEFINE p == Home(t)
             c == Head(queue[p])
  <2>1. /\ p \in Processes /\ queue[p] # <<>> /\ queue' = [queue EXCEPT ![p] = Tail(@)]
        /\ UNCHANGED <<row, decision>>
    BY <1>1 DEF Dequeue, Home, Processes, dbVars, history
  <2>2. c \in Copies /\ Runnable(c.id, c.rec)
    <3>1. queue[p] \in Seq(Copies)
      BY <2>1 DEF TypeOK
    <3>2. c = queue[p][1] /\ 1 \in 1..Len(queue[p]) /\ c \in Copies
      BY <2>1, <3>1, HeadTailProperties, LenProperties, EmptySeq
    <3> QED
      BY <2>1, <3>2 DEF HonestInvariant, QueuesHonest
  <2>3. (\A u \in Threads \ {t} : th'[u] = th[u]) /\ ThreadHonest(th'[t]) /\ th'[t].pc \notin Handling
    <3>1. CASE GateOpen(c.id, c.rec)
      <4>1. /\ \A u \in Threads \ {t} : th'[u] = th[u]
            /\ th'[t].pc = "freeze" /\ th'[t].rec = c.rec
        BY <1>1, <3>1 DEF Dequeue, At, TypeOK
      <4>2. Honest(c.rec) /\ c.rec.lifecycle \in InFlight
        BY <2>2, <3>1 DEF Runnable, GateOpen
      <4> QED
        BY <1>p, <4>1, <4>2 DEF ThreadHonest, MayExecute
    <3>2. CASE ~GateOpen(c.id, c.rec) /\ c.rec.lifecycle = "pending_approval"
      <4>1. /\ \A u \in Threads \ {t} : th'[u] = th[u]
            /\ th'[t].pc = "refuse" /\ th'[t].rec = GateRefusal(c.rec)
        BY <1>1, <3>2 DEF Dequeue, GatedStop, At, TypeOK
      <4>2. GateRefusal(c.rec).lifecycle = "completed"
        BY <2>2, HonestRows DEF GateRefusal, Copies
      <4>3. Honest(GateRefusal(c.rec))
        BY <4>2, HonestRows
      <4> QED
        BY <1>p, <4>1, <4>2, <4>3 DEF ThreadHonest, MayExecute
    <3>3. CASE ~GateOpen(c.id, c.rec) /\ c.rec.lifecycle # "pending_approval"
      BY <1>1, <3>3, HonestIdle DEF Dequeue, GatedStop
    <3> QED
      BY <3>1, <3>2, <3>3
  <2>4. QueuesHonest'
    BY <2>1, TailHonest
  <2> QED
    BY <2>1, <2>3, <2>4, HonestRest DEF HonestInvariant, RowsHonest
<1>2. ASSUME th[t].pc \in MayExecute, UNCHANGED <<row, queue, decision>>,
             \/ \E pc \in {"maintenance", "start"} : Goto(t, pc)
             \/ \E pc \in {"refuse", "finish"} : \E res, c : Carries(t, pc, Completed(th[t].rec, res, c))
      PROVE  HonestInvariant'
  <2>1. th[t].id \in Ids /\ th[t].rec \in Rows /\ Honest(th[t].rec) /\ th[t].rec.lifecycle \in InFlight
    BY <1>2, BusyType DEF HonestInvariant, ThreadsHonest, ThreadHonest, MayExecute, Pcs, Resting
  <2>2. (\A u \in Threads \ {t} : th'[u] = th[u]) /\ ThreadHonest(th'[t]) /\ th'[t].pc \notin Handling
    <3>1. ASSUME NEW pc \in {"maintenance", "start"}, Goto(t, pc)
          PROVE  (\A u \in Threads \ {t} : th'[u] = th[u]) /\ ThreadHonest(th'[t]) /\ th'[t].pc \notin Handling
      <4>1. (\A u \in Threads \ {t} : th'[u] = th[u]) /\ th'[t].pc = pc /\ th'[t].rec = th[t].rec
        BY <3>1, MoveFacts
      <4> QED
        BY <1>p, <2>1, <4>1 DEF ThreadHonest, MayExecute
    <3>2. ASSUME NEW pc \in {"refuse", "finish"}, NEW res, NEW c,
                 Carries(t, pc, Completed(th[t].rec, res, c))
          PROVE  (\A u \in Threads \ {t} : th'[u] = th[u]) /\ ThreadHonest(th'[t]) /\ th'[t].pc \notin Handling
      <4>q. PICK q : q = Completed(th[t].rec, res, c)
        OBVIOUS
      <4>m. (\A u \in Threads \ {t} : th'[u] = th[u]) /\ th'[t].pc = pc /\ th'[t].rec = q
        <5>1. Carries(t, pc, q)
          BY <3>2, <4>q DEF Carries
        <5> QED
          BY <5>1, MoveFacts
      <4>1. /\ \A u \in Threads \ {t} : th'[u] = th[u]
            /\ th'[t].pc = pc /\ th'[t].rec = Completed(th[t].rec, res, c)
        BY <4>q, <4>m
      <4>2. Completed(th[t].rec, res, c).lifecycle = "completed"
        BY <2>1, HonestRows
      <4>3. Honest(Completed(th[t].rec, res, c))
        BY <4>2, HonestRows
      <4> QED
        BY <1>p, <4>1, <4>2, <4>3 DEF ThreadHonest, MayExecute
    <3> QED
      BY <1>2, <3>1, <3>2
  <2> QED
    BY <1>2, <2>1, <2>2, HonestStep
<1>3. CASE CheckFreeze(t)
  <2>1. th[t].pc \in MayExecute /\ UNCHANGED <<row, queue, decision>>
    BY <1>3 DEF CheckFreeze, dbVars, history, MayExecute
  <2>2. Carries(t, "refuse", FreezeRefusal(th[t].rec)) \/ Goto(t, "maintenance")
    BY <1>3 DEF CheckFreeze, RefuseWith, Carries
  <2> QED  BY <1>2, <2>1, <2>2 DEF FreezeRefusal
<1>4. CASE CheckMaintenance(t)
  <2>1. th[t].pc \in MayExecute /\ UNCHANGED <<row, queue, decision>>
    BY <1>4 DEF CheckMaintenance, dbVars, history, MayExecute
  <2>2. \/ Carries(t, "refuse", MaintenanceRefusal(th[t].rec))
        \/ Carries(t, "refuse", AdvisoryRefusal(th[t].rec))
        \/ Goto(t, "start")
    BY <1>4 DEF CheckMaintenance, AfterHolds, RefuseWith, Carries
  <2> QED  BY <1>2, <2>1, <2>2 DEF MaintenanceRefusal, AdvisoryRefusal
<1>5. CASE Act(t)
  <2>1. th[t].pc \in MayExecute /\ UNCHANGED <<row, queue, decision>>
    BY <1>5 DEF Act, dbVars, MayExecute
  <2>2. \E res, c : Carries(t, "finish", Completed(th[t].rec, res, c))
    BY <1>5 DEF Act, Executed, Carries
  <2> QED  BY <1>2, <2>1, <2>2
<1>6. CASE Refuse(t) \/ Finish(t)
  <2>1. /\ th[t].id \in Ids /\ th[t].rec \in Rows /\ Honest(th[t].rec)
    BY <1>6, BusyType
       DEF Refuse, Finish, Pcs, Resting, HonestInvariant, ThreadsHonest, ThreadHonest, HoldsCopy
  <2>2. /\ UNCHANGED <<queue, decision>>
        /\ row' = row \/ row' = [row EXCEPT ![th[t].id] = th[t].rec]
        /\ Leave(t) \/ Goto(t, "seen")
    BY <1>6 DEF Refuse, Finish, WriteOrIgnore, Write
  <2>3. "seen" \in Pcs \ (Telling \cup Handling)
    BY TellingPcs DEF Pcs
  <2> QED  BY <2>1, <2>2, <2>3, HonestIdle, HonestStep
<1>7. CASE StartAction(t)
  <2>1. th[t].id \in Ids /\ th[t].rec \in Rows /\ Honest(th[t].rec) /\ th[t].rec.lifecycle \in InFlight
    BY <1>7, BusyType DEF StartAction, Pcs, Resting, HonestInvariant, ThreadsHonest, ThreadHonest, MayExecute
  <2>2. PICK q \in Rows : q = Running(th[t].rec)
    BY <2>1, RowTypes
  <2>3. Honest(q) /\ q.lifecycle \in InFlight
    <3>1. q.lifecycle = "running" /\ q.result # "executed_successfully"
      BY <2>1, <2>2, HonestRows
    <3> QED
      BY <3>1 DEF Honest, InFlight
  <2>4. UNCHANGED <<queue, decision>>
    BY <1>7 DEF StartAction
  <2>5. CASE row' = row /\ Leave(t)
    BY <2>1, <2>4, <2>5, HonestIdle, HonestStep
  <2>6. CASE row' = [row EXCEPT ![th[t].id] = q] /\ Carries(t, "act", q)
    <3>1. (\A u \in Threads \ {t} : th'[u] = th[u]) /\ th'[t].pc = "act" /\ th'[t].rec = q
      BY <2>6, MoveFacts
    <3>2. ThreadHonest(th'[t]) /\ th'[t].pc \notin Handling
      BY <1>p, <2>3, <3>1 DEF ThreadHonest, MayExecute
    <3> QED
      BY <2>1, <2>3, <2>4, <2>6, <3>1, <3>2, HonestStep
  <2> QED  BY <1>7, <2>2, <2>5, <2>6 DEF StartAction, Write, Carries, EndsCall
<1>8. CASE SeenFollowUp(t)
  <2>1. /\ th[t].id \in Ids /\ UNCHANGED <<row, queue, decision>>
        /\ Leave(t) \/ Goto(t, "insert_followup")
    BY <1>8, BusyType DEF SeenFollowUp, dbVars, history, Pcs, Resting
  <2>2. "insert_followup" \in Pcs \ (Telling \cup Handling)
    BY TellingPcs DEF Pcs
  <2> QED  BY <2>1, <2>2, NewRowTypes, HonestIdle, HonestStep
<1>9. CASE InsertFollowUp(t)
  <2>1. FollowUp(th[t].id) \in Ids
    BY <1>9, BusyType, IdTypes DEF InsertFollowUp, Pcs, Resting
  <2>2. /\ UNCHANGED <<queue, decision>>
        /\ row' = row \/ row' = [row EXCEPT ![FollowUp(th[t].id)] = NewPending]
        /\ Leave(t) \/ Goto(t, "push_followup")
    BY <1>9 DEF InsertFollowUp, Write
  <2>3. "push_followup" \in Pcs \ (Telling \cup Handling)
    BY TellingPcs DEF Pcs
  <2> QED  BY <2>1, <2>2, <2>3, NewRowTypes, HonestRows, HonestIdle, HonestStep
<1>10. CASE PushFollowUp(t)
  BY <1>10, BusyType, PushOrDropHonest DEF PushFollowUp, Pcs, Resting
<1> QED
  BY <1>1, <1>3, <1>4, <1>5, <1>6, <1>7, <1>8, <1>9, <1>10 DEF Execute

LEMMA HonestNext ==
    OneApprover /\ TypeOK /\ GateInvariant /\ SignedInvariant /\ HonestInvariant /\ [Next]_vars
        => HonestInvariant'
<1> SUFFICES ASSUME OneApprover, TypeOK, GateInvariant, SignedInvariant, HonestInvariant, [Next]_vars
             PROVE  HonestInvariant'
  OBVIOUS
<1>i. At("idle").pc = "idle" /\ ThreadHonest(At("idle")) /\ "idle" \notin Handling
  BY TellingPcs DEF At, ThreadHonest, Telling
<1>1. ASSUME NEW t \in Threads, Propose(t) \/ QueueReset(t) \/ Execute(t) PROVE HonestInvariant'
  BY <1>1, ProposeHonest, ResetHonest, ExecuteHonest
<1>2. ASSUME NEW t \in Handlers, Decide(t) PROVE HonestInvariant'
  BY <1>2, DecideHonest
<1>3. ASSUME NEW c \in Clis, CliEnds(c) PROVE HonestInvariant'
  <2>1. c \in Processes /\ UNCHANGED <<row, decision>> /\ queue' = [queue EXCEPT ![c] = <<>>]
        /\ \A t \in Threads : th'[t] = th[t] \/ th'[t] = At("idle")
    BY <1>3 DEF CliEnds, dbVars, Processes, TypeOK
  <2>2. QueuesHonest' /\ RowsHonest'
    BY <2>1, TailHonest DEF HonestInvariant, RowsHonest
  <2> QED
    BY <1>i, <2>1, <2>2, HonestRest
<1>4. CASE Crash
  <2>1. Server \in Processes /\ UNCHANGED <<row, decision>> /\ queue' = [queue EXCEPT ![Server] = <<>>]
        /\ \A t \in Threads : th'[t] = th[t] \/ th'[t] = At("idle")
    BY <1>4 DEF Crash, dbVars, Processes, history
  <2>2. QueuesHonest' /\ RowsHonest'
    BY <2>1, TailHonest DEF HonestInvariant, RowsHonest
  <2> QED
    BY <1>i, <2>1, <2>2, HonestRest
<1>5. CASE Restart \/ StartWorkers
  <2>1. /\ UNCHANGED <<row, queue, decision>>
        /\ Goto(Executor, "recover") \/ Goto(Executor, "idle")
    BY <1>5 DEF Restart, StartWorkers, dbVars, history
  <2>2. {"recover", "idle"} \subseteq Pcs \ (Telling \cup Handling) /\ Executor \in Threads
    BY TellingPcs DEF Pcs, Threads
  <2>3. \A t \in Threads : \/ th'[t] = th[t]
                           \/ ThreadHonest(th'[t]) /\ th'[t].pc \notin Handling
    BY <2>1, <2>2, HonestIdle
  <2>4. QueuesHonest' /\ RowsHonest'
    BY <2>1 DEF HonestInvariant, RowsHonest, QueuesHonest
  <2> QED
    BY <2>1, <2>3, <2>4, HonestRest
<1>6. ASSUME NEW c \in recovery, RecoverRow(c) PROVE HonestInvariant'
  <2>1. c.id \in Ids /\ c.rec \in Rows /\ Executor \in Threads
    BY DEF TypeOK, Copies, Threads
  <2>2. PICK r \in Rows : r = Recovered(c.id, c.rec) /\ Honest(r)
    <3>1. PICK i \in Ids, q \in Rows : i = c.id /\ q = c.rec
      BY <2>1
    <3>2. Recovered(i, q) \in Rows
      BY RowTypes
    <3>3. Recovered(i, q).result # "executed_successfully"
      BY HonestRows
    <3> QED
      BY <3>1, <3>2, <3>3 DEF Honest
  <2>3. /\ UNCHANGED <<queue, decision>>
        /\ row' = row \/ row' = [row EXCEPT ![c.id] = r]
    BY <1>6, <2>2 DEF RecoverRow, WriteOrIgnore, Write
  <2>4. /\ \A u \in Threads \ {Executor} : th'[u] = th[u]
        /\ th'[Executor] = th[Executor] \/ th'[Executor].pc = "seen"
    BY <1>6, <2>1 DEF RecoverRow, At, TypeOK
  <2>5. ThreadHonest(th'[Executor]) /\ th'[Executor].pc \notin Handling
    <3>1. th[Executor].pc = "recover"
      BY <1>6 DEF RecoverRow
    <3> QED
      BY <2>4, <3>1, TellingPcs DEF ThreadHonest, Telling
  <2> QED
    BY <2>1, <2>2, <2>3, <2>4, <2>5, HonestStep
<1>7. ASSUME NEW hs, EndHolds(hs) PROVE HonestInvariant'
  <2>1. UNCHANGED <<row, decision, queue>>
    BY <1>7 DEF EndHolds, history
  <2>2. \A t \in Threads : /\ th'[t].pc = th[t].pc /\ th'[t].id = th[t].id /\ th'[t].rec = th[t].rec
                           /\ th'[t].verb = th[t].verb
    BY <1>7, BusyType DEF EndHolds, Goroutines
  <2>3. ThreadsHonest'
    BY <2>2 DEF HonestInvariant, ThreadsHonest, ThreadHonest
  <2>4. RejectersKnow'
    BY <2>1, <2>2 DEF HonestInvariant, RejectersKnow, Threads
  <2> QED
    BY <2>1, <2>3, <2>4 DEF HonestInvariant, RowsHonest, QueuesHonest
<1>8. CASE ExpireStaleApprovals
  <2>1. PICK as \in SUBSET Actions :
           /\ row' = [i \in Ids |-> IF IsPrimary(i) /\ i[1] \in as THEN Expired(row[i])
                                                                  ELSE row[i]]
           /\ decision' = [a \in Actions |-> IF a \in as THEN "expired" ELSE decision[a]]
           /\ UNCHANGED <<queue, th>>
    BY <1>8 DEF ExpireStaleApprovals
  <2>2. \A i \in Ids : Honest(Expired(row[i]))
    BY HonestRows DEF TypeOK, Expired
  <2>3. RowsHonest'
    BY <2>1, <2>2 DEF HonestInvariant, RowsHonest
  <2>4. QueuesHonest'
    BY <2>1 DEF HonestInvariant, QueuesHonest
  <2>5. \A a \in Actions : decision'[a] \in {decision[a], "rejected", "expired"}
    BY <2>1
  <2> QED
    BY <2>1, <2>3, <2>4, <2>5, HonestRest
<1>9. CASE UNCHANGED <<row, queue, th, decision>>
  BY <1>9 DEF HonestInvariant, RowsHonest, QueuesHonest, ThreadsHonest, ThreadHonest, RejectersKnow
<1>10. ASSUME NEW h \in Holds, BeginHold(h) PROVE HonestInvariant'
  BY <1>9, <1>10 DEF BeginHold, history
<1>11. CASE UNCHANGED vars
  BY <1>9, <1>11 DEF vars
<1> QED
  <2>1. CASE Next
    BY <1>1, <1>2, <1>3, <1>4, <1>5, <1>6, <1>7, <1>8, <1>10, <2>1
       DEF Next, Recover, Operate, EndHold, ExpireOldFreezes, Threads, Handlers, CliExit, CliCrash
  <2> QED  BY <1>11, <2>1

LEMMA HonestHolds == OneApprover => (Spec => []HonestInvariant)
<1> SUFFICES ASSUME OneApprover PROVE Spec => []HonestInvariant
  OBVIOUS
<1>1. TypeOK /\ GateInvariant /\ SignedInvariant /\ HonestInvariant /\ [Next]_vars => HonestInvariant'
  BY HonestNext
<1> QED
  BY <1>1, HonestInit, SignedInit, SignedNext, TypeCorrect, GateHolds, PTL DEF Spec

(***************************************************************************)
(* The executor does nothing while its server is down.                     *)
(***************************************************************************)

ExecutorRests == phase = "down" => th[Executor].pc = "idle"

\* What the others do leaves the executor where it is.
LEMMA OthersApart ==
    ASSUME TypeOK, NEW t \in Evaluators \cup Handlers,
           \/ Propose(t) \/ QueueReset(t) \/ Decide(t)
           \/ t \in Clis /\ (Execute(t) \/ CliEnds(t))
    PROVE  th'[Executor] = th[Executor] /\ phase' = phase
<1>t. t # Executor /\ t \in Threads /\ Executor \in Threads
  BY ThreadsAssumption DEF Threads
<1>1. CASE Propose(t)
  BY <1>t, <1>1
     DEF Propose, ProposeDenied, ProposeBlocked, ProposeGated, ProposeAuto, PushNew, DropNew,
         ClosesAtOnce, Leave, Goto, TypeOK
<1>2. CASE QueueReset(t)
  BY <1>t, <1>2
     DEF QueueReset, ResetBegin, ResetRow, ResetInsert, ResetPush, PushOrDrop, Leave, Goto, TypeOK
<1>3. CASE Decide(t)
  BY <1>t, <1>3
     DEF Decide, Load, Recheck, Update, Verify, MergeRead, MergeWrite, Reload, PushApproved,
         AfterMerge, EndsCall, Leave, Goto, TypeOK
<1>4. CASE Execute(t)
  <2>1. CASE Dequeue(t) \/ CheckFreeze(t) \/ CheckMaintenance(t) \/ Refuse(t)
    BY <1>t, <2>1
       DEF Dequeue, GatedStop, CheckFreeze, CheckMaintenance, AfterHolds, RefuseWith, Refuse,
           Leave, Goto, TypeOK
  <2>2. CASE StartAction(t) \/ Act(t) \/ Finish(t)
    BY <1>t, <2>2 DEF StartAction, Act, Finish, EndsCall, Leave, Goto, TypeOK
  <2>3. CASE SeenFollowUp(t) \/ InsertFollowUp(t) \/ PushFollowUp(t)
    BY <1>t, <2>3 DEF SeenFollowUp, InsertFollowUp, PushFollowUp, PushOrDrop, Leave, Goto, TypeOK
  <2> QED
    BY <1>4, <2>1, <2>2, <2>3 DEF Execute
<1>5. CASE CliEnds(t)
  BY <1>t, <1>5 DEF CliEnds, TypeOK
<1> QED
  BY <1>1, <1>2, <1>3, <1>4, <1>5

LEMMA ExecutorRestsNext == TypeOK /\ ExecutorRests /\ [Next]_vars => ExecutorRests'
<1> SUFFICES ASSUME TypeOK, ExecutorRests, [Next]_vars, phase' = "down"
             PROVE  th'[Executor].pc = "idle"
  BY DEF ExecutorRests
<1>e. Executor \in Threads /\ Executor \notin Clis
  BY ThreadsAssumption DEF Threads, Handlers
<1>1. ASSUME NEW t \in Evaluators \cup Handlers,
             \/ Propose(t) \/ QueueReset(t) \/ Decide(t)
             \/ t \in Clis /\ (Execute(t) \/ CliEnds(t))
      PROVE  th'[Executor].pc = "idle"
  BY <1>1, OthersApart DEF ExecutorRests
<1>2. CASE Execute(Executor)
  <2>1. phase' = phase
    BY <1>2
       DEF Execute, Dequeue, CheckFreeze, CheckMaintenance, Refuse, StartAction, Act, Finish,
           SeenFollowUp, InsertFollowUp, PushFollowUp, PushOrDrop
  <2>2. phase = "up" \/ th[Executor].pc # "idle"
    BY <1>e, <1>2
       DEF Execute, Dequeue, Draining, CheckFreeze, CheckMaintenance, Refuse, StartAction, Act,
           Finish, SeenFollowUp, InsertFollowUp, PushFollowUp
  <2> QED
    BY <2>1, <2>2 DEF ExecutorRests
<1>3. CASE Crash
  BY <1>e, <1>3 DEF Crash, At
<1>4. CASE Restart \/ Recover
  BY <1>4 DEF Restart, Recover, RecoverRow, StartWorkers, ExecutorRests
<1>5. CASE Operate
  <2>1. phase' = phase /\ th'[Executor].pc = th[Executor].pc
    BY <1>e, <1>5
       DEF Operate, ExpireOldFreezes, ExpireStaleApprovals, BeginHold, EndHold, EndHolds, TypeOK,
           Goroutines
  <2> QED
    BY <2>1 DEF ExecutorRests
<1>6. CASE UNCHANGED vars
  BY <1>6 DEF vars, ExecutorRests
<1> QED
  BY <1>1, <1>2, <1>3, <1>4, <1>5, <1>6 DEF Next, CliExit, CliCrash, Handlers

(***************************************************************************)
(* Who brings a row forward.                                               *)
(***************************************************************************)

\* This goroutine will write, push or lose row i before it comes to rest.
Brings(s, i) ==
    \/ /\ s.id = i
       /\ \/ s.pc \in {"push_new", "drop_new", "refuse", "finish", "reload"} \cup MayExecute
          \/ s.pc \in {"verify", "merge_read", "merge_write"} /\ s.verb = "approve"
          \/ s.pc = "push_approved" /\ GateOpen(i, s.rec)
    \/ FollowUp(s.id) = i /\ s.pc \in {"reset_push", "push_followup"}

\* A queued copy that the executor will not turn away at the gate.
Queued(i) ==
    \E p \in Processes : \E k \in 1..Len(queue[p]) :
        queue[p][k].id = i /\ GateOpen(i, queue[p][k].rec)

Covered(i) ==
    \/ phase = "down" \/ i \in lost
    \/ \E c \in recovery : c.id = i
    \/ Queued(i)
    \/ \E t \in Threads : Brings(th[t], i)

NoRowForgotten == \A i \in Ids : row[i].lifecycle \in InFlight => Covered(i)

\* Recovery is over, or has not begun, outside its phase.
RecoveryInPhase == phase # "recovering" => recovery = {}

CoverInvariant == NoRowForgotten /\ RecoveryInPhase

\* The places from which a row is brought forward are places of work.
LEMMA BringingPcs ==
    \A s, i : Brings(s, i) =>
        s.pc \notin {"idle", "exit", "recover", "drain", "reset_row", "reset_insert", "recheck",
                     "update", "seen", "insert_followup"}
BY DEF Brings, MayExecute

\* A push appends to one queue: what was queued stays queued, and the pushed copy is.
LEMMA QueuesGrow ==
    ASSUME TypeOK, NEW t \in Threads, NEW j \in Ids, NEW r \in Rows,
           UNCHANGED queue \/ Enqueue(t, j, r)
    PROVE  /\ \A i \in Ids : Queued(i) => Queued(i)'
           /\ Enqueue(t, j, r) /\ GateOpen(j, r) => Queued(j)'
<1>1. ASSUME NEW i \in Ids, Queued(i), Enqueue(t, j, r) PROVE Queued(i)'
  <2>p. PICK p \in Processes :
                \E k \in 1..Len(queue[p]) : queue[p][k].id = i /\ GateOpen(i, queue[p][k].rec)
    BY <1>1 DEF Queued
  <2>1. PICK k \in 1..Len(queue[p]) : queue[p][k].id = i /\ GateOpen(i, queue[p][k].rec)
    BY <2>p
  <2>2. k \in 1..Len(queue'[p]) /\ queue'[p][k] = queue[p][k]
    BY <1>1, PushedCopies
  <2> QED
    BY <2>1, <2>2 DEF Queued
<1>2. ASSUME Enqueue(t, j, r), GateOpen(j, r) PROVE Queued(j)'
  <2>1. \E q \in Processes : \E k \in 1..Len(queue'[q]) : queue'[q][k] = Copy(j, r)
    <3>1. Server \in Processes
      BY DEF Processes
    <3> QED
      BY <1>2, <3>1, PushedCopies
  <2> QED
    BY <1>2, <2>1 DEF Queued, Copy
<1>3. ASSUME NEW i \in Ids, Queued(i), UNCHANGED queue PROVE Queued(i)'
  BY <1>3 DEF Queued
<1> QED
  BY <1>1, <1>2, <1>3

\* The shape of most steps: one goroutine moves, and each row it had to bring forward is queued,
\* lost, closed, or still its own.
LEMMA OneMoves ==
    ASSUME TypeOK, CoverInvariant, UNCHANGED <<phase, recovery>>, lost \subseteq lost',
           NEW t \in Threads, \A u \in Threads \ {t} : th'[u] = th[u],
           \A i \in Ids : Queued(i) => Queued(i)',
           \A i \in Ids : row'[i].lifecycle \in InFlight =>
                \/ i \in lost' \/ Brings(th'[t], i)
                \/ row[i].lifecycle \in InFlight /\ (Brings(th[t], i) => Queued(i)')
    PROVE  CoverInvariant'
<1> SUFFICES ASSUME NEW i \in Ids, row'[i].lifecycle \in InFlight
             PROVE  Covered(i)'
  BY DEF CoverInvariant, NoRowForgotten, RecoveryInPhase
<1>1. CASE i \in lost' \/ Brings(th'[t], i)
  BY <1>1 DEF Covered
<1>2. CASE row[i].lifecycle \in InFlight /\ (Brings(th[t], i) => Queued(i)')
  <2>1. Covered(i)
    BY <1>2 DEF CoverInvariant, NoRowForgotten
  <2>2. CASE \E u \in Threads : Brings(th[u], i)
    <3>1. PICK u \in Threads : Brings(th[u], i)
      BY <2>2
    <3>2. CASE u = t
      BY <1>2, <3>1, <3>2 DEF Covered
    <3>3. CASE u # t
      BY <3>1, <3>3 DEF Covered
    <3> QED
      BY <3>2, <3>3
  <2>3. CASE phase = "down" \/ i \in lost \/ (\E c \in recovery : c.id = i)
    BY <2>3 DEF Covered
  <2>4. CASE Queued(i)
    BY <2>4 DEF Covered
  <2> QED
    BY <2>1, <2>2, <2>3, <2>4 DEF Covered
<1> QED
  BY <1>1, <1>2

\* The shape of most of those: at most one row is written, to a closed state or into safe hands,
\* and the goroutine brings forward what it brought.
LEMMA OneWrites ==
    ASSUME TypeOK, CoverInvariant, UNCHANGED <<queue, phase, recovery>>,
           NEW t \in Threads, \A u \in Threads \ {t} : th'[u] = th[u],
           NEW j \in Ids, NEW r \in Rows,
           \/ /\ row' = [row EXCEPT ![j] = r] /\ lost \subseteq lost'
              /\ r.lifecycle \in InFlight => Brings(th'[t], j)
           \/ row' = row /\ j \in lost' /\ lost \subseteq lost',
           \A i \in Ids \ {j} : Brings(th[t], i) => Brings(th'[t], i)
    PROVE  CoverInvariant'
<1>1. \A i \in Ids : Queued(i) => Queued(i)'
  BY DEF Queued
<1>2. ASSUME NEW i \in Ids, row'[i].lifecycle \in InFlight
      PROVE  \/ i \in lost' \/ Brings(th'[t], i)
             \/ row[i].lifecycle \in InFlight /\ ~Brings(th[t], i)
  <2>1. CASE i = j
    BY <1>2, <2>1 DEF TypeOK
  <2>2. CASE i # j
    <3>1. row'[i] = row[i]
      BY <2>2 DEF TypeOK
    <3> QED
      BY <1>2, <2>2, <3>1
  <2> QED
    BY <2>1, <2>2
<1> QED
  BY <1>1, <1>2, OneMoves

\* A goroutine that writes nothing and still brings forward what it brought.
LEMMA OneReads ==
    ASSUME TypeOK, CoverInvariant, UNCHANGED <<row, queue, phase, recovery>>, lost \subseteq lost',
           NEW t \in Threads, \A u \in Threads \ {t} : th'[u] = th[u],
           \A i \in Ids : row[i].lifecycle \in InFlight /\ Brings(th[t], i)
                              => Brings(th'[t], i) \/ i \in lost'
    PROVE  CoverInvariant'
<1>1. \A i \in Ids : Queued(i) => Queued(i)'
  BY DEF Queued
<1> QED
  BY <1>1, OneMoves

\* At rest, and where a row is not in hand, nothing is brought forward.
LEMMA RestingBrings ==
    ASSUME NEW t \in Threads,
           th[t].pc \in {"idle", "exit", "recover", "drain", "reset_row", "reset_insert", "recheck",
                         "update", "seen", "insert_followup"}
    PROVE  \A i : ~Brings(th[t], i)
BY BringingPcs

\* No follow-up has an approval to wait for.
LEMMA FollowUpOpen == \A i \in Ids, r \in Rows : GateOpen(FollowUp(i), r)
BY IdTypes DEF GateOpen, IsGated

LEMMA PushOrDropCovers ==
    ASSUME TypeOK, CoverInvariant, NEW t \in Threads, th[t].pc \in {"reset_push", "push_followup"},
           PushOrDrop(t)
    PROVE  CoverInvariant'
<1>1. PICK j \in Ids : j = FollowUp(th[t].id)
  BY BusyType, IdTypes DEF Pcs, Resting
<1>2. /\ UNCHANGED <<row, phase, recovery>> /\ lost \subseteq lost'
      /\ \A u \in Threads \ {t} : th'[u] = th[u]
  BY LeaveFacts DEF PushOrDrop, dbVars
<1>3. /\ UNCHANGED queue \/ Enqueue(t, j, NewPending)
      /\ Enqueue(t, j, NewPending) \/ j \in lost'
  BY <1>1 DEF PushOrDrop
<1>4. th[t].id \in Ids /\ NewPending \in Rows
  BY BusyType, NewRowTypes DEF Pcs, Resting
<1>5. GateOpen(j, NewPending)
  BY <1>1, <1>4, FollowUpOpen
<1>6. \A i \in Ids : Queued(i) => Queued(i)'
  BY <1>3, <1>4, QueuesGrow
<1>7. Queued(j)' \/ j \in lost'
  BY <1>3, <1>4, <1>5, QueuesGrow
<1>8. \A i : Brings(th[t], i) => i = j
  BY <1>1 DEF Brings, MayExecute
<1> QED
  BY <1>2, <1>6, <1>7, <1>8, OneMoves

\* A new row is brought to the queue by the goroutine that inserted it, or closed when that is full.
LEMMA ProposeCovers ==
    ASSUME TypeOK, HonestInvariant, CoverInvariant, NEW t \in Threads, Propose(t)
    PROVE  CoverInvariant'
<1>1. ASSUME NEW a \in Actions, ProposeDenied(t, a) \/ ProposeBlocked(t, a) \/ ProposeGated(t, a)
      PROVE  CoverInvariant'
  <2>1. PICK r \in Rows : row' = [row EXCEPT ![Primary(a)] = r] /\ r.lifecycle \notin InFlight
    <3>1. Primary(a) \in Ids
      BY IdTypes
    <3>2. /\ Completed(NewPending, "denied_by_policy", "") \in Rows
          /\ Refusal(Primary(a), NewPending) \in Rows
      BY <3>1, NewRowTypes, RowTypes DEF Results, Closures, Refusal
    <3>3. \A res, c : Completed(NewPending, res, c).lifecycle = "completed"
      BY HonestRows, NewRowTypes
    <3>4. /\ Completed(NewPending, "denied_by_policy", "").lifecycle \notin InFlight
          /\ Refusal(Primary(a), NewPending).lifecycle \notin InFlight
      BY <3>3 DEF Refusal, FreezeRefusal, MaintenanceRefusal, InFlight
    <3> QED
      BY <1>1, <3>2, <3>4, NewRowTypes, HonestRows DEF ProposeDenied, ProposeBlocked, ProposeGated, Insert
  <2>2. Leave(t) /\ UNCHANGED <<queue, phase, recovery, lost>> /\ th[t].pc = "idle" /\ Primary(a) \in Ids
    BY <1>1, IdTypes DEF ProposeDenied, ProposeBlocked, ProposeGated, ClosesAtOnce, history, MayPropose
  <2> QED
    BY <2>1, <2>2, LeaveFacts, RestingBrings, OneWrites
<1>2. ASSUME NEW a \in Actions, ProposeAuto(t, a) PROVE CoverInvariant'
  <2>1. /\ row' = [row EXCEPT ![Primary(a)] = NewPending] /\ UNCHANGED <<queue, phase, recovery, lost>>
        /\ th[t].pc = "idle" /\ Primary(a) \in Ids /\ NewPending \in Rows
    BY <1>2, IdTypes, NewRowTypes DEF ProposeAuto, Insert, history, MayPropose
  <2>2. /\ \A u \in Threads \ {t} : th'[u] = th[u]
        /\ th'[t].pc = "push_new" /\ th'[t].id = Primary(a)
    BY <1>2 DEF ProposeAuto, At, TypeOK
  <2>3. Brings(th'[t], Primary(a))
    BY <2>2 DEF Brings
  <2> QED
    BY <2>1, <2>2, <2>3, RestingBrings, OneWrites
<1>3. CASE PushNew(t)
  <2>1. PICK j \in Ids, r \in Rows : j = th[t].id /\ r = th[t].rec
    BY <1>3, BusyType DEF PushNew, Pcs, Resting
  <2>2. GateOpen(j, r)
    BY <1>3, <2>1 DEF PushNew, HonestInvariant, ThreadsHonest, ThreadHonest, GateOpen
  <2>3. /\ UNCHANGED <<row, phase, recovery, lost>>
        /\ \/ Enqueue(t, j, r) /\ Leave(t)
           \/ Goto(t, "drop_new") /\ UNCHANGED queue
    BY <1>3, <2>1 DEF PushNew, dbVars, history
  <2>4. \A i : Brings(th[t], i) => i = j
    BY <1>3, <2>1 DEF PushNew, Brings, MayExecute
  <2>5. CASE Enqueue(t, j, r) /\ Leave(t)
    <3>1. (\A i \in Ids : Queued(i) => Queued(i)') /\ Queued(j)'
      BY <2>2, <2>5, QueuesGrow
    <3>2. \A u \in Threads \ {t} : th'[u] = th[u]
      BY <2>5, LeaveFacts
    <3> QED
      BY <2>3, <2>4, <3>1, <3>2, OneMoves
  <2>6. CASE Goto(t, "drop_new") /\ UNCHANGED queue
    <3>1. /\ \A u \in Threads \ {t} : th'[u] = th[u]
          /\ th'[t].pc = "drop_new" /\ th'[t].id = j
      BY <2>1, <2>6, MoveFacts
    <3>2. Brings(th'[t], j)
      BY <3>1 DEF Brings
    <3> QED
      BY <2>3, <2>4, <2>6, <3>1, <3>2, OneReads
  <2> QED
    BY <2>3, <2>5, <2>6
<1>4. CASE DropNew(t)
  <2>1. th[t].id \in Ids /\ DroppedOnFullQueue \in Rows /\ DroppedOnFullQueue.lifecycle \notin InFlight
    BY <1>4, BusyType, NewRowTypes, RowTypes, HonestRows
       DEF DropNew, Pcs, Resting, InFlight, DroppedOnFullQueue, Results, Closures
  <2>2. /\ UNCHANGED <<queue, phase, recovery>>
        /\ \/ row' = [row EXCEPT ![th[t].id] = DroppedOnFullQueue] /\ lost \subseteq lost'
           \/ row' = row /\ th[t].id \in lost' /\ lost \subseteq lost'
        /\ Leave(t)
    BY <1>4 DEF DropNew, WriteOrIgnore, Write
  <2>3. \A i : Brings(th[t], i) => i = th[t].id
    BY <1>4 DEF DropNew, Brings
  <2> QED
    BY <2>1, <2>2, <2>3, LeaveFacts, OneWrites
<1> QED
  BY <1>1, <1>2, <1>3, <1>4 DEF Propose

\* The reset rewrites a row that has run; its follow-up is the goroutine's own until it is pushed.
LEMMA ResetCovers ==
    ASSUME TypeOK, HonestInvariant, CoverInvariant, NEW t \in Threads, QueueReset(t)
    PROVE  CoverInvariant'
<1>1. ASSUME NEW a \in Actions, ResetBegin(t, a) PROVE CoverInvariant'
  <2>1. UNCHANGED <<row, queue, phase, recovery, lost>> /\ th[t].pc = "idle"
        /\ \A u \in Threads \ {t} : th'[u] = th[u]
    BY <1>1 DEF ResetBegin, dbVars, history, TypeOK
  <2> QED
    BY <2>1, RestingBrings, OneReads
<1>2. CASE ResetRow(t)
  <2>0. th[t].id \in Ids /\ th[t].rec \in Rows
    BY <1>2, BusyType DEF ResetRow, Pcs, Resting
  <2>1. PICK r \in Rows : r = Reverted(th[t].rec)
    BY <2>0, RowTypes
  <2>2. th[t].id \in Ids /\ r.lifecycle \notin InFlight
    <3>1. th[t].pc = "reset_row" /\ th[t].id \in Ids /\ th[t].rec \in Rows
      BY <1>2, BusyType DEF ResetRow, Pcs, Resting
    <3>2. th[t].rec.lifecycle = "completed"
      BY <3>1 DEF HonestInvariant, ThreadsHonest, ThreadHonest
    <3>3. Reverted(th[t].rec).lifecycle = th[t].rec.lifecycle
      BY <3>1, HonestRows
    <3> QED
      BY <2>1, <3>1, <3>2, <3>3 DEF InFlight
  <2>3. /\ UNCHANGED <<queue, phase, recovery>> /\ th[t].pc = "reset_row"
        /\ \/ row' = [row EXCEPT ![th[t].id] = r] /\ lost \subseteq lost'
           \/ row' = row /\ th[t].id \in lost' /\ lost \subseteq lost'
        /\ Goto(t, "reset_insert")
    BY <1>2, <2>1 DEF ResetRow, WriteOrIgnore, Write
  <2> QED
    BY <2>2, <2>3, MoveFacts, RestingBrings, OneWrites
<1>3. CASE ResetInsert(t)
  <2>1. th[t].id \in Ids /\ FollowUp(th[t].id) \in Ids /\ NewPending \in Rows
    BY <1>3, BusyType, NewRowTypes, IdTypes DEF ResetInsert, Pcs, Resting
  <2>2. /\ UNCHANGED <<queue, phase, recovery>> /\ th[t].pc = "reset_insert"
        /\ \/ row' = [row EXCEPT ![FollowUp(th[t].id)] = NewPending] /\ lost \subseteq lost'
           \/ row' = row /\ FollowUp(th[t].id) \in lost' /\ lost \subseteq lost'
        /\ Goto(t, "reset_push")
    BY <1>3 DEF ResetInsert, WriteOrIgnore, Write
  <2>3. (\A u \in Threads \ {t} : th'[u] = th[u]) /\ th'[t].pc = "reset_push" /\ th'[t].id = th[t].id
    BY <2>2, MoveFacts
  <2>4. Brings(th'[t], FollowUp(th[t].id))
    BY <2>3 DEF Brings
  <2> QED
    BY <2>1, <2>2, <2>3, <2>4, RestingBrings, OneWrites
<1>4. CASE ResetPush(t)
  BY <1>4, PushOrDropCovers DEF ResetPush
<1> QED
  BY <1>1, <1>2, <1>3, <1>4 DEF QueueReset

\* An approval is brought to the queue by the operator who gave it; a rejection writes nothing
\* that could still run.
LEMMA DecideCovers ==
    ASSUME TypeOK, GateInvariant, SignedInvariant, HonestInvariant, CoverInvariant,
           NEW t \in Handlers, Decide(t)
    PROVE  CoverInvariant'
<1>t. t \in Threads
  BY DEF Threads
<1>1. ASSUME NEW a \in Actions, NEW verb \in Verbs, NEW actor \in Operators, NEW ack \in BOOLEAN,
             Load(t, a, verb, actor, ack)
      PROVE  CoverInvariant'
  <2>1. UNCHANGED <<row, queue, phase, recovery, lost>> /\ th[t].pc = "idle"
        /\ \A u \in Threads \ {t} : th'[u] = th[u]
    BY <1>1 DEF Load, dbVars, history, TypeOK
  <2> QED
    BY <1>t, <2>1, RestingBrings, OneReads
<1>2. CASE Recheck(t)
  <2>1. UNCHANGED <<row, queue, phase, recovery, lost>> /\ th[t].pc = "recheck"
        /\ (Goto(t, "update") \/ Leave(t))
    BY <1>2 DEF Recheck, dbVars, history
  <2>2. \A u \in Threads \ {t} : th'[u] = th[u]
    BY <1>t, <2>1, MoveFacts, LeaveFacts
  <2> QED
    BY <1>t, <2>1, <2>2, RestingBrings, OneReads
<1>3. CASE Update(t)
  <2>1. PICK j \in Ids, r \in Rows : j = th[t].id /\ r = row[j]
    BY <1>3, <1>t, BusyType DEF Update, Pcs, Resting, TypeOK
  <2>2. UNCHANGED <<queue, phase, recovery, lost>> /\ th[t].pc = "update"
    BY <1>3 DEF Update
  <2>3. CASE UNCHANGED row /\ (Goto(t, "verify") \/ Leave(t))
    <3>1. \A u \in Threads \ {t} : th'[u] = th[u]
      BY <1>t, <2>3, MoveFacts, LeaveFacts
    <3> QED
      BY <1>t, <2>2, <2>3, <3>1, RestingBrings, OneReads
  <2>4. CASE DecideRow(t) /\ Goto(t, "verify") /\ Decidable(r)
    <3>1. /\ \A u \in Threads \ {t} : th'[u] = th[u]
          /\ th'[t].pc = "verify" /\ th'[t].id = j /\ th'[t].verb = th[t].verb
      BY <1>t, <2>1, <2>4, MoveFacts
    <3>2. CASE th[t].verb = "approve"
      <4>1. row' = [row EXCEPT ![j] = Approved(r, th[t].actor, Bypass(t))]
        BY <2>1, <2>4, <3>2 DEF DecideRow
      <4>2. Brings(th'[t], j)
        BY <3>1, <3>2 DEF Brings
      <4>3. PICK q \in Rows : q = Approved(r, th[t].actor, Bypass(t))
        BY <1>t, BusyType, RowTypes DEF Bypass
      <4>4. row' = [row EXCEPT ![j] = q]
        BY <4>1, <4>3
      <4>5. \A i : ~Brings(th[t], i)
        BY <1>t, <2>2, RestingBrings
      <4>6. /\ UNCHANGED <<queue, phase, recovery>> /\ lost \subseteq lost'
            /\ \A u \in Threads \ {t} : th'[u] = th[u]
        BY <2>2, <3>1
      <4>7. q \in Rows
        BY <4>3
      <4> QED
        BY <1>t, <2>1, <4>2, <4>4, <4>5, <4>6, <4>7, OneWrites
    <3>3. CASE th[t].verb # "approve"
      <4>1. row' = [row EXCEPT ![j] = Rejected(r)]
        BY <2>1, <2>4, <3>3 DEF DecideRow
      <4>2. PICK q \in Rows : q = Rejected(r)
        BY RowTypes
      <4>3. q.lifecycle \notin InFlight
        BY <4>2, HonestRows DEF Rejected, InFlight
      <4>4. row' = [row EXCEPT ![j] = q]
        BY <4>1, <4>2
      <4>5. \A i : ~Brings(th[t], i)
        BY <1>t, <2>2, RestingBrings
      <4>6. /\ UNCHANGED <<queue, phase, recovery>> /\ lost \subseteq lost'
            /\ \A u \in Threads \ {t} : th'[u] = th[u]
        BY <2>2, <3>1
      <4>7. q \in Rows
        BY <4>2
      <4> QED
        <5>1. q.lifecycle \in InFlight => Brings(th'[t], j)
          BY <4>3
        <5>2. \A i \in Ids \ {j} : Brings(th[t], i) => Brings(th'[t], i)
          BY <4>5
        <5> QED
          BY <1>t, <2>1, <4>4, <4>6, <4>7, <5>1, <5>2, OneWrites
    <3> QED
      BY <3>2, <3>3
  <2> QED
    BY <1>3, <2>1, <2>3, <2>4 DEF Update, DecideRow
<1>4. CASE Verify(t)
  <2>1. PICK j \in Ids : j = th[t].id
    BY <1>4, <1>t, BusyType DEF Verify, Pcs, Resting
  <2>2. /\ UNCHANGED <<row, queue, phase, recovery>> /\ lost \subseteq lost' /\ th[t].pc = "verify"
        /\ \/ (Decidable(row[j]) \/ j \in lost') /\ Leave(t)
           \/ Goto(t, "merge_read")
           \/ th[t].verb = "approve" /\ Goto(t, "reload")
           \/ th[t].verb # "approve" /\ Leave(t)
    BY <1>4, <2>1 DEF Verify, AfterMerge, EndsCall
  <2>3. \A i : Brings(th[t], i) => i = j /\ th[t].verb = "approve"
    BY <2>1, <2>2 DEF Brings, MayExecute
  <2>4. \A u \in Threads \ {t} : th'[u] = th[u]
    BY <1>t, <2>2, MoveFacts, LeaveFacts
  <2>5. row[j].lifecycle \in InFlight /\ Brings(th[t], j) => Brings(th'[t], j) \/ j \in lost'
    <3>1. ASSUME row[j].lifecycle \in InFlight, Brings(th[t], j), j \notin lost'
          PROVE  /\ th'[t].pc \in {"merge_read", "reload"}
                 /\ th'[t].id = j /\ th'[t].verb = "approve"
      <4>1. th[t].verb = "approve" /\ ~Decidable(row[j])
        BY <2>3, <3>1 DEF Decidable, InFlight
      <4>2. Goto(t, "merge_read") \/ Goto(t, "reload")
        BY <2>2, <3>1, <4>1
      <4> QED
        BY <1>t, <2>1, <4>1, <4>2, MoveFacts
    <3> QED
      BY <3>1 DEF Brings
  <2> QED
    BY <1>t, <2>2, <2>3, <2>4, <2>5, OneReads
<1>5. CASE MergeRead(t) \/ Reload(t)
  <2>1. PICK j \in Ids, r \in Rows : j = th[t].id /\ r = row[j]
    BY <1>5, <1>t, BusyType DEF MergeRead, Reload, Pcs, Resting, TypeOK
  <2>2. /\ UNCHANGED <<row, queue, phase, recovery>> /\ lost \subseteq lost'
        /\ th[t].pc \in {"merge_read", "reload"}
        /\ \/ th[t].pc = "merge_read" /\ Carries(t, "merge_write", r)
           \/ th[t].pc = "reload" /\ Carries(t, "push_approved", r)
           \/ Leave(t) /\ j \in lost'
    BY <1>5, <2>1 DEF MergeRead, Reload, Carries, EndsCall
  <2>3. \A i : Brings(th[t], i) => i = j
    BY <2>1, <2>2 DEF Brings, MayExecute
  <2>4. CASE Leave(t) /\ j \in lost'
    BY <1>t, <2>2, <2>3, <2>4, LeaveFacts, OneReads
  <2>5. CASE ~(Leave(t) /\ j \in lost')
    <3>1. /\ \A u \in Threads \ {t} : th'[u] = th[u]
          /\ th'[t].id = j /\ th'[t].verb = th[t].verb /\ th'[t].rec = r
          /\ \/ th[t].pc = "merge_read" /\ th'[t].pc = "merge_write"
             \/ th[t].pc = "reload" /\ th'[t].pc = "push_approved"
      <4>1. ASSUME NEW pc, Carries(t, pc, r)
            PROVE  /\ \A u \in Threads \ {t} : th'[u] = th[u]
                   /\ th'[t].id = j /\ th'[t].verb = th[t].verb /\ th'[t].rec = r /\ th'[t].pc = pc
        <5>1. th \in [Threads -> Goroutines] /\ t \in Threads
          BY <1>t DEF TypeOK
        <5>2. th' = [th EXCEPT ![t].pc = pc, ![t].rec = r]
          BY <4>1 DEF Carries
        <5> QED
          BY <2>1, <5>1, <5>2 DEF Goroutines
      <4> QED  BY <2>2, <2>5, <4>1
    <3>2. ASSUME NEW i \in Ids, row[i].lifecycle \in InFlight, Brings(th[t], i) PROVE Brings(th'[t], i)
      <4>1. i = j /\ GateOpen(i, r)
        BY <2>1, <2>3, <3>2 DEF GateOpen
      <4> QED
        BY <2>1, <3>1, <3>2, <4>1 DEF Brings, MayExecute
    <3> QED
      BY <1>t, <2>2, <3>1, <3>2, OneReads
  <2> QED
    BY <2>4, <2>5
<1>6. CASE MergeWrite(t)
  <2>1. PICK j \in Ids, r \in Rows : j = th[t].id /\ r = th[t].rec
    BY <1>6, <1>t, BusyType DEF MergeWrite, Pcs, Resting
  <2>2. /\ UNCHANGED <<queue, phase, recovery>> /\ th[t].pc = "merge_write"
        /\ \/ row' = [row EXCEPT ![j] = r] /\ UNCHANGED lost /\ AfterMerge(t)
           \/ row' = row /\ lost' = lost \cup {j} /\ Leave(t)
    BY <1>6, <2>1 DEF MergeWrite, Write, EndsCall
  <2>3. \A i : Brings(th[t], i) => i = j
    BY <2>1, <2>2 DEF Brings, MayExecute
  <2>4. \A u \in Threads \ {t} : th'[u] = th[u]
    BY <1>t, <2>2, MoveFacts, LeaveFacts DEF AfterMerge
  <2>5. CASE row' = row /\ j \in lost' /\ lost \subseteq lost'
    BY <1>t, <2>2, <2>3, <2>4, <2>5, OneWrites
  <2>6. CASE row' = [row EXCEPT ![j] = r] /\ UNCHANGED lost /\ th[t].verb = "approve" /\ AfterMerge(t)
    <3>1. th'[t].pc = "reload" /\ th'[t].id = j
      BY <1>t, <2>1, <2>6, MoveFacts DEF AfterMerge
    <3>2. Brings(th'[t], j)
      BY <3>1 DEF Brings
    <3> QED
      BY <1>t, <2>2, <2>3, <2>4, <2>6, <3>2, OneWrites
  <2>7. CASE row' = [row EXCEPT ![j] = r] /\ UNCHANGED lost /\ th[t].verb # "approve"
    <3>1. th[t].verb = "reject"
      BY <1>t, <2>7, BusyType DEF Verbs
    <3>2. decision[j[1]] # "approved"
      BY <2>1, <2>2, <3>1 DEF HonestInvariant, RejectersKnow, Handling
    <3>3. IsGated(j)
      BY <1>t, <2>1, <2>2 DEF SignedInvariant, ThreadsSigned, ThreadSigned
    <3>4. Sound(j, r)
      BY <1>t, <2>1, <2>2 DEF GateInvariant, ThreadsSound, ThreadSound, HoldsCopy
    <3>5. r.lifecycle \notin InFlight
      BY <3>2, <3>3, <3>4 DEF Sound, IsApproved
    <3>6. \A i \in Ids \ {j} : ~Brings(th[t], i)
      BY <2>3
    <3>7. UNCHANGED <<queue, phase, recovery>> /\ lost \subseteq lost'
      BY <2>2, <2>7
    <3>8. row' = [row EXCEPT ![j] = r]
      BY <2>7
    <3> QED
      BY <1>t, <2>1, <2>4, <3>5, <3>6, <3>7, <3>8, OneWrites
  <2> QED
    BY <2>2, <2>5, <2>6, <2>7
<1>7. CASE PushApproved(t)
  <2>1. PICK j \in Ids, r \in Rows : j = th[t].id /\ r = th[t].rec
    BY <1>7, <1>t, BusyType DEF PushApproved, Pcs, Resting
  <2>2. /\ UNCHANGED <<row, phase, recovery>> /\ th[t].pc = "push_approved" /\ lost \subseteq lost'
        /\ \/ Enqueue(t, j, r)
           \/ UNCHANGED queue /\ j \in lost'
    BY <1>7, <2>1 DEF PushApproved, dbVars
  <2>3. \A u \in Threads \ {t} : th'[u] = th[u]
    BY <1>7, <1>t DEF PushApproved, Leave, TypeOK
  <2>4. \A i : Brings(th[t], i) => i = j /\ GateOpen(j, r)
    BY <2>1, <2>2 DEF Brings, MayExecute
  <2>5. /\ \A i \in Ids : Queued(i) => Queued(i)'
        /\ Enqueue(t, j, r) /\ GateOpen(j, r) => Queued(j)'
    BY <1>t, <2>2, QueuesGrow
  <2> QED
    BY <1>t, <2>2, <2>3, <2>4, <2>5, OneMoves
<1> QED
  BY <1>1, <1>2, <1>3, <1>4, <1>5, <1>6, <1>7 DEF Decide

\* The executor takes what it will bring forward itself: an open copy.
LEMMA DequeueCovers ==
    ASSUME TypeOK, HonestInvariant, CoverInvariant, NEW t \in Threads, Dequeue(t)
    PROVE  CoverInvariant'
<1> DEFINE h == Home(t)
           c == Head(queue[h])
<1>1. /\ h \in Processes /\ queue[h] # <<>> /\ queue' = [queue EXCEPT ![h] = Tail(@)]
      /\ UNCHANGED <<row, phase, recovery, lost>> /\ th[t].pc \in {"idle", "drain"}
  BY DEF Dequeue, Draining, Home, Processes, dbVars, history
<1>2. /\ \A u \in Threads \ {t} : th'[u] = th[u]
      /\ GateOpen(c.id, c.rec) => th'[t].pc = "freeze" /\ th'[t].id = c.id
  <2>1. CASE GateOpen(c.id, c.rec)
    BY <2>1 DEF Dequeue, At, TypeOK
  <2>2. CASE ~GateOpen(c.id, c.rec)
    BY <2>2 DEF Dequeue, GatedStop, Leave, TypeOK
  <2> QED
    BY <2>1, <2>2
<1> SUFFICES ASSUME NEW i \in Ids, row[i].lifecycle \in InFlight
             PROVE  Covered(i)'
  BY <1>1 DEF CoverInvariant, NoRowForgotten, RecoveryInPhase
<1>3. Covered(i)
  BY DEF CoverInvariant, NoRowForgotten
<1>4. CASE phase = "down" \/ i \in lost \/ (\E d \in recovery : d.id = i)
  BY <1>1, <1>4 DEF Covered
<1>5. CASE \E u \in Threads : Brings(th[u], i)
  <2>1. PICK u \in Threads : Brings(th[u], i)
    BY <1>5
  <2>2. u # t
    BY <1>1, <2>1, RestingBrings
  <2> QED
    BY <1>2, <2>1, <2>2 DEF Covered
<1>6. CASE Queued(i)
  <2>1. PICK q \in Processes :
            \E j \in 1..Len(queue[q]) : queue[q][j].id = i /\ GateOpen(i, queue[q][j].rec)
    BY <1>6 DEF Queued
  <2>2. PICK j \in 1..Len(queue[q]) : queue[q][j].id = i /\ GateOpen(i, queue[q][j].rec)
    BY <2>1
  <2>3. CASE queue[q][j] = c
    <3>1. Brings(th'[t], i)
      BY <1>2, <2>2, <2>3 DEF Brings, MayExecute
    <3> QED
      BY <3>1 DEF Covered
  <2>4. CASE \E k \in 1..Len(queue'[q]) : queue'[q][k] = queue[q][j]
    BY <2>2, <2>4 DEF Covered, Queued
  <2> QED
    BY <1>1, <2>3, <2>4, TakenCopies
<1> QED
  BY <1>3, <1>4, <1>5, <1>6 DEF Covered

\* Once taken, a copy stays with the executor until its row is closed.
LEMMA ExecuteCovers ==
    ASSUME TypeOK, HonestInvariant, CoverInvariant, NEW t \in Threads, Execute(t)
    PROVE  CoverInvariant'
<1>1. ASSUME NEW j \in Ids, j = th[t].id, th[t].pc \in MayExecute,
             UNCHANGED <<row, queue, phase, recovery, lost>>,
             \/ \E pc \in {"maintenance", "start"} : Goto(t, pc)
             \/ \E pc \in {"refuse", "finish"} : \E r : Carries(t, pc, r)
      PROVE  CoverInvariant'
  <2>1. /\ \A u \in Threads \ {t} : th'[u] = th[u]
        /\ th'[t].id = j /\ th'[t].pc \in {"maintenance", "start", "refuse", "finish"}
    <3>1. ASSUME NEW pc \in {"maintenance", "start"}, Goto(t, pc)
          PROVE  (\A u \in Threads \ {t} : th'[u] = th[u]) /\ th'[t].id = j /\ th'[t].pc = pc
      BY <1>1, <3>1, MoveFacts
    <3>2. ASSUME NEW pc \in {"refuse", "finish"}, NEW r, Carries(t, pc, r)
          PROVE  (\A u \in Threads \ {t} : th'[u] = th[u]) /\ th'[t].id = j /\ th'[t].pc = pc
      BY <1>1, <3>2, MoveFacts
    <3> QED
      BY <1>1, <3>1, <3>2
  <2>2. Brings(th'[t], j)
    BY <2>1 DEF Brings, MayExecute
  <2>3. \A i : Brings(th[t], i) => i = j
    BY <1>1 DEF Brings, MayExecute
  <2> QED
    BY <1>1, <2>1, <2>2, <2>3, OneReads
<1>2. CASE CheckFreeze(t) \/ CheckMaintenance(t) \/ Act(t)
  <2>1. th[t].pc \in MayExecute /\ UNCHANGED <<row, queue, phase, recovery, lost>>
    BY <1>2 DEF CheckFreeze, CheckMaintenance, Act, dbVars, history, MayExecute
  <2>2. \/ \E pc \in {"maintenance", "start"} : Goto(t, pc)
        \/ \E pc \in {"refuse", "finish"} : \E r : Carries(t, pc, r)
    BY <1>2 DEF CheckFreeze, CheckMaintenance, AfterHolds, Act, RefuseWith, Carries
  <2>3. th[t].id \in Ids
    BY <2>1, BusyType DEF MayExecute, Pcs, Resting
  <2> QED
    BY <1>1, <2>1, <2>2, <2>3
<1>3. CASE Refuse(t) \/ Finish(t)
  <2>1. PICK j \in Ids, r \in Rows : j = th[t].id /\ r = th[t].rec
    BY <1>3, BusyType DEF Refuse, Finish, Pcs, Resting
  <2>2. /\ UNCHANGED <<queue, phase, recovery>> /\ th[t].pc \in {"refuse", "finish"}
        /\ \/ row' = [row EXCEPT ![j] = r] /\ lost \subseteq lost'
           \/ row' = row /\ j \in lost' /\ lost \subseteq lost'
        /\ Leave(t) \/ Goto(t, "seen")
    BY <1>3, <2>1 DEF Refuse, Finish, WriteOrIgnore, Write
  <2>3. r.lifecycle \notin InFlight
    BY <2>1, <2>2 DEF HonestInvariant, ThreadsHonest, ThreadHonest, InFlight
  <2>4. \A i \in Ids \ {j} : ~Brings(th[t], i)
    BY <2>1, <2>2 DEF Brings
  <2>5. \A u \in Threads \ {t} : th'[u] = th[u]
    BY <2>2, LeaveFacts, MoveFacts
  <2> QED
    BY <2>1, <2>2, <2>3, <2>4, <2>5, OneWrites
<1>4. CASE StartAction(t)
  <2>1. PICK j \in Ids : j = th[t].id
    BY <1>4, BusyType DEF StartAction, Pcs, Resting
  <2>2. PICK q \in Rows : q = Running(th[t].rec)
    <3>1. th[t].rec \in Rows
      BY BusyType
    <3> QED
      BY <2>1, <3>1, RowTypes
  <2>3. /\ UNCHANGED <<queue, phase, recovery>> /\ th[t].pc = "start" /\ lost \subseteq lost'
        /\ \/ row' = [row EXCEPT ![j] = q] /\ Carries(t, "act", q)
           \/ row' = row /\ j \in lost' /\ Leave(t)
    BY <1>4, <2>1, <2>2 DEF StartAction, Write, Carries, EndsCall
  <2>4. \A i \in Ids \ {j} : ~Brings(th[t], i)
    BY <2>1, <2>3 DEF Brings
  <2>5. CASE row' = row /\ j \in lost' /\ Leave(t)
    <3>1. \A u \in Threads \ {t} : th'[u] = th[u]
      BY <2>5, LeaveFacts
    <3>2. q \in Rows /\ UNCHANGED <<queue, phase, recovery>> /\ lost \subseteq lost'
      BY <2>2, <2>3
    <3> QED
      BY <2>4, <2>5, <3>1, <3>2, OneWrites
  <2>6. CASE row' = [row EXCEPT ![j] = q] /\ Carries(t, "act", q)
    <3>1. (\A u \in Threads \ {t} : th'[u] = th[u]) /\ th'[t].pc = "act" /\ th'[t].id = j
      BY <2>1, <2>6, MoveFacts
    <3>2. Brings(th'[t], j)
      BY <3>1 DEF Brings, MayExecute
    <3>3. q \in Rows /\ UNCHANGED <<queue, phase, recovery>> /\ lost \subseteq lost'
      BY <2>2, <2>3
    <3> QED
      BY <2>4, <2>6, <3>1, <3>2, <3>3, OneWrites
  <2> QED
    BY <2>3, <2>5, <2>6
<1>5. CASE SeenFollowUp(t)
  <2>1. /\ UNCHANGED <<row, queue, phase, recovery, lost>> /\ th[t].pc = "seen"
        /\ Leave(t) \/ Goto(t, "insert_followup")
    BY <1>5 DEF SeenFollowUp, dbVars, history
  <2>2. \A u \in Threads \ {t} : th'[u] = th[u]
    BY <2>1, LeaveFacts, MoveFacts
  <2> QED
    BY <2>1, <2>2, RestingBrings, OneReads
<1>6. CASE InsertFollowUp(t)
  <2>1. PICK j \in Ids : j = FollowUp(th[t].id)
    BY <1>6, BusyType, IdTypes DEF InsertFollowUp, Pcs, Resting
  <2>2. /\ UNCHANGED <<queue, phase, recovery, lost>> /\ th[t].pc = "insert_followup"
        /\ \/ row' = [row EXCEPT ![j] = NewPending] /\ Goto(t, "push_followup")
           \/ row' = row /\ Leave(t)
    BY <1>6, <2>1 DEF InsertFollowUp, Write
  <2>3. \A i : ~Brings(th[t], i)
    BY <2>2, RestingBrings
  <2>4. CASE row' = row /\ Leave(t)
    BY <2>2, <2>3, <2>4, LeaveFacts, OneReads
  <2>5. CASE row' = [row EXCEPT ![j] = NewPending] /\ Goto(t, "push_followup")
    <3>1. /\ \A u \in Threads \ {t} : th'[u] = th[u]
          /\ th'[t].pc = "push_followup" /\ th'[t].id = th[t].id
      BY <2>5, MoveFacts
    <3>2. Brings(th'[t], j)
      BY <2>1, <3>1 DEF Brings
    <3> QED
      BY <2>2, <2>3, <2>5, <3>1, <3>2, NewRowTypes, OneWrites
  <2> QED
    BY <2>2, <2>4, <2>5
<1>7. CASE PushFollowUp(t)
  BY <1>7, PushOrDropCovers DEF PushFollowUp
<1> QED
  BY <1>2, <1>3, <1>4, <1>5, <1>6, <1>7, DequeueCovers DEF Execute

\* What a goroutine brings forward, a crash of its process drops.
LEMMA BringsCarries == \A t \in Threads : \A i : Brings(th[t], i) => i \in CarriedBy(t)
BY DEF Brings, CarriedBy, MayExecute, Resting

LEMMA QueuedCarries == \A i : Queued(i) => \E p \in Processes : i \in QueuedIn(p)
BY DEF Queued, QueuedIn

\* The end of a CLI process accounts for everything it held.
LEMMA CliEndsCovers ==
    ASSUME TypeOK, CoverInvariant, NEW c \in Clis, CliEnds(c)
    PROVE  CoverInvariant'
<1>1. /\ UNCHANGED <<row, phase, recovery>> /\ lost \subseteq lost'
      /\ QueuedIn(c) \subseteq lost' /\ CarriedBy(c) \subseteq lost'
      /\ \A u \in Threads \ {c} : th'[u] = th[u]
      /\ \A p \in Processes \ {c} : queue'[p] = queue[p]
  BY DEF CliEnds, dbVars, TypeOK
<1> SUFFICES ASSUME NEW i \in Ids, row[i].lifecycle \in InFlight
             PROVE  Covered(i)'
  BY <1>1 DEF CoverInvariant, NoRowForgotten, RecoveryInPhase
<1>2. CASE \E u \in Threads : Brings(th[u], i)
  <2>1. PICK u \in Threads : Brings(th[u], i)
    BY <1>2
  <2>2. i \in CarriedBy(u)
    BY <2>1, BringsCarries
  <2> QED
    BY <1>1, <2>1, <2>2 DEF Covered
<1>3. CASE Queued(i)
  <2>1. PICK p \in Processes :
            \E k \in 1..Len(queue[p]) : queue[p][k].id = i /\ GateOpen(i, queue[p][k].rec)
    BY <1>3 DEF Queued
  <2>2. CASE p = c
    BY <1>1, <2>1, <2>2 DEF Covered, QueuedIn
  <2>3. CASE p # c
    <3>1. queue'[p] = queue[p]
      BY <1>1, <2>3
    <3> QED
      BY <2>1, <3>1 DEF Covered, Queued
  <2> QED
    BY <2>2, <2>3
<1> QED
  BY <1>1, <1>2, <1>3 DEF Covered, CoverInvariant, NoRowForgotten

LEMMA CoverInit == Init => CoverInvariant
<1> SUFFICES ASSUME Init PROVE CoverInvariant
  OBVIOUS
<1>1. \A i \in Ids : row[i].lifecycle \notin InFlight
  BY HonestRows DEF Init
<1> QED
  BY <1>1 DEF Init, CoverInvariant, NoRowForgotten, RecoveryInPhase

LEMMA CoverNext ==
    /\ TypeOK /\ GateInvariant /\ SignedInvariant /\ HonestInvariant /\ CoverInvariant
    /\ ExecutorRests /\ [Next]_vars
    => CoverInvariant'
<1> SUFFICES ASSUME TypeOK, GateInvariant, SignedInvariant, HonestInvariant, CoverInvariant,
                    ExecutorRests, [Next]_vars
             PROVE  CoverInvariant'
  OBVIOUS
<1>1. ASSUME NEW t \in Threads, Propose(t) \/ QueueReset(t) \/ Execute(t) PROVE CoverInvariant'
  BY <1>1, ProposeCovers, ResetCovers, ExecuteCovers
<1>2. ASSUME NEW t \in Handlers, Decide(t) PROVE CoverInvariant'
  BY <1>2, DecideCovers
<1>3. ASSUME NEW c \in Clis, CliEnds(c) PROVE CoverInvariant'
  BY <1>3, CliEndsCovers
<1>4. CASE Crash
  <2>1. phase' = "down" /\ recovery' = {}
    BY <1>4 DEF Crash
  <2> QED
    BY <2>1 DEF CoverInvariant, NoRowForgotten, RecoveryInPhase, Covered
<1>5. CASE Restart
  <2>1. PICK batch \in SUBSET IncompleteIds :
            /\ recovery' = {Copy(i, row[i]) : i \in batch}
            /\ lost' = lost \cup (IncompleteIds \ batch)
    BY <1>5 DEF Restart
  <2>2. phase' = "recovering" /\ row' = row
    BY <1>5 DEF Restart, dbVars
  <2>3. ASSUME NEW i \in Ids, row[i].lifecycle \in InFlight PROVE Covered(i)'
    <3>1. i \in IncompleteIds
      BY <2>3 DEF IncompleteIds, Incomplete
    <3>2. i \in batch => Copy(i, row[i]) \in recovery' /\ Copy(i, row[i]).id = i
      BY <2>1 DEF Copy
    <3> QED
      BY <2>1, <3>1, <3>2 DEF Covered
  <2> QED
    BY <2>2, <2>3 DEF CoverInvariant, NoRowForgotten, RecoveryInPhase
<1>6. ASSUME NEW c \in recovery, RecoverRow(c) PROVE CoverInvariant'
  <2>1. PICK j \in Ids, q \in Rows : j = c.id /\ q = c.rec
    BY DEF TypeOK, Copies
  <2>2. PICK r \in Rows : r = Recovered(j, q)
    BY RowTypes
  <2>3. r.lifecycle \notin InFlight
    BY <2>2, HonestRows DEF InFlight
  <2>4. /\ UNCHANGED <<queue, phase>> /\ lost \subseteq lost' /\ recovery' = recovery \ {c}
        /\ row' = [row EXCEPT ![j] = r] \/ (row' = row /\ j \in lost')
        /\ \A u \in Threads \ {Executor} : th'[u] = th[u]
        /\ th[Executor].pc = "recover" /\ Executor \in Threads
    BY <1>6, <2>1, <2>2 DEF RecoverRow, WriteOrIgnore, Write, TypeOK, Threads
  <2>5. \A i : ~Brings(th[Executor], i)
    BY <2>4, RestingBrings
  <2>6. ASSUME NEW i \in Ids, row'[i].lifecycle \in InFlight PROVE Covered(i)'
    <3>1. i \in lost' \/ (i # j /\ row'[i] = row[i])
      <4>1. CASE i = j
        BY <2>3, <2>4, <2>6, <4>1 DEF TypeOK
      <4>2. CASE i # j
        BY <2>4, <4>2 DEF TypeOK
      <4> QED
        BY <4>1, <4>2
    <3>2. CASE i \in lost'
      BY <3>2 DEF Covered
    <3>3. CASE i # j /\ row'[i] = row[i]
      <4>1. Covered(i)
        BY <2>6, <3>3 DEF CoverInvariant, NoRowForgotten
      <4>2. Queued(i) => Queued(i)'
        BY <2>4 DEF Queued
      <4>3. (\E u \in Threads : Brings(th[u], i)) => \E u \in Threads : Brings(th'[u], i)
        BY <2>4, <2>5
      <4>4. (\E d \in recovery : d.id = i) => \E d \in recovery' : d.id = i
        BY <2>1, <2>4, <3>3
      <4> QED
        BY <2>4, <4>1, <4>2, <4>3, <4>4 DEF Covered
    <3> QED
      BY <3>1, <3>2, <3>3
  <2> QED
    BY <2>4, <2>6 DEF CoverInvariant, NoRowForgotten, RecoveryInPhase
<1>7. CASE StartWorkers
  <2>1. /\ UNCHANGED <<row, queue, recovery, lost>> /\ recovery = {}
        /\ th[Executor].pc = "recover" /\ Executor \in Threads /\ phase # "down" /\ phase' = "up"
        /\ \A u \in Threads \ {Executor} : th'[u] = th[u]
    BY <1>7 DEF ExecutorRests, StartWorkers, dbVars, history, Goto, TypeOK, Threads
  <2>2. \A i : ~Brings(th[Executor], i)
    BY <2>1, RestingBrings
  <2>3. ASSUME NEW i \in Ids, row[i].lifecycle \in InFlight PROVE Covered(i)'
    <3>1. Covered(i)
      BY <2>3 DEF CoverInvariant, NoRowForgotten
    <3>2. Queued(i) => Queued(i)'
      BY <2>1 DEF Queued
    <3>3. (\E u \in Threads : Brings(th[u], i)) => \E u \in Threads : Brings(th'[u], i)
      BY <2>1, <2>2
    <3> QED
      BY <2>1, <3>1, <3>2, <3>3 DEF Covered
  <2> QED
    BY <2>1, <2>3 DEF CoverInvariant, NoRowForgotten, RecoveryInPhase
<1>8. ASSUME NEW hs, EndHolds(hs) PROVE CoverInvariant'
  <2>1. UNCHANGED <<row, queue, phase, recovery, lost>>
    BY <1>8 DEF EndHolds, history
  <2>2. \A t \in Threads : /\ th'[t].pc = th[t].pc /\ th'[t].id = th[t].id /\ th'[t].rec = th[t].rec
                           /\ th'[t].verb = th[t].verb
    BY <1>8, BusyType DEF EndHolds, Goroutines
  <2>3. \A i \in Ids, t \in Threads : Brings(th[t], i) => Brings(th'[t], i)
    BY <2>2 DEF Brings
  <2> QED
    BY <2>1, <2>3 DEF CoverInvariant, NoRowForgotten, RecoveryInPhase, Covered, Queued
<1>9. ASSUME UNCHANGED <<queue, phase, recovery, lost, th>>,
             \A i \in Ids : row'[i].lifecycle \in InFlight => row[i].lifecycle \in InFlight
      PROVE  CoverInvariant'
  BY <1>9 DEF CoverInvariant, NoRowForgotten, RecoveryInPhase, Covered, Queued
<1>10. CASE ExpireStaleApprovals
  <2>1. PICK as \in SUBSET Actions :
            row' = [i \in Ids |-> IF IsPrimary(i) /\ i[1] \in as THEN Expired(row[i]) ELSE row[i]]
    BY <1>10 DEF ExpireStaleApprovals
  <2>2. \A i \in Ids : Expired(row[i]).lifecycle \notin InFlight
    BY HonestRows DEF TypeOK, Expired, InFlight
  <2>3. \A i \in Ids : row'[i].lifecycle \in InFlight => row[i].lifecycle \in InFlight
    BY <2>1, <2>2
  <2> QED
    BY <1>9, <1>10, <2>3 DEF ExpireStaleApprovals
<1>11. ASSUME NEW h \in Holds, BeginHold(h) PROVE CoverInvariant'
  BY <1>9, <1>11 DEF BeginHold, history
<1>12. CASE UNCHANGED vars
  BY <1>9, <1>12 DEF vars
<1> QED
  <2>1. CASE Next
    BY <1>1, <1>2, <1>3, <1>4, <1>5, <1>6, <1>7, <1>8, <1>10, <1>11, <2>1
       DEF Next, Recover, Operate, EndHold, ExpireOldFreezes, Threads, Handlers, CliExit, CliCrash
  <2> QED  BY <1>12, <2>1

\* NoSilentOrphan: with one approver, and any number of evaluators and CLI processes, over crashes,
\* restarts, full queues and failed statements: while the server is up, every pending or running row
\* is in a queue or in the hands of a goroutine, or its loss was one the code accepts.
THEOREM NoRowIsOrphaned ==
    ASSUME OneApprover
    PROVE  Spec => []NoSilentOrphan
<1>1. CoverInvariant => NoSilentOrphan
  <2> SUFFICES ASSUME CoverInvariant, phase = "up", NEW i \in Ids \ lost,
                      row[i].lifecycle \in InFlight
               PROVE  \/ \E p \in Processes : i \in QueuedIn(p)
                      \/ \E t \in Threads : i \in CarriedBy(t)
    BY DEF NoSilentOrphan
  <2>1. recovery = {} /\ Covered(i)
    BY DEF CoverInvariant, NoRowForgotten, RecoveryInPhase
  <2>2. Queued(i) \/ \E t \in Threads : Brings(th[t], i)
    BY <2>1 DEF Covered
  <2> QED
    BY <2>2, QueuedCarries, BringsCarries
<1>2. /\ TypeOK /\ GateInvariant /\ SignedInvariant /\ HonestInvariant /\ CoverInvariant
      /\ ExecutorRests /\ [Next]_vars
      => CoverInvariant'
  BY CoverNext
<1>3. Spec => []HonestInvariant
  BY HonestHolds
<1>4. Init => ExecutorRests
  BY DEF Init, ExecutorRests
<1> QED
  BY <1>1, <1>2, <1>3, <1>4, ExecutorRestsNext, CoverInit, SignedInit, SignedNext, TypeCorrect, GateHolds, PTL DEF Spec
=============================================================================
