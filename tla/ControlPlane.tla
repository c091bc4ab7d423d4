---------------------------- MODULE ControlPlane ----------------------------
(***************************************************************************)
(* MEL's guarded control plane: how a control action travels from proposal  *)
(* through approval to execution, when                                      *)
(*   - the `mel serve` process runs evaluators, HTTP handlers and one       *)
(*     executor goroutine around a bounded in-memory queue;                 *)
(*   - `mel action` / `mel control` commands run the same handlers in       *)
(*     processes of their own, each with its own queue, on the same SQLite  *)
(*     database;                                                            *)
(*   - every statement is its own sqlite3 process (db/db.go), so it is      *)
(*     atomic, and nothing spans two statements;                            *)
(*   - processes crash, the server is restarted, statements fail.           *)
(*                                                                         *)
(* One step of the specification is one SQL statement, one channel          *)
(* operation or one actuator call.  A goroutine that has read a row keeps   *)
(* the copy it read: UpsertControlAction writes that copy back whole.       *)
(***************************************************************************)
EXTENDS ControlRows

CONSTANTS
    Server,       \* the mel serve process
    Executor,     \* its controlExecutor goroutine (and Start, before it runs)
    Evaluators,   \* goroutines that may be inside evaluateControl
    HttpOps,      \* HTTP handler goroutines of the server
    Clis,         \* CLI processes; each has one thread, of the same name
    MaxQueue,     \* capacity of controlQueue (control.max_queue)
    RecoverLimit, \* rows one start-up recovery closes (queries.max_limit)
    MaxCrashes,   \* bound: process crashes in a behaviour
    MaxFaults     \* bound: failed statements in a behaviour

Processes == {Server} \cup Clis
Handlers  == HttpOps \cup Clis
Threads   == {Executor} \cup Evaluators \cup Handlers

ASSUME QueueAssumption ==
    /\ MaxQueue \in Nat \ {0}
    /\ RecoverLimit \in Nat
    /\ MaxCrashes \in Nat /\ MaxFaults \in Nat

ASSUME ThreadsAssumption ==
    /\ Server \notin Clis
    /\ Executor \notin Evaluators \cup Handlers
    /\ Evaluators \cap Handlers = {}
    /\ HttpOps \cap Clis = {}

VARIABLES
    row,       \* the control_actions table
    hold,      \* the control_freezes and maintenance_windows tables
    queue,     \* controlQueue of each process: copies of rows
    th,        \* each goroutine: where it is, the row copy it holds
    phase,     \* of the server: "down", "recovering" or "up"
    recovery,  \* the copies recoverIncompleteControlActions still has to close
    crashes, faults,
    \* History variables: what happened, whatever the table says now.
    decision,  \* what a guarded UPDATE decided on each action
    runs,      \* how often the actuator of each row was called
    lost,      \* rows whose last carrier, or whose closing write, was dropped
    missed     \* follow-ups that existed when a failed look-up took them for absent

dbVars    == <<row, hold>>
faultVars == <<crashes, faults>>
history   == <<decision, runs, lost, missed>>
vars == <<row, hold, queue, th, phase, recovery, crashes, faults,
          decision, runs, lost, missed>>

Verbs == {"approve", "reject"}

Pcs == {"idle", "exit",
        \* evaluateControl, QueueOperatorControlAction
        "push_new", "drop_new",
        \* queueRecoveryActions
        "reset_row", "reset_insert", "reset_push",
        \* ApproveActionWithOpts, RejectActionWithOpts
        "recheck", "update", "verify", "merge_read", "merge_write", "reload",
        "push_approved",
        \* executeControlAction
        "drain", "freeze", "maintenance", "refuse", "start", "act", "finish",
        \* enqueueHealthRecheckFollowup
        "seen", "insert_followup", "push_followup",
        \* recoverIncompleteControlActions
        "recover"}

At(pc) == [pc |-> pc, id |-> NoId, rec |-> NoRow, verb |-> "approve",
           actor |-> Nobody, ack |-> FALSE, held |-> {}]

Copy(i, r) == [id |-> i, rec |-> r]

Copies == [id : Ids, rec : Rows]

\* Where a goroutine works on no row.
Resting == {"idle", "exit", "drain", "recover"}

Goroutines ==
    {s \in [pc : Pcs, id : Ids \cup {NoId}, rec : Rows, verb : Verbs,
            actor : Operators \cup {Nobody}, ack : BOOLEAN, held : SUBSET Holds] :
        s.pc \in Resting \/ s.id \in Ids}

TypeOK ==
    /\ row \in [Ids -> Rows]
    /\ hold \in [Holds -> {"unset", "active", "over"}]
    /\ queue \in [Processes -> Seq(Copies)]
    /\ \A p \in Processes : Len(queue[p]) <= MaxQueue
    /\ th \in [Threads -> Goroutines]
    /\ phase \in {"down", "recovering", "up"}
    /\ recovery \in SUBSET Copies
    /\ crashes \in 0..MaxCrashes /\ faults \in 0..MaxFaults
    /\ decision \in [Actions -> {"none", "approved", "rejected", "expired"}]
    /\ runs \in [Ids -> Nat]
    /\ lost \in SUBSET Ids
    /\ missed \in SUBSET Ids

Init ==
    /\ row = [i \in Ids |-> NoRow]
    /\ hold = [h \in Holds |-> "unset"]
    /\ queue = [p \in Processes |-> <<>>]
    /\ th = [t \in Threads |-> At("idle")]
    /\ phase = "up"
    /\ recovery = {}
    /\ crashes = 0 /\ faults = 0
    /\ decision = [a \in Actions |-> "none"]
    /\ runs = [i \in Ids |-> 0]
    /\ lost = {}
    /\ missed = {}

-----------------------------------------------------------------------------
(* Helpers. *)

Home(t) == IF t \in Clis THEN t ELSE Server

RoomBug(p) == Len(queue[p]) <= MaxQueue
Room(p) == Len(queue[p]) < MaxQueue

\* Where a goroutine goes when a call returns.
Return(t) == CASE t \in Clis -> "exit"
               [] t = Executor /\ phase = "recovering" -> "recover"
               [] OTHER -> "idle"

Goto(t, pc) == th' = [th EXCEPT ![t].pc = pc]
Leave(t)    == th' = [th EXCEPT ![t] = At(Return(t))]

Enqueue(t, i, r) ==
    queue' = [queue EXCEPT ![Home(t)] = Append(@, Copy(i, r))]

StatementFails == faults < MaxFaults /\ faults' = faults + 1

\* A statement whose error ends the call: nobody brings the row forward any more.
EndsCall(t) ==
    StatementFails /\ Leave(t) /\ lost' = lost \cup {th[t].id} /\ UNCHANGED row

\* seenControlAction: a failed SELECT says the row is absent.
LookUpFails(i) ==
    /\ StatementFails
    /\ missed' = IF row[i] = NoRow THEN missed ELSE missed \cup {i}

Write(i, r) == row' = [row EXCEPT ![i] = r] /\ UNCHANGED <<faults, lost>>

\* An upsert whose error the code ignores: if it fails the row keeps its state.
WriteOrIgnore(i, r) ==
    \/ Write(i, r)
    \/ StatementFails /\ lost' = lost \cup {i} /\ UNCHANGED row

Applies(h, i) == hold[h] = "active" /\ i \in Covers[h]
Frozen(i) == \E h \in Freezes : Applies(h, i)

InMaintenanceBug(i) == FALSE
InMaintenance(i) == \E h \in Holds \ Freezes : Applies(h, i)

\* isExecutionBlocked
Blocked(i) == Frozen(i) \/ InMaintenance(i)

\* A hold whose read fails lets the action pass (fail-open, by design).
PassesHolds(i) ==
    LET failed == (IF Frozen(i) THEN 1 ELSE 0) + (IF InMaintenance(i) THEN 1 ELSE 0)
    IN  faults + failed <= MaxFaults /\ faults' = faults + failed

Refusal(i, r) == IF Frozen(i) THEN FreezeRefusal(r) ELSE MaintenanceRefusal(r)

-----------------------------------------------------------------------------
(* Proposals: evaluateControl for the system, QueueOperatorControlAction    *)
(* for an operator (over HTTP or `mel action queue`).  The reads that pick  *)
(* the row's first state and its INSERT are one step: no other goroutine    *)
(* knows the random id before the INSERT, and the executor reads the holds  *)
(* again.  An INSERT that fails leaves no trace.                            *)

MayPropose(t, a) ==
    /\ th[t].pc = "idle"
    /\ t \notin Clis => phase = "up"
    /\ IF Submitter[a] = System THEN t \in Evaluators ELSE t \in Handlers
    /\ row[Primary(a)] = NoRow

NeedsApprovalBug(a) == a \in Gated /\ Submitter[a] = System

\* resolveExecutionMode, asked by the evaluator and by the operator path alike.
NeedsApproval(a) == a \in Gated

Insert(a, r) == row' = [row EXCEPT ![Primary(a)] = r]

ClosesAtOnce(t) ==
    /\ Leave(t)
    /\ UNCHANGED <<hold, queue, phase, recovery, crashes, history>>

\* control.Evaluate denied the candidate: policy, cooldown, budget, conflict, override.
ProposeDenied(t, a) ==
    /\ MayPropose(t, a)
    /\ Submitter[a] = System
    /\ Insert(a, Completed(NewPending, "denied_by_policy", ""))
    /\ ClosesAtOnce(t)
    /\ UNCHANGED faults

\* The operator path looks at the holds only for actions that need no approval.
ProposeBlocked(t, a) ==
    /\ MayPropose(t, a)
    /\ Submitter[a] # System => ~NeedsApproval(a)
    /\ Blocked(Primary(a))
    /\ Insert(a, Refusal(Primary(a), NewPending))
    /\ ClosesAtOnce(t)
    /\ UNCHANGED faults

ProposeGated(t, a) ==
    /\ MayPropose(t, a)
    /\ NeedsApproval(a)
    /\ IF Submitter[a] = System THEN PassesHolds(Primary(a)) ELSE UNCHANGED faults
    /\ Insert(a, NewPendingApproval)
    /\ ClosesAtOnce(t)

ProposeAuto(t, a) ==
    /\ MayPropose(t, a)
    /\ ~NeedsApproval(a)
    /\ PassesHolds(Primary(a))
    /\ Insert(a, NewPending)
    /\ th' = [th EXCEPT ![t] = [At("push_new") EXCEPT !.id = Primary(a),
                                                     !.rec = NewPending]]
    /\ UNCHANGED <<hold, queue, phase, recovery, crashes, history>>

PushNew(t) ==
    /\ th[t].pc = "push_new"
    /\ IF Room(Home(t))
       THEN Enqueue(t, th[t].id, th[t].rec) /\ Leave(t)
       ELSE Goto(t, "drop_new") /\ UNCHANGED queue
    /\ UNCHANGED <<dbVars, phase, recovery, faultVars, history>>

\* The queue is full: the row is closed so that nothing waits for it.
DropNew(t) ==
    /\ th[t].pc = "drop_new"
    /\ WriteOrIgnore(th[t].id, DroppedOnFullQueue)
    /\ Leave(t)
    /\ UNCHANGED <<hold, queue, phase, recovery, crashes, decision, runs, missed>>

-----------------------------------------------------------------------------
(* queueRecoveryActions, at the end of every evaluation: a backoff increase *)
(* whose window has passed quietly gets a reset follow-up.  Time and        *)
(* quietness are not modelled: the window may have passed whenever the row  *)
(* says the increase ran.                                                   *)

ResetBegin(t, a) ==
    /\ t \in Evaluators
    /\ th[t].pc = "idle" /\ phase = "up"
    /\ Revertible(Primary(a), row[Primary(a)])
    /\ \/ row[FollowUp(Primary(a))] = NoRow /\ UNCHANGED <<faults, missed>>
       \/ LookUpFails(FollowUp(Primary(a)))
    /\ th' = [th EXCEPT ![t] = [At("reset_row") EXCEPT !.id = Primary(a),
                                                      !.rec = row[Primary(a)]]]
    /\ UNCHANGED <<dbVars, queue, phase, recovery, crashes, decision, runs, lost>>

ResetRow(t) ==
    /\ th[t].pc = "reset_row"
    /\ WriteOrIgnore(th[t].id, Reverted(th[t].rec))
    /\ Goto(t, "reset_insert")
    /\ UNCHANGED <<hold, queue, phase, recovery, crashes, decision, runs, missed>>

ResetInsert(t) ==
    /\ th[t].pc = "reset_insert"
    /\ WriteOrIgnore(FollowUp(th[t].id), NewPending)
    /\ Goto(t, "reset_push")
    /\ UNCHANGED <<hold, queue, phase, recovery, crashes, decision, runs, missed>>

\* The shape both follow-up paths share: push, or drop without a word.
PushOrDrop(t) ==
    /\ IF Room(Home(t))
       THEN Enqueue(t, FollowUp(th[t].id), NewPending) /\ UNCHANGED lost
       ELSE lost' = lost \cup {FollowUp(th[t].id)} /\ UNCHANGED queue
    /\ Leave(t)
    /\ UNCHANGED <<dbVars, phase, recovery, faultVars, decision, runs, missed>>

ResetPush(t) == th[t].pc = "reset_push" /\ PushOrDrop(t)

-----------------------------------------------------------------------------
(* ApproveActionWithOpts and RejectActionWithOpts.  ack says that the       *)
(* caller acknowledged the separation-of-duties override.                   *)

\* The handler reads the row and checks it; a call that fails here changes nothing.
Load(t, a, verb, actor, ack) ==
    /\ th[t].pc = "idle"
    /\ t \notin Clis => phase = "up"
    /\ Decidable(row[Primary(a)])
    /\ SodBlocks(a, actor) => ack
    /\ th' = [th EXCEPT ![t] = [At("recheck") EXCEPT !.id = Primary(a), !.verb = verb,
                                                    !.actor = actor, !.ack = ack]]
    /\ UNCHANGED <<dbVars, queue, phase, recovery, faultVars, history>>

\* ApproveControlAction / RejectControlAction read the row once more.
Recheck(t) ==
    /\ th[t].pc = "recheck"
    /\ \/ /\ IF Decidable(row[th[t].id]) THEN Goto(t, "update") ELSE Leave(t)
          /\ UNCHANGED faults
       \/ StatementFails /\ Leave(t)
    /\ UNCHANGED <<dbVars, queue, phase, recovery, crashes, history>>

Bypass(t) == th[t].ack /\ SodBlocks(th[t].id[1], th[t].actor)

\* The guarded UPDATE: without effect if the row has left pending_approval.
DecideRow(t) ==
    LET i == th[t].id
        verdict == IF th[t].verb = "approve" THEN "approved" ELSE "rejected"
        decided == IF th[t].verb = "approve"
                   THEN Approved(row[i], th[t].actor, Bypass(t))
                   ELSE Rejected(row[i])
    IN  IF Decidable(row[i])
        THEN /\ row' = [row EXCEPT ![i] = decided]
             /\ decision' = [decision EXCEPT ![i[1]] = verdict]
        ELSE UNCHANGED <<row, decision>>

Update(t) ==
    /\ th[t].pc = "update"
    /\ \/ DecideRow(t) /\ Goto(t, "verify") /\ UNCHANGED faults
       \/ StatementFails /\ Leave(t) /\ UNCHANGED <<row, decision>>
    /\ UNCHANGED <<hold, queue, phase, recovery, crashes, runs, lost, missed>>

\* Approve merges metadata on every acknowledged call; reject over HTTP only on an override.
Merges(t) == th[t].ack /\ (th[t].verb = "approve" \/ t \in Clis \/ Bypass(t))

AfterMerge(t) ==
    IF th[t].verb = "approve" THEN Goto(t, "reload") ELSE Leave(t)

\* The post-read, an error too if the row is still pending_approval.  Whatever statement
\* fails from here to the reload, the decision stands and nothing is queued.
Verify(t) ==
    /\ th[t].pc = "verify"
    /\ \/ /\ CASE Decidable(row[th[t].id]) -> Leave(t)
               [] Merges(t) /\ ~Decidable(row[th[t].id]) -> Goto(t, "merge_read")
               [] OTHER -> AfterMerge(t)
          /\ UNCHANGED <<row, faults, lost>>
       \/ EndsCall(t)
    /\ UNCHANGED <<hold, queue, phase, recovery, crashes, decision, runs, missed>>

\* mergeControlActionMetadata: read the row ...
MergeRead(t) ==
    /\ th[t].pc = "merge_read"
    /\ \/ /\ th' = [th EXCEPT ![t].pc = "merge_write", ![t].rec = row[th[t].id]]
          /\ UNCHANGED <<row, faults, lost>>
       \/ EndsCall(t)
    /\ UNCHANGED <<hold, queue, phase, recovery, crashes, decision, runs, missed>>

\* ... and write it back whole.
MergeWrite(t) ==
    /\ th[t].pc = "merge_write"
    /\ \/ Write(th[t].id, th[t].rec) /\ AfterMerge(t)
       \/ EndsCall(t)
    /\ UNCHANGED <<hold, queue, phase, recovery, crashes, decision, runs, missed>>

Reload(t) ==
    /\ th[t].pc = "reload"
    /\ \/ /\ th' = [th EXCEPT ![t].pc = "push_approved", ![t].rec = row[th[t].id]]
          /\ UNCHANGED <<row, faults, lost>>
       \/ EndsCall(t)
    /\ UNCHANGED <<hold, queue, phase, recovery, crashes, decision, runs, missed>>

PushApproved(t) ==
    /\ th[t].pc = "push_approved"
    /\ IF Room(Home(t))
       THEN /\ Enqueue(t, th[t].id, th[t].rec)
            /\ th' = [th EXCEPT ![t] = At(IF t \in Clis THEN "drain" ELSE "idle")]
            /\ UNCHANGED lost
       ELSE /\ lost' = lost \cup {th[t].id}
            /\ Leave(t)
            /\ UNCHANGED queue
    /\ UNCHANGED <<dbVars, phase, recovery, faultVars, decision, runs, missed>>

-----------------------------------------------------------------------------
(* controlExecutor, ProcessNextQueuedControlAction, executeControlAction.   *)

Draining(t) == \/ t = Executor /\ phase = "up" /\ th[t].pc = "idle"
               \/ t \in Clis /\ th[t].pc = "drain"

HeldOver(i) == {h \in Holds : Applies(h, i)}

GatedStop(t, i, r) ==
    IF r.lifecycle = "pending_approval"
    THEN th' = [th EXCEPT ![t] = [At("refuse") EXCEPT !.id = i, !.rec = GateRefusal(r)]]
    ELSE Leave(t)

Dequeue(t) ==
    /\ Draining(t)
    /\ queue[Home(t)] # <<>>
    /\ LET c == Head(queue[Home(t)])
       IN  IF GateOpen(c.id, c.rec)
           THEN th' = [th EXCEPT ![t] = [At("freeze") EXCEPT !.id = c.id, !.rec = c.rec,
                                                            !.held = HeldOver(c.id)]]
           ELSE GatedStop(t, c.id, c.rec)
    /\ queue' = [queue EXCEPT ![Home(t)] = Tail(@)]
    /\ UNCHANGED <<dbVars, phase, recovery, faultVars, history>>

RefuseWith(t, r) == th' = [th EXCEPT ![t].pc = "refuse", ![t].rec = r]

\* A failed read of the holds lets the action pass (fail-open, by design).
CheckFreeze(t) ==
    /\ th[t].pc = "freeze"
    /\ \/ /\ IF Frozen(th[t].id) THEN RefuseWith(t, FreezeRefusal(th[t].rec))
                                 ELSE Goto(t, "maintenance")
          /\ UNCHANGED faults
       \/ StatementFails /\ Goto(t, "maintenance")
    /\ UNCHANGED <<dbVars, queue, phase, recovery, crashes, history>>

AfterHolds(t) ==
    IF AdvisoryDenied(th[t].id) THEN RefuseWith(t, AdvisoryRefusal(th[t].rec))
                                ELSE Goto(t, "start")

CheckMaintenance(t) ==
    /\ th[t].pc = "maintenance"
    /\ \/ /\ IF InMaintenance(th[t].id) THEN RefuseWith(t, MaintenanceRefusal(th[t].rec))
                                        ELSE AfterHolds(t)
          /\ UNCHANGED faults
       \/ StatementFails /\ AfterHolds(t)
    /\ UNCHANGED <<dbVars, queue, phase, recovery, crashes, history>>

Refuse(t) ==
    /\ th[t].pc = "refuse"
    /\ WriteOrIgnore(th[t].id, th[t].rec)
    /\ Leave(t)
    /\ UNCHANGED <<hold, queue, phase, recovery, crashes, decision, runs, missed>>

\* The row is marked running before the actuator is called; if that fails nothing runs.
StartAction(t) ==
    /\ th[t].pc = "start"
    /\ \/ /\ Write(th[t].id, Running(th[t].rec))
          /\ th' = [th EXCEPT ![t].pc = "act", ![t].rec = Running(th[t].rec)]
       \/ EndsCall(t)
    /\ UNCHANGED <<hold, queue, phase, recovery, crashes, decision, runs, missed>>

Act(t) ==
    /\ th[t].pc = "act"
    /\ \E outcome \in Outcomes :
          /\ th' = [th EXCEPT ![t].pc = "finish",
                              ![t].rec = Executed(th[t].id, th[t].rec, outcome)]
          /\ runs' = IF outcome = "failed_terminal" THEN runs
                     ELSE [runs EXCEPT ![th[t].id] = @ + 1]
    /\ UNCHANGED <<dbVars, queue, phase, recovery, faultVars, decision, lost, missed>>

Finish(t) ==
    /\ th[t].pc = "finish"
    /\ WriteOrIgnore(th[t].id, th[t].rec)
    /\ IF WantsRecheck(th[t].id, th[t].rec) THEN Goto(t, "seen") ELSE Leave(t)
    /\ UNCHANGED <<hold, queue, phase, recovery, crashes, decision, runs, missed>>

-----------------------------------------------------------------------------
(* enqueueHealthRecheckFollowup, called after a restart and by recovery. *)

SeenFollowUp(t) ==
    /\ th[t].pc = "seen"
    /\ \/ /\ IF row[FollowUp(th[t].id)] = NoRow THEN Goto(t, "insert_followup") ELSE Leave(t)
          /\ UNCHANGED <<faults, missed>>
       \/ LookUpFails(FollowUp(th[t].id)) /\ Goto(t, "insert_followup")
    /\ UNCHANGED <<dbVars, queue, phase, recovery, crashes, decision, runs, lost>>

InsertFollowUp(t) ==
    /\ th[t].pc = "insert_followup"
    /\ \/ Write(FollowUp(th[t].id), NewPending) /\ Goto(t, "push_followup")
       \/ StatementFails /\ Leave(t) /\ UNCHANGED <<row, lost>>
    /\ UNCHANGED <<hold, queue, phase, recovery, crashes, decision, runs, missed>>

PushFollowUp(t) == th[t].pc = "push_followup" /\ PushOrDrop(t)

-----------------------------------------------------------------------------
(* Crashes, restart and recoverIncompleteControlActions. *)

QueuedIn(p)  == {queue[p][k].id : k \in 1..Len(queue[p])}

\* The row a goroutine still has to bring forward.
CarriedBy(t) ==
    CASE th[t].pc \in Resting \cup {"seen", "insert_followup"} -> {}
      [] th[t].pc \in {"reset_push", "push_followup"} -> {FollowUp(th[t].id)}
      [] OTHER -> {th[t].id}

\* mel serve stops; SIGTERM and a crash lose the same things.
Crash ==
    /\ phase # "down" /\ crashes < MaxCrashes
    /\ phase' = "down"
    /\ crashes' = crashes + 1
    /\ queue' = [queue EXCEPT ![Server] = <<>>]
    /\ th' = [t \in Threads |-> IF t \in Clis THEN th[t] ELSE At("idle")]
    /\ recovery' = {}
    /\ UNCHANGED <<dbVars, faults, history>>

\* The process ends: normally, or because it is killed.
CliEnds(c) ==
    /\ queue' = [queue EXCEPT ![c] = <<>>]
    /\ th' = [th EXCEPT ![c] = At("idle")]
    /\ lost' = lost \cup QueuedIn(c) \cup CarriedBy(c)
    /\ UNCHANGED <<dbVars, phase, recovery, faults, decision, runs, missed>>

CliExit(c)  == th[c].pc = "exit" /\ CliEnds(c) /\ UNCHANGED crashes
CliCrash(c) == /\ th[c].pc \notin {"idle", "exit"} /\ crashes < MaxCrashes
               /\ CliEnds(c) /\ crashes' = crashes + 1

IncompleteIds == {i \in Ids : Incomplete(row[i])}

\* Start reads the oldest RecoverLimit incomplete rows; if the SELECT fails it closes
\* none of them, says nothing and goes on.
Restart ==
    /\ phase = "down"
    /\ \E batch \in SUBSET IncompleteIds :
          /\ \/ batch = IncompleteIds /\ Cardinality(batch) <= RecoverLimit /\ UNCHANGED faults
             \/ batch # IncompleteIds /\ Cardinality(batch) = RecoverLimit /\ UNCHANGED faults
             \/ batch = {} /\ StatementFails
          /\ recovery' = {Copy(i, row[i]) : i \in batch}
          /\ lost' = lost \cup (IncompleteIds \ batch)
    /\ phase' = "recovering"
    /\ Goto(Executor, "recover")
    /\ UNCHANGED <<dbVars, queue, crashes, decision, runs, missed>>

RecoverRow(c) ==
    /\ th[Executor].pc = "recover"
    /\ c \in recovery
    /\ WriteOrIgnore(c.id, Recovered(c.id, c.rec))
    /\ recovery' = recovery \ {c}
    /\ IF KindOf(c.id) = "restart"
       THEN th' = [th EXCEPT ![Executor] = [At("seen") EXCEPT !.id = c.id]]
       ELSE UNCHANGED th
    /\ UNCHANGED <<hold, queue, phase, crashes, decision, runs, missed>>

StartWorkers ==
    /\ th[Executor].pc = "recover" /\ recovery = {}
    /\ phase' = "up"
    /\ Goto(Executor, "idle")
    /\ UNCHANGED <<dbVars, queue, recovery, faultVars, history>>

-----------------------------------------------------------------------------
(* The clock and the operators: holds come and go, approvals time out. *)

EndHolds(hs) ==
    /\ hold' = [h \in Holds |-> IF h \in hs THEN "over" ELSE hold[h]]
    /\ th' = [t \in Threads |-> [th[t] EXCEPT !.held = @ \ hs]]
    /\ UNCHANGED <<row, queue, phase, recovery, faultVars, history>>

\* CreateFreeze; or the clock reaches a window's starts_at.
BeginHold(h) ==
    /\ hold[h] = "unset"
    /\ hold' = [hold EXCEPT ![h] = "active"]
    /\ UNCHANGED <<row, queue, th, phase, recovery, faultVars, history>>

\* ClearFreeze, CancelMaintenanceWindow; or the clock passes a window's ends_at.
EndHold(h) == hold[h] = "active" /\ EndHolds({h})

\* ExpireOldFreezes: the clock may have passed any of the expiry times.
ExpireOldFreezes ==
    /\ phase = "up"
    /\ \E hs \in SUBSET {h \in Freezes \cap Timed : hold[h] = "active"} :
          hs # {} /\ EndHolds(hs)

\* ExpireStaleApprovalActions, likewise.
ExpireStaleApprovals ==
    \E as \in SUBSET {a \in Actions : Decidable(row[Primary(a)])} :
        /\ as # {} /\ phase = "up"
        /\ row' = [i \in Ids |-> IF IsPrimary(i) /\ i[1] \in as THEN Expired(row[i]) ELSE row[i]]
        /\ decision' = [a \in Actions |-> IF a \in as THEN "expired" ELSE decision[a]]
        /\ UNCHANGED <<hold, queue, th, phase, recovery, faultVars, runs, lost, missed>>

-----------------------------------------------------------------------------
Propose(t) ==
    \/ \E a \in Actions : \/ ProposeDenied(t, a) \/ ProposeBlocked(t, a)
                          \/ ProposeGated(t, a)  \/ ProposeAuto(t, a)
    \/ PushNew(t)
    \/ DropNew(t)

QueueReset(t) ==
    \/ \E a \in Actions : ResetBegin(t, a)
    \/ ResetRow(t) \/ ResetInsert(t) \/ ResetPush(t)

Decide(t) ==
    \/ \E a \in Actions, verb \in Verbs, actor \in Operators, ack \in BOOLEAN :
          Load(t, a, verb, actor, ack)
    \/ Recheck(t) \/ Update(t) \/ Verify(t) \/ MergeRead(t) \/ MergeWrite(t)
    \/ Reload(t) \/ PushApproved(t)

Execute(t) ==
    \/ Dequeue(t) \/ CheckFreeze(t) \/ CheckMaintenance(t) \/ Refuse(t)
    \/ StartAction(t) \/ Act(t) \/ Finish(t)
    \/ SeenFollowUp(t) \/ InsertFollowUp(t) \/ PushFollowUp(t)

Recover == (\E c \in recovery : RecoverRow(c)) \/ StartWorkers

Operate ==
    \/ ExpireOldFreezes
    \/ ExpireStaleApprovals
    \/ \E h \in Holds : BeginHold(h) \/ EndHold(h)

Next ==
    \/ \E t \in Evaluators \cup Handlers : Propose(t)
    \/ \E t \in Evaluators : QueueReset(t)
    \/ \E t \in Handlers : Decide(t)
    \/ \E t \in {Executor} \cup Clis : Execute(t)
    \/ \E c \in Clis : CliExit(c) \/ CliCrash(c)
    \/ Crash \/ Restart \/ Recover
    \/ Operate

Spec == Init /\ [][Next]_vars

\* The executor goroutine is scheduled, and systemd restarts the server (Restart=on-failure).
Fairness == WF_vars(Execute(Executor)) /\ WF_vars(Restart) /\ WF_vars(Recover)

FairSpec == Spec /\ Fairness

-----------------------------------------------------------------------------
(* Properties.  Those marked with a condition are checked, and true, only   *)
(* for constants that satisfy it.                                          *)

\* A gated action's actuator is called only if an operator's guarded UPDATE
\* approved that very action, whatever copies of its row are in flight.
ApprovalGate ==
    \A a \in Gated : runs[Primary(a)] > 0 => decision[a] = "approved"

\* One decision per action: a second approval, a late rejection, the expiry
\* sweep or a row written back whole never reopens or reverses it.
DecisionOnce ==
    [][\A a \in Actions : decision[a] # "none" => decision'[a] = decision[a]]_vars

\* The approver stays on the row through every later whole-row upsert, and a
\* submitter who approved their own action is on record as a bypass.
ApproverOnRecord ==
    \A a \in Actions : decision[a] = "approved" =>
        /\ row[Primary(a)].approvedBy \in Operators
        /\ SodBlocks(a, row[Primary(a)].approvedBy) => row[Primary(a)].sodBypass

\* A freeze or a window that covers an action from its dequeue onward stops it
\* before it is started.  (MaxFaults = 0: a failed read lets the action pass.)
HeldActionNeverStarts ==
    \A t \in Threads : th[t].pc \in {"start", "act", "finish"} => th[t].held = {}

\* While the server is up, a pending or running row is in a queue or in the
\* hands of a goroutine, unless its loss is one the code accepts: a full queue,
\* a failed statement (a write it ignores, or a read or write whose error ends
\* the call or the recovery), a CLI process that ended, more rows in flight at
\* a restart than the recovery reads.  (One approver.)
NoSilentOrphan ==
    phase = "up" =>
        \A i \in Ids \ lost : row[i].lifecycle \in InFlight =>
            \/ \E p \in Processes : i \in QueuedIn(p)
            \/ \E t \in Threads : i \in CarriedBy(t)

\* No actuator is called twice for one row: not by a retry, not after a restart,
\* not for a follow-up that two paths derive.  The exception is the code's: a
\* failed look-up takes an existing follow-up for absent, and the INSERT that
\* follows sets it back to pending.  (One approver, one evaluator, at most one
\* failed statement.)
AtMostOnce == \A i \in Ids : runs[i] <= 1 \/ i \in missed

\* The lifecycle the service promises.  (One approver, one evaluator, no CLI
\* process, MaxFaults = 0.)
Lifecycle == INSTANCE ControlLifecycle
    WITH GatedIds <- {i \in Ids : IsGated(i)},
         state <- [i \in Ids |-> row[i].lifecycle],
         ran <- runs

ImplementsLifecycle == Lifecycle!Spec

\* What the server's executor has been handed is settled: executed, refused,
\* or, if the server goes down, closed by the recovery that follows.
\* (MaxFaults = 0, RecoverLimit at least the number of rows.)
QueuedIsSettled ==
    \A i \in Ids : i \in QueuedIn(Server) ~> row[i].lifecycle \in Terminal

-----------------------------------------------------------------------------
(* The inductive strengthening of ApprovalGate and DecisionOnce.            *)

IsApproved(i) == decision[i[1]] = "approved"

\* A row or a copy that may be written back at any time: it is past its decision,
\* and if it is a gated one that may still run, that decision was an approval.
Sound(i, r) ==
    /\ r.lifecycle \notin {"none", "pending_approval"}
    /\ IsGated(i) /\ r.lifecycle \in InFlight => IsApproved(i)

RowSound(i) ==
    \/ row[i] = NoRow /\ (IsPrimary(i) => decision[i[1]] = "none")
    \/ row[i] = NewPendingApproval /\ IsGated(i) /\ decision[i[1]] = "none"
    \/ Sound(i, row[i])

\* What each goroutine knows of the row it works on.
HoldsCopy  == {"push_new", "reset_row", "merge_write", "push_approved", "refuse", "finish"}
MayExecute == {"freeze", "maintenance", "start", "act"}
HasDecided == {"verify", "merge_read", "reload"}
IsDeciding == {"recheck", "update"}

ThreadSound(s) ==
    /\ s.pc \in HoldsCopy \cup MayExecute => Sound(s.id, s.rec)
    /\ s.pc \in MayExecute /\ IsGated(s.id) => IsApproved(s.id)
    /\ s.pc \in HasDecided => Sound(s.id, row[s.id])
    /\ s.pc \in IsDeciding => row[s.id].lifecycle # "none"

RowsSound == \A i \in Ids : RowSound(i)

QueuesSound ==
    \A p \in Processes : \A k \in 1..Len(queue[p]) : Sound(queue[p][k].id, queue[p][k].rec)

RecoverySound == \A c \in recovery : Sound(c.id, c.rec)

ThreadsSound == \A t \in Threads : ThreadSound(th[t])

GateInvariant ==
    RowsSound /\ QueuesSound /\ RecoverySound /\ ThreadsSound /\ ApprovalGate

-----------------------------------------------------------------------------
(* What a document says and the code does not do: TLC finds it violated.    *)

\* "Approving a completed or running action is a no-op", so two operators who
\* approve the same action execute it once.
ApprovedTwiceRunsOnce == \A a \in Gated : runs[Primary(a)] <= 1
=============================================================================
