-------------------------- MODULE ControlEvaluate --------------------------
(***************************************************************************)
(* How MEL decides, from the rows of control_actions, which actions to     *)
(* propose: the conflict, cooldown and budget checks of control.Evaluate,  *)
(* evaluateControl that stores and queues what passed them, and the        *)
(* executor that turns rows into the history the next evaluation reads.    *)
(*                                                                         *)
(* Sources: internal/control/control.go (Evaluate and its checks),         *)
(* internal/service/control.go (evaluateControl, executeControlAction),    *)
(* internal/db/control.go (ControlActions).                                *)
(*                                                                         *)
(* The intelligence worker evaluates at every tick, and every executed     *)
(* health recheck starts one more evaluation in a goroutine of its own.    *)
(* An evaluation reads before it writes, each read and each write is a     *)
(* statement of its own, and nothing keeps evaluations apart.  Approval,   *)
(* holds and recovery are ControlPlane's: here a gated row is approved or   *)
(* declined in one step, and a hold refuses whatever it likes.             *)
(***************************************************************************)
EXTENDS Naturals, Sequences, FiniteSets

CONSTANTS
    Evaluators,        \* goroutines in evaluateControl: the worker and those rechecks start
    Worker,            \* the intelligence worker among them
    Candidates,        \* what the state of the mesh may suggest: type, target and rule
    Meshes,            \* states of the mesh: the sets of candidates an evaluation may find in it
    Targets,           \* transports
    NoTarget,          \* the target_transport of an action on a segment
    Gated,             \* candidates that resolveExecutionMode holds for approval
    Doubtful,          \* candidates that configuration, evidence or a hold may deny
    MaxActions,        \* max_actions_per_window, after its cap: one for each of Meshes
    RestartCap,        \* restart_cap_per_window, 0 for none
    Window,            \* action_window_seconds
    CooldownPerTarget, \* cooldown_per_target_seconds as configured
    MinCooldown,       \* MinCooldownPerTargetSecs
    Lifetime,          \* how long an expiring action lasts
    ActiveLimit,       \* rows the query for active actions returns at most
    HistoryLimit,      \* rows the cooldown query returns at most
    BudgetSlack,       \* rows the budget query returns above MaxActions
    QueueSize,         \* capacity of controlQueue
    MaxRows, MaxNow    \* bounds of the model, by the mesh: rows ever stored; seconds

Types == {"restart", "resubscribe", "backoff_increase", "backoff_reset", "recheck"}
Expiring == {"backoff_increase"}
Rules == {c.rule : c \in Candidates} \cup {"reset", "followup"}
Wishes == [type : Types, target : Targets \cup {NoTarget}, rule : Rules]

ASSUME EvaluateAssumption ==
    /\ Worker \in Evaluators /\ IsFiniteSet(Evaluators)
    /\ "executor" \notin Evaluators /\ "reset" \notin Evaluators
    /\ Candidates \subseteq Wishes /\ IsFiniteSet(Candidates)
    /\ Meshes \subseteq SUBSET SUBSET Candidates
    /\ MaxRows \in [Meshes -> Nat] /\ MaxNow \in [Meshes -> Nat]
    /\ Gated \subseteq Candidates /\ Doubtful \subseteq Candidates
    /\ NoTarget \notin Targets
    /\ MaxActions \in [Meshes -> Nat]
    /\ \A n \in {RestartCap, Window, CooldownPerTarget, MinCooldown, Lifetime,
                 ActiveLimit, HistoryLimit, BudgetSlack, QueueSize} : n \in Nat

\* PolicyFromConfig raises a cooldown that is on but too short.
Cooldown ==
    IF CooldownPerTarget > 0 /\ CooldownPerTarget < MinCooldown
    THEN MinCooldown ELSE CooldownPerTarget

VARIABLES
    mesh,   \* the state of the mesh, which evaluations look at and nothing here changes
    now,    \* the clock, in seconds
    rows,   \* control_actions in order of insertion; a row's id is its place
    queue,  \* controlQueue, ids
    pass,   \* what each evaluator is at
    exec    \* what the executor is at

evalVars == <<mesh, now, rows, queue, pass, exec>>

Times == 0 .. MaxNow[mesh]
States == {"held", "pending", "running", "executed", "failed", "denied"}

\* wish is what the row asks for, at its created_at, done its completed_at.  Only the properties
\* read the last two: put is the second in which the outcome was in the table, by the evaluator
\* that proposed the row, or "executor" and "reset" for follow-ups.
Row == [wish : Wishes, at : Times, state : States, done : Times, reverted : BOOLEAN,
        put : Times, by : Evaluators \cup {"executor", "reset"}]

Decision == [wish : Candidates, allowed : BOOLEAN]

\* at is the second the evaluation is about.  blocked, hot and known are what its reads told it:
\* candidates in conflict, targets that cool down, targets whose history it knows.
Idle == [pc |-> "idle", at |-> 0, todo |-> {}, blocked |-> {}, hot |-> {}, known |-> {},
         decided |-> {}, id |-> 0]

\* clock is what the executor last read of the time, for the row it is about to store.
NoWork == [pc |-> "idle", id |-> 0, clock |-> 0]

EvalTypeOK ==
    /\ mesh \in Meshes
    /\ now \in Times
    /\ rows \in Seq(Row) /\ Len(rows) <= MaxRows[mesh]
    /\ queue \in Seq(DOMAIN rows) /\ Len(queue) <= QueueSize
    /\ pass \in [Evaluators ->
                   [pc : {"idle", "active", "judge", "write", "push"}, at : Times,
                    todo : SUBSET Candidates, blocked : SUBSET Candidates,
                    hot : SUBSET Targets, known : SUBSET Targets,
                    decided : SUBSET Decision, id : DOMAIN rows \cup {0}]]
    /\ exec \in [pc : {"idle", "act", "finish", "store", "follow", "insert"},
                 id : DOMAIN rows \cup {0}, clock : Times]

EvalInit ==
    /\ mesh \in Meshes
    /\ now = 0
    /\ rows = <<>>
    /\ queue = <<>>
    /\ pass = [e \in Evaluators |-> Idle]
    /\ exec = NoWork

-----------------------------------------------------------------------------
(* What a query returns: of the rows created at or after a second, the newest *)
(* few.  Rows of one second come in any order.                               *)

Newest(S, k) ==
    {T \in SUBSET S :
        /\ Cardinality(T) <= k
        /\ Cardinality(T) < k => T = S
        /\ \A i \in T, j \in S \ T : rows[i].at >= rows[j].at}

Since(t) == {i \in DOMAIN rows : rows[i].at >= t}

Before(t, d) == IF t >= d THEN t - d ELSE 0

Executed(i) == rows[i].state = "executed"

InFlight(i) == rows[i].state \in {"pending", "running"}

\* isEffectivelyActive: only rows with an expiry are stored as reversible.
Effective(i, t) ==
    Executed(i) /\ rows[i].wish.type \in Expiring /\ t < rows[i].at + Lifetime

\* conflictingActiveAction: a row without a target conflicts on any, and a restart stands in the
\* way of a resubscription but not the other way round.
ConflictsBug(active, w, t) ==
    \E i \in active :
        /\ rows[i].wish.target \in {NoTarget, w.target}
        /\ rows[i].wish.type = w.type
        /\ rows[i].state = "running" \/ Effective(i, t)

Conflicts(active, w, t) ==
    \E i \in active :
        /\ rows[i].wish.target \in {NoTarget, w.target}
        /\ \/ rows[i].wish.type = w.type
           \/ rows[i].wish.type = "restart" /\ w.type = "resubscribe"
        /\ InFlight(i) \/ Effective(i, t)

\* cooldownSatisfied: of the rows it was given, none was completed less than a cooldown ago.
CooledDownBug(history, t) == \A i \in history : Executed(i) => t >= rows[i].at + Cooldown

CooledDown(history, t) == \A i \in history : Executed(i) => t >= rows[i].done + Cooldown

Budget == MaxActions[mesh]

\* budgetSatisfied counts what was executed among the rows it was given.
WithinBudgetBug(seen, w) ==
    Budget > 0 => Cardinality({i \in seen : InFlight(i)}) < Budget

WithinBudget(seen, w) ==
    LET executed == {i \in seen : Executed(i)}
    IN  /\ Budget > 0 => Cardinality(executed) < Budget
        /\ Budget > 0 /\ w.type = "restart" /\ RestartCap > 0 =>
               Cardinality({i \in executed : rows[i].wish.type = "restart"}) < RestartCap

-----------------------------------------------------------------------------
(* One evaluation: evaluateControl(now). *)

At(e, pc) == pass[e].pc = pc

Begin(e) == pass' = [pass EXCEPT ![e] = [Idle EXCEPT !.pc = "active", !.at = now]]

\* The worker's tick.
Tick ==
    /\ At(Worker, "idle")
    /\ Begin(Worker)
    /\ UNCHANGED <<mesh, now, rows, queue, exec>>

\* Evaluate looks at the mesh and reads the actions of the window.
ReadActive(e) ==
    /\ At(e, "active")
    /\ \E wishes \in mesh, active \in Newest(Since(Before(pass[e].at, Window)), ActiveLimit) :
           pass' = [pass EXCEPT ![e].pc = IF wishes = {} THEN "write" ELSE "judge", ![e].todo = wishes,
                                ![e].blocked = {w \in wishes : Conflicts(active, w, pass[e].at)}]
    /\ UNCHANGED <<mesh, now, rows, queue, exec>>

\* The cooldown query, made once per target and evaluation (historyCache).
ReadHistory(e, t) ==
    /\ At(e, "judge")
    /\ t \notin pass[e].known
    /\ \E w \in pass[e].todo : w.target = t
    /\ \E S \in Newest({i \in Since(Before(pass[e].at, Cooldown)) : rows[i].wish.target = t}, HistoryLimit) :
           pass' = [pass EXCEPT ![e].known = @ \cup {t},
                                ![e].hot = IF CooledDown(S, pass[e].at) THEN @ ELSE @ \cup {t}]
    /\ UNCHANGED <<mesh, now, rows, queue, exec>>

\* What configuration, policy, confidence, evidence, attribution or a hold say of a candidate.
Verdicts(w) == IF w \in Doubtful THEN BOOLEAN ELSE {TRUE}

\* The budget query and determineDenial.  All decisions are taken before the first is stored.
Judge(e, w) ==
    /\ At(e, "judge")
    /\ w \in pass[e].todo
    /\ w.target \in pass[e].known \cup {NoTarget}
    /\ \E fit \in Verdicts(w), seen \in Newest(Since(Before(pass[e].at, Window)), Budget + BudgetSlack) :
           LET allowed == /\ fit
                          /\ w.target \notin pass[e].hot
                          /\ WithinBudget(seen, w)
                          /\ w \notin pass[e].blocked
               decided == pass[e].decided \cup {[wish |-> w, allowed |-> allowed]}
           IN  pass' = IF pass[e].todo = {w}
                       THEN [pass EXCEPT ![e] = [Idle EXCEPT !.pc = "write", !.at = pass[e].at,
                                                             !.decided = decided]]
                       ELSE [pass EXCEPT ![e].todo = @ \ {w}, ![e].decided = decided]
    /\ UNCHANGED <<mesh, now, rows, queue, exec>>

NewRow(w, t, state, by) ==
    [wish |-> w, at |-> t, state |-> state, done |-> IF state = "denied" THEN t ELSE 0,
     reverted |-> FALSE, put |-> 0, by |-> by]

Room == Len(rows) < MaxRows[mesh]

\* A decision is stored: as denied, by the checks or by a hold, as waiting for approval, or as
\* pending, and then pushed.
Store(e, d) ==
    /\ At(e, "write")
    /\ d \in pass[e].decided
    /\ Room
    /\ \E free \in Verdicts(d.wish) :
           LET state == IF ~d.allowed \/ ~free THEN "denied"
                        ELSE IF d.wish \in Gated THEN "held" ELSE "pending"
           IN
           /\ rows' = Append(rows, NewRow(d.wish, pass[e].at, state, e))
           /\ pass' = [pass EXCEPT ![e].decided = @ \ {d},
                                   ![e].pc = IF state = "pending" THEN "push" ELSE "write",
                                   ![e].id = IF state = "pending" THEN Len(rows) + 1 ELSE 0]
    /\ UNCHANGED <<mesh, now, queue, exec>>

PushBug(e) ==
    /\ At(e, "push")
    /\ queue' = Append(queue, pass[e].id)
    /\ pass' = [pass EXCEPT ![e].pc = "write", ![e].id = 0]
    /\ UNCHANGED <<mesh, now, rows, exec>>

Push(e) ==
    /\ At(e, "push")
    /\ Len(queue) < QueueSize
    /\ queue' = Append(queue, pass[e].id)
    /\ pass' = [pass EXCEPT ![e].pc = "write", ![e].id = 0]
    /\ UNCHANGED <<mesh, now, rows, exec>>

\* The queue is full: the row is closed as failed.
Drop(e) ==
    /\ At(e, "push")
    /\ Len(queue) = QueueSize
    /\ rows' = [rows EXCEPT ![pass[e].id].state = "failed", ![pass[e].id].done = pass[e].at]
    /\ pass' = [pass EXCEPT ![e].pc = "write", ![e].id = 0]
    /\ UNCHANGED <<mesh, now, queue, exec>>

\* A follow-up is pushed if there is room; its row is pending either way.
PushFollowUp(i) ==
    queue' = IF Len(queue) < QueueSize THEN Append(queue, i) ELSE queue

\* queueRecoveryActions, whose statements ControlPlane takes one by one: an expired action is
\* marked as reverted and its reset stored and pushed.
Revert(e, i) ==
    /\ At(e, "write") /\ pass[e].decided = {}
    /\ Executed(i) /\ ~rows[i].reverted
    /\ rows[i].wish.type \in Expiring /\ pass[e].at >= rows[i].at + Lifetime
    /\ Room
    /\ rows' = Append([rows EXCEPT ![i].reverted = TRUE],
                      NewRow([type |-> "backoff_reset", target |-> rows[i].wish.target, rule |-> "reset"],
                             pass[e].at, "pending", "reset"))
    /\ PushFollowUp(Len(rows) + 1)
    /\ UNCHANGED <<mesh, now, pass, exec>>

EndPass(e) ==
    /\ At(e, "write")
    /\ pass[e].decided = {}
    /\ pass' = [pass EXCEPT ![e] = Idle]
    /\ UNCHANGED <<mesh, now, rows, queue, exec>>

-----------------------------------------------------------------------------
(* What happens to a stored row: ControlPlane in short. *)

\* An operator approves, or declines, or lets the approval expire.
Approve(i) ==
    /\ rows[i].state = "held"
    /\ \/ /\ Len(queue) < QueueSize
          /\ rows' = [rows EXCEPT ![i].state = "pending"]
          /\ queue' = Append(queue, i)
       \/ /\ rows' = [rows EXCEPT ![i].state = "denied", ![i].done = now]
          /\ UNCHANGED queue
    /\ UNCHANGED <<mesh, now, pass, exec>>

\* controlExecutor takes the next action and marks it running, unless a hold refuses it.
Start ==
    /\ exec.pc = "idle"
    /\ queue # <<>>
    /\ queue' = Tail(queue)
    /\ \E free \in Verdicts(rows[Head(queue)].wish) :
           LET state == IF free THEN "running" ELSE "denied"
           IN
           /\ rows' = [rows EXCEPT ![Head(queue)].state = state,
                                   ![Head(queue)].done = IF state = "denied" THEN now ELSE @]
           /\ exec' = IF state = "running" THEN [NoWork EXCEPT !.pc = "act", !.id = Head(queue)] ELSE NoWork
    /\ UNCHANGED <<mesh, now, pass>>

\* The actuator.  A recheck is a goroutine that evaluates at once, beside the executor.
Act ==
    /\ exec.pc = "act"
    /\ IF rows[exec.id].wish.type = "recheck"
       THEN \E e \in Evaluators \ {Worker} : At(e, "idle") /\ Begin(e)
       ELSE UNCHANGED pass
    /\ exec' = [exec EXCEPT !.pc = "finish"]
    /\ UNCHANGED <<mesh, now, rows, queue>>

\* The clock is read for the outcome's completed_at, or for the created_at of a follow-up.  The
\* statement that stores it is another process, which may wait for the database: until it is done
\* evaluations see the row as it was.
ReadClock ==
    /\ exec.pc \in {"finish", "follow"}
    /\ exec' = [exec EXCEPT !.pc = IF @ = "finish" THEN "store" ELSE "insert", !.clock = now]
    /\ UNCHANGED <<mesh, now, rows, queue, pass>>

\* The outcome is stored.
Finish ==
    /\ exec.pc = "store"
    /\ \E state \in {"executed", "failed"} :
           /\ rows' = [rows EXCEPT ![exec.id].state = state, ![exec.id].done = exec.clock,
                                   ![exec.id].put = now]
           /\ exec' = IF state = "executed" /\ rows[exec.id].wish.type \in {"restart", "resubscribe"}
                      THEN [exec EXCEPT !.pc = "follow"] ELSE NoWork
    /\ UNCHANGED <<mesh, now, queue, pass>>

\* enqueueHealthRecheckFollowup.
Recheck ==
    /\ exec.pc = "insert"
    /\ Room
    /\ rows' = Append(rows, NewRow([type |-> "recheck", target |-> rows[exec.id].wish.target,
                                    rule |-> "followup"], exec.clock, "pending", "executor"))
    /\ PushFollowUp(Len(rows) + 1)
    /\ exec' = NoWork
    /\ UNCHANGED <<mesh, now, pass>>

Pass ==
    /\ now < MaxNow[mesh]
    /\ now' = now + 1
    /\ UNCHANGED <<mesh, rows, queue, pass, exec>>

EvalNext ==
    \/ Tick
    \/ \E e \in Evaluators :
          \/ ReadActive(e)
          \/ \E t \in Targets : ReadHistory(e, t)
          \/ \E w \in Candidates : Judge(e, w)
          \/ \E d \in Decision : Store(e, d)
          \/ Push(e)
          \/ Drop(e)
          \/ \E i \in DOMAIN rows : Revert(e, i)
          \/ EndPass(e)
    \/ \E i \in DOMAIN rows : Approve(i)
    \/ Start
    \/ Act
    \/ ReadClock
    \/ Finish
    \/ Recheck
    \/ Pass

EvalSpec == EvalInit /\ [][EvalNext]_evalVars

-----------------------------------------------------------------------------
(* Properties.  They hold while the queries return every row they ask for;  *)
(* a LIMIT that cuts rows off lets more through than BudgetOverrun allows.  *)

\* Rows of candidates that need no approval.
Automatic(i) == rows[i].by \in Evaluators /\ rows[i].wish \notin Gated

\* However evaluations, the executor and the clock interleave, no evaluator has two actions of
\* one candidate in flight, unless the older has dropped out of the window the conflict check reads
\* (conflictingActiveAction over a list read before anything is written).
OneInFlightEach ==
    \A i, j \in DOMAIN rows :
        /\ i < j
        /\ Automatic(i) /\ InFlight(i) /\ InFlight(j)
        /\ rows[i].by = rows[j].by /\ rows[i].wish = rows[j].wish
        => rows[j].at > rows[i].at + Window

\* The budget is checked long before an action counts against it, yet it is overrun by no more
\* than what all evaluators may have in flight together (budgetSatisfied).
BudgetOverrun ==
    Budget > 0 =>
        Cardinality({i \in Since(Before(now, Window)) : Automatic(i) /\ Executed(i)})
            < Budget + Cardinality(Evaluators) * Cardinality(Candidates \ Gated)

\* No action is proposed on a target within the cooldown of another that was completed on it,
\* even when evaluations overlap.  The other's outcome must have been in the table when the
\* evaluation began: completed_at is fixed before, and an evaluation in between finds the action
\* running and the cooldown satisfied.  And the other must have been created within the cooldown:
\* an older row is not in the list that cooldownSatisfied reads, however recently it was completed.
CooldownKept ==
    \A i, j \in DOMAIN rows :
        /\ rows[i].wish.target = rows[j].wish.target /\ rows[i].wish.target # NoTarget
        /\ Executed(i)
        /\ rows[j].by \in Evaluators /\ rows[j].state # "denied"
        /\ rows[i].put < rows[j].at
        /\ rows[i].at + Cooldown >= rows[j].at
        => rows[j].at >= rows[i].done + Cooldown
=============================================================================
