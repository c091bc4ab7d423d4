# A TLA+ model of MEL (Mesh Edge Layer)

MEL is a Go service that listens to Meshtastic radios and MQTT brokers, keeps
what it hears in SQLite, judges the health of its transports, and proposes,
gates and executes *control actions* on them under operator supervision.  This
directory specifies the parts of it in which order, concurrency and failure
decide whether it is right.

Paths below are relative to the repository; `internal/service/control.go` is
`src/internal/service/control.go` in `PROJECT.json`.

## 1. How MEL runs

* `mel serve` is one process.  `App.Start` (internal/service/app.go) runs start-up
  recovery and then a dozen goroutines: one per transport, ingest and observation
  workers, one *control executor*, an intelligence worker that evaluates control,
  a trust clean-up worker, the HTTP server.  They share in-memory channels
  (control queue, ingest queue, observation queue), an event bus and a database.
* `mel action ...` and `mel control ...` (cmd/mel/main.go) open the same database in a
  process of their own, build the same `App`, call the same handlers, and exit.
* **Every database call is a `sqlite3` child process** (internal/db/db.go
  `Exec`, `QueryRows`).  A statement is atomic; nothing spans two statements, and no Go
  mutex is held around a read and the write that follows it.  This is the one
  fact the models lean on most: one step of a model is one statement, one
  channel operation, one lock-protected section or one actuator call.

## 2. Inventory

| component | state | operations | hard because | right when |
|---|---|---|---|---|
| **control plane**: service/control.go, trust.go, operator_control_action.go, db/trust.go, db/control.go | control_actions, freezes, maintenance windows, the control queue | propose, approve, reject, expire, execute, follow up, recover | whole-row upserts of stale copies, two processes, bounded queue, crashes | nothing gated runs unapproved; one decision; at most one execution; nothing handed over is forgotten |
| **control evaluation**: control/control.go `Evaluate`, service/control.go `evaluateControl` | none (reads control_actions) | candidates, denial reasons: conflict, cooldown, budget | concurrent evaluators read before either writes; windows over a clock, LIMITs | one action of a kind in flight; budgets overrun by a bound; cooldowns hold |
| **transport loop**: service/app.go `runTransport`, transportControlState | backoff factor, deprioritised and suppressed marks, health | connect, subscribe, retry, restart on request | control requests race with the loop | a restart is not lost; backoff bounded |
| **transports**: transport/direct.go, mqtt.go, transport.go | connection, health counters | connect, read, ping, ack | deadlines, reconnects, health written by two goroutines | health tells the truth |
| **ingest**: service/app.go | ingest and observation queues, dead letters, dedup hashes | enqueue, ingest, observe | full queues drop | a message stored once, a drop recorded |
| **event bus**: events/bus.go | subscribers' channels | subscribe, publish | drops on a full subscriber | publish never blocks |
| **incidents**: service/app.go `escalateToIncident`, incident_*.go | incidents | raise, reopen, resolve, workflow | read, then upsert | a resolved incident is reopened once |
| **alerts**: service/alerts.go, db/transport_intelligence.go | transport_alerts, transport_health_snapshots | evaluate: read, derive, upsert, resolve, take a snapshot | evaluations overlap; cooldowns and durations over a clock | no flapping; nothing left active; what holds is alerted in the end |
| **kernel**: kernel/*.go | node and region scores, freezes, policy, last sequence | apply, copy state, restore (no caller) | concurrent appliers | state is a function of the log |
| **event log**: eventlog/eventlog.go | table kernel_event_log, counter | append, batch (no caller), query, compact, recover the counter | sequence consumed before the insert | a number names one event for ever |
| **kernel durability, backpressure, coordination**: kernel/*.go | action tokens, pending count, rate window | acquire, release, clean up (no callers), admit, release | clocks, check-then-act | one holder; a bound on what is pending |
| **kernel bridge**: service/kernel_bridge.go | snapshot counter | ingest event, dispatch effects, take snapshot, compact | append and apply are two steps | snapshots match the log |
| **federation**: federation/*.go | peers, dedup set, sync positions, split-brain flag | heartbeat, notify, pull, serve, ingest, check partitions, limit autonomous actions | partial batches, concurrent pulls | every event reaches every peer, once |
| **regions, replay, snapshots, consistency**: region, replay, snapshot, consistency | region health, replay runs, snapshots, mismatches | mostly pure computation over the log | - | replay equals the run it replays |
| **retention, backup, upgrade** | tables, archives, migrations | delete old rows, bundle, migrate | deletes beside inserts | evidence outlives its need |
| **integration dispatch**: service/integration_dispatch.go, integration/ | delivery attempts | post, retry | timeouts | at most the configured attempts |
| **self-observation**: selfobs/ | healing strategies, SLOs | observe, heal | cooldowns | no healing loop |
| **status, fleet, investigation, mesh intelligence, simulation, planning, proof packs, diagnostics** | none of their own | reports over the tables | - | outside the scope: pure reading |
| **config, auth, web, CLI, frontend, site** | configuration, sessions | parse, authorise, present | - | outside the scope, but for the calls they make into the above |

## 3. The modules

| module | what it is | composed of |
|---|---|---|
| `ControlRows` | a row of control_actions and the decisions taken over it, as operators | |
| `ControlPlane` | goroutines, CLI processes, queues and crashes around those rows; the properties and their inductive strengthening | extends `ControlRows` |
| `ControlLifecycle` | the abstract lifecycle of one action | implemented by `ControlPlane` |
| `ControlEvaluate` | which actions are proposed at all: conflict, cooldown and budget checks of overlapping evaluations | |
| `Transport` | the reconnect loop, its socket, the executor's restart, the ingest workers, the event bus | |
| `Incidents` | the bus's consumer, dead letters, incidents and the operators who work on them | extends `Transport` |
| `Alerts` | the alerts of one transport: raised, held back, resolved | |
| `EventLog` | the event log as a value: numbering, storing, paging, compacting, reopening | |
| `Federation` | nodes with an event log, a kernel and a federation manager each, that pull from each other | uses `EventLog` |
| `Replication` | what federation promises, without logs or messages | implemented by `Federation` |
| `Partition` | heartbeats, split-brain detection and the limit on autonomous actions, seen from one node | |
| `MCControlPlane`, `MCControlEvaluate`, `MCAlerts`, `MCIncidents`, `MCFederation`, `MCPartition` | constants for TLC | |
| `ControlPlaneProofs` | the theorems on types, gate, decisions and holds | extends `ControlPlane` |
| `ControlCarriersProofs` | the theorem on orphans: who carries a row forward | extends `ControlPlaneProofs` |
| `ControlOnceProofs` | the theorems that no row runs twice and that `ControlLifecycle` is implemented: who may come to run a row, and what they know of it | extends `ControlCarriersProofs` |
| `ControlEvaluateProofs`, `AlertsProofs`, `IncidentsProofs`, `FederationProofs`, `PartitionProofs` | the theorems on the other components | extend the modules they are named for |

The two halves of the control plane meet in the rows: `ControlPlane` takes the verdict of an evaluation as any its
guards allow and follows one row through every statement; `ControlEvaluate` takes what becomes of a stored
row in few steps and follows the checks through clock and history.  `Transport` has the restart whose
approval and queueing are `ControlPlane`'s.  `Partition` has the heartbeats whose content `Federation` uses
as announcements.

### 3.1 The control plane

*State.* `row` is the table: per action and per follow-up a record of
lifecycle_state, result, closure_state, approved_by and sod_bypass, the fields the
code decides on.  `hold` is both the freezes and the maintenance windows, `Covers`
their scopes.  `queue` is one `controlQueue` per process, of *copies* of rows.
`th` is where each goroutine is, with the copy it read.  `phase` and `recovery` are the
server's life: down, recovering rows, up.  `decision`, `runs`, `lost` (rows a failure left
with nobody to bring them forward) and `missed` (follow-ups a failed look-up took for absent) are
history variables: no action reads them.

*Actions.* A handler is as many actions as it has statements:

| code | actions |
|---|---|
| `evaluateControl`, `QueueOperatorControlAction` | ProposeDenied, ProposeBlocked, ProposeGated, ProposeAuto; PushNew, DropNew |
| `queueRecoveryActions` | ResetBegin, ResetRow, ResetInsert, ResetPush |
| `ApproveActionWithOpts`, `RejectActionWithOpts` | Load, Recheck, Update, Verify, MergeRead, MergeWrite, Reload, PushApproved |
| `controlExecutor`, `executeControlAction` | Dequeue, CheckFreeze, CheckMaintenance, Refuse, StartAction, Act, Finish |
| `enqueueHealthRecheckFollowup` | SeenFollowUp, InsertFollowUp, PushFollowUp |
| `Start`, `recoverIncompleteControlActions` | Restart, RecoverRow, StartWorkers |
| end of a process | Crash, CliExit, CliCrash |
| the clock and the operators | BeginHold, EndHold, ExpireOldFreezes, ExpireStaleApprovals |

*Failures.* Any statement may fail, a read as well as a write, and what the code makes of it depends on the place:

| the code | in the model | at |
|---|---|---|
| leaves the call; no row is left behind | `StatementFails /\ Leave` | Recheck, Update, InsertFollowUp; first reads, which a call that is never made covers |
| leaves the call, after a decision or a dequeue that stands | `EndsCall`: the row is `lost` | Verify, MergeRead, MergeWrite, Reload, StartAction |
| goes on as if the write had been done | `WriteOrIgnore` | DropNew, ResetRow, ResetInsert, Refuse, Finish, RecoverRow |
| takes the row for absent | `LookUpFails` | ResetBegin, SeenFollowUp |
| takes the hold for absent (fail-open, by design) | `PassesHolds`, CheckFreeze, CheckMaintenance | a proposal, the executor |
| recovers nothing and comes up | `Restart` with an empty batch | `IncompleteControlActions` |

*Abstractions.* Action types are four kinds: `restart` (wants a recheck),
`backoff_increase` (may be reset), `plain`, `advisory` (refused by the executor; the runs have the first
two, the proofs all four).
Time is nondeterministic: a timed hold, an approval or a backoff window may be
over whenever its sweep runs.  Denials by control.Evaluate are a choice.  Audit, timeline,
evidence and metadata rows, which nothing here reads, are left out; the
metadata merge is there for its whole-row write.  The reads that choose a new
row's first state are one step with its INSERT: its random id is known to nobody else.

### 3.2 Runs

| run | instance | shows |
|---|---|---|
| `single` | 2 actions (one gated restart by an operator, one automatic backoff increase), evaluator, one HTTP handler, a timed freeze, a scoped window, queue of 1, one crash | the gate, the holds and orphans, the refinement of `ControlLifecycle` and, under `FairSpec`, `QueuedIsSettled`: what reaches the server's queue is executed, refused or closed by recovery |
| `cli` | a CLI process that queues, approves, drains and may be killed beside the server's evaluator and expiry sweep; a gated restart, an automatic backoff increase, a window, two crashes, any one read or write may fail, recovery closes one row at a time | `DecisionOnce` and `ApproverOnRecord`: one decision is taken and its author stays on the row; at most one execution, but of a follow-up that a failed look-up took for absent, and no unexplained orphan survive two processes and a failure |
| `bad_twice` | two handlers, queue of 2 | an action approved twice at once runs twice |

`bad_twice` checks what docs/ops/CONTROL_PLANE_TRUST.md says and the code does not do; it is a finding in
`PROJECT.json` with the line quoted.  A second disagreement is read off the same schedule and has no run: the
handler whose UPDATE decided nothing still answers success to its operator (service/trust.go 411, db/trust.go 150), so
that an operator can be told that an action was approved that the expiry sweep had closed.

Two handlers that decide at once are in `bad_twice`; that their decisions are final, gated and signed is proved for any
number of them (3.3).

`AtMostOnce` needs no mention in `single`: the refinement implies it there.

*Conditions.* `AtMostOnce` and the refinement need one approver and one evaluator at a time, `NoSilentOrphan` one
approver.  The refinement needs a server that is alone with its database besides: the copy in a CLI process's queue outlives the
row's recovery by a restarted server, and would take it from recovered to running.
`bad_twice` shows why one approver; of two evaluators that read the same ripe
backoff increase, the slower one upserts the `-reset` row back to pending after it completed, and it runs
again.  The refinement is checked without statement faults because `queueRecoveryActions` ignores a
failed INSERT of the reset row and runs an action that has no row.  `HeldActionNeverStarts` is checked
without faults because a failed read of the holds lets the action pass, by design, and it is about the
holds the executor read: a freeze that begins between that read and the actuator's call does not stop it.
`NoSilentOrphan` names the rows that are left behind, and the code does leave them: whose push met a full queue; whose
statement failed; whose CLI process ended; which a recovery did not read.  They stay as they are until the next restart closes them.
A failed read is enough: if the read after the guarded UPDATE (db/trust.go 181), the merge's (service/trust.go 70) or the reload
(398) fails, the operator gets an error, the row is approved, pending and in no queue; if the read of the rows in flight fails
(service/control.go 450), the server comes up with all of them unrecovered.

`AtMostOnce` excepts one row: `seenControlAction` answers a failed read with "not seen" (service/control.go 482), so that a follow-up that
was executed is upserted back to pending, pushed and executed again.  In the `cli` run the property is violated without that
exception: a CLI process writes its start over the row that recovery closed and is killed, the second restart recovers the row again, and the failed
look-up sends out the recheck a second time.  `AtMostOnce` needs at most one failed statement: with two, the write that
closes a ripe backoff increase and the INSERT of its reset may both fail, queueRecoveryActions pushes the reset all the same, and
the next evaluation, which sees a ripe increase and no reset row, pushes it again.

*Bounds.* Two actions give every pair of kinds that interact through the queue, and each has its
follow-up, so there are four rows.  A queue of 1 is full as soon as one copy waits.
`RecoverLimit` 5 is above the number of rows, 1 below it.  In `single` one crash suffices: a restart forgets all but the
table.  `cli` has two, because a row that one recovery closed is in flight again only when a CLI process writes it back and is killed in turn.  All runs
allow the system to stop: actions and holds are finite, so a quiet state is the normal end.

*Fairness.* `FairSpec` has weak fairness of the executor goroutine (it loops on the queue; the
Go scheduler runs it), of Restart (systemd: `Restart=on-failure`, docs/ops/systemd) and of the
recovery in `Start`, which is straight-line code.  Operators, evaluators and the clock have none.

### 3.3 Proofs of the control plane

`ControlPlaneProofs` proves, for every set of actions, operators, evaluators, handlers, CLI
processes and holds, every queue capacity and every number of crashes and faults:

* `TypeCorrect`: `Spec => []TypeOK`.
* `GateHolds`: `Spec => []GateInvariant`.
* `ApprovalGateHolds`: `Spec => []ApprovalGate`.
* `DecisionIsFinal`: `Spec => DecisionOnce`.
* `ApproverStays`: `Spec => []ApproverOnRecord`.
* `HeldNeverStarts`: `Spec => []HeldActionNeverStarts`, for `MaxFaults = 0` (a failed read of the holds lets the action pass).

`ApprovalGate` is not inductive: an unapproved *copy* in a queue or in a goroutine's hands would
break it two steps later.  `GateInvariant` says that whatever may be written back or run is
*sound*: past its decision, and, if it is gated and still in flight, approved.  A row is
unborn and undecided, waiting and undecided, or sound; every queued copy and every row start-up recovery
read is sound; a goroutine knows of its row what its program counter says it has checked.  Copies
stay sound because a decision, once taken, is never taken back (`DecisionKept`), and that
holds because both the guarded UPDATE and the sweep only touch rows in pending_approval, which no
sound copy can restore.  The lemmas follow that argument: `SoundKept`, `KeptSound`
(queues, recovery, history), `StaySound` and `OthersSound` (goroutines), `WriteSound`,
`PushSound`, `DecideSound`; `QuietStep` combines them for the actions that only move one goroutine.
The assumptions are those of `ControlRows` and `ControlPlane` (distinct goroutines, gated actions are
actions, a queue of at least one slot).

`ApproverOnRecord` needs more than soundness: the approver is lost if a copy read before the decision is written back after it.
`SignedInvariant` says that every copy of a gated action that may be written back, in a queue, in the hands of a
goroutine or read by recovery, was read after the decision and, if that was an approval, names the approver; that a
handler about to decide has passed the check on the submitter; and that a row nobody decided was never executed, which is what
keeps it decidable.  `HeldNeverStarts` rests on `HoldsRespected`: the holds a goroutine has been under since its dequeue
are still in force and cover its row, and it passes neither check while there is one.

`ControlCarriersProofs` proves `NoRowIsOrphaned`: `Spec => []NoSilentOrphan`, for one approver (`OneApprover`) and any number of everything
else.  `CoverInvariant` says that a pending or running row that is not lost is in a live queue, in a goroutine's hands, or, while the
server is not up, for recovery to close.  Its step needs to know that no copy written back reopens a row whose carrier is gone:
A failed statement loses the row of the goroutine it stops (`EndsCall`), or, on a restart, all that recovery did not read.
`HonestInvariant` says what the copies say (one on its way to the actuator is in flight, a closing write closes, a row that ran
is completed), and that a handler that rejects does not meet an approval, which is where the one approver comes in.

`ControlOnceProofs` proves `RunsAtMostOnce`: `Spec => []AtMostOnce`, for one approver, one evaluator (`OneEvaluator`) and at most one
failed statement (`AtMostOneFault`), read or write, with CLI processes, crashes and restarts in any number.  A row comes to its actuator only through a
*bearer*: a goroutine on its way to execute it or to hand it on, or a copy in a queue somebody drains.  `OneBearer` says that a row
has one bearer at a time, and that the bearer of a row that has run is about to write that it has.  Four steps give a
row a bearer (`Born`): an automatic proposal, an approval's guarded UPDATE, recovery's INSERT of a recheck, an evaluation's
INSERT of a reset, whether it succeeds or not.  `BirthsClean` says that whoever is about to take one of them does so for a row
that never ran and that nobody bears; `BearersNext` shows that every step keeps one bearer to a row and otherwise only
takes bearers away (`Keeps`).  That a follow-up without a row never ran (`FollowUpsClean`) is where the second failed
statement would hurt, and it rests on what a row that says it ran says (`RanIsDone`, `RowFates`).
A follow-up in `missed` may have run and be born again: the exception of `AtMostOnce` goes through all of these invariants, and
stays small because `missed` only grows (`MissedGrows`), holds nothing but follow-ups (`MissedFollowUps`), and is empty until a statement has
failed (`NothingMissed`, on which the refinement rests).

`LifecycleIsKept`: `Spec => ImplementsLifecycle`, for one approver, one evaluator and a server that is alone (`ServerAlone`: no CLI process,
no failed statement; *Conditions* in 3.2 says what would go wrong otherwise), over any actions, holds, queue capacity and crashes.  A step maps to one of
`ControlLifecycle` if the stage of the row it writes is one its writer may advance, and the writer has only read it some steps
ago.  `StageInvariant` says what everyone knows of the stage of their row: each goroutine by its program counter
(`Knows`), each queued copy by being equal to the table (`QueuesKnow`), recovery of what it has still to close
(`RecoveryKnows`); that who closes a row without running it is alone with it (`ClosersClean`); and that outside its normal phase only
the executor is at work (`ServerQuiet`).  It is inductive only together with `OneBearer`: a stage that a bearer or a closer
knows is changed by nobody else (`OnlyMinder`), a missing follow-up is inserted by one goroutine (`OnlyInserter`), and the one
change that may surprise, the expiry of a row somebody decides on, is among what they expect (`OthersKnow`).
For each operation a lemma shows that its step `Steers`: it writes at most one row, as the promise allows (`Advances`), and as nobody else
minds (`May`).  `AdvanceMaps`, `ActMaps` and `SweepMaps` turn that into steps of the abstract specification.

Only model-checked: `QueuedIsSettled` (the prover has no ENABLED).

### 3.4 Control evaluation

*State.* `rows` is control_actions in order of insertion, a row with what it asks for (`wish`: type, target, rule),
`created_at`, `completed_at` and its state.  `queue` and `exec` are the control queue and its executor, with the second it last read from the clock.  `pass`
is where each evaluation is and what its reads told it.  `now` is the clock in seconds.  `mesh` is what the
state of the mesh suggests: chosen once, and not changed by anything here.

| code | actions |
|---|---|
| `intelligenceWorker`, `evaluateTransportIntelligence` | Tick |
| `Evaluate`: active actions and their conflicts | ReadActive |
| `cooldownSatisfied`, once per target (historyCache) | ReadHistory |
| `evaluateCandidate`: `budgetSatisfied`, `determineDenial` | Judge |
| `evaluateControl` | Store, Push, Drop, then EndPass |
| `queueRecoveryActions` | Revert |
| `executeControlAction`, `enqueueHealthRecheckFollowup` | Start, Act, ReadClock, Finish, ReadClock, Recheck |
| approval, rejection and expiry | Approve |

The executor reads the clock for `completed_at` (service/control.go 676), and for a follow-up's `created_at`, before the
statement that stores it, which is a process of its own and may wait 5 s for the database; evaluations come in between.
`put`, a history variable on the row, is the second in which the outcome was in the table.

An executed health recheck evaluates in a goroutine of its own (Act), so that evaluations overlap: nothing keeps them apart,
each read is a statement, and all candidates are judged before the first is stored.

*Abstractions.* What makes a candidate (scores, anomalies, attribution, evidence) is a choice from `mesh`, and
candidates in `Doubtful` may be denied by it at any evaluation.  A query with a LIMIT returns the newest rows, and of one
second any of them (`Newest`).  Approval, holds and recovery are in short what `ControlPlane` has in full.

*Properties* (run `evaluate`).  `OneInFlightEach`: one evaluator has one action of a candidate in flight, unless the older one has
left the window that the conflict check reads.  `BudgetOverrun`: the budget counts executed rows, and is checked long
before what it allows is executed; it is overrun by what all evaluators may have in flight, and by no more.  `CooldownKept`: no
proposal within the cooldown of a completion, under two conditions that the code needs.  The outcome was in the table
when the evaluation began: between the clock reading and the UPSERT (service/control.go 676, 689) an evaluation finds the row running
and the cooldown satisfied, and TLC finds that proposal when `put` is replaced by `done`.  And the action was also created within the
cooldown: the query asks for `created_at` where the check is on `completed_at` (control/control.go 837), so that an older row is not seen.

*Bounds.* Two evaluators (the worker and one that a recheck starts), one target, a restart that runs unattended and a backoff increase
that needs approval.  A behaviour has one of four meshes, with bounds of its own: the restart is wanted at every evaluation (five rows,
which three restarts and two rechecks fill, two seconds, a budget of one), it is wanted now and then (three rows, three seconds, a budget of
two, so that the cooldown decides), the two alternate, or the backoff is wanted now and then and
expires (three rows, three seconds).  With a window of 2, a cooldown of 1 raised to the minimum 2 and a
lifetime of 1 every comparison takes both values; a queue of one is full when two evaluations propose together.  The LIMITs (9) are above the number of rows: with `BudgetSlack` below
the number of denied rows the executed ones are pushed out of the budget query and `BudgetOverrun` fails, as the query of
control/control.go 864 reads max_actions_per_window + 10 rows of any state (docs/ops/control-plane.md speaks of an hourly
budget without that reservation).

*Proofs.* `ControlEvaluateProofs`, for every set of evaluators, candidates and meshes, every policy and every bound:

| theorem | property | under | inductive invariant |
|---|---|---|---|
| `EvalTypes` | `EvalTypeOK` | - | `EvalShape` and `WorkInvariant`: who pushes or executes a row holds its id, what is queued or about to be pushed is pending and in one place, what the executor works on is running |
| `CooldownIsKept` | `CooldownKept` | `[]HistoryWhole` | `CooldownInvariant`: a target an evaluation has cleared, and what it has let through, still is clear of every completion that was stored before it began and that its query could see |
| `OneIsInFlightEach` | `OneInFlightEach` | `[]ActiveWhole` | `OneInvariant`: what an evaluation has let through or still may has no row of that evaluator in flight within the window |
| `BudgetIsOverrunByFew` | `BudgetOverrun` | `[]ActiveWhole`, `[]BudgetWhole` | `BudgetInvariant`: an action let through takes the place of its evaluator and candidate until it is executed; what was spent and what is taken together stay below the budget plus all places |

`HistoryWhole`, `ActiveWhole` and `BudgetWhole` say that the list an evaluation reads is not cut off by its LIMIT: without that the three
properties are false, and in the run they hold because there are fewer rows than the LIMITs.  Most steps only take rows forward and learn
nothing (`Settled`, `RowsForward`); the proofs are about the reads and Judge, which do (`Learns`).  An evaluation's instant is in the past, so that time only
takes completions and executions out of its windows (`RecentShrinks`, `TakenShrinks`); and a place is taken by one row at a time because of `OneInFlightEach`
(`PlaceGivenBack`).  The assumption that evaluators and candidates are finitely many is for the counting.

## 4. Federation, the event log and partitions

### 4.1 The model

Every node of `Federation` is one MEL process: an event log on disk (`EventLog`), a kernel in
memory, a federation manager and its goroutines.  A bus adapter takes what happens on the node through
append, apply and announce (`ingestKernelEvent`).  The push loop pulls from a peer that announced
news; the ticker pulls from peers it trusts and has heard of.  A pull asks for the events after a position,
and what arrives goes through the dedup set, the same append and the same apply.

*State.* `log` is the table and the counter of each node.  `dedup`, `position` and `notify` are
`Manager.dedup`, `Peer.LastSyncSeq` and `pushNotifyCh`; they and `applied`, the kernel, die with the
process.  `posts` are notifications on the wire.  `gr` is where each goroutine is and what it holds.
`snapshot` is the snapshot stored most recently and `copied` the state on its way into one.  `stored` is a
history variable: every row ever in a log.  `Observe` reads it, to let an event happen once (ids are
random), and nothing else does.

| code | actions |
|---|---|
| `ingestKernelEvent` | Observe; TakeNumber, InsertRow, RefuseRow, InsertFails; Apply |
| `Log.Append` | TakeNumber and the three ends of its INSERT; Log.mu is held between (`LogFree`) |
| `NotifyNewEvents`, `ProcessHeartbeat` | ReceivePost, LosePost, ReceiveHeartbeat |
| `pushSyncLoop`, `pullFromPeers` | PushPull, TickPull |
| `pullFromSinglePeer`, `HandleSyncRequest` | Receive, PullFails |
| `IngestSyncedEvents` | Skip, Mark, then an append and Apply per event, Finish |
| `takeSnapshot` | CopyState, StoreSnapshot |
| `compactionWorker`, `Log.Compact` | Compact |
| `initKernelBridge`, `Open` | Crash, which is the end of one process and the start of the next |

*Abstractions.* An event is its id; what the kernel computes from it is the set of rows it applied, which is
enough to tell missing, repeated and reordered application apart.  Time is nondeterministic: a tick comes at
any time, any event may be older than the retention period, and above its cap the dedup set may lose any
entries but the newest.  When a peer counts as active is left open (`Hears` only says that a heartbeat can
arrive); `Partition` has that.  A heartbeat reports the counter of
the moment it is received; an older number would start fewer pulls.  Serving a request is one step: it is one
SELECT.  Snapshots are taken one at a time.  Backpressure does not appear because the one adapter never has
two events pending.  A peer that registers itself with a heartbeat has no endpoint: it may ask, and is never
asked, which is what a node outside `Peers[p]` and `Untrusted[p]` is.  No action reads `ReadOnly`, as no code does.

### 4.2 Runs

| run | instance | shows |
|---|---|---|
| `overlap` | n2 records two events, n1 pulls in two goroutines that share the dedup set; a crash, a snapshot | `NothingSkipped`: no event is passed over, whichever pull sets the position first; `SnapshotNotAhead` |
| `retain` | two nodes with an event each pull from each other within a scope of n2's event, which n2 gets back; a third asks n1, which does not trust it; nobody is read-only; compaction that keeps two numbers, a failed INSERT, a crash | `ImplementsReplication` with its strengthening `SpreadInvariant`: events spread along trusted links and within scopes only; `NumberNamesOneEvent` while fewer numbers are lost in a row than compaction keeps; `PositionBehindLog`: what was served is in the table, so the recovered counter is not behind it; `LoggedBeforeApplied` with its strengthening `LogInvariant` |
| `deliver` | two pulls in pages of one event, room for one id in the dedup set, notifications may be lost, `FairSpec` | `Delivered`; `AppliedOnce`: the primary key catches what the dedup set forgot; `KernelFollowsLog` |
| `bad_reload` | the instance of `overlap` | a restarted node has nothing of its latest snapshot in its kernel, where docs/runbooks/recovery.md says it loads it |

*Conditions.* Each of these was found necessary by dropping it and reading TLC's counterexample.

* `ImplementsReplication`: `AsConfigured`, that nobody is held at trust_level 1 and that what a node asks of a peer is in
  the scope the peer holds for it.  Here the code does less than its documents say.  federation/types.go 57 and
  docs/architecture/federation-model.md 44 have level 1 as "read-only": "Can receive events, cannot write".
  types.go 74 has a scope for what is "replicated to/from this peer" and 89 has ExcludeTypes for what "should never be synced".
  But pushSyncLoop and pullFromPeers pull from every peer at level 1 or above (manager.go 628, 730), and IngestSyncedEvents
  asks nothing of the sender, so that a read-only peer's events are taken.  HandleSyncRequest filters by the scope in the request
  (manager.go 285) and does not read the one it holds for the asker, so that an event it excludes for a peer goes out to
  that peer when it asks.  `Replication` states what the documents say.  With a peer in `ReadOnly`, or a
  scope of the asker wider than the peer's own, TLC finds `ImplementsReplication` violated by the first pull.
* `KernelFollowsLog`: no crash.  A restarted kernel is empty, and nothing replays the log or loads a snapshot into it
  (`SnapshotIsLoaded`, run `bad_reload`).
* `AppliedOnce`: no compaction.  A node's own event is never in its dedup set, so that only the primary key
  refuses it when it comes back, and compaction removes the row.
* `NothingSkipped`: no failed INSERT.  The id stays in the dedup set and the position passes the event.
* `NumberNamesOneEvent`, `PositionBehindLog`: fewer numbers lost in a row than `KeepMin`.  Compaction counts
  back from the counter and not over rows; when none of the numbers it keeps has a row, a restart begins again
  from an older number, and peers hold positions beyond it.
* `Delivered`: scopes that ask for everything or nothing.  HandleSyncRequest filters a page after it was cut to the batch
  size, and pullFromSinglePeer leaves the position where it was when nothing came (federation/manager.go 663): a page
  with no event in scope stops replication from that peer, whatever docs/architecture/consistency-model.md says of
  staleness.
* No property says that events are applied in the order of the log, as a comment in kernel/kernel.go 82 asks of the
  caller: Log.mu is released between Append and Apply, and the adapter and a pull may apply the other way round.
* `SnapshotNotAhead` has no converse: the state is copied before the counter is read, so that the
  number may cover an event the state lacks.

*Bounds.* Two events on one node make batches that overlap in part and in whole; one on each of two nodes
makes echoes.  `BatchSize` 2 takes all of them in one batch; 1, in `deliver`, needs a
pull for each.  `MaxNumber` is reached only in `deliver`, where a dedup set of one id lets every event be
refused, and a number be used up, again and again.  `NotifyCapacity` 1 is full as soon as one announcement
waits.  `KeepMin` is 1000 and `DedupCap` 100000 in the code; 2 and 1 here put both within reach.
Runs may stop: every event has happened, or the numbers are used up.

*Fairness.* A goroutine that can take a step does (weak fairness of `Work`): the Go scheduler runs it,
eventlog's statements wait at most 5 s for the database (`.timeout`), the HTTP client at most 10 s for a peer, and
Log.mu is only held for an INSERT.  Mutex waiters are not starved (Go mutexes hand over after
1 ms), hence strong fairness of TakeNumber.  Ticks come for ever, and a peer that is asked again and again answers at some
time: strong fairness of TickPull and Receive.  Nothing is assumed of heartbeats' and notifications' content,
of the push loop or of the adapter.

### 4.3 Proofs

`FederationProofs` proves, for every set of nodes, events, links, scopes and goroutines, every batch size
and capacity, and every number of crashes, failed INSERTs and snapshots:

| theorem | property | under |
|---|---|---|
| `TypeCorrect` | `TypeOK` | - |
| `LogHolds` | `LogInvariant` | - |
| `LogComesFirst` | `LoggedBeforeApplied` | - |
| `SpreadHolds` | `SpreadInvariant` | - |
| `FederationReplicates` | `ImplementsReplication` | `AsConfigured` |
| `SnapshotsAreBehind` | `SnapshotNotAhead` | - |
| `NumbersAreUnique` | `NumberNamesOneEvent` | no compaction |
| `EventsApplyOnce` | `AppliedOnce` | no compaction |
| `PositionsBehindLogs` | `PositionBehindLog` | no compaction |
| `SyncHolds` | `SyncInvariant` | no compaction, no failed INSERT |
| `NothingIsSkipped` | `NothingSkipped` | no compaction, no failed INSERT |
| `KernelFollows` | `KernelFollowsLog` | no crash |

The assumptions are those of `FederationAssumption`: the constants have their types, and a goroutine is an adapter
or a puller.

*The log.* `LoggedBeforeApplied` alone says nothing of the step before Apply.  `LogInvariant` adds that the
rows of a log are numbered up to its counter, that no two share a number or an id and that all of them are recorded
(`LogSound`); what a goroutine has in hand at each program counter, and that a reserved number is the counter and above
every row until its INSERT ends (`TaskSound`); and that Log.mu keeps appends apart (`AppendsApart`),
without which another Reserve would move the counter away from a number in hand.  A restart may set the counter back,
and then no goroutine of the node holds a number.

*Spreading.* A step of `Federation` that records a row must be a step of `Replication`: either the event
happened here and nowhere before, or a peer has it and the link allows it.  `SpreadInvariant` carries those facts from
Observe and Receive to InsertRow: what a pull has in hand is recorded at its peer and is `Allowed` by what the code checks,
and no two adapters hold the same event.  `SpreadStep` is the step simulation, where `AsConfigured` makes of `Allowed` what
`Replication` asks; every other step stutters.

*Numbers and positions.* Without compaction the table is all that was ever stored (`NothingCompacted`), so that a
number and an id of `stored` are those of a row, and `LogSound` gives uniqueness.  `PositionBehindLog` is not
inductive, as a crash of the peer takes its counter back to the rows: `PositionInvariant` says that a position, and
every number that a pull may set it to, is 0 or the number of a row that the peer stored.

*Nothing skipped.* `NothingSkipped` speaks of positions only; `SyncInvariant` says the same of the numbers that pulls
under way started from and will set, and of the dedup set, whose ids are recorded or in some pull's hand (`Taken`).
The argument is about three things a step can do.  It may record a row: the row comes after every number that was
reached (`NewRowsLast`), so that what was covered up to a number stays so (`SyncedStays`).  It may take something out of a
pull's hand: then it is recorded, or the dedup set spoke for it (`HandsNext`, `CoverStays`); a refused INSERT found
the id in the table, as the number was new.  Or it may receive an answer: the page has no holes, so that the rows in
scope up to its last are in hand (`PageHasNoHoles`, `AnswerCovers`).  A crash of the node empties its hands, its
dedup set and its positions together.

*Kernel and snapshots.* Most steps neither apply, nor record, nor take a snapshot, and leave alone who is about to apply
what (`Aside`, `AsideNext`); both proofs are about the others.  `SnapshotNotAhead` needs `KernelBehindLog`: what the
kernel has, what a goroutine is about to give it and what takeSnapshot has copied is numbered up to the log's counter, so
that the counter, read after the copy, is high enough; a crash sets the counter back and empties all three, and leaves
the stored snapshot, which carries its own number.  `KernelFollowsLog` does not name the number of the event about to be
applied, `EveryRowApplied` does.  It is about one life of the process: a kernel that starts again is empty beside a
log that is not.

Only model-checked: `Delivered` (the prover has no ENABLED), and the properties above with compaction, where they need
that fewer numbers are lost in a row than `KeepMin`.

### 4.4 Partitions

`Partition` is one node and the heartbeats of its peers.  Time is counted in heartbeat intervals (30 s in the code), and
an instant is kept as its age, which stops one above the partition threshold, where every comparison has its final
value: so time has no bound, and liveness can be checked.

*State.* `peer` is `m.peers`, the state and the age of LastSeen; a peer that is not in the configuration is a `stranger`
until it is heard of.  `flying` are the heartbeats under way, by age, `link` the peers that run and are connected,
`beat` those whose ticker is still due in this interval, `ticks` the phase of this node's check.  `split`, `actions`
and `policy` are the manager's.  `steady` (how long a link has been up) and `gone` (actions since the split) are history
variables.

| code | actions |
|---|---|
| `heartbeatLoop`, `sendHeartbeats` of the peers | Send; Lose when the post fails, which nobody retries |
| the tickers | Tick |
| `ProcessHeartbeat` | ProcessHeartbeat, which sets LastSeen to the time the *sender* wrote, older or not |
| `CheckPartitions` | CheckPartitions, every second interval, under one lock |
| `handleProposeAction` | Propose (the check), RecordAutonomousAction (the count), two critical sections |
| `NewManager` | Restart, which forgets discovered peers, the split and the count |
| the network | LinkDown, LinkUp |

`MaxDelay` is the HTTP client's timeout (10 s) in intervals, rounded up: 1.  A heartbeat is lost only when its link is
down.  One goroutine proposes actions: the bus adapter is the only caller of handleProposeAction.

*Properties* (run `partition`: a configured and a discovered peer, thresholds 1 and 3 for 3 and 10, one restart, a policy that counts
to 2 and one that wants approval).  `AutonomyLimit`: from the detection of a split no more actions go ahead than the policy allows,
whatever was between check and count when it was detected.  `NoFalseAlarm`: a peer that has been connected for
`MaxDelay + 2` intervals is never thought partitioned, although a late heartbeat moves LastSeen back; this
needs `PartitionAfter > 2 * MaxDelay`, and TLC finds it violated at equality.  `SplitFollowsNetwork`: under `FairSpec` a node
that stays alone knows it in the end, and one that stays connected to all is not held back for ever.

*Fairness.* Time passes, tickers fire, and a heartbeat of a working link arrives; links and proposals have none.  `Lose` needs none: what
is lost is dropped by Tick when its sender gives it up.

*Differences from the docs that no decision can tell.* docs/architecture/federation-model.md says that the counter resets
when a split is resolved; the code resets it when one is detected (federation/manager.go 462), and reads it only during
a split.  totalPeers would count decommissioned peers, a state that nothing sets.

*Proofs.* `PartitionProofs` proves `PartitionTypeOK`, `AutonomyLimit` and `NoFalseAlarm` (`PartitionTypes`, `LimitHolds`,
`NoFalseAlarms`) for every finite or infinite set of peers, every policy and every threshold; the majority, a matter of cardinalities, is a
Boolean there.  `LimitInvariant` says that the count is of the actions since the split, and that an action between check and
count still fits below the limit; the split sets both to zero, and an action allowed before it is then the first, which is why the
assumption excludes a limit of zero.  `HeartbeatInvariant` says of a connected peer that every heartbeat it sent since the link came up
is under way or was processed, and that whichever was processed last is at most `MaxDelay` intervals older than
the one that should have come: from its second conjunct, which speaks of each age, a Tick gets the third.
Only model-checked: `SplitFollowsNetwork`.

## 5. Transports and incidents

`Transport` is one direct transport; `Incidents` extends it with what its notices become.  A step is one critical section of the
transport's mutex, one channel operation, one statement, or one call that leaves the process.

*State.* `loop` is runTransport: its place, its failure counter, whether the threshold was told, its connection.  `rw` and `health`
are fields of `Direct`; of Health, the state, the failure episode, the timeouts and whether anything was ever received, which
are what decisions read.  `open` are the connections not closed yet.  `exec` is the executor in a restart,
`token` the interrupt channel of capacity one.  `waiting` and `worker` are the ingest queue and its workers, `bus` the
subscription of the notices, `marks` the dead-letter episodes.  `queue`, `recorder`, `letters`, `incidents`
and `desk` are the observation queue, its worker, the two tables and the operators' requests.  `tally`, `settled` and the fields `by`
and `closedBy` of `health` are history.

| code | actions |
|---|---|
| `Direct.Connect` | Attempt, Dial, DialFails, Attach, Announce |
| `runTransport` | Up, Clear; Failed, ForceState, Judge; Sleep |
| `Direct.Subscribe` | Subscribe, ReadReturns, ReadFails, Timeout, Stalled, Frame, Accepted, Drop |
| `Direct.Close`, by the loop and by the executor | CloseTake, CloseSay, CloseDone; RestartTake, RestartSay, RestartClose, Interrupt |
| `ingest`, `MarkIngest`, `MarkDrop` | TakePacket, MarkIngest, EndEpisode, MarkDrop |
| `consumeTransportEvents`, `observationWorker` | Consume, Take |
| `recordTransportDeadLetter`, `escalateToIncident` | Mark, InsertLetter; Look, Escalate |
| acknowledge, escalate, resolve, hand over, patch, attach a runbook | Begin (the read), Save (the write of the whole row) |

*Abstractions.* A packet is stored or it is not: parsing and deduplication are a choice.  A notice is its reason and the
fingerprint dead-lettering compares; reasons that only make audit entries share the bus and are not sent, so that
`BusSize` stands for the room they leave.  markFailure's two critical sections are one step, as they commute with
whatever another goroutine does between them.  The copies of Health that runTransport leaves in transport_runtime are write-only here.  Backoff is a sleep that may end at any
time.  Budgets bound how often a behaviour dials, receives, restarts, works on incidents and fails a statement: each
behaviour has one of five mixes, one kind of trouble at a time, as their product is out of TLC's reach.

| run | shows |
|---|---|
| `transport` | `NoConnectionLeaks`: every open connection has exactly one who will close it, wherever a restart meets the loop. `HealthTruthful`: a loop that waits says so, and one that reads is up, unless a late writer spoke last: a packet of the lost connection, or the Close of an earlier one. `OneLetterPerOutage`: dead letters are neither repeated nor lost, but for a full bus, a failed INSERT and a notice still undecided when the transport came up again (the mark then outlives its clearing). `OneUntilResolved`: a cause has one incident until that was resolved. `Redials`, under `FairSpec`: a loop whose connection was closed under it dials again |
| `bad_handoff` | the worker's upsert replaces the whole row of an open incident, and with it the owner, where service/incident_collab.go says ownership is durable |

*Bounds.* Five dials are two outages past a threshold of two with a success between; queues of one are full with one entry; four
connections are more than can be open at a time.  The runs may stop, as budgets run out.

*Fairness.* The loop's own steps, a read of a closed connection, and the rest of a restart that has begun.  Dials and peers have none.

*Proofs.* `IncidentsProofs` proves for every number of workers and operators, every capacity, threshold and budget:

| theorem | property | inductive invariant |
|---|---|---|
| `IncidentsTypes` | `IncidentsTypeOK` | `TypeInvariant`: with `Patience`, a transport that may still read has timeouts left (else the counter leaves its range), and `InHand`, what the worker and the operators hold is what their place says |
| `NoLeaks` | `NoConnectionLeaks` | `ConnInvariant`: where the loop has attached nothing the transport has nothing (`LoopSound`), and what the executor took is nobody else's (`ExecAlone`) |
| `Truthful` | `HealthTruthful` | `TruthInvariant`: the same said of every place between a failure and the sleep, and between a connection and the read |
| `OneUntil` | `OneUntilResolved` | `CauseInvariant`: a worker about to write a second incident has seen the first resolved, and a request that read a resolved row is of a cause that was |
| `OneLetter` | `OneLetterPerOutage` | `LetterInvariant`: every notice sent waits in a queue, is in the worker's hands or was decided on, and of the notices sent each but that of the outage still on has its letter or its loss before the next can be decided on |

Only model-checked: `Redials` (the prover has no ENABLED).

### 5.1 Alerts

`Alerts` is one transport and the evaluations of it: the worker's, on a ticker, and the one that an executed recheck starts in a
goroutine of its own (service/control.go 664).  An evaluation is as many steps as it has statements.

*State.* `alerts` is transport_alerts, an alert being its id; `history` is transport_health_snapshots; `eval` is where each
evaluation is, with what it has read and derived.  `level` and `present` are what the transport is like: its score as one of
five levels, and which of the other alerts' conditions hold.  An instant is kept as its age, up to `Old`, above which no
comparison changes, so that time has no bound.  `since` and the
field `alone` of `eval` (no other evaluation was under way at any time of this one) are history.  Of the previous snapshot an
evaluation keeps only whether there was one, and of `history` all from before `Past` is its latest.

| code | actions |
|---|---|
| `intelligenceWorker`, `executeControlAction` | Look |
| `LatestTransportHealthSnapshots` | ReadPrevious |
| `TransportAlerts`, then `deriveTransportAlerts` on the result | ReadAlerts |
| `shouldKeepHealthAlert`'s query | ReadDuration |
| the early returns | GiveUp |
| `UpsertTransportAlert`, per alert; `ResolveTransportAlertsNotIn`; `InsertTransportHealthSnapshot` | UpsertAlert; ResolveAlerts; InsertSnapshot |
| end of the process | Crash |
| the clock, the transport | Tick; Change |

*Abstractions.* Scores, anomaly windows and clusters are computed from evidence by code without state: `Change` makes them anything.
The configuration's validation (config/intelligence.go 205) puts the score of every state but healthy below its
recovery threshold, which leaves of the comparison only whether a healthy transport is `well` or `fair`.  Upserts of one
evaluation come in any order, where the code sorts them by severity.  The ticker's interval (15 s) is longer than an
evaluation, at most `MaxLag`, so that no tick waits and now is the instant at which it begins.

| run | instance | shows |
|---|---|---|
| `alerts` | a condition beside the health, whose levels are well, fair and failed; worker and recheck overlap; cooldown 2, minimum duration 1, lag 1; one change with a recheck and a crash, a recheck with a failed statement, or two changes with a failed statement | `NothingLeftOver`: no alert stays active that none of the evaluations since the last resolution derived; `CooldownSuppresses`: an evaluation that met no other raises nothing within the cooldown of an alert of its reason; `AlertsSettle`, under `FairSpec`: when the transport stays as it is, exactly what its condition warrants is active from some time on |

*Conditions.* `CooldownSuppresses` is of evaluations that met no other.  Of two that overlap, one may have read an alert as active
that the other then resolves: its upsert, active and with resolved_at NULL, raises it again at once (service/alerts.go 83).  The tests
of the suppression (service/alerts_test.go 64, 95) run one evaluation at a time.  `AlertsSettle` needs no such condition: a resolution within the
cooldown is not repeated, so that the ages grow past it, whatever happened before.

*No property* says that a state lasted for the minimum duration before its alert.  docs/ops/configuration-reference.md 96 says "Seconds before
triggering alert", but shouldKeepHealthAlert only compares the latest snapshot that is older than that (service/alerts.go 201) and asks nothing of
those after it: a transport that failed, recovered and fails again is alerted in its first second.

*Bounds.* With a cooldown of 2 and a lag of 1 an age takes every value on both sides of each comparison, for an evaluation that is late and
one that is not.  A cooldown of 2 above a minimum duration of 1 tells the two apart.  Two evaluations are the overlap; a third would be
a second recheck, and what one writes is judged by the next as one.

*Fairness.* Time passes (strong fairness of Tick: it only waits for an evaluation that is late), the worker's ticker ticks, and a
goroutine that can go on does.  Rechecks, changes and faults have none.

*Proofs.* `AlertsProofs`, for every set of alerts and reasons, every cooldown, duration and lag, any number of evaluations, faults and crashes:

| theorem | property | inductive invariant |
|---|---|---|
| `AlertsTyped` | `AlertsTypeOK` | itself |
| `NothingIsLeftOver` | `NothingLeftOver` | `LeftInvariant`: what is active was derived by an evaluation that ended since, or by one that is between its first and its last write, and what an evaluation has still to raise it derived |
| `CooldownHolds` | `CooldownSuppresses` | `AloneInvariant`: while an evaluation that met no other is under way, none else is; `CoolInvariant`: nothing of the reason of what such an evaluation is about to raise was resolved less than the cooldown before its now, and a tick keeps that because the age grows with the lag and stops only past both (`TickRecent`) |

Only model-checked: `AlertsSettle`.

## 6. The plan, and what is left of it

The plan was, in order of importance: the control plane, its lifecycle and proofs; the event log, federation and their proofs;
control evaluation; transports with their incidents; partitions; alerts.  All of that is done.  Dropped from it, with the reason:

* Action coordination tokens (kernel/coordination.go) and CompareAndResolve (consistency/consistency.go) have no caller outside
  tests: no behaviour of the system depends on them.
* Replay (replay/replay.go) is a fold of the kernel's scoring over a query, and changes no state.
* The proofs of the federation properties with compaction: they stay with TLC.

## 7. What is not modelled, and why

* MQTT's socket: its Connect, Subscribe and Close have the structure of the direct one.  Its Subscribe reads the connection
  without the lock that Close takes to clear it (transport/mqtt.go 194).
* What the kernel's handlers, the topology, scoring and intelligence packages compute: floating-point scores
  over history, with no concurrency of their own.  Mesh intelligence also writes incidents (meshintel/incidents.go 111), under
  ids of their own.
* The length of the backoff, `base << (attempt - 1)`, which overflows after some thirty failures in a row
  (service/app.go 556): a sleep of any length is a step of `Transport`.
* Two operators who write one incident at a time undo each other's columns: the model has it, and nothing in the repository
  promises otherwise, so that no property forbids it.
* Reports, proof packs, planning, diagnostics and status: they only read.
* The web server's routing and authentication, configuration parsing, the frontend and the site.
* Retention, integrations, fleet import, self-observation: one worker each, whose outcome no modelled part waits for.  Retention deletes
  rows of control_actions whatever their state (db/retention.go 37): its period is days.
* Wall-clock lengths but for their order, except where a property is about them (`ControlEvaluate`, `Partition`).
* SQLite itself: a statement is atomic and durable, which is what WAL mode and a process per statement give.
