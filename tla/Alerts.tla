------------------------------- MODULE Alerts -------------------------------
(***************************************************************************)
(* The alerts of one transport: raised, held back by a cooldown, resolved. *)
(*                                                                         *)
(* Sources: internal/service/alerts.go (intelligenceWorker,                *)
(* evaluateTransportIntelligence, deriveTransportAlerts and its helpers),  *)
(* internal/db/transport_intelligence.go, internal/service/control.go (the *)
(* recheck action), internal/status/health.go (states and scores).         *)
(*                                                                         *)
(* An evaluation is a sequence of statements on two tables, and two may    *)
(* overlap: the worker's, and one that an executed recheck action starts   *)
(* in a goroutine of its own.  An evaluation calls now the instant at which *)
(* it began.  An instant is kept as its age, which stops at Old, where      *)
(* every comparison has its final value: so time has no bound.             *)
(***************************************************************************)
EXTENDS Naturals, FiniteSets

CONSTANTS
    Conditions,    \* the alerts but for the one of the health: retries, drops, clusters, ...
    Reason,        \* the reason of each: two may share one
    Evaluators,    \* the goroutines that evaluate
    Worker,        \* the one that does so on a ticker
    Levels,        \* what the score may be
    Cooldown,      \* alerts.CooldownSeconds
    MinDuration,   \* alerts.MinimumStateDurationSeconds
    MaxLag,        \* how long an evaluation takes at most
    Mixes          \* how often a behaviour may change, recheck, fail a statement and crash

ASSUME AlertsAssumption ==
    /\ Worker \in Evaluators
    /\ Levels \subseteq {"well", "fair", "degraded", "unstable", "failed"} /\ "well" \in Levels
    /\ Conditions \cap {"healthy", "degraded", "unstable", "failed"} = {}
    /\ Cooldown \in Nat \ {0} /\ MinDuration \in 1 .. Cooldown /\ MaxLag \in Nat
    /\ Mixes \subseteq [changes : Nat, rechecks : Nat, faults : Nat, crashes : Nat]

VARIABLES
    alerts,    \* transport_alerts: the status of each id and the age of resolved_at
    history,   \* transport_health_snapshots: the states of those of each age
    level,     \* the transport's health now
    present,   \* the conditions that hold now
    eval,      \* the evaluations
    since,     \* what was wanted by the evaluations since the last one that resolved alerts
    budget     \* what is left of this behaviour's mix

vars == <<alerts, history, level, present, eval, since, budget>>

Old == Cooldown + MaxLag
Ages == 0 .. Old

\* Of the snapshots older than any evaluation looks for, only the latest counts.
Past == MinDuration + MaxLag

OlderBug(a) == a + 1

Older(a) == IF a = Old THEN Old ELSE a + 1

States == {"healthy", "degraded", "unstable", "failed"}

\* A healthy transport may be fair: below RecoveryScoreHealthy.  In every other
\* state the validated configuration puts the score below its recovery threshold.
StateOf(l) == IF l \in {"well", "fair"} THEN "healthy" ELSE l

\* An alert's id is its condition, or the state that a health alert is about.
AlertIds == Conditions \cup States
ReasonOf(id) == IF id \in States THEN "health_state_transition" ELSE Reason[id]

Unraised == [status |-> "none", age |-> 0]
Raised == [status |-> "active", age |-> 0]
ResolvedAgo(age) == [status |-> "resolved", age |-> age]

IsActive(id) == alerts[id].status = "active"
ActiveIds == {id \in AlertIds : IsActive(id)}

AtRest == [pc |-> "idle", lag |-> 0, level |-> "well", first |-> FALSE,
           wanted |-> {}, todo |-> {}, alone |-> TRUE]

At(e, pc) == eval[e].pc = pc
Busy == {e \in Evaluators : ~At(e, "idle")}
End(e) == eval' = [eval EXCEPT ![e] = AtRest]

Spend(b) == budget[b] > 0 /\ budget' = [budget EXCEPT ![b] = @ - 1]

Init ==
    /\ alerts = [id \in AlertIds |-> Unraised]
    /\ history = [a \in 0 .. Past |-> {}]
    /\ level \in Levels /\ present \in SUBSET Conditions
    /\ eval = [e \in Evaluators |-> AtRest]
    /\ since = {}
    /\ budget \in Mixes

-----------------------------------------------------------------------------
(* Time, and the transport.                                                 *)

\* A second, or a few: no evaluation takes longer than MaxLag of them.
Tick ==
    /\ \A e \in Busy : eval[e].lag < MaxLag
    /\ alerts' = [id \in AlertIds |-> IF alerts[id].status = "resolved"
                                      THEN ResolvedAgo(Older(alerts[id].age)) ELSE alerts[id]]
    /\ history' = [a \in 0 .. Past |-> IF a = 0 THEN {}
                                       ELSE IF a = Past /\ history[Past - 1] = {} THEN history[Past]
                                       ELSE history[a - 1]]
    /\ eval' = [e \in Evaluators |-> IF e \in Busy THEN [eval[e] EXCEPT !.lag = @ + 1] ELSE eval[e]]
    /\ UNCHANGED <<level, present, since, budget>>

Change ==
    /\ Spend("changes")
    /\ level' \in Levels /\ present' \in SUBSET Conditions
    /\ UNCHANGED <<alerts, history, eval, since>>

-----------------------------------------------------------------------------
(* evaluateTransportIntelligence.                                           *)

\* What the transport's condition is, at now: the worker's ticker, or a recheck.
Look(e) ==
    /\ At(e, "idle")
    /\ IF e = Worker THEN UNCHANGED budget ELSE Spend("rechecks")
    /\ eval' = [f \in Evaluators |->
          IF f = e THEN [AtRest EXCEPT !.pc = "previous", !.level = level,
                                       !.wanted = present, !.alone = Busy = {}]
          ELSE IF f \in Busy THEN [eval[f] EXCEPT !.alone = FALSE] ELSE eval[f]]
    /\ UNCHANGED <<alerts, history, level, present, since>>

\* The states of the latest snapshots that are at least a old: one, unless two
\* evaluations had the same now.
LatestBefore(a) ==
    IF \A b \in a .. Past : history[b] = {} THEN {"none"}
    ELSE {s \in States : \E b \in a .. Past : s \in history[b] /\ \A c \in a .. b - 1 : history[c] = {}}

\* Of the previous snapshot only matters whether there is one, as a score is always
\* below the threshold that would excuse an unchanged state (StateOf).
ReadPrevious(e) ==
    /\ At(e, "previous")
    /\ eval' = [eval EXCEPT ![e].pc = "alerts", ![e].first = LatestBefore(0) = {"none"}]
    /\ UNCHANGED <<alerts, history, level, present, since, budget>>

\* Resolved less than the cooldown before the evaluation's now.
RecentLapseBug(id, lag) == alerts[id].status = "resolved" /\ alerts[id].age < MinDuration + lag

RecentActiveBug(id, lag) == alerts[id].status # "none" /\ alerts[id].age < Cooldown + lag

Recent(id, lag) == alerts[id].status = "resolved" /\ alerts[id].age < Cooldown + lag

\* One of the reason, and so also the alert itself, was resolved not long ago.
CooldownBlocksReason(reason, lag) ==
    \E id \in AlertIds : ReasonOf(id) = reason /\ Recent(id, lag)

TransportRecentlyRecovered(lag) == \E id \in AlertIds : Recent(id, lag)

\* All that shouldKeepHealthAlert asks but for the minimum duration.
HealthAlertDue(v) ==
    /\ ~TransportRecentlyRecovered(v.lag)
    /\ v.level # "well"
    /\ ~(v.first /\ StateOf(v.level) = "healthy")

\* The persisted alerts are read once, and all is decided from them.
ReadAlerts(e) ==
    LET v == eval[e]
        allowed == {c \in v.wanted : ~CooldownBlocksReason(ReasonOf(c), v.lag)}
    IN
    /\ At(e, "alerts")
    /\ eval' = [eval EXCEPT
          ![e] = IF HealthAlertDue(v)
                 THEN [v EXCEPT !.pc = "duration", !.first = FALSE, !.wanted = allowed]
                 ELSE [v EXCEPT !.pc = "upsert", !.first = FALSE, !.wanted = allowed,
                                !.todo = allowed]]
    /\ UNCHANGED <<alerts, history, level, present, since, budget>>

\* The state lasts if the latest snapshot from before the minimum duration had
\* it too; a snapshot that cannot be read is one that is not there.
Lasts(v, s) == s \in LatestBefore(MinDuration + v.lag)

ReadDuration(e) ==
    LET v == eval[e]
        s == StateOf(v.level)
        ready(ids) == [v EXCEPT !.pc = "upsert", !.wanted = ids, !.todo = ids]
    IN
    /\ At(e, "duration")
    /\ \/ Lasts(v, s) /\ eval' = [eval EXCEPT ![e] = ready(v.wanted \cup {s})] /\ UNCHANGED budget
       \/ LatestBefore(MinDuration + v.lag) # {s} /\ eval' = [eval EXCEPT ![e] = ready(v.wanted)]
          /\ UNCHANGED budget
       \/ Spend("faults") /\ eval' = [eval EXCEPT ![e] = ready(v.wanted)]
    /\ UNCHANGED <<alerts, history, level, present, since>>

\* A query fails: the evaluation is given up.
GiveUp(e) ==
    /\ eval[e].pc \in {"previous", "alerts"}
    /\ Spend("faults")
    /\ End(e)
    /\ UNCHANGED <<alerts, history, level, present, since>>

\* An alert is active again, and its resolved_at NULL, whatever it was.
UpsertAlert(e, id) ==
    /\ At(e, "upsert") /\ id \in eval[e].todo
    /\ \/ alerts' = [alerts EXCEPT ![id] = Raised] /\ UNCHANGED budget
       \/ Spend("faults") /\ UNCHANGED alerts
    /\ eval' = [eval EXCEPT ![e].todo = @ \ {id}]
    /\ UNCHANGED <<history, level, present, since>>

\* Every active alert that this evaluation does not want is resolved as of its now.
ResolvedBug(e) ==
    [id \in AlertIds |-> IF IsActive(id) /\ id \notin eval[e].wanted /\ eval[e].wanted # {}
                         THEN ResolvedAgo(eval[e].lag) ELSE alerts[id]]

Resolved(e) ==
    [id \in AlertIds |-> IF IsActive(id) /\ id \notin eval[e].wanted
                         THEN ResolvedAgo(eval[e].lag) ELSE alerts[id]]

ResolveAlerts(e) ==
    /\ At(e, "upsert") /\ eval[e].todo = {}
    /\ \/ alerts' = Resolved(e) /\ since' = eval[e].wanted /\ UNCHANGED budget
       \/ Spend("faults") /\ since' = since \cup eval[e].wanted /\ UNCHANGED alerts
    /\ eval' = [eval EXCEPT ![e] = [AtRest EXCEPT !.pc = "snapshot", !.lag = eval[e].lag,
                                                  !.level = eval[e].level, !.alone = eval[e].alone]]
    /\ UNCHANGED <<history, level, present>>

InsertSnapshot(e) ==
    /\ At(e, "snapshot")
    /\ \/ history' = [history EXCEPT ![eval[e].lag] = @ \cup {StateOf(eval[e].level)}]
          /\ UNCHANGED budget
       \/ Spend("faults") /\ UNCHANGED history
    /\ End(e)
    /\ UNCHANGED <<alerts, level, present, since>>

\* The process dies, and starts again.
Crash ==
    /\ Spend("crashes")
    /\ eval' = [e \in Evaluators |-> AtRest]
    /\ since' = since \cup UNION {eval[e].wanted : e \in {f \in Evaluators : At(f, "upsert")}}
    /\ UNCHANGED <<alerts, history, level, present>>

-----------------------------------------------------------------------------
Work(e) ==
    \/ ReadPrevious(e) \/ ReadAlerts(e) \/ ReadDuration(e) \/ GiveUp(e)
    \/ \E id \in AlertIds : UpsertAlert(e, id)
    \/ ResolveAlerts(e) \/ InsertSnapshot(e)

Next ==
    \/ Tick \/ Change \/ Crash
    \/ \E e \in Evaluators : Look(e) \/ Work(e)

Spec == Init /\ [][Next]_vars

\* Time passes, the worker's ticker ticks, and a goroutine that can go on does.
FairSpec ==
    /\ Spec
    /\ SF_vars(Tick) /\ WF_vars(Look(Worker))
    /\ \A e \in Evaluators : WF_vars(Work(e))

-----------------------------------------------------------------------------
Evaluations ==
    [pc : {"idle", "previous", "alerts", "duration", "upsert", "snapshot"}, lag : 0 .. MaxLag,
     level : Levels, first : BOOLEAN,
     wanted : SUBSET AlertIds, todo : SUBSET AlertIds,
     alone : BOOLEAN]

\* Every variable holds a value of its kind.
AlertsTypeOK ==
    /\ alerts \in [AlertIds -> [status : {"none", "active", "resolved"}, age : Ages]]
    /\ history \in [0 .. Past -> SUBSET States]
    /\ level \in Levels /\ present \subseteq Conditions
    /\ eval \in [Evaluators -> Evaluations]
    /\ since \subseteq AlertIds
    /\ budget \in [changes : Nat, rechecks : Nat, faults : Nat, crashes : Nat]

\* An alert that a step raises.
IsRaised(id) == ~IsActive(id) /\ IsActive(id)'

\* Resolved less than the cooldown ago.
CoolingDown(id) == alerts[id].status = "resolved" /\ alerts[id].age < Cooldown

\* An alert that a step of e raises.
IsRaisedBy(e, id) == IsRaised(id) /\ id \in eval[e].todo /\ id \notin eval[e].todo'

\* Flapping is suppressed: an evaluation that met no other raises nothing within
\* the cooldown of an alert of its reason.
CooldownSuppresses ==
    [][\A e \in Evaluators, id \in AlertIds : IsRaisedBy(e, id) /\ eval[e].alone =>
          \A other \in AlertIds : ReasonOf(other) = ReasonOf(id) => ~CoolingDown(other)]_vars

\* Between evaluations nothing is active but what was wanted by one of those that
\* ended since alerts were last resolved: by the last one alone, unless its
\* UPDATE failed or a crash cut an evaluation short.  However evaluations
\* overlap, no alert is left over that nobody will look at.
NothingLeftOver ==
    (\A e \in Evaluators : ~At(e, "upsert")) => ActiveIds \subseteq since

\* What ought to be active.
Warranted == present \cup (IF level = "well" THEN {} ELSE {StateOf(level)})

\* Once the transport's condition stays as it is, exactly the alerts it warrants
\* are active from some time on, whatever cooldowns, overlaps, failed statements
\* and crashes had done to them: no two of them hold each other back for ever.
AlertsSettle == <>[](ActiveIds = Warranted)
=============================================================================
