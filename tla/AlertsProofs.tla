---------------------------- MODULE AlertsProofs ----------------------------
(***************************************************************************)
(* Theorems about Alerts, for every set of alerts and reasons, any number  *)
(* of overlapping evaluations, and every cooldown and duration.            *)
(***************************************************************************)
EXTENDS Alerts, TLAPS

\* The constants as numbers, with what follows from them.
LEMMA Constants ==
    /\ Cooldown \in Nat \ {0} /\ MinDuration \in Nat \ {0} /\ MinDuration <= Cooldown /\ MaxLag \in Nat
    /\ Old \in Nat \ {0} /\ Old = Cooldown + MaxLag
    /\ \A lag \in 0 .. MaxLag : lag \in Nat /\ lag \in Ages
    /\ Past \in Nat \ {0} /\ \A lag \in 0 .. MaxLag : lag \in 0 .. Past
BY AlertsAssumption DEF Old, Ages, Past

LEMMA OlderFacts ==
    ASSUME NEW a \in Ages
    PROVE  /\ Older(a) \in Ages
           /\ a < Old => Older(a) = a + 1
           /\ a = Old => Older(a) = Old
BY Constants DEF Older, Ages

LEMMA StatesOfLevels == \A l \in Levels : StateOf(l) \in States
BY AlertsAssumption DEF StateOf, States

-----------------------------------------------------------------------------
(* Types.                                                                   *)

LEMMA StatusTypes ==
    /\ Unraised \in [status : {"none", "active", "resolved"}, age : Ages]
    /\ Raised \in [status : {"none", "active", "resolved"}, age : Ages]
    /\ \A a \in Ages : ResolvedAgo(a) \in [status : {"none", "active", "resolved"}, age : Ages]
BY Constants DEF Unraised, Raised, ResolvedAgo, Ages

LEMMA AtRestType == AtRest \in Evaluations
BY Constants, AlertsAssumption DEF AtRest, Evaluations, Ages

LEMMA InitTyped == Init => AlertsTypeOK
<1> SUFFICES ASSUME Init PROVE AlertsTypeOK
  OBVIOUS
<1>1. alerts \in [AlertIds -> [status : {"none", "active", "resolved"}, age : Ages]]
  BY StatusTypes DEF Init
<1>3. eval \in [Evaluators -> Evaluations]
  BY AtRestType DEF Init
<1>4. budget \in [changes : Nat, rechecks : Nat, faults : Nat, crashes : Nat]
  BY AlertsAssumption DEF Init
<1> QED
  BY <1>1, <1>3, <1>4 DEF Init, AlertsTypeOK

LEMMA SpendType ==
    ASSUME AlertsTypeOK, NEW b \in {"changes", "rechecks", "faults", "crashes"}, Spend(b)
    PROVE  budget' \in [changes : Nat, rechecks : Nat, faults : Nat, crashes : Nat]
<1>1. budget[b] \in Nat /\ budget[b] > 0
  BY DEF AlertsTypeOK, Spend
<1>2. budget[b] - 1 \in Nat
  BY <1>1
<1>3. budget' = [budget EXCEPT ![b] = budget[b] - 1]
  BY DEF Spend
<1> QED
  BY <1>2, <1>3 DEF AlertsTypeOK

\* A step of one evaluation leaves a record of its kind.
LEMMA EvalStep ==
    ASSUME AlertsTypeOK, NEW e \in Evaluators, NEW v \in Evaluations, eval' = [eval EXCEPT ![e] = v]
    PROVE  eval' \in [Evaluators -> Evaluations]
BY DEF AlertsTypeOK

\* What the read of the previous snapshot leaves in an evaluation.
LEMMA LookedType ==
    \A v \in Evaluations : [v EXCEPT !.pc = "alerts", !.first = LatestBefore(0) = {"none"}] \in Evaluations
<1> DEFINE none == LatestBefore(0) = {"none"}
<1>1. none \in BOOLEAN
  OBVIOUS
<1> HIDE DEF none
<1>2. \A v \in Evaluations : [v EXCEPT !.pc = "alerts", !.first = none] \in Evaluations
  BY <1>1 DEF Evaluations
<1> QED  BY <1>2 DEF none

LEMMA ResolvedType ==
    ASSUME AlertsTypeOK, NEW e \in Evaluators
    PROVE  Resolved(e) \in [AlertIds -> [status : {"none", "active", "resolved"}, age : Ages]]
<1>1. eval[e].lag \in Ages
  BY Constants DEF AlertsTypeOK, Evaluations
<1> QED
  BY <1>1, StatusTypes DEF AlertsTypeOK, Resolved

LEMMA NextTyped == AlertsTypeOK /\ [Next]_vars => AlertsTypeOK'
<1> SUFFICES ASSUME AlertsTypeOK, [Next]_vars PROVE AlertsTypeOK'
  OBVIOUS
<1> USE DEF AlertsTypeOK
<1>1. CASE Tick
  <2>1. alerts' \in [AlertIds -> [status : {"none", "active", "resolved"}, age : Ages]]
    BY <1>1, StatusTypes, OlderFacts DEF Tick
  <2>2. history' \in [0 .. Past -> SUBSET States]
    <3>1. \A a \in 0 .. Past : a # 0 => a - 1 \in 0 .. Past
      BY Constants
    <3>2. Past \in 0 .. Past /\ Past - 1 \in 0 .. Past
      BY Constants
    <3> QED  BY <1>1, <3>1, <3>2 DEF Tick
  <2>4. eval' \in [Evaluators -> Evaluations]
    <3>1. ASSUME NEW e \in Busy, e \in Evaluators
          PROVE  [eval[e] EXCEPT !.lag = @ + 1] \in Evaluations
      <4>1. eval[e] \in Evaluations /\ eval[e].lag \in 0 .. MaxLag
        BY <3>1 DEF Evaluations
      <4>2. eval[e].lag < MaxLag
        BY <1>1, <3>1 DEF Tick
      <4>3. eval[e].lag + 1 \in 0 .. MaxLag
        BY <4>1, <4>2, Constants
      <4> QED  BY <4>1, <4>3 DEF Evaluations
    <3> QED  BY <1>1, <3>1 DEF Tick
  <2> QED  BY <1>1, <2>1, <2>2, <2>4 DEF Tick
<1>2. CASE Change
  <2>1. budget' \in [changes : Nat, rechecks : Nat, faults : Nat, crashes : Nat]
    BY <1>2, SpendType DEF Change
  <2> QED  BY <1>2, <2>1 DEF Change
<1>3. CASE Crash
  <2>1. budget' \in [changes : Nat, rechecks : Nat, faults : Nat, crashes : Nat]
    BY <1>3, SpendType DEF Crash
  <2>2. eval' \in [Evaluators -> Evaluations] /\ since' \subseteq AlertIds
    BY <1>3, AtRestType DEF Crash, Evaluations
  <2> QED  BY <1>3, <2>1, <2>2 DEF Crash
<1>4. ASSUME NEW e \in Evaluators, Look(e) PROVE AlertsTypeOK'
  <2>1. budget' \in [changes : Nat, rechecks : Nat, faults : Nat, crashes : Nat]
    BY <1>4, SpendType DEF Look
  <2>2. [AtRest EXCEPT !.pc = "previous", !.level = level, !.wanted = present, !.alone = Busy = {}]
          \in Evaluations
    BY AtRestType DEF AtRest, Evaluations, AlertIds
  <2>3. \A f \in Evaluators : [eval[f] EXCEPT !.alone = FALSE] \in Evaluations
    BY DEF Evaluations
  <2>4. eval' \in [Evaluators -> Evaluations]
    BY <1>4, <2>2, <2>3 DEF Look
  <2> QED  BY <1>4, <2>1, <2>4 DEF Look
<1>5. ASSUME NEW e \in Evaluators, ReadPrevious(e) PROVE AlertsTypeOK'
  <2> DEFINE looked == [eval[e] EXCEPT !.pc = "alerts", !.first = LatestBefore(0) = {"none"}]
  <2>1. looked \in Evaluations
    BY LookedType
  <2>2. eval' = [eval EXCEPT ![e] = looked]
    BY <1>5 DEF ReadPrevious
  <2> HIDE DEF looked
  <2>3. eval' \in [Evaluators -> Evaluations]
    BY <2>1, <2>2, EvalStep
  <2> QED  BY <1>5, <2>3 DEF ReadPrevious
<1>6. ASSUME NEW e \in Evaluators, ReadAlerts(e) PROVE AlertsTypeOK'
  <2> DEFINE v == eval[e]
  <2> DEFINE allowed == {c \in v.wanted : ~CooldownBlocksReason(ReasonOf(c), v.lag)}
  <2> DEFINE later == [v EXCEPT !.pc = "duration", !.first = FALSE, !.wanted = allowed]
  <2> DEFINE now == [v EXCEPT !.pc = "upsert", !.first = FALSE, !.wanted = allowed,
                              !.todo = allowed]
  <2>1. v \in Evaluations /\ allowed \subseteq AlertIds
    BY DEF Evaluations
  <2> HIDE DEF allowed
  <2>2. later \in Evaluations /\ now \in Evaluations
    BY <2>1 DEF Evaluations
  <2>3. eval' = [eval EXCEPT ![e] = IF HealthAlertDue(v) THEN later ELSE now]
    BY <1>6 DEF ReadAlerts, allowed
  <2> QED  BY <1>6, <2>2, <2>3, EvalStep DEF ReadAlerts
<1>7. ASSUME NEW e \in Evaluators, ReadDuration(e) PROVE AlertsTypeOK'
  <2> DEFINE ready(ids) == [eval[e] EXCEPT !.pc = "upsert", !.wanted = ids, !.todo = ids]
  <2>1. StateOf(eval[e].level) \in AlertIds
    BY StatesOfLevels DEF Evaluations, AlertIds
  <2>2. \A ids \in SUBSET AlertIds : ready(ids) \in Evaluations
    BY DEF Evaluations
  <2>3. eval[e].wanted \subseteq AlertIds
    BY DEF Evaluations
  <2>4. \E ids \in SUBSET AlertIds : eval' = [eval EXCEPT ![e] = ready(ids)]
    BY <1>7, <2>1, <2>3 DEF ReadDuration
  <2>5. budget' \in [changes : Nat, rechecks : Nat, faults : Nat, crashes : Nat]
    BY <1>7, SpendType DEF ReadDuration
  <2> QED  BY <1>7, <2>2, <2>4, <2>5, EvalStep DEF ReadDuration
<1>8. ASSUME NEW e \in Evaluators, GiveUp(e) PROVE AlertsTypeOK'
  BY <1>8, SpendType, AtRestType, EvalStep DEF GiveUp, End
<1>9. ASSUME NEW e \in Evaluators, NEW id \in AlertIds, UpsertAlert(e, id) PROVE AlertsTypeOK'
  <2>1. [eval[e] EXCEPT !.todo = @ \ {id}] \in Evaluations
    BY DEF Evaluations
  <2>2. eval' = [eval EXCEPT ![e] = [eval[e] EXCEPT !.todo = @ \ {id}]]
    BY <1>9 DEF UpsertAlert
  <2>3. budget' \in [changes : Nat, rechecks : Nat, faults : Nat, crashes : Nat]
    BY <1>9, SpendType DEF UpsertAlert
  <2>4. alerts' \in [AlertIds -> [status : {"none", "active", "resolved"}, age : Ages]]
    BY <1>9, StatusTypes DEF UpsertAlert
  <2> QED  BY <1>9, <2>1, <2>2, <2>3, <2>4, EvalStep DEF UpsertAlert
<1>10. ASSUME NEW e \in Evaluators, ResolveAlerts(e) PROVE AlertsTypeOK'
  <2>1. [AtRest EXCEPT !.pc = "snapshot", !.lag = eval[e].lag, !.level = eval[e].level,
                       !.alone = eval[e].alone] \in Evaluations
    BY AtRestType DEF Evaluations
  <2>2. eval' = [eval EXCEPT ![e] = [AtRest EXCEPT !.pc = "snapshot", !.lag = eval[e].lag,
                                                   !.level = eval[e].level, !.alone = eval[e].alone]]
    BY <1>10 DEF ResolveAlerts
  <2>3. budget' \in [changes : Nat, rechecks : Nat, faults : Nat, crashes : Nat]
    BY <1>10, SpendType DEF ResolveAlerts
  <2>4. alerts' \in [AlertIds -> [status : {"none", "active", "resolved"}, age : Ages]]
    BY <1>10, ResolvedType DEF ResolveAlerts
  <2>5. since' \subseteq AlertIds
    BY <1>10 DEF ResolveAlerts, Evaluations
  <2> QED  BY <1>10, <2>1, <2>2, <2>3, <2>4, <2>5, EvalStep DEF ResolveAlerts
<1>11. ASSUME NEW e \in Evaluators, InsertSnapshot(e) PROVE AlertsTypeOK'
  <2>1. budget' \in [changes : Nat, rechecks : Nat, faults : Nat, crashes : Nat]
    BY <1>11, SpendType DEF InsertSnapshot
  <2>2. StateOf(eval[e].level) \in States
    BY StatesOfLevels DEF Evaluations
  <2>3. history' \in [0 .. Past -> SUBSET States]
    BY <1>11, <2>2 DEF InsertSnapshot
  <2> QED  BY <1>11, <2>1, <2>3, AtRestType, EvalStep DEF InsertSnapshot, End
<1>12. CASE UNCHANGED vars
  BY <1>12 DEF vars
<1> QED
  BY <1>1, <1>2, <1>3, <1>4, <1>5, <1>6, <1>7, <1>8, <1>9, <1>10, <1>11, <1>12 DEF Next, Work

\* Every reachable state is well typed: an age never passes Old, where all that
\* compares it has its final value, and no evaluation writes an alert it did not derive.
THEOREM AlertsTyped == Spec => []AlertsTypeOK
BY InitTyped, NextTyped, PTL DEF Spec

-----------------------------------------------------------------------------
(* Nothing is left over.                                                    *)

\* An active alert was wanted by an evaluation that ended since alerts were last
\* resolved, or is wanted by one that is between its first and its last write.
Accounted(id) == id \in since \/ \E e \in Evaluators : At(e, "upsert") /\ id \in eval[e].wanted

\* The inductive invariant: and an evaluation raises only what it wants.
LeftInvariant ==
    /\ \A id \in AlertIds : IsActive(id) => Accounted(id)
    /\ \A e \in Evaluators : IF At(e, "upsert") THEN eval[e].todo \subseteq eval[e].wanted
                                                 ELSE eval[e].todo = {}

LEMMA LeftInit == Init => LeftInvariant
BY DEF Init, LeftInvariant, IsActive, Unraised, At, AtRest

\* A step of an evaluation that is not between its writes, and writes no alert.
LEMMA LeftQuiet ==
    ASSUME AlertsTypeOK, LeftInvariant, NEW e \in Evaluators, ~At(e, "upsert"),
           UNCHANGED <<alerts, since>>,
           \A u \in Evaluators \ {e} : /\ eval'[u].pc = eval[u].pc /\ eval'[u].todo = eval[u].todo
                                        /\ eval'[u].wanted = eval[u].wanted,
           IF eval'[e].pc = "upsert" THEN eval'[e].todo \subseteq eval'[e].wanted
                                     ELSE eval'[e].todo = {}
    PROVE  LeftInvariant'
<1>1. ASSUME NEW id \in AlertIds, IsActive(id)' PROVE Accounted(id)'
  <2>1. Accounted(id)
    BY <1>1 DEF LeftInvariant, IsActive
  <2> QED  BY <2>1 DEF Accounted, At
<1>2. ASSUME NEW u \in Evaluators
      PROVE  IF eval'[u].pc = "upsert" THEN eval'[u].todo \subseteq eval'[u].wanted
                                       ELSE eval'[u].todo = {}
  BY DEF LeftInvariant, At
<1> QED
  BY <1>1, <1>2 DEF LeftInvariant, At

LEMMA LeftNext == AlertsTypeOK /\ LeftInvariant /\ [Next]_vars => LeftInvariant'
<1> SUFFICES ASSUME AlertsTypeOK, LeftInvariant, [Next]_vars PROVE LeftInvariant'
  OBVIOUS
<1>a. eval \in [Evaluators -> Evaluations]
  BY DEF AlertsTypeOK
<1>b. \A id \in AlertIds : alerts[id].status \in {"none", "active", "resolved"}
  BY DEF AlertsTypeOK
<1>1. CASE Tick
  <2>1. \A e \in Evaluators : /\ eval'[e].pc = eval[e].pc /\ eval'[e].wanted = eval[e].wanted
                              /\ eval'[e].todo = eval[e].todo
    BY <1>1, <1>a DEF Tick, Evaluations
  <2>2. \A id \in AlertIds : IsActive(id)' => IsActive(id)
    BY <1>1 DEF Tick, IsActive, ResolvedAgo
  <2>3. since' = since
    BY <1>1 DEF Tick
  <2> QED  BY <2>1, <2>2, <2>3 DEF LeftInvariant, Accounted, At
<1>2. CASE Change
  BY <1>2 DEF Change, LeftInvariant, IsActive, Accounted, At
<1>3. CASE Crash
  <2>1. \A e \in Evaluators : eval'[e].pc = "idle" /\ eval'[e].todo = {}
    BY <1>3 DEF Crash, AtRest
  <2>2. \A id \in AlertIds : IsActive(id)' => id \in since'
    BY <1>3 DEF Crash, LeftInvariant, IsActive, Accounted, At
  <2> QED  BY <2>1, <2>2 DEF LeftInvariant, Accounted, At
<1>4. ASSUME NEW e \in Evaluators, Look(e) PROVE LeftInvariant'
  <2>1. eval'[e].pc = "previous" /\ eval'[e].todo = {}
    BY <1>4, <1>a DEF Look, AtRest
  <2>2. \A u \in Evaluators \ {e} : /\ eval'[u].pc = eval[u].pc /\ eval'[u].todo = eval[u].todo
                                    /\ eval'[u].wanted = eval[u].wanted
    BY <1>4, <1>a DEF Look, Evaluations
  <2> QED  BY <1>4, <2>1, <2>2, LeftQuiet DEF Look, At
<1>5. ASSUME NEW e \in Evaluators, ReadPrevious(e) PROVE LeftInvariant'
  <2>1. eval'[e].pc = "alerts" /\ eval'[e].todo = eval[e].todo
    BY <1>5, <1>a DEF ReadPrevious, Evaluations
  <2>2. eval[e].todo = {}
    BY <1>5 DEF ReadPrevious, LeftInvariant, At
  <2> QED  BY <1>5, <1>a, <2>1, <2>2, LeftQuiet DEF ReadPrevious, At
<1>6. ASSUME NEW e \in Evaluators, ReadAlerts(e) PROVE LeftInvariant'
  <2>1. \/ eval'[e].pc = "duration" /\ eval'[e].todo = eval[e].todo
        \/ eval'[e].pc = "upsert" /\ eval'[e].todo = eval'[e].wanted
    BY <1>6, <1>a DEF ReadAlerts, Evaluations
  <2>2. eval[e].todo = {}
    BY <1>6 DEF ReadAlerts, LeftInvariant, At
  <2> QED  BY <1>6, <1>a, <2>1, <2>2, LeftQuiet DEF ReadAlerts, At
<1>7. ASSUME NEW e \in Evaluators, ReadDuration(e) PROVE LeftInvariant'
  <2> DEFINE ready(ids) == [eval[e] EXCEPT !.pc = "upsert", !.wanted = ids, !.todo = ids]
  <2>0. PICK ids : eval' = [eval EXCEPT ![e] = ready(ids)]
    BY <1>7 DEF ReadDuration
  <2>1. eval'[e].pc = "upsert" /\ eval'[e].todo = eval'[e].wanted
    BY <2>0, <1>a DEF Evaluations
  <2>2. \A u \in Evaluators \ {e} : eval'[u] = eval[u]
    BY <1>7, <1>a DEF ReadDuration
  <2> QED  BY <1>7, <2>1, <2>2, LeftQuiet DEF ReadDuration, At
<1>8. ASSUME NEW e \in Evaluators, GiveUp(e) PROVE LeftInvariant'
  <2>1. eval'[e].pc = "idle" /\ eval'[e].todo = {}
    BY <1>8, <1>a DEF GiveUp, End, AtRest
  <2> QED  BY <1>8, <1>a, <2>1, LeftQuiet DEF GiveUp, End, At
<1>9. ASSUME NEW e \in Evaluators, NEW id \in AlertIds, UpsertAlert(e, id) PROVE LeftInvariant'
  <2>1. /\ eval'[e].pc = "upsert" /\ eval'[e].wanted = eval[e].wanted
        /\ eval'[e].todo = eval[e].todo \ {id}
        /\ \A u \in Evaluators \ {e} : eval'[u] = eval[u]
    BY <1>9, <1>a DEF UpsertAlert, Evaluations, At
  <2>2. eval[e].pc = "upsert" /\ id \in eval[e].wanted
    BY <1>9 DEF UpsertAlert, LeftInvariant, At
  <2>3. \A other \in AlertIds : IsActive(other)' => IsActive(other) \/ other = id
    BY <1>9 DEF UpsertAlert, IsActive, AlertsTypeOK
  <2>4. \A other \in AlertIds : Accounted(other) => Accounted(other)'
    BY <1>9, <2>1, <2>2 DEF UpsertAlert, Accounted, At
  <2>5. Accounted(id)'
    BY <2>1, <2>2 DEF Accounted, At
  <2> QED  BY <2>1, <2>2, <2>3, <2>4, <2>5 DEF LeftInvariant, At
<1>10. ASSUME NEW e \in Evaluators, ResolveAlerts(e) PROVE LeftInvariant'
  <2>1. /\ eval'[e].pc = "snapshot" /\ eval'[e].todo = {}
        /\ \A u \in Evaluators \ {e} : eval'[u] = eval[u]
    BY <1>10, <1>a DEF ResolveAlerts, AtRest
  <2>2. CASE alerts' = Resolved(e) /\ since' = eval[e].wanted
    <3>1. \A id \in AlertIds : IsActive(id)' => id \in since'
      BY <2>2 DEF Resolved, ResolvedAgo, IsActive
    <3> QED  BY <2>1, <3>1 DEF LeftInvariant, Accounted, At
  <2>3. CASE since' = since \cup eval[e].wanted /\ alerts' = alerts
    <3>1. \A id \in AlertIds : IsActive(id)' => Accounted(id)'
      BY <2>1, <2>3 DEF LeftInvariant, IsActive, Accounted, At
    <3> QED  BY <2>1, <3>1 DEF LeftInvariant, At
  <2> QED  BY <1>10, <2>2, <2>3 DEF ResolveAlerts
<1>11. ASSUME NEW e \in Evaluators, InsertSnapshot(e) PROVE LeftInvariant'
  <2>1. eval'[e].pc = "idle" /\ eval'[e].todo = {}
    BY <1>11, <1>a DEF InsertSnapshot, End, AtRest
  <2> QED  BY <1>11, <1>a, <2>1, LeftQuiet DEF InsertSnapshot, End, At
<1>12. CASE UNCHANGED vars
  BY <1>12 DEF vars, LeftInvariant, IsActive, Accounted, At
<1> QED
  BY <1>1, <1>2, <1>3, <1>4, <1>5, <1>6, <1>7, <1>8, <1>9, <1>10, <1>11, <1>12 DEF Next, Work

LEMMA LeftHere == LeftInvariant => NothingLeftOver
BY DEF LeftInvariant, NothingLeftOver, ActiveIds, Accounted

\* However many evaluations overlap, and whichever of their statements fail:
\* between evaluations no alert is active that none of those that ended since
\* alerts were last resolved had derived.
THEOREM NothingIsLeftOver == Spec => []NothingLeftOver
BY InitTyped, NextTyped, LeftInit, LeftNext, LeftHere, PTL DEF Spec

-----------------------------------------------------------------------------
(* The cooldown.                                                            *)

\* While an evaluation that met no other is under way, no other is.
AloneInvariant ==
    \A e \in Evaluators : eval[e].alone /\ e \in Busy => Busy = {e}

LEMMA AloneInit == Init => AloneInvariant
BY DEF Init, AloneInvariant, Busy, At, AtRest

\* A step of an evaluation is its alone, and does not make it one that met no other.
LEMMA WorkStep ==
    ASSUME AlertsTypeOK, NEW e \in Evaluators, Work(e)
    PROVE  /\ e \in Busy
           /\ \A u \in Evaluators \ {e} : eval'[u] = eval[u]
           /\ eval'[e].pc # "idle" => eval'[e].alone = eval[e].alone
<1>a. eval \in [Evaluators -> Evaluations]
  BY DEF AlertsTypeOK
<1>1. CASE ReadPrevious(e)
  BY <1>1, <1>a DEF ReadPrevious, Busy, At, Evaluations
<1>2. CASE ReadAlerts(e)
  BY <1>2, <1>a DEF ReadAlerts, Busy, At, Evaluations
<1>3. CASE ReadDuration(e)
  <2> DEFINE ready(ids) == [eval[e] EXCEPT !.pc = "upsert", !.wanted = ids, !.todo = ids]
  <2>1. PICK ids : eval' = [eval EXCEPT ![e] = ready(ids)]
    BY <1>3 DEF ReadDuration
  <2> QED  BY <1>3, <1>a, <2>1 DEF ReadDuration, Busy, At, Evaluations
<1>4. CASE GiveUp(e) \/ InsertSnapshot(e)
  BY <1>4, <1>a DEF GiveUp, InsertSnapshot, End, AtRest, Busy, At
<1>5. ASSUME NEW id \in AlertIds, UpsertAlert(e, id)
      PROVE  /\ e \in Busy
             /\ \A u \in Evaluators \ {e} : eval'[u] = eval[u]
             /\ eval'[e].alone = eval[e].alone
  BY <1>5, <1>a DEF UpsertAlert, Busy, At, Evaluations
<1>6. CASE ResolveAlerts(e)
  BY <1>6, <1>a DEF ResolveAlerts, AtRest, Busy, At
<1> QED
  BY <1>1, <1>2, <1>3, <1>4, <1>5, <1>6 DEF Work

LEMMA AloneNext == AlertsTypeOK /\ AloneInvariant /\ [Next]_vars => AloneInvariant'
<1> SUFFICES ASSUME AlertsTypeOK, AloneInvariant, [Next]_vars PROVE AloneInvariant'
  OBVIOUS
<1>a. eval \in [Evaluators -> Evaluations]
  BY DEF AlertsTypeOK
\* What begins no evaluation makes none busy, and none that is busy alone.
<1>b. ASSUME \A f \in Evaluators : f \in Busy' => f \in Busy /\ (eval'[f].alone => eval[f].alone)
      PROVE  AloneInvariant'
  BY <1>b DEF AloneInvariant, Busy
<1>1. CASE Tick
  BY <1>1, <1>a, <1>b DEF Tick, Busy, At, Evaluations
<1>2. CASE Change \/ UNCHANGED vars
  BY <1>2, <1>b DEF Change, vars, Busy, At
<1>3. CASE Crash
  BY <1>3, <1>b DEF Crash, Busy, At, AtRest
<1>4. ASSUME NEW e \in Evaluators, Look(e) PROVE AloneInvariant'
  <2>1. eval'[e].alone => Busy = {}
    BY <1>4 DEF Look, AtRest
  <2>2. \A f \in Evaluators \ {e} : f \in Busy' => f \in Busy /\ ~eval'[f].alone
    BY <1>4, <1>a DEF Look, Busy, At, Evaluations
  <2>3. Busy' \subseteq Evaluators
    BY DEF Busy
  <2> QED  BY <2>1, <2>2, <2>3 DEF AloneInvariant
<1>5. ASSUME NEW e \in Evaluators, Work(e) PROVE AloneInvariant'
  BY <1>5, <1>b, WorkStep DEF Busy, At
<1> QED
  BY <1>1, <1>2, <1>3, <1>4, <1>5 DEF Next

\* What an evaluation that met no other is about to raise was not resolved, nor was
\* any alert of its reason, less than the cooldown before its now; and no alert at
\* all was, if that of the health is still to be added.
CoolInvariant ==
    \A e \in Evaluators : eval[e].alone =>
        /\ eval[e].pc \in {"duration", "upsert"} =>
             \A id \in eval[e].wanted, other \in AlertIds :
                 ReasonOf(other) = ReasonOf(id) => ~Recent(other, eval[e].lag)
        /\ At(e, "duration") => \A other \in AlertIds : ~Recent(other, eval[e].lag)

LEMMA CoolInit == Init => CoolInvariant
BY DEF Init, CoolInvariant, At, AtRest

\* A tick makes nothing recent: the age grows with the lag, up to where it is past both.
LEMMA TickRecent ==
    ASSUME AlertsTypeOK, Tick, NEW e \in Busy, NEW id \in AlertIds, ~Recent(id, eval[e].lag)
    PROVE  ~Recent(id, eval[e].lag)'
<1>1. eval[e].lag \in 0 .. MaxLag /\ eval[e].lag < MaxLag /\ eval'[e].lag = eval[e].lag + 1
  BY DEF Tick, AlertsTypeOK, Evaluations, Busy
<1>2. CASE alerts[id].status = "resolved"
  <2>1. alerts[id].age \in Ages /\ alerts'[id].age = Older(alerts[id].age)
    BY <1>2 DEF Tick, AlertsTypeOK, ResolvedAgo
  <2>2. alerts[id].age \in Nat /\ alerts[id].age <= Old /\ ~(alerts[id].age < Cooldown + eval[e].lag)
    BY <1>2, <2>1, Constants DEF Recent, Ages
  <2>3. ~(alerts'[id].age < Cooldown + eval'[e].lag)
    <3>1. CASE alerts[id].age = Old
      BY <2>1, <3>1, <1>1, Constants, OlderFacts
    <3>2. CASE alerts[id].age < Old
      BY <2>1, <2>2, <3>2, <1>1, Constants, OlderFacts
    <3> QED  BY <2>2, <3>1, <3>2, Constants
  <2> QED  BY <2>3 DEF Recent
<1>3. CASE alerts[id].status # "resolved"
  BY <1>3 DEF Tick, Recent
<1> QED
  BY <1>2, <1>3

LEMMA CoolNext ==
    AlertsTypeOK /\ AloneInvariant /\ CoolInvariant /\ [Next]_vars => CoolInvariant'
<1> SUFFICES ASSUME AlertsTypeOK, AloneInvariant, CoolInvariant, [Next]_vars PROVE CoolInvariant'
  OBVIOUS
<1>a. eval \in [Evaluators -> Evaluations]
  BY DEF AlertsTypeOK
<1> DEFINE Cool(e) ==
      eval[e].alone =>
        /\ eval[e].pc \in {"duration", "upsert"} =>
             \A id \in eval[e].wanted, other \in AlertIds :
                 ReasonOf(other) = ReasonOf(id) => ~Recent(other, eval[e].lag)
        /\ eval[e].pc = "duration" => \A other \in AlertIds : ~Recent(other, eval[e].lag)
<1>b. \A e \in Evaluators : Cool(e)
  BY DEF CoolInvariant, At
\* A step of one evaluation: another that met none would be alone under way.
<1>c. ASSUME NEW e \in Evaluators, Work(e), Cool(e)' PROVE CoolInvariant'
  <2>1. ASSUME NEW f \in Evaluators \ {e}, eval'[f].alone, eval'[f].pc # "idle" PROVE FALSE
    BY <1>c, <2>1, WorkStep DEF AloneInvariant, Busy, At
  <2> QED  BY <1>c, <2>1 DEF CoolInvariant, At
<1>1. CASE Tick
  <2>1. ASSUME NEW e \in Evaluators
        PROVE  /\ eval'[e].pc = eval[e].pc /\ eval'[e].wanted = eval[e].wanted
               /\ eval'[e].alone = eval[e].alone
    BY <1>1, <1>a DEF Tick, Evaluations
  <2>2. ASSUME NEW e \in Evaluators, eval[e].pc \in {"duration", "upsert"},
               NEW other \in AlertIds, ~Recent(other, eval[e].lag)
        PROVE  ~Recent(other, eval[e].lag)'
    BY <1>1, <2>2, TickRecent DEF Busy, At
  <2> QED  BY <1>b, <2>1, <2>2 DEF CoolInvariant, At
<1>2. CASE Change \/ UNCHANGED vars
  BY <1>2 DEF Change, vars, CoolInvariant, Recent, At
<1>3. CASE Crash
  BY <1>3 DEF Crash, CoolInvariant, AtRest, At
<1>4. ASSUME NEW e \in Evaluators, Look(e) PROVE CoolInvariant'
  <2>1. eval'[e].pc = "previous" /\ UNCHANGED alerts
    BY <1>4 DEF Look, AtRest
  <2>2. ASSUME NEW f \in Evaluators \ {e}, eval'[f].alone
        PROVE  eval'[f] = eval[f]
    BY <1>4, <1>a, <2>2 DEF Look, Evaluations
  <2> QED  BY <1>b, <2>1, <2>2 DEF CoolInvariant, Recent, At
<1>5. ASSUME NEW e \in Evaluators, ReadPrevious(e) PROVE CoolInvariant'
  <2>1. eval'[e].pc = "alerts"
    BY <1>5, <1>a DEF ReadPrevious, Evaluations
  <2> QED  BY <1>5, <1>c, <2>1 DEF Work
<1>6. ASSUME NEW e \in Evaluators, ReadAlerts(e) PROVE CoolInvariant'
  <2> DEFINE v == eval[e]
  <2> DEFINE allowed == {x \in v.wanted : ~CooldownBlocksReason(ReasonOf(x), v.lag)}
  <2>1. /\ eval'[e].lag = v.lag /\ eval'[e].wanted = allowed
        /\ eval'[e].pc = "duration" => HealthAlertDue(v)
        /\ UNCHANGED alerts
    BY <1>6, <1>a DEF ReadAlerts, Evaluations
  <2> HIDE DEF v
  <2>2. \A id \in allowed, other \in AlertIds :
           ReasonOf(other) = ReasonOf(id) => ~Recent(other, v.lag)
    BY DEF CooldownBlocksReason
  <2>3. HealthAlertDue(v) => \A other \in AlertIds : ~Recent(other, v.lag)
    BY DEF HealthAlertDue, TransportRecentlyRecovered
  <2>4. \A other \in AlertIds : Recent(other, v.lag) <=> Recent(other, eval[e].lag)'
    BY <2>1 DEF Recent
  <2> HIDE DEF allowed
  <2>5. Cool(e)'
    BY <2>1, <2>2, <2>3, <2>4
  <2> QED  BY <1>6, <1>c, <2>5 DEF Work
<1>7. ASSUME NEW e \in Evaluators, ReadDuration(e) PROVE CoolInvariant'
  <2> DEFINE v == eval[e]
  <2> DEFINE ready(ids) == [v EXCEPT !.pc = "upsert", !.wanted = ids, !.todo = ids]
  <2>1. PICK ids : eval' = [eval EXCEPT ![e] = ready(ids)]
    BY <1>7 DEF ReadDuration
  <2>2. eval'[e].lag = v.lag /\ eval'[e].pc = "upsert" /\ eval'[e].alone = v.alone
    BY <2>1, <1>a DEF Evaluations
  <2>3. v.alone => \A other \in AlertIds : ~Recent(other, v.lag)
    BY <1>7, <1>b DEF ReadDuration, At
  <2>4. UNCHANGED alerts
    BY <1>7 DEF ReadDuration
  <2> HIDE DEF v
  <2>5. Cool(e)'
    BY <2>2, <2>3, <2>4 DEF Recent
  <2> QED  BY <1>7, <1>c, <2>5 DEF Work
<1>8. ASSUME NEW e \in Evaluators, GiveUp(e) \/ InsertSnapshot(e) PROVE CoolInvariant'
  <2>1. eval'[e].pc = "idle"
    BY <1>8, <1>a DEF GiveUp, InsertSnapshot, End, AtRest
  <2> QED  BY <1>8, <1>c, <2>1 DEF Work
<1>9. ASSUME NEW e \in Evaluators, NEW id \in AlertIds, UpsertAlert(e, id) PROVE CoolInvariant'
  <2>1. /\ eval'[e].lag = eval[e].lag /\ eval'[e].wanted = eval[e].wanted
        /\ eval'[e].alone = eval[e].alone
        /\ eval'[e].pc = "upsert" /\ eval[e].pc = "upsert"
    BY <1>9, <1>a DEF UpsertAlert, Evaluations, At
  <2>2. \A other \in AlertIds :
           alerts'[other].status = "resolved" => alerts'[other] = alerts[other]
    BY <1>9 DEF UpsertAlert, Raised, AlertsTypeOK
  <2>3. Cool(e)'
    BY <1>b, <2>1, <2>2 DEF Recent
  <2> QED  BY <1>9, <1>c, <2>3 DEF Work
<1>10. ASSUME NEW e \in Evaluators, ResolveAlerts(e) PROVE CoolInvariant'
  <2>1. eval'[e].pc = "snapshot"
    BY <1>10, <1>a DEF ResolveAlerts, AtRest
  <2> QED  BY <1>10, <1>c, <2>1 DEF Work
<1> QED
  BY <1>1, <1>2, <1>3, <1>4, <1>5, <1>6, <1>7, <1>8, <1>9, <1>10 DEF Next, Work

\* Only an upsert raises an alert, and only one that its evaluation wants.
LEMMA RaisedWhen ==
    ASSUME AlertsTypeOK, LeftInvariant, [Next]_vars,
           NEW e \in Evaluators, NEW id \in AlertIds, IsRaisedBy(e, id)
    PROVE  At(e, "upsert") /\ id \in eval[e].wanted
BY DEF LeftInvariant, IsRaisedBy

LEMMA CoolStep ==
    ASSUME AlertsTypeOK, LeftInvariant, CoolInvariant, [Next]_vars,
           NEW e \in Evaluators, NEW id \in AlertIds, IsRaisedBy(e, id), eval[e].alone,
           NEW other \in AlertIds, ReasonOf(other) = ReasonOf(id)
    PROVE  ~CoolingDown(other)
<1>1. At(e, "upsert") /\ id \in eval[e].wanted
  BY RaisedWhen
<1>2. ~Recent(other, eval[e].lag)
  BY <1>1 DEF CoolInvariant, At
<1>3. eval[e].lag \in Nat /\ alerts[other].age \in Nat
  BY Constants DEF AlertsTypeOK, Evaluations, Ages
<1> QED
  BY <1>2, <1>3, Constants DEF Recent, CoolingDown

\* No evaluation that met no other raises an alert within the cooldown of one of its
\* reason: whatever the transport does, how long each evaluation takes, what fails.
THEOREM CooldownHolds == Spec => CooldownSuppresses
<1>1. AlertsTypeOK /\ LeftInvariant /\ CoolInvariant /\ [Next]_vars =>
        [\A e \in Evaluators, id \in AlertIds : IsRaisedBy(e, id) /\ eval[e].alone =>
            \A other \in AlertIds : ReasonOf(other) = ReasonOf(id) => ~CoolingDown(other)]_vars
  BY CoolStep
<1> QED
  BY <1>1, InitTyped, NextTyped, LeftInit, LeftNext, AloneInit, AloneNext, CoolInit, CoolNext, PTL
     DEF Spec, CooldownSuppresses
=============================================================================
