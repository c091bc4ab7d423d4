--------------------------- MODULE PartitionProofs ---------------------------
(***************************************************************************)
(* Theorems about Partition, for every set of peers, every policy and every *)
(* choice of the intervals.                                                *)
(***************************************************************************)
EXTENDS Partition, TLAPS

\* The constants as numbers, with what follows from them.
LEMMA Constants ==
    /\ SuspectAfter \in Nat /\ PartitionAfter \in Nat /\ MaxDelay \in Nat /\ MaxRestarts \in Nat
    /\ Old \in Nat /\ MaxDelay <= PartitionAfter /\ Settled = MaxDelay + 2
    /\ Configured \subseteq Peers
BY PartitionAssumption DEF Old, Settled

\* The policy of a behaviour, and a count that goes no further than it has to.
LEMMA PolicyType ==
    ASSUME PartitionTypeOK
    PROVE  /\ policy.limit \in Nat \ {0} /\ policy.restrict \in BOOLEAN /\ policy.approval \in BOOLEAN
           /\ \A n \in 0 .. policy.limit + 1 : More(n) \in 0 .. policy.limit + 1
<1>1. policy.limit \in Nat \ {0} /\ policy.restrict \in BOOLEAN /\ policy.approval \in BOOLEAN
  BY PartitionAssumption DEF PartitionTypeOK
<1> QED
  BY <1>1 DEF More

\* An age goes up by one, and stops.
LEMMA OlderFacts ==
    ASSUME NEW a \in Ages
    PROVE  /\ Older(a) \in Ages /\ Older(a) <= a + 1
           /\ a < Old => Older(a) = a + 1
BY Constants DEF Older, Ages

LEMMA DelaysAreAges == Delays \subseteq Ages /\ \A a \in Delays : a < Old
BY Constants DEF Delays, Ages, Old

-----------------------------------------------------------------------------
(* Types.                                                                   *)

LEMMA FreshType ==
    Fresh \in [Peers -> [state : {"stranger", "unknown", "active", "suspected", "partitioned"},
                         age : Ages]]
<1>1. Old \in Ages
  BY Constants DEF Ages
<1> QED
  BY <1>1 DEF Fresh, Stranger

LEMMA InitType == Init => PartitionTypeOK
<1> SUFFICES ASSUME Init PROVE PartitionTypeOK
  OBVIOUS
<1>1. \A p \in Policies : 0 \in 0 .. p.limit + 1
  BY PartitionAssumption
<1>2. 0 \in 0 .. Settled /\ 0 \in 0 .. MaxRestarts
  BY Constants
<1>3. steady \in [Peers -> 0 .. Settled] /\ flying \in [Peers -> SUBSET Delays]
  BY <1>2 DEF Init
<1>4. policy \in Policies /\ actions \in 0 .. policy.limit + 1 /\ gone \in 0 .. policy.limit + 1
  BY <1>1 DEF Init
<1>5. peer \in [Peers -> [state : {"stranger", "unknown", "active", "suspected", "partitioned"},
                         age : Ages]]
  BY FreshType DEF Init
<1>6. ticks \in 0 .. 2 /\ restarts \in 0 .. MaxRestarts
  BY <1>2 DEF Init
<1>7. link \subseteq Peers /\ beat \subseteq Peers /\ split \in BOOLEAN /\ proposer \in {"idle", "go"}
  BY DEF Init
<1> QED
  BY <1>3, <1>4, <1>5, <1>6, <1>7 DEF PartitionTypeOK

LEMMA StepType == PartitionTypeOK /\ [Next]_vars => PartitionTypeOK'
<1> SUFFICES ASSUME PartitionTypeOK, [Next]_vars PROVE PartitionTypeOK'
  OBVIOUS
<1> USE DEF PartitionTypeOK
<1>1. ASSUME Tick PROVE PartitionTypeOK'
  <2>1. peer' \in [Peers -> [state : {"stranger", "unknown", "active", "suspected", "partitioned"},
                             age : Ages]]
    BY <1>1, OlderFacts DEF Tick
  <2>2. steady' \in [Peers -> 0 .. Settled]
    <3>1. \A p \in Peers : steady[p] \in 0 .. Settled
      OBVIOUS
    <3>2. \A s \in 0 .. Settled : s # Settled => s + 1 \in 0 .. Settled
      BY Constants
    <3> QED
      BY <1>1, <3>1, <3>2, Constants DEF Tick
  <2>3. ticks' \in 0 .. 2
    BY <1>1 DEF Tick
  <2>4. flying' \in [Peers -> SUBSET Delays]
    BY <1>1 DEF Tick
  <2> QED
    BY <1>1, <2>1, <2>2, <2>3, <2>4 DEF Tick
<1>2. ASSUME CheckPartitions PROVE PartitionTypeOK'
  <2>1. \A p \in Peers : Judged(p) \in {"stranger", "unknown", "active", "suspected", "partitioned"}
    BY DEF Judged
  <2>2. peer' \in [Peers -> [state : {"stranger", "unknown", "active", "suspected", "partitioned"},
                             age : Ages]]
    BY <1>2, <2>1 DEF CheckPartitions
  <2>3. split' \in BOOLEAN
    BY <1>2 DEF CheckPartitions, MajorityGone
  <2>4. 0 \in 0 .. policy.limit + 1
    BY PolicyType
  <2>5. actions' \in 0 .. policy.limit + 1 /\ gone' \in 0 .. policy.limit + 1
    BY <1>2, <2>4 DEF CheckPartitions
  <2> QED
    BY <1>2, <2>2, <2>3, <2>5 DEF CheckPartitions
<1>3. ASSUME Propose PROVE PartitionTypeOK'
  BY <1>3 DEF Propose
<1>4. ASSUME RecordAutonomousAction PROVE PartitionTypeOK'
  BY <1>4, PolicyType DEF RecordAutonomousAction
<1>5. ASSUME Restart PROVE PartitionTypeOK'
  <2>1. restarts' \in 0 .. MaxRestarts
    BY <1>5, Constants DEF Restart
  <2>2. 0 \in 0 .. policy.limit + 1 /\ 0 \in 0 .. Settled
    BY PolicyType, Constants
  <2>3. peer' \in [Peers -> [state : {"stranger", "unknown", "active", "suspected", "partitioned"},
                             age : Ages]]
    BY <1>5, FreshType DEF Restart
  <2>4. steady' \in [Peers -> 0 .. Settled]
    BY <1>5, <2>2 DEF Restart
  <2> HIDE DEF PartitionTypeOK
  <2>5. UNCHANGED <<link, beat, flying, policy>>
    BY <1>5 DEF Restart
  <2>6. split' \in BOOLEAN /\ proposer' \in {"idle", "go"}
    BY <1>5 DEF Restart
  <2>8. ticks' \in 0 .. 2
    BY <1>5 DEF Restart
  <2>7. actions' \in 0 .. policy'.limit + 1 /\ gone' \in 0 .. policy'.limit + 1
    BY <1>5, <2>2, <2>5 DEF Restart
  <2> QED
    BY <2>1, <2>3, <2>4, <2>5, <2>6, <2>7, <2>8 DEF PartitionTypeOK
<1>6. ASSUME NEW p \in Peers, Send(p) PROVE PartitionTypeOK'
  <2>1. 0 \in Delays
    BY Constants DEF Delays
  <2> QED
    BY <1>6, <2>1 DEF Send
<1>7. ASSUME NEW p \in Peers, LinkDown(p) PROVE PartitionTypeOK'
  BY <1>7, Constants DEF LinkDown
<1>8. ASSUME NEW p \in Peers, LinkUp(p) PROVE PartitionTypeOK'
  BY <1>8 DEF LinkUp
<1>9. ASSUME NEW p \in Peers, NEW a \in Delays, Lose(p, a) PROVE PartitionTypeOK'
  BY <1>9 DEF Lose
<1>10. ASSUME NEW p \in Peers, NEW a \in Delays, ProcessHeartbeat(p, a) PROVE PartitionTypeOK'
  BY <1>10, DelaysAreAges DEF ProcessHeartbeat, Seen
<1>11. CASE UNCHANGED vars
  BY <1>11 DEF vars
<1> QED
  BY <1>1, <1>2, <1>3, <1>4, <1>5, <1>6, <1>7, <1>8, <1>9, <1>10, <1>11 DEF Next

\* The node's tables, counters and the network keep their types, the counter its cap.
THEOREM PartitionTypes == Spec => []PartitionTypeOK
<1>1. Init => PartitionTypeOK
  BY InitType
<1>2. PartitionTypeOK /\ [Next]_vars => PartitionTypeOK'
  BY StepType
<1> QED
  BY <1>1, <1>2, PTL DEF Spec

-----------------------------------------------------------------------------
(* The limit on autonomous actions.                                         *)

LEMMA LimitStep == PartitionTypeOK /\ LimitInvariant /\ [Next]_vars => LimitInvariant'
<1> SUFFICES ASSUME PartitionTypeOK, LimitInvariant, [Next]_vars PROVE LimitInvariant'
  OBVIOUS
<1>0. policy.limit \in Nat \ {0} /\ actions \in Nat /\ policy.restrict \in BOOLEAN /\ policy.approval \in BOOLEAN
  BY PolicyType DEF PartitionTypeOK
<1>1. ASSUME UNCHANGED <<split, actions, gone, policy, proposer>> PROVE LimitInvariant'
  BY <1>1 DEF LimitInvariant
<1>2. ASSUME CheckPartitions PROVE LimitInvariant'
  \* Either the split is new, and counted from nothing, or nothing was counted.
  <2>1. policy' = policy /\ proposer' = proposer
    BY <1>2 DEF CheckPartitions
  <2>2. CASE MajorityGone /\ ~split
    BY <1>0, <1>2, <2>1, <2>2 DEF CheckPartitions, LimitInvariant
  <2>3. CASE ~(MajorityGone /\ ~split)
    <3>1. actions' = actions /\ gone' = gone /\ (split' => split)
      BY <1>2, <2>3 DEF CheckPartitions
    <3> QED
      BY <2>1, <3>1 DEF LimitInvariant
  <2> QED
    BY <2>2, <2>3
<1>3. ASSUME Propose PROVE LimitInvariant'
  BY <1>3 DEF Propose, CanExecuteAutonomously, LimitInvariant
<1>4. ASSUME RecordAutonomousAction PROVE LimitInvariant'
  BY <1>0, <1>4 DEF RecordAutonomousAction, More, LimitInvariant
<1>5. ASSUME Restart PROVE LimitInvariant'
  BY <1>5 DEF Restart, LimitInvariant
<1>6. CASE Tick
  BY <1>1, <1>6 DEF Tick
<1>7. ASSUME NEW p \in Peers, Send(p) \/ LinkDown(p) \/ LinkUp(p) PROVE LimitInvariant'
  BY <1>1, <1>7 DEF Send, LinkDown, LinkUp
<1>8. ASSUME NEW p \in Peers, NEW a \in Delays, Lose(p, a) \/ ProcessHeartbeat(p, a)
      PROVE  LimitInvariant'
  BY <1>1, <1>8 DEF Lose, ProcessHeartbeat
<1>9. CASE UNCHANGED vars
  BY <1>1, <1>9 DEF vars
<1> QED
  BY <1>2, <1>3, <1>4, <1>5, <1>6, <1>7, <1>8, <1>9 DEF Next

\* Whatever the network does and however proposals, checks and restarts interleave, a split node
\* takes no more actions on its own than its policy allows (CanExecuteAutonomously).
THEOREM LimitHolds == Spec => []AutonomyLimit
<1>1. Init => LimitInvariant
  BY DEF Init, LimitInvariant
<1>2. PartitionTypeOK /\ LimitInvariant /\ [Next]_vars => LimitInvariant'
  BY LimitStep
<1>3. LimitInvariant => AutonomyLimit
  BY DEF LimitInvariant, AutonomyLimit
<1> QED
  BY <1>1, <1>2, <1>3, PartitionTypes, PTL DEF Spec

-----------------------------------------------------------------------------
(* False alarms.                                                            *)

\* A heartbeat that is processed is a sign of life for every instant after it was sent.
LEMMA Processed ==
    ASSUME PartitionTypeOK, NEW p \in Peers, NEW a \in Delays, ProcessHeartbeat(p, a),
           NEW d \in Nat
    PROVE  HeardWithin(p, d)'
BY Constants DEF ProcessHeartbeat, Seen, HeardWithin, PartitionTypeOK, Delays

\* A check leaves a peer alone that was heard of within PartitionAfter.
LEMMA Spared ==
    ASSUME PartitionTypeOK, CheckPartitions, NEW p \in Peers, NEW d \in Nat,
           MaxDelay + d <= PartitionAfter, HeardWithin(p, d)
    PROVE  HeardWithin(p, d)'
<1>1. peer[p].age \in Nat /\ peer[p].age <= PartitionAfter
  BY Constants DEF PartitionTypeOK, Ages, HeardWithin
<1>2. Judged(p) \in {"active", "suspected"}
  BY <1>1, Constants DEF Judged, HeardWithin
<1>3. peer'[p].state = Judged(p) /\ peer'[p].age = peer[p].age
  BY DEF CheckPartitions, PartitionTypeOK
<1> QED
  BY <1>2, <1>3 DEF HeardWithin

\* A quiet interval makes every sign of life one interval older.
LEMMA Aged ==
    ASSUME PartitionTypeOK, Tick, NEW p \in Peers, NEW d \in Nat, HeardWithin(p, d)
    PROVE  HeardWithin(p, d + 1)'
<1>1. peer[p].age \in Ages /\ peer'[p] = [peer[p] EXCEPT !.age = Older(peer[p].age)]
  BY DEF Tick, PartitionTypeOK
<1>2. peer'[p].state = peer[p].state /\ peer'[p].age = Older(peer[p].age)
  BY <1>1 DEF PartitionTypeOK
<1>3. Older(peer[p].age) \in Nat /\ peer[p].age \in Nat /\ Older(peer[p].age) <= peer[p].age + 1
  BY <1>1, OlderFacts, Constants DEF Ages
<1> QED
  BY <1>2, <1>3, Constants DEF HeardWithin

\* A link that is not up, or has only come up, promises nothing yet.
LEMMA NewlyUp ==
    ASSUME NEW p \in Peers, steady'[p] = 0
    PROVE  PeerSound(p)'
<1>1. Settled # 0 /\ \A a \in Delays : ~(0 > a)
  BY Constants DEF Delays
<1> QED
  BY <1>1 DEF PeerSound

LEMMA TickSound ==
    ASSUME PartitionTypeOK, Tick, NEW p \in Peers, PeerSound(p)
    PROVE  PeerSound(p)'
<1>1. CASE p \notin link
  BY <1>1, NewlyUp DEF Tick, PartitionTypeOK
<1>2. CASE p \in link
  <2> DEFINE s == steady[p]
  <2>1. /\ s \in 0 .. Settled /\ p \in link' /\ p \in beat' /\ p \notin beat
        /\ steady'[p] = IF s = Settled THEN Settled ELSE s + 1
        /\ flying'[p] = {Older(a) : a \in flying[p]} \cap Delays
        /\ MaxDelay \notin flying[p]
    BY <1>2 DEF Tick, PartitionTypeOK
  <2>2. ASSUME NEW b \in Delays, steady'[p] > b, b > 0
        PROVE  b \in flying'[p] \/ HeardWithin(p, b)'
    <3>1. b - 1 \in Delays /\ b - 1 \in Nat /\ b - 1 + 1 = b /\ s > b - 1
      BY <2>1, <2>2, Constants DEF Delays
    <3>2. b - 1 \in flying[p] \/ HeardWithin(p, b - 1)
      BY <2>1, <3>1 DEF PeerSound
    <3>3. CASE b - 1 \in flying[p]
      <4>1. Older(b - 1) = b
        BY <3>1, OlderFacts, DelaysAreAges
      <4> QED
        BY <2>1, <3>3, <4>1
    <3>4. CASE HeardWithin(p, b - 1)
      BY <3>1, <3>4, Aged
    <3> QED
      BY <3>2, <3>3, <3>4
  <2>3. ASSUME steady'[p] = Settled PROVE HeardWithin(p, MaxDelay + 1)'
    <3>1. s > MaxDelay /\ MaxDelay \in Delays /\ MaxDelay \in Nat
      BY <2>1, <2>3, Constants DEF Delays
    <3>2. HeardWithin(p, MaxDelay)
      BY <2>1, <3>1 DEF PeerSound
    <3> QED
      BY <3>1, <3>2, Aged
  <2> QED
    BY <2>1, <2>2, <2>3 DEF PeerSound
<1> QED
  BY <1>1, <1>2

LEMMA HeartbeatStep ==
    ASSUME 2 * MaxDelay < PartitionAfter, PartitionTypeOK, [Next]_vars,
           NEW p \in Peers, PeerSound(p)
    PROVE  PeerSound(p)'
<1>1. ASSUME UNCHANGED <<link, beat, flying, peer, steady>> PROVE PeerSound(p)'
  BY <1>1 DEF PeerSound, HeardWithin
<1>2. CASE Tick
  BY <1>2, TickSound
<1>3. CASE CheckPartitions
  <2>1. UNCHANGED <<link, beat, flying, steady>>
    BY <1>3 DEF CheckPartitions
  <2>2. \A d \in Nat : d <= MaxDelay + 1 /\ HeardWithin(p, d) => HeardWithin(p, d)'
    <3> TAKE d \in Nat
    <3> HAVE d <= MaxDelay + 1 /\ HeardWithin(p, d)
    <3>1. MaxDelay + d <= PartitionAfter
      BY Constants
    <3> QED
      BY <1>3, <3>1, Spared
  <2>3. Delays \subseteq Nat /\ (\A a \in Delays : a <= MaxDelay + 1) /\ MaxDelay + 1 \in Nat
    BY Constants DEF Delays
  <2>4. ASSUME NEW a \in Delays, steady'[p] > a, p \notin beat' \/ a > 0
        PROVE  a \in flying'[p] \/ HeardWithin(p, a)'
    <3>1. a \in flying[p] \/ HeardWithin(p, a)
      BY <2>1, <2>4 DEF PeerSound
    <3> QED
      BY <2>1, <2>2, <2>3, <3>1
  <2>5. ASSUME steady'[p] = Settled PROVE HeardWithin(p, MaxDelay + 1)'
    <3>1. HeardWithin(p, MaxDelay + 1)
      BY <2>1, <2>5 DEF PeerSound
    <3>2. MaxDelay + 1 \in Nat /\ MaxDelay + 1 <= MaxDelay + 1
      BY Constants
    <3> QED
      BY <2>2, <3>1, <3>2
  <2>6. p \notin link' => steady'[p] = 0
    BY <2>1 DEF PeerSound
  <2> QED
    BY <2>4, <2>5, <2>6 DEF PeerSound
<1>4. CASE Restart
  BY <1>4, NewlyUp DEF Restart
<1>5. ASSUME NEW q \in Peers, Send(q) PROVE PeerSound(p)'
  <2>1. UNCHANGED <<link, steady, peer>>
    BY <1>5 DEF Send
  <2>2. CASE q # p
    <3>1. flying'[p] = flying[p] /\ (p \in beat' <=> p \in beat)
      BY <1>5, <2>2 DEF Send, PartitionTypeOK
    <3> QED
      BY <2>1, <3>1 DEF PeerSound, HeardWithin
  <2>3. CASE q = p /\ p \in link
    <3>1. flying'[p] = flying[p] \cup {0}
      BY <1>5, <2>3 DEF Send, PartitionTypeOK
    <3>2. \A a \in Delays : a = 0 \/ a > 0
      BY DEF Delays
    <3> QED
      BY <2>1, <3>1, <3>2 DEF PeerSound, HeardWithin
  <2>4. CASE q = p /\ p \notin link
    BY <2>1, <2>4, NewlyUp DEF PeerSound
  <2> QED
    BY <2>2, <2>3, <2>4
<1>6. ASSUME NEW q \in Peers, LinkDown(q) PROVE PeerSound(p)'
  <2>1. CASE q = p
    BY <1>6, <2>1, NewlyUp DEF LinkDown, PartitionTypeOK
  <2>2. CASE q # p
    <3>1. steady'[p] = steady[p] /\ (p \in link' <=> p \in link) /\ UNCHANGED <<beat, flying, peer>>
      BY <1>6, <2>2 DEF LinkDown, PartitionTypeOK
    <3> QED
      BY <3>1 DEF PeerSound, HeardWithin
  <2> QED
    BY <2>1, <2>2
<1>7. ASSUME NEW q \in Peers, LinkUp(q) PROVE PeerSound(p)'
  <2>1. (p \in link => p \in link') /\ UNCHANGED <<beat, flying, peer, steady>>
    BY <1>7 DEF LinkUp
  <2> QED
    BY <2>1 DEF PeerSound, HeardWithin
<1>8. ASSUME NEW q \in Peers, NEW a \in Delays, Lose(q, a) PROVE PeerSound(p)'
  <2>1. UNCHANGED <<link, steady, peer, beat>>
    BY <1>8 DEF Lose
  <2>2. CASE q = p
    BY <1>8, <2>1, <2>2, NewlyUp DEF Lose, PeerSound
  <2>3. CASE q # p
    <3>1. flying'[p] = flying[p]
      BY <1>8, <2>3 DEF Lose, PartitionTypeOK
    <3> QED
      BY <2>1, <3>1 DEF PeerSound, HeardWithin
  <2> QED
    BY <2>2, <2>3
<1>9. ASSUME NEW q \in Peers, NEW a \in Delays, ProcessHeartbeat(q, a) PROVE PeerSound(p)'
  <2>1. UNCHANGED <<link, steady, beat>>
    BY <1>9 DEF ProcessHeartbeat
  <2>2. CASE q = p
    <3>1. \A d \in Nat : HeardWithin(p, d)'
      BY <1>9, <2>2, Processed
    <3>2. Delays \subseteq Nat /\ MaxDelay + 1 \in Nat
      BY Constants DEF Delays
    <3> QED
      BY <2>1, <3>1, <3>2 DEF PeerSound
  <2>3. CASE q # p
    <3>1. flying'[p] = flying[p] /\ peer'[p] = peer[p]
      BY <1>9, <2>3 DEF ProcessHeartbeat, PartitionTypeOK
    <3> QED
      BY <2>1, <3>1 DEF PeerSound, HeardWithin
  <2> QED
    BY <2>2, <2>3
<1>10. CASE Propose \/ RecordAutonomousAction
  BY <1>1, <1>10 DEF Propose, RecordAutonomousAction
<1>11. CASE UNCHANGED vars
  BY <1>1, <1>11 DEF vars
<1> QED
  BY <1>2, <1>3, <1>4, <1>5, <1>6, <1>7, <1>8, <1>9, <1>10, <1>11 DEF Next

\* Heartbeats may overtake one another and arrive as late as the client's timeout lets them: a peer
\* whose link has been up for MaxDelay + 2 intervals is not taken for partitioned, if PartitionAfter
\* is more than twice MaxDelay (ProcessHeartbeat, CheckPartitions).
THEOREM NoFalseAlarms == Spec => []NoFalseAlarm
<1>1. CASE 2 * MaxDelay < PartitionAfter
  <2>1. Init => HeartbeatInvariant
    <3> SUFFICES ASSUME Init, NEW p \in Peers PROVE PeerSound(p)
      BY DEF HeartbeatInvariant
    <3>1. steady[p] = 0 /\ Settled # 0 /\ \A a \in Delays : ~(0 > a)
      BY Constants DEF Init, Delays
    <3> QED
      BY <3>1 DEF PeerSound
  <2>2. PartitionTypeOK /\ HeartbeatInvariant /\ [Next]_vars => HeartbeatInvariant'
    <3> SUFFICES ASSUME PartitionTypeOK, HeartbeatInvariant, [Next]_vars PROVE HeartbeatInvariant'
      OBVIOUS
    <3>1. \A p \in Peers : PeerSound(p)
      BY DEF HeartbeatInvariant
    <3>2. \A p \in Peers : PeerSound(p)'
      BY <1>1, <3>1, HeartbeatStep
    <3> QED
      BY <3>2 DEF HeartbeatInvariant
  <2>3. HeartbeatInvariant => NoFalseAlarm
    BY DEF HeartbeatInvariant, PeerSound, NoFalseAlarm, HeardWithin
  <2> QED
    BY <2>1, <2>2, <2>3, PartitionTypes, PTL DEF Spec
<1>2. CASE ~(2 * MaxDelay < PartitionAfter)
  <2>1. NoFalseAlarm
    BY <1>2 DEF NoFalseAlarm
  <2> QED
    BY <1>2, <2>1, PTL DEF NoFalseAlarm
<1> QED
  BY <1>1, <1>2
=============================================================================
