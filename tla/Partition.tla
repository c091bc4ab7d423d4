----------------------------- MODULE Partition -----------------------------
(***************************************************************************)
(* Heartbeats, split-brain detection and the limit on autonomous actions,  *)
(* seen from one node of the federation.                                   *)
(*                                                                         *)
(* Sources: internal/federation/manager.go (sendHeartbeats of the peers,   *)
(* ProcessHeartbeat, CheckPartitions, CanExecuteAutonomously,              *)
(* RecordAutonomousAction), internal/service/kernel_bridge.go              *)
(* (handleProposeAction).                                                  *)
(*                                                                         *)
(* Time is counted in heartbeat intervals.  An instant is kept as its age, *)
(* which stops at Old, where every comparison the code makes has its final *)
(* value: so time has no bound.  A peer never heard of has the zero time.  *)
(***************************************************************************)
EXTENDS Naturals, FiniteSets

CONSTANTS
    Peers,            \* the other nodes
    Configured,       \* those in this node's configuration; it hears of the others
    SuspectAfter,     \* SuspectAfterMissed
    PartitionAfter,   \* PartitionAfterMissed
    Policies,         \* the values of SplitBrainPolicy: one per behaviour
    MaxDelay,         \* the client's timeout: intervals a heartbeat can be under way
    MaxRestarts       \* bound of the model

ASSUME PartitionAssumption ==
    /\ Configured \subseteq Peers
    /\ SuspectAfter \in Nat /\ PartitionAfter \in Nat
    /\ MaxDelay \in 0 .. PartitionAfter /\ MaxRestarts \in Nat
    /\ \A p \in Policies : p.limit \in Nat \ {0} /\ p.restrict \in BOOLEAN /\ p.approval \in BOOLEAN

VARIABLES
    peer,        \* m.peers: the state and the age of LastSeen of each peer this node knows
    link,        \* peers that run and that the network connects
    beat,        \* peers whose ticker is due in this interval
    flying,      \* ages of the heartbeats of a peer that are under way
    ticks,       \* intervals since this node's last check, and since its start
    split,       \* splitBrainDetected
    actions,     \* autonomousActionCount, as far as a limit can tell
    policy,      \* SplitBrainPolicy
    proposer,    \* the kernel bridge's goroutine in handleProposeAction
    steady,      \* intervals a peer's link has been up while this node runs
    gone,        \* actions that went ahead since the split was detected
    restarts     \* restarts so far

vars == <<peer, link, beat, flying, ticks, split, actions, policy, proposer, steady, gone, restarts>>

Old == PartitionAfter + 1
Ages == 0 .. Old
Delays == 0 .. MaxDelay
Older(a) == IF a = Old THEN Old ELSE a + 1

\* How long after its link came up a peer can still be thought gone.
Settled == MaxDelay + 2

Stranger == [state |-> "stranger", age |-> Old]
Known(p) == peer[p].state # "stranger"

More(n) == IF n > policy.limit THEN n ELSE n + 1

PartitionTypeOK ==
    /\ peer \in [Peers -> [state : {"stranger", "unknown", "active", "suspected", "partitioned"},
                           age : Ages]]
    /\ link \subseteq Peers /\ beat \subseteq Peers
    /\ flying \in [Peers -> SUBSET Delays]
    /\ ticks \in 0 .. 2
    /\ split \in BOOLEAN
    /\ policy \in Policies
    /\ actions \in 0 .. policy.limit + 1
    /\ proposer \in {"idle", "go"}
    /\ steady \in [Peers -> 0 .. Settled]
    /\ gone \in 0 .. policy.limit + 1
    /\ restarts \in 0 .. MaxRestarts

\* NewManager: no peer was heard of, and what was discovered before is forgotten.
Fresh == [p \in Peers |-> IF p \in Configured THEN [state |-> "unknown", age |-> Old] ELSE Stranger]

Init ==
    /\ peer = Fresh
    /\ link \in SUBSET Peers
    /\ beat = Peers
    /\ flying = [p \in Peers |-> {}]
    /\ ticks = 0
    /\ split = FALSE /\ actions = 0
    /\ policy \in Policies
    /\ proposer = "idle"
    /\ steady = [p \in Peers |-> 0]
    /\ gone = 0 /\ restarts = 0

-----------------------------------------------------------------------------
(* Time and the network.                                                    *)

\* An interval ends when every ticker has fired in it.  What is still under way after MaxDelay is
\* given up by its sender; a working network has delivered it by then.
Tick ==
    /\ beat = {} /\ ticks < 2
    /\ \A p \in link : MaxDelay \notin flying[p]
    /\ beat' = Peers
    /\ ticks' = ticks + 1
    /\ peer' = [p \in Peers |-> [peer[p] EXCEPT !.age = Older(@)]]
    /\ flying' = [p \in Peers |-> {Older(a) : a \in flying[p]} \cap Delays]
    /\ steady' = [p \in Peers |-> IF p \notin link THEN 0
                                  ELSE IF steady[p] = Settled THEN Settled ELSE steady[p] + 1]
    /\ UNCHANGED <<link, split, actions, policy, proposer, gone, restarts>>

\* A peer posts its heartbeat, with its own clock's time; nobody retries one that fails.
Send(p) ==
    /\ p \in beat
    /\ beat' = beat \ {p}
    /\ flying' = IF p \in link THEN [flying EXCEPT ![p] = @ \cup {0}] ELSE flying
    /\ UNCHANGED <<peer, link, ticks, split, actions, policy, proposer, steady, gone, restarts>>

Lose(p, a) ==
    /\ p \notin link /\ a \in flying[p]
    /\ flying' = [flying EXCEPT ![p] = @ \ {a}]
    /\ UNCHANGED <<peer, link, beat, ticks, split, actions, policy, proposer, steady, gone, restarts>>

LinkDown(p) ==
    /\ p \in link
    /\ link' = link \ {p}
    /\ steady' = [steady EXCEPT ![p] = 0]
    /\ UNCHANGED <<peer, beat, flying, ticks, split, actions, policy, proposer, gone, restarts>>

LinkUp(p) ==
    /\ p \notin link
    /\ link' = link \cup {p}
    /\ UNCHANGED <<peer, beat, flying, ticks, split, actions, policy, proposer, steady, gone, restarts>>

-----------------------------------------------------------------------------
(* The node.                                                                *)

\* ProcessHeartbeat: whoever sent it is active, since the instant the message names, which may lie
\* before the one of a heartbeat that came earlier.
SeenBug(p, a) == [state |-> IF peer[p].state = "partitioned" THEN "partitioned" ELSE "active",
                  age |-> a]

Seen(p, a) == [state |-> "active", age |-> a]

ProcessHeartbeat(p, a) ==
    /\ a \in flying[p]
    /\ flying' = [flying EXCEPT ![p] = @ \ {a}]
    /\ peer' = [peer EXCEPT ![p] = Seen(p, a)]
    /\ UNCHANGED <<link, beat, ticks, split, actions, policy, proposer, steady, gone, restarts>>

\* CheckPartitions, every second interval, in one critical section.
JudgedBug(p) ==
    CASE peer[p].state \in {"active", "suspected"} /\ peer[p].age > PartitionAfter -> "partitioned"
      [] peer[p].state = "active" /\ peer[p].age > SuspectAfter
                                /\ peer[p].age <= PartitionAfter -> "suspected"
      [] OTHER -> peer[p].state

Judged(p) ==
    CASE Known(p) /\ peer[p].age > PartitionAfter -> "partitioned"
      [] peer[p].state = "active" /\ peer[p].age > SuspectAfter
                                /\ peer[p].age <= PartitionAfter -> "suspected"
      [] OTHER -> peer[p].state

MajorityGone ==
    2 * Cardinality({p \in Peers : Judged(p) = "partitioned"}) > Cardinality({p \in Peers : Known(p)})

CheckPartitionsBug ==
    /\ ticks = 2
    /\ ticks' = 0
    /\ peer' = [p \in Peers |-> [peer[p] EXCEPT !.state = Judged(p)]]
    /\ split' = MajorityGone
    /\ IF MajorityGone THEN actions' = 0 ELSE UNCHANGED actions
    /\ IF MajorityGone /\ ~split THEN gone' = 0 ELSE UNCHANGED gone
    /\ UNCHANGED <<link, beat, flying, policy, proposer, steady, restarts>>

CheckPartitions ==
    /\ ticks = 2
    /\ ticks' = 0
    /\ peer' = [p \in Peers |-> [peer[p] EXCEPT !.state = Judged(p)]]
    /\ split' = MajorityGone
    /\ IF MajorityGone /\ ~split THEN actions' = 0 /\ gone' = 0 ELSE UNCHANGED <<actions, gone>>
    /\ UNCHANGED <<link, beat, flying, policy, proposer, steady, restarts>>

\* handleProposeAction asks under one lock ...
CanExecuteAutonomously ==
    split => /\ ~policy.approval
             /\ policy.restrict => actions < policy.limit

Propose ==
    /\ proposer = "idle" /\ CanExecuteAutonomously
    /\ proposer' = "go"
    /\ UNCHANGED <<peer, link, beat, flying, ticks, split, actions, policy, steady, gone, restarts>>

\* ... and counts under the next.
RecordAutonomousActionBug ==
    /\ proposer = "go"
    /\ proposer' = "idle"
    /\ actions' = actions + 1 /\ gone' = More(gone)
    /\ UNCHANGED <<peer, link, beat, flying, ticks, split, policy, steady, restarts>>

RecordAutonomousAction ==
    /\ proposer = "go"
    /\ proposer' = "idle"
    /\ actions' = More(actions) /\ gone' = More(gone)
    /\ UNCHANGED <<peer, link, beat, flying, ticks, split, policy, steady, restarts>>

Restart ==
    /\ restarts < MaxRestarts
    /\ restarts' = restarts + 1
    /\ peer' = Fresh
    /\ ticks' = 0
    /\ split' = FALSE /\ actions' = 0 /\ gone' = 0
    /\ proposer' = "idle"
    /\ steady' = [p \in Peers |-> 0]
    /\ UNCHANGED <<link, beat, flying, policy>>

-----------------------------------------------------------------------------
Next ==
    \/ Tick \/ CheckPartitions \/ Propose \/ RecordAutonomousAction \/ Restart
    \/ \E p \in Peers :
          \/ Send(p) \/ LinkDown(p) \/ LinkUp(p)
          \/ \E a \in Delays : Lose(p, a) \/ ProcessHeartbeat(p, a)

Spec == Init /\ [][Next]_vars

\* Time passes, tickers fire, and a heartbeat under way arrives or is lost.  Links come and go as
\* they like, and nobody has to propose anything.
FairSpec ==
    /\ Spec
    /\ WF_vars(Tick) /\ WF_vars(CheckPartitions)
    /\ \A p \in Peers : WF_vars(Send(p)) /\ WF_vars(\E a \in Delays : ProcessHeartbeat(p, a))

-----------------------------------------------------------------------------
(* Properties.                                                              *)

\* From the moment a split is detected no more actions go ahead than the policy allows; one that
\* was allowed before it may still be among them, so that even where every action needs approval
\* one can (CanExecuteAutonomously, RecordAutonomousAction: two critical sections).
AutonomyLimit ==
    split => /\ policy.restrict => gone <= policy.limit
             /\ policy.approval => gone <= 1

\* A peer that has been connected for a while is not thought partitioned, whatever the order its
\* heartbeats arrive in, as long as PartitionAfter is more than twice the time one can be under way:
\* the last to arrive may be that old when it does (ProcessHeartbeat, CheckPartitions).
NoFalseAlarm ==
    2 * MaxDelay < PartitionAfter =>
        \A p \in Peers : steady[p] = Settled => peer[p].state \in {"active", "suspected"}

\* A node that loses all its peers for good knows it in the end, and one whose peers all stay
\* connected is not held back for ever (docs/architecture/federation-model.md, Resolution).
SplitFollowsNetwork ==
    /\ (<>[](link = {}) /\ Configured # {}) => <>[]split
    /\ <>[](link = Peers) => <>[]~split

-----------------------------------------------------------------------------
(* What makes AutonomyLimit and NoFalseAlarm inductive.                     *)

\* The count is of the actions since the split, and one that was allowed still fits below the limit.
LimitInvariant ==
    /\ gone = actions
    /\ split /\ policy.restrict =>
          actions <= policy.limit /\ (proposer = "go" => actions < policy.limit)
    /\ split /\ policy.approval =>
          actions <= 1 /\ (proposer = "go" => actions = 0)

\* A heartbeat of p was processed at most d intervals ago.
HeardWithin(p, d) == peer[p].state \in {"active", "suspected"} /\ peer[p].age <= MaxDelay + d

\* What a connected peer sent a intervals ago is under way, or it was heard of since.
PeerSound(p) ==
    /\ p \notin link => steady[p] = 0
    /\ \A a \in Delays : steady[p] > a /\ (p \notin beat \/ a > 0) =>
          a \in flying[p] \/ HeardWithin(p, a)
    /\ steady[p] = Settled => HeardWithin(p, MaxDelay + 1)

HeartbeatInvariant == \A p \in Peers : PeerSound(p)
=============================================================================
