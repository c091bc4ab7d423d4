----------------------------- MODULE Federation -----------------------------
(***************************************************************************)
(* How events travel: internal/service/kernel_bridge.go records what       *)
(* happens on a node in its event log and applies it to its kernel, and    *)
(* internal/federation/manager.go pulls what peers have recorded.          *)
(*                                                                         *)
(* On every node run one event-bus adapter (ingestKernelEvent), one push   *)
(* loop (pushSyncLoop) and, from each tick of syncLoop, a goroutine per    *)
(* peer.  They share the event log (Log.mu is held around one Append), the *)
(* kernel (Kernel.mu, around one Apply) and the manager's dedup set and    *)
(* sync positions (Manager.mu, around one access): nothing is held from    *)
(* one of these steps to the next, so that a step here is one of them, or  *)
(* one request served by the peer.  A name that ends in Bug is the mutated *)
(* form of the operator that follows it.                                   *)
(***************************************************************************)
EXTENDS EventLog, Sequences

CONSTANTS
  Nodes, Events, Home, Peers, Untrusted, ReadOnly, Wanted,  \* as in Replication
  Adapters, Pushers, Tickers,          \* the goroutines
  On,             \* On[g]: the node goroutine g runs on
  BatchSize,      \* sync_batch_size
  KeepMin,        \* events that compaction never deletes (1000 in the code)
  DedupCap,       \* size at which the dedup set is evicted (100000)
  NotifyCapacity, \* capacity of pushNotifyCh (64)
  MaxNumber,      \* bound: sequence numbers given out
  MaxFaults,      \* bound: INSERTs that fail though the row would fit
  MaxCrashes,     \* bound: crashes of a node
  MaxSnapshots,   \* bound: snapshots taken
  MaxCompactions, \* bound: runs of the compaction worker
  None            \* no event, no peer

Pullers    == Pushers \cup Tickers
Goroutines == Adapters \cup Pullers

ASSUME FederationAssumption ==
  /\ Home \in [Events -> Nodes]
  /\ Peers \in [Nodes -> SUBSET Nodes] /\ Untrusted \in [Nodes -> SUBSET Nodes]
  /\ ReadOnly \in [Nodes -> SUBSET Nodes]
  /\ Wanted \in [Nodes -> [Nodes -> SUBSET Events]]
  /\ On \in [Goroutines -> Nodes]
  /\ Adapters \cap Pullers = {}
  /\ BatchSize \in Nat \ {0} /\ NotifyCapacity \in Nat /\ KeepMin \in Nat
  /\ MaxFaults \in Nat /\ MaxCrashes \in Nat
  /\ MaxSnapshots \in Nat /\ MaxCompactions \in Nat
  /\ None \notin Events \cup Nodes

VARIABLES
  log,      \* log[n]: the event log (EventLog)
  dedup,    \* dedup[n]: Manager.dedup, event ids already taken from a peer
  position, \* position[n][p]: Peer.LastSyncSeq of n for p
  notify,   \* notify[n]: pushNotifyCh, the peers that announced news
  posts,    \* <<n, p>>: a notification from n is on its way to p
  gr,       \* gr[g]: where goroutine g is
  applied,  \* applied[n]: the rows n's kernel has applied, since it started
  copied,   \* copied[n]: the kernel state takeSnapshot has read, or None
  snapshot, \* snapshot[n]: the latest snapshot stored, or None
  stored,   \* history: stored[n], every row ever in n's log
  budget    \* what is left of the bounds on crashes, faults, ...

vars == <<log, dedup, position, notify, posts, gr, applied, copied, snapshot, stored, budget>>

(* A goroutine: its step, the peer it pulls from and after which number,   *)
(* the rows of the answer still to be looked at, the number it will move   *)
(* its position to, and the event in hand with the number reserved for it. *)
Idle == [pc |-> "idle", peer |-> None, after |-> 0, batch |-> {}, end |-> 0,
         event |-> None, seq |-> 0]

Init ==
  /\ log = [n \in Nodes |-> EmptyLog]
  /\ dedup = [n \in Nodes |-> {}]
  /\ position = [n \in Nodes |-> [p \in Nodes |-> 0]]
  /\ notify = [n \in Nodes |-> <<>>]
  /\ posts = {}
  /\ gr = [g \in Goroutines |-> Idle]
  /\ applied = [n \in Nodes |-> {}]
  /\ copied = [n \in Nodes |-> None]
  /\ snapshot = [n \in Nodes |-> None]
  /\ stored = [n \in Nodes |-> {}]
  /\ budget = [faults |-> MaxFaults, crashes |-> MaxCrashes,
               snapshots |-> MaxSnapshots, compactions |-> MaxCompactions]

Spend(what) == budget[what] > 0 /\ budget' = [budget EXCEPT ![what] = @ - 1]

At(g, pc) == gr[g].pc = pc

(* Log.mu is held from the reservation of a number to the end of the INSERT. *)
LogFree(n) == \A g \in Goroutines : On[g] = n => ~At(g, "insert")

-----------------------------------------------------------------------------
(* What happens on the node itself.                                        *)

Happened(e) == \/ \E g \in Adapters : gr[g].event = e
               \/ \E n \in Nodes : e \in Ids(stored[n])

(* ingestKernelEvent, up to the Append: an event of the bus is in hand.    *)
Observe(g, e) ==
  /\ At(g, "idle") /\ Home[e] = On[g] /\ ~Happened(e)
  /\ gr' = [gr EXCEPT ![g].pc = "append", ![g].event = e]
  /\ UNCHANGED <<log, dedup, position, notify, posts, applied, copied, snapshot, stored, budget>>

(* Log.Append of the event in hand, in its two halves.                     *)
TakeNumber(g) ==
  LET n == On[g] IN
  /\ At(g, "append") /\ LogFree(n) /\ log[n].last < MaxNumber
  /\ log' = [log EXCEPT ![n] = Reserve(@)]
  /\ gr' = [gr EXCEPT ![g].pc = "insert", ![g].seq = log[n].last + 1]
  /\ UNCHANGED <<dedup, position, notify, posts, applied, copied, snapshot, stored, budget>>

(* Back to the caller's loop: the adapter waits for the bus, a pull goes   *)
(* on with the rest of its batch.                                          *)
ResumeBug(g) ==
  IF g \in Adapters THEN Idle ELSE [gr[g] EXCEPT !.pc = IF @ = "insert" THEN "apply" ELSE "next"]

Resume(g) ==
  IF g \in Adapters THEN Idle
  ELSE [gr[g] EXCEPT !.pc = "next", !.event = None, !.seq = 0]

InsertRow(g) ==
  LET n == On[g] IN
  /\ At(g, "insert") /\ Accepts(log[n], gr[g].event, gr[g].seq)
  /\ log' = [log EXCEPT ![n] = Store(@, gr[g].event, gr[g].seq)]
  /\ stored' = [stored EXCEPT ![n] = @ \cup {[seq |-> gr[g].seq, id |-> gr[g].event]}]
  /\ gr' = [gr EXCEPT ![g].pc = "apply"]
  /\ UNCHANGED <<dedup, position, notify, posts, applied, copied, snapshot, budget>>

(* Append returns an error: the event is logged as failed and passed over. *)
RefuseRow(g) ==
  /\ At(g, "insert") /\ ~Accepts(log[On[g]], gr[g].event, gr[g].seq)
  /\ gr' = [gr EXCEPT ![g] = Resume(g)]
  /\ UNCHANGED <<log, dedup, position, notify, posts, applied, copied, snapshot, stored, budget>>

InsertFails(g) ==
  /\ At(g, "insert") /\ Spend("faults")
  /\ gr' = [gr EXCEPT ![g] = Resume(g)]
  /\ UNCHANGED <<log, dedup, position, notify, posts, applied, copied, snapshot, stored>>

(* SendPushNotifications: only after an event of the node's own.           *)
Announced(g) == IF g \in Adapters THEN {<<On[g], p>> : p \in Peers[On[g]]} ELSE {}

AppliedToBug(rows, row) == IF \E r \in rows : r.seq > row.seq THEN rows ELSE rows \cup {row}

AppliedTo(rows, row) == rows \cup {row}

(* Kernel.Apply, with the number the log gave the event.                   *)
Apply(g) ==
  LET n == On[g] IN
  /\ At(g, "apply")
  /\ applied' = [applied EXCEPT ![n] = AppliedTo(@, [seq |-> gr[g].seq, id |-> gr[g].event])]
  /\ posts' = posts \cup Announced(g)
  /\ gr' = [gr EXCEPT ![g] = Resume(g)]
  /\ UNCHANGED <<log, dedup, position, notify, copied, snapshot, stored, budget>>

-----------------------------------------------------------------------------
(* News from a peer.                                                       *)

RoomBug(n) == Len(notify[n]) <= NotifyCapacity

Room(n) == Len(notify[n]) < NotifyCapacity

(* NotifyNewEvents, and the same select in ProcessHeartbeat: a full queue  *)
(* drops the announcement.                                                 *)
Notify(n, p) ==
  notify' = IF Room(n) THEN [notify EXCEPT ![n] = Append(@, p)] ELSE notify

ReceivePost(n, p) ==
  /\ <<p, n>> \in posts
  /\ posts' = posts \ {<<p, n>>}
  /\ Notify(n, p)
  /\ UNCHANGED <<log, dedup, position, gr, applied, copied, snapshot, stored, budget>>

LosePost(n, p) ==
  /\ <<p, n>> \in posts
  /\ posts' = posts \ {<<p, n>>}
  /\ UNCHANGED <<log, dedup, position, notify, gr, applied, copied, snapshot, stored, budget>>

(* p sends heartbeats to the peers it is configured with, trusted or not;  *)
(* a peer that registered itself has no endpoint.                          *)
Hears(n, p) == n \in Peers[p] \cup Untrusted[p]

(* ProcessHeartbeat: p reports the counter of its log.                     *)
HasNews(n, p) == log[p].last > position[n][p]

ReceiveHeartbeat(n, p) ==
  /\ Hears(n, p)
  /\ HasNews(n, p)
  /\ Notify(n, p)
  /\ UNCHANGED <<log, dedup, position, posts, gr, applied, copied, snapshot, stored, budget>>

-----------------------------------------------------------------------------
(* pullFromSinglePeer and the two handlers it needs.                       *)

Asking(g, p) == [Idle EXCEPT !.pc = "asked", !.peer = p, !.after = position[On[g]][p]]

(* pushSyncLoop takes the next announcement, and passes over a peer that   *)
(* is not configured or not trusted.                                       *)
PushPull(g) ==
  LET n == On[g] IN
  /\ At(g, "idle") /\ notify[n] # <<>>
  /\ notify' = [notify EXCEPT ![n] = Tail(@)]
  /\ gr' = [gr EXCEPT ![g] = IF Head(notify[n]) \in Peers[n] THEN Asking(g, Head(notify[n])) ELSE @]
  /\ UNCHANGED <<log, dedup, position, posts, applied, copied, snapshot, stored, budget>>

(* syncLoop: a tick starts a pull from every peer it trusts and has heard  *)
(* of lately; when a peer is heard of is left open.                        *)
TickPull(g, p) ==
  /\ At(g, "idle") /\ p \in Peers[On[g]] /\ Hears(On[g], p)
  /\ gr' = [gr EXCEPT ![g] = Asking(g, p)]
  /\ UNCHANGED <<log, dedup, position, notify, posts, applied, copied, snapshot, stored, budget>>

AnswerBug(n, p, after) == Page(log[p], after, BatchSize)

(* HandleSyncRequest on p: a page of the log, then the filter of the scope. *)
Answer(n, p, after) == {r \in Page(log[p], after, BatchSize) : r.id \in Wanted[n][p]}

(* A peer that is not configured at all registers itself with its first    *)
(* heartbeat and is trusted to read; until then its pull fails.            *)
TrustsBug(p, n) == TRUE

Trusts(p, n) == n \notin Untrusted[p]

NextPositionBug(p, rows) == log[p].last

(* The number of the last event of the answer: LastSequence is not read.   *)
NextPosition(p, rows) == TopNumber(rows)

(* The answer arrives.  Its HasMore is not read either, and without events *)
(* the pull ends where it began.                                           *)
Receive(g) ==
  LET n == On[g]
      p == gr[g].peer
      rows == Answer(n, p, gr[g].after)
  IN
  /\ At(g, "asked") /\ Trusts(p, n)
  /\ gr' = [gr EXCEPT ![g] =
              IF rows = {} THEN Idle
              ELSE [Idle EXCEPT !.pc = "next", !.peer = p, !.batch = rows, !.end = NextPosition(p, rows)]]
  /\ UNCHANGED <<log, dedup, position, notify, posts, applied, copied, snapshot, stored, budget>>

(* No answer, or an error: the pull ends.                                  *)
PullFails(g) ==
  /\ At(g, "asked")
  /\ gr' = [gr EXCEPT ![g] = Idle]
  /\ UNCHANGED <<log, dedup, position, notify, posts, applied, copied, snapshot, stored, budget>>

(* IngestSyncedEvents takes the next row: a known one is skipped, any other *)
(* is marked as known, before it is appended.                              *)
Skip(g) ==
  /\ At(g, "next") /\ gr[g].batch # {}
  /\ FirstRow(gr[g].batch).id \in dedup[On[g]]
  /\ gr' = [gr EXCEPT ![g].batch = @ \ {FirstRow(@)}]
  /\ UNCHANGED <<log, dedup, position, notify, posts, applied, copied, snapshot, stored, budget>>

(* The dedup set after marking: above its cap, old entries are evicted.    *)
Evictions(known, e) ==
  IF Cardinality(known \cup {e}) > DedupCap
  THEN {kept \cup {e} : kept \in SUBSET known} ELSE {known \cup {e}}

Mark(g) ==
  LET n == On[g]
      row == FirstRow(gr[g].batch)
  IN
  /\ At(g, "next") /\ gr[g].batch # {}
  /\ row.id \notin dedup[n]
  /\ \E known \in Evictions(dedup[n], row.id) : dedup' = [dedup EXCEPT ![n] = known]
  /\ gr' = [gr EXCEPT ![g].pc = "append", ![g].batch = @ \ {row}, ![g].event = row.id]
  /\ UNCHANGED <<log, position, notify, posts, applied, copied, snapshot, stored, budget>>

(* The batch is done: the position moves to its last row, whatever became  *)
(* of its events.                                                          *)
Finish(g) ==
  /\ At(g, "next") /\ gr[g].batch = {}
  /\ position' = [position EXCEPT ![On[g]][gr[g].peer] = gr[g].end]
  /\ gr' = [gr EXCEPT ![g] = Idle]
  /\ UNCHANGED <<log, dedup, notify, posts, applied, copied, snapshot, stored, budget>>

-----------------------------------------------------------------------------
(* Snapshots, compaction and crashes.                                      *)

SnapshotOfBug(n, state) == [state |-> applied[n], seq |-> TopNumber(state)]

SnapshotOf(n, state) == [state |-> state, seq |-> log[n].last]

(* takeSnapshot: the kernel's state first, the log's counter afterwards.   *)
CopyState(n) ==
  /\ copied[n] = None /\ Spend("snapshots")
  /\ copied' = [copied EXCEPT ![n] = applied[n]]
  /\ UNCHANGED <<log, dedup, position, notify, posts, gr, applied, snapshot, stored>>

StoreSnapshot(n) ==
  /\ copied[n] # None
  /\ snapshot' = [snapshot EXCEPT ![n] = SnapshotOf(n, copied[n])]
  /\ copied' = [copied EXCEPT ![n] = None]
  /\ UNCHANGED <<log, dedup, position, notify, posts, gr, applied, stored, budget>>

(* compactionWorker: any events may be older than the retention period.    *)
Compact(n, old) ==
  /\ LogFree(n) /\ Spend("compactions")
  /\ log' = [log EXCEPT ![n] = Compacted(@, old, KeepMin)]
  /\ UNCHANGED <<dedup, position, notify, posts, gr, applied, copied, snapshot, stored>>

(* The process dies and starts again: the tables are all that is left, and *)
(* the new kernel is empty.                                                *)
Crash(n) ==
  /\ Spend("crashes")
  /\ log' = [log EXCEPT ![n] = Reopened(@)]
  /\ dedup' = [dedup EXCEPT ![n] = {}]
  /\ position' = [position EXCEPT ![n] = [p \in Nodes |-> 0]]
  /\ notify' = [notify EXCEPT ![n] = <<>>]
  /\ posts' = {m \in posts : m[1] # n}
  /\ gr' = [g \in Goroutines |-> IF On[g] = n THEN Idle ELSE gr[g]]
  /\ applied' = [applied EXCEPT ![n] = {}]
  /\ copied' = [copied EXCEPT ![n] = None]
  /\ UNCHANGED <<snapshot, stored>>

-----------------------------------------------------------------------------
Next ==
  \/ \E g \in Adapters, e \in Events : Observe(g, e)
  \/ \E g \in Goroutines :
       TakeNumber(g) \/ InsertRow(g) \/ RefuseRow(g) \/ InsertFails(g) \/ Apply(g)
  \/ \E g \in Pushers : PushPull(g)
  \/ \E g \in Tickers, p \in Nodes : TickPull(g, p)
  \/ \E g \in Pullers :
       Receive(g) \/ PullFails(g) \/ Skip(g) \/ Mark(g) \/ Finish(g)
  \/ \E n, p \in Nodes : ReceivePost(n, p) \/ LosePost(n, p) \/ ReceiveHeartbeat(n, p)
  \/ \E n \in Nodes : CopyState(n) \/ StoreSnapshot(n) \/ Crash(n)
  \/ \E n \in Nodes, old \in SUBSET Events : Compact(n, old)

Spec == Init /\ [][Next]_vars

-----------------------------------------------------------------------------
(* Type invariant.                                                         *)

Rows == [seq : Nat, id : Events]

Tasks ==
  [pc : {"idle", "asked", "next", "append", "insert", "apply"},
   peer : Nodes \cup {None}, after : Nat, batch : SUBSET Rows, end : Nat,
   event : Events \cup {None}, seq : Nat]

Budgets ==
  [faults : 0..MaxFaults, crashes : 0..MaxCrashes,
   snapshots : 0..MaxSnapshots, compactions : 0..MaxCompactions]

(* Every variable holds a value of its kind, and the queues of             *)
(* announcements are within their capacity.                                *)
TypeOK ==
  /\ log \in [Nodes -> [last : Nat, rows : SUBSET Rows]]
  /\ dedup \in [Nodes -> SUBSET Events]
  /\ position \in [Nodes -> [Nodes -> Nat]]
  /\ notify \in [Nodes -> Seq(Nodes)]
  /\ \A n \in Nodes : Len(notify[n]) <= NotifyCapacity
  /\ posts \subseteq Nodes \X Nodes
  /\ gr \in [Goroutines -> Tasks]
  /\ applied \in [Nodes -> SUBSET Rows]
  /\ copied \in [Nodes -> {None} \cup SUBSET Rows]
  /\ snapshot \in [Nodes -> {None} \cup [state : SUBSET Rows, seq : Nat]]
  /\ stored \in [Nodes -> SUBSET Rows]
  /\ budget \in Budgets

(***************************************************************************)
(* Safety.                                                                 *)
(***************************************************************************)

(* What goroutine g has in hand for its node and has not yet dealt with.   *)
InHand(g) == Ids(gr[g].batch) \cup ({gr[g].event} \ {None})

(* A sync position never runs ahead of what the peer's log has stored:     *)
(* otherwise the next event there would get a number already passed, and   *)
(* would never be pulled.  It has to survive the peer's crash, after which *)
(* the counter starts again from the rows (recoverSequence).               *)
PositionBehindLog ==
  \A n, p \in Nodes : position[n][p] <= log[p].last

Covered(n, e) ==
  \/ e \in Ids(stored[n])
  \/ \E g \in Pullers : On[g] = n /\ e \in InHand(g)

CoveredUpTo(n, p, x) ==
  \A r \in stored[p] : r.seq <= x /\ r.id \in Wanted[n][p] => Covered(n, r.id)

(* A position passes over nothing: every event in scope that the peer had  *)
(* at or below it is, or was, in the node's own log, or a pull that is     *)
(* under way still has it.  Two pulls from one peer overlap and share the  *)
(* dedup set (IngestSyncedEvents), and one of them may set the position    *)
(* while the other still appends.                                          *)
NothingSkipped ==
  \A n, p \in Nodes : CoveredUpTo(n, p, position[n][p])

(* One life of a kernel applies an event once, although it may be offered  *)
(* by several peers, by overlapping pulls and by the node itself.          *)
AppliedOnce ==
  \A n \in Nodes : \A r, s \in applied[n] : r.id = s.id => r = s

(* The log is written first: no kernel is ahead of its node's log.         *)
LoggedBeforeApplied ==
  \A n \in Nodes : applied[n] \subseteq stored[n]

(* A sequence number names one event, for as long as anyone may hold it as *)
(* a position: over crashes, and after the event was compacted.            *)
NumberNamesOneEvent ==
  \A n \in Nodes : \A r, s \in stored[n] : r.seq = s.seq => r = s

(* A snapshot is not ahead of its number: replaying the events after it    *)
(* applies none of them twice.                                             *)
SnapshotNotAhead ==
  \A n \in Nodes : snapshot[n] # None =>
    \A r \in snapshot[n].state : r.seq <= snapshot[n].seq

(* The kernel has all that the node's latest snapshot holds: a node that   *)
(* starts again goes on from there.                                        *)
SnapshotIsLoaded ==
  \A n \in Nodes : snapshot[n] # None => snapshot[n].state \subseteq applied[n]

(* The kernel has applied every event of the log, but for those a          *)
(* goroutine is about to apply.                                            *)
KernelFollowsLog ==
  \A n \in Nodes : \A r \in log[n].rows \ applied[n] :
    \E g \in Goroutines : On[g] = n /\ At(g, "apply") /\ gr[g].event = r.id

(* What the code asks of a link before n takes e from p: each has the       *)
(* other at a trust_level of 1 or more, or p does not know n, and the      *)
(* scope is that of the one who asks.                                      *)
Allowed(n, p, e) == p \in Peers[n] /\ n \notin Untrusted[p] /\ e \in Wanted[n][p]

(* Where that is what the documents promise.  The code reads no difference *)
(* between trust_level 1, "read-only" (types.go:57), and the levels above: *)
(* it pulls from any of them (manager.go:628, 730).  It serves the scope   *)
(* in the request (manager.go:285) and never looks at the one it holds for *)
(* the asker, which lists what is replicated "to/from this peer" and what  *)
(* "should never be synced" (types.go:74, 89).                             *)
AsConfigured ==
  \A n \in Nodes : \A p \in Peers[n] :
    /\ p \notin ReadOnly[n]
    /\ n \notin Untrusted[p] => Wanted[n][p] \subseteq Wanted[p][n]

(* Every row of a node comes from the node itself or, one hop at a time,   *)
(* over links whose trust and scope allow it.  It does so AsConfigured:    *)
(* with a read-only peer, or a peer whose scope for the asker is narrower, *)
(* the code takes events that Replication does not allow.                  *)
Spreading == INSTANCE Replication WITH known <- [n \in Nodes |-> Ids(stored[n])]
ImplementsReplication == Spreading!Spec

(***************************************************************************)
(* Inductive strengthenings.                                               *)
(***************************************************************************)

(* The rows of a log are numbered from 1 up to the counter, differ in       *)
(* number and in id, and are recorded.                                     *)
LogSound(n) ==
  /\ IsFiniteSet(log[n].rows)
  /\ \A r \in log[n].rows : r.seq \in 1..log[n].last
  /\ \A r, s \in log[n].rows : r.seq = s.seq \/ r.id = s.id => r = s
  /\ log[n].rows \subseteq stored[n]

(* What a goroutine has in hand at each of its steps.                      *)
TaskSound(g) ==
  LET n == On[g] IN
  /\ At(g, "idle") => gr[g] = Idle
  /\ At(g, "asked") => gr[g].batch = {}
  /\ IF g \in Adapters
     THEN gr[g].peer = None /\ gr[g].pc \notin {"asked", "next"}
     ELSE ~At(g, "idle") => gr[g].peer \in Peers[n]
  /\ gr[g].event = None <=> gr[g].pc \in {"idle", "asked", "next"}
  /\ At(g, "insert") =>
       /\ gr[g].seq = log[n].last /\ gr[g].seq > 0
       /\ \A r \in log[n].rows : r.seq < gr[g].seq
  /\ At(g, "apply") => [seq |-> gr[g].seq, id |-> gr[g].event] \in stored[n]

(* Log.mu: one goroutine of a node at a time is inside an Append.          *)
AppendsApart ==
  \A g, h \in Goroutines : At(g, "insert") /\ At(h, "insert") /\ On[g] = On[h] => g = h

LogInvariant ==
  /\ \A n \in Nodes : LogSound(n)
  /\ \A g \in Goroutines : TaskSound(g)
  /\ AppendsApart
  /\ LoggedBeforeApplied

(* x is 0 or the number of a row: the rows that p has yet to store come    *)
(* after it, even when p's counter is recovered from its rows.             *)
Reached(p, x) == x = 0 \/ \E r \in stored[p] : r.seq = x

Synced(n, p, x) == Reached(p, x) /\ CoveredUpTo(n, p, x)

(* An id that the dedup set would skip: recorded, or about to be.          *)
Taken(n, e) ==
  \/ e \in Ids(stored[n])
  \/ \E g \in Pullers : On[g] = n /\ gr[g].event = e

NothingCompacted == \A n \in Nodes : log[n].rows = stored[n]

(* PositionBehindLog without compaction: a position, or a number that a    *)
(* pull may set it to, is that of a row.                                   *)
PositionInvariant ==
  /\ NothingCompacted
  /\ \A n, p \in Nodes : Reached(p, position[n][p])
  /\ \A g \in Pullers : gr[g].peer # None =>
       Reached(gr[g].peer, gr[g].after) /\ Reached(gr[g].peer, gr[g].end)

(* What makes NothingSkipped inductive, without compaction and without     *)
(* INSERTs that fail: the positions, those that pulls under way start from *)
(* and will set, and the dedup set, all speak of events that are covered.  *)
SyncInvariant ==
  /\ NothingCompacted
  /\ \A n, p \in Nodes : Synced(n, p, position[n][p])
  /\ \A g \in Pullers : gr[g].peer # None =>
       /\ Synced(On[g], gr[g].peer, gr[g].after)
       /\ Synced(On[g], gr[g].peer, gr[g].end)
  /\ \A n \in Nodes : \A e \in dedup[n] : Taken(n, e)

(* Where the events in hand come from: a peer's log, along a link that the *)
(* code allows, or the node itself, once.                                  *)
SourceSound(g) ==
  /\ g \in Pullers => \A e \in InHand(g) :
       /\ e \in Ids(stored[gr[g].peer])
       /\ Allowed(On[g], gr[g].peer, e)
  /\ g \in Adapters /\ gr[g].pc \in {"append", "insert"} =>
       /\ Home[gr[g].event] = On[g]
       /\ \A n \in Nodes : gr[g].event \notin Ids(stored[n])

SpreadInvariant ==
  /\ \A g \in Goroutines : SourceSound(g)
  /\ \A g, h \in Adapters : gr[g].event = gr[h].event /\ gr[g].event # None => g = h

-----------------------------------------------------------------------------
(* Liveness.                                                               *)

(* A goroutine that can go on does: nothing it does waits for another      *)
(* node, but for Log.mu, which is free whenever an INSERT ends.            *)
Work(g) == TakeNumber(g) \/ InsertRow(g) \/ RefuseRow(g) \/ Apply(g) \/ Skip(g) \/ Mark(g) \/ Finish(g)

(* syncLoop ticks for ever, for every peer, and a peer that is asked again *)
(* and again does answer.                                                  *)
Fairness ==
  /\ \A g \in Goroutines : WF_vars(Work(g)) /\ SF_vars(TakeNumber(g))
  /\ \A g \in Tickers, p \in Nodes : SF_vars(TickPull(g, p)) /\ SF_vars(Receive(g) /\ gr[g].peer = p)

FairSpec == Spec /\ Fairness

(* What one node has recorded and another asks for, the other records too. *)
Delivered ==
  \A n, p \in Nodes : \A e \in Events :
    p \in Peers[n] /\ n \notin Untrusted[p] /\ e \in Wanted[n][p] =>
      (e \in Ids(stored[p]) ~> e \in Ids(stored[n]))
=============================================================================
