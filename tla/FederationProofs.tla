-------------------------- MODULE FederationProofs --------------------------
(***************************************************************************)
(* Theorems about Federation, for every set of nodes, events, goroutines,  *)
(* peers and scopes, and for every bound.                                  *)
(***************************************************************************)
EXTENDS Federation, FiniteSetTheorems, WellFoundedInduction, TLAPS

(***************************************************************************)
(* The event log.                                                          *)
(***************************************************************************)

\* A set of numbers that is not empty has a least one.
LEMMA LeastNumber ==
  ASSUME NEW T \in SUBSET Nat, T # {}
  PROVE  \E x \in T : \A y \in T : x <= y
<1>1. PICK x \in T : \A y \in T : ~ (<<y, x>> \in OpToRel(<, Nat))
  BY NatLessThanWellFounded, WFMin
<1>2. \A y \in T : ~ (y < x)
  BY <1>1 DEF OpToRel
<1> QED
  BY <1>2

\* One that is bounded has a greatest one.
LEMMA GreatestNumber ==
  ASSUME NEW T \in SUBSET Nat, T # {}, NEW m \in Nat, \A x \in T : x <= m
  PROVE  \E x \in T : \A y \in T : y <= x
<1> DEFINE U == {m - x : x \in T}
<1>1. U \in SUBSET Nat /\ U # {}
  <2>1. \A x \in T : m - x \in Nat
    OBVIOUS
  <2> QED  BY <2>1
<1>2. PICK u \in U : \A v \in U : u <= v
  <2> HIDE DEF U
  <2> QED  BY <1>1, LeastNumber
<1>3. PICK x \in T : u = m - x
  OBVIOUS
<1>4. \A y \in T : m - y \in U
  OBVIOUS
<1> QED
  <2> HIDE DEF U
  <2>1. \A y \in T : m - x <= m - y
    BY <1>2, <1>3, <1>4
  <2> QED  BY <2>1

\* The first row of a batch is one of its rows.
LEMMA FirstRowIn ==
  ASSUME NEW rows \in SUBSET Rows, rows # {}
  PROVE  FirstRow(rows) \in rows
<1>1. Numbers(rows) \in SUBSET Nat /\ Numbers(rows) # {}
  BY DEF Numbers, Rows
<1>2. PICK x \in Numbers(rows) : \A y \in Numbers(rows) : x <= y
  BY <1>1, LeastNumber
<1>3. \E r \in rows : \A s \in rows : r.seq <= s.seq
  BY <1>2 DEF Numbers
<1> QED
  BY <1>3 DEF FirstRow

\* SELECT MAX is the number of a row, and no row has a greater one.
LEMMA TopNumberIsTop ==
  ASSUME NEW rows \in SUBSET Rows, NEW m \in Nat, \A r \in rows : r.seq <= m
  PROVE  /\ TopNumber(rows) \in Nat /\ TopNumber(rows) <= m
         /\ \A r \in rows : r.seq <= TopNumber(rows)
         /\ rows # {} => \E r \in rows : r.seq = TopNumber(rows)
<1>1. CASE rows = {}
  BY <1>1 DEF TopNumber
<1>2. CASE rows # {}
  <2>1. /\ Numbers(rows) \in SUBSET Nat /\ Numbers(rows) # {}
        /\ \A x \in Numbers(rows) : x <= m
    BY <1>2 DEF Numbers, Rows
  <2>2. \E x \in Numbers(rows) : \A y \in Numbers(rows) : y <= x
    BY <2>1, GreatestNumber
  <2>3. /\ TopNumber(rows) \in Numbers(rows)
        /\ \A y \in Numbers(rows) : y <= TopNumber(rows)
    BY <1>2, <2>2 DEF TopNumber
  <2> QED
    BY <1>2, <2>1, <2>3 DEF Numbers
<1> QED
  BY <1>1, <1>2

\* A page has no holes: with a row it has every row of the table between the
\* position and that row.
LEMMA PageHasNoHoles ==
  ASSUME NEW l \in [last : Nat, rows : SUBSET Rows], IsFiniteSet(l.rows),
         NEW after \in Nat, NEW size \in Nat,
         NEW s \in Page(l, after, size), NEW r \in l.rows,
         after < r.seq, r.seq <= s.seq
  PROVE  r \in Page(l, after, size)
<1> DEFINE Between(x) == {t \in l.rows : after < t.seq /\ t.seq < x.seq}
<1>1. s \in l.rows /\ Cardinality(Between(s)) < size
  BY DEF Page
<1>2. l.rows \in SUBSET Rows /\ \A t \in l.rows : t.seq \in Nat
  BY DEF Rows
<1>3. Between(r) \in SUBSET Between(s) /\ Between(s) \in SUBSET l.rows
  BY <1>1, <1>2
<1>4. IsFiniteSet(Between(s)) /\ IsFiniteSet(Between(r))
  <2> HIDE DEF Between
  <2> QED  BY <1>3, FS_Subset
<1>5. /\ Cardinality(Between(r)) <= Cardinality(Between(s))
      /\ Cardinality(Between(r)) \in Nat /\ Cardinality(Between(s)) \in Nat
  <2> HIDE DEF Between
  <2> QED  BY <1>3, <1>4, FS_Subset, FS_CardinalityType
<1>6. Cardinality(Between(r)) < size
  <2> HIDE DEF Between
  <2> QED  BY <1>1, <1>5
<1> QED
  BY <1>6 DEF Page

(***************************************************************************)
(* Types.                                                                  *)
(***************************************************************************)

\* Goroutines run on nodes, and pull from nodes.
LEMMA Placement ==
  /\ \A g \in Goroutines : On[g] \in Nodes
  /\ Adapters \subseteq Goroutines /\ Pullers \subseteq Goroutines
  /\ \A n \in Nodes : Peers[n] \subseteq Nodes
  /\ \A e \in Events : e # None
  /\ \A n \in Nodes : n # None
BY FederationAssumption DEF Goroutines

\* The tasks that goroutines are given are tasks.
LEMMA TaskTypes ==
  ASSUME TypeOK, NEW g \in Goroutines
  PROVE  /\ Idle \in Tasks
         /\ Resume(g) \in Tasks
         /\ \A p \in Nodes : Asking(g, p) \in Tasks
<1>1. Idle \in Tasks
  BY DEF Idle, Tasks
<1>2. gr[g] \in Tasks
  BY DEF TypeOK
<1>3. Resume(g) \in Tasks
  BY <1>1, <1>2 DEF Resume, Tasks
<1>4. ASSUME NEW p \in Nodes PROVE Asking(g, p) \in Tasks
  <2>1. position[On[g]][p] \in Nat
    BY Placement DEF TypeOK
  <2> QED  BY <2>1 DEF Asking, Idle, Tasks
<1> QED
  BY <1>1, <1>3, <1>4

\* Spending a budget keeps the budgets well typed, and needs something to spend.
LEMMA SpendType ==
  ASSUME TypeOK, NEW what \in {"faults", "crashes", "snapshots", "compactions"}, Spend(what)
  PROVE  budget' \in Budgets /\ budget[what] \in Nat \ {0}
<1>1. budget \in Budgets
  BY DEF TypeOK
<1>2. DOMAIN budget = {"faults", "crashes", "snapshots", "compactions"}
  BY <1>1 DEF Budgets
<1>3. budget[what] \in Nat
  BY <1>1, FederationAssumption DEF Budgets
<1>4. ASSUME NEW max \in Nat, budget[what] \in 0..max PROVE budget[what] - 1 \in 0..max
  BY <1>3, <1>4 DEF Spend
<1>5. CASE what = "faults"
  BY <1>1, <1>4, <1>5, FederationAssumption DEF Budgets, Spend
<1>6. CASE what = "crashes"
  BY <1>1, <1>4, <1>6, FederationAssumption DEF Budgets, Spend
<1>7. CASE what = "snapshots"
  BY <1>1, <1>4, <1>7, FederationAssumption DEF Budgets, Spend
<1>8. CASE what = "compactions"
  BY <1>1, <1>4, <1>8, FederationAssumption DEF Budgets, Spend
<1> QED
  BY <1>3, <1>5, <1>6, <1>7, <1>8 DEF Spend

\* Announcements are queued up to the capacity.
LEMMA NotifyType ==
  ASSUME TypeOK, NEW n \in Nodes, NEW p \in Nodes, Notify(n, p)
  PROVE  /\ notify' \in [Nodes -> Seq(Nodes)]
         /\ \A m \in Nodes : Len(notify'[m]) <= NotifyCapacity
<1>1. notify[n] \in Seq(Nodes) /\ Len(notify[n]) <= NotifyCapacity
  BY DEF TypeOK
<1>2. Append(notify[n], p) \in Seq(Nodes) /\ Len(Append(notify[n], p)) = Len(notify[n]) + 1
  BY <1>1
<1>3. Room(n) => Len(Append(notify[n], p)) <= NotifyCapacity
  BY <1>1, <1>2, FederationAssumption DEF Room
<1> QED
  BY <1>2, <1>3 DEF Notify, TypeOK

\* The rows of an answer are rows of the peer's log, within the scope.
LEMMA AnswerIsPage ==
  ASSUME TypeOK, LogInvariant, NEW n \in Nodes, NEW p \in Nodes, NEW after \in Nat
  PROVE  /\ Answer(n, p, after) \subseteq log[p].rows
         /\ Answer(n, p, after) \in SUBSET Rows
         /\ \A r \in Answer(n, p, after) : r.seq > after /\ r.id \in Wanted[n][p]
         /\ NextPosition(p, Answer(n, p, after)) \in Nat
         /\ \A r \in Answer(n, p, after) : r.seq <= NextPosition(p, Answer(n, p, after))
         /\ Answer(n, p, after) # {} =>
              \E r \in Answer(n, p, after) : r.seq = NextPosition(p, Answer(n, p, after))
<1> DEFINE A == Answer(n, p, after)
<1>1. /\ A \subseteq log[p].rows
      /\ \A r \in A : r.seq > after /\ r.id \in Wanted[n][p]
  BY DEF Answer, Page
<1>2. log[p].last \in Nat /\ log[p].rows \in SUBSET Rows
  BY DEF TypeOK
<1>3. \A r \in log[p].rows : r.seq <= log[p].last
  BY <1>2 DEF LogInvariant, LogSound
<1>4. A \in SUBSET Rows /\ \A r \in A : r.seq <= log[p].last
  BY <1>1, <1>2, <1>3
<1> QED
  <2> HIDE DEF A
  <2> QED
    BY <1>1, <1>2, <1>4, TopNumberIsTop DEF NextPosition, A

\* The number that an answer sets the position to is that of one of its rows.
LEMMA AnswerEnds ==
  ASSUME TypeOK, LogInvariant, NEW n \in Nodes, NEW p \in Nodes, NEW after \in Nat,
         NEW rows, rows = Answer(n, p, after), rows # {}
  PROVE  \E r \in rows : r \in log[p].rows /\ r.seq = NextPosition(p, rows)
BY AnswerIsPage

\* A goroutine inside ingestKernelEvent or the loop of IngestSyncedEvents has an event.
LEMMA EventInHand ==
  ASSUME TypeOK, LogInvariant, NEW g \in Goroutines, gr[g].pc \in {"append", "insert", "apply"}
  PROVE  /\ gr[g].event \in Events
         /\ [seq |-> gr[g].seq, id |-> gr[g].event] \in Rows
<1>1. gr[g] \in Tasks /\ TaskSound(g)
  BY DEF TypeOK, LogInvariant
<1>2. gr[g].event \in Events \cup {None} /\ gr[g].seq \in Nat
  BY <1>1 DEF Tasks
<1>3. gr[g].event # None
  BY <1>1 DEF TaskSound
<1> QED
  BY <1>2, <1>3 DEF Rows

\* A row taken out of the batch in hand.
LEMMA FirstRowType ==
  ASSUME TypeOK, NEW g \in Goroutines, gr[g].batch # {}
  PROVE  /\ FirstRow(gr[g].batch) \in gr[g].batch
         /\ FirstRow(gr[g].batch).id \in Events
<1>1. gr[g].batch \in SUBSET Rows
  BY DEF TypeOK, Tasks
<1> QED
  BY <1>1, FirstRowIn DEF Rows

\* The initial state is well typed.
LEMMA TypeInit == Init => TypeOK
<1> SUFFICES ASSUME Init PROVE TypeOK
  OBVIOUS
<1>1. Idle \in Tasks
  BY DEF Idle, Tasks
<1>2. log \in [Nodes -> [last : Nat, rows : SUBSET Rows]]
  BY DEF Init, EmptyLog
<1>3. notify \in [Nodes -> Seq(Nodes)] /\ \A n \in Nodes : Len(notify[n]) <= NotifyCapacity
  BY FederationAssumption DEF Init
<1>4. budget \in Budgets
  BY FederationAssumption DEF Init, Budgets
<1> QED
  BY <1>1, <1>2, <1>3, <1>4 DEF Init, TypeOK

\* Every step preserves the types.
LEMMA TypeNext == TypeOK /\ LogInvariant /\ [Next]_vars => TypeOK'
<1> SUFFICES ASSUME TypeOK, LogInvariant, [Next]_vars PROVE TypeOK'
  OBVIOUS
<1> USE Placement
<1>1. ASSUME NEW g \in Adapters, NEW e \in Events, Observe(g, e) PROVE TypeOK'
  <2>0. gr[g] \in Tasks
    BY DEF TypeOK
  <2>1. [gr[g] EXCEPT !.pc = "append", !.event = e] \in Tasks
    BY <2>0 DEF Tasks
  <2>2. gr' \in [Goroutines -> Tasks]
    BY <1>1, <2>1 DEF Observe, TypeOK
  <2> QED  BY <1>1, <2>2 DEF Observe, TypeOK
<1>2. ASSUME NEW g \in Goroutines, TakeNumber(g) PROVE TypeOK'
  <2>1. log[On[g]] \in [last : Nat, rows : SUBSET Rows]
    BY DEF TypeOK
  <2>5. gr[g] \in Tasks /\ log[On[g]].last + 1 \in Nat
    BY <2>1 DEF TypeOK
  <2>6. [gr[g] EXCEPT !.pc = "insert", !.seq = log[On[g]].last + 1] \in Tasks
    BY <2>5 DEF Tasks
  <2>2. gr' \in [Goroutines -> Tasks]
    BY <1>2, <2>6 DEF TakeNumber, TypeOK
  <2>3. Reserve(log[On[g]]) \in [last : Nat, rows : SUBSET Rows]
    BY <2>1 DEF Reserve
  <2>4. log' \in [Nodes -> [last : Nat, rows : SUBSET Rows]]
    BY <1>2, <2>3 DEF TakeNumber, TypeOK
  <2> QED  BY <1>2, <2>2, <2>4 DEF TakeNumber, TypeOK
<1>3. ASSUME NEW g \in Goroutines, InsertRow(g) PROVE TypeOK'
  <2>1. [seq |-> gr[g].seq, id |-> gr[g].event] \in Rows
    BY <1>3, EventInHand DEF InsertRow, At
  <2>0. gr[g] \in Tasks /\ log[On[g]] \in [last : Nat, rows : SUBSET Rows]
    BY DEF TypeOK
  <2>6. [gr[g] EXCEPT !.pc = "apply"] \in Tasks
    BY <2>0 DEF Tasks
  <2>2. gr' \in [Goroutines -> Tasks]
    BY <1>3, <2>6 DEF InsertRow, TypeOK
  <2>3. Store(log[On[g]], gr[g].event, gr[g].seq) \in [last : Nat, rows : SUBSET Rows]
    BY <2>0, <2>1 DEF Store
  <2>4. log' \in [Nodes -> [last : Nat, rows : SUBSET Rows]]
    BY <1>3, <2>3 DEF InsertRow, TypeOK
  <2>5. stored' \in [Nodes -> SUBSET Rows]
    BY <1>3, <2>1 DEF InsertRow, TypeOK
  <2> QED  BY <1>3, <2>2, <2>4, <2>5 DEF InsertRow, TypeOK
<1>4. ASSUME NEW g \in Goroutines, RefuseRow(g) PROVE TypeOK'
  BY <1>4, TaskTypes DEF RefuseRow, TypeOK
<1>5. ASSUME NEW g \in Goroutines, InsertFails(g) PROVE TypeOK'
  BY <1>5, TaskTypes, SpendType DEF InsertFails, TypeOK
<1>6. ASSUME NEW g \in Goroutines, Apply(g) PROVE TypeOK'
  <2>1. [seq |-> gr[g].seq, id |-> gr[g].event] \in Rows
    BY <1>6, EventInHand DEF Apply, At
  <2>2. applied' \in [Nodes -> SUBSET Rows]
    BY <1>6, <2>1 DEF Apply, AppliedTo, TypeOK
  <2>3. Announced(g) \subseteq Nodes \X Nodes
    BY DEF Announced
  <2> QED  BY <1>6, <2>2, <2>3, TaskTypes DEF Apply, TypeOK
<1>7. ASSUME NEW g \in Pushers, PushPull(g) PROVE TypeOK'
  <2>1. g \in Goroutines
    BY DEF Goroutines, Pullers
  <2>2. notify[On[g]] \in Seq(Nodes) /\ notify[On[g]] # <<>> /\ Len(notify[On[g]]) <= NotifyCapacity
    BY <1>7, <2>1 DEF PushPull, TypeOK
  <2>3. /\ Head(notify[On[g]]) \in Nodes /\ Tail(notify[On[g]]) \in Seq(Nodes)
        /\ Len(Tail(notify[On[g]])) <= NotifyCapacity
    BY <2>2, FederationAssumption
  <2>4. gr' \in [Goroutines -> Tasks]
    BY <1>7, <2>1, <2>3, TaskTypes DEF PushPull, TypeOK
  <2> QED  BY <1>7, <2>3, <2>4 DEF PushPull, TypeOK
<1>8. ASSUME NEW g \in Tickers, NEW p \in Nodes, TickPull(g, p) PROVE TypeOK'
  <2>1. g \in Goroutines
    BY DEF Goroutines, Pullers
  <2> QED  BY <1>8, <2>1, TaskTypes DEF TickPull, TypeOK
<1>9. ASSUME NEW g \in Pullers, Receive(g) PROVE TypeOK'
  <2> DEFINE A == Answer(On[g], gr[g].peer, gr[g].after)
  <2>1. gr[g].peer \in Nodes /\ gr[g].after \in Nat
    BY <1>9 DEF Receive, At, LogInvariant, TaskSound, TypeOK, Tasks
  <2>2. A \in SUBSET Rows /\ NextPosition(gr[g].peer, A) \in Nat
    BY <2>1, AnswerIsPage
  <2>3. [Idle EXCEPT !.pc = "next", !.peer = gr[g].peer, !.batch = A,
                     !.end = NextPosition(gr[g].peer, A)] \in Tasks
    <3> HIDE DEF A
    <3> QED  BY <2>1, <2>2 DEF Idle, Tasks
  <2>4. gr' \in [Goroutines -> Tasks]
    BY <1>9, <2>3, TaskTypes DEF Receive, TypeOK
  <2> QED  BY <1>9, <2>4 DEF Receive, TypeOK
<1>10. ASSUME NEW g \in Pullers, PullFails(g) PROVE TypeOK'
  BY <1>10, TaskTypes DEF PullFails, TypeOK
<1>11. ASSUME NEW g \in Pullers, Skip(g) PROVE TypeOK'
  <2>0. gr[g] \in Tasks
    BY DEF TypeOK
  <2>1. [gr[g] EXCEPT !.batch = @ \ {FirstRow(@)}] \in Tasks
    BY <2>0 DEF Tasks
  <2>2. gr' \in [Goroutines -> Tasks]
    BY <1>11, <2>1 DEF Skip, TypeOK
  <2> QED  BY <1>11, <2>2 DEF Skip, TypeOK
<1>12. ASSUME NEW g \in Pullers, Mark(g) PROVE TypeOK'
  <2>1. FirstRow(gr[g].batch).id \in Events
    BY <1>12, FirstRowType DEF Mark
  <2> DEFINE task == [gr[g] EXCEPT !.pc = "append", !.batch = @ \ {FirstRow(gr[g].batch)},
                                   !.event = FirstRow(gr[g].batch).id]
  <2>2. gr[g] \in Tasks /\ gr \in [Goroutines -> Tasks]
    BY DEF TypeOK
  <2>4. task \in Tasks
    BY <2>1, <2>2 DEF Tasks
  <2>5. gr' = [gr EXCEPT ![g] = task]
    BY <1>12 DEF Mark
  <2>6. gr' \in [Goroutines -> Tasks]
    <3> HIDE DEF task
    <3> QED  BY <2>2, <2>4, <2>5
  <2>3. dedup' \in [Nodes -> SUBSET Events]
    BY <1>12, <2>1 DEF Mark, Evictions, TypeOK
  <2> QED  BY <1>12, <2>3, <2>6 DEF Mark, TypeOK
<1>13. ASSUME NEW g \in Pullers, Finish(g) PROVE TypeOK'
  <2>1. gr[g].end \in Nat
    BY DEF TypeOK, Tasks
  <2>2. position' \in [Nodes -> [Nodes -> Nat]]
    BY <1>13, <2>1 DEF Finish, TypeOK
  <2> QED  BY <1>13, <2>2, TaskTypes DEF Finish, TypeOK
<1>14. ASSUME NEW n \in Nodes, NEW p \in Nodes, ReceivePost(n, p) PROVE TypeOK'
  BY <1>14, NotifyType DEF ReceivePost, TypeOK
<1>15. ASSUME NEW n \in Nodes, NEW p \in Nodes, LosePost(n, p) PROVE TypeOK'
  BY <1>15 DEF LosePost, TypeOK
<1>16. ASSUME NEW n \in Nodes, NEW p \in Nodes, ReceiveHeartbeat(n, p) PROVE TypeOK'
  BY <1>16, NotifyType DEF ReceiveHeartbeat, TypeOK
<1>17. ASSUME NEW n \in Nodes, CopyState(n) PROVE TypeOK'
  BY <1>17, SpendType DEF CopyState, TypeOK
<1>18. ASSUME NEW n \in Nodes, StoreSnapshot(n) PROVE TypeOK'
  <2>1. SnapshotOf(n, copied[n]) \in [state : SUBSET Rows, seq : Nat]
    BY <1>18 DEF StoreSnapshot, SnapshotOf, TypeOK
  <2> QED  BY <1>18, <2>1 DEF StoreSnapshot, TypeOK
<1>19. ASSUME NEW n \in Nodes, NEW old \in SUBSET Events, Compact(n, old) PROVE TypeOK'
  <2>0. log[n] \in [last : Nat, rows : SUBSET Rows]
    BY DEF TypeOK
  <2>1. Compacted(log[n], old, KeepMin) \in [last : Nat, rows : SUBSET Rows]
    BY <2>0 DEF Compacted
  <2> QED  BY <1>19, <2>1, SpendType DEF Compact, TypeOK
<1>20. ASSUME NEW n \in Nodes, Crash(n) PROVE TypeOK'
  <2>1. log[n].rows \in SUBSET Rows /\ log[n].last \in Nat
    BY DEF TypeOK
  <2>2. \A r \in log[n].rows : r.seq <= log[n].last
    BY <2>1 DEF LogInvariant, LogSound
  <2>3. TopNumber(log[n].rows) \in Nat
    BY <2>1, <2>2, TopNumberIsTop
  <2>0. log[n] \in [last : Nat, rows : SUBSET Rows]
    BY DEF TypeOK
  <2>4. Reopened(log[n]) \in [last : Nat, rows : SUBSET Rows]
    BY <2>0, <2>3 DEF Reopened
  <2>5. log' \in [Nodes -> [last : Nat, rows : SUBSET Rows]]
    BY <1>20, <2>4 DEF Crash, TypeOK
  <2>6. gr' \in [Goroutines -> Tasks]
    BY <1>20, TaskTypes DEF Crash, TypeOK
  <2>7. position' \in [Nodes -> [Nodes -> Nat]] /\ posts' \subseteq Nodes \X Nodes
    BY <1>20 DEF Crash, TypeOK
  <2>8. /\ notify' \in [Nodes -> Seq(Nodes)]
        /\ \A m \in Nodes : Len(notify'[m]) <= NotifyCapacity
    BY <1>20, FederationAssumption DEF Crash, TypeOK
  <2> QED  BY <1>20, <2>5, <2>6, <2>7, <2>8, SpendType DEF Crash, TypeOK
<1>21. CASE UNCHANGED vars
  BY <1>21 DEF vars, TypeOK
<1> QED
  BY <1>1, <1>2, <1>3, <1>4, <1>5, <1>6, <1>7, <1>8, <1>9, <1>10, <1>11, <1>12, <1>13, <1>14,
     <1>15, <1>16, <1>17, <1>18, <1>19, <1>20, <1>21 DEF Next

(***************************************************************************)
(* The logs: numbering, Log.mu, and the log before the kernel.             *)
(***************************************************************************)

\* A goroutine is an adapter or pulls, and not both.
LEMMA AdapterOrPuller ==
  \A g \in Goroutines : g \in Adapters <=> g \notin Pullers
BY FederationAssumption DEF Goroutines

\* The initial logs are sound.
LEMMA LogInit == Init => LogInvariant
<1> SUFFICES ASSUME Init PROVE LogInvariant
  OBVIOUS
<1>1. \A n \in Nodes : LogSound(n)
  BY FS_EmptySet DEF Init, LogSound, EmptyLog
<1>2. \A g \in Goroutines : gr[g] = Idle
  BY DEF Init
<1>3. \A g \in Goroutines : TaskSound(g)
  BY <1>2 DEF TaskSound, Idle, At
<1>4. AppendsApart
  BY <1>2 DEF AppendsApart, Idle, At
<1> QED
  BY <1>1, <1>3, <1>4 DEF Init, LogInvariant, LoggedBeforeApplied

\* A step that leaves the logs and the kernels alone and moves one goroutine.
LEMMA QuietLog ==
  ASSUME LogInvariant, UNCHANGED <<log, stored, applied>>,
         NEW g \in Goroutines, \A h \in Goroutines \ {g} : gr'[h] = gr[h],
         TaskSound(g)', ~At(g, "insert")'
  PROVE  LogInvariant'
<1>1. \A n \in Nodes : LogSound(n)'
  BY DEF LogInvariant, LogSound
<1>2. \A h \in Goroutines : TaskSound(h)'
  <2>1. ASSUME NEW h \in Goroutines \ {g} PROVE TaskSound(h)'
    BY DEF LogInvariant, TaskSound, At
  <2> QED  BY <2>1
<1>3. AppendsApart'
  BY DEF LogInvariant, AppendsApart, At
<1>4. LoggedBeforeApplied'
  BY DEF LogInvariant, LoggedBeforeApplied
<1> QED
  BY <1>1, <1>2, <1>3, <1>4 DEF LogInvariant

\* One that moves none.
LEMMA SameLog ==
  ASSUME LogInvariant, UNCHANGED <<log, stored, applied, gr>>
  PROVE  LogInvariant'
BY DEF LogInvariant, LogSound, TaskSound, AppendsApart, LoggedBeforeApplied, At

\* Back in its caller's loop, a goroutine has no event in hand.
LEMMA ResumeSound ==
  ASSUME TypeOK, LogInvariant, NEW g \in Goroutines, gr[g].pc \in {"insert", "apply"},
         gr' = [gr EXCEPT ![g] = Resume(g)]
  PROVE  TaskSound(g)' /\ ~At(g, "insert")'
<1>0. gr[g] \in Tasks
  BY DEF TypeOK
<1>1. gr'[g] = Resume(g)
  BY DEF TypeOK
<1>2. TaskSound(g)
  BY DEF LogInvariant
<1>3. CASE g \in Adapters
  BY <1>1, <1>3 DEF Resume, Idle, TaskSound, At
<1>4. CASE g \notin Adapters
  <2>1. gr'[g] = [gr[g] EXCEPT !.pc = "next", !.event = None, !.seq = 0]
    BY <1>1, <1>4 DEF Resume
  <2>2. gr'[g].pc = "next" /\ gr'[g].event = None /\ gr'[g].peer = gr[g].peer
    <3>1. ASSUME NEW t \in Tasks, NEW u, u = [t EXCEPT !.pc = "next", !.event = None, !.seq = 0]
          PROVE  u.pc = "next" /\ u.event = None /\ u.peer = t.peer
      BY <3>1 DEF Tasks
    <3> QED  BY <1>0, <2>1, <3>1
  <2>3. gr[g].peer \in Peers[On[g]]
    BY <1>2, <1>4 DEF TaskSound, At
  <2> QED  BY <1>4, <2>2, <2>3 DEF TaskSound, At
<1> QED
  BY <1>3, <1>4

\* A goroutine that has nothing to do is sound.
LEMMA IdleSound ==
  ASSUME NEW g \in Goroutines, gr'[g] = Idle
  PROVE  TaskSound(g)' /\ ~At(g, "insert")'
BY DEF TaskSound, Idle, At

\* So is one that has just asked.
LEMMA AskingSound ==
  ASSUME NEW g \in Pullers, NEW p \in Peers[On[g]], gr'[g] = Asking(g, p)
  PROVE  TaskSound(g)' /\ ~At(g, "insert")'
BY Placement, AdapterOrPuller DEF TaskSound, Asking, Idle, At

\* Every step keeps the logs sound.
LEMMA LogNext == TypeOK /\ LogInvariant /\ [Next]_vars => LogInvariant'
<1> SUFFICES ASSUME TypeOK, LogInvariant, [Next]_vars PROVE LogInvariant'
  OBVIOUS
<1> USE Placement
<1>0. \A g \in Goroutines : gr[g] \in Tasks /\ TaskSound(g)
  BY DEF TypeOK, LogInvariant
<1>1. ASSUME NEW g \in Adapters, NEW e \in Events, Observe(g, e) PROVE LogInvariant'
  <2>1. g \in Goroutines /\ gr[g] = Idle
    BY <1>0, <1>1 DEF Observe, TaskSound
  <2>2. gr'[g].pc = "append" /\ gr'[g].event = e /\ gr'[g].peer = None
    BY <1>1, <2>1 DEF Observe, TypeOK, Tasks, Idle
  <2>3. TaskSound(g)' /\ ~At(g, "insert")'
    BY <2>2 DEF TaskSound, At
  <2>4. \A h \in Goroutines \ {g} : gr'[h] = gr[h]
    BY <1>1 DEF Observe, TypeOK
  <2> QED  BY <1>1, <2>1, <2>3, <2>4, QuietLog DEF Observe
<1>2. ASSUME NEW g \in Goroutines, TakeNumber(g) PROVE LogInvariant'
  <2> DEFINE n == On[g]
  <2>1. /\ n \in Nodes /\ log[n].last \in Nat
        /\ log'[n].last = log[n].last + 1 /\ log'[n].rows = log[n].rows
        /\ \A m \in Nodes \ {n} : log'[m] = log[m]
    BY <1>2 DEF TakeNumber, Reserve, TypeOK
  <2>2. \A r \in log[n].rows : r.seq \in 1..log[n].last
    BY <2>1 DEF LogInvariant, LogSound
  <2>3. \A m \in Nodes : LogSound(m)'
    <3>1. ASSUME NEW m \in Nodes \ {n} PROVE LogSound(m)'
      BY <1>2, <2>1 DEF TakeNumber, LogInvariant, LogSound
    <3>2. LogSound(n)'
      BY <1>2, <2>1, <2>2 DEF TakeNumber, LogInvariant, LogSound
    <3> QED  BY <3>1, <3>2
  <2>4. /\ gr'[g].pc = "insert" /\ gr'[g].seq = log[n].last + 1
        /\ gr'[g].event = gr[g].event /\ gr'[g].peer = gr[g].peer
        /\ \A h \in Goroutines \ {g} : gr'[h] = gr[h]
    BY <1>0, <1>2 DEF TakeNumber, TypeOK, Tasks
  <2>5. \A r \in log'[n].rows : r.seq < gr'[g].seq
    BY <2>1, <2>2, <2>4
  <2>9. gr'[g].seq = log'[n].last /\ gr'[g].seq > 0
    BY <2>1, <2>4
  <2>6. TaskSound(g)'
    <3>1. TaskSound(g) /\ gr[g].pc = "append" /\ gr'[g].event # None
      BY <1>0, <1>2, <2>4 DEF TakeNumber, TaskSound, At
    <3>2. gr[g].peer = gr'[g].peer
      BY <2>4
    <3> QED  BY <2>4, <2>5, <2>9, <3>1, <3>2 DEF TaskSound, At
  <2>7. ASSUME NEW h \in Goroutines \ {g} PROVE TaskSound(h)'
    <3>1. At(h, "insert") => On[h] # n
      BY <1>2 DEF TakeNumber, LogFree
    <3>2. log'[On[h]].rows = log[On[h]].rows /\ (On[h] # n => log'[On[h]] = log[On[h]])
      BY <2>1
    <3>3. TaskSound(h) /\ gr'[h] = gr[h] /\ stored' = stored
      BY <1>0, <1>2, <2>4 DEF TakeNumber
    <3>4. CASE At(h, "insert")
      BY <3>1, <3>2, <3>3, <3>4 DEF TaskSound, At
    <3>5. CASE ~At(h, "insert")
      BY <3>3, <3>5 DEF TaskSound, At
    <3> QED  BY <3>4, <3>5
  <2>8. AppendsApart'
    BY <1>2, <2>4 DEF TakeNumber, LogFree, LogInvariant, AppendsApart, At
  <2> QED  BY <1>2, <2>3, <2>6, <2>7, <2>8 DEF TakeNumber, LogInvariant, LoggedBeforeApplied
<1>3. ASSUME NEW g \in Goroutines, InsertRow(g) PROVE LogInvariant'
  <2> DEFINE n == On[g]
             row == [seq |-> gr[g].seq, id |-> gr[g].event]
  <2>1. /\ n \in Nodes /\ log[n].last \in Nat /\ row \in Rows
        /\ log'[n].last = log[n].last /\ log'[n].rows = log[n].rows \cup {row}
        /\ stored'[n] = stored[n] \cup {row}
        /\ \A m \in Nodes \ {n} : log'[m] = log[m] /\ stored'[m] = stored[m]
    BY <1>3, EventInHand DEF InsertRow, Store, TypeOK, At
  <2>2. /\ row.seq = gr[g].seq /\ row.id = gr[g].event /\ row.seq = log[n].last
        /\ \A r \in log[n].rows : r.seq < row.seq /\ r.id # row.id
    BY <1>0, <1>3 DEF InsertRow, TaskSound, At, Accepts, Ids
  <2>3. ASSUME NEW m \in Nodes PROVE LogSound(m)'
    <3>1. CASE m # n
      BY <1>3, <2>1, <3>1 DEF InsertRow, LogInvariant, LogSound
    <3>2. CASE m = n
      <4>1. IsFiniteSet(log[n].rows) /\ \A r \in log[n].rows : r.seq \in 1..log[n].last
        BY <2>1 DEF LogInvariant, LogSound
      <4>2. IsFiniteSet(log[n].rows \cup {row})
        <5> HIDE DEF row
        <5> QED  BY <4>1, FS_AddElement
      <4>3. row.seq \in 1..log[n].last
        <5>1. row.seq > 0
          BY <1>0, <1>3 DEF InsertRow, TaskSound, At
        <5> QED  BY <2>1, <2>2, <5>1
      <4>4. \A r, s \in log[n].rows \cup {row} : r.seq = s.seq \/ r.id = s.id => r = s
        <5>1. \A r, s \in log[n].rows : r.seq = s.seq \/ r.id = s.id => r = s
          BY <2>1 DEF LogInvariant, LogSound
        <5>2. \A r \in log[n].rows : r.seq # row.seq /\ r.id # row.id
          BY <1>3 DEF InsertRow, Accepts, Ids, Numbers
        <5> HIDE DEF row
        <5> QED  BY <5>1, <5>2
      <4>5. log[n].rows \cup {row} \subseteq stored'[n]
        BY <2>1 DEF LogInvariant, LogSound
      <4> HIDE DEF row
      <4> QED  BY <2>1, <3>2, <4>1, <4>2, <4>3, <4>4, <4>5 DEF LogSound
    <3> QED  BY <3>1, <3>2
  <2>4. /\ gr'[g].pc = "apply" /\ gr'[g].seq = gr[g].seq /\ gr'[g].event = gr[g].event
        /\ gr'[g].peer = gr[g].peer /\ \A h \in Goroutines \ {g} : gr'[h] = gr[h]
    BY <1>0, <1>3 DEF InsertRow, TypeOK, Tasks
  <2>5. TaskSound(g)'
    <3>1. [seq |-> gr[g].seq, id |-> gr[g].event] \in stored'[On[g]]
      BY <1>3, <2>1 DEF InsertRow, TypeOK
    <3>2. /\ gr[g].event # None
          /\ g \in Adapters => gr[g].peer = None
          /\ g \notin Adapters => gr[g].peer \in Peers[On[g]]
      BY <1>0, <1>3 DEF InsertRow, TaskSound, At
    <3> QED  BY <2>4, <3>1, <3>2 DEF TaskSound, At
  <2>6. ASSUME NEW h \in Goroutines \ {g} PROVE TaskSound(h)'
    <3>1. At(h, "insert") => On[h] # n
      BY <1>3 DEF InsertRow, LogInvariant, AppendsApart
    <3>2. stored[On[h]] \subseteq stored'[On[h]] /\ (On[h] # n => log'[On[h]] = log[On[h]])
      BY <2>1
    <3> QED  BY <1>0, <2>4, <3>1, <3>2 DEF TaskSound, At
  <2>7. AppendsApart'
    BY <2>4 DEF LogInvariant, AppendsApart, At
  <2>8. LoggedBeforeApplied'
    BY <1>3, <2>1 DEF InsertRow, LogInvariant, LoggedBeforeApplied
  <2> QED  BY <2>3, <2>5, <2>6, <2>7, <2>8 DEF LogInvariant
<1>4. ASSUME NEW g \in Goroutines, RefuseRow(g) PROVE LogInvariant'
  BY <1>4, ResumeSound, QuietLog DEF RefuseRow, At, TypeOK
<1>5. ASSUME NEW g \in Goroutines, InsertFails(g) PROVE LogInvariant'
  BY <1>5, ResumeSound, QuietLog DEF InsertFails, At, TypeOK
<1>6. ASSUME NEW g \in Goroutines, Apply(g) PROVE LogInvariant'
  <2>1. TaskSound(g)' /\ ~At(g, "insert")'
    BY <1>6, ResumeSound DEF Apply, At
  <2>2. \A h \in Goroutines \ {g} : gr'[h] = gr[h]
    BY <1>6 DEF Apply, TypeOK
  <2>3. \A n \in Nodes : LogSound(n)'
    BY <1>6 DEF Apply, LogInvariant, LogSound
  <2>4. \A h \in Goroutines \ {g} : TaskSound(h)'
    BY <1>0, <1>6, <2>2 DEF Apply, TaskSound, At
  <2>5. AppendsApart'
    BY <2>1, <2>2 DEF LogInvariant, AppendsApart, At
  <2>6. LoggedBeforeApplied'
    <3>1. [seq |-> gr[g].seq, id |-> gr[g].event] \in stored[On[g]]
      BY <1>0, <1>6 DEF Apply, TaskSound, At
    <3> QED
      BY <1>6, <3>1 DEF Apply, AppliedTo, LogInvariant, LoggedBeforeApplied, TypeOK
  <2> QED  BY <2>1, <2>3, <2>4, <2>5, <2>6 DEF LogInvariant
<1>7. ASSUME NEW g \in Pushers, PushPull(g) PROVE LogInvariant'
  <2>1. g \in Pullers /\ g \in Goroutines
    BY DEF Pullers
  <2>2. /\ gr'[g] = gr[g] \/ \E p \in Peers[On[g]] : gr'[g] = Asking(g, p)
        /\ \A h \in Goroutines \ {g} : gr'[h] = gr[h]
    BY <1>7, <2>1 DEF PushPull, TypeOK
  <2>3. gr[g] = Idle
    BY <1>0, <1>7, <2>1 DEF PushPull, TaskSound
  <2>4. TaskSound(g)' /\ ~At(g, "insert")'
    BY <2>1, <2>2, <2>3, AskingSound, IdleSound
  <2> QED  BY <1>7, <2>1, <2>2, <2>4, QuietLog DEF PushPull
<1>8. ASSUME NEW g \in Tickers, NEW p \in Nodes, TickPull(g, p) PROVE LogInvariant'
  <2>1. g \in Pullers /\ g \in Goroutines
    BY DEF Pullers
  <2>2. gr'[g] = Asking(g, p) /\ p \in Peers[On[g]] /\ \A h \in Goroutines \ {g} : gr'[h] = gr[h]
    BY <1>8, <2>1 DEF TickPull, TypeOK
  <2> QED  BY <1>8, <2>1, <2>2, AskingSound, QuietLog DEF TickPull
<1>9. ASSUME NEW g \in Pullers, Receive(g) PROVE LogInvariant'
  <2>1. g \in Goroutines /\ g \notin Adapters /\ gr[g].peer \in Peers[On[g]]
    BY <1>0, <1>9, AdapterOrPuller DEF Receive, TaskSound, At
  <2>2. /\ gr'[g] = Idle \/ (gr'[g].pc = "next" /\ gr'[g].event = None /\ gr'[g].peer = gr[g].peer)
        /\ \A h \in Goroutines \ {g} : gr'[h] = gr[h]
    BY <1>9, <2>1 DEF Receive, TypeOK, Idle
  <2>3. TaskSound(g)' /\ ~At(g, "insert")'
    BY <2>1, <2>2, IdleSound DEF TaskSound, At
  <2> QED  BY <1>9, <2>1, <2>2, <2>3, QuietLog DEF Receive
<1>10. ASSUME NEW g \in Pullers, PullFails(g) PROVE LogInvariant'
  BY <1>10, IdleSound, QuietLog DEF PullFails, TypeOK
<1>11. ASSUME NEW g \in Pullers, Skip(g) PROVE LogInvariant'
  <2>1. /\ g \in Goroutines /\ gr'[g].pc = "next" /\ gr'[g].event = gr[g].event
        /\ gr'[g].peer = gr[g].peer /\ \A h \in Goroutines \ {g} : gr'[h] = gr[h]
    BY <1>0, <1>11 DEF Skip, TypeOK, Tasks, At
  <2>2. TaskSound(g)' /\ ~At(g, "insert")'
    BY <1>0, <1>11, <2>1 DEF Skip, TaskSound, At
  <2> QED  BY <1>11, <2>1, <2>2, QuietLog DEF Skip
<1>12. ASSUME NEW g \in Pullers, Mark(g) PROVE LogInvariant'
  <2>1. /\ g \in Goroutines /\ gr'[g].pc = "append"
        /\ gr'[g].event = FirstRow(gr[g].batch).id
        /\ gr'[g].peer = gr[g].peer /\ \A h \in Goroutines \ {g} : gr'[h] = gr[h]
    BY <1>0, <1>12 DEF Mark, TypeOK, Tasks, At
  <2>2. FirstRow(gr[g].batch).id # None
    BY <1>12, FirstRowType DEF Mark
  <2>3. TaskSound(g)' /\ ~At(g, "insert")'
    BY <1>0, <1>12, <2>1, <2>2 DEF Mark, TaskSound, At
  <2> QED  BY <1>12, <2>1, <2>3, QuietLog DEF Mark
<1>13. ASSUME NEW g \in Pullers, Finish(g) PROVE LogInvariant'
  BY <1>13, IdleSound, QuietLog DEF Finish, TypeOK
<1>14. ASSUME NEW n \in Nodes, NEW p \in Nodes,
              ReceivePost(n, p) \/ LosePost(n, p) \/ ReceiveHeartbeat(n, p)
       PROVE  LogInvariant'
  BY <1>14, SameLog DEF ReceivePost, LosePost, ReceiveHeartbeat
<1>15. ASSUME NEW n \in Nodes, CopyState(n) \/ StoreSnapshot(n) PROVE LogInvariant'
  BY <1>15, SameLog DEF CopyState, StoreSnapshot
<1>16. ASSUME NEW n \in Nodes, NEW old \in SUBSET Events, Compact(n, old) PROVE LogInvariant'
  <2>1. /\ log'[n].last = log[n].last /\ log'[n].rows \subseteq log[n].rows
        /\ \A m \in Nodes \ {n} : log'[m] = log[m]
    BY <1>16 DEF Compact, Compacted, TypeOK
  <2>2. \A m \in Nodes : log'[m].last = log[m].last /\ log'[m].rows \subseteq log[m].rows
    BY <2>1
  <2>3. ASSUME NEW m \in Nodes PROVE LogSound(m)'
    <3>1. IsFiniteSet(log'[m].rows)
      BY <2>2, FS_Subset DEF LogInvariant, LogSound
    <3> QED  BY <1>16, <2>2, <3>1 DEF Compact, LogInvariant, LogSound
  <2>4. \A g \in Goroutines : TaskSound(g)'
    BY <1>0, <1>16, <2>2 DEF Compact, TaskSound, At
  <2> QED
    BY <1>16, <2>3, <2>4 DEF Compact, LogInvariant, AppendsApart, LoggedBeforeApplied, At
<1>17. ASSUME NEW n \in Nodes, Crash(n) PROVE LogInvariant'
  <2>1. /\ log'[n] = Reopened(log[n]) /\ log'[n].rows = log[n].rows
        /\ \A m \in Nodes \ {n} : log'[m] = log[m]
    BY <1>17 DEF Crash, Reopened, TypeOK
  <2>2. \A r \in log[n].rows : r.seq \in 1..log[n].last
    BY DEF LogInvariant, LogSound
  <2>3. \A r \in log'[n].rows : r.seq \in 1..log'[n].last
    <3>1. log[n].last \in Nat /\ log[n].rows \in SUBSET Rows
      BY DEF TypeOK
    <3>2. log'[n].last = TopNumber(log[n].rows)
      BY <2>1, <3>1 DEF Reopened, TypeOK
    <3> QED  BY <2>1, <2>2, <3>1, <3>2, TopNumberIsTop
  <2>4. ASSUME NEW m \in Nodes PROVE LogSound(m)'
    BY <1>17, <2>1, <2>3 DEF Crash, LogInvariant, LogSound
  <2>5. \A g \in Goroutines : gr'[g] = IF On[g] = n THEN Idle ELSE gr[g]
    BY <1>17 DEF Crash
  <2>6. ASSUME NEW g \in Goroutines PROVE TaskSound(g)'
    <3>1. CASE On[g] = n
      BY <2>5, <3>1, IdleSound
    <3>2. CASE On[g] # n
      BY <1>0, <1>17, <2>1, <2>5, <3>2 DEF Crash, TaskSound, At
    <3> QED  BY <3>1, <3>2
  <2>7. AppendsApart'
    BY <2>5 DEF LogInvariant, AppendsApart, At, Idle
  <2>8. LoggedBeforeApplied'
    BY <1>17 DEF Crash, LogInvariant, LoggedBeforeApplied, TypeOK
  <2> QED  BY <2>4, <2>6, <2>7, <2>8 DEF LogInvariant
<1>18. CASE UNCHANGED vars
  BY <1>18, SameLog DEF vars
<1> QED
  BY <1>1, <1>2, <1>3, <1>4, <1>5, <1>6, <1>7, <1>8, <1>9, <1>10, <1>11, <1>12, <1>13, <1>14,
     <1>15, <1>16, <1>17, <1>18 DEF Next

\* For every value of the constants, the variables keep their types and the logs
\* stay sound.
THEOREM LogHolds == Spec => [](TypeOK /\ LogInvariant)
<1>1. Init => TypeOK /\ LogInvariant
  BY TypeInit, LogInit
<1>2. TypeOK /\ LogInvariant /\ [Next]_vars => (TypeOK /\ LogInvariant)'
  BY TypeNext, LogNext
<1> QED
  BY <1>1, <1>2, PTL DEF Spec

\* For every value of the constants, types and capacities are kept.
THEOREM TypeCorrect == Spec => []TypeOK
BY LogHolds, PTL

\* For every value of the constants, no kernel applies an event that its node's log
\* has not recorded.
THEOREM LogComesFirst == Spec => []LoggedBeforeApplied
<1>1. LogInvariant => LoggedBeforeApplied
  BY DEF LogInvariant
<1> QED
  BY <1>1, LogHolds, PTL

(***************************************************************************)
(* Replication.                                                            *)
(***************************************************************************)

\* Only an INSERT adds to what was ever recorded.
LEMMA StoredKept ==
  ASSUME [Next]_vars
  PROVE  stored' = stored \/ \E g \in Goroutines : InsertRow(g)
BY DEF Next, vars, Observe, TakeNumber, RefuseRow, InsertFails, Apply, PushPull, TickPull,
       Receive, PullFails, Skip, Mark, Finish, ReceivePost, LosePost, ReceiveHeartbeat,
       CopyState, StoreSnapshot, Crash, Compact

\* A row adds its id.
LEMMA IdsOfMore ==
  ASSUME NEW rows, NEW s, NEW e
  PROVE  Ids(rows \cup {[seq |-> s, id |-> e]}) = Ids(rows) \cup {e}
<1> DEFINE row == [seq |-> s, id |-> e]
<1>1. row.id = e
  OBVIOUS
<1> HIDE DEF row
<1>2. Ids(rows \cup {row}) = Ids(rows) \cup {row.id}
  BY DEF Ids
<1> QED
  BY <1>1, <1>2 DEF row

\* What an idle goroutine has in hand.
LEMMA NothingInHand ==
  \A g \in Goroutines : gr[g] = Idle => InHand(g) = {}
BY DEF InHand, Idle, Ids

\* The initial state has no events in hand.
LEMMA SpreadInit == Init => SpreadInvariant
BY NothingInHand, Placement DEF Init, SpreadInvariant, SourceSound, Idle

\* A step that records nothing, and gives one goroutine no event it had not.
LEMMA QuietSpread ==
  ASSUME SpreadInvariant, UNCHANGED stored,
         NEW g \in Goroutines, \A h \in Goroutines \ {g} : gr'[h] = gr[h],
         \/ InHand(g)' = {}
         \/ InHand(g)' \subseteq InHand(g) /\ gr'[g].peer = gr[g].peer,
         \/ gr'[g].event = None /\ gr'[g].pc \notin {"append", "insert"}
         \/ gr'[g].event = gr[g].event
             /\ (gr'[g].pc \in {"append", "insert"} => gr[g].pc \in {"append", "insert"})
         \/ g \notin Adapters
  PROVE  SpreadInvariant'
<1>1. \A h \in Goroutines \ {g} : InHand(h)' = InHand(h)
  BY DEF InHand
<1>2. ASSUME NEW h \in Goroutines \ {g} PROVE SourceSound(h)'
  BY <1>1 DEF SpreadInvariant, SourceSound
<1>3. SourceSound(g)'
  <2>1. SourceSound(g)
    BY DEF SpreadInvariant
  <2> QED  BY <2>1 DEF SourceSound
<1>4. \A h, k \in Adapters : gr'[h].event = gr'[k].event /\ gr'[h].event # None => h = k
  BY Placement DEF SpreadInvariant
<1> QED
  BY <1>2, <1>3, <1>4 DEF SpreadInvariant

\* Going back to the caller's loop drops the event in hand.
LEMMA ResumeSpread ==
  ASSUME TypeOK, LogInvariant, SpreadInvariant, UNCHANGED stored,
         NEW g \in Goroutines, gr' = [gr EXCEPT ![g] = Resume(g)]
  PROVE  SpreadInvariant'
<1>0. gr[g] \in Tasks
  BY DEF TypeOK
<1>1. gr'[g] = Resume(g) /\ \A h \in Goroutines \ {g} : gr'[h] = gr[h]
  BY DEF TypeOK
<1>2. CASE g \in Adapters
  <2>1. gr'[g] = Idle
    BY <1>1, <1>2 DEF Resume
  <2>2. InHand(g)' = {} /\ gr'[g].event = None /\ gr'[g].pc = "idle"
    BY <2>1 DEF InHand, Idle, Ids
  <2> QED  BY <1>1, <2>2, QuietSpread
<1>3. CASE g \notin Adapters
  <2>1. gr'[g] = [gr[g] EXCEPT !.pc = "next", !.event = None, !.seq = 0]
    BY <1>1, <1>3 DEF Resume
  <2>2. gr'[g].event = None /\ gr'[g].peer = gr[g].peer /\ gr'[g].batch = gr[g].batch
    <3>1. ASSUME NEW t \in Tasks, NEW u, u = [t EXCEPT !.pc = "next", !.event = None, !.seq = 0]
          PROVE  u.event = None /\ u.peer = t.peer /\ u.batch = t.batch
      BY <3>1 DEF Tasks
    <3> QED  BY <1>0, <2>1, <3>1
  <2>3. InHand(g)' \subseteq InHand(g)
    BY <2>2 DEF InHand, Ids
  <2> QED  BY <1>1, <1>3, <2>2, <2>3, QuietSpread
<1> QED
  BY <1>2, <1>3

\* A goroutine that comes to rest, or begins to pull, has none.
LEMMA RestSpread ==
  ASSUME SpreadInvariant, UNCHANGED stored, NEW g \in Goroutines,
         gr'[g] = Idle \/ \E p \in Nodes : gr'[g] = Asking(g, p),
         \A h \in Goroutines \ {g} : gr'[h] = gr[h]
  PROVE  SpreadInvariant'
<1>1. /\ gr'[g].event = None /\ gr'[g].batch = {}
      /\ gr'[g].pc \notin {"append", "insert"}
  <2>1. CASE gr'[g] = Idle
    BY <2>1 DEF Idle
  <2>2. ASSUME NEW p \in Nodes, gr'[g] = Asking(g, p)
        PROVE  gr'[g].event = None /\ gr'[g].batch = {} /\ gr'[g].pc = "asked"
    BY <2>2 DEF Idle, Asking
  <2> QED  BY <2>1, <2>2
<1>2. InHand(g)' = {}
  BY <1>1 DEF InHand, Ids
<1> QED
  BY <1>1, <1>2, QuietSpread

\* Every step keeps the origin of the events in hand.
LEMMA SpreadNext == TypeOK /\ LogInvariant /\ SpreadInvariant /\ [Next]_vars => SpreadInvariant'
<1> SUFFICES ASSUME TypeOK, LogInvariant, SpreadInvariant, [Next]_vars PROVE SpreadInvariant'
  OBVIOUS
<1> USE Placement
<1>0. \A g \in Goroutines : gr[g] \in Tasks /\ TaskSound(g) /\ SourceSound(g)
  BY DEF TypeOK, LogInvariant, SpreadInvariant
<1>1. ASSUME NEW g \in Adapters, NEW e \in Events, Observe(g, e) PROVE SpreadInvariant'
  <2>1. g \in Goroutines /\ gr[g] = Idle /\ g \notin Pullers
    BY <1>0, <1>1, AdapterOrPuller DEF Observe, TaskSound
  <2>2. /\ gr'[g].pc = "append" /\ gr'[g].event = e /\ stored' = stored
        /\ \A h \in Goroutines \ {g} : gr'[h] = gr[h]
    BY <1>0, <1>1, <2>1 DEF Observe, TypeOK, Tasks
  <2>3. /\ Home[e] = On[g] /\ \A h \in Adapters : gr[h].event # e
        /\ \A n \in Nodes : e \notin Ids(stored[n])
    BY <1>1 DEF Observe, Happened
  <2>4. SourceSound(g)'
    BY <2>1, <2>2, <2>3 DEF SourceSound
  <2>5. ASSUME NEW h \in Goroutines \ {g} PROVE SourceSound(h)'
    BY <1>0, <2>2 DEF SourceSound, InHand
  <2>6. \A h, k \in Adapters : gr'[h].event = gr'[k].event /\ gr'[h].event # None => h = k
    BY <2>2, <2>3 DEF SpreadInvariant
  <2> QED  BY <2>4, <2>5, <2>6 DEF SpreadInvariant
<1>2. ASSUME NEW g \in Goroutines, TakeNumber(g) PROVE SpreadInvariant'
  <2>1. /\ gr'[g].pc = "insert" /\ gr'[g].event = gr[g].event /\ gr'[g].peer = gr[g].peer
        /\ gr'[g].batch = gr[g].batch /\ gr[g].pc = "append"
        /\ \A h \in Goroutines \ {g} : gr'[h] = gr[h]
    BY <1>0, <1>2 DEF TakeNumber, TypeOK, Tasks, At
  <2>2. InHand(g)' \subseteq InHand(g)
    BY <2>1 DEF InHand, Ids
  <2> QED  BY <1>2, <2>1, <2>2, QuietSpread DEF TakeNumber
<1>3. ASSUME NEW g \in Goroutines, InsertRow(g) PROVE SpreadInvariant'
  <2> DEFINE n == On[g]
             e == gr[g].event
  <2>1. /\ gr'[g].pc = "apply" /\ gr'[g].event = e /\ gr'[g].peer = gr[g].peer
        /\ gr'[g].batch = gr[g].batch /\ gr[g].pc = "insert"
        /\ \A h \in Goroutines \ {g} : gr'[h] = gr[h]
    BY <1>0, <1>3 DEF InsertRow, TypeOK, Tasks, At
  <2>2. \A h \in Goroutines : InHand(h)' = InHand(h) /\ gr'[h].peer = gr[h].peer
                               /\ gr'[h].event = gr[h].event
    BY <2>1 DEF InHand
  <2>3. \A m \in Nodes : /\ Ids(stored[m]) \subseteq Ids(stored'[m])
                          /\ Ids(stored'[m]) \subseteq Ids(stored[m]) \cup {e}
    BY <1>3 DEF InsertRow, Ids, TypeOK
  <2>4. ASSUME NEW h \in Goroutines \ {g} PROVE h \in Adapters /\ gr[h].pc \in {"append", "insert"} => gr[h].event # e
    <3>1. SUFFICES ASSUME h \in Adapters, gr[h].pc \in {"append", "insert"} PROVE gr[h].event # e
      OBVIOUS
    <3>2. /\ gr[h].event # None /\ e # None
          /\ \A m \in Nodes : gr[h].event \notin Ids(stored[m])
      BY <1>0, <2>1, <3>1 DEF SourceSound, TaskSound
    <3>3. CASE g \in Adapters
      BY <3>1, <3>2, <3>3 DEF SpreadInvariant
    <3>4. CASE g \notin Adapters
      <4>1. g \in Pullers /\ gr[g].peer \in Nodes
        BY <1>0, <2>1, <3>4, AdapterOrPuller DEF TaskSound, At
      <4>2. e \in InHand(g)
        BY <3>2 DEF InHand
      <4>3. e \in Ids(stored[gr[g].peer])
        BY <1>0, <4>1, <4>2 DEF SourceSound
      <4> QED  BY <3>2, <4>1, <4>3
    <3> QED  BY <3>3, <3>4
  <2>5. ASSUME NEW h \in Goroutines PROVE SourceSound(h)'
    <3>1. ASSUME h \in Pullers, NEW d \in InHand(h)
          PROVE  d \in Ids(stored'[gr[h].peer]) /\ Allowed(On[h], gr[h].peer, d)
      <4>1. d \in Ids(stored[gr[h].peer]) /\ Allowed(On[h], gr[h].peer, d)
        BY <1>0, <3>1 DEF SourceSound
      <4>2. gr[h].peer \in Nodes
        BY <4>1 DEF Allowed
      <4> QED  BY <2>3, <4>1, <4>2
    <3>2. h \in Adapters /\ gr'[h].pc \in {"append", "insert"} =>
            /\ Home[gr[h].event] = On[h]
            /\ \A m \in Nodes : gr[h].event \notin Ids(stored'[m])
      BY <1>0, <2>1, <2>3, <2>4 DEF SourceSound
    <3> QED  BY <2>2, <3>1, <3>2 DEF SourceSound
  <2> QED  BY <2>2, <2>5 DEF SpreadInvariant
<1>4. ASSUME NEW g \in Goroutines, RefuseRow(g) \/ InsertFails(g) \/ Apply(g)
      PROVE  SpreadInvariant'
  BY <1>4, ResumeSpread DEF RefuseRow, InsertFails, Apply
<1>5. ASSUME NEW g \in Pushers, PushPull(g) PROVE SpreadInvariant'
  <2>1. g \in Goroutines
    BY DEF Pullers
  <2>2. gr[g] = Idle
    BY <1>0, <1>5, <2>1 DEF PushPull, TaskSound
  <2>3. /\ gr'[g] = Idle \/ \E p \in Nodes : gr'[g] = Asking(g, p)
        /\ \A h \in Goroutines \ {g} : gr'[h] = gr[h]
    BY <1>5, <2>1, <2>2 DEF PushPull, TypeOK
  <2> QED  BY <1>5, <2>1, <2>3, RestSpread DEF PushPull
<1>6. ASSUME NEW g \in Tickers, NEW p \in Nodes, TickPull(g, p) PROVE SpreadInvariant'
  <2>1. g \in Goroutines
    BY DEF Pullers
  <2> QED  BY <1>6, <2>1, RestSpread DEF TickPull, TypeOK
<1>7. ASSUME NEW g \in Pullers, Receive(g) PROVE SpreadInvariant'
  <2> DEFINE p == gr[g].peer
             A == Answer(On[g], p, gr[g].after)
  <2>1. g \in Goroutines /\ g \notin Adapters /\ p \in Peers[On[g]] /\ gr[g].after \in Nat
    BY <1>0, <1>7, AdapterOrPuller DEF Receive, TaskSound, At, Tasks
  <2>2. A \subseteq stored[p] /\ \A r \in A : r.id \in Wanted[On[g]][p]
    <3>1. A \subseteq log[p].rows /\ \A r \in A : r.id \in Wanted[On[g]][p]
      BY <2>1, AnswerIsPage
    <3>2. log[p].rows \subseteq stored[p]
      BY <2>1 DEF LogInvariant, LogSound
    <3> QED  BY <3>1, <3>2
  <2>3. stored' = stored /\ \A h \in Goroutines \ {g} : gr'[h] = gr[h]
    BY <1>7 DEF Receive, TypeOK
  <2>4. CASE A = {}
    <3>1. gr'[g] = Idle
      BY <1>7, <2>1, <2>4 DEF Receive, TypeOK
    <3> QED  BY <2>1, <2>3, <3>1, RestSpread
  <2>5. CASE A # {}
    <3>1. gr'[g].peer = p /\ gr'[g].batch = A /\ gr'[g].event = None
      BY <1>7, <2>1, <2>5 DEF Receive, TypeOK, Idle
    <3>2. InHand(g)' = Ids(A)
      BY <3>1 DEF InHand
    <3>3. On[g] \notin Untrusted[p]
      BY <1>7 DEF Receive, Trusts
    <3>4. \A d \in Ids(A) : d \in Ids(stored[p]) /\ Allowed(On[g], p, d)
      BY <2>1, <2>2, <3>3 DEF Ids, Allowed
    <3>5. SourceSound(g)'
      <4> HIDE DEF A
      <4> QED  BY <2>1, <2>3, <3>1, <3>2, <3>4 DEF SourceSound
    <3>6. ASSUME NEW h \in Goroutines \ {g} PROVE SourceSound(h)'
      BY <1>0, <2>3 DEF SourceSound, InHand
    <3>7. \A h, k \in Adapters : gr'[h].event = gr'[k].event /\ gr'[h].event # None => h = k
      BY <2>1, <2>3 DEF SpreadInvariant
    <3> QED  BY <3>5, <3>6, <3>7 DEF SpreadInvariant
  <2> QED  BY <2>4, <2>5
<1>8. ASSUME NEW g \in Pullers, PullFails(g) \/ Finish(g) PROVE SpreadInvariant'
  BY <1>8, RestSpread DEF PullFails, Finish, TypeOK
<1>9. ASSUME NEW g \in Pullers, Skip(g) PROVE SpreadInvariant'
  <2>1. /\ gr'[g].event = gr[g].event /\ gr'[g].peer = gr[g].peer
        /\ gr'[g].batch \subseteq gr[g].batch /\ \A h \in Goroutines \ {g} : gr'[h] = gr[h]
    BY <1>0, <1>9 DEF Skip, TypeOK, Tasks
  <2>2. InHand(g)' \subseteq InHand(g)
    BY <2>1 DEF InHand, Ids
  <2> QED  BY <1>9, <2>1, <2>2, AdapterOrPuller, QuietSpread DEF Skip
<1>10. ASSUME NEW g \in Pullers, Mark(g) PROVE SpreadInvariant'
  <2>1. /\ gr'[g].event = FirstRow(gr[g].batch).id /\ gr'[g].peer = gr[g].peer
        /\ gr'[g].batch \subseteq gr[g].batch /\ \A h \in Goroutines \ {g} : gr'[h] = gr[h]
    BY <1>0, <1>10 DEF Mark, TypeOK, Tasks
  <2>2. FirstRow(gr[g].batch) \in gr[g].batch
    BY <1>10, FirstRowType DEF Mark
  <2>3. InHand(g)' \subseteq InHand(g)
    BY <2>1, <2>2 DEF InHand, Ids
  <2> QED  BY <1>10, <2>1, <2>3, AdapterOrPuller, QuietSpread DEF Mark
<1>11. ASSUME NEW n \in Nodes, Crash(n) PROVE SpreadInvariant'
  <2>1. /\ stored' = stored
        /\ \A g \in Goroutines : gr'[g] = Idle \/ gr'[g] = gr[g]
    BY <1>11 DEF Crash
  <2>2. Idle.event = None /\ Idle.pc = "idle"
    BY DEF Idle
  <2>3. ASSUME NEW g \in Goroutines PROVE SourceSound(g)'
    <3>1. CASE gr'[g] = Idle
      <4>1. InHand(g)' = {}
        BY <3>1 DEF InHand, Idle, Ids
      <4> QED  BY <2>2, <3>1, <4>1 DEF SourceSound
    <3>2. CASE gr'[g] = gr[g]
      BY <1>0, <2>1, <3>2 DEF SourceSound, InHand
    <3> QED  BY <2>1, <3>1, <3>2
  <2>4. \A h, k \in Adapters : gr'[h].event = gr'[k].event /\ gr'[h].event # None => h = k
    BY <2>1, <2>2 DEF SpreadInvariant
  <2> QED  BY <2>3, <2>4 DEF SpreadInvariant
<1>12. CASE UNCHANGED <<gr, stored>>
  BY <1>12 DEF SpreadInvariant, SourceSound, InHand
<1> QED
  BY <1>1, <1>2, <1>3, <1>4, <1>5, <1>6, <1>7, <1>8, <1>9, <1>10, <1>11, <1>12
     DEF Next, vars, ReceivePost, LosePost, ReceiveHeartbeat, CopyState, StoreSnapshot, Compact

\* A step of the federation is a step of Replication: an event is recorded where it
\* happens, or spreads along one link, which is one that Replication allows.
LEMMA SpreadStep ==
  ASSUME AsConfigured, TypeOK, LogInvariant, SpreadInvariant, [Next]_vars
  PROVE  [Spreading!Next]_[n \in Nodes |-> Ids(stored[n])]
<1> USE Placement
<1>1. CASE stored' = stored
  BY <1>1
<1>2. ASSUME NEW g \in Goroutines, InsertRow(g)
      PROVE  [Spreading!Next]_[n \in Nodes |-> Ids(stored[n])]
  <2> DEFINE n == On[g]
             e == gr[g].event
             known == [m \in Nodes |-> Ids(stored[m])]
  <2>1. n \in Nodes /\ e \in Events /\ gr[g].pc = "insert" /\ TaskSound(g) /\ SourceSound(g)
    BY <1>2, EventInHand DEF InsertRow, At, LogInvariant, SpreadInvariant
  <2>5. \A m \in Nodes : Ids(stored'[m]) = IF m = n THEN Ids(stored[m]) \cup {e} ELSE Ids(stored[m])
    <3>1. /\ stored'[n] = stored[n] \cup {[seq |-> gr[g].seq, id |-> e]}
          /\ \A m \in Nodes \ {n} : stored'[m] = stored[m]
      BY <1>2, <2>1 DEF InsertRow, TypeOK
    <3>2. Ids(stored'[n]) = Ids(stored[n]) \cup {e}
      <4>1. Ids(stored[n] \cup {[seq |-> gr[g].seq, id |-> e]}) = Ids(stored[n]) \cup {e}
        BY IdsOfMore
      <4> QED  BY <3>1, <4>1
    <3> QED  BY <3>1, <3>2
  <2>2. known' = [known EXCEPT ![n] = @ \cup {e}]
    BY <2>1, <2>5
  <2>3. CASE e \in known[n]
    <3>1. \A m \in Nodes : Ids(stored'[m]) = Ids(stored[m])
      BY <2>1, <2>3, <2>5
    <3>2. known' = known
      BY <3>1
    <3> QED  BY <3>2
  <2>4. CASE e \notin known[n]
    <3>1. Spreading!Record(n, e)
      BY <2>2, <2>4 DEF Spreading!Record
    <3>2. CASE g \in Adapters
      <4>1. Spreading!Happen(n, e)
        BY <2>1, <3>1, <3>2 DEF SourceSound, Spreading!Happen
      <4> QED  BY <2>1, <4>1 DEF Spreading!Next
    <3>3. CASE g \notin Adapters
      <4>1. g \in Pullers /\ gr[g].peer \in Nodes /\ e \in InHand(g)
        BY <2>1, <3>3, AdapterOrPuller DEF TaskSound, At, InHand
      <4>2. e \in Ids(stored[gr[g].peer]) /\ Allowed(n, gr[g].peer, e)
        BY <2>1, <4>1 DEF SourceSound
      <4>3. Spreading!MayTake(n, gr[g].peer, e)
        BY <2>1, <4>2 DEF Allowed, AsConfigured, Spreading!MayTake
      <4>4. Spreading!Spread(n, gr[g].peer, e)
        BY <3>1, <4>1, <4>2, <4>3 DEF Spreading!Spread
      <4> QED  BY <2>1, <4>1, <4>4 DEF Spreading!Next
    <3> QED  BY <3>2, <3>3
  <2> QED  BY <2>3, <2>4
<1> QED
  BY <1>1, <1>2, StoredKept

\* SpreadInvariant: whatever an append has in hand was once in the table of the peer it was
\* asked for, along a link that the code allows, or happened here, to one adapter alone;
\* so it stays over crashes, compaction, failed INSERTs and lost messages.
THEOREM SpreadHolds == Spec => []SpreadInvariant
  BY SpreadInit, SpreadNext, LogHolds, PTL DEF Spec

\* For every value of the constants, over crashes, failed INSERTs, compaction and lost
\* messages: an event is recorded first where it happened, and from there only along
\* links that trust and scope allow.  It is proved where nobody is held read-only and no
\* node asks for more than its peer's scope for it, which the code does not see to.
THEOREM FederationReplicates ==
  ASSUME AsConfigured
  PROVE  Spec => ImplementsReplication
<1>1. Init => Spreading!Init
  BY DEF Init, Spreading!Init, Ids
<1>2. TypeOK /\ LogInvariant /\ SpreadInvariant /\ [Next]_vars =>
        [Spreading!Next]_[n \in Nodes |-> Ids(stored[n])]
  BY SpreadStep
<1> QED
  BY <1>1, <1>2, LogHolds, SpreadHolds, PTL DEF Spec, ImplementsReplication, Spreading!Spec

(***************************************************************************)
(* Without compaction the table is the history.                            *)
(***************************************************************************)

\* A row that a step records is numbered after all that were there.
NewRowsLast ==
  \A p \in Nodes :
    /\ stored[p] \subseteq stored'[p]
    /\ \A r \in stored'[p] \ stored[p] : r.seq > 0 /\ \A s \in stored[p] : s.seq < r.seq

\* Rows stay, and new ones come last.
LEMMA CompactedNext ==
  ASSUME MaxCompactions = 0, TypeOK, LogInvariant, NothingCompacted, [Next]_vars
  PROVE  NothingCompacted' /\ NewRowsLast
<1>1. ASSUME NEW g \in Goroutines, InsertRow(g) PROVE NothingCompacted' /\ NewRowsLast
  <2> DEFINE n == On[g]
             row == [seq |-> gr[g].seq, id |-> gr[g].event]
  <2>1. /\ n \in Nodes /\ log'[n].rows = log[n].rows \cup {row}
        /\ stored'[n] = stored[n] \cup {row}
        /\ \A m \in Nodes \ {n} : log'[m] = log[m] /\ stored'[m] = stored[m]
    BY <1>1, Placement DEF InsertRow, Store, TypeOK
  <2>2. row.seq = gr[g].seq /\ row.seq > 0 /\ \A s \in stored[n] : s.seq < row.seq
    BY <1>1, <2>1 DEF InsertRow, LogInvariant, TaskSound, At, NothingCompacted
  <2>3. NothingCompacted'
    BY <2>1 DEF NothingCompacted
  <2>4. NewRowsLast
    <3> HIDE DEF row
    <3> QED  BY <2>1, <2>2 DEF NewRowsLast
  <2> QED  BY <2>3, <2>4
<1>2. ASSUME NEW n \in Nodes, Crash(n) PROVE NothingCompacted' /\ NewRowsLast
  BY <1>2 DEF Crash, Reopened, TypeOK, NothingCompacted, NewRowsLast
<1>3. ASSUME NEW n \in Nodes, NEW old \in SUBSET Events, Compact(n, old) PROVE FALSE
  <2>1. budget.compactions \in 0..0
    BY DEF TypeOK, Budgets
  <2> QED  BY <1>3, <2>1 DEF Compact, Spend
<1>4. ASSUME NEW g \in Goroutines, TakeNumber(g) PROVE NothingCompacted' /\ NewRowsLast
  BY <1>4, Placement DEF TakeNumber, Reserve, TypeOK, NothingCompacted, NewRowsLast
<1>5. CASE UNCHANGED <<log, stored>>
  BY <1>5 DEF NothingCompacted, NewRowsLast
<1> QED
  BY <1>1, <1>2, <1>3, <1>4, <1>5
     DEF Next, vars, Observe, RefuseRow, InsertFails, Apply, PushPull, TickPull,
         Receive, PullFails, Skip, Mark, Finish, ReceivePost, LosePost, ReceiveHeartbeat,
         CopyState, StoreSnapshot

\* Without compaction, the rows of a log are all that it ever had.
LEMMA NothingCompactedHolds ==
  ASSUME MaxCompactions = 0 PROVE Spec => []NothingCompacted
<1>1. Init => NothingCompacted
  BY DEF Init, NothingCompacted, EmptyLog
<1>2. TypeOK /\ LogInvariant /\ NothingCompacted /\ [Next]_vars => NothingCompacted'
  BY CompactedNext
<1> QED
  BY <1>1, <1>2, LogHolds, PTL DEF Spec

\* Without compaction a sequence number names one event, over any number of crashes
\* and failed INSERTs.
THEOREM NumbersAreUnique ==
  ASSUME MaxCompactions = 0 PROVE Spec => []NumberNamesOneEvent
<1>1. LogInvariant /\ NothingCompacted => NumberNamesOneEvent
  BY DEF LogInvariant, LogSound, NothingCompacted, NumberNamesOneEvent
<1> QED
  BY <1>1, LogHolds, NothingCompactedHolds, PTL

\* Without compaction a kernel applies an event once, whatever the dedup set forgot:
\* the primary key of the log refuses the second.
THEOREM EventsApplyOnce ==
  ASSUME MaxCompactions = 0 PROVE Spec => []AppliedOnce
<1>1. LogInvariant /\ NothingCompacted => AppliedOnce
  BY DEF LogInvariant, LogSound, LoggedBeforeApplied, NothingCompacted, AppliedOnce
<1> QED
  BY <1>1, LogHolds, NothingCompactedHolds, PTL

(***************************************************************************)
(* Positions.                                                              *)
(***************************************************************************)

\* A step takes a pull's numbers from what it had, from a position, or from the rows of
\* the peer.
PullNumbers(g) ==
  \/ gr'[g].peer = None
  \/ gr'[g].peer = gr[g].peer /\ gr'[g].after = gr[g].after /\ gr'[g].end = gr[g].end
  \/ /\ gr'[g].peer \in Nodes /\ gr'[g].end = 0
     /\ gr'[g].after = position[On[g]][gr'[g].peer]
  \/ /\ Receive(g) /\ gr'[g].batch = Answer(On[g], gr[g].peer, gr[g].after)
     /\ gr'[g].end = NextPosition(gr[g].peer, gr'[g].batch) /\ gr'[g].batch # {}
     /\ gr[g].peer \in Nodes /\ gr'[g].peer = gr[g].peer /\ gr'[g].after = 0
     /\ \E r \in log[gr[g].peer].rows : r.seq = gr'[g].end

PositionNumbers ==
  \A n, p \in Nodes :
    \/ position'[n][p] \in {0, position[n][p]}
    \/ \E g \in Pullers : /\ On[g] = n /\ gr[g].peer = p /\ position'[n][p] = gr[g].end
                          /\ p # None

\* The fields of a task that goes back to its caller's loop.
LEMMA ResumeFields ==
  ASSUME TypeOK, NEW g \in Goroutines, g \notin Adapters, gr' = [gr EXCEPT ![g] = Resume(g)]
  PROVE  /\ gr'[g].peer = gr[g].peer /\ gr'[g].after = gr[g].after /\ gr'[g].end = gr[g].end
         /\ gr'[g].batch = gr[g].batch /\ gr'[g].event = None /\ gr'[g].pc = "next"
<1>1. gr[g] \in Tasks
  BY DEF TypeOK
<1>2. gr'[g] = [gr[g] EXCEPT !.pc = "next", !.event = None, !.seq = 0]
  BY DEF TypeOK, Resume
<1>3. ASSUME NEW t \in Tasks, NEW u, u = [t EXCEPT !.pc = "next", !.event = None, !.seq = 0]
      PROVE  /\ u.peer = t.peer /\ u.after = t.after /\ u.end = t.end
             /\ u.batch = t.batch /\ u.event = None /\ u.pc = "next"
  BY <1>3 DEF Tasks
<1> QED
  BY <1>1, <1>2, <1>3

\* The fields of the other tasks a pull is given.
LEMMA RestFields ==
  /\ Idle.peer = None /\ Idle.event = None /\ Idle.batch = {} /\ Idle.pc = "idle"
  /\ \A g \in Goroutines, p \in Nodes :
       /\ Asking(g, p).peer = p /\ Asking(g, p).end = 0 /\ Asking(g, p).pc = "asked"
       /\ Asking(g, p).after = position[On[g]][p]
       /\ Asking(g, p).event = None /\ Asking(g, p).batch = {}
BY DEF Idle, Asking

\* Where the numbers of a step come from.
LEMMA NumbersNext ==
  ASSUME TypeOK, LogInvariant, [Next]_vars
  PROVE  PositionNumbers /\ \A h \in Pullers : PullNumbers(h)
<1> USE Placement
<1>0. /\ \A g \in Goroutines : gr[g] \in Tasks /\ TaskSound(g)
      /\ \A g \in Pullers : g \in Goroutines /\ g \notin Adapters
  BY AdapterOrPuller DEF TypeOK, LogInvariant
<1>1. ASSUME NEW g \in Goroutines, \A h \in Goroutines \ {g} : gr'[h] = gr[h],
             UNCHANGED position, g \in Pullers => PullNumbers(g)
      PROVE  PositionNumbers /\ \A h \in Pullers : PullNumbers(h)
  BY <1>0, <1>1 DEF PositionNumbers, PullNumbers
<1>2. ASSUME NEW g \in Adapters, NEW e \in Events, Observe(g, e)
      PROVE  PositionNumbers /\ \A h \in Pullers : PullNumbers(h)
  BY <1>0, <1>1, <1>2 DEF Observe, TypeOK
<1>3. ASSUME NEW g \in Goroutines, TakeNumber(g) \/ InsertRow(g)
      PROVE  PositionNumbers /\ \A h \in Pullers : PullNumbers(h)
  <2>0. gr[g] \in Tasks
    BY <1>0 DEF TypeOK
  <2>1. CASE TakeNumber(g)
    BY <1>0, <1>1, <2>0, <2>1 DEF TakeNumber, TypeOK, Tasks, PullNumbers
  <2>2. CASE InsertRow(g)
    BY <1>0, <1>1, <2>0, <2>2 DEF InsertRow, TypeOK, Tasks, PullNumbers
  <2> QED  BY <1>3, <2>1, <2>2
<1>4. ASSUME NEW g \in Goroutines, RefuseRow(g) \/ InsertFails(g) \/ Apply(g)
      PROVE  PositionNumbers /\ \A h \in Pullers : PullNumbers(h)
  <2>1. gr' = [gr EXCEPT ![g] = Resume(g)] /\ UNCHANGED position
    BY <1>4 DEF RefuseRow, InsertFails, Apply
  <2>2. g \in Pullers => PullNumbers(g)
    BY <1>0, <2>1, ResumeFields DEF PullNumbers
  <2> QED  BY <1>1, <2>1, <2>2 DEF TypeOK
<1>5. ASSUME NEW g \in Pushers, PushPull(g)
      PROVE  PositionNumbers /\ \A h \in Pullers : PullNumbers(h)
  <2>1. g \in Goroutines
    BY DEF Pullers
  <2>2. gr'[g] = gr[g] \/ \E p \in Nodes : gr'[g] = Asking(g, p)
    BY <1>5, <2>1 DEF PushPull, TypeOK
  <2>3. PullNumbers(g)
    BY <2>1, <2>2, RestFields DEF PullNumbers
  <2> QED  BY <1>1, <1>5, <2>1, <2>3 DEF PushPull, TypeOK
<1>6. ASSUME NEW g \in Tickers, NEW p \in Nodes, TickPull(g, p)
      PROVE  PositionNumbers /\ \A h \in Pullers : PullNumbers(h)
  <2>1. g \in Goroutines
    BY DEF Pullers
  <2>2. PullNumbers(g)
    BY <1>6, <2>1, RestFields DEF TickPull, TypeOK, PullNumbers
  <2> QED  BY <1>1, <1>6, <2>1, <2>2 DEF TickPull, TypeOK
<1>7. ASSUME NEW g \in Pullers, Receive(g)
      PROVE  PositionNumbers /\ \A h \in Pullers : PullNumbers(h)
  <2> DEFINE p == gr[g].peer
             A == Answer(On[g], p, gr[g].after)
  <2>1. g \in Goroutines /\ p \in Nodes /\ gr[g].after \in Nat
    BY <1>0, <1>7 DEF Receive, TaskSound, At, Tasks
  <2>2. A # {} => \E r \in log[p].rows : r.seq = NextPosition(p, A)
    <3>1. On[g] \in Nodes /\ A = Answer(On[g], p, gr[g].after)
      BY <2>1
    <3> HIDE DEF A
    <3> QED  BY <2>1, <3>1, AnswerEnds
  <2>3. \/ gr'[g] = Idle
        \/ /\ A # {} /\ gr'[g].peer = p /\ gr'[g].after = 0 /\ gr'[g].end = NextPosition(p, A)
           /\ gr'[g].batch = A
    BY <1>7, <2>1 DEF Receive, TypeOK, Idle
  <2>4. PullNumbers(g)
    <3>1. CASE gr'[g] = Idle
      BY <3>1, RestFields DEF PullNumbers
    <3>2. CASE gr'[g] # Idle
      <4>1. /\ gr'[g].batch = Answer(On[g], gr[g].peer, gr[g].after) /\ gr'[g].batch # {}
            /\ gr'[g].end = NextPosition(gr[g].peer, gr'[g].batch)
            /\ gr'[g].peer = gr[g].peer /\ gr'[g].after = 0 /\ gr[g].peer \in Nodes
        BY <2>1, <2>3, <3>2
      <4>2. \E r \in log[gr[g].peer].rows : r.seq = gr'[g].end
        BY <2>2, <4>1
      <4> QED  BY <1>7, <4>1, <4>2 DEF PullNumbers
    <3> QED  BY <3>1, <3>2
  <2> QED  BY <1>1, <1>7, <2>1, <2>4 DEF Receive, TypeOK
<1>8. ASSUME NEW g \in Pullers, PullFails(g)
      PROVE  PositionNumbers /\ \A h \in Pullers : PullNumbers(h)
  <2>1. PullNumbers(g)
    BY <1>0, <1>8, RestFields DEF PullFails, TypeOK, PullNumbers
  <2> QED  BY <1>0, <1>1, <1>8, <2>1 DEF PullFails, TypeOK
<1>9. ASSUME NEW g \in Pullers, Skip(g) \/ Mark(g)
      PROVE  PositionNumbers /\ \A h \in Pullers : PullNumbers(h)
  <2>1. g \in Goroutines /\ gr[g] \in Tasks
    BY <1>0 DEF TypeOK, Pullers, Goroutines
  <2>2. gr'[g].peer = gr[g].peer /\ gr'[g].after = gr[g].after /\ gr'[g].end = gr[g].end
    <3>1. CASE Skip(g)
      BY <1>0, <2>1, <3>1 DEF Skip, TypeOK, Tasks
    <3>2. CASE Mark(g)
      <4> DEFINE u == [gr[g] EXCEPT !.pc = "append", !.batch = @ \ {FirstRow(gr[g].batch)},
                                    !.event = FirstRow(gr[g].batch).id]
      <4>1. gr'[g] = u
        BY <1>0, <2>1, <3>2 DEF Mark, TypeOK
      <4>2. u.peer = gr[g].peer /\ u.after = gr[g].after /\ u.end = gr[g].end
        BY <2>1 DEF Tasks
      <4> QED  BY <4>1, <4>2
    <3> QED  BY <1>9, <3>1, <3>2
  <2> QED  BY <1>0, <1>1, <1>9, <2>1, <2>2 DEF Skip, Mark, TypeOK, PullNumbers
<1>10. ASSUME NEW g \in Pullers, Finish(g)
       PROVE  PositionNumbers /\ \A h \in Pullers : PullNumbers(h)
  <2>1. gr[g].peer \in Nodes /\ g \in Goroutines
    BY <1>0, <1>10 DEF Finish, TaskSound, At
  <2>2. PositionNumbers
    BY <1>10, <2>1 DEF Finish, TypeOK, PositionNumbers
  <2>3. \A h \in Pullers : PullNumbers(h)
    BY <1>0, <1>10, <2>1, RestFields DEF Finish, TypeOK, PullNumbers
  <2> QED  BY <2>2, <2>3
<1>11. ASSUME NEW n \in Nodes, Crash(n)
       PROVE  PositionNumbers /\ \A h \in Pullers : PullNumbers(h)
  <2>1. PositionNumbers
    BY <1>11 DEF Crash, TypeOK, PositionNumbers
  <2>2. \A h \in Pullers : PullNumbers(h)
    BY <1>0, <1>11, RestFields DEF Crash, PullNumbers
  <2> QED  BY <2>1, <2>2
<1>12. CASE UNCHANGED <<gr, position>>
  BY <1>12 DEF PositionNumbers, PullNumbers
<1> QED
  BY <1>2, <1>3, <1>4, <1>5, <1>6, <1>7, <1>8, <1>9, <1>10, <1>11, <1>12
     DEF Next, vars, ReceivePost, LosePost, ReceiveHeartbeat, CopyState, StoreSnapshot, Compact

\* Without compaction a position, and what a pull may set it to, stays the number of a row.
LEMMA PositionNext ==
  ASSUME MaxCompactions = 0, TypeOK, LogInvariant, PositionInvariant, [Next]_vars
  PROVE  PositionInvariant'
<1>1. NothingCompacted /\ NothingCompacted' /\ NewRowsLast
  BY CompactedNext DEF PositionInvariant
<1>2. PositionNumbers /\ \A g \in Pullers : PullNumbers(g)
  BY NumbersNext
<1>3. \A x : \A p \in Nodes : Reached(p, x) => Reached(p, x)'
  BY <1>1 DEF NewRowsLast, Reached
<1>4. \A g \in Pullers : On[g] \in Nodes /\ (gr[g].peer # None => gr[g].peer \in Nodes)
  BY Placement DEF TypeOK, Tasks
<1>5. \A n, p \in Nodes : Reached(p, position'[n][p])
  BY <1>2, <1>4 DEF PositionNumbers, PositionInvariant, Reached
<1>6. ASSUME NEW g \in Pullers, gr'[g].peer # None
      PROVE  Reached(gr'[g].peer, gr'[g].after) /\ Reached(gr'[g].peer, gr'[g].end)
             /\ gr'[g].peer \in Nodes
  BY <1>1, <1>2, <1>4, <1>6 DEF PullNumbers, PositionInvariant, Reached, NothingCompacted
<1> QED
  BY <1>1, <1>3, <1>5, <1>6 DEF PositionInvariant

\* PositionBehindLog: without compaction, no position runs ahead of the log it is a position in, over
\* crashes of either node (recoverSequence counts on from the greatest number in the table).
THEOREM PositionsBehindLogs ==
  ASSUME MaxCompactions = 0
  PROVE  Spec => []PositionBehindLog
<1>1. Init => PositionInvariant
  BY DEF Init, PositionInvariant, NothingCompacted, Reached, EmptyLog, Idle, Pullers, Goroutines
<1>2. TypeOK /\ LogInvariant /\ PositionInvariant /\ [Next]_vars => PositionInvariant'
  BY PositionNext
<1>3. TypeOK /\ LogInvariant /\ PositionInvariant => PositionBehindLog
  <2> SUFFICES ASSUME TypeOK, LogInvariant, PositionInvariant, NEW n \in Nodes, NEW p \in Nodes
               PROVE  position[n][p] <= log[p].last
    BY DEF PositionBehindLog
  <2>1. log[p].last \in Nat
    BY DEF TypeOK
  <2>2. \A r \in stored[p] : r.seq \in 1..log[p].last
    BY DEF PositionInvariant, NothingCompacted, LogInvariant, LogSound
  <2> QED  BY <2>1, <2>2 DEF PositionInvariant, Reached
<1> QED
  BY <1>1, <1>2, <1>3, LogHolds, PTL DEF Spec

(***************************************************************************)
(* Nothing is skipped, without compaction and failed INSERTs.              *)
(***************************************************************************)

\* What a step leaves of what a pull has in hand.
HandStays(g) ==
  /\ gr[g].event # None =>
       gr'[g].event = gr[g].event \/ gr[g].event \in Ids(stored'[On[g]])
  /\ \A e \in Ids(gr[g].batch) :
       e \in Ids(gr'[g].batch) \/ gr'[g].event = e \/ Taken(On[g], e)

\* Every step but the end of the process leaves a pull its events, or they are recorded.
LEMMA HandsNext ==
  ASSUME MaxCompactions = 0, MaxFaults = 0, TypeOK, LogInvariant, SyncInvariant, [Next]_vars,
         NEW k \in Pullers, ~ Crash(On[k])
  PROVE  HandStays(k)
<1> USE Placement
<1>0. /\ \A g \in Goroutines : gr[g] \in Tasks /\ TaskSound(g)
      /\ k \in Goroutines /\ k \notin Adapters /\ On[k] \in Nodes
      /\ NothingCompacted /\ NewRowsLast
  BY AdapterOrPuller, CompactedNext DEF TypeOK, LogInvariant, SyncInvariant
<1>1. \A e \in Ids(stored[On[k]]) : e \in Ids(stored'[On[k]])
  BY <1>0 DEF NewRowsLast, Ids
<1>2. CASE gr'[k] = gr[k]
  BY <1>2 DEF HandStays
<1>3. CASE gr[k].event = None /\ gr[k].batch = {}
  BY <1>3 DEF HandStays, Ids
<1>4. CASE gr'[k].event = gr[k].event /\ gr'[k].batch = gr[k].batch
  BY <1>4 DEF HandStays
<1>5. ASSUME gr' = [gr EXCEPT ![k] = Resume(k)], gr[k].event \in Ids(stored[On[k]])
      PROVE  HandStays(k)
  BY <1>0, <1>1, <1>5, ResumeFields DEF HandStays
<1>6. ASSUME NEW g \in Adapters, NEW e \in Events, Observe(g, e) PROVE HandStays(k)
  BY <1>0, <1>2, <1>6 DEF Observe, TypeOK
<1>7. ASSUME NEW g \in Goroutines, TakeNumber(g) PROVE HandStays(k)
  <2>1. CASE g = k
    BY <1>0, <1>4, <1>7, <2>1 DEF TakeNumber, TypeOK, Tasks
  <2> QED  BY <1>2, <1>7, <2>1 DEF TakeNumber, TypeOK
<1>8. ASSUME NEW g \in Goroutines, InsertRow(g) PROVE HandStays(k)
  <2>1. CASE g = k
    BY <1>0, <1>4, <1>8, <2>1 DEF InsertRow, TypeOK, Tasks
  <2> QED  BY <1>2, <1>8, <2>1 DEF InsertRow, TypeOK
<1>9. ASSUME NEW g \in Goroutines, RefuseRow(g) PROVE HandStays(k)
  <2>1. CASE g = k
    <3>1. gr[k].seq \notin Numbers(log[On[k]].rows)
      <4>1. gr[k].seq \in Nat /\ \A r \in log[On[k]].rows : r.seq < gr[k].seq
        BY <1>0, <1>9, <2>1 DEF RefuseRow, TaskSound, At, Tasks
      <4>2. \A r \in log[On[k]].rows : r.seq \in Nat
        BY <1>0 DEF TypeOK, Rows
      <4> QED  BY <4>1, <4>2 DEF Numbers
    <3>2. gr[k].event \in Ids(stored[On[k]])
      BY <1>0, <1>9, <2>1, <3>1 DEF RefuseRow, Accepts, NothingCompacted
    <3> QED  BY <1>5, <1>9, <2>1, <3>2 DEF RefuseRow
  <2> QED  BY <1>2, <1>9, <2>1 DEF RefuseRow, TypeOK
<1>10. ASSUME NEW g \in Goroutines, InsertFails(g) PROVE FALSE
  <2>1. budget.faults \in 0..0
    BY DEF TypeOK, Budgets
  <2> QED  BY <1>10, <2>1 DEF InsertFails, Spend
<1>11. ASSUME NEW g \in Goroutines, Apply(g) PROVE HandStays(k)
  <2>1. CASE g = k
    <3>1. [seq |-> gr[k].seq, id |-> gr[k].event] \in stored[On[k]]
      BY <1>0, <1>11, <2>1 DEF Apply, TaskSound, At
    <3>2. gr[k].event \in Ids(stored[On[k]])
      BY <3>1 DEF Ids
    <3> QED  BY <1>5, <1>11, <2>1, <3>2 DEF Apply
  <2> QED  BY <1>2, <1>11, <2>1 DEF Apply, TypeOK
<1>12. CASE gr[k].pc \in {"idle", "asked"}
  BY <1>0, <1>3, <1>12, RestFields DEF TaskSound, At
<1>13. ASSUME NEW g \in Pushers, PushPull(g) PROVE HandStays(k)
  BY <1>0, <1>2, <1>12, <1>13 DEF PushPull, At, TypeOK
<1>14. ASSUME NEW g \in Tickers, NEW p \in Nodes, TickPull(g, p) PROVE HandStays(k)
  BY <1>0, <1>2, <1>12, <1>14 DEF TickPull, At, TypeOK
<1>15. ASSUME NEW g \in Pullers, Receive(g) \/ PullFails(g) PROVE HandStays(k)
  BY <1>0, <1>2, <1>12, <1>15 DEF Receive, PullFails, At, TypeOK
<1>16. ASSUME NEW g \in Pullers, Skip(g) PROVE HandStays(k)
  <2>1. CASE g = k
    <3> DEFINE row == FirstRow(gr[k].batch)
    <3>1. gr'[k].batch = gr[k].batch \ {row} /\ gr'[k].event = gr[k].event
      BY <1>0, <1>16, <2>1 DEF Skip, TypeOK, Tasks
    <3>2. Taken(On[k], row.id)
      BY <1>0, <1>16, <2>1 DEF Skip, SyncInvariant
    <3> HIDE DEF row
    <3> QED  BY <3>1, <3>2 DEF HandStays, Ids
  <2> QED  BY <1>2, <1>0, <1>16, <2>1 DEF Skip, TypeOK
<1>17. ASSUME NEW g \in Pullers, Mark(g) PROVE HandStays(k)
  <2>1. CASE g = k
    <3> DEFINE row == FirstRow(gr[k].batch)
               u == [gr[k] EXCEPT !.pc = "append", !.batch = @ \ {row}, !.event = row.id]
    <3>1. gr'[k] = u
      BY <1>0, <1>17, <2>1 DEF Mark, TypeOK
    <3>2. u.batch = gr[k].batch \ {row} /\ u.event = row.id
      <4> HIDE DEF row
      <4> QED  BY <1>0 DEF Tasks
    <3>3. gr[k].event = None
      BY <1>0, <1>17, <2>1 DEF Mark, At, TaskSound
    <3> HIDE DEF row, u
    <3> QED  BY <3>1, <3>2, <3>3 DEF HandStays, Ids
  <2> QED  BY <1>2, <1>0, <1>17, <2>1 DEF Mark, TypeOK
<1>18. ASSUME NEW g \in Pullers, Finish(g) PROVE HandStays(k)
  <2>1. CASE g = k
    BY <1>0, <1>3, <1>18, <2>1 DEF Finish, At, TaskSound
  <2> QED  BY <1>2, <1>0, <1>18, <2>1 DEF Finish, TypeOK
<1>19. ASSUME NEW n \in Nodes, Crash(n) PROVE HandStays(k)
  BY <1>0, <1>2, <1>19 DEF Crash
<1>20. CASE UNCHANGED gr
  BY <1>2, <1>20
<1> QED
  BY <1>6, <1>7, <1>8, <1>9, <1>10, <1>11, <1>13, <1>14, <1>15, <1>16, <1>17, <1>18, <1>19, <1>20
     DEF Next, vars, ReceivePost, LosePost, ReceiveHeartbeat, CopyState, StoreSnapshot, Compact

\* What a pull has covered stays covered, and what the dedup set may skip stays so.
LEMMA CoverStays ==
  ASSUME TypeOK, TypeOK', NewRowsLast, NEW n \in Nodes,
         \A g \in Pullers : On[g] = n => HandStays(g)
  PROVE  \A e \in Events :
           /\ Taken(n, e) => Taken(n, e)'
           /\ Taken(n, e)' => Covered(n, e)'
           /\ Covered(n, e) => Covered(n, e)'
<1> SUFFICES ASSUME NEW e \in Events
             PROVE  /\ Taken(n, e) => Taken(n, e)'
                    /\ Taken(n, e)' => Covered(n, e)'
                    /\ Covered(n, e) => Covered(n, e)'
  OBVIOUS
<1>0. e # None
  BY Placement
<1>1. e \in Ids(stored[n]) => e \in Ids(stored'[n])
  BY DEF NewRowsLast, Ids
<1>2. Taken(n, e) => Taken(n, e)'
  BY <1>0, <1>1 DEF Taken, HandStays
<1>3. Taken(n, e)' => Covered(n, e)'
  BY <1>0 DEF Taken, Covered, InHand
<1>4. ASSUME NEW g \in Pullers, On[g] = n, e \in InHand(g) PROVE Covered(n, e)'
  <2>1. CASE gr[g].event = e
    <3>1. Taken(n, e)
      BY <1>4, <2>1 DEF Taken
    <3> QED  BY <3>1, <1>2, <1>3
  <2>2. CASE e \in Ids(gr[g].batch)
    <3>1. e \in Ids(gr'[g].batch) \/ gr'[g].event = e \/ Taken(n, e)
      BY <1>4, <2>2 DEF HandStays
    <3>2. CASE e \in Ids(gr'[g].batch)
      BY <1>4, <3>2 DEF Covered, InHand
    <3>3. CASE gr'[g].event = e
      BY <1>0, <1>4, <3>3 DEF Covered, InHand
    <3> QED  BY <1>2, <1>3, <3>1, <3>2, <3>3
  <2> QED  BY <1>4, <2>1, <2>2 DEF InHand
<1>5. e \in Ids(stored'[n]) => Covered(n, e)'
  BY DEF Covered
<1> QED
  BY <1>1, <1>2, <1>3, <1>4, <1>5 DEF Covered

\* Synced after the step, of a number x.
SyncedNext(n, p, x) ==
  /\ x = 0 \/ \E r \in stored'[p] : r.seq = x
  /\ \A r \in stored'[p] : r.seq <= x /\ r.id \in Wanted[n][p] => Covered(n, r.id)'

\* 0 and a number that was reached are as good after a step as before: the rows that it
\* adds come after them.
LEMMA SyncedStays ==
  ASSUME TypeOK, LogInvariant, NothingCompacted, NewRowsLast, TypeOK',
         NEW n \in Nodes, NEW p \in Nodes, NEW x \in Nat,
         x = 0 \/ (/\ Synced(n, p, x)
                  /\ \A e \in Events : Covered(n, e) => Covered(n, e)')
  PROVE  SyncedNext(n, p, x)
<1>1. x = 0 \/ \E r \in stored'[p] : r.seq = x
  BY DEF Synced, Reached, NewRowsLast
<1>2. ASSUME NEW r \in stored'[p], r.seq <= x, r.id \in Wanted[n][p]
      PROVE  Covered(n, r.id)'
  <2>1. r \in Rows /\ r.seq \in Nat /\ r.id \in Events
    BY DEF TypeOK, Rows
  <2>2. CASE r \in stored[p]
    <3>1. r.seq > 0
      BY <2>1, <2>2 DEF NothingCompacted, LogInvariant, LogSound, TypeOK
    <3>2. x # 0
      BY <1>2, <2>1, <3>1
    <3> QED  BY <1>2, <2>1, <2>2, <3>2 DEF Synced, CoveredUpTo
  <2>3. CASE r \notin stored[p]
    <3>1. r.seq > 0 /\ \A s \in stored[p] : s.seq < r.seq
      BY <2>3 DEF NewRowsLast
    <3>2. x # 0
      BY <1>2, <2>1, <3>1
    <3>3. PICK s \in stored[p] : s.seq = x
      BY <3>2 DEF Synced, Reached
    <3> QED  BY <1>2, <2>1, <3>1, <3>3
  <2> QED  BY <2>2, <2>3
<1> QED
  BY <1>1, <1>2 DEF SyncedNext

\* An answer has every row in scope from the position it was asked for to the one that
\* its last row will set.
LEMMA AnswerCovers ==
  ASSUME TypeOK, LogInvariant, SyncInvariant, NEW g \in Pullers, NEW p \in Nodes,
         gr[g].peer = p, stored' = stored,
         gr'[g].batch = Answer(On[g], p, gr[g].after), gr'[g].batch # {},
         gr'[g].end = NextPosition(p, gr'[g].batch),
         \A e \in Events : Covered(On[g], e) => Covered(On[g], e)'
  PROVE  SyncedNext(On[g], p, gr'[g].end)
<1> DEFINE n == On[g]
           after == gr[g].after
           A == Answer(n, p, after)
           x == gr'[g].end
<1> USE Placement
<1>1. n \in Nodes /\ after \in Nat /\ log[p] \in [last : Nat, rows : SUBSET Rows] /\ p # None
  BY DEF TypeOK, Tasks
<1>2. PICK s \in A : s.seq = x
  <2>1. A # {} /\ x = NextPosition(p, A) /\ A = Answer(n, p, after)
    OBVIOUS
  <2> HIDE DEF A, x, n, after
  <2> QED  BY <1>1, <2>1, AnswerEnds
<1>3. log[p].rows = stored[p] /\ IsFiniteSet(log[p].rows) /\ A \subseteq log[p].rows
  BY <1>1, AnswerIsPage DEF SyncInvariant, NothingCompacted, LogInvariant, LogSound
<1>4. CoveredUpTo(n, p, after)
  BY <1>1 DEF SyncInvariant, Synced
<1>5. ASSUME NEW r \in stored[p], r.seq <= x, r.id \in Wanted[n][p]
      PROVE  Covered(n, r.id)'
  <2>1. r.seq \in Nat /\ r.id \in Events
    BY DEF TypeOK, Rows
  <2>2. CASE r.seq <= after
    BY <1>4, <1>5, <2>1, <2>2 DEF CoveredUpTo
  <2>3. CASE after < r.seq
    <3>1. s \in Page(log[p], after, BatchSize) /\ BatchSize \in Nat
      BY <1>2, FederationAssumption DEF Answer
    <3>2. r \in Page(log[p], after, BatchSize)
      BY <1>1, <1>2, <1>3, <1>5, <2>3, <3>1, PageHasNoHoles
    <3>3. r \in gr'[g].batch
      BY <1>5, <3>2 DEF Answer
    <3> QED  BY <3>3 DEF Covered, InHand, Ids
  <2> QED  BY <1>1, <2>1, <2>2, <2>3
<1>6. \E r \in stored'[p] : r.seq = x
  BY <1>2, <1>3
<1> QED
  BY <1>5, <1>6 DEF SyncedNext

\* The dedup set only gains the event that Mark takes in hand.
LEMMA DedupNext ==
  ASSUME TypeOK, [Next]_vars, NEW n \in Nodes, NEW e \in dedup'[n]
  PROVE  e \in dedup[n] \/ \E g \in Pullers : On[g] = n /\ gr'[g].event = e
<1> USE Placement
<1>1. ASSUME NEW g \in Pullers, Mark(g)
      PROVE  e \in dedup[n] \/ \E h \in Pullers : On[h] = n /\ gr'[h].event = e
  <2> DEFINE row == FirstRow(gr[g].batch)
             u == [gr[g] EXCEPT !.pc = "append", !.batch = @ \ {row}, !.event = row.id]
  <2>1. g \in Goroutines /\ gr[g] \in Tasks /\ On[g] \in Nodes
    BY DEF TypeOK
  <2>2. gr'[g] = u
    BY <1>1, <2>1 DEF Mark, TypeOK
  <2>3. u.event = row.id
    <3> HIDE DEF row
    <3> QED  BY <2>1 DEF Tasks
  <2>4. PICK known \in Evictions(dedup[On[g]], row.id) : dedup' = [dedup EXCEPT ![On[g]] = known]
    BY <1>1 DEF Mark
  <2>5. known \subseteq dedup[On[g]] \cup {row.id}
    <3> HIDE DEF row
    <3> QED  BY <2>4 DEF Evictions
  <2>6. CASE n = On[g]
    <3>1. e \in known
      BY <2>1, <2>4, <2>6 DEF TypeOK
    <3> QED  BY <2>2, <2>3, <2>5, <2>6, <3>1
  <2>7. CASE n # On[g]
    BY <2>1, <2>4, <2>7 DEF TypeOK
  <2> QED  BY <2>6, <2>7
<1>2. ASSUME NEW m \in Nodes, Crash(m)
      PROVE  e \in dedup[n] \/ \E h \in Pullers : On[h] = n /\ gr'[h].event = e
  BY <1>2 DEF Crash, TypeOK
<1>3. CASE UNCHANGED dedup
  BY <1>3
<1> QED
  BY <1>1, <1>2, <1>3
     DEF Next, vars, Observe, TakeNumber, InsertRow, RefuseRow, InsertFails, Apply, PushPull,
         TickPull, Receive, PullFails, Skip, Finish, ReceivePost, LosePost, ReceiveHeartbeat,
         CopyState, StoreSnapshot, Compact

\* Every step preserves the invariant.
LEMMA SyncNext ==
  ASSUME MaxCompactions = 0, MaxFaults = 0, TypeOK, LogInvariant, TypeOK', SyncInvariant, [Next]_vars
  PROVE  SyncInvariant'
<1> USE Placement
<1>1. NothingCompacted /\ NothingCompacted' /\ NewRowsLast
  BY CompactedNext DEF SyncInvariant
<1>2. PositionNumbers /\ \A g \in Pullers : PullNumbers(g)
  BY NumbersNext
<1>3. \A g \in Pullers : On[g] \in Nodes /\ gr[g] \in Tasks /\ gr'[g] \in Tasks
  BY DEF TypeOK
<1>4. ASSUME NEW n \in Nodes, ~ Crash(n)
      PROVE  \A e \in Events : /\ Taken(n, e) => Taken(n, e)'
                               /\ Covered(n, e) => Covered(n, e)'
  <2>1. \A g \in Pullers : On[g] = n => HandStays(g)
    BY <1>4, HandsNext
  <2> QED  BY <1>1, <2>1, CoverStays
<1>5. ASSUME NEW n \in Nodes, NEW p \in Nodes PROVE SyncedNext(n, p, position'[n][p])
  <2>1. position'[n][p] \in Nat /\ position[n][p] \in Nat
    BY DEF TypeOK
  <2>2. CASE position'[n][p] = 0
    BY <1>1, <2>1, <2>2, SyncedStays
  <2>3. CASE ~ Crash(n) /\ Synced(n, p, position'[n][p])
    BY <1>1, <1>4, <2>1, <2>3, SyncedStays
  <2>4. CASE Crash(n)
    BY <2>2, <2>4 DEF Crash, TypeOK
  <2> QED  BY <1>2, <2>2, <2>3, <2>4 DEF PositionNumbers, SyncInvariant
<1>6. ASSUME NEW g \in Pullers, gr'[g].peer # None
      PROVE  /\ SyncedNext(On[g], gr'[g].peer, gr'[g].after)
             /\ SyncedNext(On[g], gr'[g].peer, gr'[g].end)
  <2> DEFINE n == On[g]
             p == gr'[g].peer
  <2>1. n \in Nodes /\ p \in Nodes /\ gr'[g].after \in Nat /\ gr'[g].end \in Nat /\ g \in Goroutines
    BY <1>3, <1>6 DEF Tasks
  <2>2. ~ Crash(n)
    BY <1>6, <2>1, RestFields DEF Crash
  <2>3. \A x \in Nat : x = 0 \/ Synced(n, p, x) => SyncedNext(n, p, x)
    BY <1>1, <1>4, <2>1, <2>2, SyncedStays
  <2>4. CASE gr'[g].peer = gr[g].peer /\ gr'[g].after = gr[g].after /\ gr'[g].end = gr[g].end
    BY <1>6, <2>1, <2>3, <2>4 DEF SyncInvariant
  <2>5. CASE gr'[g].end = 0 /\ gr'[g].after = position[On[g]][gr'[g].peer]
    BY <2>1, <2>3, <2>5 DEF SyncInvariant
  <2>6. CASE /\ Receive(g) /\ gr'[g].batch = Answer(On[g], gr[g].peer, gr[g].after)
             /\ gr'[g].end = NextPosition(gr[g].peer, gr'[g].batch) /\ gr'[g].batch # {}
             /\ gr'[g].peer = gr[g].peer /\ gr'[g].after = 0
    <3>1. stored' = stored
      BY <2>6 DEF Receive
    <3>2. \A e \in Events : Covered(On[g], e) => Covered(On[g], e)'
      BY <1>4, <2>1, <2>2
    <3>3. SyncedNext(On[g], p, gr'[g].end)
      BY <2>1, <2>6, <3>1, <3>2, AnswerCovers
    <3> QED  BY <2>1, <2>3, <2>6, <3>3
  <2> QED  BY <1>2, <1>6, <2>4, <2>5, <2>6 DEF PullNumbers
<1>7. ASSUME NEW n \in Nodes, NEW e \in dedup'[n] PROVE Taken(n, e)'
  <2>1. e \in Events
    BY DEF TypeOK
  <2>2. CASE Crash(n)
    BY <2>2 DEF Crash, TypeOK
  <2>3. CASE e \in dedup[n] /\ ~ Crash(n)
    BY <1>4, <2>1, <2>3 DEF SyncInvariant
  <2> QED  BY <2>2, <2>3, DedupNext DEF Taken
<1>8. \A n, p \in Nodes : Synced(n, p, position[n][p])'
  BY <1>5 DEF SyncedNext, Synced, CoveredUpTo, Reached
<1>9. \A g \in Pullers : (gr[g].peer # None)' =>
        Synced(On[g], gr[g].peer, gr[g].after)' /\ Synced(On[g], gr[g].peer, gr[g].end)'
  BY <1>6 DEF SyncedNext, Synced, CoveredUpTo, Reached
<1> QED
  BY <1>1, <1>7, <1>8, <1>9 DEF SyncInvariant

\* SyncInvariant: without compaction and failed INSERTs, every position of a node, held or on its
\* way in a pull, has behind it only events that the node took or does not ask for, and so has
\* every id of its dedup set, whatever the set forgets and whoever crashes.
THEOREM SyncHolds ==
  ASSUME MaxCompactions = 0, MaxFaults = 0
  PROVE  Spec => []SyncInvariant
<1>1. Init => SyncInvariant
  BY DEF Init, SyncInvariant, NothingCompacted, Synced, CoveredUpTo, Reached, EmptyLog, Idle,
         Pullers, Goroutines
<1>2. TypeOK /\ LogInvariant /\ SyncInvariant /\ [Next]_vars /\ TypeOK' => SyncInvariant'
  BY SyncNext
<1> QED
  BY <1>1, <1>2, LogHolds, PTL DEF Spec

\* NothingSkipped: without compaction and failed INSERTs, no position passes over an event that
\* the node asks for, however its pulls overlap, whatever the dedup set forgets and whoever crashes.
THEOREM NothingIsSkipped ==
  ASSUME MaxCompactions = 0, MaxFaults = 0
  PROVE  Spec => []NothingSkipped
<1>1. SyncInvariant => NothingSkipped
  BY DEF SyncInvariant, Synced, NothingSkipped
<1> QED
  BY <1>1, SyncHolds, PTL

(***************************************************************************)
(* The kernel and its snapshots.                                           *)
(***************************************************************************)

\* Who is about to apply, and what, is the same after the step.
ApplyingKept ==
  \A g \in Goroutines :
    /\ At(g, "apply")' <=> At(g, "apply")
    /\ At(g, "apply") => gr'[g] = gr[g]

\* A step that neither applies, nor records, nor takes a snapshot.
Aside ==
  /\ UNCHANGED <<applied, copied, snapshot>>
  /\ \A n \in Nodes : log[n].last <= log'[n].last /\ log'[n].rows \subseteq log[n].rows
  /\ ApplyingKept

\* One goroutine moves, from another step than Apply to another step than Apply.
LEMMA AsideOne ==
  ASSUME TypeOK, UNCHANGED <<log, applied, copied, snapshot>>, NEW g \in Goroutines,
         \A h \in Goroutines \ {g} : gr'[h] = gr[h], ~At(g, "apply"), ~At(g, "apply")'
  PROVE  Aside
<1>1. \A n \in Nodes : log[n].last \in Nat
  BY DEF TypeOK
<1>2. ApplyingKept
  BY DEF ApplyingKept, At
<1> QED
  BY <1>1, <1>2 DEF Aside

\* Every step but five kinds is one of those.
LEMMA AsideNext ==
  ASSUME TypeOK, LogInvariant, [Next]_vars
  PROVE  \/ \E g \in Goroutines : InsertRow(g) \/ Apply(g)
         \/ \E n \in Nodes : CopyState(n) \/ StoreSnapshot(n) \/ Crash(n)
         \/ Aside
<1> USE Placement
<1>0. /\ \A g \in Goroutines : gr[g] \in Tasks
      /\ \A n \in Nodes : log[n] \in [last : Nat, rows : SUBSET Rows]
  BY DEF TypeOK
<1>a. Pullers \subseteq Goroutines /\ Adapters \subseteq Goroutines
  BY DEF Goroutines
<1>1. ASSUME NEW g \in Adapters, NEW e \in Events, Observe(g, e) PROVE Aside
  <2>0. g \in Goroutines /\ gr[g] \in Tasks
    BY <1>0, <1>a
  <2>1. /\ gr'[g] = [gr[g] EXCEPT !.pc = "append", !.event = e]
        /\ \A h \in Goroutines \ {g} : gr'[h] = gr[h]
    BY <1>1, <2>0 DEF Observe, TypeOK
  <2>2. gr'[g].pc = "append"
    BY <2>0, <2>1 DEF Tasks
  <2> QED  BY <1>1, <2>0, <2>1, <2>2, AsideOne DEF Observe, At
<1>2. ASSUME NEW g \in Goroutines, TakeNumber(g) PROVE Aside
  <2>1. /\ \A n \in Nodes : log[n].last <= log'[n].last /\ log'[n].rows = log[n].rows
        /\ gr'[g].pc = "insert" /\ \A h \in Goroutines \ {g} : gr'[h] = gr[h]
    BY <1>0, <1>2 DEF TakeNumber, Reserve, TypeOK, Tasks
  <2>2. ApplyingKept
    BY <1>2, <2>1 DEF TakeNumber, ApplyingKept, At
  <2> QED  BY <1>2, <2>1, <2>2 DEF TakeNumber, Aside
<1>3. ASSUME NEW g \in Goroutines, RefuseRow(g) \/ InsertFails(g) PROVE Aside
  <2>1. At(g, "insert") /\ gr' = [gr EXCEPT ![g] = Resume(g)]
    BY <1>3 DEF RefuseRow, InsertFails
  <2>2. Resume(g).pc # "apply"
    BY <1>0 DEF Resume, Idle, Tasks
  <2>3. gr'[g].pc # "apply" /\ \A h \in Goroutines \ {g} : gr'[h] = gr[h]
    BY <2>1, <2>2 DEF TypeOK
  <2> QED  BY <1>3, <2>1, <2>3, AsideOne DEF RefuseRow, InsertFails, At
<1>4. ASSUME NEW g \in Pushers, PushPull(g) PROVE Aside
  <2>1. /\ g \in Goroutines /\ gr[g].pc = "idle"
        /\ gr'[g] = gr[g] \/ gr'[g] = Asking(g, Head(notify[On[g]]))
        /\ \A h \in Goroutines \ {g} : gr'[h] = gr[h]
    BY <1>4, <1>a DEF PushPull, TypeOK, Pullers, At
  <2>2. gr'[g].pc # "apply"
    BY <2>1 DEF Asking, Idle
  <2> QED  BY <1>4, <2>1, <2>2, AsideOne DEF PushPull, At
<1>5. ASSUME NEW g \in Tickers, NEW p \in Nodes, TickPull(g, p) PROVE Aside
  <2>1. /\ g \in Goroutines /\ gr[g].pc = "idle" /\ gr'[g] = Asking(g, p)
        /\ \A h \in Goroutines \ {g} : gr'[h] = gr[h]
    BY <1>5, <1>a DEF TickPull, TypeOK, Pullers, At
  <2> QED  BY <1>5, <2>1, AsideOne DEF TickPull, At, Asking, Idle
<1>6. ASSUME NEW g \in Pullers, Receive(g) \/ PullFails(g) \/ Finish(g) PROVE Aside
  <2>1. /\ g \in Goroutines /\ gr[g].pc \in {"asked", "next"}
        /\ gr'[g] = Idle \/ gr'[g].pc = "next"
        /\ \A h \in Goroutines \ {g} : gr'[h] = gr[h]
    <3>1. g \in Goroutines
      BY <1>a
    <3>2. CASE Receive(g)
      BY <3>1, <3>2 DEF Receive, TypeOK, At, Idle
    <3>3. CASE PullFails(g) \/ Finish(g)
      BY <3>1, <3>3 DEF PullFails, Finish, TypeOK, At
    <3> QED  BY <1>6, <3>2, <3>3
  <2>2. gr'[g].pc # "apply"
    BY <2>1 DEF Idle
  <2> QED  BY <1>6, <2>1, <2>2, AsideOne DEF Receive, PullFails, Finish, At
<1>7. ASSUME NEW g \in Pullers, Skip(g) \/ Mark(g) PROVE Aside
  <2>1. /\ g \in Goroutines /\ gr[g].pc = "next" /\ gr'[g].pc \in {"next", "append"}
        /\ \A h \in Goroutines \ {g} : gr'[h] = gr[h]
    <3>1. g \in Goroutines /\ gr[g] \in Tasks
      BY <1>0, <1>a
    <3>2. CASE Skip(g)
      BY <3>1, <3>2 DEF Skip, TypeOK, At, Tasks
    <3>3. CASE Mark(g)
      BY <3>1, <3>3 DEF Mark, TypeOK, At, Tasks
    <3> QED  BY <1>7, <3>2, <3>3
  <2> QED  BY <1>7, <2>1, AsideOne DEF Skip, Mark, At
<1>8. ASSUME NEW n \in Nodes, NEW p \in Nodes,
             ReceivePost(n, p) \/ LosePost(n, p) \/ ReceiveHeartbeat(n, p)
      PROVE  Aside
  BY <1>0, <1>8 DEF ReceivePost, LosePost, ReceiveHeartbeat, Aside, ApplyingKept, At
<1>9. ASSUME NEW n \in Nodes, NEW old \in SUBSET Events, Compact(n, old) PROVE Aside
  <2>1. \A m \in Nodes : log'[m].last = log[m].last /\ log'[m].rows \subseteq log[m].rows
    BY <1>0, <1>9 DEF Compact, Compacted, TypeOK
  <2> QED  BY <1>0, <1>9, <2>1 DEF Compact, Aside, ApplyingKept, At
<1>10. CASE UNCHANGED vars
  BY <1>0, <1>10 DEF vars, Aside, ApplyingKept, At
<1> QED
  BY <1>1, <1>2, <1>3, <1>4, <1>5, <1>6, <1>7, <1>8, <1>9, <1>10 DEF Next

\* Recording a row changes the log of one node, and its goroutine is about to apply that row.
LEMMA InsertThenApply ==
  ASSUME TypeOK, LogInvariant, NEW g \in Goroutines, InsertRow(g)
  PROVE  /\ On[g] \in Nodes /\ gr[g].seq \in Nat /\ gr[g].seq <= log[On[g]].last
         /\ log'[On[g]].rows = log[On[g]].rows \cup {[seq |-> gr[g].seq, id |-> gr[g].event]}
         /\ \A n \in Nodes : log'[n].last = log[n].last
         /\ \A n \in Nodes \ {On[g]} : log'[n] = log[n]
         /\ gr'[g].pc = "apply" /\ gr'[g].seq = gr[g].seq /\ gr'[g].event = gr[g].event
         /\ \A h \in Goroutines \ {g} : gr'[h] = gr[h]
<1>1. gr[g] \in Tasks /\ TaskSound(g) /\ On[g] \in Nodes
  BY Placement DEF TypeOK, LogInvariant
<1>2. gr[g].seq = log[On[g]].last /\ gr[g].seq \in Nat
  BY <1>1 DEF InsertRow, TaskSound, At, Tasks
<1>3. gr'[g] = [gr[g] EXCEPT !.pc = "apply"] /\ \A h \in Goroutines \ {g} : gr'[h] = gr[h]
  BY DEF InsertRow, TypeOK
<1>4. gr'[g].pc = "apply" /\ gr'[g].seq = gr[g].seq /\ gr'[g].event = gr[g].event
  BY <1>1, <1>3 DEF Tasks
<1>5. /\ log'[On[g]].rows = log[On[g]].rows \cup {[seq |-> gr[g].seq, id |-> gr[g].event]}
      /\ \A n \in Nodes : log'[n].last = log[n].last
      /\ \A n \in Nodes \ {On[g]} : log'[n] = log[n]
  BY <1>1 DEF InsertRow, Store, TypeOK
<1> QED
  BY <1>1, <1>2, <1>3, <1>4, <1>5

\* Applying adds the row in hand to one kernel.
LEMMA ApplyAdds ==
  ASSUME TypeOK, NEW g \in Goroutines, Apply(g)
  PROVE  /\ applied'[On[g]] = applied[On[g]] \cup {[seq |-> gr[g].seq, id |-> gr[g].event]}
         /\ \A n \in Nodes \ {On[g]} : applied'[n] = applied[n]
         /\ gr'[g].pc # "apply" /\ \A h \in Goroutines \ {g} : gr'[h] = gr[h]
<1>1. gr[g] \in Tasks /\ On[g] \in Nodes
  BY Placement DEF TypeOK
<1>2. Resume(g).pc # "apply"
  BY <1>1 DEF Resume, Idle, Tasks
<1> QED
  BY <1>1, <1>2 DEF Apply, AppliedTo, TypeOK

\* What the kernel has, or is about to get, is numbered up to the counter of its log, and so
\* is a copy of its state that is not stored yet: the counter is read after the copy is taken.
KernelBehindLog ==
  /\ \A n \in Nodes : \A r \in applied[n] : r.seq <= log[n].last
  /\ \A n \in Nodes : copied[n] # None => \A r \in copied[n] : r.seq <= log[n].last
  /\ \A g \in Goroutines : At(g, "apply") => gr[g].seq <= log[On[g]].last

SnapshotInvariant == KernelBehindLog /\ SnapshotNotAhead

\* Every step keeps that.
LEMMA SnapshotNext ==
  TypeOK /\ LogInvariant /\ SnapshotInvariant /\ [Next]_vars => SnapshotInvariant'
<1> SUFFICES ASSUME TypeOK, LogInvariant, SnapshotInvariant, [Next]_vars
             PROVE  SnapshotInvariant'
  OBVIOUS
<1> USE Placement
<1>0. /\ \A n \in Nodes : log[n].last \in Nat /\ applied[n] \subseteq Rows
      /\ \A n \in Nodes : copied[n] # None => copied[n] \subseteq Rows
      /\ \A g \in Goroutines : gr[g].seq \in Nat
  BY DEF TypeOK, Tasks
<1>n. \A r \in Rows : r.seq \in Nat
  BY DEF Rows
<1>1. CASE Aside
  <2>1. \A n \in Nodes : log[n].last <= log'[n].last /\ log'[n].last \in Nat
    BY <1>1, TypeNext DEF Aside, TypeOK
  <2>2. \A g \in Goroutines : At(g, "apply")' => gr'[g].seq <= log'[On[g]].last
    BY <1>0, <1>1, <2>1 DEF Aside, ApplyingKept, SnapshotInvariant, KernelBehindLog
  <2>3. \A n \in Nodes : \A r \in applied[n] : r.seq <= log'[n].last
    BY <1>0, <1>n, <2>1 DEF SnapshotInvariant, KernelBehindLog
  <2>4. \A n \in Nodes : copied[n] # None => \A r \in copied[n] : r.seq <= log'[n].last
    BY <1>0, <1>n, <2>1 DEF SnapshotInvariant, KernelBehindLog
  <2> QED
    BY <1>1, <2>2, <2>3, <2>4 DEF Aside, SnapshotInvariant, KernelBehindLog, SnapshotNotAhead
<1>2. ASSUME NEW g \in Goroutines, InsertRow(g) PROVE SnapshotInvariant'
  <2>1. \A h \in Goroutines : At(h, "apply")' => gr'[h].seq <= log'[On[h]].last
    BY <1>2, InsertThenApply DEF SnapshotInvariant, KernelBehindLog, At
  <2>2. UNCHANGED <<applied, copied, snapshot>> /\ \A n \in Nodes : log'[n].last = log[n].last
    BY <1>2, InsertThenApply DEF InsertRow
  <2> QED  BY <2>1, <2>2 DEF SnapshotInvariant, KernelBehindLog, SnapshotNotAhead
<1>3. ASSUME NEW g \in Goroutines, Apply(g) PROVE SnapshotInvariant'
  <2>1. gr[g].seq <= log[On[g]].last
    BY <1>3 DEF Apply, SnapshotInvariant, KernelBehindLog
  <2>2. \A n \in Nodes : \A r \in applied'[n] : r.seq <= log[n].last
    BY <1>3, <2>1, ApplyAdds DEF SnapshotInvariant, KernelBehindLog
  <2>3. \A h \in Goroutines : At(h, "apply")' => gr'[h].seq <= log[On[h]].last
    BY <1>3, ApplyAdds DEF SnapshotInvariant, KernelBehindLog, At
  <2>4. UNCHANGED <<log, copied, snapshot>>
    BY <1>3 DEF Apply
  <2> QED  BY <2>2, <2>3, <2>4 DEF SnapshotInvariant, KernelBehindLog, SnapshotNotAhead
<1>4. ASSUME NEW n \in Nodes, CopyState(n) PROVE SnapshotInvariant'
  <2>1. \A m \in Nodes : copied'[m] = IF m = n THEN applied[n] ELSE copied[m]
    BY <1>4 DEF CopyState, TypeOK
  <2> QED
    BY <1>4, <2>1 DEF CopyState, SnapshotInvariant, KernelBehindLog, SnapshotNotAhead, At
<1>5. ASSUME NEW n \in Nodes, StoreSnapshot(n) PROVE SnapshotInvariant'
  <2>1. /\ \A m \in Nodes : copied'[m] = IF m = n THEN None ELSE copied[m]
        /\ \A m \in Nodes \ {n} : snapshot'[m] = snapshot[m]
        /\ snapshot'[n].state = copied[n] /\ snapshot'[n].seq = log[n].last /\ copied[n] # None
    BY <1>5 DEF StoreSnapshot, SnapshotOf, TypeOK
  <2>2. SnapshotNotAhead'
    BY <2>1 DEF SnapshotInvariant, KernelBehindLog, SnapshotNotAhead
  <2>3. KernelBehindLog'
    BY <1>5, <2>1 DEF StoreSnapshot, SnapshotInvariant, KernelBehindLog, At
  <2> QED  BY <2>2, <2>3 DEF SnapshotInvariant
<1>6. ASSUME NEW n \in Nodes, Crash(n) PROVE SnapshotInvariant'
  <2>1. /\ \A m \in Nodes : applied'[m] = IF m = n THEN {} ELSE applied[m]
        /\ \A m \in Nodes : copied'[m] = IF m = n THEN None ELSE copied[m]
        /\ \A m \in Nodes \ {n} : log'[m] = log[m]
        /\ snapshot' = snapshot
    BY <1>6 DEF Crash, TypeOK
  <2>2. \A g \in Goroutines : gr'[g] = IF On[g] = n THEN Idle ELSE gr[g]
    BY <1>6 DEF Crash
  <2>3. \A g \in Goroutines : At(g, "apply")' => gr'[g].seq <= log'[On[g]].last
    BY <2>1, <2>2 DEF SnapshotInvariant, KernelBehindLog, At, Idle
  <2> QED  BY <2>1, <2>3 DEF SnapshotInvariant, KernelBehindLog, SnapshotNotAhead
<1> QED
  BY <1>1, <1>2, <1>3, <1>4, <1>5, <1>6, AsideNext

\* SnapshotNotAhead: over crashes, failed INSERTs and compaction, with appends under way while
\* takeSnapshot reads the kernel and then the counter, a snapshot holds no event after its number.
THEOREM SnapshotsAreBehind == Spec => []SnapshotNotAhead
<1>1. Init => SnapshotInvariant
  BY DEF Init, SnapshotInvariant, KernelBehindLog, SnapshotNotAhead, At, Idle
<1>2. SnapshotInvariant => SnapshotNotAhead
  BY DEF SnapshotInvariant
<1> QED
  BY <1>1, <1>2, SnapshotNext, LogHolds, PTL DEF Spec

\* KernelFollowsLog does not say with which number the event is about to be applied.
EveryRowApplied ==
  \A n \in Nodes : \A r \in log[n].rows \ applied[n] :
    \E g \in Goroutines :
      On[g] = n /\ At(g, "apply") /\ gr[g].event = r.id /\ gr[g].seq = r.seq

\* Every step but a crash keeps that.
LEMMA EveryRowNext ==
  ASSUME MaxCrashes = 0
  PROVE  TypeOK /\ LogInvariant /\ EveryRowApplied /\ [Next]_vars => EveryRowApplied'
<1> SUFFICES ASSUME TypeOK, LogInvariant, EveryRowApplied, [Next]_vars PROVE EveryRowApplied'
  OBVIOUS
<1> USE Placement
<1>1. CASE Aside
  BY <1>1 DEF Aside, ApplyingKept, EveryRowApplied
<1>2. ASSUME NEW g \in Goroutines, InsertRow(g) PROVE EveryRowApplied'
  <2> SUFFICES ASSUME NEW n \in Nodes, NEW r \in log'[n].rows \ applied'[n]
               PROVE  \E h \in Goroutines :
                        On[h] = n /\ At(h, "apply")' /\ gr'[h].event = r.id /\ gr'[h].seq = r.seq
    BY DEF EveryRowApplied
  <2>0. applied' = applied /\ At(g, "insert")
    BY <1>2 DEF InsertRow
  <2>1. CASE r \in log[n].rows
    <3>1. PICK h \in Goroutines :
            On[h] = n /\ At(h, "apply") /\ gr[h].event = r.id /\ gr[h].seq = r.seq
      BY <2>0, <2>1 DEF EveryRowApplied
    <3>2. h # g
      BY <2>0, <3>1 DEF At
    <3>3. gr'[h] = gr[h]
      BY <1>2, <3>2, InsertThenApply
    <3> QED  BY <3>1, <3>3 DEF At
  <2>2. CASE r \notin log[n].rows
    <3>1. n = On[g] /\ r = [seq |-> gr[g].seq, id |-> gr[g].event]
      BY <1>2, <2>2, InsertThenApply
    <3>2. r.seq = gr[g].seq /\ r.id = gr[g].event
      BY <3>1
    <3> QED  BY <1>2, <3>1, <3>2, InsertThenApply DEF At
  <2> QED  BY <2>1, <2>2
<1>3. ASSUME NEW g \in Goroutines, Apply(g) PROVE EveryRowApplied'
  <2> SUFFICES ASSUME NEW n \in Nodes, NEW r \in log'[n].rows \ applied'[n]
               PROVE  \E h \in Goroutines :
                        On[h] = n /\ At(h, "apply")' /\ gr'[h].event = r.id /\ gr'[h].seq = r.seq
    BY DEF EveryRowApplied
  <2>0. log' = log
    BY <1>3 DEF Apply
  <2>1. applied[n] \subseteq applied'[n]
    BY <1>3, ApplyAdds
  <2>2. PICK h \in Goroutines :
          On[h] = n /\ At(h, "apply") /\ gr[h].event = r.id /\ gr[h].seq = r.seq
    BY <2>0, <2>1 DEF EveryRowApplied
  <2>3. h # g
    <3>1. r = [seq |-> r.seq, id |-> r.id]
      BY <2>0 DEF TypeOK, Rows
    <3> QED  BY <1>3, <2>2, <3>1, ApplyAdds
  <2>4. gr'[h] = gr[h]
    BY <1>3, <2>3, ApplyAdds
  <2> QED  BY <2>2, <2>4 DEF At
<1>4. ASSUME NEW n \in Nodes, CopyState(n) \/ StoreSnapshot(n) PROVE EveryRowApplied'
  BY <1>4 DEF CopyState, StoreSnapshot, EveryRowApplied, At
<1>5. ASSUME NEW n \in Nodes, Crash(n) PROVE FALSE
  BY <1>5 DEF Crash, Spend, TypeOK, Budgets
<1> QED
  BY <1>1, <1>2, <1>3, <1>4, <1>5, AsideNext

\* KernelFollowsLog: in one life of the processes, over failed INSERTs, overlapping pulls,
\* evictions and compaction, the kernel has applied every event of its node's log, but for those
\* a goroutine is about to apply.
THEOREM KernelFollows ==
  ASSUME MaxCrashes = 0
  PROVE  Spec => []KernelFollowsLog
<1>1. Init => EveryRowApplied
  BY DEF Init, EveryRowApplied, EmptyLog
<1>2. TypeOK /\ LogInvariant /\ EveryRowApplied /\ [Next]_vars => EveryRowApplied'
  BY EveryRowNext
<1>3. EveryRowApplied => KernelFollowsLog
  BY DEF EveryRowApplied, KernelFollowsLog
<1> QED
  BY <1>1, <1>2, <1>3, LogHolds, PTL DEF Spec
=============================================================================
