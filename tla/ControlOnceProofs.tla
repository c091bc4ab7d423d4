------------------------- MODULE ControlOnceProofs -------------------------
(***************************************************************************)
(* The theorem that ControlPlane calls no actuator twice for one row: with  *)
(* one approver, one evaluator and at most one failed statement, whatever   *)
(* the CLI processes, the kinds of actions, the crashes and the restarts.   *)
(*                                                                         *)
(* A row may come to its actuator only through a bearer: a goroutine that   *)
(* works towards executing it, or a copy in a queue that somebody drains.   *)
(* The argument is that a row has one bearer at a time and gets one only    *)
(* while it has never run.                                                  *)
(*                                                                         *)
(* The second half is the theorem that ControlPlane implements              *)
(* ControlLifecycle, for a server that is alone with its database: the one  *)
(* bearer of a row also knows its stage.                                    *)
(***************************************************************************)
EXTENDS ControlCarriersProofs

OneEvaluator == \A e, f \in Evaluators : e = f

\* With two, the closing write of a backoff increase and the INSERT of its
\* reset may both fail: nothing then tells the next evaluation of the first reset.
AtMostOneFault == MaxFaults <= 1

(***************************************************************************)
(* Bearers.                                                                 *)
(***************************************************************************)

Executing == {"freeze", "maintenance", "start", "act", "finish"}
Approving == {"verify", "merge_read", "merge_write"}

\* Goroutine t, in state s, is on its way to execute i or to hand it to one who will.  What a CLI
\* process queues as it ends nobody takes.
Bears(t, s, i) ==
    \/ /\ s.id = i
       /\ \/ s.pc \in Executing \cup {"reload", "push_approved"}
          \/ s.pc \in Approving /\ s.verb = "approve"
          \/ s.pc = "push_new" /\ t \notin Clis
    \/ FollowUp(s.id) = i /\ s.pc \in {"reset_push", "push_followup"} /\ t \notin Clis

\* The queues that somebody drains.
Live(p) == p = Server \/ th[p].pc = "drain"

Waits(i) == \E p \in Processes : Live(p) /\ \E k \in 1..Len(queue[p]) : queue[p][k].id = i

NoBearer(i) == ~Waits(i) /\ \A t \in Threads : ~Bears(t, th[t], i)

\* Never run, and nobody about to; run, and nobody about to run it again.  Of a follow-up that a
\* failed look-up missed nothing is claimed.
Clean(i) == i \in missed \/ (runs[i] = 0 /\ NoBearer(i))
Done(i)  == i \in missed \/ (runs[i] = 1 /\ NoBearer(i))

QueuedOnce ==
    \A p, q \in Processes : Live(p) /\ Live(q) =>
        \A k \in 1..Len(queue[p]), l \in 1..Len(queue[q]) :
            queue[p][k].id = queue[q][l].id /\ queue[p][k].id \notin missed => p = q /\ k = l

BornOnce ==
    \A i \in Ids \ missed : \A t \in Threads : Bears(t, th[t], i) =>
        ~Waits(i) /\ \A u \in Threads : Bears(u, th[u], i) => t = u

\* Who bears a row that has run is about to write that it has.
RunOnce ==
    \A i \in Ids \ missed :
        /\ runs[i] \in {0, 1}
        /\ runs[i] = 1 => ~Waits(i) /\ \A t \in Threads : Bears(t, th[t], i) => th[t].pc = "finish"

OneBearer == QueuedOnce /\ BornOnce /\ RunOnce

\* What no step takes from a row.
StaysFree == \A i \in Ids : NoBearer(i) => NoBearer(i)'

\* Goroutines at rest, or between two rows, bear nothing.
Unburdened == Resting \cup {"refuse", "drop_new", "seen", "insert_followup", "reset_row", "reset_insert",
                            "recheck", "update"}

LEMMA UnburdenedBears ==
    \A t, s, i : Bears(t, s, i) =>
        /\ s.pc \notin Unburdened
        /\ s.pc \notin {"reset_push", "push_followup"} => s.id = i
        /\ t \in Clis => s.id = i /\ s.pc # "push_new"
BY DEF Bears, Unburdened, Resting, Executing, Approving

\* Goroutines give up rows, queues that stay alive keep what they hold or are emptied.
LEMMA FewerBearers ==
    ASSUME TypeOK, OneBearer, UNCHANGED runs, missed \subseteq missed',
           \A u \in Threads, i \in Ids : Bears(u, th'[u], i) =>
                Bears(u, th[u], i) /\ (th[u].pc = "finish" => th'[u].pc = "finish"),
           \A p \in Processes : Live(p)' => queue'[p] = <<>> \/ (queue'[p] = queue[p] /\ Live(p))
    PROVE  OneBearer' /\ StaysFree
<1>1. \A p \in Processes : \A k : k \in 1..Len(queue'[p]) /\ Live(p)' =>
            Live(p) /\ k \in 1..Len(queue[p]) /\ queue'[p][k] = queue[p][k]
  BY EmptySeq
<1>2. \A i \in Ids : Waits(i)' => Waits(i)
  BY <1>1 DEF Waits
<1>3. QueuedOnce'
  BY <1>1 DEF OneBearer, QueuedOnce
<1>4. BornOnce' /\ RunOnce' /\ StaysFree
  BY <1>2 DEF OneBearer, BornOnce, RunOnce, StaysFree, NoBearer
<1> QED
  BY <1>3, <1>4 DEF OneBearer

\* A goroutine takes up a row that nobody bears.
LEMMA NewBearer ==
    ASSUME TypeOK, OneBearer, UNCHANGED <<queue, runs, missed>>, NEW t \in Threads, NEW b \in Ids, Clean(b),
           \A u \in Threads \ {t} : th'[u] = th[u],
           th'[t].pc # "drain",
           \A i \in Ids : Bears(t, th'[t], i) => i = b
    PROVE  OneBearer' /\ \A i \in Ids \ {b} : NoBearer(i) => NoBearer(i)'
<1>1. \A p \in Processes : Live(p)' => Live(p)
  BY DEF Live, Processes, Threads, Handlers
<1>2. \A i \in Ids : Waits(i)' => Waits(i)
  BY <1>1 DEF Waits
<1>3. QueuedOnce'
  BY <1>1 DEF OneBearer, QueuedOnce
<1>4. \A u \in Threads, i \in Ids : Bears(u, th'[u], i) => Bears(u, th[u], i) \/ (u = t /\ i = b)
  OBVIOUS
<1>5. b \notin missed => ~Waits(b) /\ runs[b] = 0 /\ \A u \in Threads : ~Bears(u, th[u], b)
  BY DEF Clean, NoBearer
<1>6. BornOnce'
  BY <1>2, <1>4, <1>5 DEF OneBearer, BornOnce
<1>7. RunOnce'
  <2> SUFFICES ASSUME NEW i \in Ids \ missed
               PROVE  /\ runs'[i] \in {0, 1}
                      /\ runs'[i] = 1 => /\ ~Waits(i)'
                                         /\ \A u \in Threads : Bears(u, th'[u], i) => th'[u].pc = "finish"
    BY DEF RunOnce
  <2>1. CASE i = b
    BY <1>5, <2>1
  <2>2. CASE i # b
    <3>1. \A u \in Threads : Bears(u, th'[u], i) => Bears(u, th[u], i) /\ u # t
      BY <1>5, <2>2
    <3> QED
      BY <1>2, <3>1 DEF OneBearer, RunOnce
  <2> QED
    BY <2>1, <2>2
<1>8. \A i \in Ids \ {b} : NoBearer(i) => NoBearer(i)'
  BY <1>2, <1>4 DEF NoBearer
<1> QED
  BY <1>3, <1>6, <1>7, <1>8 DEF OneBearer

\* Where a push puts its copy, and what a take leaves where.
LEMMA PushedAt ==
    ASSUME TypeOK, NEW t \in Threads, NEW i \in Ids, NEW r \in Rows, Enqueue(t, i, r)
    PROVE  LET p == Home(t) IN
           /\ p \in Processes /\ Len(queue[p]) \in Nat /\ Len(queue'[p]) = Len(queue[p]) + 1
           /\ queue'[p][Len(queue[p]) + 1].id = i
           /\ \A k \in 1..Len(queue[p]) : queue'[p][k] = queue[p][k]
           /\ \A q \in Processes \ {p} : queue'[q] = queue[q]
<1> DEFINE p == Home(t)
<1>1. /\ p \in Processes /\ queue[p] \in Seq(Copies) /\ Copy(i, r) \in Copies /\ Copy(i, r).id = i
      /\ queue' = [queue EXCEPT ![p] = Append(@, Copy(i, r))]
  BY DEF TypeOK, Copy, Copies, Home, Processes, Enqueue
<1>2. queue'[p] = Append(queue[p], Copy(i, r)) /\ \A q \in Processes \ {p} : queue'[q] = queue[q]
  BY <1>1 DEF TypeOK
<1> HIDE DEF p
<1>3. /\ Len(queue'[p]) = Len(queue[p]) + 1 /\ queue'[p][Len(queue[p]) + 1] = Copy(i, r)
      /\ \A k \in 1..Len(queue[p]) : queue'[p][k] = queue[p][k]
  BY <1>1, <1>2, AppendProperties, LenProperties
<1>4. Len(queue[p]) \in Nat
  BY <1>1, LenProperties
<1> QED
  BY <1>1, <1>2, <1>3, <1>4 DEF p

LEMMA TakenAt ==
    ASSUME TypeOK, NEW p \in Processes, queue[p] # <<>>, queue' = [queue EXCEPT ![p] = Tail(@)]
    PROVE  /\ Len(queue[p]) \in Nat \ {0} /\ Len(queue'[p]) = Len(queue[p]) - 1
           /\ Head(queue[p]) = queue[p][1] /\ Head(queue[p]).id \in Ids
           /\ \A k \in 1..(Len(queue[p]) - 1) : queue'[p][k] = queue[p][k + 1]
           /\ \A q \in Processes \ {p} : queue'[q] = queue[q]
<1>1. queue[p] \in Seq(Copies)
  BY DEF TypeOK
<1>2. queue'[p] = Tail(queue[p]) /\ \A q \in Processes \ {p} : queue'[q] = queue[q]
  BY DEF TypeOK
<1>3. /\ Len(queue[p]) \in Nat \ {0} /\ Len(Tail(queue[p])) = Len(queue[p]) - 1
      /\ Head(queue[p]) = queue[p][1]
      /\ \A k \in 1..(Len(queue[p]) - 1) : Tail(queue[p])[k] = queue[p][k + 1]
      /\ Head(queue[p]) \in Copies
  BY <1>1, HeadTailProperties, LenProperties
<1> QED
  BY <1>2, <1>3 DEF Copies

\* A bearer puts its row in a queue that is drained.
LEMMA HandedOver ==
    ASSUME TypeOK, OneBearer, UNCHANGED <<runs, missed>>, NEW t \in Threads, NEW b \in Ids, NEW r \in Rows,
           Enqueue(t, b, r), Bears(t, th[t], b), th[t].pc # "finish",
           \A u \in Threads \ {t} : th'[u] = th[u],
           \A i \in Ids : ~Bears(t, th'[t], i),
           Live(Home(t)) \/ queue[Home(t)] = <<>>
    PROVE  OneBearer' /\ StaysFree
<1> DEFINE h == Home(t)
           n == Len(queue[h])
<1>1. /\ h \in Processes /\ n \in Nat /\ Len(queue'[h]) = n + 1 /\ queue'[h][n + 1].id = b
      /\ \A k \in 1..n : queue'[h][k] = queue[h][k]
      /\ \A q \in Processes \ {h} : queue'[q] = queue[q]
  BY PushedAt
<1>2. \A p \in Processes \ {h} : Live(p)' => Live(p)
  BY DEF Live, Processes, Threads, Handlers, Home
<1>3. n # 0 => Live(h)
  BY EmptySeq DEF Live
<1>w. b \notin missed => ~Waits(b) /\ (\A u \in Threads : Bears(u, th[u], b) => u = t) /\ runs[b] = 0
  BY DEF OneBearer, BornOnce, RunOnce
<1> HIDE DEF h, n
\* What a live queue holds is what a live queue held, or the new copy.
<1>4. ASSUME NEW p \in Processes, NEW k \in 1..Len(queue'[p]), Live(p)'
      PROVE  \/ Live(p) /\ k \in 1..Len(queue[p]) /\ queue'[p][k].id = queue[p][k].id
             \/ p = h /\ k = n + 1 /\ queue'[p][k].id = b
  <2>1. CASE p # h
    BY <1>1, <1>2, <1>4, <2>1
  <2>2. CASE p = h /\ k = n + 1
    BY <1>1, <2>2
  <2>3. CASE p = h /\ k # n + 1
    <3>1. k \in 1..n
      BY <1>1, <1>4, <2>3
    <3>2. n # 0
      BY <1>1, <3>1
    <3>3. k \in 1..Len(queue[p]) /\ Live(p) /\ queue'[p][k] = queue[p][k]
      BY <1>1, <1>3, <2>3, <3>1, <3>2 DEF n
    <3> QED
      BY <3>3
  <2> QED
    BY <2>1, <2>2, <2>3
<1>5. \A i \in Ids : Waits(i)' => Waits(i) \/ i = b
  BY <1>4 DEF Waits
<1>6. \A u \in Threads, i \in Ids : Bears(u, th'[u], i) => Bears(u, th[u], i) /\ u # t /\ th'[u].pc = th[u].pc
  OBVIOUS
<1>7. b \notin missed => \A u \in Threads : ~Bears(u, th'[u], b)
  BY <1>w, <1>6
<1>8. QueuedOnce'
  <2> SUFFICES ASSUME NEW p \in Processes, NEW q \in Processes, Live(p)', Live(q)',
                      NEW k \in 1..Len(queue'[p]), NEW l \in 1..Len(queue'[q]),
                      queue'[p][k].id = queue'[q][l].id, queue'[p][k].id \notin missed
               PROVE  p = q /\ k = l
    BY DEF QueuedOnce
  <2>1. \/ Live(p) /\ k \in 1..Len(queue[p]) /\ queue'[p][k].id = queue[p][k].id
        \/ p = h /\ k = n + 1 /\ queue'[p][k].id = b
    BY <1>4
  <2>2. \/ Live(q) /\ l \in 1..Len(queue[q]) /\ queue'[q][l].id = queue[q][l].id
        \/ q = h /\ l = n + 1 /\ queue'[q][l].id = b
    BY <1>4
  <2>3. b \notin missed => \A o \in Processes : \A j : Live(o) /\ j \in 1..Len(queue[o]) => queue[o][j].id # b
    BY <1>w DEF Waits
  <2>4. CASE Live(p) /\ k \in 1..Len(queue[p]) /\ queue'[p][k].id = queue[p][k].id
    <3>1. /\ Live(q) /\ l \in 1..Len(queue[q])
          /\ queue[p][k].id = queue[q][l].id
      BY <2>2, <2>3, <2>4
    <3> QED
      BY <2>4, <3>1 DEF OneBearer, QueuedOnce
  <2>5. CASE p = h /\ k = n + 1 /\ queue'[p][k].id = b
    BY <2>2, <2>3, <2>5
  <2> QED
    BY <2>1, <2>4, <2>5
<1>9. BornOnce' /\ RunOnce'
  <2>1. BornOnce'
    BY <1>w, <1>5, <1>6, <1>7 DEF OneBearer, BornOnce
  <2>2. RunOnce'
    BY <1>w, <1>5, <1>6 DEF OneBearer, RunOnce
  <2> QED
    BY <2>1, <2>2
<1>10. StaysFree
  BY <1>5, <1>6 DEF StaysFree, NoBearer
<1> QED
  BY <1>8, <1>9, <1>10 DEF OneBearer

\* The head of a live queue passes into the hands of the one who takes it.
LEMMA TakenUp ==
    ASSUME TypeOK, OneBearer, UNCHANGED <<runs, missed>>, NEW t \in Threads, NEW h \in Processes,
           queue[h] # <<>>, queue' = [queue EXCEPT ![h] = Tail(@)], Live(h),
           \A u \in Threads \ {t} : th'[u] = th[u],
           th'[t].pc \notin {"drain", "finish"},
           \A i \in Ids : ~Bears(t, th[t], i),
           \A i \in Ids : Bears(t, th'[t], i) => i = Head(queue[h]).id
    PROVE  OneBearer' /\ StaysFree
<1> DEFINE n == Len(queue[h])
           b == Head(queue[h]).id
<1>1. /\ n \in Nat \ {0} /\ Len(queue'[h]) = n - 1 /\ queue[h][1].id = b /\ b \in Ids
      /\ \A k \in 1..(n - 1) : queue'[h][k] = queue[h][k + 1]
      /\ \A q \in Processes \ {h} : queue'[q] = queue[q]
  BY TakenAt
<1>2. \A p \in Processes : Live(p)' => Live(p)
  BY DEF Live, Processes, Threads, Handlers
<1>3. Waits(b)
  BY <1>1 DEF Waits
<1>4. b \notin missed => runs[b] = 0 /\ \A u \in Threads : ~Bears(u, th[u], b)
  BY <1>1, <1>3 DEF OneBearer, BornOnce, RunOnce
<1>5. \A u \in Threads, i \in Ids : Bears(u, th'[u], i) =>
            \/ u # t /\ (i = b => b \in missed) /\ Bears(u, th[u], i) /\ th'[u].pc = th[u].pc
            \/ u = t /\ i = b
  BY <1>4
<1> HIDE DEF b
\* Where a copy that is still queued was.
<1>6. ASSUME NEW p \in Processes, NEW k \in 1..Len(queue'[p]), Live(p)'
      PROVE  /\ Live(p) /\ k \in 1..Len(queue[p])
             /\ p # h => queue'[p][k] = queue[p][k]
             /\ p = h => k + 1 \in 1..n /\ queue'[p][k] = queue[p][k + 1]
  <2>1. CASE p # h
    BY <1>1, <1>2, <1>6, <2>1
  <2>2. CASE p = h
    <3>1. k \in 1..(n - 1) /\ k + 1 \in 1..n /\ k \in 1..n
      BY <1>1, <1>6, <2>2
    <3> QED
      BY <1>1, <1>2, <1>6, <2>2, <3>1
  <2> QED
    BY <2>1, <2>2
\* Nothing else that is still queued is the row that was taken.
<1>7. ASSUME b \notin missed, NEW p \in Processes, NEW k \in 1..Len(queue'[p]), Live(p)'
      PROVE  queue'[p][k].id # b
  <2>1. 1 \in 1..Len(queue[h]) /\ Live(p)
    BY <1>1, <1>6, <1>7
  <2>0. \A q \in Processes : \A j \in 1..Len(queue[q]) :
            Live(q) /\ queue[q][j].id = b => q = h /\ j = 1
    BY <1>1, <1>7, <2>1 DEF OneBearer, QueuedOnce
  <2>2. CASE p # h
    BY <1>6, <1>7, <2>0, <2>2
  <2>3. CASE p = h
    <3>1. k + 1 \in 1..Len(queue[h]) /\ k + 1 # 1 /\ queue'[p][k] = queue[h][k + 1]
      BY <1>1, <1>6, <1>7, <2>3
    <3> QED
      BY <2>0, <2>1, <2>3, <3>1
  <2> QED
    BY <2>2, <2>3
<1>8. \A i \in Ids : Waits(i)' => Waits(i) /\ (i = b => b \in missed)
  <2> SUFFICES ASSUME NEW i \in Ids, Waits(i)' PROVE Waits(i) /\ (i = b => b \in missed)
    OBVIOUS
  <2>1. PICK p \in Processes : Live(p)' /\ \E k \in 1..Len(queue'[p]) : queue'[p][k].id = i
    BY DEF Waits
  <2>2. PICK k \in 1..Len(queue'[p]) : queue'[p][k].id = i
    BY <2>1
  <2>3. i = b => b \in missed
    BY <1>7, <2>1, <2>2
  <2>4. Live(p) /\ \E j \in 1..Len(queue[p]) : queue[p][j].id = i
    BY <1>6, <2>1, <2>2
  <2> QED
    BY <2>3, <2>4 DEF Waits
<1>9. QueuedOnce'
  <2> SUFFICES ASSUME NEW p \in Processes, NEW q \in Processes, Live(p)', Live(q)',
                      NEW k \in 1..Len(queue'[p]), NEW l \in 1..Len(queue'[q]),
                      queue'[p][k].id = queue'[q][l].id, queue'[p][k].id \notin missed
               PROVE  p = q /\ k = l
    BY DEF QueuedOnce
  <2>1. PICK i \in 1..Len(queue[p]) : /\ queue'[p][k] = queue[p][i] /\ Live(p)
                                      /\ i = IF p = h THEN k + 1 ELSE k
    BY <1>6
  <2>2. PICK j \in 1..Len(queue[q]) : /\ queue'[q][l] = queue[q][j] /\ Live(q)
                                      /\ j = IF q = h THEN l + 1 ELSE l
    BY <1>6
  <2>3. p = q /\ i = j
    BY <2>1, <2>2 DEF OneBearer, QueuedOnce
  <2>4. k \in Int /\ l \in Int
    OBVIOUS
  <2> QED
    BY <2>1, <2>2, <2>3, <2>4
<1>10. BornOnce' /\ RunOnce'
  BY <1>4, <1>5, <1>8 DEF OneBearer, BornOnce, RunOnce
<1>11. StaysFree
  BY <1>3, <1>5, <1>8 DEF StaysFree, NoBearer
<1> QED
  BY <1>9, <1>10, <1>11 DEF OneBearer

\* The actuator of a row that had not run is called, or found nothing to act on.
LEMMA RunNow ==
    ASSUME TypeOK, OneBearer, UNCHANGED <<queue, missed>>, NEW t \in Threads, th[t].pc = "act", th[t].id \in Ids,
           \A u \in Threads \ {t} : th'[u] = th[u],
           th'[t].pc = "finish" /\ th'[t].id = th[t].id,
           runs' \in {runs, [runs EXCEPT ![th[t].id] = @ + 1]}
    PROVE  /\ OneBearer' /\ StaysFree
           /\ \A i \in Ids : NoBearer(i) => runs'[i] = runs[i]
           /\ th[t].id \notin missed => runs[th[t].id] = 0
<1> DEFINE b == th[t].id
<1>1. /\ \A i \in Ids : Bears(t, th[t], i) <=> i = b
      /\ \A i \in Ids : Bears(t, th'[t], i) <=> i = b
  BY DEF Bears, Executing, Approving
<1>2. b \notin missed => ~Waits(b) /\ (\A u \in Threads : Bears(u, th[u], b) => u = t) /\ runs[b] = 0
  BY <1>1 DEF OneBearer, BornOnce, RunOnce
<1>3. (b \notin missed => runs'[b] \in {0, 1}) /\ \A i \in Ids : i # b => runs'[i] = runs[i]
  BY <1>2 DEF TypeOK
<1> HIDE DEF b
<1>4. \A p \in Processes : Live(p)' <=> Live(p)
  BY DEF Live, Processes, Threads, Handlers
<1>5. \A i \in Ids : Waits(i)' <=> Waits(i)
  BY <1>4 DEF Waits
<1>6. QueuedOnce'
  BY <1>4 DEF OneBearer, QueuedOnce
<1>7. BornOnce' /\ RunOnce'
  BY <1>1, <1>2, <1>3, <1>5 DEF OneBearer, BornOnce, RunOnce
<1>8. StaysFree /\ \A i \in Ids : NoBearer(i) => runs'[i] = runs[i]
  BY <1>1, <1>3, <1>5 DEF StaysFree, NoBearer
<1> QED
  BY <1>2, <1>6, <1>7, <1>8 DEF OneBearer, b

(***************************************************************************)
(* How a goroutine comes to the places where the argument needs to know    *)
(* what it knows.                                                           *)
(***************************************************************************)

Ran(r) == r.result = "executed_successfully"

Watched == IsDeciding \cup Approving \cup
           {"reset_row", "reset_insert", "seen", "insert_followup", "refuse", "finish"}

SameWork(t) == /\ th'[t].pc = th[t].pc /\ th'[t].id = th[t].id
               /\ th'[t].rec = th[t].rec /\ th'[t].verb = th[t].verb

\* t goes on from one place to another with the same row and verdict.
GoesOn(t, from, to) == /\ th[t].pc = from /\ th'[t].pc = to
                       /\ th'[t].id = th[t].id /\ th'[t].verb = th[t].verb

\* The look-up said so, and was right or is on record.
Absent(i) == row[i] = NoRow \/ i \in missed'

Arrives(t) ==
    LET i == th'[t].id IN
    \/ SameWork(t)
    \/ th'[t].pc \notin Watched
    \/ th'[t].pc = "recheck" /\ t \in Handlers /\ IsPrimary(i) /\ Decidable(row[i]) /\ UNCHANGED row
    \/ GoesOn(t, "recheck", "update")
    \/ GoesOn(t, "update", "verify")
    \/ GoesOn(t, "verify", "merge_read")
    \/ GoesOn(t, "merge_read", "merge_write") /\ th'[t].rec = row[i]
    \/ th'[t].pc = "reset_row" /\ t \in Evaluators /\ Revertible(i, row[i]) /\ Absent(FollowUp(i))
    \/ GoesOn(t, "reset_row", "reset_insert") /\ (faults' > faults \/ row'[i] = Reverted(th[t].rec))
    \/ th'[t].pc = "seen" /\ KindOf(i) = "restart"
    \/ GoesOn(t, "seen", "insert_followup") /\ Absent(FollowUp(i))
    \/ th'[t].pc = "refuse" /\ ~Ran(th'[t].rec)
    \/ GoesOn(t, "act", "finish") /\ (Ran(th'[t].rec) => runs' = [runs EXCEPT ![i] = @ + 1])

MovesAlone(t) == Arrives(t) /\ \A u \in Threads \ {t} : th'[u] = th[u]

\* Coming to rest is arriving nowhere.
LEMMA ArrivesAtRest ==
    ASSUME TypeOK, NEW t \in Threads,
           Leave(t) \/ \E pc \in Pcs \ Watched : Goto(t, pc) \/ \E r \in Rows : Carries(t, pc, r)
    PROVE  MovesAlone(t)
<1>1. {"exit", "recover", "idle"} \cap Watched = {}
  BY DEF Watched, IsDeciding, Approving
<1>2. (\A u \in Threads \ {t} : th'[u] = th[u]) /\ th'[t].pc \notin Watched
  BY <1>1, LeaveFacts, MoveFacts
<1> QED
  BY <1>2 DEF MovesAlone, Arrives

LEMMA ProposeArrives ==
    ASSUME TypeOK, NEW t \in Threads, Propose(t)
    PROVE  MovesAlone(t)
<1>1. {"push_new", "drop_new"} \subseteq Pcs \ Watched
  BY DEF Pcs, Watched, IsDeciding, Approving
<1>2. ASSUME NEW a \in Actions, ProposeAuto(t, a) PROVE MovesAlone(t)
  <2>1. (\A u \in Threads \ {t} : th'[u] = th[u]) /\ th'[t].pc = "push_new"
    BY <1>2 DEF ProposeAuto, At, TypeOK
  <2> QED
    BY <1>1, <2>1 DEF MovesAlone, Arrives
<1>3. ~(\E a \in Actions : ProposeAuto(t, a)) => Leave(t) \/ Goto(t, "drop_new")
  BY DEF Propose, ProposeDenied, ProposeBlocked, ProposeGated, ClosesAtOnce, PushNew, DropNew
<1> QED
  BY <1>1, <1>2, <1>3, ArrivesAtRest

LEMMA ResetArrives ==
    ASSUME TypeOK, NEW t \in Evaluators, QueueReset(t)
    PROVE  MovesAlone(t)
<1>t. t \in Threads
  BY DEF Threads
<1>1. ASSUME NEW a \in Actions, ResetBegin(t, a) PROVE MovesAlone(t)
  <2>1. /\ \A u \in Threads \ {t} : th'[u] = th[u]
        /\ th'[t].pc = "reset_row" /\ th'[t].id = Primary(a)
    BY <1>1, <1>t DEF ResetBegin, At, TypeOK
  <2>2. Absent(FollowUp(Primary(a)))
    BY <1>1 DEF ResetBegin, LookUpFails, Absent
  <2> QED
    BY <1>1, <2>1, <2>2 DEF ResetBegin, MovesAlone, Arrives
<1>2. CASE ResetRow(t)
  <2>0. th[t].id \in Ids
    BY <1>2, <1>t, BusyType DEF ResetRow, Pcs, Resting
  <2>1. faults' > faults \/ row'[th[t].id] = Reverted(th[t].rec)
    BY <1>2, <2>0, QueueAssumption DEF ResetRow, WriteOrIgnore, Write, StatementFails, TypeOK
  <2>2. /\ \A u \in Threads \ {t} : th'[u] = th[u]
        /\ th'[t].pc = "reset_insert" /\ th'[t].id = th[t].id /\ th'[t].verb = th[t].verb
    BY <1>2, <1>t, MoveFacts DEF ResetRow
  <2> QED
    BY <1>2, <2>1, <2>2 DEF ResetRow, MovesAlone, Arrives, GoesOn
<1>3. CASE ResetInsert(t) \/ ResetPush(t)
  <2>1. "reset_push" \in Pcs \ Watched
    BY DEF Pcs, Watched, IsDeciding, Approving
  <2>2. Goto(t, "reset_push") \/ Leave(t)
    BY <1>3 DEF ResetInsert, ResetPush, PushOrDrop
  <2> QED
    BY <1>t, <2>1, <2>2, ArrivesAtRest
<1> QED
  BY <1>1, <1>2, <1>3 DEF QueueReset

LEMMA DecideArrives ==
    ASSUME TypeOK, NEW t \in Handlers, Decide(t)
    PROVE  MovesAlone(t)
<1>t. t \in Threads
  BY DEF Threads
<1>p. {"reload", "push_approved"} \subseteq Pcs \ Watched
  BY DEF Pcs, Watched, IsDeciding, Approving
<1>1. ASSUME NEW a \in Actions, NEW verb \in Verbs, NEW actor \in Operators, NEW ack \in BOOLEAN,
             Load(t, a, verb, actor, ack)
      PROVE  MovesAlone(t)
  <2>1. /\ \A u \in Threads \ {t} : th'[u] = th[u]
        /\ th'[t].pc = "recheck" /\ th'[t].id = Primary(a)
    BY <1>1, <1>t DEF Load, At, TypeOK
  <2>2. UNCHANGED row /\ IsPrimary(Primary(a))
    BY <1>1, IdTypes DEF Load, dbVars
  <2> QED
    BY <1>1, <2>1, <2>2 DEF Load, MovesAlone, Arrives
<1>2. ASSUME NEW from, NEW to, th[t].pc = from, Goto(t, to),
             <<from, to>> \in {<<"recheck", "update">>, <<"update", "verify">>, <<"verify", "merge_read">>}
      PROVE  MovesAlone(t)
  <2>1. (\A u \in Threads \ {t} : th'[u] = th[u]) /\ GoesOn(t, from, to)
    BY <1>2, <1>t, MoveFacts DEF GoesOn
  <2> QED
    BY <1>2, <2>1 DEF MovesAlone, Arrives
<1>3. CASE Recheck(t) \/ Update(t) \/ Verify(t)
  BY <1>2, <1>3, <1>t, <1>p, ArrivesAtRest DEF Recheck, Update, Verify, AfterMerge, EndsCall
<1>e. CASE EndsCall(t)
  BY <1>e, <1>t, ArrivesAtRest DEF EndsCall
<1>4. CASE MergeRead(t) /\ ~EndsCall(t)
  <2>1. PICK r : r = row[th[t].id] /\ Carries(t, "merge_write", r)
    BY <1>4 DEF MergeRead, Carries
  <2>p. th[t].pc = "merge_read"
    BY <1>4 DEF MergeRead
  <2>m. /\ \A u \in Threads \ {t} : th'[u] = th[u]
        /\ th'[t].pc = "merge_write" /\ th'[t].id = th[t].id /\ th'[t].verb = th[t].verb
        /\ th'[t].rec = r
    <3>1. Carries(t, "merge_write", r)
      BY <2>1
    <3>2. /\ \A u \in Threads \ {t} : th'[u] = th[u]
          /\ th'[t].pc = "merge_write" /\ th'[t].id = th[t].id /\ th'[t].rec = r
      BY <1>t, <3>1, CarryFacts
    <3>3. th'[t].verb = th[t].verb
      BY <1>t, <3>1 DEF Carries, TypeOK, Goroutines
    <3> QED
      BY <3>2, <3>3
  <2>2. /\ \A u \in Threads \ {t} : th'[u] = th[u]
        /\ GoesOn(t, "merge_read", "merge_write") /\ th'[t].rec = r
    BY <2>p, <2>m DEF GoesOn
  <2>3. th'[t].rec = row[th'[t].id]
    BY <2>1, <2>2 DEF GoesOn
  <2> QED
    BY <2>2, <2>3 DEF MovesAlone, Arrives
<1>5. CASE MergeWrite(t)
  BY <1>5, <1>t, <1>p, ArrivesAtRest DEF MergeWrite, AfterMerge, EndsCall
<1>6. CASE Reload(t) /\ ~EndsCall(t)
  <2>1. th[t].id \in Ids
    BY <1>6, <1>t, BusyType DEF Reload, Pcs, Resting
  <2>2. \E r \in Rows : Carries(t, "push_approved", r)
    BY <1>6, <2>1 DEF Reload, Carries, TypeOK
  <2> QED
    BY <1>t, <1>p, <2>2, ArrivesAtRest
<1>7. CASE PushApproved(t)
  <2>1. (\A u \in Threads \ {t} : th'[u] = th[u]) /\ th'[t].pc \in {"exit", "recover", "idle", "drain"}
    BY <1>7, <1>t, ReturnType DEF PushApproved, Leave, TypeOK, At
  <2>2. th'[t].pc \notin Watched
    BY <2>1 DEF Watched, IsDeciding, Approving
  <2> QED
    BY <2>1, <2>2 DEF MovesAlone, Arrives
<1> QED
  BY <1>1, <1>3, <1>e, <1>4, <1>5, <1>6, <1>7 DEF Decide

LEMMA ExecuteArrives ==
    ASSUME TypeOK, NEW t \in Threads, Execute(t)
    PROVE  MovesAlone(t)
<1>p. {"freeze", "maintenance", "start", "act", "push_followup"} \subseteq Pcs \ Watched
  BY DEF Pcs, Watched, IsDeciding, Approving
<1>r. \A r \in Rows : /\ ~Ran(FreezeRefusal(r)) /\ ~Ran(MaintenanceRefusal(r))
                    /\ ~Ran(AdvisoryRefusal(r)) /\ ~Ran(GateRefusal(r))
  BY DEF Ran, FreezeRefusal, MaintenanceRefusal, AdvisoryRefusal, GateRefusal, Completed, Rows
\* A refusal is a closing row that says nothing ran.
<1>c. ASSUME NEW r, ~Ran(r), Carries(t, "refuse", r) PROVE MovesAlone(t)
  <2>1. (\A u \in Threads \ {t} : th'[u] = th[u]) /\ th'[t].pc = "refuse" /\ th'[t].rec = r
    BY <1>c, CarryFacts
  <2> QED
    BY <1>c, <2>1 DEF MovesAlone, Arrives
<1>1. CASE Dequeue(t)
  <2> DEFINE c == Head(queue[Home(t)])
  <2>1. c \in Copies
    <3>1. Home(t) \in Processes /\ queue[Home(t)] # <<>>
      BY <1>1 DEF Dequeue, Home, Processes
    <3>2. queue[Home(t)] \in Seq(Copies)
      BY <3>1 DEF TypeOK
    <3> QED
      BY <3>1, <3>2, HeadTailProperties
  <2>2. c.rec \in Rows
    BY <2>1 DEF Copies
  <2>3. CASE GateOpen(c.id, c.rec)
    <3>1. (\A u \in Threads \ {t} : th'[u] = th[u]) /\ th'[t].pc = "freeze"
      BY <1>1, <2>3 DEF Dequeue, At, TypeOK
    <3> QED
      BY <1>p, <3>1 DEF MovesAlone, Arrives
  <2>4. CASE ~GateOpen(c.id, c.rec) /\ c.rec.lifecycle = "pending_approval"
    <3>1. /\ \A u \in Threads \ {t} : th'[u] = th[u]
          /\ th'[t].pc = "refuse" /\ th'[t].rec = GateRefusal(c.rec)
      BY <1>1, <2>4 DEF Dequeue, GatedStop, At, TypeOK
    <3> QED
      BY <1>r, <2>2, <3>1 DEF MovesAlone, Arrives
  <2>5. CASE ~GateOpen(c.id, c.rec) /\ c.rec.lifecycle # "pending_approval"
    BY <1>1, <2>5, ArrivesAtRest DEF Dequeue, GatedStop
  <2> QED
    BY <2>3, <2>4, <2>5
<1>2. CASE CheckFreeze(t)
  <2>1. th[t].rec \in Rows
    BY BusyType
  <2>2. Carries(t, "refuse", FreezeRefusal(th[t].rec)) \/ Goto(t, "maintenance")
    BY <1>2 DEF CheckFreeze, RefuseWith, Carries
  <2> QED
    BY <1>c, <1>p, <1>r, <2>1, <2>2, ArrivesAtRest
<1>3. CASE CheckMaintenance(t)
  <2>1. th[t].rec \in Rows
    BY BusyType
  <2>2. \/ Carries(t, "refuse", MaintenanceRefusal(th[t].rec))
        \/ Carries(t, "refuse", AdvisoryRefusal(th[t].rec))
        \/ Goto(t, "start")
    BY <1>3 DEF CheckMaintenance, AfterHolds, RefuseWith, Carries
  <2> QED
    BY <1>c, <1>p, <1>r, <2>1, <2>2, ArrivesAtRest
<1>4. CASE Refuse(t)
  BY <1>4, ArrivesAtRest DEF Refuse
<1>5. CASE StartAction(t)
  <2>0. th[t].id \in Ids
    BY <1>5, BusyType DEF StartAction, Pcs, Resting
  <2>1. Running(th[t].rec) \in Rows
    BY <2>0, BusyType, RowTypes
  <2>2. Leave(t) \/ Carries(t, "act", Running(th[t].rec))
    BY <1>5 DEF StartAction, Carries, EndsCall
  <2> QED
    BY <1>p, <2>1, <2>2, ArrivesAtRest
<1>6. CASE Act(t)
  <2>1. PICK outcome \in Outcomes :
            /\ Carries(t, "finish", Executed(th[t].id, th[t].rec, outcome))
            /\ runs' = IF outcome = "failed_terminal" THEN runs ELSE [runs EXCEPT ![th[t].id] = @ + 1]
    BY <1>6 DEF Act, Carries
  <2>2. PICK r : r = Executed(th[t].id, th[t].rec, outcome) /\ Carries(t, "finish", r)
    BY <2>1
  <2>3. th[t].pc = "act"
    BY <1>6 DEF Act
  <2>4. /\ \A u \in Threads \ {t} : th'[u] = th[u]
        /\ GoesOn(t, "act", "finish") /\ th'[t].rec = r
    BY <2>2, <2>3, MoveFacts DEF GoesOn
  <2>5. Ran(r) => outcome = "executed_successfully"
    BY <2>2, BusyType DEF Ran, Executed, Completed, Rows
  <2> QED
    BY <2>1, <2>4, <2>5 DEF MovesAlone, Arrives, GoesOn
<1>7. CASE Finish(t)
  <2>1. CASE Leave(t)
    BY <2>1, ArrivesAtRest
  <2>2. CASE WantsRecheck(th[t].id, th[t].rec) /\ Goto(t, "seen")
    <3>1. (\A u \in Threads \ {t} : th'[u] = th[u]) /\ th'[t].pc = "seen" /\ th'[t].id = th[t].id
      BY <2>2, MoveFacts
    <3> QED
      BY <2>2, <3>1 DEF MovesAlone, Arrives, WantsRecheck
  <2> QED
    BY <1>7, <2>1, <2>2 DEF Finish
<1>8. CASE SeenFollowUp(t)
  <2>1. CASE Leave(t)
    BY <2>1, ArrivesAtRest
  <2>2. CASE Absent(FollowUp(th[t].id)) /\ Goto(t, "insert_followup")
    <3>1. (\A u \in Threads \ {t} : th'[u] = th[u]) /\ GoesOn(t, "seen", "insert_followup")
      BY <1>8, <2>2, MoveFacts DEF SeenFollowUp, GoesOn
    <3> QED
      BY <2>2, <3>1 DEF MovesAlone, Arrives, GoesOn
  <2> QED
    BY <1>8, <2>1, <2>2 DEF SeenFollowUp, LookUpFails, Absent
<1>9. CASE InsertFollowUp(t) \/ PushFollowUp(t)
  BY <1>9, <1>p, ArrivesAtRest DEF InsertFollowUp, PushFollowUp, PushOrDrop
<1> QED
  BY <1>1, <1>2, <1>3, <1>4, <1>5, <1>6, <1>7, <1>8, <1>9 DEF Execute

\* Every step: each goroutine works on, arrives somewhere, or is nowhere that matters.
LEMMA AllArrive ==
    ASSUME TypeOK, [Next]_vars
    PROVE  \A t \in Threads : Arrives(t)
<1>1. ASSUME NEW t \in Threads, MovesAlone(t) PROVE \A u \in Threads : Arrives(u)
  BY <1>1 DEF MovesAlone, Arrives, SameWork
<1>2. ASSUME \A u \in Threads : th'[u] = th[u] \/ SameWork(u) \/ th'[u].pc = "idle"
      PROVE  \A u \in Threads : Arrives(u)
  BY <1>2 DEF Arrives, SameWork, Watched, IsDeciding, Approving
<1>3. Threads = {Executor} \cup Evaluators \cup Handlers /\ Clis \subseteq Handlers
  BY DEF Threads, Handlers
<1>4. CASE \E t \in Evaluators \cup Handlers : Propose(t)
  BY <1>1, <1>3, <1>4, ProposeArrives
<1>5. CASE \E t \in Evaluators : QueueReset(t)
  BY <1>1, <1>3, <1>5, ResetArrives
<1>6. CASE \E t \in Handlers : Decide(t)
  BY <1>1, <1>3, <1>6, DecideArrives
<1>7. CASE \E t \in {Executor} \cup Clis : Execute(t)
  BY <1>1, <1>3, <1>7, ExecuteArrives
<1>8. CASE \E c \in Clis : CliEnds(c)
  BY <1>2, <1>3, <1>8 DEF CliEnds, At, TypeOK
<1>9. CASE Crash
  BY <1>2, <1>9 DEF Crash, At
<1>10. CASE Restart \/ StartWorkers
  <2>1. \E pc \in {"recover", "idle"} : Goto(Executor, pc)
    BY <1>10 DEF Restart, StartWorkers
  <2>2. {"recover", "idle"} \subseteq Pcs \ Watched
    BY DEF Pcs, Watched, IsDeciding, Approving
  <2> QED
    BY <1>1, <1>3, <2>1, <2>2, ArrivesAtRest
<1>11. ASSUME NEW c \in recovery, RecoverRow(c) PROVE \A u \in Threads : Arrives(u)
  <2>1. CASE UNCHANGED th
    BY <1>2, <2>1
  <2>2. CASE KindOf(c.id) = "restart"
    <3>1. /\ \A u \in Threads \ {Executor} : th'[u] = th[u]
          /\ th'[Executor].pc = "seen" /\ th'[Executor].id = c.id
      BY <1>3, <1>11, <2>2 DEF RecoverRow, At, TypeOK
    <3> QED
      BY <1>1, <1>3, <2>2, <3>1 DEF MovesAlone, Arrives
  <2> QED
    BY <1>11, <2>1, <2>2 DEF RecoverRow
<1>12. CASE Operate \/ UNCHANGED vars
  <2>1. \A u \in Threads : th'[u] = th[u] \/ SameWork(u)
    BY <1>12
       DEF Operate, ExpireOldFreezes, ExpireStaleApprovals, BeginHold, EndHold, EndHolds, TypeOK,
           Goroutines, SameWork, vars
  <2> QED
    BY <1>2, <2>1
<1> QED
  BY <1>4, <1>5, <1>6, <1>7, <1>8, <1>9, <1>10, <1>11, <1>12 DEF Next, CliExit, CliCrash, Recover

(***************************************************************************)
(* What a step may do to a row.                                             *)
(***************************************************************************)

Past(r) == r.lifecycle \notin {"none", "pending_approval"}

\* t writes that i ran, and is done with it.
ClosesRun(t, i) == Finish(t) /\ th[t].id = i /\ row'[i] = th[t].rec

\* t writes that the backoff increase i was reverted.
RevertsRun(t, i) == /\ th[t].pc = "reset_row" /\ th[t].id = i
                    /\ row'[i].closure = "expired_and_reverted"

Fate(i) ==
    \/ row'[i] = row[i]
    \/ row[i] = NoRow /\ row'[i] = NewPendingApproval
    \/ Past(row'[i]) /\ (Ran(row'[i]) => \E t \in Threads : ClosesRun(t, i) \/ RevertsRun(t, i))

\* What the copies say of a run.
CopiesKnow ==
    \A t \in Threads : /\ th[t].pc \in {"merge_write", "refuse"} => ~Ran(th[t].rec)
                       /\ th[t].pc = "finish" /\ Ran(th[t].rec) =>
                             runs[th[t].id] = 1 \/ th[t].id \in missed

LEMMA FateOfOne ==
    ASSUME TypeOK, NEW i \in Ids, NEW r,
           row' = row \/ (row' = [row EXCEPT ![i] = r] /\ (Past(r) /\ (Ran(r) => \E t \in Threads : ClosesRun(t, i) \/ RevertsRun(t, i))))
    PROVE  \A j \in Ids : Fate(j)
BY DEF TypeOK, Fate

\* The rows the code makes.
LEMMA NewRowsPast ==
    /\ Past(NewPending) /\ ~Ran(NewPending)
    /\ Past(DroppedOnFullQueue) /\ ~Ran(DroppedOnFullQueue)
    /\ ~Ran(NewPendingApproval) /\ ~Ran(NoRow) /\ ~Past(NoRow) /\ ~Past(NewPendingApproval)
    /\ NoRow # NewPending /\ NoRow # NewPendingApproval
    /\ \A r \in Rows :
         /\ \A i : /\ Past(Refusal(i, r)) /\ ~Ran(Refusal(i, r))
                   /\ Past(Recovered(i, r)) /\ ~Ran(Recovered(i, r))
         /\ Past(Completed(r, "denied_by_policy", "")) /\ ~Ran(Completed(r, "denied_by_policy", ""))
         /\ Past(Running(r)) /\ (Ran(Running(r)) => Ran(r))
         /\ \A op, b : Past(Approved(r, op, b)) /\ ~Ran(Approved(r, op, b))
         /\ Past(Rejected(r)) /\ ~Ran(Rejected(r)) /\ Past(Expired(r)) /\ ~Ran(Expired(r))
         /\ (Past(Reverted(r)) <=> Past(r)) /\ Reverted(r).closure = "expired_and_reverted"
<1>1. /\ Past(NewPending) /\ ~Ran(NewPending)
      /\ Past(DroppedOnFullQueue) /\ ~Ran(DroppedOnFullQueue)
      /\ ~Ran(NewPendingApproval) /\ ~Ran(NoRow) /\ ~Past(NoRow) /\ ~Past(NewPendingApproval)
      /\ NoRow # NewPending /\ NoRow # NewPendingApproval
  BY DEF Past, Ran, NewPending, DroppedOnFullQueue, NewPendingApproval, NoRow, Completed
<1>2. ASSUME NEW r \in Rows
      PROVE  /\ \A i : /\ Past(Refusal(i, r)) /\ ~Ran(Refusal(i, r))
                       /\ Past(Recovered(i, r)) /\ ~Ran(Recovered(i, r))
             /\ Past(Completed(r, "denied_by_policy", "")) /\ ~Ran(Completed(r, "denied_by_policy", ""))
             /\ Past(Running(r)) /\ (Ran(Running(r)) => Ran(r))
             /\ \A op, b : Past(Approved(r, op, b)) /\ ~Ran(Approved(r, op, b))
             /\ Past(Rejected(r)) /\ ~Ran(Rejected(r)) /\ Past(Expired(r)) /\ ~Ran(Expired(r))
             /\ (Past(Reverted(r)) <=> Past(r)) /\ Reverted(r).closure = "expired_and_reverted"
  <2>1. \A i : Past(Refusal(i, r)) /\ ~Ran(Refusal(i, r))
    BY DEF Past, Ran, Refusal, FreezeRefusal, MaintenanceRefusal, Completed, Rows
  <2>2. \A i : Past(Recovered(i, r)) /\ ~Ran(Recovered(i, r))
    BY DEF Past, Ran, Recovered, Rows
  <2>3. /\ Past(Completed(r, "denied_by_policy", "")) /\ ~Ran(Completed(r, "denied_by_policy", ""))
        /\ Past(Rejected(r)) /\ ~Ran(Rejected(r)) /\ Past(Expired(r)) /\ ~Ran(Expired(r))
    BY DEF Past, Ran, Completed, Rejected, Expired, Rows
  <2>4. /\ Past(Running(r)) /\ (Ran(Running(r)) => Ran(r))
        /\ \A op, b : Past(Approved(r, op, b)) /\ ~Ran(Approved(r, op, b))
        /\ (Past(Reverted(r)) <=> Past(r)) /\ Reverted(r).closure = "expired_and_reverted"
    BY DEF Past, Ran, Running, Approved, Reverted, Rows
  <2> QED
    BY <2>1, <2>2, <2>3, <2>4
<1> QED
  BY <1>1, <1>2

\* What a step does to the rows, whoever takes it.
LEMMA RowFates ==
    ASSUME TypeOK, GateInvariant, HonestInvariant, CopiesKnow, [Next]_vars
    PROVE  \A i \in Ids : Fate(i)
<1>1. ASSUME NEW t \in Threads, Propose(t) PROVE \A i \in Ids : Fate(i)
  <2>1. ASSUME NEW a \in Actions, ProposeDenied(t, a) \/ ProposeBlocked(t, a) \/ ProposeAuto(t, a)
        PROVE  \A i \in Ids : Fate(i)
    <3>0. PICK r : /\ row' = [row EXCEPT ![Primary(a)] = r]
                   /\ r \in {NewPending, Refusal(Primary(a), NewPending),
                             Completed(NewPending, "denied_by_policy", "")}
      BY <2>1 DEF ProposeDenied, ProposeBlocked, ProposeAuto, Insert
    <3>1. Past(r) /\ ~Ran(r)
      <4>1. NewPending \in Rows /\ Past(NewPending) /\ ~Ran(NewPending)
        BY NewRowsPast, NewRowTypes
      <4>2. \A i : Past(Refusal(i, NewPending)) /\ ~Ran(Refusal(i, NewPending))
        BY <4>1, NewRowsPast
      <4>3. /\ Past(Completed(NewPending, "denied_by_policy", ""))
            /\ ~Ran(Completed(NewPending, "denied_by_policy", ""))
        BY <4>1, NewRowsPast
      <4> QED
        BY <3>0, <4>1, <4>2, <4>3
    <3> QED
      BY <3>0, <3>1, IdTypes, FateOfOne
  <2>2. ASSUME NEW a \in Actions, ProposeGated(t, a) PROVE \A i \in Ids : Fate(i)
    BY <2>2, IdTypes DEF ProposeGated, MayPropose, Insert, TypeOK, Fate
  <2>3. CASE PushNew(t)
    BY <2>3 DEF PushNew, dbVars, Fate
  <2>4. CASE DropNew(t)
    <3>1. th[t].id \in Ids
      BY <2>4, BusyType DEF DropNew, Pcs, Resting
    <3>2. row' = row \/ row' = [row EXCEPT ![th[t].id] = DroppedOnFullQueue]
      BY <2>4 DEF DropNew, WriteOrIgnore, Write
    <3> QED
      BY <3>1, <3>2, NewRowsPast, FateOfOne
  <2> QED
    BY <1>1, <2>1, <2>2, <2>3, <2>4 DEF Propose
<1>2. ASSUME NEW t \in Threads, QueueReset(t) PROVE \A i \in Ids : Fate(i)
  <2>1. CASE (\E a \in Actions : ResetBegin(t, a)) \/ ResetPush(t)
    BY <2>1 DEF ResetBegin, ResetPush, PushOrDrop, dbVars, Fate
  <2>2. CASE ResetRow(t)
    <3>1. /\ th[t].id \in Ids /\ th[t].rec \in Rows /\ th[t].pc = "reset_row" /\ Past(th[t].rec)
      BY <2>2, BusyType
         DEF ResetRow, Pcs, Resting, GateInvariant, ThreadsSound, ThreadSound, HoldsCopy, Sound, Past
    <3>2. PICK r : r = Reverted(th[t].rec)
      OBVIOUS
    <3>3. Past(r) /\ r.closure = "expired_and_reverted"
      BY <3>1, <3>2, NewRowsPast
    <3>4. row' = row \/ row' = [row EXCEPT ![th[t].id] = r]
      BY <2>2, <3>2 DEF ResetRow, WriteOrIgnore, Write
    <3>5. row' = [row EXCEPT ![th[t].id] = r] => row'[th[t].id] = r
      BY <3>1 DEF TypeOK
    <3> QED
      BY <3>1, <3>3, <3>4, <3>5, FateOfOne DEF RevertsRun
  <2>3. CASE ResetInsert(t)
    <3>1. FollowUp(th[t].id) \in Ids
      BY <2>3, BusyType, IdTypes DEF ResetInsert, Pcs, Resting
    <3>2. row' = row \/ row' = [row EXCEPT ![FollowUp(th[t].id)] = NewPending]
      BY <2>3 DEF ResetInsert, WriteOrIgnore, Write
    <3> QED
      BY <3>1, <3>2, NewRowsPast, FateOfOne
  <2> QED
    BY <1>2, <2>1, <2>2, <2>3 DEF QueueReset
<1>3. ASSUME NEW t \in Threads, Decide(t) PROVE \A i \in Ids : Fate(i)
  <2>1. CASE UNCHANGED row
    BY <2>1 DEF Fate
  <2>2. CASE Update(t)
    <3>1. th[t].id \in Ids
      BY <2>2, BusyType DEF Update, Pcs, Resting
    <3>2. row[th[t].id] \in Rows
      BY <3>1 DEF TypeOK
    <3>3. PICK approved, rejected : /\ approved = Approved(row[th[t].id], th[t].actor, Bypass(t))
                                    /\ rejected = Rejected(row[th[t].id])
      OBVIOUS
    <3>4. Past(approved) /\ ~Ran(approved) /\ Past(rejected) /\ ~Ran(rejected)
      BY <3>2, <3>3, NewRowsPast
    <3>5. \/ row' = row
          \/ row' = [row EXCEPT ![th[t].id] = approved]
          \/ row' = [row EXCEPT ![th[t].id] = rejected]
      BY <2>2, <3>3 DEF Update, DecideRow
    <3> QED
      BY <3>1, <3>4, <3>5, FateOfOne
  <2>3. CASE MergeWrite(t)
    <3>1. /\ th[t].id \in Ids /\ Past(th[t].rec) /\ ~Ran(th[t].rec)
      BY <2>3, BusyType
         DEF MergeWrite, Pcs, Resting, GateInvariant, ThreadsSound, ThreadSound, HoldsCopy, Sound, Past,
             CopiesKnow
    <3>2. row' = row \/ row' = [row EXCEPT ![th[t].id] = th[t].rec]
      BY <2>3 DEF MergeWrite, Write, EndsCall
    <3> QED
      BY <3>1, <3>2, FateOfOne
  <2>4. UNCHANGED row \/ Update(t) \/ MergeWrite(t)
    BY <1>3 DEF Decide, Load, Recheck, Verify, MergeRead, Reload, PushApproved, EndsCall, dbVars
  <2> QED
    BY <2>1, <2>2, <2>3, <2>4
<1>4. ASSUME NEW t \in Threads, Execute(t) PROVE \A i \in Ids : Fate(i)
  <2>1. CASE UNCHANGED row
    BY <2>1 DEF Fate
  <2>2. CASE Refuse(t)
    <3>1. /\ th[t].id \in Ids /\ Past(th[t].rec) /\ ~Ran(th[t].rec)
      BY <2>2, BusyType
         DEF Refuse, Pcs, Resting, GateInvariant, ThreadsSound, ThreadSound, HoldsCopy, Sound, Past,
             CopiesKnow
    <3>2. row' = row \/ row' = [row EXCEPT ![th[t].id] = th[t].rec]
      BY <2>2 DEF Refuse, WriteOrIgnore, Write
    <3> QED
      BY <3>1, <3>2, FateOfOne
  <2>3. CASE StartAction(t)
    <3>1. /\ th[t].id \in Ids /\ th[t].rec \in Rows
          /\ Honest(th[t].rec) /\ th[t].rec.lifecycle \in InFlight
      BY <2>3, BusyType
         DEF StartAction, Pcs, Resting, HonestInvariant, ThreadsHonest, ThreadHonest, MayExecute
    <3>2. ~Ran(th[t].rec)
      BY <3>1, HonestRows DEF Ran
    <3>3. PICK r : r = Running(th[t].rec)
      OBVIOUS
    <3>5. Past(r) /\ ~Ran(r)
      BY <3>1, <3>2, <3>3, NewRowsPast
    <3>4. row' = row \/ row' = [row EXCEPT ![th[t].id] = r]
      BY <2>3, <3>3 DEF StartAction, Write, EndsCall
    <3> QED
      BY <3>1, <3>4, <3>5, FateOfOne
  <2>4. CASE Finish(t)
    <3>1. th[t].id \in Ids /\ Past(th[t].rec)
      BY <2>4, BusyType
         DEF Finish, Pcs, Resting, GateInvariant, ThreadsSound, ThreadSound, HoldsCopy, Sound, Past
    <3>2. row' = row \/ row' = [row EXCEPT ![th[t].id] = th[t].rec]
      BY <2>4 DEF Finish, WriteOrIgnore, Write
    <3>3. row' = [row EXCEPT ![th[t].id] = th[t].rec] => row'[th[t].id] = th[t].rec
      BY <3>1 DEF TypeOK
    <3> QED
      BY <2>4, <3>1, <3>2, <3>3, FateOfOne DEF ClosesRun
  <2>5. CASE InsertFollowUp(t)
    <3>1. FollowUp(th[t].id) \in Ids
      BY <2>5, BusyType, IdTypes DEF InsertFollowUp, Pcs, Resting
    <3>2. row' = row \/ row' = [row EXCEPT ![FollowUp(th[t].id)] = NewPending]
      BY <2>5 DEF InsertFollowUp, Write
    <3> QED
      BY <3>1, <3>2, NewRowsPast, FateOfOne
  <2> QED
    BY <1>4, <2>1, <2>2, <2>3, <2>4, <2>5
       DEF Execute, Dequeue, CheckFreeze, CheckMaintenance, Act, SeenFollowUp, PushFollowUp, PushOrDrop, dbVars
<1>5. ASSUME NEW c \in recovery, RecoverRow(c) PROVE \A i \in Ids : Fate(i)
  <2>1. c.id \in Ids /\ c.rec \in Rows
    BY DEF TypeOK, Copies
  <2>2. row' = row \/ row' = [row EXCEPT ![c.id] = Recovered(c.id, c.rec)]
    BY <1>5 DEF RecoverRow, WriteOrIgnore, Write
  <2>3. Past(Recovered(c.id, c.rec)) /\ ~Ran(Recovered(c.id, c.rec))
    BY <2>1, NewRowsPast
  <2> QED
    BY <2>1, <2>2, <2>3, FateOfOne
<1>6. CASE ExpireStaleApprovals
  <2>1. \A i \in Ids : row'[i] \in {row[i], Expired(row[i])}
    BY <1>6 DEF ExpireStaleApprovals
  <2>2. \A i \in Ids : row[i] \in Rows
    BY DEF TypeOK
  <2>3. \A r \in Rows : Past(Expired(r)) /\ ~Ran(Expired(r))
    BY NewRowsPast
  <2>4. \A i \in Ids : row'[i] = row[i] \/ (Past(row'[i]) /\ ~Ran(row'[i]))
    BY <2>1, <2>2, <2>3
  <2> QED
    BY <2>4 DEF Fate
<1>7. CASE UNCHANGED row
  BY <1>7 DEF Fate
<1>8. ASSUME NEW c \in Clis, CliExit(c) \/ CliCrash(c) PROVE UNCHANGED row
  BY <1>8 DEF CliExit, CliCrash, CliEnds, dbVars
<1>9. Crash \/ Restart \/ StartWorkers \/ UNCHANGED vars => UNCHANGED row
  BY DEF Crash, Restart, StartWorkers, dbVars, vars
<1>10. Operate => ExpireStaleApprovals \/ UNCHANGED row
  BY DEF Operate, ExpireOldFreezes, BeginHold, EndHold, EndHolds
<1> QED
  BY <1>1, <1>2, <1>3, <1>4, <1>5, <1>6, <1>7, <1>8, <1>9, <1>10
     DEF Next, Recover, Threads, Handlers

(***************************************************************************)
(* What a step does to the bearers.                                         *)
(***************************************************************************)

\* Where a CLI process has something in its queue: what it approved, while it drains
\* it, or a follow-up, as it ends.
CliQueues ==
    \A c \in Clis : Len(queue[c]) <= 1 /\ (queue[c] # <<>> => th[c].pc \in {"drain", "exit"})

\* A row that is not decided, or not there, never ran and nobody is about to run it.
FreshClean ==
    \A i \in Ids : IsPrimary(i) /\ ~Past(row[i]) => Clean(i)

\* Nor is one whose decision is on its way, or was refused.
DecidingClean ==
    \A t \in Threads :
        \/ th[t].pc \in IsDeciding
        \/ th[t].pc \in Approving /\ th[t].verb = "reject"
        => IsGated(th[t].id) /\ Clean(th[t].id)

\* Nor a follow-up that somebody is about to insert.
InsertClean == th[Executor].pc = "insert_followup" => Clean(FollowUp(th[Executor].id))

Resetting ==
    \A t \in Threads : th[t].pc \in {"reset_row", "reset_insert"} =>
        /\ KindOf(th[t].id) = "backoff_increase"
        /\ Done(th[t].id) /\ Clean(FollowUp(th[t].id))
        /\ th[t].pc = "reset_insert" /\ faults = 0 => ~Revertible(th[t].id, row[th[t].id])

BirthsClean == FreshClean /\ DecidingClean /\ InsertClean /\ Resetting

\* The four ways in which a row gets a bearer.
Born(i) ==
    \/ /\ IsPrimary(i) /\ ~IsGated(i)
       /\ row[i] = NoRow /\ row'[i] = NewPending
    \/ \E h \in Handlers : /\ GoesOn(h, "update", "verify") /\ th[h].verb = "approve"
                           /\ th[h].id = i /\ Past(row'[i])
    \/ /\ GoesOn(Executor, "insert_followup", "push_followup")
       /\ FollowUp(th[Executor].id) = i /\ row'[i] = NewPending
    \/ \E t \in Evaluators : /\ GoesOn(t, "reset_insert", "reset_push")
                             /\ FollowUp(th[t].id) = i
                             /\ row'[i] = NewPending \/ faults' > faults

\* What has run and is borne by nobody stays so; what never ran stays so until it is born.
Keeps ==
    \A i \in Ids : (Done(i) => Done(i)') /\ (Clean(i) => Clean(i)' \/ Born(i))

LEMMA FreeKeeps ==
    ASSUME StaysFree, missed \subseteq missed', \A i \in Ids : NoBearer(i) => runs'[i] = runs[i]
    PROVE  Keeps
BY DEF StaysFree, Keeps, Done, Clean

LEMMA BirthKeeps ==
    ASSUME UNCHANGED <<runs, missed>>, NEW b \in Ids, Clean(b), Born(b), \A i \in Ids \ {b} : NoBearer(i) => NoBearer(i)'
    PROVE  Keeps
<1>1. Done(b) => b \in missed
  BY DEF Done, Clean
<1> QED
  BY <1>1 DEF Keeps, Done, Clean

\* t moves on its own and takes up nothing.
Sheds(t) ==
    /\ \A u \in Threads \ {t} : th'[u] = th[u]
    /\ th'[t].pc # "drain"
    /\ \A i \in Ids : Bears(t, th'[t], i) => Bears(t, th[t], i) /\ th[t].pc # "finish"

LEMMA ShedsKeep ==
    ASSUME TypeOK, OneBearer, UNCHANGED <<queue, runs>>, missed \subseteq missed', NEW t \in Threads, Sheds(t)
    PROVE  OneBearer' /\ Keeps
<1>1. \A p \in Processes : Live(p)' => queue'[p] = queue[p] /\ Live(p)
  BY DEF Live, Processes, Threads, Handlers, Sheds
<1>2. \A u \in Threads, i \in Ids : Bears(u, th'[u], i) =>
                Bears(u, th[u], i) /\ (th[u].pc = "finish" => th'[u].pc = "finish")
  BY DEF Sheds
<1>3. OneBearer' /\ StaysFree
  BY <1>1, <1>2, FewerBearers
<1> QED
  BY <1>3, FreeKeeps

\* A call that returns, or goes where nothing is borne, sheds.
LEMMA LeaveSheds ==
    ASSUME TypeOK, NEW t \in Threads,
           Leave(t) \/ \E pc \in Unburdened \ {"drain"} : Goto(t, pc) \/ \E r \in Rows : Carries(t, pc, r)
    PROVE  Sheds(t)
<1>1. {"exit", "recover", "idle"} \subseteq Unburdened \ {"drain"}
  BY DEF Unburdened, Resting
<1>2. (\A u \in Threads \ {t} : th'[u] = th[u]) /\ th'[t].pc \in Unburdened \ {"drain"}
  BY <1>1, LeaveFacts, MoveFacts
<1> QED
  BY <1>2, UnburdenedBears DEF Sheds

\* So does one that only moves on with its row.
Onward == {<<"verify", "merge_read">>, <<"merge_read", "merge_write">>, <<"reload", "push_approved">>,
           <<"freeze", "maintenance">>, <<"maintenance", "start">>, <<"start", "act">>}

LEMMA OnwardSheds ==
    ASSUME TypeOK, NEW t \in Threads, NEW pc, <<th[t].pc, pc>> \in Onward,
           Goto(t, pc) \/ \E r \in Rows : Carries(t, pc, r)
    PROVE  Sheds(t)
<1>1. /\ \A u \in Threads \ {t} : th'[u] = th[u]
      /\ th'[t].pc = pc /\ th'[t].id = th[t].id /\ th'[t].verb = th[t].verb
  BY MoveFacts
<1>2. th[t].pc # "finish" /\ pc # "drain" /\ pc \notin {"push_new", "reset_push", "push_followup"}
  BY DEF Onward
<1>3. \A i \in Ids : Bears(t, th'[t], i) => Bears(t, th[t], i)
  BY <1>1, <1>2 DEF Bears, Onward, Executing, Approving
<1> QED
  BY <1>1, <1>2, <1>3 DEF Sheds

\* Approving, and only approving, goes on after the merge.
LEMMA AfterMergeSheds ==
    ASSUME TypeOK, NEW t \in Threads, AfterMerge(t), th[t].pc \in Approving
    PROVE  Sheds(t)
<1>1. CASE th[t].verb = "approve" /\ Goto(t, "reload")
  <2>1. /\ \A u \in Threads \ {t} : th'[u] = th[u]
        /\ th'[t].pc = "reload" /\ th'[t].id = th[t].id
    BY <1>1, MoveFacts
  <2> QED
    BY <1>1, <2>1 DEF Bears, Approving, Executing, Sheds
<1> QED
  BY <1>1, LeaveSheds DEF AfterMerge

\* A CLI process that ends leaves its queue to nobody.
LEMMA LastWords ==
    ASSUME TypeOK, OneBearer, UNCHANGED <<runs, missed>>, NEW t \in Clis, NEW i \in Ids, NEW r \in Rows,
           Enqueue(t, i, r), Leave(t)
    PROVE  OneBearer' /\ Keeps
<1>t. t \in Threads /\ Home(t) = t
  BY DEF Threads, Handlers, Home
<1>1. \A u \in Threads \ {t} : th'[u] = th[u]
  BY <1>t, LeaveFacts
<1>2. th'[t].pc = "exit"
  <2>1. Return(t) = "exit"
    BY ThreadsAssumption DEF Return, Handlers
  <2> QED
    BY <1>t, <2>1 DEF Leave, At, TypeOK
<1>3. \A j : ~Bears(t, th'[t], j)
  BY <1>2, UnburdenedBears DEF Unburdened, Resting
<1>4. \A q \in Processes \ {t} : queue'[q] = queue[q]
  BY <1>t, PushedAt
<1>5. \A p \in Processes : Live(p)' => queue'[p] = queue[p] /\ Live(p)
  BY <1>1, <1>2, <1>4, ThreadsAssumption DEF Live, Processes, Threads, Handlers
<1>6. OneBearer' /\ StaysFree
  BY <1>1, <1>3, <1>5, FewerBearers
<1> QED
  BY <1>6, FreeKeeps

\* A proposal is born with its row; one that is pushed is handed to the executor.
LEMMA ProposeBears ==
    ASSUME TypeOK, OneBearer, BirthsClean, NEW t \in Threads, Propose(t)
    PROVE  OneBearer' /\ Keeps
<1>1. ASSUME NEW a \in Actions, ProposeDenied(t, a) \/ ProposeBlocked(t, a) \/ ProposeGated(t, a)
      PROVE  OneBearer' /\ Keeps
  BY <1>1, LeaveSheds, ShedsKeep
     DEF ProposeDenied, ProposeBlocked, ProposeGated, ClosesAtOnce, history
<1>2. ASSUME NEW a \in Actions, ProposeAuto(t, a) PROVE OneBearer' /\ Keeps
  <2>1. /\ \A u \in Threads \ {t} : th'[u] = th[u]
        /\ th'[t].pc = "push_new" /\ th'[t].id = Primary(a)
        /\ UNCHANGED <<queue, runs, missed>>
    BY <1>2 DEF ProposeAuto, At, TypeOK, history
  <2>2. \A i \in Ids : Bears(t, th'[t], i) <=> i = Primary(a) /\ t \notin Clis
    BY <2>1 DEF Bears, Executing, Approving
  <2>3. CASE t \in Clis
    BY <2>1, <2>2, <2>3, ShedsKeep DEF Sheds
  <2>4. CASE t \notin Clis
    <3>1. /\ Primary(a) \in Ids /\ IsPrimary(Primary(a)) /\ ~IsGated(Primary(a))
          /\ row[Primary(a)] = NoRow /\ row'[Primary(a)] = NewPending
      BY <1>2, IdTypes DEF ProposeAuto, MayPropose, Insert, NeedsApproval, IsGated, TypeOK
    <3>2. Clean(Primary(a))
      BY <3>1, NewRowsPast DEF BirthsClean, FreshClean
    <3>3. OneBearer' /\ \A i \in Ids \ {Primary(a)} : NoBearer(i) => NoBearer(i)'
      BY <2>1, <2>2, <3>1, <3>2, NewBearer
    <3>4. Born(Primary(a))
      BY <3>1 DEF Born
    <3> QED
      BY <2>1, <3>1, <3>2, <3>3, <3>4, BirthKeeps
  <2> QED
    BY <2>3, <2>4
<1>3. CASE PushNew(t)
  <2>1. /\ th[t].pc = "push_new" /\ UNCHANGED <<runs, missed>>
        /\ \/ Enqueue(t, th[t].id, th[t].rec) /\ Leave(t)
           \/ Goto(t, "drop_new") /\ UNCHANGED queue
    BY <1>3 DEF PushNew, history
  <2>2. th[t].id \in Ids /\ th[t].rec \in Rows
    BY <2>1, BusyType DEF Pcs, Resting
  <2>3. CASE Goto(t, "drop_new") /\ UNCHANGED queue
    BY <2>1, <2>3, LeaveSheds, ShedsKeep DEF Unburdened
  <2>4. CASE Enqueue(t, th[t].id, th[t].rec) /\ Leave(t) /\ t \in Clis
    BY <2>1, <2>2, <2>4, LastWords
  <2>5. CASE Enqueue(t, th[t].id, th[t].rec) /\ Leave(t) /\ t \notin Clis
    <3>1. Sheds(t)
      BY <2>5, LeaveSheds
    <3>2. /\ \A u \in Threads \ {t} : th'[u] = th[u]
          /\ \A i \in Ids : ~Bears(t, th'[t], i)
      BY <2>5, LeaveFacts, UnburdenedBears DEF Unburdened, Resting
    <3>3. Bears(t, th[t], th[t].id) /\ Live(Home(t))
      BY <2>1, <2>5 DEF Bears, Live, Home
    <3>4. OneBearer' /\ StaysFree
      BY <2>1, <2>2, <2>5, <3>2, <3>3, HandedOver
    <3> QED
      BY <2>1, <3>4, FreeKeeps
  <2> QED
    BY <2>1, <2>3, <2>4, <2>5
<1>4. CASE DropNew(t)
  BY <1>4, LeaveSheds, ShedsKeep DEF DropNew
<1> QED
  BY <1>1, <1>2, <1>3, <1>4 DEF Propose

\* A follow-up that is pushed is handed to the executor, or to nobody.
LEMMA PushOrDropBears ==
    ASSUME TypeOK, OneBearer, NEW t \in Threads, PushOrDrop(t), th[t].pc \in {"reset_push", "push_followup"}
    PROVE  OneBearer' /\ Keeps
<1>1. /\ FollowUp(th[t].id) \in Ids /\ NewPending \in Rows
  BY BusyType, IdTypes, NewRowTypes DEF Pcs, Resting
<1>2. /\ UNCHANGED <<runs, missed>> /\ Leave(t)
      /\ Enqueue(t, FollowUp(th[t].id), NewPending) \/ UNCHANGED queue
  BY DEF PushOrDrop
<1>3. CASE UNCHANGED queue
  BY <1>2, <1>3, LeaveSheds, ShedsKeep
<1>4. CASE Enqueue(t, FollowUp(th[t].id), NewPending) /\ t \in Clis
  BY <1>1, <1>2, <1>4, LastWords
<1>5. CASE Enqueue(t, FollowUp(th[t].id), NewPending) /\ t \notin Clis
  <2>1. /\ \A u \in Threads \ {t} : th'[u] = th[u]
        /\ \A i \in Ids : ~Bears(t, th'[t], i)
    BY <1>2, LeaveFacts, UnburdenedBears DEF Unburdened, Resting
  <2>2. Bears(t, th[t], FollowUp(th[t].id)) /\ Live(Home(t)) /\ th[t].pc # "finish"
    BY <1>5 DEF Bears, Live, Home
  <2>3. OneBearer' /\ StaysFree
    BY <1>1, <1>2, <1>5, <2>1, <2>2, HandedOver
  <2> QED
    BY <1>2, <2>3, FreeKeeps
<1> QED
  BY <1>2, <1>3, <1>4, <1>5

\* A reset is born with its INSERT, whether or not that succeeds.
LEMMA ResetBears ==
    ASSUME TypeOK, OneBearer, BirthsClean, NEW t \in Evaluators, QueueReset(t)
    PROVE  OneBearer' /\ Keeps
<1>t. t \in Threads /\ t \notin Clis
  BY ThreadsAssumption DEF Threads, Handlers
<1>1. ASSUME NEW a \in Actions, ResetBegin(t, a) PROVE OneBearer' /\ Keeps
  <2>1. /\ \A u \in Threads \ {t} : th'[u] = th[u]
        /\ th'[t].pc = "reset_row" /\ UNCHANGED <<queue, runs>>
    BY <1>1, <1>t DEF ResetBegin, At, TypeOK
  <2>2. Sheds(t)
    BY <2>1, UnburdenedBears DEF Sheds, Unburdened
  <2>3. missed \subseteq missed'
    BY <1>1 DEF ResetBegin, LookUpFails
  <2> QED
    BY <1>t, <2>1, <2>2, <2>3, ShedsKeep
<1>2. CASE ResetRow(t)
  BY <1>2, <1>t, LeaveSheds, ShedsKeep DEF ResetRow, Unburdened
<1>3. CASE ResetInsert(t)
  <2> DEFINE b == FollowUp(th[t].id)
  <2>1. th[t].pc = "reset_insert" /\ b \in Ids /\ UNCHANGED <<queue, runs, missed>>
    BY <1>3, <1>t, BusyType, IdTypes DEF ResetInsert, Pcs, Resting
  <2>2. /\ \A u \in Threads \ {t} : th'[u] = th[u]
        /\ th'[t].pc = "reset_push" /\ th'[t].id = th[t].id /\ th'[t].verb = th[t].verb
    BY <1>3, <1>t, MoveFacts DEF ResetInsert
  <2>3. Clean(b)
    BY <1>t, <2>1 DEF BirthsClean, Resetting
  <2>4. \A i \in Ids : Bears(t, th'[t], i) => i = b
    BY <2>2 DEF Bears, Executing, Approving
  <2>5. row'[b] = NewPending \/ faults' > faults
    BY <1>3, <2>1, QueueAssumption DEF ResetInsert, WriteOrIgnore, Write, StatementFails, TypeOK
  <2>6. Born(b)
    BY <2>1, <2>2, <2>5 DEF Born, GoesOn
  <2> HIDE DEF b
  <2>7. OneBearer' /\ \A i \in Ids \ {b} : NoBearer(i) => NoBearer(i)'
    BY <1>t, <2>1, <2>2, <2>3, <2>4, NewBearer
  <2> QED
    BY <2>1, <2>3, <2>6, <2>7, BirthKeeps
<1>4. CASE ResetPush(t)
  BY <1>4, <1>t, PushOrDropBears DEF ResetPush
<1> QED
  BY <1>1, <1>2, <1>3, <1>4 DEF QueueReset

\* An approval is born with the guarded UPDATE, whether or not that finds the row undecided.
LEMMA DecideBears ==
    ASSUME TypeOK, GateInvariant, OneBearer, CliQueues, BirthsClean, NEW t \in Handlers, Decide(t)
    PROVE  OneBearer' /\ Keeps
<1>t. t \in Threads
  BY DEF Threads
<1>1. ASSUME NEW a \in Actions, NEW verb \in Verbs, NEW actor \in Operators, NEW ack \in BOOLEAN,
             Load(t, a, verb, actor, ack)
      PROVE  OneBearer' /\ Keeps
  <2>1. /\ \A u \in Threads \ {t} : th'[u] = th[u]
        /\ th'[t].pc = "recheck" /\ UNCHANGED <<queue, runs, missed>>
    BY <1>1, <1>t DEF Load, At, TypeOK, history
  <2>2. Sheds(t)
    BY <2>1, UnburdenedBears DEF Sheds, Unburdened
  <2> QED
    BY <1>t, <2>1, <2>2, ShedsKeep
<1>2. CASE Recheck(t)
  BY <1>2, <1>t, LeaveSheds, ShedsKeep DEF Recheck, Unburdened, history
<1>3. CASE Update(t)
  <2>1. /\ th[t].pc = "update" /\ th[t].id \in Ids /\ UNCHANGED <<queue, runs, missed>>
    BY <1>3, <1>t, BusyType DEF Update, Pcs, Resting
  <2>2. CASE Leave(t)
    BY <1>t, <2>1, <2>2, LeaveSheds, ShedsKeep
  <2>3. CASE DecideRow(t) /\ Goto(t, "verify")
    <3> DEFINE b == th[t].id
    <3>1. /\ \A u \in Threads \ {t} : th'[u] = th[u]
          /\ th'[t].pc = "verify" /\ th'[t].id = b /\ th'[t].verb = th[t].verb
      BY <1>t, <2>3, MoveFacts
    <3>2. \A i \in Ids : Bears(t, th'[t], i) <=> i = b /\ th[t].verb = "approve"
      BY <3>1 DEF Bears, Executing, Approving
    <3>3. CASE th[t].verb # "approve"
      BY <1>t, <2>1, <3>1, <3>2, <3>3, ShedsKeep DEF Sheds
    <3>4. CASE th[t].verb = "approve"
      <4>1. Clean(b)
        BY <1>t, <2>1 DEF BirthsClean, DecidingClean, IsDeciding
      <4>2. Past(row'[b])
        <5>1. row[b].lifecycle # "none" /\ row[b] \in Rows
          BY <1>t, <2>1 DEF GateInvariant, ThreadsSound, ThreadSound, IsDeciding, TypeOK
        <5>2. CASE ~Decidable(row[b])
          <6>1. row'[b] = row[b]
            BY <2>3, <5>2 DEF DecideRow
          <6>2. Past(row[b])
            BY <5>1, <5>2 DEF Past, Decidable
          <6> QED
            BY <6>1, <6>2 DEF Past
        <5>3. CASE Decidable(row[b])
          <6>1. row'[b] = Approved(row[b], th[t].actor, Bypass(t))
            BY <2>1, <2>3, <3>4, <5>3 DEF DecideRow, TypeOK
          <6>2. \A r \in Rows : \A op, yes : Past(Approved(r, op, yes))
            BY NewRowsPast
          <6>3. Past(Approved(row[b], th[t].actor, Bypass(t)))
            BY <5>1, <6>2
          <6> QED
            BY <6>1, <6>3
        <5> QED
          BY <5>2, <5>3
      <4>3. Born(b)
        BY <2>1, <3>1, <3>4, <4>2 DEF Born, GoesOn
      <4> HIDE DEF b
      <4>4. OneBearer' /\ \A i \in Ids \ {b} : NoBearer(i) => NoBearer(i)'
        BY <1>t, <2>1, <3>1, <3>2, <4>1, NewBearer DEF b
      <4> QED
        BY <2>1, <4>1, <4>3, <4>4, BirthKeeps DEF b
    <3> QED
      BY <3>3, <3>4
  <2> QED
    BY <1>3, <2>2, <2>3 DEF Update
<1>4. CASE Verify(t)
  <2>1. th[t].pc = "verify" /\ UNCHANGED <<queue, runs, missed>>
    BY <1>4 DEF Verify, history
  <2>2. Leave(t) \/ Goto(t, "merge_read") \/ AfterMerge(t)
    BY <1>4 DEF Verify, EndsCall
  <2>3. Sheds(t)
    BY <1>t, <2>1, <2>2, LeaveSheds, OnwardSheds, AfterMergeSheds DEF Onward, Approving
  <2> QED
    BY <1>t, <2>1, <2>3, ShedsKeep
<1>5. CASE MergeRead(t) \/ Reload(t)
  <2>1. th[t].id \in Ids /\ UNCHANGED <<queue, runs, missed>>
    BY <1>5, <1>t, BusyType DEF MergeRead, Reload, Pcs, Resting, history
  <2>2. row[th[t].id] \in Rows
    BY <2>1 DEF TypeOK
  <2>3. \/ th[t].pc = "merge_read" /\ Carries(t, "merge_write", row[th[t].id])
        \/ th[t].pc = "reload" /\ Carries(t, "push_approved", row[th[t].id])
        \/ Leave(t)
    BY <1>5 DEF MergeRead, Reload, Carries, EndsCall
  <2>4. Sheds(t)
    BY <1>t, <2>2, <2>3, LeaveSheds, OnwardSheds DEF Onward
  <2> QED
    BY <1>t, <2>1, <2>4, ShedsKeep
<1>6. CASE MergeWrite(t)
  <2>1. th[t].pc \in Approving /\ UNCHANGED <<queue, runs, missed>> /\ (AfterMerge(t) \/ Leave(t))
    BY <1>6 DEF MergeWrite, Approving, EndsCall
  <2>2. Sheds(t)
    BY <1>t, <2>1, LeaveSheds, AfterMergeSheds
  <2> QED
    BY <1>t, <2>1, <2>2, ShedsKeep
<1>7. CASE PushApproved(t)
  <2>1. /\ th[t].pc = "push_approved" /\ th[t].id \in Ids /\ th[t].rec \in Rows /\ UNCHANGED <<runs, missed>>
    BY <1>7, <1>t, BusyType DEF PushApproved, Pcs, Resting
  <2>2. CASE Leave(t) /\ UNCHANGED queue
    BY <1>t, <2>1, <2>2, LeaveSheds, ShedsKeep
  <2>3. CASE Enqueue(t, th[t].id, th[t].rec)
    <3>1. /\ \A u \in Threads \ {t} : th'[u] = th[u]
          /\ th'[t].pc \in {"exit", "recover", "idle", "drain"}
      BY <1>7, <1>t, ReturnType DEF PushApproved, Leave, TypeOK, At
    <3>2. \A i \in Ids : ~Bears(t, th'[t], i)
      BY <3>1, UnburdenedBears DEF Unburdened, Resting
    <3>3. Bears(t, th[t], th[t].id)
      BY <2>1 DEF Bears
    <3>4. Live(Home(t)) \/ queue[Home(t)] = <<>>
      BY <2>1 DEF Live, Home, CliQueues
    <3>5. OneBearer' /\ StaysFree
      BY <1>t, <2>1, <2>3, <3>1, <3>2, <3>3, <3>4, HandedOver
    <3> QED
      BY <2>1, <3>5, FreeKeeps
  <2> QED
    BY <1>7, <2>2, <2>3 DEF PushApproved
<1> QED
  BY <1>1, <1>2, <1>3, <1>4, <1>5, <1>6, <1>7 DEF Decide

\* The executor takes, runs and closes rows it bears; a health recheck is born with its INSERT.
LEMMA ExecuteBears ==
    ASSUME TypeOK, OneBearer, BirthsClean, NEW t \in {Executor} \cup Clis, Execute(t)
    PROVE  OneBearer' /\ Keeps
<1>t. t \in Threads
  BY DEF Threads, Handlers
<1>1. CASE Dequeue(t)
  <2> DEFINE h == Home(t)
             c == Head(queue[h])
  <2>1. /\ h \in Processes /\ queue[h] # <<>> /\ queue' = [queue EXCEPT ![h] = Tail(@)]
        /\ UNCHANGED <<runs, missed>> /\ Live(h) /\ th[t].pc \in Resting
    <3>1. /\ queue[h] # <<>> /\ queue' = [queue EXCEPT ![h] = Tail(@)] /\ UNCHANGED <<runs, missed>>
          /\ (t = Executor /\ th[t].pc = "idle") \/ (t \in Clis /\ th[t].pc = "drain")
      BY <1>1 DEF Dequeue, Draining, history
    <3>2. h \in Processes /\ (t \in Clis => h = t) /\ (t \notin Clis => h = Server)
      BY DEF Home, Processes
    <3>3. Executor \notin Clis
      BY ThreadsAssumption DEF Handlers
    <3> QED
      BY <3>1, <3>2, <3>3 DEF Live, Resting
  <2>2. \A i \in Ids : ~Bears(t, th[t], i)
    BY <2>1, UnburdenedBears DEF Unburdened
  <2>3. /\ \A u \in Threads \ {t} : th'[u] = th[u]
        /\ th'[t].pc \notin {"drain", "finish"}
        /\ \A i \in Ids : Bears(t, th'[t], i) => i = c.id
    <3>1. CASE GateOpen(c.id, c.rec)
      <4>1. /\ \A u \in Threads \ {t} : th'[u] = th[u]
            /\ th'[t].pc = "freeze" /\ th'[t].id = c.id
        BY <1>1, <1>t, <3>1 DEF Dequeue, At, TypeOK
      <4> QED
        BY <4>1, UnburdenedBears
    <3>2. CASE ~GateOpen(c.id, c.rec) /\ c.rec.lifecycle = "pending_approval"
      <4>1. (\A u \in Threads \ {t} : th'[u] = th[u]) /\ th'[t].pc = "refuse"
        BY <1>1, <1>t, <3>2 DEF Dequeue, GatedStop, At, TypeOK
      <4> QED
        BY <4>1, UnburdenedBears DEF Unburdened
    <3>3. CASE ~GateOpen(c.id, c.rec) /\ c.rec.lifecycle # "pending_approval"
      <4>1. Leave(t)
        BY <1>1, <3>3 DEF Dequeue, GatedStop
      <4>2. (\A u \in Threads \ {t} : th'[u] = th[u]) /\ th'[t].pc \in {"exit", "recover", "idle"}
        BY <1>t, <4>1, LeaveFacts
      <4> QED
        BY <4>2, UnburdenedBears DEF Unburdened, Resting
    <3> QED
      BY <3>1, <3>2, <3>3
  <2> HIDE DEF h
  <2>4. OneBearer' /\ StaysFree
    BY <1>t, <2>1, <2>2, <2>3, TakenUp
  <2> QED
    BY <2>1, <2>4, FreeKeeps
<1>2. CASE CheckFreeze(t)
  <2>1. th[t].pc = "freeze" /\ UNCHANGED <<queue, runs, missed>> /\ th[t].id \in Ids /\ th[t].rec \in Rows
    BY <1>2, <1>t, BusyType DEF CheckFreeze, Pcs, Resting, history
  <2>2. PICK q \in Rows : q = FreezeRefusal(th[t].rec)
    BY <2>1, RowTypes
  <2>3. Carries(t, "refuse", q) \/ Goto(t, "maintenance")
    BY <1>2, <2>2 DEF CheckFreeze, RefuseWith, Carries
  <2>4. Sheds(t)
    BY <1>t, <2>1, <2>3, LeaveSheds, OnwardSheds DEF Onward, Unburdened
  <2> QED
    BY <1>t, <2>1, <2>4, ShedsKeep
<1>3. CASE CheckMaintenance(t)
  <2>1. th[t].pc = "maintenance" /\ UNCHANGED <<queue, runs, missed>> /\ th[t].id \in Ids /\ th[t].rec \in Rows
    BY <1>3, <1>t, BusyType DEF CheckMaintenance, Pcs, Resting, history
  <2>2. PICK q \in Rows, s \in Rows : q = MaintenanceRefusal(th[t].rec) /\ s = AdvisoryRefusal(th[t].rec)
    BY <2>1, RowTypes
  <2>3. Carries(t, "refuse", q) \/ Carries(t, "refuse", s) \/ Goto(t, "start")
    BY <1>3, <2>2 DEF CheckMaintenance, AfterHolds, RefuseWith, Carries
  <2>4. Sheds(t)
    BY <1>t, <2>1, <2>3, LeaveSheds, OnwardSheds DEF Onward, Unburdened
  <2> QED
    BY <1>t, <2>1, <2>4, ShedsKeep
<1>4. CASE Refuse(t) \/ Finish(t) \/ SeenFollowUp(t)
  <2>1. UNCHANGED <<queue, runs>> /\ missed \subseteq missed'
    BY <1>4 DEF Refuse, Finish, SeenFollowUp, LookUpFails
  <2>2. Leave(t) \/ Goto(t, "seen") \/ Goto(t, "insert_followup")
    BY <1>4 DEF Refuse, Finish, SeenFollowUp
  <2> QED
    BY <1>t, <2>1, <2>2, LeaveSheds, ShedsKeep DEF Unburdened
<1>5. CASE StartAction(t)
  <2>1. th[t].pc = "start" /\ UNCHANGED <<queue, runs, missed>> /\ th[t].id \in Ids /\ th[t].rec \in Rows
    BY <1>5, <1>t, BusyType DEF StartAction, Pcs, Resting
  <2>2. PICK q \in Rows : q = Running(th[t].rec)
    BY <2>1, RowTypes
  <2>3. Carries(t, "act", q) \/ Leave(t)
    BY <1>5, <2>2 DEF StartAction, Carries, EndsCall
  <2>4. Sheds(t)
    BY <1>t, <2>1, <2>3, LeaveSheds, OnwardSheds DEF Onward, Unburdened
  <2> QED
    BY <1>t, <2>1, <2>4, ShedsKeep
<1>6. CASE Act(t)
  <2>1. /\ th[t].pc = "act" /\ UNCHANGED <<queue, missed>> /\ th[t].id \in Ids
        /\ runs' \in {runs, [runs EXCEPT ![th[t].id] = @ + 1]}
    BY <1>6, <1>t, BusyType DEF Act, Pcs, Resting
  <2>2. \E r : Carries(t, "finish", r)
    BY <1>6 DEF Act, Carries
  <2>3. (\A u \in Threads \ {t} : th'[u] = th[u]) /\ th'[t].pc = "finish" /\ th'[t].id = th[t].id
    BY <1>t, <2>2, MoveFacts
  <2>4. /\ OneBearer' /\ StaysFree
        /\ \A i \in Ids : NoBearer(i) => runs'[i] = runs[i]
    BY <1>t, <2>1, <2>3, RunNow
  <2> QED
    BY <2>1, <2>4, FreeKeeps
<1>7. CASE InsertFollowUp(t)
  <2> DEFINE b == FollowUp(th[t].id)
  <2>1. th[t].pc = "insert_followup" /\ b \in Ids /\ UNCHANGED <<queue, runs, missed>>
    BY <1>7, <1>t, BusyType, IdTypes DEF InsertFollowUp, Pcs, Resting
  <2>2. CASE Leave(t)
    BY <1>t, <2>1, <2>2, LeaveSheds, ShedsKeep
  <2>3. CASE row' = [row EXCEPT ![b] = NewPending] /\ Goto(t, "push_followup")
    <3>1. /\ \A u \in Threads \ {t} : th'[u] = th[u]
          /\ th'[t].pc = "push_followup" /\ th'[t].id = th[t].id /\ th'[t].verb = th[t].verb
      BY <1>t, <2>3, MoveFacts
    <3>2. \A i \in Ids : Bears(t, th'[t], i) <=> i = b /\ t \notin Clis
      BY <3>1 DEF Bears, Executing, Approving
    <3>3. CASE t \in Clis
      BY <1>t, <2>1, <3>1, <3>2, <3>3, ShedsKeep DEF Sheds
    <3>4. CASE t = Executor
      <4>1. Clean(b) /\ row'[b] = NewPending
        BY <2>1, <2>3, <3>4 DEF BirthsClean, InsertClean, TypeOK
      <4>2. Born(b)
        BY <2>1, <3>1, <3>4, <4>1 DEF Born, GoesOn
      <4> HIDE DEF b
      <4>3. OneBearer' /\ \A i \in Ids \ {b} : NoBearer(i) => NoBearer(i)'
        BY <1>t, <2>1, <3>1, <3>2, <4>1, NewBearer
      <4> QED
        BY <2>1, <4>1, <4>2, <4>3, BirthKeeps
    <3> QED
      BY <3>3, <3>4
  <2> QED
    BY <1>7, <2>2, <2>3 DEF InsertFollowUp, Write
<1>8. CASE PushFollowUp(t)
  BY <1>8, <1>t, PushOrDropBears DEF PushFollowUp
<1> QED
  BY <1>1, <1>2, <1>3, <1>4, <1>5, <1>6, <1>7, <1>8 DEF Execute

\* Every step keeps one bearer to a row, and takes freedom from none but the rows it bears.
LEMMA BearersNext ==
    ASSUME TypeOK, GateInvariant, OneBearer, CliQueues, BirthsClean, [Next]_vars
    PROVE  OneBearer' /\ Keeps
<1>t. Threads = {Executor} \cup Evaluators \cup Handlers /\ Clis \subseteq Handlers /\ Executor \in Threads
  BY DEF Threads, Handlers
<1>1. CASE \E t \in Evaluators \cup Handlers : Propose(t)
  BY <1>t, <1>1, ProposeBears
<1>2. CASE \E t \in Evaluators : QueueReset(t)
  BY <1>2, ResetBears
<1>3. CASE \E t \in Handlers : Decide(t)
  BY <1>3, DecideBears
<1>4. CASE \E t \in {Executor} \cup Clis : Execute(t)
  BY <1>4, ExecuteBears
\* Where goroutines only come to rest and queues are only emptied.
<1>f. ASSUME UNCHANGED <<runs, missed>>,
             \A u \in Threads : \/ th'[u].pc = "idle"
                                \/ /\ th'[u].pc = th[u].pc /\ th'[u].id = th[u].id
                                   /\ th'[u].verb = th[u].verb,
             \A p \in Processes : queue'[p] \in {<<>>, queue[p]}
      PROVE  OneBearer' /\ Keeps
  <2>1. \A u \in Threads, i \in Ids : Bears(u, th'[u], i) =>
                Bears(u, th[u], i) /\ (th[u].pc = "finish" => th'[u].pc = "finish")
    <3> SUFFICES ASSUME NEW u \in Threads, NEW i \in Ids, Bears(u, th'[u], i)
                 PROVE  Bears(u, th[u], i) /\ (th[u].pc = "finish" => th'[u].pc = "finish")
      OBVIOUS
    <3>1. th'[u].pc # "idle"
      BY UnburdenedBears DEF Unburdened, Resting
    <3> QED
      BY <1>f, <3>1 DEF Bears
  <2>2. \A p \in Processes : Live(p)' => queue'[p] = <<>> \/ (queue'[p] = queue[p] /\ Live(p))
    BY <1>f DEF Live, Processes, Threads, Handlers
  <2>3. OneBearer' /\ StaysFree
    BY <1>f, <2>1, <2>2, FewerBearers
  <2> QED
    BY <1>f, <2>3, FreeKeeps
<1>5. ASSUME NEW c \in Clis, CliEnds(c) PROVE OneBearer' /\ Keeps
  <2>1. /\ \A u \in Threads : th'[u] = th[u] \/ th'[u].pc = "idle"
        /\ \A p \in Processes : queue'[p] \in {<<>>, queue[p]}
        /\ UNCHANGED <<runs, missed>>
    BY <1>5 DEF CliEnds, At, TypeOK
  <2> QED
    BY <1>f, <2>1
<1>6. CASE Crash
  <2>1. /\ \A u \in Threads : th'[u] = th[u] \/ th'[u].pc = "idle"
        /\ \A p \in Processes : queue'[p] \in {<<>>, queue[p]}
        /\ UNCHANGED <<runs, missed>>
    BY <1>6 DEF Crash, At, TypeOK, history
  <2> QED
    BY <1>f, <2>1
<1>7. CASE Restart \/ StartWorkers
  <2>1. UNCHANGED <<queue, runs, missed>> /\ \E pc \in {"recover", "idle"} : Goto(Executor, pc)
    BY <1>7 DEF Restart, StartWorkers, history
  <2> QED
    BY <1>t, <2>1, LeaveSheds, ShedsKeep DEF Unburdened, Resting
<1>8. ASSUME NEW c \in recovery, RecoverRow(c) PROVE OneBearer' /\ Keeps
  <2>1. UNCHANGED <<queue, runs, missed>>
    BY <1>8 DEF RecoverRow
  <2>2. CASE UNCHANGED th
    BY <1>f, <2>1, <2>2
  <2>3. CASE th' = [th EXCEPT ![Executor] = [At("seen") EXCEPT !.id = c.id]]
    <3>1. (\A u \in Threads \ {Executor} : th'[u] = th[u]) /\ th'[Executor].pc = "seen"
      BY <1>t, <2>3 DEF At, TypeOK
    <3>2. Sheds(Executor)
      BY <3>1, UnburdenedBears DEF Sheds, Unburdened
    <3> QED
      BY <1>t, <2>1, <3>2, ShedsKeep
  <2> QED
    BY <1>8, <2>2, <2>3 DEF RecoverRow
<1>9. CASE Operate \/ UNCHANGED vars
  <2>1. UNCHANGED <<queue, runs, missed>>
    BY <1>9 DEF Operate, ExpireOldFreezes, ExpireStaleApprovals, BeginHold, EndHold, EndHolds, vars, history
  <2>2. \A u \in Threads : /\ th'[u].pc = th[u].pc /\ th'[u].id = th[u].id
                           /\ th'[u].verb = th[u].verb
    BY <1>9
       DEF Operate, ExpireOldFreezes, ExpireStaleApprovals, BeginHold, EndHold, EndHolds, TypeOK,
           Goroutines, vars
  <2> QED
    BY <1>f, <2>1, <2>2
<1> QED
  BY <1>1, <1>2, <1>3, <1>4, <1>5, <1>6, <1>7, <1>8, <1>9 DEF Next, CliExit, CliCrash, Recover

\* What a goroutine that works on a row does to the queues.
Pushes(t) == \E i \in Ids, r \in Rows : Enqueue(t, i, r)

LEMMA WorkersPush ==
    ASSUME TypeOK, NEW t \in Threads,
           \/ Propose(t) \/ (t \notin Clis /\ QueueReset(t)) \/ Decide(t)
           \/ Execute(t) /\ ~Dequeue(t)
    PROVE  /\ th[t].pc \notin {"drain", "exit"}
           /\ \/ UNCHANGED queue
              \/ Pushes(t) /\ (t \in Clis => th'[t].pc \in {"drain", "exit"})
<1>x. t \in Clis /\ Leave(t) => th'[t].pc = "exit"
  <2>1. t \in Clis => Return(t) = "exit"
    BY ThreadsAssumption DEF Return, Handlers
  <2> QED
    BY <2>1 DEF Leave, At, TypeOK
<1>i. /\ th[t].pc \in Pcs \ Resting => th[t].id \in Ids /\ FollowUp(th[t].id) \in Ids
      /\ th[t].rec \in Rows /\ NewPending \in Rows
  BY BusyType, IdTypes, NewRowTypes
<1>o. PushOrDrop(t) /\ th[t].pc \in {"reset_push", "push_followup"} =>
         UNCHANGED queue \/ (Pushes(t) /\ (t \in Clis => th'[t].pc \in {"drain", "exit"}))
  BY <1>i, <1>x DEF PushOrDrop, Pushes, Pcs, Resting
<1>1. CASE Propose(t)
  <2>1. CASE PushNew(t)
    BY <1>i, <1>x, <2>1 DEF PushNew, Pushes, Pcs, Resting
  <2>2. CASE ~PushNew(t)
    BY <1>1, <2>2
       DEF Propose, ProposeDenied, ProposeBlocked, ProposeGated, ProposeAuto, MayPropose, ClosesAtOnce, DropNew
  <2> QED
    BY <2>1, <2>2
<1>2. CASE QueueReset(t)
  BY <1>o, <1>2 DEF QueueReset, ResetBegin, ResetRow, ResetInsert, ResetPush
<1>3. CASE Decide(t)
  <2>1. CASE PushApproved(t)
    <3>1. th[t].pc = "push_approved"
      BY <2>1 DEF PushApproved
    <3>2. CASE Enqueue(t, th[t].id, th[t].rec) /\ th' = [th EXCEPT ![t] = At(IF t \in Clis THEN "drain" ELSE "idle")]
      <4>1. t \in Clis => th'[t].pc = "drain"
        BY <3>2 DEF At, TypeOK
      <4> QED
        BY <1>i, <3>1, <3>2, <4>1 DEF Pushes, Pcs, Resting
    <3> QED
      BY <2>1, <3>1, <3>2 DEF PushApproved
  <2>2. CASE ~PushApproved(t)
    BY <1>3, <2>2 DEF Decide, Load, Recheck, Update, Verify, MergeRead, MergeWrite, Reload
  <2> QED
    BY <2>1, <2>2
<1>4. CASE Execute(t) /\ ~Dequeue(t)
  BY <1>o, <1>4
     DEF Execute, CheckFreeze, CheckMaintenance, Refuse, StartAction, Act, Finish, SeenFollowUp,
         InsertFollowUp, PushFollowUp
<1> QED
  BY <1>1, <1>2, <1>3, <1>4

LEMMA CliQueuesNext == TypeOK /\ CliQueues /\ [Next]_vars => CliQueues'
<1> SUFFICES ASSUME TypeOK, CliQueues, [Next]_vars, NEW c \in Clis
             PROVE  Len(queue'[c]) <= 1 /\ (queue'[c] # <<>> => th'[c].pc \in {"drain", "exit"})
  BY DEF CliQueues
<1>t. /\ Threads = {Executor} \cup Evaluators \cup Handlers /\ Clis \subseteq Handlers /\ c \in Threads
      /\ Evaluators \cap Clis = {} /\ c \in Processes /\ c # Server /\ c # Executor
  BY ThreadsAssumption DEF Threads, Handlers, Processes
<1>q. /\ Len(queue[c]) \in Nat /\ Len(queue[c]) <= 1 /\ (queue[c] = <<>> <=> Len(queue[c]) = 0)
      /\ (queue[c] # <<>> => th[c].pc \in {"drain", "exit"})
  <2>1. queue[c] \in Seq(Copies)
    BY <1>t DEF TypeOK
  <2> QED
    BY <2>1, LenProperties, EmptySeq DEF CliQueues
<1>u. ASSUME queue'[c] = queue[c], th'[c].pc = th[c].pc
      PROVE  Len(queue'[c]) <= 1 /\ (queue'[c] # <<>> => th'[c].pc \in {"drain", "exit"})
  BY <1>q, <1>u
<1>e. ASSUME queue'[c] = <<>>
      PROVE  Len(queue'[c]) <= 1 /\ (queue'[c] # <<>> => th'[c].pc \in {"drain", "exit"})
  BY <1>e, EmptySeq
\* One goroutine works on a row.
<1>1. ASSUME NEW t \in Threads, MovesAlone(t), th[t].pc \notin {"drain", "exit"},
             \/ UNCHANGED queue
             \/ Pushes(t) /\ (t \in Clis => th'[t].pc \in {"drain", "exit"})
      PROVE  Len(queue'[c]) <= 1 /\ (queue'[c] # <<>> => th'[c].pc \in {"drain", "exit"})
  <2>1. CASE t # c
    <3>1. th'[c] = th[c]
      BY <1>1, <1>t, <2>1 DEF MovesAlone
    <3>2. Home(t) # c
      BY <1>t, <2>1 DEF Home
    <3>3. queue'[c] = queue[c]
      BY <1>1, <1>t, <3>2, PushedAt DEF Pushes
    <3> QED
      BY <1>u, <3>1, <3>3
  <2>2. CASE t = c
    <3>1. queue[c] = <<>> /\ Home(t) = c
      BY <1>1, <1>q, <2>2 DEF Home
    <3>2. CASE UNCHANGED queue
      BY <1>e, <3>1, <3>2
    <3>3. CASE ~UNCHANGED queue
      <4>0. PICK i \in Ids, r \in Rows : Enqueue(t, i, r)
        BY <1>1, <3>3 DEF Pushes
      <4>1. Len(queue'[c]) = 1
        <5>1. Len(queue'[Home(t)]) = Len(queue[Home(t)]) + 1
          BY <4>0, PushedAt
        <5> QED
          BY <1>q, <3>1, <5>1
      <4> QED
        BY <1>1, <2>2, <3>3, <4>1
    <3> QED
      BY <3>2, <3>3
  <2> QED
    BY <2>1, <2>2
<1>2. CASE \E t \in Evaluators \cup Handlers : Propose(t)
  BY <1>1, <1>2, <1>t, ProposeArrives, WorkersPush
<1>3. CASE \E t \in Evaluators : QueueReset(t)
  BY <1>1, <1>3, <1>t, ResetArrives, WorkersPush
<1>4. CASE \E t \in Handlers : Decide(t)
  BY <1>1, <1>4, <1>t, DecideArrives, WorkersPush
<1>5. ASSUME NEW t \in {Executor} \cup Clis, Dequeue(t)
      PROVE  Len(queue'[c]) <= 1 /\ (queue'[c] # <<>> => th'[c].pc \in {"drain", "exit"})
  <2>1. /\ queue[Home(t)] # <<>> /\ queue' = [queue EXCEPT ![Home(t)] = Tail(@)]
        /\ Home(t) \in Processes /\ Execute(t)
    BY <1>5 DEF Dequeue, Execute, Home, Processes
  <2>2. CASE t # c
    <3>1. th'[c] = th[c]
      BY <1>t, <2>1, <2>2, ExecuteArrives DEF MovesAlone
    <3>2. Home(t) # c
      BY <1>t, <2>2 DEF Home
    <3> QED
      BY <1>t, <1>u, <2>1, <3>1, <3>2, TakenAt
  <2>3. CASE t = c
    <3>1. Home(t) = c
      BY <2>3 DEF Home
    <3>2. Len(queue'[c]) = 0
      <4>1. Len(queue[c]) \in Nat \ {0} /\ Len(queue'[c]) = Len(queue[c]) - 1
        BY <2>1, <3>1, TakenAt
      <4>2. PICK n, m : n = Len(queue[c]) /\ m = Len(queue'[c])
        OBVIOUS
      <4>3. n \in Nat \ {0} /\ n <= 1 /\ m = n - 1
        BY <1>q, <4>1, <4>2
      <4>4. m = 0
        BY <4>3
      <4> QED
        BY <4>2, <4>4
    <3>3. queue'[c] \in Seq(Copies)
      BY <1>t, TypeNext DEF TypeOK
    <3> QED
      BY <1>e, <3>2, <3>3, EmptySeq
  <2> QED
    BY <2>2, <2>3
<1>6. CASE \E t \in {Executor} \cup Clis : Execute(t) /\ ~Dequeue(t)
  BY <1>1, <1>6, <1>t, ExecuteArrives, WorkersPush
<1>7. ASSUME NEW d \in Clis, CliEnds(d)
      PROVE  Len(queue'[c]) <= 1 /\ (queue'[c] # <<>> => th'[c].pc \in {"drain", "exit"})
  <2>1. queue'[c] = <<>> \/ (queue'[c] = queue[c] /\ th'[c] = th[c])
    BY <1>7, <1>t DEF CliEnds, TypeOK
  <2> QED
    BY <1>e, <1>u, <2>1
<1>8. CASE Crash \/ Restart \/ Recover \/ Operate \/ UNCHANGED vars
  <2>1. queue'[c] = queue[c]
    BY <1>8, <1>t
       DEF Crash, Restart, Recover, RecoverRow, StartWorkers, Operate, ExpireOldFreezes,
           ExpireStaleApprovals, BeginHold, EndHold, EndHolds, vars, TypeOK
  <2>2. th'[c].pc = th[c].pc
    <3>1. CASE Crash \/ Restart \/ Recover
      BY <1>t, <3>1 DEF Crash, Restart, Recover, RecoverRow, StartWorkers, Goto, TypeOK
    <3>2. CASE Operate \/ UNCHANGED vars
      <4>1. \A u \in Threads : th'[u].pc = th[u].pc
        BY <3>2
           DEF Operate, ExpireOldFreezes, ExpireStaleApprovals, BeginHold, EndHold, EndHolds, TypeOK,
               Goroutines, vars
      <4> QED
        BY <1>t, <4>1
    <3> QED
      BY <1>8, <3>1, <3>2
  <2> QED
    BY <1>u, <2>1, <2>2
<1> QED
  BY <1>2, <1>3, <1>4, <1>5, <1>6, <1>7, <1>8 DEF Next, CliExit, CliCrash

(***************************************************************************)
(* What is known of the rows that never ran, and of those that did.         *)
(***************************************************************************)

\* The faults and the runs are only counted up.
LEMMA CountersGrow ==
    ASSUME TypeOK, [Next]_vars
    PROVE  faults' \in Nat /\ faults \in Nat /\ faults' >= faults /\ \A i \in Ids : runs'[i] >= runs[i]
<1>0. faults \in Nat /\ faults' \in Nat /\ \A i \in Ids : runs[i] \in Nat
  BY TypeNext, QueueAssumption DEF TypeOK
<1>f. faults' >= faults
  <2>1. StatementFails => faults' >= faults
    BY <1>0 DEF StatementFails
  <2>2. \A i, r : Write(i, r) \/ WriteOrIgnore(i, r) \/ LookUpFails(i) => faults' >= faults
    BY <1>0, <2>1 DEF Write, WriteOrIgnore, LookUpFails
  <2>3. \A i : PassesHolds(i) => faults' >= faults
    BY <1>0 DEF PassesHolds
  <2>4. \A t : EndsCall(t) => faults' >= faults
    BY <2>1 DEF EndsCall
  <2>u. UNCHANGED faults => faults' >= faults
    BY <1>0
  <2>5. ASSUME NEW t, Propose(t) \/ QueueReset(t) PROVE faults' >= faults
    BY <2>2, <2>3, <2>5, <2>u
       DEF Propose, ProposeDenied, ProposeBlocked, ProposeGated, ProposeAuto, PushNew,
           DropNew, QueueReset, ResetBegin, ResetRow, ResetInsert, ResetPush, PushOrDrop, faultVars
  <2>6. ASSUME NEW t, Decide(t) PROVE faults' >= faults
    BY <2>1, <2>2, <2>4, <2>6, <2>u
       DEF Decide, Load, Recheck, Update, Verify, MergeRead, MergeWrite, Reload, PushApproved, faultVars
  <2>7. ASSUME NEW t, Execute(t) PROVE faults' >= faults
    BY <2>1, <2>2, <2>4, <2>7, <2>u
       DEF Execute, Dequeue, CheckFreeze, CheckMaintenance, Refuse, StartAction, Act, Finish,
           SeenFollowUp, InsertFollowUp, PushFollowUp, PushOrDrop, faultVars
  <2>8. CASE Recover
    BY <2>2, <2>8, <2>u DEF Recover, RecoverRow, StartWorkers, faultVars
  <2>9. ASSUME NEW c, CliExit(c) \/ CliCrash(c) PROVE faults' >= faults
    BY <2>9, <2>u DEF CliExit, CliCrash, CliEnds
  <2>10. CASE Crash \/ Restart \/ Operate \/ UNCHANGED vars
    BY <2>1, <2>10, <2>u
       DEF Crash, Restart, Operate, ExpireOldFreezes, ExpireStaleApprovals, BeginHold, EndHold, EndHolds,
           faultVars, vars
  <2> QED
    BY <2>5, <2>6, <2>7, <2>8, <2>9, <2>10 DEF Next
<1>r. \A i \in Ids : runs'[i] = runs[i] \/ runs'[i] = runs[i] + 1
  <2>1. ASSUME NEW t, Propose(t) \/ QueueReset(t) PROVE runs' = runs
    BY <2>1
       DEF Propose, ProposeDenied, ProposeBlocked, ProposeGated, ProposeAuto, ClosesAtOnce, PushNew,
           DropNew, QueueReset, ResetBegin, ResetRow, ResetInsert, ResetPush, PushOrDrop, history
  <2>2. ASSUME NEW t, Decide(t) PROVE runs' = runs
    BY <2>2
       DEF Decide, Load, Recheck, Update, Verify, MergeRead, MergeWrite, Reload, PushApproved, history
  <2>3. ASSUME NEW t, Execute(t) PROVE runs' = runs \/ runs' = [runs EXCEPT ![th[t].id] = @ + 1]
    BY <2>3
       DEF Execute, Dequeue, CheckFreeze, CheckMaintenance, Refuse, StartAction, Act, Finish,
           SeenFollowUp, InsertFollowUp, PushFollowUp, PushOrDrop, history
  <2>4. ASSUME NEW c, CliExit(c) \/ CliCrash(c) PROVE runs' = runs
    BY <2>4 DEF CliExit, CliCrash, CliEnds
  <2>5. Recover \/ Crash \/ Restart \/ Operate \/ UNCHANGED vars => runs' = runs
    BY DEF Recover, RecoverRow, StartWorkers, Crash, Restart, Operate, ExpireOldFreezes,
           ExpireStaleApprovals, BeginHold, EndHold, EndHolds, history, vars
  <2>6. runs' = runs \/ \E t : Execute(t)
    BY <2>1, <2>2, <2>4, <2>5 DEF Next
  <2> QED
    BY <2>3, <2>6 DEF TypeOK
<1> QED
  BY <1>0, <1>f, <1>r

Whereabouts ==
    \A t \in Threads :
        /\ th[t].pc \in IsDeciding \cup Approving => t \in Handlers /\ IsPrimary(th[t].id)
        /\ th[t].pc \in {"reset_row", "reset_insert"} => t \in Evaluators
        /\ th[t].pc \in {"seen", "insert_followup"} => KindOf(th[t].id) = "restart"

LEMMA WhereaboutsNext == TypeOK /\ Whereabouts /\ [Next]_vars => Whereabouts'
<1> SUFFICES ASSUME TypeOK, Whereabouts, [Next]_vars, NEW t \in Threads
             PROVE  /\ th'[t].pc \in IsDeciding \cup Approving => t \in Handlers /\ IsPrimary(th'[t].id)
                    /\ th'[t].pc \in {"reset_row", "reset_insert"} => t \in Evaluators
                    /\ th'[t].pc \in {"seen", "insert_followup"} => KindOf(th'[t].id) = "restart"
  BY DEF Whereabouts
<1>1. Arrives(t)
  BY AllArrive
<1> QED
  BY <1>1 DEF Whereabouts, Arrives, SameWork, GoesOn, Watched, IsDeciding, Approving

\* Only follow-ups are missed, and once missed they stay so.
MissedFollowUps == \A i \in Ids : i \in missed => ~IsPrimary(i)

\* A row that says it ran, ran, and nobody is about to run it.
RanIsDone == \A i \in Ids : Ran(row[i]) => Done(i)

\* A follow-up that has no row never ran, unless its INSERT failed: then the row it
\* follows no longer asks for one.
FollowUpsClean ==
    \A i \in Ids : LET p == Primary(i[1]) IN ~IsPrimary(i) =>
        \/ Clean(i)
        \/ row[i] # NoRow
        \/ /\ faults >= 1 /\ KindOf(p) = "backoff_increase"
           /\ Done(p) /\ ~Revertible(p, row[p])

OnceInvariant ==
    /\ OneBearer /\ CliQueues /\ Whereabouts
    /\ BirthsClean /\ FollowUpsClean /\ RanIsDone /\ CopiesKnow /\ MissedFollowUps

\* The closing write frees the row.
LEMMA FinishFrees ==
    ASSUME TypeOK, OneBearer, NEW t \in Threads, Finish(t), NEW b, th[t].id = b
    PROVE  UNCHANGED <<runs, missed>> /\ (b \in missed \/ NoBearer(b)')
<1>1. /\ th[t].pc = "finish" /\ b \in Ids /\ UNCHANGED <<queue, runs, missed>>
      /\ Leave(t) \/ Goto(t, "seen")
  BY BusyType DEF Finish, Pcs, Resting
<1>2. Sheds(t)
  BY <1>1, LeaveSheds DEF Unburdened
<1>3. Bears(t, th[t], b)
  BY <1>1 DEF Bears, Executing
<1>m. CASE b \in missed
  BY <1>1, <1>m
<1> SUFFICES ASSUME b \notin missed PROVE NoBearer(b)'
  BY <1>1, <1>m
<1>4. ~Waits(b) /\ \A u \in Threads : Bears(u, th[u], b) => u = t
  BY <1>1, <1>3 DEF OneBearer, BornOnce
<1>5. \A p \in Processes : Live(p)' => Live(p)
  BY <1>2 DEF Sheds, Live, Processes, Threads, Handlers
<1>6. ~Waits(b)'
  BY <1>1, <1>4, <1>5 DEF Waits
<1>7. \A u \in Threads : ~Bears(u, th'[u], b)
  BY <1>1, <1>2, <1>4 DEF Sheds
<1> QED
  BY <1>1, <1>6, <1>7 DEF NoBearer

\* Only actions themselves want a follow-up, and a follow-up names the one it follows.
LEMMA FollowUpIds ==
    /\ \A i \in Ids : KindOf(i) \in {"restart", "backoff_increase"} => IsPrimary(i) /\ i = Primary(i[1])
    /\ \A i \in Ids : ~IsPrimary(FollowUp(i)) /\ FollowUp(i)[1] = i[1] /\ ~IsGated(FollowUp(i))
    /\ \A i, j \in Ids : FollowUp(i) = FollowUp(j) /\ IsPrimary(i) /\ IsPrimary(j) => i = j
<1>1. \A i \in Ids : KindOf(i) \in {"restart", "backoff_increase"} => IsPrimary(i) /\ i = Primary(i[1])
  BY IdTypes DEF KindOf
<1>2. \A i \in Ids : ~IsPrimary(FollowUp(i)) /\ FollowUp(i)[1] = i[1] /\ ~IsGated(FollowUp(i))
  BY IdTypes DEF FollowUp, IsGated
<1> QED
  BY <1>1, <1>2, IdTypes

\* A row that ran, and that nobody is about to run again, does not come to want a reset.
LEMMA StaysReverted ==
    ASSUME NEW i \in Ids, NoBearer(i), Fate(i), ~Revertible(i, row[i])
    PROVE  ~Revertible(i, row'[i])
<1>1. CASE row'[i] = row[i]
  BY <1>1
<1>2. CASE row'[i] = NewPendingApproval
  BY <1>2, NewRowsPast DEF Revertible, Ran
<1>3. CASE Ran(row'[i]) => \E t \in Threads : ClosesRun(t, i) \/ RevertsRun(t, i)
  <2>1. \A t \in Threads : ~ClosesRun(t, i)
    BY DEF NoBearer, Bears, Executing, ClosesRun, Finish
  <2>2. \A t \in Threads : RevertsRun(t, i) => row'[i].closure # ""
    BY DEF RevertsRun
  <2> QED
    BY <1>3, <2>1, <2>2 DEF Revertible, Ran
<1> QED
  BY <1>1, <1>2, <1>3 DEF Fate

\* Births of follow-ups: of a restart by the executor, of a backoff increase by an evaluator.
LEMMA FollowUpBorn ==
    ASSUME TypeOK, BirthsClean, Whereabouts, NEW i \in Ids, IsPrimary(i), Born(FollowUp(i))
    PROVE  \/ /\ KindOf(i) = "restart" /\ GoesOn(Executor, "insert_followup", "push_followup")
              /\ row'[FollowUp(i)] = NewPending
           \/ /\ KindOf(i) = "backoff_increase"
              /\ \E t \in Evaluators : GoesOn(t, "reset_insert", "reset_push") /\ th[t].id = i
              /\ row'[FollowUp(i)] = NewPending \/ faults' > faults
<1>1. ~IsPrimary(FollowUp(i)) /\ ~IsGated(FollowUp(i)) /\ Executor \in Threads
  BY FollowUpIds DEF Threads
<1>2. \A h \in Handlers : th[h].pc = "update" => th[h].id # FollowUp(i)
  BY <1>1 DEF BirthsClean, DecidingClean, IsDeciding, Threads
<1>3. CASE /\ GoesOn(Executor, "insert_followup", "push_followup")
           /\ FollowUp(th[Executor].id) = FollowUp(i) /\ row'[FollowUp(i)] = NewPending
  <2>1. th[Executor].pc = "insert_followup"
    BY <1>3 DEF GoesOn
  <2>2. th[Executor].id \in Ids /\ KindOf(th[Executor].id) = "restart"
    BY <1>1, <2>1, BusyType DEF Whereabouts, Pcs, Resting
  <2>3. th[Executor].id = i
    BY <1>3, <2>2, FollowUpIds
  <2> QED
    BY <1>3, <2>2, <2>3
<1>4. ASSUME NEW t \in Evaluators, GoesOn(t, "reset_insert", "reset_push"),
             FollowUp(th[t].id) = FollowUp(i), row'[FollowUp(i)] = NewPending \/ faults' > faults
      PROVE  /\ KindOf(i) = "backoff_increase"
             /\ GoesOn(t, "reset_insert", "reset_push") /\ th[t].id = i
             /\ row'[FollowUp(i)] = NewPending \/ faults' > faults
  <2>1. th[t].pc = "reset_insert" /\ t \in Threads
    BY <1>4 DEF GoesOn, Threads
  <2>2. th[t].id \in Ids /\ KindOf(th[t].id) = "backoff_increase"
    BY <2>1, BusyType DEF BirthsClean, Resetting, Pcs, Resting
  <2>3. th[t].id = i
    BY <1>4, <2>2, FollowUpIds
  <2> QED
    BY <1>4, <2>2, <2>3
<1> QED
  BY <1>1, <1>2, <1>3, <1>4 DEF Born, GoesOn

\* Actions are born by proposals and approvals.
LEMMA PrimaryBorn ==
    ASSUME TypeOK, NEW i \in Ids, IsPrimary(i), Born(i), BirthsClean
    PROVE  /\ Past(row'[i])
           /\ IsGated(i) => \E h \in Handlers : /\ GoesOn(h, "update", "verify")
                                                /\ th[h].verb = "approve" /\ th[h].id = i
<1>1. CASE ~IsGated(i) /\ row'[i] = NewPending
  BY <1>1, NewRowsPast
<1>2. ASSUME NEW t \in Threads, th[t].pc \in {"insert_followup", "reset_insert"}
      PROVE  FollowUp(th[t].id) # i
  <2>1. th[t].id \in Ids
    BY <1>2, BusyType DEF Pcs, Resting
  <2> QED
    BY <2>1, FollowUpIds
<1> QED
  BY <1>1, <1>2 DEF Born, GoesOn, Threads

LEMMA FreshCleanNext ==
    ASSUME TypeOK, BirthsClean, Keeps, \A i \in Ids : Fate(i)
    PROVE  FreshClean'
<1> SUFFICES ASSUME NEW i \in Ids, IsPrimary(i), ~Past(row'[i])
             PROVE  Clean(i)'
  BY DEF FreshClean
<1>1. ~Past(row[i])
  BY NewRowsPast DEF Fate
<1>2. Clean(i)
  BY <1>1 DEF BirthsClean, FreshClean
<1> QED
  BY <1>2, PrimaryBorn DEF Keeps

LEMMA RanIsDoneNext ==
    ASSUME TypeOK, OneBearer, BirthsClean, RanIsDone, CopiesKnow, Keeps, \A i \in Ids : Fate(i)
    PROVE  RanIsDone'
<1> SUFFICES ASSUME NEW i \in Ids, Ran(row'[i])
             PROVE  Done(i)'
  BY DEF RanIsDone
<1>1. CASE row'[i] = row[i]
  BY <1>1 DEF RanIsDone, Keeps
<1>2. ASSUME NEW t \in Threads, ClosesRun(t, i) PROVE Done(i)'
  <2>1. Finish(t) /\ th[t].id = i /\ th[t].pc = "finish" /\ Ran(th[t].rec)
    BY <1>2 DEF ClosesRun, Finish
  <2>2. runs[i] = 1 \/ i \in missed
    BY <2>1 DEF CopiesKnow
  <2>3. UNCHANGED <<runs, missed>> /\ (i \in missed \/ NoBearer(i)')
    BY <2>1, FinishFrees
  <2> QED
    BY <2>2, <2>3 DEF Done
<1>3. ASSUME NEW t \in Threads, RevertsRun(t, i) PROVE Done(i)'
  BY <1>3 DEF RevertsRun, BirthsClean, Resetting, Keeps
<1>4. row'[i] # NewPendingApproval
  BY NewRowsPast
<1> QED
  BY <1>1, <1>2, <1>3, <1>4 DEF Fate

LEMMA FollowUpsCleanNext ==
    ASSUME TypeOK, AtMostOneFault, [Next]_vars, BirthsClean, Whereabouts, FollowUpsClean, Keeps,
           MissedFollowUps, \A i \in Ids : Fate(i)
    PROVE  FollowUpsClean'
<1> SUFFICES ASSUME NEW i \in Ids, ~IsPrimary(i), NEW p, p = Primary(i[1])
             PROVE  \/ Clean(i)'
                    \/ row'[i] # NoRow
                    \/ /\ faults' >= 1 /\ KindOf(p) = "backoff_increase"
                       /\ Done(p)' /\ ~Revertible(p, row'[p])
  BY DEF FollowUpsClean
<1>p. p \in Ids /\ IsPrimary(p) /\ i = FollowUp(p)
  <2>1. i[1] \in Actions /\ i \in Actions \X {"primary", "followup"} /\ i[2] # "primary"
    BY IdTypes DEF IsPrimary, Ids
  <2>2. i = <<i[1], "followup">>
    BY <2>1
  <2> QED
    BY <2>1, <2>2, IdTypes DEF FollowUp
<1>n. faults \in Nat /\ faults' \in Nat /\ faults' >= faults /\ faults' <= 1
  <2>1. faults' \in 0..MaxFaults /\ MaxFaults \in Nat
    BY TypeNext, QueueAssumption DEF TypeOK
  <2> QED
    BY <2>1, CountersGrow DEF AtMostOneFault
<1>r. ASSUME KindOf(p) = "backoff_increase", Done(p), ~Revertible(p, row[p])
      PROVE  Done(p)' /\ ~Revertible(p, row'[p])
  BY <1>p, <1>r, StaysReverted DEF MissedFollowUps, Done, Keeps
<1>1. CASE Clean(i)
  <2>1. CASE Clean(i)'
    BY <2>1
  <2>2. CASE Born(i) /\ row'[i] = NewPending
    BY <2>2, NewRowsPast
  <2>3. CASE Born(i) /\ row'[i] # NewPending
    <3>1. /\ KindOf(p) = "backoff_increase" /\ faults' > faults
          /\ \E t \in Evaluators : th[t].pc = "reset_insert" /\ th[t].id = p
      BY <1>p, <2>3, FollowUpBorn DEF GoesOn
    <3>2. faults = 0 /\ faults' >= 1
      BY <1>n, <3>1
    <3>3. Done(p) /\ ~Revertible(p, row[p])
      BY <3>1, <3>2 DEF BirthsClean, Resetting, Threads
    <3> QED
      BY <1>r, <3>1, <3>2, <3>3
  <2> QED
    BY <1>1, <2>1, <2>2, <2>3 DEF Keeps
<1>2. CASE row[i] # NoRow
  <2>1. i \in Ids /\ Fate(i)
    OBVIOUS
  <2>2. row'[i] = NoRow => row[i] = NoRow
    BY <2>1, NewRowsPast DEF Fate
  <2> QED
    BY <1>2, <2>2
<1>3. CASE /\ faults >= 1 /\ KindOf(p) = "backoff_increase"
           /\ Done(p) /\ ~Revertible(p, row[p])
  BY <1>3, <1>n, <1>r
<1> QED
  BY <1>1, <1>2, <1>3 DEF FollowUpsClean

LEMMA InsertCleanNext ==
    ASSUME TypeOK, [Next]_vars, BirthsClean, Whereabouts, FollowUpsClean, Keeps
    PROVE  InsertClean'
<1> SUFFICES ASSUME th'[Executor].pc = "insert_followup", NEW i, i = th'[Executor].id
             PROVE  Clean(FollowUp(i))'
  BY DEF InsertClean
<1>1. Executor \in Threads /\ Arrives(Executor) /\ KindOf(i) = "restart"
  BY AllArrive, WhereaboutsNext DEF Threads, Whereabouts
<1>2. i \in Ids
  BY <1>1, TypeNext, BusyType DEF TypeOK, Goroutines, Resting
<1>3. IsPrimary(i) /\ i = Primary(i[1]) /\ FollowUp(i) \in Ids
  BY <1>1, <1>2, FollowUpIds, IdTypes
<1>m. CASE FollowUp(i) \in missed'
  BY <1>m DEF Clean
<1> SUFFICES ASSUME FollowUp(i) \notin missed' PROVE Clean(FollowUp(i))'
  BY <1>m
<1>4. Clean(FollowUp(i))
  <2>1. CASE SameWork(Executor)
    BY <2>1 DEF SameWork, BirthsClean, InsertClean
  <2>2. CASE ~SameWork(Executor)
    <3>1. row[FollowUp(i)] = NoRow
      BY <1>1, <2>2 DEF Arrives, GoesOn, Watched, Absent
    <3> QED
      BY <1>1, <1>2, <1>3, <3>1, FollowUpIds DEF FollowUpsClean
  <2> QED
    BY <2>1, <2>2
<1>5. ~Born(FollowUp(i))
  BY <1>1, <1>2, <1>3, FollowUpBorn DEF GoesOn
<1> QED
  BY <1>3, <1>4, <1>5 DEF Keeps

\* With one evaluator, nobody else gives a row its reset while that evaluator works on it.
LEMMA ResettingNext ==
    ASSUME TypeOK, OneEvaluator, [Next]_vars, BirthsClean, Whereabouts, FollowUpsClean, RanIsDone, Keeps,
           MissedFollowUps, \A i \in Ids : Fate(i)
    PROVE  Resetting'
<1> SUFFICES ASSUME NEW t \in Threads, th'[t].pc \in {"reset_row", "reset_insert"}, NEW i, i = th'[t].id
             PROVE  /\ KindOf(i) = "backoff_increase"
                    /\ Done(i)' /\ Clean(FollowUp(i))'
                    /\ th'[t].pc = "reset_insert" /\ faults' = 0 => ~Revertible(i, row'[i])
  BY DEF Resetting
<1>1. Arrives(t) /\ t \in Evaluators
  BY AllArrive, WhereaboutsNext DEF Whereabouts
<1>2. i \in Ids
  BY TypeNext, BusyType DEF TypeOK, Goroutines, Resting
<1>3. \/ SameWork(t) /\ th[t].pc \in {"reset_row", "reset_insert"} /\ th[t].id = i
      \/ th'[t].pc = "reset_row" /\ Revertible(i, row[i]) /\ Absent(FollowUp(i))
      \/ /\ GoesOn(t, "reset_row", "reset_insert") /\ th[t].id = i
         /\ faults' > faults \/ row'[i] = Reverted(th[t].rec)
  BY <1>1 DEF Arrives, SameWork, GoesOn, Watched
<1>4. KindOf(i) = "backoff_increase" /\ Done(i) /\ (Clean(FollowUp(i)) \/ FollowUp(i) \in missed')
  <2>1. CASE th[t].pc \in {"reset_row", "reset_insert"} /\ th[t].id = i
    BY <2>1 DEF BirthsClean, Resetting
  <2>2. CASE Revertible(i, row[i]) /\ Absent(FollowUp(i))
    <3>1. KindOf(i) = "backoff_increase" /\ Done(i)
      BY <1>2, <2>2 DEF Revertible, RanIsDone, Ran
    <3>2. i = Primary(i[1]) /\ FollowUp(i) \in Ids /\ ~IsPrimary(FollowUp(i)) /\ FollowUp(i)[1] = i[1]
      BY <1>2, <3>1, FollowUpIds, IdTypes
    <3> QED
      BY <2>2, <3>1, <3>2 DEF FollowUpsClean, Absent
  <2> QED
    BY <1>3, <2>1, <2>2 DEF GoesOn
<1>5. IsPrimary(i) /\ FollowUp(i) \in Ids
  BY <1>2, <1>4, FollowUpIds, IdTypes
<1>6. ~Born(FollowUp(i))
  <2>1. ASSUME NEW e \in Evaluators, GoesOn(e, "reset_insert", "reset_push") PROVE FALSE
    BY <1>1, <2>1 DEF OneEvaluator, GoesOn
  <2> QED
    BY <1>2, <1>4, <1>5, <2>1, FollowUpBorn
<1>7. ASSUME th'[t].pc = "reset_insert", faults' = 0 PROVE ~Revertible(i, row'[i])
  <2>n. faults = 0 /\ ~(faults' > faults)
    BY <1>7, CountersGrow
  <2>1. CASE SameWork(t) /\ th[t].id = i
    <3>1. ~Revertible(i, row[i])
      BY <1>7, <2>n, <2>1 DEF SameWork, BirthsClean, Resetting
    <3> QED
      BY <1>2, <1>4, <1>5, <3>1, StaysReverted DEF MissedFollowUps, Done
  <2>2. CASE row'[i] = Reverted(th[t].rec)
    <3>1. Reverted(th[t].rec).closure # ""
      <4>1. th[t].rec \in Rows
        BY BusyType
      <4>2. Reverted(th[t].rec).closure = "expired_and_reverted"
        BY <4>1, NewRowsPast
      <4> QED
        BY <4>2
    <3> QED
      BY <2>2, <3>1 DEF Revertible
  <2> QED
    BY <1>3, <1>7, <2>n, <2>1, <2>2
<1>8. FollowUp(i) \in missed' => Clean(FollowUp(i))'
  BY DEF Clean
<1> QED
  BY <1>2, <1>4, <1>5, <1>6, <1>7, <1>8 DEF Keeps

\* With one approver, nobody else decides what that one is deciding.
LEMMA DecidingCleanNext ==
    ASSUME TypeOK, GateInvariant, OneApprover, [Next]_vars, BirthsClean, Whereabouts, Keeps
    PROVE  DecidingClean'
<1> SUFFICES ASSUME NEW t \in Threads,
                    \/ th'[t].pc \in IsDeciding
                    \/ th'[t].pc \in Approving /\ th'[t].verb = "reject",
                    NEW i, i = th'[t].id
             PROVE  IsGated(i) /\ Clean(i)'
  BY DEF DecidingClean
<1>1. Arrives(t) /\ t \in Handlers
  BY AllArrive, WhereaboutsNext DEF Whereabouts
<1>2. i \in Ids
  BY TypeNext, BusyType DEF TypeOK, Goroutines, Resting, IsDeciding, Approving
<1>3. \/ /\ th[t].id = i
         /\ th[t].pc \in IsDeciding \/ (th[t].pc \in Approving /\ th[t].verb = "reject")
      \/ Decidable(row[i])
  BY <1>1 DEF Arrives, SameWork, GoesOn, Watched, IsDeciding, Approving
<1>4. IsGated(i) /\ Clean(i)
  <2>1. CASE Decidable(row[i])
    <3>1. IsGated(i) /\ ~Past(row[i])
      BY <1>2, <2>1, NewRowsPast
         DEF GateInvariant, RowsSound, RowSound, Sound, Decidable, Past, NoRow
    <3>2. IsPrimary(i)
      BY <3>1 DEF IsGated
    <3> QED
      BY <1>2, <3>1, <3>2 DEF BirthsClean, FreshClean
  <2> QED
    BY <1>3, <2>1 DEF BirthsClean, DecidingClean
<1>5. ~Born(i)
  <2>1. ASSUME NEW h \in Handlers, GoesOn(h, "update", "verify"), th[h].verb = "approve" PROVE FALSE
    BY <1>1, <2>1 DEF OneApprover, GoesOn, IsDeciding
  <2>2. IsPrimary(i)
    BY <1>4 DEF IsGated
  <2> QED
    BY <1>2, <1>4, <2>1, <2>2, PrimaryBorn
<1> QED
  BY <1>2, <1>4, <1>5 DEF Keeps

\* Nobody holds the copy of a row that ran but the one who ran it, and the resets.
LEMMA CopiesKnowNext ==
    ASSUME TypeOK, [Next]_vars, OneBearer, OneBearer', BirthsClean, Whereabouts, RanIsDone, CopiesKnow, MissedFollowUps, missed \subseteq missed'
    PROVE  CopiesKnow'
<1> SUFFICES ASSUME NEW t \in Threads
             PROVE  /\ th'[t].pc \in {"merge_write", "refuse"} => ~Ran(th'[t].rec)
                    /\ th'[t].pc = "finish" /\ Ran(th'[t].rec) =>
                          runs'[th'[t].id] = 1 \/ th'[t].id \in missed'
  BY DEF CopiesKnow
<1>1. Arrives(t)
  BY AllArrive
<1>2. ASSUME th'[t].pc = "merge_write" PROVE ~Ran(th'[t].rec)
  <2>1. CASE SameWork(t)
    BY <1>2, <2>1 DEF SameWork, CopiesKnow
  <2>2. CASE ~SameWork(t)
    <3> DEFINE i == th[t].id
    <3>1. GoesOn(t, "merge_read", "merge_write") /\ th'[t].rec = row[i]
      BY <1>1, <1>2, <2>2 DEF Arrives, GoesOn, Watched, Approving
    <3>2. th[t].pc = "merge_read" /\ i \in Ids /\ th[t].verb \in {"approve", "reject"}
      BY <3>1, BusyType DEF GoesOn, Pcs, Resting, TypeOK, Goroutines, Verbs
    <3>5. i \notin missed
      BY <3>2 DEF Whereabouts, Approving, MissedFollowUps
    <3>3. CASE th[t].verb = "approve"
      <4>1. Bears(t, th[t], i)
        BY <3>2, <3>3 DEF Bears, Approving
      <4> QED
        BY <3>1, <3>2, <3>5, <4>1 DEF RanIsDone, Done, NoBearer
    <3>4. CASE th[t].verb = "reject"
      <4>1. Clean(i)
        BY <3>2, <3>4 DEF BirthsClean, DecidingClean, Approving
      <4> QED
        BY <3>1, <3>2, <3>5, <4>1 DEF RanIsDone, Done, Clean
    <3> QED
      BY <3>2, <3>3, <3>4
  <2> QED
    BY <2>1, <2>2
<1>3. ASSUME th'[t].pc = "refuse" PROVE ~Ran(th'[t].rec)
  BY <1>1, <1>3 DEF Arrives, SameWork, GoesOn, Watched, CopiesKnow
<1>4. ASSUME th'[t].pc = "finish", Ran(th'[t].rec), NEW i, i = th'[t].id, i \notin missed'
      PROVE  runs'[i] = 1
  <2>1. i \in Ids
    BY <1>4, TypeNext, BusyType DEF TypeOK, Goroutines, Resting
  <2>2. CASE SameWork(t)
    <3>1. runs[i] = 1
      BY <1>4, <2>2 DEF SameWork, CopiesKnow
    <3>2. runs'[i] >= runs[i] /\ runs'[i] \in {0, 1}
      BY <1>4, <2>1, CountersGrow DEF OneBearer, RunOnce
    <3> QED
      BY <3>1, <3>2
  <2>3. CASE ~SameWork(t)
    <3>1. /\ th[t].pc = "act" /\ th[t].id = i
          /\ runs' = [runs EXCEPT ![i] = @ + 1]
      BY <1>1, <1>4, <2>3 DEF Arrives, GoesOn, Watched
    <3>2. Bears(t, th[t], i)
      BY <3>1 DEF Bears, Executing
    <3>3. runs[i] = 0
      BY <1>4, <2>1, <3>1, <3>2 DEF OneBearer, RunOnce
    <3> QED
      BY <2>1, <3>1, <3>3 DEF TypeOK
  <2> QED
    BY <2>2, <2>3
<1> QED
  BY <1>2, <1>3, <1>4

\* What a failed look-up missed is a follow-up, and stays missed.
LEMMA MissedGrows ==
    ASSUME TypeOK, [Next]_vars
    PROVE  /\ missed \subseteq missed' /\ \A i \in missed' \ missed : ~IsPrimary(i)
           /\ missed' = missed \/ StatementFails
<1>1. \A i \in Ids : LookUpFails(FollowUp(i)) =>
          missed \subseteq missed' /\ (\A j \in missed' \ missed : ~IsPrimary(j)) /\ StatementFails
  BY FollowUpIds DEF LookUpFails
<1>2. ASSUME NEW t, Propose(t) \/ Decide(t) PROVE missed' = missed
  BY <1>2
     DEF Propose, ProposeDenied, ProposeBlocked, ProposeGated, ProposeAuto, ClosesAtOnce, PushNew,
         DropNew, Decide, Load, Recheck, Update, Verify, MergeRead, MergeWrite, Reload, PushApproved, history
<1>3. ASSUME NEW t, QueueReset(t)
      PROVE  missed' = missed \/ \E i \in Ids : LookUpFails(FollowUp(i))
  BY <1>3, IdTypes
     DEF QueueReset, ResetBegin, ResetRow, ResetInsert, ResetPush, PushOrDrop
<1>4. ASSUME NEW t \in Threads, Execute(t)
      PROVE  missed' = missed \/ \E i \in Ids : LookUpFails(FollowUp(i))
  <2>1. th[t].pc = "seen" => th[t].id \in Ids
    BY BusyType DEF Pcs, Resting
  <2> QED
    BY <1>4, <2>1
       DEF Execute, Dequeue, CheckFreeze, CheckMaintenance, Refuse, StartAction, Act, Finish,
           SeenFollowUp, InsertFollowUp, PushFollowUp, PushOrDrop, history
<1>5. ASSUME NEW c, CliExit(c) \/ CliCrash(c) PROVE missed' = missed
  BY <1>5 DEF CliExit, CliCrash, CliEnds
<1>6. Recover \/ Crash \/ Restart \/ Operate \/ UNCHANGED vars => missed' = missed
  BY DEF Recover, RecoverRow, StartWorkers, Crash, Restart, Operate, ExpireOldFreezes,
         ExpireStaleApprovals, BeginHold, EndHold, EndHolds, history, vars
<1>7. missed' = missed \/ \E i \in Ids : LookUpFails(FollowUp(i))
  BY <1>2, <1>3, <1>4, <1>5, <1>6 DEF Next, Threads, Handlers
<1> QED
  BY <1>1, <1>7

LEMMA OnceInit == Init => OnceInvariant
<1> SUFFICES ASSUME Init PROVE OnceInvariant
  OBVIOUS
<1>1. /\ \A p \in Processes : queue[p] = <<>>
      /\ \A t \in Threads : th[t].pc = "idle"
      /\ \A i \in Ids : row[i] = NoRow /\ runs[i] = 0
      /\ missed = {}
      /\ Clis \subseteq Processes /\ Executor \in Threads
  BY DEF Init, At, Processes, Threads
<1>2. \A i \in Ids : Clean(i) /\ ~Waits(i)
  <2>1. \A i \in Ids : ~Waits(i)
    BY <1>1, EmptySeq DEF Waits
  <2>2. \A i \in Ids : \A t \in Threads : ~Bears(t, th[t], i)
    BY <1>1, UnburdenedBears DEF Unburdened, Resting
  <2> QED
    BY <1>1, <2>1, <2>2 DEF Clean, NoBearer
<1>3. OneBearer
  BY <1>1, <1>2, EmptySeq DEF OneBearer, QueuedOnce, BornOnce, RunOnce, Clean, NoBearer
<1>m. MissedFollowUps
  BY <1>1 DEF MissedFollowUps
<1>4. CliQueues /\ Whereabouts /\ CopiesKnow
  BY <1>1, EmptySeq DEF CliQueues, Whereabouts, CopiesKnow, IsDeciding, Approving
<1>5. BirthsClean
  BY <1>1, <1>2 DEF BirthsClean, FreshClean, DecidingClean, InsertClean, Resetting, IsDeciding, Approving
<1>6. FollowUpsClean /\ RanIsDone
  BY <1>1, <1>2, NewRowsPast DEF FollowUpsClean, RanIsDone
<1> QED
  BY <1>3, <1>m, <1>4, <1>5, <1>6 DEF OnceInvariant

LEMMA OnceNext ==
    ASSUME OneApprover, OneEvaluator, AtMostOneFault,
           TypeOK, GateInvariant, HonestInvariant, OnceInvariant, [Next]_vars
    PROVE  OnceInvariant'
<1>1. /\ OneBearer /\ CliQueues /\ Whereabouts /\ BirthsClean /\ FollowUpsClean /\ RanIsDone /\ CopiesKnow
      /\ MissedFollowUps
  BY DEF OnceInvariant
<1>m. missed \subseteq missed' /\ MissedFollowUps'
  BY <1>1, MissedGrows DEF MissedFollowUps
<1>2. OneBearer' /\ Keeps
  BY <1>1, BearersNext
<1>3. CliQueues' /\ Whereabouts'
  BY <1>1, CliQueuesNext, WhereaboutsNext
<1>4. \A i \in Ids : Fate(i)
  BY <1>1, RowFates
<1>5. BirthsClean'
  <2>1. FreshClean'
    BY <1>1, <1>2, <1>4, FreshCleanNext
  <2>2. DecidingClean'
    BY <1>1, <1>2, DecidingCleanNext
  <2>3. InsertClean'
    BY <1>1, <1>2, InsertCleanNext
  <2>4. Resetting'
    BY <1>1, <1>2, <1>4, ResettingNext
  <2> QED
    BY <2>1, <2>2, <2>3, <2>4 DEF BirthsClean
<1>6. FollowUpsClean' /\ RanIsDone' /\ CopiesKnow'
  BY <1>1, <1>m, <1>2, <1>4, FollowUpsCleanNext, RanIsDoneNext, CopiesKnowNext
<1> QED
  BY <1>m, <1>2, <1>3, <1>5, <1>6 DEF OnceInvariant

\* With one approver, one evaluator and at most one failed statement, no row's actuator
\* is called twice: not after a crash and a recovery, not by a CLI process that drains its
\* own queue beside the server, not for a follow-up that recovery, a restart and the
\* evidence-based reset may all derive.  The one row that may run again is a follow-up that
\* existed when the one failed statement was the look-up that asked for it: the code takes
\* a failed look-up for a row that is absent.  No action's own row is ever of that kind.
THEOREM RunsAtMostOnce ==
    ASSUME OneApprover, OneEvaluator, AtMostOneFault
    PROVE  Spec => []AtMostOnce
<1>1. Init => OnceInvariant
  BY OnceInit
<1>2. TypeOK /\ GateInvariant /\ HonestInvariant /\ OnceInvariant /\ [Next]_vars => OnceInvariant'
  BY OnceNext
<1>3. OnceInvariant => AtMostOnce
  BY DEF OnceInvariant, OneBearer, RunOnce, AtMostOnce
<1> QED
  BY <1>1, <1>2, <1>3, TypeCorrect, GateHolds, HonestHolds, PTL DEF Spec

(***************************************************************************)
(* ControlPlane implements ControlLifecycle: with one approver and one      *)
(* evaluator in the server, no CLI process and no failed statement, over    *)
(* any crashes, restarts, holds and full queues.  A CLI process may run a   *)
(* row that the server's start-up recovery has closed; a failed INSERT of a *)
(* reset is pushed all the same, and runs without a row.                    *)
(***************************************************************************)

ServerAlone == Clis = {} /\ MaxFaults = 0

Stage(i) == row[i].lifecycle

\* What the promise lets one step do to the stage of row b.
Advances(b) ==
    \/ row'[b].lifecycle = Stage(b)
    \/ Stage(b) = "none" /\ IF IsGated(b) THEN row'[b].lifecycle \in {"pending_approval", "completed"}
                                          ELSE row'[b].lifecycle \in {"pending", "completed"}
    \/ IsGated(b) /\ Stage(b) = "pending_approval" /\ row'[b].lifecycle \in {"pending", "completed"}
    \/ Stage(b) = "pending" /\ row'[b].lifecycle = "running"
    \/ Stage(b) \in InFlight /\ row'[b].lifecycle \in {"completed", "recovered"}

\* Only the stage of row b changes.
Only(b) == \A i \in Ids \ {b} : row'[i].lifecycle = Stage(i)

LEMMA AdvanceMaps ==
    ASSUME TypeOK, TypeOK', NEW b \in Ids, Only(b), Advances(b), UNCHANGED runs
    PROVE  [Lifecycle!Next]_(Lifecycle!vars)
<1> DEFINE now == [i \in Ids |-> row[i].lifecycle]
           next == [i \in Ids |-> row'[i].lifecycle]
<1>1. now[b] = Stage(b) /\ next = [now EXCEPT ![b] = row'[b].lifecycle]
  BY DEF Only, Stage
<1>2. IsGated(b) <=> b \in {i \in Ids : IsGated(i)}
  OBVIOUS
<1>3. CASE row'[b].lifecycle = Stage(b)
  <2>1. next = now
    BY <1>3 DEF Only, Stage
  <2> QED
    BY <2>1 DEF Lifecycle!vars
<1>4. CASE Stage(b) = "none" /\ IF IsGated(b) THEN row'[b].lifecycle \in {"pending_approval", "completed"}
                                              ELSE row'[b].lifecycle \in {"pending", "completed"}
  <2>1. Lifecycle!Submit(b)
    BY <1>1, <1>4 DEF Lifecycle!Submit, Lifecycle!Move
  <2> QED
    BY <2>1 DEF Lifecycle!Next
<1>5. CASE IsGated(b) /\ Stage(b) = "pending_approval" /\ row'[b].lifecycle \in {"pending", "completed"}
  <2>1. next = [i \in Ids |-> IF i \in {b} THEN row'[b].lifecycle ELSE now[i]]
    BY <1>1
  <2>2. {b} \in (SUBSET {i \in Ids : IsGated(i)}) \ {{}}
    BY <1>5
  <2>3. Lifecycle!Decide
    BY <1>1, <1>5, <2>1, <2>2 DEF Lifecycle!Decide
  <2> QED
    BY <2>3 DEF Lifecycle!Next
<1>6. CASE Stage(b) = "pending" /\ row'[b].lifecycle = "running"
  <2>1. Lifecycle!Start(b)
    BY <1>1, <1>6 DEF Lifecycle!Start, Lifecycle!Move
  <2> QED
    BY <2>1 DEF Lifecycle!Next
<1>7. CASE Stage(b) \in InFlight /\ row'[b].lifecycle \in {"completed", "recovered"}
  <2>1. Lifecycle!Close(b) \/ Lifecycle!Recover(b)
    BY <1>1, <1>7 DEF Lifecycle!Close, Lifecycle!Recover, Lifecycle!Move, InFlight
  <2> QED
    BY <2>1 DEF Lifecycle!Next
<1> QED
  BY <1>3, <1>4, <1>5, <1>6, <1>7 DEF Advances

LEMMA LifecycleInit == Init => Lifecycle!Init
BY RowFacts DEF Init, Lifecycle!Init

(***************************************************************************)
(* What everyone knows of the stage of the row they work on.                *)
(***************************************************************************)

Closing == {"drop_new", "refuse"}

Knows(t) ==
    LET pc == th[t].pc
        i  == th[t].id
    IN  /\ pc \in {"push_new", "freeze", "maintenance", "start"} \cup Closing => Stage(i) = "pending"
        /\ pc \in {"act", "finish"} => Stage(i) = "running"
        /\ pc \in {"reset_push", "push_followup"} => Stage(FollowUp(i)) = "pending"
        /\ pc \in {"reset_row", "reset_insert", "insert_followup"} => Stage(FollowUp(i)) = "none"
        /\ pc = "reset_row" => Stage(i) = "completed"
        /\ pc \in IsDeciding => Stage(i) \in {"pending_approval", "completed"}
        /\ pc \in Approving \cup {"reload", "push_approved"} =>
              Stage(i) = "completed" \/ (Stage(i) = "pending" /\ th[t].verb = "approve")
        /\ pc \in {"push_new", "merge_write", "push_approved"} => th[t].rec.lifecycle = Stage(i)
        /\ pc \in {"seen", "insert_followup", "push_followup"} => t = Executor

ThreadsKnow == \A t \in Threads : Knows(t)

\* A queued copy says what the table says.
QueuesKnow ==
    \A p \in Processes : \A k \in 1..Len(queue[p]) :
        /\ queue[p][k].rec.lifecycle = Stage(queue[p][k].id)
        /\ Stage(queue[p][k].id) \in {"pending", "completed"}

\* Who is about to close a row without running it is alone with it.
ClosersClean ==
    \A t \in Threads : th[t].pc \in Closing =>
        /\ Clean(th[t].id)
        /\ \A u \in Threads : th[u].pc \in Closing /\ th[u].id = th[t].id => t = u

\* Only the executor works outside the server's normal phase.
ServerQuiet ==
    /\ phase # "up" => \A t \in Threads \ {Executor} : th[t].pc = "idle"
    /\ phase = "down" => th[Executor].pc = "idle" /\ queue[Server] = <<>>
    /\ phase = "recovering" => th[Executor].pc \in {"recover", "seen", "insert_followup", "push_followup"}
    /\ phase # "recovering" => recovery = {}

\* What recovery has still to close, nobody else has taken up.
RecoveryKnows ==
    /\ \A c \in recovery :
          /\ Stage(c.id) \in InFlight /\ c.id \notin QueuedIn(Server)
          /\ th[Executor].pc = "push_followup" => FollowUp(th[Executor].id) # c.id
    /\ \A c, d \in recovery : c.id = d.id => c = d

\* Without failed statements no look-up misses a row.
NothingMissed == missed = {}

StageInvariant == ThreadsKnow /\ QueuesKnow /\ ClosersClean /\ ServerQuiet /\ RecoveryKnows

-----------------------------------------------------------------------------
(* Who may change a stage that others know.                                 *)

Minds(t, b) == Bears(t, th[t], b) \/ (th[t].pc \in Closing /\ th[t].id = b)

Inserts(t, b) ==
    th[t].pc \in {"reset_row", "reset_insert", "insert_followup"} /\ FollowUp(th[t].id) = b

LEMMA OnlyMinder ==
    ASSUME NothingMissed, OneBearer, ClosersClean, NEW t \in Threads, NEW u \in Threads \ {t}, NEW b \in Ids, Minds(t, b)
    PROVE  ~Minds(u, b) /\ ~Waits(b)
<1>1. CASE Bears(t, th[t], b)
  BY <1>1 DEF NothingMissed, OneBearer, BornOnce, ClosersClean, Minds, Clean, NoBearer
<1>2. CASE th[t].pc \in Closing /\ th[t].id = b
  BY <1>2 DEF NothingMissed, ClosersClean, Minds, Clean, NoBearer
<1> QED
  BY <1>1, <1>2 DEF Minds

LEMMA OnlyInserter ==
    ASSUME TypeOK, OneEvaluator, BirthsClean, Whereabouts, ThreadsKnow,
           NEW t \in Threads, NEW u \in Threads \ {t}, NEW b \in Ids, Inserts(t, b)
    PROVE  ~Inserts(u, b)
<1> SUFFICES ASSUME Inserts(u, b) PROVE FALSE
  OBVIOUS
<1>1. \A v \in {t, u} :
        /\ th[v].id \in Ids
        /\ \/ v \in Evaluators /\ KindOf(th[v].id) = "backoff_increase"
           \/ v = Executor /\ KindOf(th[v].id) = "restart"
  BY BusyType DEF Inserts, BirthsClean, Resetting, Whereabouts, ThreadsKnow, Knows, Pcs, Resting
<1>2. th[t].id = th[u].id
  BY <1>1, FollowUpIds DEF Inserts
<1> QED
  BY <1>1, <1>2 DEF OneEvaluator

\* t may change the stage of b: nobody else knows it, or what they know still holds.
May(t, b) ==
    \/ row'[b].lifecycle = Stage(b)
    \/ Stage(b) = "none" /\ (IsPrimary(b) \/ Inserts(t, b))
    \/ Stage(b) = "pending_approval" /\ (row'[b].lifecycle = "completed" \/ t \in Handlers)
    \/ Stage(b) \in InFlight /\ Minds(t, b)

LEMMA OthersKnow ==
    ASSUME ServerAlone, NothingMissed, TypeOK, OneApprover, OneEvaluator, OnceInvariant, StageInvariant,
           NEW t \in Threads, NEW b \in Ids, Only(b), May(t, b),
           NEW u \in Threads \ {t}, th'[u] = th[u]
    PROVE  Knows(u)'
<1>1. /\ Knows(u) /\ OneBearer /\ BirthsClean /\ Whereabouts /\ ThreadsKnow /\ ClosersClean
      /\ th[u].pc \in Pcs
  BY BusyType DEF StageInvariant, ThreadsKnow, OnceInvariant
<1>2. th[u].pc \notin Resting => th[u].id \in Ids /\ FollowUp(th[u].id) \in Ids
  BY <1>1, BusyType, IdTypes
<1>3. CASE row'[b].lifecycle = Stage(b)
  <2>1. \A i \in Ids : row'[i].lifecycle = Stage(i)
    BY <1>3 DEF Only
  <2> QED
    BY <1>1, <1>2, <2>1 DEF Knows, Stage, Resting, Closing, IsDeciding, Approving
<1>4. CASE Stage(b) = "none" /\ (IsPrimary(b) \/ Inserts(t, b))
  <2>1. ~Inserts(u, b)
    BY <1>1, <1>2, <1>4, OnlyInserter, FollowUpIds DEF Inserts, Resting
  <2> QED
    BY <1>1, <1>2, <1>4, <2>1 DEF Only, Inserts, Knows, Stage, Resting, Closing, IsDeciding, Approving
<1>5. CASE Stage(b) = "pending_approval" /\ (row'[b].lifecycle = "completed" \/ t \in Handlers)
  <2>1. row'[b].lifecycle = "completed" \/ th[u].pc \notin IsDeciding
    BY <1>1, <1>5 DEF Whereabouts, OneApprover
  <2> QED
    BY <1>1, <1>2, <1>5, <2>1 DEF Only, Knows, Stage, Resting, Closing, IsDeciding, Approving
<1>6. CASE Stage(b) \in InFlight /\ Minds(t, b)
  <2>1. ~Minds(u, b)
    BY <1>1, <1>6, OnlyMinder
  <2> QED
    BY <1>1, <1>2, <1>6, <2>1 DEF ServerAlone, Only, Knows, Minds, Bears, Executing, Stage, InFlight, Resting, Closing,
                                  IsDeciding, Approving
<1> QED
  BY <1>3, <1>4, <1>5, <1>6 DEF May

\* t takes or puts a copy that says what the table says, or leaves the queues alone.
Queues(t) ==
    \/ UNCHANGED queue
    \/ /\ UNCHANGED row
       /\ \E i \in Ids, r \in Rows : /\ Enqueue(t, i, r) /\ r.lifecycle = Stage(i)
                                     /\ Stage(i) \in {"pending", "completed"}
    \/ /\ UNCHANGED row
       /\ queue[Server] # <<>> /\ queue' = [queue EXCEPT ![Server] = Tail(@)]

\* A step of goroutine t that the promise allows and that surprises nobody.
Steers(t) ==
    /\ \A u \in Threads \ {t} : th'[u] = th[u]
    /\ Knows(t)'
    /\ UNCHANGED row \/ \E b \in Ids : Only(b) /\ May(t, b) /\ Advances(b)
    /\ Queues(t)
    /\ th'[t].pc \in Closing => /\ th[t].pc \in {"push_new", "freeze", "maintenance"}
                                /\ th'[t].id = th[t].id /\ UNCHANGED <<queue, runs>>

LEMMA QueuedIds ==
    ASSUME TypeOK, NEW p \in Processes, NEW k \in 1..Len(queue[p])
    PROVE  queue[p][k].id \in Ids
<1>1. queue[p] \in Seq(Copies)
  BY DEF TypeOK
<1>2. queue[p][k] \in Copies
  BY <1>1, LenProperties
<1> QED
  BY <1>2 DEF Copies

LEMMA QueuesKnown ==
    ASSUME ServerAlone, NothingMissed, TypeOK, OneBearer, QueuesKnow, ClosersClean, NEW t \in Threads, Steers(t)
    PROVE  QueuesKnow'
<1>s. Processes = {Server} /\ Live(Server)
  BY DEF ServerAlone, Processes, Live
<1>i. \A p \in Processes : \A k \in 1..Len(queue[p]) : queue[p][k].id \in Ids
  BY QueuedIds
<1>1. CASE UNCHANGED queue
  <2> SUFFICES ASSUME NEW k \in 1..Len(queue[Server]), NEW j, j = queue[Server][k].id
               PROVE  row'[j].lifecycle = Stage(j)
    BY <1>s, <1>1 DEF QueuesKnow, Stage
  <2>1. j \in Ids /\ Waits(j) /\ Stage(j) \in {"pending", "completed"}
    BY <1>s, <1>i DEF QueuesKnow, Waits
  <2>2. ASSUME NEW b \in Ids, Only(b), May(t, b) PROVE row'[j].lifecycle = Stage(j)
    <3>1. j # b => row'[j].lifecycle = Stage(j)
      BY <2>1, <2>2 DEF Only
    <3>2. Minds(t, b) => ~Waits(b)
      BY OnlyMinder DEF NothingMissed, OneBearer, BornOnce, Minds, ClosersClean, Clean, NoBearer
    <3> QED
      BY <2>1, <2>2, <3>1, <3>2 DEF May
  <2> QED
    BY <2>2 DEF Steers, Stage
<1>2. ASSUME UNCHANGED row, NEW i \in Ids, NEW r \in Rows, Enqueue(t, i, r), r.lifecycle = Stage(i),
             Stage(i) \in {"pending", "completed"}
      PROVE  QueuesKnow'
  <2>1. Copy(i, r).id = i /\ Copy(i, r).rec = r
    BY DEF Copy
  <2> SUFFICES ASSUME NEW p \in Processes, NEW k \in 1..Len(queue'[p])
               PROVE  /\ queue'[p][k].rec.lifecycle = Stage(queue'[p][k].id)
                      /\ Stage(queue'[p][k].id) \in {"pending", "completed"}
    BY <1>2 DEF QueuesKnow, Stage
  <2>2. \/ k \in 1..Len(queue[p]) /\ queue'[p][k] = queue[p][k]
        \/ queue'[p][k] = Copy(i, r)
    BY <1>2, PushedCopies
  <2> QED
    BY <1>2, <2>1, <2>2 DEF QueuesKnow
<1>3. CASE UNCHANGED row /\ queue[Server] # <<>> /\ queue' = [queue EXCEPT ![Server] = Tail(@)]
  <2> SUFFICES ASSUME NEW p \in Processes, NEW k \in 1..Len(queue'[p])
               PROVE  /\ queue'[p][k].rec.lifecycle = Stage(queue'[p][k].id)
                      /\ Stage(queue'[p][k].id) \in {"pending", "completed"}
    BY <1>3 DEF QueuesKnow, Stage
  <2>1. \E j \in 1..Len(queue[p]) : queue'[p][k] = queue[p][j]
    BY <1>s, <1>3, TakenCopies
  <2> QED
    BY <2>1 DEF QueuesKnow
<1> QED
  BY <1>1, <1>2, <1>3 DEF Steers, Queues

\* A pending row stays clean: it has been born.
LEMMA PendingStaysClean ==
    ASSUME TypeOK, ThreadsKnow, Keeps, NEW i \in Ids, Clean(i), Stage(i) = "pending"
    PROVE  Clean(i)'
<1>1. ~Born(i)
  <2>1. row[i] # NoRow
    BY RowFacts DEF Stage
  <2>2. ASSUME NEW h \in Handlers, th[h].pc = "update", th[h].id = i PROVE FALSE
    BY <2>2 DEF ThreadsKnow, Knows, IsDeciding, Threads
  <2>3. ASSUME NEW t \in {Executor} \cup Evaluators, th[t].pc \in {"insert_followup", "reset_insert"},
               FollowUp(th[t].id) = i
        PROVE  FALSE
    BY <2>3 DEF ThreadsKnow, Knows, Threads
  <2> QED
    BY <2>1, <2>2, <2>3 DEF Born, GoesOn
<1> QED
  BY <1>1 DEF Keeps

\* Who turns to closing its row puts it down.
LEMMA PutDown ==
    ASSUME ServerAlone, NothingMissed, TypeOK, OneBearer, NEW t \in Threads, NEW i \in Ids,
           th[t].pc \in {"push_new", "freeze", "maintenance"}, th[t].id = i,
           \A u \in Threads \ {t} : th'[u] = th[u],
           th'[t].pc \in Closing, UNCHANGED <<queue, runs>>
    PROVE  Clean(i)' /\ Bears(t, th[t], i)
<1>1. Bears(t, th[t], i)
  BY DEF ServerAlone, Bears, Executing
<1>2. ~Waits(i) /\ (\A u \in Threads \ {t} : ~Bears(u, th[u], i)) /\ runs[i] = 0
  BY <1>1 DEF NothingMissed, OneBearer, BornOnce, RunOnce
<1>3. ~Bears(t, th'[t], i)
  BY UnburdenedBears DEF Unburdened, Closing
<1>4. ~Waits(i)'
  BY <1>2 DEF ServerAlone, Waits, Processes, Live
<1> QED
  BY <1>1, <1>2, <1>3, <1>4 DEF Clean, NoBearer

LEMMA ClosersKnown ==
    ASSUME ServerAlone, NothingMissed, TypeOK, OneBearer, ThreadsKnow, ClosersClean, Keeps, NEW t \in Threads, Steers(t)
    PROVE  ClosersClean'
<1>1. ASSUME NEW u \in Threads \ {t}, th[u].pc \in Closing
      PROVE  th[u].id \in Ids /\ Clean(th[u].id) /\ Clean(th[u].id)'
  <2>1. th[u].id \in Ids /\ Clean(th[u].id) /\ Stage(th[u].id) = "pending"
    BY <1>1, BusyType DEF ThreadsKnow, Knows, ClosersClean, Closing, Pcs, Resting
  <2>2. th[u].id = th'[u].id
    BY DEF Steers
  <2>3. \A i \in Ids : Clean(i) /\ Stage(i) = "pending" => Clean(i)'
    BY PendingStaysClean
  <2>4. PICK i \in Ids : i = th[u].id
    BY <2>1
  <2> QED
    BY <2>1, <2>2, <2>3, <2>4
<1>2. CASE th'[t].pc \notin Closing
  BY <1>1, <1>2 DEF Steers, ClosersClean
<1>3. CASE th'[t].pc \in Closing
  <2>1. /\ th[t].pc \in {"push_new", "freeze", "maintenance"} /\ th[t].id \in Ids
        /\ th'[t].id = th[t].id /\ UNCHANGED <<queue, runs>> /\ \A u \in Threads \ {t} : th'[u] = th[u]
    BY <1>3, BusyType DEF Steers, Pcs, Resting
  <2>2. PICK i \in Ids : i = th[t].id
    BY <2>1
  <2>3. Clean(i)' /\ Bears(t, th[t], i)
    BY <1>3, <2>1, <2>2, PutDown
  <2>4. \A u \in Threads \ {t} : th[u].pc \in Closing => th[u].id # i
    BY <1>1, <2>3 DEF NothingMissed, Clean, NoBearer
  <2> QED
    BY <1>1, <2>1, <2>2, <2>3, <2>4 DEF ClosersClean
<1> QED
  BY <1>2, <1>3

(***************************************************************************)
(* Every goroutine's step is such a step.                                   *)
(***************************************************************************)

\* At rest one knows nothing and closes nothing.
LEMMA RestingKnows ==
    ASSUME NEW t, th'[t].pc \in {"exit", "recover", "idle"}
    PROVE  Knows(t)' /\ th'[t].pc \notin Closing
BY DEF Knows, Closing, IsDeciding, Approving

\* Without failed statements every write is written.
LEMMA NothingFails ==
    ASSUME ServerAlone, TypeOK
    PROVE  ~StatementFails /\ \A i, r : WriteOrIgnore(i, r) => Write(i, r)
BY DEF ServerAlone, TypeOK, StatementFails, WriteOrIgnore

\* The stages of the rows the code makes.
LEMMA NewStages ==
    /\ NewPending.lifecycle = "pending" /\ NewPendingApproval.lifecycle = "pending_approval"
    /\ \A i : Refusal(i, NewPending).lifecycle = "completed"
    /\ Completed(NewPending, "denied_by_policy", "").lifecycle = "completed"
    /\ DroppedOnFullQueue.lifecycle = "completed"
    /\ NoRow.lifecycle = "none"
BY RowFacts DEF Refusal, FreezeRefusal, MaintenanceRefusal, Completed, DroppedOnFullQueue, NewPending, NoRow

\* Writing one row changes the stage of no other.
LEMMA WritesOnly ==
    ASSUME TypeOK, NEW b \in Ids, NEW r, row' = [row EXCEPT ![b] = r]
    PROVE  Only(b) /\ row'[b] = r
BY DEF TypeOK, Only, Stage

LEMMA ProposeSteers ==
    ASSUME ServerAlone, TypeOK, StageInvariant, NEW t \in Evaluators \cup Handlers, Propose(t)
    PROVE  Steers(t) /\ UNCHANGED runs
<1>t. t \in Threads /\ ThreadsKnow /\ Knows(t)
  BY DEF Threads, StageInvariant, ThreadsKnow
<1>1. ASSUME NEW a \in Actions, ProposeDenied(t, a) \/ ProposeBlocked(t, a) \/ ProposeGated(t, a)
      PROVE  Steers(t) /\ UNCHANGED runs
  <2>1. /\ row[Primary(a)] = NoRow /\ Leave(t) /\ UNCHANGED <<queue, runs>>
        /\ \E r : /\ row' = [row EXCEPT ![Primary(a)] = r]
                  /\ r.lifecycle = "completed" \/ (r.lifecycle = "pending_approval" /\ a \in Gated)
    BY <1>1, NewStages
       DEF ProposeDenied, ProposeBlocked, ProposeGated, MayPropose, NeedsApproval, Insert, ClosesAtOnce, history
  <2>2. Primary(a) \in Ids /\ IsPrimary(Primary(a)) /\ (IsGated(Primary(a)) <=> a \in Gated)
    BY IdTypes DEF IsGated
  <2>3. PICK b \in Ids : b = Primary(a)
    BY <2>2
  <2>4. Only(b) /\ May(t, b) /\ Advances(b)
    <3>1. PICK r : /\ row' = [row EXCEPT ![b] = r]
                   /\ r.lifecycle = "completed" \/ (r.lifecycle = "pending_approval" /\ IsGated(b))
      BY <2>1, <2>2, <2>3
    <3>2. Only(b) /\ row'[b] = r
      BY <3>1, WritesOnly
    <3>3. Stage(b) = "none" /\ IsPrimary(b)
      BY <2>1, <2>2, <2>3, RowFacts DEF Stage
    <3> QED
      BY <3>1, <3>2, <3>3 DEF May, Advances
  <2>5. (\A u \in Threads \ {t} : th'[u] = th[u]) /\ Knows(t)' /\ th'[t].pc \notin Closing
    BY <1>t, <2>1, LeaveFacts, RestingKnows
  <2> QED
    BY <2>1, <2>4, <2>5 DEF Steers, Queues
<1>2. ASSUME NEW a \in Actions, ProposeAuto(t, a) PROVE Steers(t) /\ UNCHANGED runs
  <2>1. /\ row[Primary(a)] = NoRow /\ row' = [row EXCEPT ![Primary(a)] = NewPending] /\ a \notin Gated
        /\ UNCHANGED <<queue, runs>> /\ \A u \in Threads \ {t} : th'[u] = th[u]
        /\ th'[t].pc = "push_new" /\ th'[t].id = Primary(a) /\ th'[t].rec = NewPending
    BY <1>t, <1>2 DEF ProposeAuto, MayPropose, NeedsApproval, Insert, At, TypeOK, history
  <2>2. Primary(a) \in Ids /\ IsPrimary(Primary(a)) /\ (IsGated(Primary(a)) <=> a \in Gated)
    BY IdTypes DEF IsGated
  <2>3. PICK b \in Ids : b = Primary(a)
    BY <2>2
  <2>4. Only(b) /\ May(t, b) /\ Advances(b) /\ row'[b] = NewPending
    BY <2>1, <2>2, <2>3, WritesOnly, RowFacts DEF May, Advances, Stage
  <2>5. Knows(t)' /\ th'[t].pc \notin Closing
    BY <2>1, <2>3, <2>4, NewStages DEF Knows, Stage, Closing, IsDeciding, Approving
  <2> QED
    BY <2>1, <2>4, <2>5 DEF Steers, Queues
<1>3. CASE PushNew(t)
  <2>1. /\ th[t].pc = "push_new" /\ th[t].id \in Ids /\ th[t].rec \in Rows
        /\ Stage(th[t].id) = "pending" /\ th[t].rec.lifecycle = "pending"
        /\ UNCHANGED <<row, runs>>
    BY <1>t, <1>3, BusyType DEF PushNew, Knows, Pcs, Resting, dbVars, history
  <2>2. CASE Enqueue(t, th[t].id, th[t].rec) /\ Leave(t)
    <3>1. (\A u \in Threads \ {t} : th'[u] = th[u]) /\ Knows(t)' /\ th'[t].pc \notin Closing
      BY <1>t, <2>2, LeaveFacts, RestingKnows
    <3> QED
      BY <2>1, <2>2, <3>1 DEF Steers, Queues
  <2>3. CASE Goto(t, "drop_new") /\ UNCHANGED queue
    <3>1. /\ \A u \in Threads \ {t} : th'[u] = th[u]
          /\ th'[t].pc = "drop_new" /\ th'[t].id = th[t].id
      BY <1>t, <2>3, MoveFacts
    <3>2. Knows(t)'
      BY <2>1, <3>1 DEF Knows, Stage, IsDeciding, Approving
    <3> QED
      BY <2>1, <2>3, <3>1, <3>2 DEF Steers, Queues
  <2> QED
    BY <1>3, <2>2, <2>3 DEF PushNew
<1>4. CASE DropNew(t)
  <2>1. /\ th[t].pc = "drop_new" /\ th[t].id \in Ids /\ Stage(th[t].id) = "pending"
        /\ row' = [row EXCEPT ![th[t].id] = DroppedOnFullQueue]
        /\ Leave(t) /\ UNCHANGED <<queue, runs>>
    BY <1>t, <1>4, BusyType, NothingFails DEF DropNew, Write, Knows, Closing, Pcs, Resting
  <2>2. PICK b \in Ids : b = th[t].id
    BY <2>1
  <2>3. Only(b) /\ May(t, b) /\ Advances(b)
    BY <2>1, <2>2, WritesOnly, NewStages DEF May, Advances, Minds, Closing, InFlight
  <2>4. (\A u \in Threads \ {t} : th'[u] = th[u]) /\ Knows(t)' /\ th'[t].pc \notin Closing
    BY <1>t, <2>1, LeaveFacts, RestingKnows
  <2> QED
    BY <2>1, <2>3, <2>4 DEF Steers, Queues
<1> QED
  BY <1>1, <1>2, <1>3, <1>4 DEF Propose

\* A follow-up is queued as the pending row it is, or dropped.
LEMMA PushOrDropSteers ==
    ASSUME TypeOK, NEW t \in Threads, th[t].id \in Ids, Stage(FollowUp(th[t].id)) = "pending", PushOrDrop(t)
    PROVE  Steers(t) /\ UNCHANGED runs
<1>1. (\A u \in Threads \ {t} : th'[u] = th[u]) /\ Knows(t)' /\ th'[t].pc \notin Closing
  BY LeaveFacts, RestingKnows DEF PushOrDrop
<1>2. Queues(t)
  BY IdTypes, NewRowTypes, NewStages DEF PushOrDrop, Queues, dbVars
<1> QED
  BY <1>1, <1>2 DEF Steers, PushOrDrop, dbVars

LEMMA ResetSteers ==
    ASSUME ServerAlone, TypeOK, HonestInvariant, StageInvariant, NEW t \in Evaluators, QueueReset(t)
    PROVE  Steers(t) /\ UNCHANGED runs
<1>t. t \in Threads /\ Knows(t)
  BY DEF Threads, StageInvariant, ThreadsKnow
<1>1. ASSUME NEW a \in Actions, ResetBegin(t, a) PROVE Steers(t) /\ UNCHANGED runs
  <2>1. /\ Revertible(Primary(a), row[Primary(a)]) /\ row[FollowUp(Primary(a))] = NoRow
        /\ UNCHANGED <<row, queue, runs>> /\ \A u \in Threads \ {t} : th'[u] = th[u]
        /\ th'[t].pc = "reset_row" /\ th'[t].id = Primary(a)
    BY <1>t, <1>1, NothingFails DEF ResetBegin, LookUpFails, At, TypeOK, dbVars
  <2>2. Stage(Primary(a)) = "completed"
    BY <2>1, IdTypes DEF Revertible, HonestInvariant, RowsHonest, Honest, Stage
  <2>3. Knows(t)' /\ th'[t].pc \notin Closing
    BY <2>1, <2>2, NewStages DEF Knows, Stage, Closing, IsDeciding, Approving
  <2> QED
    BY <2>1, <2>3 DEF Steers, Queues
<1>2. CASE ResetRow(t)
  <2>1. /\ th[t].pc = "reset_row" /\ th[t].id \in Ids /\ th[t].rec \in Rows
        /\ Stage(th[t].id) = "completed" /\ Stage(FollowUp(th[t].id)) = "none"
        /\ th[t].rec.lifecycle = "completed"
    BY <1>t, <1>2, BusyType DEF ResetRow, Knows, HonestInvariant, ThreadsHonest, ThreadHonest, Pcs, Resting
  <2>2. PICK b \in Ids : b = th[t].id
    BY <2>1
  <2>3. /\ row' = [row EXCEPT ![b] = Reverted(th[t].rec)]
        /\ Goto(t, "reset_insert") /\ UNCHANGED <<queue, runs>>
    BY <1>2, <2>2, NothingFails DEF ResetRow, Write
  <2>4. Only(b) /\ row'[b].lifecycle = Stage(b)
    <3>1. Reverted(th[t].rec).lifecycle = "completed"
      BY <2>1, HonestRows
    <3> QED
      BY <2>1, <2>2, <2>3, <3>1, WritesOnly
  <2>5. /\ \A u \in Threads \ {t} : th'[u] = th[u]
        /\ th'[t].pc = "reset_insert" /\ th'[t].id = b
    BY <1>t, <2>2, <2>3, MoveFacts
  <2>6. row'[FollowUp(b)].lifecycle = "none"
    BY <2>1, <2>2, <2>4, IdTypes DEF Only, Stage
  <2>7. Knows(t)' /\ th'[t].pc \notin Closing
    BY <2>5, <2>6 DEF Knows, Stage, Closing, IsDeciding, Approving
  <2> QED
    BY <2>3, <2>4, <2>5, <2>7 DEF Steers, Queues, May, Advances
<1>3. CASE ResetInsert(t)
  <2>1. th[t].pc = "reset_insert" /\ th[t].id \in Ids /\ Stage(FollowUp(th[t].id)) = "none"
    BY <1>t, <1>3, BusyType DEF ResetInsert, Knows, Pcs, Resting
  <2>2. PICK b \in Ids : b = FollowUp(th[t].id)
    BY <2>1, IdTypes
  <2>3. /\ row' = [row EXCEPT ![b] = NewPending]
        /\ Goto(t, "reset_push") /\ UNCHANGED <<queue, runs>>
    BY <1>3, <2>2, NothingFails DEF ResetInsert, Write
  <2>4. Only(b) /\ May(t, b) /\ Advances(b) /\ row'[b].lifecycle = "pending"
    BY <2>1, <2>2, <2>3, WritesOnly, FollowUpIds, NewStages DEF May, Advances, Inserts
  <2>5. /\ \A u \in Threads \ {t} : th'[u] = th[u]
        /\ th'[t].pc = "reset_push" /\ th'[t].id = th[t].id
    BY <1>t, <2>3, MoveFacts
  <2>6. Knows(t)' /\ th'[t].pc \notin Closing
    BY <2>2, <2>4, <2>5 DEF Knows, Stage, Closing, IsDeciding, Approving
  <2> QED
    BY <2>3, <2>4, <2>5, <2>6 DEF Steers, Queues
<1>4. CASE ResetPush(t)
  <2>1. th[t].id \in Ids /\ Stage(FollowUp(th[t].id)) = "pending" /\ PushOrDrop(t)
    BY <1>t, <1>4, BusyType DEF ResetPush, Knows, Pcs, Resting
  <2> QED
    BY <1>t, <2>1, PushOrDropSteers
<1> QED
  BY <1>1, <1>2, <1>3, <1>4 DEF QueueReset

\* A handler that goes on with its row, without a write.
LEMMA HandlerGoesOn ==
    ASSUME TypeOK, NEW t \in Threads, UNCHANGED <<row, queue>>, th[t].id \in Ids,
           \A u \in Threads \ {t} : th'[u] = th[u],
           th'[t].id = th[t].id, th'[t].verb = th[t].verb,
           \/ th'[t].pc = "update" /\ Stage(th[t].id) \in {"pending_approval", "completed"}
           \/ /\ th'[t].pc \in {"merge_read", "merge_write", "reload", "push_approved"}
              /\ Stage(th[t].id) = "completed" \/ (Stage(th[t].id) = "pending" /\ th[t].verb = "approve")
              /\ th'[t].pc \in {"merge_write", "push_approved"} => th'[t].rec = row[th[t].id]
    PROVE  Steers(t)
<1>1. Knows(t)' /\ th'[t].pc \notin Closing
  BY DEF Knows, Stage, Closing, IsDeciding, Approving
<1> QED
  BY <1>1 DEF Steers, Queues

LEMMA DecideSteers ==
    ASSUME ServerAlone, TypeOK, GateInvariant, OnceInvariant, StageInvariant, NEW t \in Handlers, Decide(t)
    PROVE  Steers(t) /\ UNCHANGED runs
<1>t. t \in Threads /\ Knows(t) /\ ~StatementFails
  BY NothingFails DEF Threads, StageInvariant, ThreadsKnow
<1>i. th[t].pc \in Pcs \ Resting => th[t].id \in Ids /\ th[t].rec \in Rows
  BY <1>t, BusyType
<1>l. Leave(t) /\ UNCHANGED <<row, queue>> => Steers(t)
  <2> SUFFICES ASSUME Leave(t), UNCHANGED <<row, queue>> PROVE Steers(t)
    OBVIOUS
  <2>1. (\A u \in Threads \ {t} : th'[u] = th[u]) /\ Knows(t)' /\ th'[t].pc \notin Closing
    BY <1>t, LeaveFacts, RestingKnows
  <2> QED
    BY <2>1 DEF Steers, Queues
<1>a. ASSUME AfterMerge(t), UNCHANGED queue, th[t].id \in Ids,
             row'[th[t].id].lifecycle = Stage(th[t].id), Only(th[t].id),
             Stage(th[t].id) = "completed" \/ (Stage(th[t].id) = "pending" /\ th[t].verb = "approve")
      PROVE  Steers(t)
  <2>1. CASE th[t].verb = "approve" /\ Goto(t, "reload")
    <3>1. /\ \A u \in Threads \ {t} : th'[u] = th[u]
          /\ th'[t].pc = "reload" /\ th'[t].id = th[t].id /\ th'[t].verb = th[t].verb
      BY <1>t, <2>1, MoveFacts
    <3>2. Knows(t)' /\ th'[t].pc \notin Closing
      BY <1>a, <3>1 DEF Knows, Stage, Closing, IsDeciding, Approving
    <3> QED
      BY <1>a, <3>1, <3>2 DEF Steers, Queues, May, Advances
  <2>2. CASE Leave(t)
    <3>1. (\A u \in Threads \ {t} : th'[u] = th[u]) /\ Knows(t)' /\ th'[t].pc \notin Closing
      BY <1>t, <2>2, LeaveFacts, RestingKnows
    <3> QED
      BY <1>a, <3>1 DEF Steers, Queues, May, Advances
  <2> QED
    BY <1>a, <2>1, <2>2 DEF AfterMerge
<1>1. ASSUME NEW a \in Actions, NEW verb \in Verbs, NEW actor \in Operators, NEW ack \in BOOLEAN,
             Load(t, a, verb, actor, ack)
      PROVE  Steers(t) /\ UNCHANGED runs
  <2>1. /\ Stage(Primary(a)) = "pending_approval" /\ UNCHANGED <<row, queue, runs>>
        /\ \A u \in Threads \ {t} : th'[u] = th[u]
        /\ th'[t].pc = "recheck" /\ th'[t].id = Primary(a)
    BY <1>t, <1>1 DEF Load, Decidable, Stage, At, TypeOK, dbVars, history
  <2>2. Knows(t)' /\ th'[t].pc \notin Closing
    BY <2>1 DEF Knows, Stage, Closing, IsDeciding, Approving
  <2> QED
    BY <2>1, <2>2 DEF Steers, Queues
<1>2. CASE Recheck(t)
  <2>1. /\ th[t].id \in Ids /\ UNCHANGED <<row, queue, runs>>
        /\ Stage(th[t].id) \in {"pending_approval", "completed"}
    BY <1>t, <1>2, <1>i DEF Recheck, Knows, IsDeciding, Pcs, Resting, dbVars, history
  <2>2. CASE Goto(t, "update")
    BY <1>t, <2>1, <2>2, MoveFacts, HandlerGoesOn
  <2> QED
    BY <1>2, <1>l, <2>1, <2>2 DEF Recheck
<1>3. CASE Update(t)
  <2>1. /\ th[t].pc = "update" /\ th[t].id \in Ids /\ UNCHANGED <<queue, runs>>
        /\ Stage(th[t].id) \in {"pending_approval", "completed"}
        /\ DecideRow(t) /\ Goto(t, "verify")
    BY <1>t, <1>3, <1>i DEF Update, Knows, IsDeciding, Pcs, Resting
  <2>2. PICK b \in Ids : b = th[t].id
    BY <2>1
  <2>3. /\ \A u \in Threads \ {t} : th'[u] = th[u]
        /\ th'[t].pc = "verify" /\ th'[t].id = b /\ th'[t].verb = th[t].verb
    BY <1>t, <2>1, <2>2, MoveFacts
  <2>4. CASE Decidable(row[b])
    <3>1. IsGated(b)
      BY <1>t, <2>1, <2>2 DEF OnceInvariant, BirthsClean, DecidingClean, IsDeciding
    <3>2. row' = [row EXCEPT ![b] = IF th[t].verb = "approve" THEN Approved(row[b], th[t].actor, Bypass(t))
                                                             ELSE Rejected(row[b])]
      BY <2>1, <2>2, <2>4 DEF DecideRow
    <3>3. /\ Only(b)
          /\ th[t].verb = "approve" => row'[b].lifecycle = "pending"
          /\ th[t].verb # "approve" => row'[b].lifecycle = "completed"
      <4>1. row[b] \in Rows
        BY DEF TypeOK
      <4>2. /\ Approved(row[b], th[t].actor, Bypass(t)).lifecycle = "pending"
            /\ Rejected(row[b]).lifecycle = "completed"
        BY <4>1 DEF Approved, Rejected, Completed, Rows
      <4> QED
        BY <3>2, <4>2, WritesOnly
    <3>4. May(t, b) /\ Advances(b)
      BY <2>4, <3>1, <3>3 DEF May, Advances, Decidable, Stage
    <3>5. Knows(t)' /\ th'[t].pc \notin Closing
      BY <2>3, <3>3 DEF Knows, Stage, Closing, IsDeciding, Approving
    <3> QED
      BY <2>1, <2>3, <3>2, <3>3, <3>4, <3>5, WritesOnly DEF Steers, Queues
  <2>5. CASE ~Decidable(row[b])
    <3>1. UNCHANGED row /\ Stage(b) = "completed"
      BY <2>1, <2>2, <2>5 DEF DecideRow, Decidable, Stage
    <3>2. Knows(t)' /\ th'[t].pc \notin Closing
      BY <2>3, <3>1 DEF Knows, Stage, Closing, IsDeciding, Approving
    <3> QED
      BY <2>1, <2>3, <3>1, <3>2 DEF Steers, Queues
  <2> QED
    BY <2>4, <2>5
<1>4. CASE Verify(t)
  <2>1. /\ th[t].pc = "verify" /\ th[t].id \in Ids /\ UNCHANGED <<row, queue, runs>>
        /\ Stage(th[t].id) = "completed" \/ (Stage(th[t].id) = "pending" /\ th[t].verb = "approve")
    BY <1>t, <1>4, <1>i DEF Verify, EndsCall, Knows, Approving, Pcs, Resting, dbVars, history
  <2>2. CASE Goto(t, "merge_read")
    BY <1>t, <2>1, <2>2, MoveFacts, HandlerGoesOn
  <2>3. CASE AfterMerge(t)
    BY <1>a, <2>1, <2>3 DEF Only, Stage
  <2> QED
    BY <1>4, <1>t, <1>l, <2>1, <2>2, <2>3 DEF Verify, EndsCall
<1>5. CASE MergeRead(t) \/ Reload(t)
  <2>1. /\ th[t].id \in Ids /\ UNCHANGED <<row, queue, runs>>
        /\ Stage(th[t].id) = "completed" \/ (Stage(th[t].id) = "pending" /\ th[t].verb = "approve")
        /\ \E pc \in {"merge_write", "push_approved"} : Carries(t, pc, row[th[t].id])
    BY <1>t, <1>5, <1>i DEF MergeRead, Reload, EndsCall, Carries, Knows, Approving, Pcs, Resting, dbVars, history
  <2>2. PICK pc \in {"merge_write", "push_approved"} : \E r : r = row[th[t].id] /\ Carries(t, pc, r)
    BY <2>1
  <2>3. PICK r : r = row[th[t].id] /\ Carries(t, pc, r)
    BY <2>2
  <2>4. /\ \A u \in Threads \ {t} : th'[u] = th[u]
        /\ th'[t].pc = pc /\ th'[t].id = th[t].id /\ th'[t].rec = r /\ th'[t].verb = th[t].verb
    <3>1. /\ \A u \in Threads \ {t} : th'[u] = th[u]
          /\ th'[t].pc = pc /\ th'[t].id = th[t].id /\ th'[t].rec = r
      BY <1>t, <2>3, CarryFacts
    <3>2. th'[t].verb = th[t].verb
      BY <1>t, <2>3, BusyType DEF Carries, TypeOK, Goroutines
    <3> QED
      BY <3>1, <3>2
  <2> QED
    BY <1>t, <2>1, <2>3, <2>4, HandlerGoesOn
<1>6. CASE MergeWrite(t)
  <2>1. /\ th[t].pc = "merge_write" /\ th[t].id \in Ids /\ UNCHANGED <<queue, runs>>
        /\ Stage(th[t].id) = "completed" \/ (Stage(th[t].id) = "pending" /\ th[t].verb = "approve")
        /\ th[t].rec.lifecycle = Stage(th[t].id)
        /\ Write(th[t].id, th[t].rec) /\ AfterMerge(t)
    BY <1>t, <1>6, <1>i DEF MergeWrite, EndsCall, Knows, Approving, Pcs, Resting
  <2>2. Only(th[t].id) /\ row'[th[t].id].lifecycle = Stage(th[t].id)
    BY <2>1, WritesOnly DEF Write
  <2> QED
    BY <1>a, <2>1, <2>2
<1>7. CASE PushApproved(t)
  <2>1. /\ th[t].pc = "push_approved" /\ th[t].id \in Ids /\ th[t].rec \in Rows /\ UNCHANGED <<row, runs>>
        /\ Stage(th[t].id) \in {"completed", "pending"} /\ th[t].rec.lifecycle = Stage(th[t].id)
    BY <1>t, <1>7, <1>i DEF PushApproved, Knows, Pcs, Resting, dbVars
  <2>2. CASE Enqueue(t, th[t].id, th[t].rec) /\ th' = [th EXCEPT ![t] = At(IF t \in Clis THEN "drain" ELSE "idle")]
    <3>1. (\A u \in Threads \ {t} : th'[u] = th[u]) /\ th'[t].pc = "idle"
      BY <1>t, <2>2 DEF ServerAlone, At, TypeOK
    <3> QED
      BY <2>1, <2>2, <3>1, RestingKnows DEF Steers, Queues
  <2> QED
    BY <1>7, <1>l, <2>1, <2>2 DEF PushApproved
<1> QED
  BY <1>1, <1>2, <1>3, <1>4, <1>5, <1>6, <1>7 DEF Decide

\* The executor turns a row away, or goes on with it.
LEMMA ExecutorGoesOn ==
    ASSUME TypeOK, NEW t \in Threads, UNCHANGED <<row, queue, runs>>, th[t].id \in Ids,
           th[t].pc \in {"freeze", "maintenance"}, Stage(th[t].id) = "pending",
           NEW pc \in {"maintenance", "start", "refuse"}, Goto(t, pc) \/ \E r : Carries(t, pc, r)
    PROVE  Steers(t) /\ UNCHANGED runs
<1>1. (\A u \in Threads \ {t} : th'[u] = th[u]) /\ th'[t].pc = pc /\ th'[t].id = th[t].id
  BY MoveFacts
<1>2. Knows(t)'
  BY <1>1 DEF Knows, Stage, Closing, IsDeciding, Approving
<1> QED
  BY <1>1, <1>2 DEF Steers, Queues

LEMMA DequeueSteers ==
    ASSUME ServerAlone, TypeOK, HonestInvariant, StageInvariant, NEW t \in Threads, Dequeue(t), t \notin Clis
    PROVE  Steers(t) /\ UNCHANGED runs
<1> DEFINE c == Head(queue[Server])
<1>1. /\ queue[Server] # <<>> /\ queue' = [queue EXCEPT ![Server] = Tail(@)]
      /\ UNCHANGED <<row, runs>>
      /\ IF GateOpen(c.id, c.rec)
         THEN th' = [th EXCEPT ![t] = [At("freeze") EXCEPT !.id = c.id, !.rec = c.rec, !.held = HeldOver(c.id)]]
         ELSE GatedStop(t, c.id, c.rec)
  BY DEF Dequeue, Home, dbVars, history
<1>2. /\ c.id \in Ids /\ Runnable(c.id, c.rec)
      /\ c.rec.lifecycle = Stage(c.id) /\ Stage(c.id) \in {"pending", "completed"}
  <2>1. Server \in Processes /\ Len(queue[Server]) \in Nat \ {0} /\ c = queue[Server][1] /\ c.id \in Ids
    BY <1>1, TakenAt DEF Processes
  <2>2. 1 \in 1..Len(queue[Server])
    BY <2>1
  <2> QED
    BY <2>1, <2>2 DEF HonestInvariant, QueuesHonest, StageInvariant, QueuesKnow
<1> HIDE DEF c
<1>3. CASE GateOpen(c.id, c.rec)
  <2>1. Stage(c.id) = "pending"
    BY <1>2, <1>3 DEF GateOpen, Runnable, InFlight
  <2>2. /\ \A u \in Threads \ {t} : th'[u] = th[u]
        /\ th'[t].pc = "freeze" /\ th'[t].id = c.id
    BY <1>1, <1>3 DEF At, TypeOK
  <2>3. Knows(t)' /\ th'[t].pc \notin Closing
    BY <1>1, <2>1, <2>2 DEF Knows, Stage, Closing, IsDeciding, Approving
  <2> QED
    BY <1>1, <2>2, <2>3 DEF Steers, Queues
<1>4. CASE ~GateOpen(c.id, c.rec)
  <2>1. Leave(t)
    BY <1>1, <1>2, <1>4 DEF GatedStop
  <2>2. (\A u \in Threads \ {t} : th'[u] = th[u]) /\ Knows(t)' /\ th'[t].pc \notin Closing
    BY <2>1, LeaveFacts, RestingKnows
  <2> QED
    BY <1>1, <2>2 DEF Steers, Queues
<1> QED
  BY <1>3, <1>4

LEMMA ExecuteSteers ==
    ASSUME ServerAlone, TypeOK, HonestInvariant, StageInvariant, Execute(Executor)
    PROVE  Steers(Executor) /\ (~Act(Executor) => UNCHANGED runs)
<1> DEFINE t == Executor
<1>t. /\ t \in Threads /\ t \notin Clis /\ Knows(t) /\ ~StatementFails
      /\ th[t].pc \in Pcs \ Resting => th[t].id \in Ids /\ th[t].rec \in Rows
      /\ ThreadHonest(th[t])
  BY NothingFails, BusyType DEF Threads, ServerAlone, StageInvariant, ThreadsKnow, HonestInvariant, ThreadsHonest
<1> HIDE DEF t
<1>1. CASE Dequeue(t)
  BY <1>t, <1>1, DequeueSteers DEF t
<1>2. CASE CheckFreeze(t) \/ CheckMaintenance(t)
  <2>1. /\ th[t].pc \in {"freeze", "maintenance"} /\ th[t].id \in Ids /\ Stage(th[t].id) = "pending"
        /\ UNCHANGED <<row, queue, runs>>
        /\ \E pc \in {"maintenance", "start", "refuse"} : Goto(t, pc) \/ \E r : Carries(t, pc, r)
    BY <1>t, <1>2
       DEF CheckFreeze, CheckMaintenance, AfterHolds, RefuseWith, Carries, Knows, Pcs, Resting, dbVars, history
  <2> QED
    BY <1>t, <2>1, ExecutorGoesOn DEF t
<1>3. CASE Refuse(t) \/ Finish(t)
  <2>1. /\ th[t].pc \in {"refuse", "finish"} /\ th[t].id \in Ids /\ Stage(th[t].id) \in InFlight
        /\ th[t].rec.lifecycle = "completed" /\ UNCHANGED <<queue, runs>>
        /\ row' = [row EXCEPT ![th[t].id] = th[t].rec]
        /\ Leave(t) \/ Goto(t, "seen")
    BY <1>t, <1>3, NothingFails
       DEF Refuse, Finish, Write, Knows, Closing, ThreadHonest, InFlight, Pcs, Resting
  <2>2. PICK b \in Ids : b = th[t].id
    BY <2>1
  <2>3. Minds(t, b)
    BY <2>1, <2>2 DEF Minds, Bears, Executing, Closing
  <2>4. Only(b) /\ May(t, b) /\ Advances(b)
    BY <2>1, <2>2, <2>3, WritesOnly DEF May, Advances
  <2>5. (\A u \in Threads \ {t} : th'[u] = th[u]) /\ Knows(t)' /\ th'[t].pc \notin Closing
    <3>1. CASE Leave(t)
      BY <1>t, <3>1, LeaveFacts, RestingKnows
    <3>2. CASE Goto(t, "seen")
      <4>1. (\A u \in Threads \ {t} : th'[u] = th[u]) /\ th'[t].pc = "seen"
        BY <1>t, <3>2, MoveFacts
      <4> QED
        BY <4>1 DEF Knows, Closing, IsDeciding, Approving, t
    <3> QED
      BY <2>1, <3>1, <3>2
  <2> QED
    BY <2>1, <2>4, <2>5 DEF Steers, Queues, t
<1>4. CASE StartAction(t)
  <2>1. /\ th[t].pc = "start" /\ th[t].id \in Ids /\ th[t].rec \in Rows /\ Stage(th[t].id) = "pending"
        /\ row' = [row EXCEPT ![th[t].id] = Running(th[t].rec)]
        /\ Carries(t, "act", Running(th[t].rec)) /\ UNCHANGED <<queue, runs>>
    BY <1>t, <1>4 DEF StartAction, EndsCall, Write, Carries, Knows, Pcs, Resting
  <2>2. PICK b \in Ids : b = th[t].id
    BY <2>1
  <2>3. Minds(t, b) /\ Running(th[t].rec).lifecycle = "running"
    BY <2>1, <2>2, HonestRows DEF Minds, Bears, Executing
  <2>4. Only(b) /\ May(t, b) /\ Advances(b) /\ row'[b].lifecycle = "running"
    BY <2>1, <2>2, <2>3, WritesOnly DEF May, Advances, InFlight
  <2>5. (\A u \in Threads \ {t} : th'[u] = th[u]) /\ th'[t].pc = "act" /\ th'[t].id = b
    BY <1>t, <2>1, <2>2, MoveFacts
  <2>6. Knows(t)' /\ th'[t].pc \notin Closing
    BY <2>4, <2>5 DEF Knows, Stage, Closing, IsDeciding, Approving
  <2> QED
    BY <2>1, <2>4, <2>5, <2>6 DEF Steers, Queues, t
<1>5. CASE Act(t)
  <2>1. /\ th[t].pc = "act" /\ th[t].id \in Ids /\ Stage(th[t].id) = "running" /\ UNCHANGED <<row, queue>>
        /\ \E r : Carries(t, "finish", r)
    BY <1>t, <1>5 DEF Act, Carries, Knows, Pcs, Resting, dbVars
  <2>2. (\A u \in Threads \ {t} : th'[u] = th[u]) /\ th'[t].pc = "finish" /\ th'[t].id = th[t].id
    BY <1>t, <2>1, MoveFacts
  <2>3. Knows(t)' /\ th'[t].pc \notin Closing
    BY <2>1, <2>2 DEF Knows, Stage, Closing, IsDeciding, Approving
  <2> QED
    BY <1>5, <2>1, <2>2, <2>3 DEF Steers, Queues, t
<1>6. CASE SeenFollowUp(t)
  <2>1. UNCHANGED <<row, queue, runs>>
    BY <1>6 DEF SeenFollowUp, dbVars
  <2>2. CASE row[FollowUp(th[t].id)] = NoRow /\ Goto(t, "insert_followup")
    <3>1. (\A u \in Threads \ {t} : th'[u] = th[u]) /\ th'[t].pc = "insert_followup" /\ th'[t].id = th[t].id
      BY <1>t, <2>2, MoveFacts
    <3>2. Knows(t)' /\ th'[t].pc \notin Closing
      BY <2>1, <2>2, <3>1, NewStages DEF Knows, Stage, Closing, IsDeciding, Approving, t
    <3> QED
      BY <2>1, <3>1, <3>2 DEF Steers, Queues, t
  <2>3. CASE Leave(t)
    <3>1. (\A u \in Threads \ {t} : th'[u] = th[u]) /\ Knows(t)' /\ th'[t].pc \notin Closing
      BY <1>t, <2>3, LeaveFacts, RestingKnows
    <3> QED
      BY <2>1, <3>1 DEF Steers, Queues, t
  <2> QED
    BY <1>6, <1>t, <2>2, <2>3 DEF SeenFollowUp, LookUpFails
<1>7. CASE InsertFollowUp(t)
  <2>1. /\ th[t].pc = "insert_followup" /\ th[t].id \in Ids /\ Stage(FollowUp(th[t].id)) = "none"
        /\ UNCHANGED <<queue, runs>>
        /\ row' = [row EXCEPT ![FollowUp(th[t].id)] = NewPending] /\ Goto(t, "push_followup")
    BY <1>t, <1>7 DEF InsertFollowUp, Write, Knows, Pcs, Resting
  <2>2. PICK b \in Ids : b = FollowUp(th[t].id)
    BY <2>1, IdTypes
  <2>3. Only(b) /\ May(t, b) /\ Advances(b) /\ row'[b].lifecycle = "pending"
    BY <2>1, <2>2, WritesOnly, FollowUpIds, NewStages DEF May, Advances, Inserts
  <2>4. (\A u \in Threads \ {t} : th'[u] = th[u]) /\ th'[t].pc = "push_followup" /\ th'[t].id = th[t].id
    BY <1>t, <2>1, MoveFacts
  <2>5. Knows(t)' /\ th'[t].pc \notin Closing
    BY <2>2, <2>3, <2>4 DEF Knows, Stage, Closing, IsDeciding, Approving, t
  <2> QED
    BY <2>1, <2>3, <2>4, <2>5 DEF Steers, Queues, t
<1>8. CASE PushFollowUp(t)
  <2>1. th[t].id \in Ids /\ Stage(FollowUp(th[t].id)) = "pending" /\ PushOrDrop(t)
    BY <1>t, <1>8 DEF PushFollowUp, Knows, Pcs, Resting
  <2> QED
    BY <1>t, <2>1, PushOrDropSteers DEF t
<1> QED
  BY <1>1, <1>2, <1>3, <1>4, <1>5, <1>6, <1>7, <1>8 DEF Execute, t

(***************************************************************************)
(* The invariant is inductive.                                              *)
(***************************************************************************)

LEMMA StageInit == Init => StageInvariant
<1> SUFFICES ASSUME Init PROVE StageInvariant
  OBVIOUS
<1>1. /\ \A t \in Threads : th[t].pc = "idle"
      /\ \A p \in Processes : queue[p] = <<>>
      /\ phase = "up" /\ recovery = {}
  BY DEF Init, At
<1>2. ThreadsKnow /\ ClosersClean
  BY <1>1 DEF ThreadsKnow, Knows, ClosersClean, Closing, IsDeciding, Approving
<1>3. QueuesKnow
  BY <1>1, EmptySeq DEF QueuesKnow
<1> QED
  BY <1>1, <1>2, <1>3 DEF StageInvariant, ServerQuiet, RecoveryKnows

LEMMA SteersKnows ==
    ASSUME ServerAlone, NothingMissed, TypeOK, OneApprover, OneEvaluator, OnceInvariant, StageInvariant, Keeps,
           NEW t \in Threads, Steers(t)
    PROVE  ThreadsKnow' /\ QueuesKnow' /\ ClosersClean'
<1>1. OneBearer /\ ThreadsKnow /\ QueuesKnow /\ ClosersClean
  BY DEF OnceInvariant, StageInvariant
<1>2. ASSUME NEW u \in Threads PROVE Knows(u)'
  <2>1. CASE u = t
    BY <2>1 DEF Steers
  <2>2. CASE u # t /\ UNCHANGED row
    BY <1>1, <2>2 DEF Steers, ThreadsKnow, Knows, Stage
  <2>3. CASE u # t /\ \E b \in Ids : Only(b) /\ May(t, b)
    BY <2>3, OthersKnow DEF Steers
  <2> QED
    BY <2>1, <2>2, <2>3 DEF Steers
<1> QED
  BY <1>1, <1>2, QueuesKnown, ClosersKnown DEF ThreadsKnow

\* Outside its normal phase the server's handlers and evaluators do nothing.
LEMMA OthersStand ==
    ASSUME ServerAlone, StageInvariant, phase # "up", NEW t \in Evaluators \cup Handlers
    PROVE  ~Propose(t) /\ ~QueueReset(t) /\ ~Decide(t)
<1>1. th[t].pc = "idle" /\ t \notin Clis
  BY ThreadsAssumption DEF ServerAlone, StageInvariant, ServerQuiet, Threads
<1>2. ~Propose(t)
  BY <1>1 DEF Propose, ProposeDenied, ProposeBlocked, ProposeGated, ProposeAuto, MayPropose, PushNew, DropNew
<1>3. ~QueueReset(t)
  BY <1>1 DEF QueueReset, ResetBegin, ResetRow, ResetInsert, ResetPush
<1>4. ~Decide(t)
  BY <1>1 DEF Decide, Load, Recheck, Update, Verify, MergeRead, MergeWrite, Reload, PushApproved, IsDeciding
<1> QED
  BY <1>2, <1>3, <1>4

LEMMA WorkersQuiet ==
    ASSUME ServerAlone, TypeOK, StageInvariant, NEW t \in Evaluators \cup Handlers,
           Propose(t) \/ QueueReset(t) \/ Decide(t)
    PROVE  ServerQuiet' /\ RecoveryKnows'
<1>1. phase = "up" /\ phase' = "up"
  BY OthersStand, OthersApart
<1>2. recovery = {} /\ recovery' = {}
  <2>1. recovery' = recovery
    BY DEF Propose, ProposeDenied, ProposeBlocked, ProposeGated, ProposeAuto, ClosesAtOnce, PushNew, DropNew,
           QueueReset, ResetBegin, ResetRow, ResetInsert, ResetPush, PushOrDrop,
           Decide, Load, Recheck, Update, Verify, MergeRead, MergeWrite, Reload, PushApproved
  <2> QED
    BY <1>1, <2>1 DEF StageInvariant, ServerQuiet
<1> QED
  BY <1>1, <1>2 DEF ServerQuiet, RecoveryKnows

LEMMA ExecutorQuiet ==
    ASSUME ServerAlone, TypeOK, HonestInvariant, StageInvariant, Execute(Executor)
    PROVE  ServerQuiet' /\ RecoveryKnows'
<1> DEFINE x == th[Executor].id
<1>e. Executor \in Threads /\ Executor \notin Clis /\ ServerQuiet /\ RecoveryKnows /\ Knows(Executor)
  BY DEF ServerAlone, Threads, StageInvariant, ThreadsKnow
<1>1. phase' = phase /\ recovery' = recovery
  BY DEF Execute, Dequeue, CheckFreeze, CheckMaintenance, Refuse, StartAction, Act, Finish,
         SeenFollowUp, InsertFollowUp, PushFollowUp, PushOrDrop
<1>2. CASE phase = "up"
  BY <1>e, <1>1, <1>2 DEF ServerQuiet, RecoveryKnows
<1>3. CASE phase = "down"
  <2>1. th[Executor].pc = "idle"
    BY <1>e, <1>3 DEF ServerQuiet
  <2> QED
    BY <1>e, <1>3, <2>1
       DEF Execute, Dequeue, Draining, CheckFreeze, CheckMaintenance, Refuse, StartAction, Act, Finish,
           SeenFollowUp, InsertFollowUp, PushFollowUp
<1>4. CASE phase = "recovering"
  <2>1. /\ \A t \in Threads \ {Executor} : th'[t] = th[t] /\ th[t].pc = "idle"
        /\ th[Executor].pc \in {"recover", "seen", "insert_followup", "push_followup"}
    BY <1>e, <1>4, ExecuteSteers DEF Steers, ServerQuiet
  <2>2. SeenFollowUp(Executor) \/ InsertFollowUp(Executor) \/ PushFollowUp(Executor)
    BY <1>e, <1>4, <2>1
       DEF Execute, Dequeue, Draining, CheckFreeze, CheckMaintenance, Refuse, StartAction, Act, Finish
  <2>l. Leave(Executor) => th'[Executor].pc = "recover"
    BY <1>e, <1>4 DEF Leave, Return, At, TypeOK
  <2>i. x \in Ids /\ FollowUp(x) \in Ids
    BY <1>e, <2>2, BusyType, IdTypes DEF SeenFollowUp, InsertFollowUp, PushFollowUp, Pcs, Resting
  <2>c. \A c \in recovery : c.id \in Ids
    BY DEF TypeOK, Copies
  <2>3. CASE SeenFollowUp(Executor)
    <3>1. th'[Executor].pc \in {"recover", "insert_followup"} /\ UNCHANGED <<row, queue>>
      BY <1>e, <2>l, <2>3, MoveFacts DEF SeenFollowUp, dbVars
    <3> QED
      BY <1>e, <1>1, <1>4, <2>1, <3>1 DEF ServerQuiet, RecoveryKnows, Stage, QueuedIn
  <2>4. CASE InsertFollowUp(Executor)
    <3>1. /\ row' = [row EXCEPT ![FollowUp(x)] = NewPending] /\ Stage(FollowUp(x)) = "none"
          /\ Goto(Executor, "push_followup") /\ UNCHANGED queue
      BY <1>e, <2>4, NothingFails DEF InsertFollowUp, Write, Knows
    <3>2. th'[Executor].pc = "push_followup" /\ th'[Executor].id = x
      BY <1>e, <3>1, MoveFacts
    <3>3. \A c \in recovery : c.id # FollowUp(x) /\ Stage(c.id)' = Stage(c.id)
      BY <1>e, <2>c, <3>1 DEF RecoveryKnows, InFlight, Stage, TypeOK
    <3> QED
      BY <1>e, <1>1, <1>4, <2>1, <3>1, <3>2, <3>3 DEF ServerQuiet, RecoveryKnows, QueuedIn
  <2>5. CASE PushFollowUp(Executor)
    <3>1. /\ UNCHANGED row /\ Leave(Executor) /\ th[Executor].pc = "push_followup"
          /\ UNCHANGED queue \/ Enqueue(Executor, FollowUp(x), NewPending)
      BY <2>5 DEF PushFollowUp, PushOrDrop, dbVars
    <3>2. \A k \in 1..Len(queue'[Server]) :
             queue'[Server][k].id = FollowUp(x) \/ (k \in 1..Len(queue[Server]) /\ queue'[Server][k] = queue[Server][k])
      <4>1. CASE Enqueue(Executor, FollowUp(x), NewPending)
        <5>1. Copy(FollowUp(x), NewPending).id = FollowUp(x) /\ Server \in Processes
          BY DEF Copy, Processes
        <5> QED
          BY <1>e, <2>i, <4>1, <5>1, PushedCopies, NewRowTypes
      <4> QED
        BY <3>1, <4>1
    <3>3. \A c \in recovery : c.id \notin QueuedIn(Server)'
      BY <1>e, <3>1, <3>2 DEF RecoveryKnows, QueuedIn
    <3> QED
      BY <1>e, <1>1, <1>4, <2>1, <2>l, <3>1, <3>3 DEF ServerQuiet, RecoveryKnows, Stage
  <2> QED
    BY <2>2, <2>3, <2>4, <2>5
<1> QED
  BY <1>2, <1>3, <1>4 DEF TypeOK

\* What leaves the rows, the queues and the goroutines' work alone.
LEMMA IdleStep ==
    ASSUME ServerAlone, TypeOK, StageInvariant, Keeps, UNCHANGED <<queue, phase, recovery>>,
           \A t \in Threads : /\ th'[t].pc = th[t].pc /\ th'[t].id = th[t].id
                              /\ th'[t].rec = th[t].rec /\ th'[t].verb = th[t].verb,
           \A i \in Ids : \/ row'[i].lifecycle = Stage(i)
                          \/ Stage(i) = "pending_approval" /\ row'[i].lifecycle = "completed"
    PROVE  StageInvariant'
<1>1. ThreadsKnow /\ QueuesKnow /\ ClosersClean /\ ServerQuiet /\ RecoveryKnows
  BY DEF StageInvariant
<1>2. ASSUME NEW t \in Threads PROVE Knows(t)'
  <2>1. th[t].pc \notin Resting => th[t].id \in Ids /\ FollowUp(th[t].id) \in Ids
    BY BusyType, IdTypes
  <2> QED
    BY <1>1, <2>1 DEF ThreadsKnow, Knows, Stage, Resting, Closing, IsDeciding, Approving
<1>3. QueuesKnow'
  <2> SUFFICES ASSUME NEW p \in Processes, NEW k \in 1..Len(queue[p])
               PROVE  row'[queue[p][k].id].lifecycle = Stage(queue[p][k].id)
    BY <1>1 DEF QueuesKnow, Stage
  <2>1. queue[p][k].id \in Ids
    BY QueuedIds
  <2> QED
    BY <1>1, <2>1 DEF QueuesKnow
<1>4. ClosersClean'
  <2>1. ASSUME NEW t \in Threads, th[t].pc \in Closing PROVE Clean(th[t].id)'
    <3>1. PICK i \in Ids : i = th[t].id
      BY <2>1, BusyType DEF Closing, Pcs, Resting
    <3>2. Clean(i) /\ Stage(i) = "pending"
      BY <1>1, <2>1, <3>1 DEF ClosersClean, ThreadsKnow, Knows
    <3>3. Clean(i)'
      BY <1>1, <3>2, PendingStaysClean
    <3> QED
      BY <3>1, <3>3
  <2> QED
    BY <1>1, <2>1 DEF ClosersClean
<1>5. ServerQuiet' /\ RecoveryKnows'
  <2>1. Executor \in Threads /\ \A c \in recovery : c.id \in Ids
    BY DEF Threads, TypeOK, Copies
  <2> QED
    BY <1>1, <2>1 DEF ServerQuiet, RecoveryKnows, QueuedIn, InFlight, Stage
<1> QED
  BY <1>2, <1>3, <1>4, <1>5 DEF StageInvariant, ThreadsKnow

\* Recovery closes a row that nobody works on.
LEMMA RecoverySteers ==
    ASSUME ServerAlone, TypeOK, StageInvariant, NEW c \in recovery, RecoverRow(c)
    PROVE  StageInvariant' /\ Only(c.id) /\ Advances(c.id) /\ c.id \in Ids /\ UNCHANGED runs
<1>1. /\ ThreadsKnow /\ QueuesKnow /\ ClosersClean /\ ServerQuiet /\ RecoveryKnows
      /\ Executor \in Threads /\ c.id \in Ids /\ c.rec \in Rows
  BY DEF StageInvariant, Threads, TypeOK, Copies
<1>2. PICK b \in Ids : b = c.id
  BY <1>1
<1>3. /\ th[Executor].pc = "recover" /\ recovery' = recovery \ {c} /\ UNCHANGED <<queue, phase, runs>>
      /\ row' = [row EXCEPT ![b] = Recovered(b, c.rec)]
  BY <1>2, NothingFails DEF RecoverRow, Write
<1>4. /\ phase = "recovering"
      /\ \A t \in Threads \ {Executor} : th[t].pc = "idle" /\ th'[t] = th[t]
      /\ th'[Executor].pc \in {"recover", "seen"}
  <2>1. phase = "recovering"
    BY <1>1 DEF ServerQuiet, TypeOK
  <2>2. \/ UNCHANGED th
        \/ th' = [th EXCEPT ![Executor] = [At("seen") EXCEPT !.id = c.id]]
    BY DEF RecoverRow
  <2> QED
    BY <1>1, <1>3, <2>1, <2>2 DEF ServerQuiet, At, TypeOK
<1>5. /\ Only(b) /\ Stage(b) \in InFlight /\ row'[b].lifecycle = "recovered"
      /\ b \notin QueuedIn(Server)
  <2>1. Recovered(b, c.rec).lifecycle = "recovered"
    BY <1>1, HonestRows
  <2>2. Stage(b) \in InFlight /\ b \notin QueuedIn(Server)
    BY <1>1, <1>2 DEF RecoveryKnows
  <2> QED
    BY <1>3, <2>1, <2>2, WritesOnly
<1>6. ThreadsKnow'
  <2>1. \A t \in Threads : th'[t].pc \in {"recover", "seen", "idle"} /\ (th'[t].pc = "seen" => t = Executor)
    BY <1>4
  <2> QED
    BY <2>1 DEF ThreadsKnow, Knows, Closing, IsDeciding, Approving
<1>7. QueuesKnow'
  <2> SUFFICES ASSUME NEW p \in Processes, NEW k \in 1..Len(queue[p])
               PROVE  row'[queue[p][k].id].lifecycle = Stage(queue[p][k].id)
    BY <1>1, <1>3 DEF QueuesKnow, Stage
  <2>1. p = Server
    BY DEF ServerAlone, Processes
  <2>2. queue[p][k].id \in Ids
    BY QueuedIds
  <2>3. queue[p][k].id # b
    BY <1>5, <2>1 DEF QueuedIn
  <2> QED
    BY <1>5, <2>2, <2>3 DEF Only
<1>8. ClosersClean'
  BY <1>4 DEF ClosersClean, Closing
<1>9. ServerQuiet' /\ RecoveryKnows'
  <2>1. \A d \in recovery' : d.id \in Ids /\ d.id # b /\ d \in recovery
    BY <1>1, <1>2, <1>3 DEF RecoveryKnows, TypeOK, Copies
  <2>2. \A d \in recovery' : row'[d.id].lifecycle = Stage(d.id)
    BY <1>5, <2>1 DEF Only
  <2> QED
    BY <1>1, <1>3, <1>4, <2>1, <2>2 DEF ServerQuiet, RecoveryKnows, QueuedIn, Stage
<1> QED
  BY <1>2, <1>3, <1>5, <1>6, <1>7, <1>8, <1>9 DEF StageInvariant, Advances

\* A crash and a restart leave nobody at work, and nothing in the server's queue.
LEMMA CrashKnows ==
    ASSUME ServerAlone, TypeOK, StageInvariant, Crash \/ Restart
    PROVE  StageInvariant' /\ UNCHANGED <<row, runs>>
<1>1. /\ ThreadsKnow /\ QueuesKnow /\ ServerQuiet
      /\ Executor \in Threads /\ Processes = {Server} /\ UNCHANGED <<row, runs>>
  BY DEF StageInvariant, Threads, ServerAlone, Processes, Crash, Restart, dbVars, history
<1>2. /\ \A t \in Threads \ {Executor} : th'[t].pc = "idle"
      /\ th'[Executor].pc = (IF Crash THEN "idle" ELSE "recover")
  <2>1. CASE Crash
    BY <1>1, <2>1 DEF Crash, ServerAlone, At
  <2>2. CASE ~Crash
    BY <1>1, <2>2, MoveFacts DEF Restart, ServerQuiet
  <2> QED
    BY <2>1, <2>2
<1>3. ThreadsKnow' /\ ClosersClean'
  BY <1>1, <1>2 DEF ThreadsKnow, Knows, ClosersClean, Closing, IsDeciding, Approving
<1>4. queue'[Server] = <<>>
  BY <1>1 DEF Crash, Restart, ServerQuiet, TypeOK
<1>5. QueuesKnow' /\ QueuedIn(Server)' = {}
  BY <1>1, <1>4, EmptySeq DEF QueuesKnow, QueuedIn
<1>6. /\ phase' = (IF Crash THEN "down" ELSE "recovering")
      /\ Crash => recovery' = {}
      /\ \A c \in recovery' : \E i \in Ids : Stage(i) \in InFlight /\ c = Copy(i, row[i])
  BY DEF Crash, Restart, IncompleteIds, Incomplete, Stage
<1>7. ServerQuiet'
  BY <1>2, <1>4, <1>6 DEF ServerQuiet
<1>8. RecoveryKnows'
  BY <1>1, <1>2, <1>5, <1>6 DEF RecoveryKnows, Copy, Stage
<1> QED
  BY <1>1, <1>3, <1>5, <1>7, <1>8 DEF StageInvariant

LEMMA StartSteers ==
    ASSUME ServerAlone, TypeOK, StartWorkers
    PROVE  Steers(Executor) /\ ServerQuiet' /\ RecoveryKnows' /\ UNCHANGED runs
<1>1. /\ Executor \in Threads /\ Goto(Executor, "idle") /\ UNCHANGED <<row, queue, runs>>
      /\ phase' = "up" /\ recovery' = {}
  BY DEF Threads, StartWorkers, dbVars, history
<1>2. (\A u \in Threads \ {Executor} : th'[u] = th[u]) /\ th'[Executor].pc = "idle"
  BY <1>1, MoveFacts
<1> QED
  BY <1>1, <1>2, RestingKnows DEF Steers, Queues, ServerQuiet, RecoveryKnows

\* A goroutine's step is one the promise allows.
LEMMA SteersMap ==
    ASSUME TypeOK, TypeOK', NEW t, Steers(t), UNCHANGED runs
    PROVE  [Lifecycle!Next]_(Lifecycle!vars)
<1>1. CASE UNCHANGED row
  BY <1>1 DEF Lifecycle!vars
<1>2. ASSUME NEW b \in Ids, Only(b), Advances(b) PROVE [Lifecycle!Next]_(Lifecycle!vars)
  BY <1>2, AdvanceMaps
<1> QED
  BY <1>1, <1>2 DEF Steers

\* The actuator is called for a running row that has not run.
LEMMA ActMaps ==
    ASSUME NothingMissed, TypeOK, OneBearer, StageInvariant, Act(Executor)
    PROVE  [Lifecycle!Next]_(Lifecycle!vars)
<1>1. /\ Executor \in Threads /\ th[Executor].pc = "act" /\ th[Executor].id \in Ids
      /\ Stage(th[Executor].id) = "running" /\ UNCHANGED row
  BY BusyType DEF Act, Threads, StageInvariant, ThreadsKnow, Knows, Pcs, Resting, dbVars
<1>2. PICK b \in Ids : b = th[Executor].id
  BY <1>1
<1>3. runs[b] = 0
  <2>1. Bears(Executor, th[Executor], b)
    BY <1>1, <1>2 DEF Bears, Executing
  <2> QED
    BY <1>1, <2>1 DEF NothingMissed, OneBearer, RunOnce
<1>4. UNCHANGED runs \/ runs' = [runs EXCEPT ![b] = 1]
  BY <1>2, <1>3 DEF Act
<1>5. CASE UNCHANGED runs
  BY <1>1, <1>5 DEF Lifecycle!vars
<1>6. CASE runs' = [runs EXCEPT ![b] = 1]
  <2>1. Lifecycle!Run(b)
    BY <1>1, <1>2, <1>3, <1>6 DEF Lifecycle!Run, Stage
  <2> QED
    BY <2>1 DEF Lifecycle!Next
<1> QED
  BY <1>4, <1>5, <1>6

\* The sweep decides on several actions at once.
LEMMA SweepMaps ==
    ASSUME TypeOK, GateInvariant, ExpireStaleApprovals
    PROVE  /\ [Lifecycle!Next]_(Lifecycle!vars)
           /\ \A i \in Ids : \/ row'[i].lifecycle = Stage(i)
                             \/ Stage(i) = "pending_approval" /\ row'[i].lifecycle = "completed"
<1>1. PICK as \in SUBSET {a \in Actions : Decidable(row[Primary(a)])} :
         /\ as # {} /\ UNCHANGED runs
         /\ row' = [i \in Ids |-> IF IsPrimary(i) /\ i[1] \in as THEN Expired(row[i]) ELSE row[i]]
  BY DEF ExpireStaleApprovals
<1> DEFINE is == {i \in Ids : IsPrimary(i) /\ i[1] \in as}
<1>2. \A i \in is : IsGated(i) /\ Stage(i) = "pending_approval"
  <2> SUFFICES ASSUME NEW i \in is PROVE IsGated(i) /\ Stage(i) = "pending_approval"
    OBVIOUS
  <2>1. i \in Ids /\ i = Primary(i[1]) /\ Decidable(row[i])
    BY <1>1, IdTypes
  <2> QED
    BY <2>1, RowFacts DEF GateInvariant, RowsSound, RowSound, Sound, Decidable, Stage
<1>3. \A i \in Ids : row'[i].lifecycle = IF i \in is THEN "completed" ELSE Stage(i)
  <2> SUFFICES ASSUME NEW i \in Ids PROVE row'[i].lifecycle = IF i \in is THEN "completed" ELSE Stage(i)
    OBVIOUS
  <2>1. row[i] \in Rows
    BY DEF TypeOK
  <2>2. Expired(row[i]).lifecycle = "completed"
    BY <2>1, HonestRows DEF Expired
  <2> QED
    BY <1>1, <2>2 DEF Stage
<1>4. is # {}
  <2>1. PICK a \in as : TRUE
    BY <1>1
  <2> QED
    BY <1>1, <2>1, IdTypes
<1> HIDE DEF is
<1>5. is \in (SUBSET {i \in Ids : IsGated(i)}) \ {{}}
  <2>1. is \subseteq Ids
    BY DEF is
  <2> QED
    BY <1>2, <1>4, <2>1
<1>6. Lifecycle!Decide
  <2>1. [i \in Ids |-> row'[i].lifecycle] = [i \in Ids |-> IF i \in is THEN "completed" ELSE row[i].lifecycle]
    BY <1>3 DEF Stage
  <2>2. \A i \in is : i \in Ids /\ row[i].lifecycle = "pending_approval"
    BY <1>2 DEF is, Stage
  <2> QED
    BY <1>1, <1>5, <2>1, <2>2 DEF Lifecycle!Decide
<1> QED
  BY <1>2, <1>3, <1>6 DEF Lifecycle!Next

LEMMA StageNext ==
    ASSUME ServerAlone, OneApprover, OneEvaluator, NothingMissed,
           TypeOK, GateInvariant, HonestInvariant, OnceInvariant, StageInvariant, [Next]_vars
    PROVE  StageInvariant' /\ NothingMissed' /\ [Lifecycle!Next]_(Lifecycle!vars)
<1>m. NothingMissed'
  BY MissedGrows, NothingFails DEF NothingMissed
<1> SUFFICES StageInvariant' /\ [Lifecycle!Next]_(Lifecycle!vars)
  BY <1>m
<1>k. Keeps /\ OneBearer /\ Clis = {} /\ Executor \in Threads
  BY BearersNext DEF OnceInvariant, ServerAlone, Threads
<1>t. TypeOK'
  BY TypeNext
<1>1. ASSUME NEW t \in Evaluators \cup Handlers, Steers(t), UNCHANGED runs,
             Propose(t) \/ QueueReset(t) \/ Decide(t)
      PROVE  StageInvariant' /\ [Lifecycle!Next]_(Lifecycle!vars)
  <2>1. t \in Threads
    BY DEF Threads
  <2>2. ThreadsKnow' /\ QueuesKnow' /\ ClosersClean'
    BY <1>1, <1>k, <2>1, SteersKnows
  <2>3. ServerQuiet' /\ RecoveryKnows'
    BY <1>1, WorkersQuiet
  <2> QED
    BY <1>1, <1>t, <2>2, <2>3, SteersMap DEF StageInvariant
<1>2. CASE \E t \in Evaluators \cup Handlers : Propose(t)
  BY <1>1, <1>2, ProposeSteers
<1>3. CASE \E t \in Evaluators : QueueReset(t)
  BY <1>1, <1>3, ResetSteers
<1>4. CASE \E t \in Handlers : Decide(t)
  BY <1>1, <1>4, DecideSteers
<1>5. CASE \E t \in {Executor} \cup Clis : Execute(t)
  <2>1. Execute(Executor)
    BY <1>5, <1>k
  <2>2. Steers(Executor) /\ (~Act(Executor) => UNCHANGED runs)
    BY <2>1, ExecuteSteers
  <2>3. ThreadsKnow' /\ QueuesKnow' /\ ClosersClean' /\ ServerQuiet' /\ RecoveryKnows'
    BY <1>k, <2>1, <2>2, SteersKnows, ExecutorQuiet
  <2>4. [Lifecycle!Next]_(Lifecycle!vars)
    BY <1>k, <1>t, <2>2, SteersMap, ActMaps
  <2> QED
    BY <2>3, <2>4 DEF StageInvariant
<1>6. CASE Crash \/ Restart
  <2>1. StageInvariant' /\ UNCHANGED <<row, runs>>
    BY <1>6, CrashKnows
  <2> QED
    BY <2>1 DEF Lifecycle!vars
<1>7. ASSUME NEW c \in recovery, RecoverRow(c)
      PROVE  StageInvariant' /\ [Lifecycle!Next]_(Lifecycle!vars)
  <2>1. StageInvariant' /\ Only(c.id) /\ Advances(c.id) /\ c.id \in Ids /\ UNCHANGED runs
    BY <1>7, RecoverySteers
  <2> QED
    BY <1>t, <2>1, AdvanceMaps
<1>8. CASE StartWorkers
  <2>1. Steers(Executor) /\ ServerQuiet' /\ RecoveryKnows' /\ UNCHANGED runs
    BY <1>8, StartSteers
  <2>2. ThreadsKnow' /\ QueuesKnow' /\ ClosersClean'
    BY <1>k, <2>1, SteersKnows
  <2> QED
    BY <1>t, <2>1, <2>2, SteersMap DEF StageInvariant
<1>9. CASE ExpireStaleApprovals
  <2>1. UNCHANGED <<queue, th, phase, recovery>>
    BY <1>9 DEF ExpireStaleApprovals
  <2> QED
    BY <1>9, <1>k, <2>1, SweepMaps, IdleStep
<1>10. CASE \/ ExpireOldFreezes \/ (\E h \in Holds : BeginHold(h) \/ EndHold(h))
            \/ UNCHANGED vars
  <2>1. /\ UNCHANGED <<row, runs, queue, phase, recovery>>
        /\ \A t \in Threads : /\ th'[t].pc = th[t].pc /\ th'[t].id = th[t].id
                              /\ th'[t].rec = th[t].rec /\ th'[t].verb = th[t].verb
    BY <1>10 DEF ExpireOldFreezes, BeginHold, EndHold, EndHolds, history, vars, TypeOK, Goroutines
  <2>2. \A i \in Ids : row'[i].lifecycle = Stage(i)
    BY <2>1 DEF Stage
  <2>3. StageInvariant'
    BY <1>k, <2>1, <2>2, IdleStep
  <2> QED
    BY <2>1, <2>3 DEF Lifecycle!vars
<1> QED
  BY <1>k, <1>2, <1>3, <1>4, <1>5, <1>6, <1>7, <1>8, <1>9, <1>10 DEF Next, Recover, Operate

\* With one approver and one evaluator, no CLI process and no failed statement, the control
\* plane keeps the promise of ControlLifecycle: through every crash, restart, full queue,
\* hold and late decision, the row of an action only moves forward, a gated one waits for
\* its decision, and the actuator is called once, while the row is running.
THEOREM LifecycleIsKept ==
    ASSUME OneApprover, OneEvaluator, ServerAlone
    PROVE  Spec => ImplementsLifecycle
<1>1. AtMostOneFault
  BY DEF ServerAlone, AtMostOneFault
<1>2. Init => OnceInvariant /\ StageInvariant /\ NothingMissed /\ Lifecycle!Init
  BY OnceInit, StageInit, LifecycleInit DEF Init, NothingMissed
<1>3. TypeOK /\ GateInvariant /\ HonestInvariant /\ OnceInvariant /\ StageInvariant /\ NothingMissed
      /\ [Next]_vars
      => OnceInvariant' /\ StageInvariant' /\ NothingMissed' /\ [Lifecycle!Next]_(Lifecycle!vars)
  BY <1>1, OnceNext, StageNext
<1> QED
  BY <1>2, <1>3, TypeCorrect, GateHolds, HonestHolds, PTL DEF Spec, ImplementsLifecycle, Lifecycle!Spec
=============================================================================
