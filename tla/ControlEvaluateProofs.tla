----------------------- MODULE ControlEvaluateProofs -----------------------
(***************************************************************************)
(* Theorems about ControlEvaluate, for every set of evaluators, candidates  *)
(* and meshes, every policy and every bound.                               *)
(***************************************************************************)
EXTENDS ControlEvaluate, SequenceTheorems, FiniteSetTheorems, TLAPS

(***************************************************************************)
(* Types.                                                                  *)
(***************************************************************************)

\* What an evaluator and the executor may be at, with ids from a set.
Passes(D) ==
    [pc : {"idle", "active", "judge", "write", "push"}, at : Times,
     todo : SUBSET Candidates, blocked : SUBSET Candidates,
     hot : SUBSET Targets, known : SUBSET Targets, decided : SUBSET Decision, id : D \cup {0}]

Works(D) ==
    [pc : {"idle", "act", "finish", "store", "follow", "insert"}, id : D \cup {0}, clock : Times]

\* Who is about to push or works on a row holds the id of one.
IdsHeld ==
    /\ \A e \in Evaluators : pass[e].pc = "push" => pass[e].id \in DOMAIN rows
    /\ exec.pc # "idle" => exec.id \in DOMAIN rows

EvalShape == EvalTypeOK /\ IdsHeld

LEMMA ConstantFacts ==
    ASSUME mesh \in Meshes
    PROVE  /\ MaxNow[mesh] \in Nat /\ MaxRows[mesh] \in Nat /\ Budget \in Nat
           /\ Window \in Nat /\ Cooldown \in Nat /\ Lifetime \in Nat /\ QueueSize \in Nat
           /\ ActiveLimit \in Nat /\ HistoryLimit \in Nat /\ BudgetSlack \in Nat
           /\ 0 \in Times /\ \A t \in Times : t \in Nat
BY EvaluateAssumption DEF Budget, Cooldown, Times

LEMMA StateFacts ==
    ASSUME EvalTypeOK
    PROVE  /\ mesh \in Meshes /\ now \in Nat /\ now \in Times
           /\ rows \in Seq(Row) /\ Len(rows) \in Nat /\ DOMAIN rows = 1..Len(rows)
           /\ \A i \in DOMAIN rows : i \in Nat \ {0} /\ rows[i] \in Row
           /\ DOMAIN queue = 1..Len(queue) /\ Len(queue) \in Nat
           /\ \A k \in DOMAIN queue : queue[k] \in DOMAIN rows
           /\ \A e \in Evaluators : pass[e] \in Passes(DOMAIN rows)
           /\ exec \in Works(DOMAIN rows)
<1>1. rows \in Seq(Row) /\ queue \in Seq(DOMAIN rows)
  BY DEF EvalTypeOK
<1>2. /\ Len(rows) \in Nat /\ DOMAIN rows = 1..Len(rows) /\ \A i \in 1..Len(rows) : rows[i] \in Row
  BY <1>1, LenProperties, ElementOfSeq
<1>3. /\ Len(queue) \in Nat /\ DOMAIN queue = 1..Len(queue)
      /\ \A k \in 1..Len(queue) : queue[k] \in DOMAIN rows
  BY <1>1, LenProperties, ElementOfSeq
<1>4. mesh \in Meshes /\ now \in Times
  BY DEF EvalTypeOK
<1>5. now \in Nat
  BY <1>4, ConstantFacts
<1>6. (\A e \in Evaluators : pass[e] \in Passes(DOMAIN rows)) /\ exec \in Works(DOMAIN rows)
  BY DEF EvalTypeOK, Passes, Works
<1> QED
  BY <1>1, <1>2, <1>3, <1>4, <1>5, <1>6

\* The fields of a row.
LEMMA RowFields ==
    ASSUME mesh \in Meshes, NEW r \in Row
    PROVE  /\ r.wish \in Wishes /\ r.at \in Times /\ r.at \in Nat /\ r.state \in States
           /\ r.done \in Times /\ r.done \in Nat /\ r.reverted \in BOOLEAN
           /\ r.put \in Times /\ r.put \in Nat /\ r.by \in Evaluators \cup {"executor", "reset"}
BY ConstantFacts DEF Row

\* A row that changes its state, its end or its mark stays a row; so is a new one.
LEMMA RowTypes ==
    ASSUME mesh \in Meshes
    PROVE  /\ \A r \in Row : \A s \in States : [r EXCEPT !.state = s] \in Row
           /\ \A r \in Row : [r EXCEPT !.reverted = TRUE] \in Row
           /\ \A r \in Row : \A s \in States : \A t \in Times : [r EXCEPT !.state = s, !.done = t] \in Row
           /\ \A r \in Row : \A s \in States : \A t, u \in Times :
                  [r EXCEPT !.state = s, !.done = t, !.put = u] \in Row
           /\ \A w \in Wishes, t \in Times, s \in States, b \in Evaluators \cup {"executor", "reset"} :
                  NewRow(w, t, s, b) \in Row
<1>1. /\ \A r \in Row : \A s \in States : [r EXCEPT !.state = s] \in Row
      /\ \A r \in Row : [r EXCEPT !.reverted = TRUE] \in Row
  BY DEF Row
<1>2. \A r \in Row : \A s \in States : \A t \in Times : [r EXCEPT !.state = s, !.done = t] \in Row
  BY DEF Row
<1>3. \A r \in Row : \A s \in States : \A t, u \in Times :
          [r EXCEPT !.state = s, !.done = t, !.put = u] \in Row
  BY DEF Row
<1>4. \A w \in Wishes, t \in Times, s \in States, b \in Evaluators \cup {"executor", "reset"} :
          NewRow(w, t, s, b) \in Row
  BY ConstantFacts DEF Row, NewRow
<1> QED
  BY <1>1, <1>2, <1>3, <1>4

\* One row is rewritten.
LEMMA SetRow ==
    ASSUME EvalTypeOK, NEW i \in DOMAIN rows, NEW r \in Row
    PROVE  LET s == [rows EXCEPT ![i] = r]
           IN  /\ s \in Seq(Row) /\ Len(s) = Len(rows) /\ DOMAIN s = DOMAIN rows
               /\ s[i] = r /\ \A j \in DOMAIN rows \ {i} : s[j] = rows[j]
<1> DEFINE s == [rows EXCEPT ![i] = r]
<1>1. rows \in Seq(Row) /\ DOMAIN rows = 1..Len(rows)
  BY StateFacts
<1>2. s \in Seq(Row) /\ Len(s) = Len(rows)
  BY <1>1, ExceptSeq
<1>3. DOMAIN s = DOMAIN rows /\ s[i] = r /\ \A j \in DOMAIN rows \ {i} : s[j] = rows[j]
  OBVIOUS
<1> QED
  BY <1>2, <1>3

\* One row is stored.
LEMMA AddRow ==
    ASSUME mesh \in Meshes, NEW t \in Seq(Row), NEW r \in Row, Len(t) < MaxRows[mesh]
    PROVE  LET s == Append(t, r)
           IN  /\ s \in Seq(Row) /\ Len(s) = Len(t) + 1 /\ Len(s) <= MaxRows[mesh]
               /\ DOMAIN s = DOMAIN t \cup {Len(t) + 1} /\ Len(t) + 1 \notin DOMAIN t
               /\ Len(t) + 1 \in Nat \ {0}
               /\ s[Len(t) + 1] = r /\ \A j \in DOMAIN t : s[j] = t[j]
<1> DEFINE s == Append(t, r)
<1>1. /\ s \in Seq(Row) /\ Len(s) = Len(t) + 1 /\ s[Len(t) + 1] = r
      /\ \A j \in 1..Len(t) : s[j] = t[j]
  BY AppendProperties
<1>2. Len(t) \in Nat /\ DOMAIN t = 1..Len(t) /\ DOMAIN s = 1..Len(s)
  BY <1>1, LenProperties
<1>3. MaxRows[mesh] \in Nat
  BY ConstantFacts
<1> HIDE DEF s
<1> QED
  <2>1. /\ Len(s) <= MaxRows[mesh] /\ Len(t) + 1 \in Nat \ {0}
        /\ DOMAIN s = DOMAIN t \cup {Len(t) + 1} /\ Len(t) + 1 \notin DOMAIN t
    BY <1>1, <1>2, <1>3
  <2> QED
    BY <1>1, <1>2, <2>1 DEF s

\* More rows, the same states.
LEMMA Widened ==
    ASSUME NEW C, NEW D, C \subseteq D
    PROVE  Passes(C) \subseteq Passes(D) /\ Works(C) \subseteq Works(D) /\ Seq(C) \subseteq Seq(D)
<1>1. Passes(C) \subseteq Passes(D)
  BY DEF Passes
<1>2. Works(C) \subseteq Works(D)
  BY DEF Works
<1>3. Seq(C) \subseteq Seq(D)
  BY SeqMonotonic
<1> QED
  BY <1>1, <1>2, <1>3

\* What a step has to keep.
LEMMA ShapeStep ==
    ASSUME EvalTypeOK, mesh' = mesh, now' \in Times,
           rows' \in Seq(Row), Len(rows') <= MaxRows[mesh],
           queue' \in Seq(DOMAIN rows'), Len(queue') <= QueueSize,
           pass' \in [Evaluators -> Passes(DOMAIN rows')], exec' \in Works(DOMAIN rows'),
           \A e \in Evaluators : pass'[e].pc = "push" => pass'[e].id \in DOMAIN rows',
           exec'.pc # "idle" => exec'.id \in DOMAIN rows'
    PROVE  EvalShape'
BY DEF EvalShape, EvalTypeOK, IdsHeld, Passes, Works, Times, Row

\* One evaluator moves, and the rows do not become fewer.
LEMMA OnePass ==
    ASSUME EvalShape, NEW e \in Evaluators, DOMAIN rows \subseteq DOMAIN rows',
           NEW p \in Passes(DOMAIN rows'), p.pc = "push" => p.id \in DOMAIN rows',
           pass' = [pass EXCEPT ![e] = p]
    PROVE  /\ pass' \in [Evaluators -> Passes(DOMAIN rows')]
           /\ \A f \in Evaluators : pass'[f].pc = "push" => pass'[f].id \in DOMAIN rows'
           /\ pass'[e] = p /\ \A f \in Evaluators \ {e} : pass'[f] = pass[f]
<1>1. /\ pass \in [Evaluators -> Passes(DOMAIN rows)]
      /\ \A f \in Evaluators : pass[f].pc = "push" => pass[f].id \in DOMAIN rows
  BY DEF EvalShape, EvalTypeOK, IdsHeld, Passes
<1>2. Passes(DOMAIN rows) \subseteq Passes(DOMAIN rows')
  BY Widened
<1>3. pass'[e] = p /\ \A f \in Evaluators \ {e} : pass'[f] = pass[f]
  BY <1>1
<1>4. pass' \in [Evaluators -> Passes(DOMAIN rows')]
  BY <1>1, <1>2
<1> QED
  BY <1>1, <1>3, <1>4

\* Evaluators that only read.
LEMMA PassMoves ==
    ASSUME EvalShape, NEW e \in Evaluators, NEW p \in Passes(DOMAIN rows), p.pc # "push",
           pass' = [pass EXCEPT ![e] = p], UNCHANGED <<mesh, now, rows, queue, exec>>
    PROVE  EvalShape' /\ pass'[e] = p
<1>1. /\ pass' \in [Evaluators -> Passes(DOMAIN rows')]
      /\ \A f \in Evaluators : pass'[f].pc = "push" => pass'[f].id \in DOMAIN rows'
      /\ pass'[e] = p
  BY OnePass
<1>2. /\ now' \in Times /\ rows' \in Seq(Row) /\ Len(rows') <= MaxRows[mesh]
      /\ queue' \in Seq(DOMAIN rows') /\ Len(queue') <= QueueSize
      /\ exec' \in Works(DOMAIN rows') /\ (exec'.pc # "idle" => exec'.id \in DOMAIN rows')
      /\ mesh' = mesh /\ EvalTypeOK
  BY StateFacts DEF EvalShape, EvalTypeOK, IdsHeld
<1> QED
  BY <1>1, <1>2, ShapeStep

\* Steps that rewrite a row, or add one, and leave the evaluators where they are.
LEMMA RowMoves ==
    ASSUME EvalShape, UNCHANGED <<mesh, now, pass>>,
           rows' \in Seq(Row), Len(rows') <= MaxRows[mesh], DOMAIN rows \subseteq DOMAIN rows',
           queue' \in Seq(DOMAIN rows'), Len(queue') <= QueueSize,
           exec' \in Works(DOMAIN rows'), exec'.pc # "idle" => exec'.id \in DOMAIN rows'
    PROVE  EvalShape'
<1>1. /\ pass' \in [Evaluators -> Passes(DOMAIN rows')]
      /\ \A f \in Evaluators : pass'[f].pc = "push" => pass'[f].id \in DOMAIN rows'
  <2>1. /\ pass \in [Evaluators -> Passes(DOMAIN rows)]
        /\ \A f \in Evaluators : pass[f].pc = "push" => pass[f].id \in DOMAIN rows
    BY DEF EvalShape, EvalTypeOK, IdsHeld, Passes
  <2>2. Passes(DOMAIN rows) \subseteq Passes(DOMAIN rows')
    BY Widened
  <2> QED
    BY <2>1, <2>2
<1>2. now' \in Times /\ EvalTypeOK
  BY StateFacts DEF EvalShape
<1> QED
  BY <1>1, <1>2, ShapeStep

\* A push, and its failure, keep the queue one of ids.
LEMMA QueueTypes ==
    ASSUME EvalTypeOK, NEW D, DOMAIN rows \subseteq D, NEW i \in D
    PROVE  /\ queue \in Seq(D) /\ Len(queue) <= QueueSize
           /\ Len(queue) < QueueSize => /\ Append(queue, i) \in Seq(D)
                                        /\ Len(Append(queue, i)) <= QueueSize
           /\ PushFollowUp(i) => queue' \in Seq(D) /\ Len(queue') <= QueueSize
<1>1. queue \in Seq(D) /\ Len(queue) \in Nat /\ Len(queue) <= QueueSize /\ QueueSize \in Nat
  BY StateFacts, ConstantFacts, SeqMonotonic DEF EvalTypeOK
<1>2. Append(queue, i) \in Seq(D) /\ Len(Append(queue, i)) = Len(queue) + 1
  BY <1>1, AppendProperties
<1>3. Len(queue) < QueueSize => Len(Append(queue, i)) <= QueueSize
  BY <1>1, <1>2
<1> QED
  BY <1>1, <1>2, <1>3 DEF PushFollowUp

\* Evaluations.
LEMMA BeginType ==
    ASSUME EvalShape
    PROVE  /\ [Idle EXCEPT !.pc = "active", !.at = now] \in Passes(DOMAIN rows)
           /\ Idle \in Passes(DOMAIN rows)
<1>1. now \in Times /\ 0 \in Times
  BY StateFacts, ConstantFacts DEF EvalShape
<1> QED
  BY <1>1 DEF Idle, Passes

LEMMA ReadActiveType ==
    ASSUME EvalShape, NEW e \in Evaluators, ReadActive(e)
    PROVE  EvalShape' /\ pass'[e].pc # "push"
<1>1. PICK wishes \in mesh, active \in Newest(Since(Before(pass[e].at, Window)), ActiveLimit) :
          pass' = [pass EXCEPT ![e].pc = IF wishes = {} THEN "write" ELSE "judge", ![e].todo = wishes,
                               ![e].blocked = {w \in wishes : Conflicts(active, w, pass[e].at)}]
  BY DEF ReadActive
<1>2. wishes \subseteq Candidates
  BY EvaluateAssumption DEF EvalShape, EvalTypeOK
<1>3. PICK blocked \in SUBSET Candidates :
          blocked = {w \in wishes : Conflicts(active, w, pass[e].at)}
  BY <1>2
<1>4. pass[e] \in Passes(DOMAIN rows)
  BY StateFacts DEF EvalShape
<1>5. PICK pc \in {"write", "judge"} : pc = IF wishes = {} THEN "write" ELSE "judge"
  OBVIOUS
<1>6. PICK p : p = [pass[e] EXCEPT !.pc = pc, !.todo = wishes, !.blocked = blocked]
  OBVIOUS
<1>7. p \in Passes(DOMAIN rows) /\ p.pc # "push"
  BY <1>2, <1>4, <1>6 DEF Passes
<1>8. pass' = [pass EXCEPT ![e] = p]
  BY <1>1, <1>3, <1>5, <1>6 DEF EvalShape, EvalTypeOK
<1> QED
  BY <1>7, <1>8, PassMoves DEF ReadActive

LEMMA ReadHistoryType ==
    ASSUME EvalShape, NEW e \in Evaluators, NEW t \in Targets, ReadHistory(e, t)
    PROVE  EvalShape' /\ pass'[e].pc # "push"
<1>1. PICK hot \in {pass[e].hot, pass[e].hot \cup {t}} :
          pass' = [pass EXCEPT ![e].known = @ \cup {t}, ![e].hot = hot]
  BY DEF ReadHistory
<1>2. pass[e] \in Passes(DOMAIN rows) /\ pass[e].pc = "judge"
  BY StateFacts DEF EvalShape, ReadHistory, At
<1>3. PICK p : p = [pass[e] EXCEPT !.known = @ \cup {t}, !.hot = hot]
  OBVIOUS
<1>4. p \in Passes(DOMAIN rows) /\ p.pc # "push"
  BY <1>1, <1>2, <1>3 DEF Passes
<1>5. pass' = [pass EXCEPT ![e] = p]
  BY <1>1, <1>3 DEF EvalShape, EvalTypeOK
<1> QED
  BY <1>4, <1>5, PassMoves DEF ReadHistory

LEMMA JudgeType ==
    ASSUME EvalShape, NEW e \in Evaluators, NEW w \in Candidates, Judge(e, w)
    PROVE  EvalShape' /\ pass'[e].pc # "push"
<1>1. PICK allowed \in BOOLEAN :
          LET decided == pass[e].decided \cup {[wish |-> w, allowed |-> allowed]}
          IN  pass' = IF pass[e].todo = {w}
                      THEN [pass EXCEPT ![e] = [Idle EXCEPT !.pc = "write", !.at = pass[e].at,
                                                            !.decided = decided]]
                      ELSE [pass EXCEPT ![e].todo = @ \ {w}, ![e].decided = decided]
  BY DEF Judge
<1>2. pass[e] \in Passes(DOMAIN rows) /\ pass[e].pc = "judge"
  BY StateFacts DEF EvalShape, Judge, At
<1>3. PICK decided \in SUBSET Decision : decided = pass[e].decided \cup {[wish |-> w, allowed |-> allowed]}
  <2>1. [wish |-> w, allowed |-> allowed] \in Decision
    BY DEF Decision
  <2>2. pass[e].decided \subseteq Decision
    BY <1>2 DEF Passes
  <2> QED
    BY <2>1, <2>2
<1>4. PICK p : p = IF pass[e].todo = {w}
                   THEN [Idle EXCEPT !.pc = "write", !.at = pass[e].at, !.decided = decided]
                   ELSE [pass[e] EXCEPT !.todo = @ \ {w}, !.decided = decided]
  OBVIOUS
<1>5. p \in Passes(DOMAIN rows) /\ p.pc # "push"
  BY <1>2, <1>4, BeginType DEF Passes, Idle
<1>6. pass' = [pass EXCEPT ![e] = p]
  BY <1>1, <1>3, <1>4 DEF EvalShape, EvalTypeOK
<1> QED
  BY <1>5, <1>6, PassMoves DEF Judge

(***************************************************************************)
(* Where each row is: queued rows, and those about to be queued, are        *)
(* pending, each in one place, and the executor's is running.              *)
(***************************************************************************)

Awaiting(i) == \E k \in DOMAIN queue : queue[k] = i

QueuePending == \A k \in DOMAIN queue : rows[queue[k]].state = "pending"
QueueDistinct == \A k, l \in DOMAIN queue : queue[k] = queue[l] => k = l
PushPending ==
    \A e \in Evaluators : At(e, "push") => rows[pass[e].id].state = "pending" /\ ~Awaiting(pass[e].id)
PushDistinct ==
    \A e, f \in Evaluators : At(e, "push") /\ At(f, "push") /\ pass[e].id = pass[f].id => e = f
WorkRunning == exec.pc \in {"act", "finish", "store"} => rows[exec.id].state = "running"

WorkInvariant == QueuePending /\ QueueDistinct /\ PushPending /\ PushDistinct /\ WorkRunning

(***************************************************************************)
(* What any step does to the rows and to the evaluations.  A row that is    *)
(* there only moves forward, and a new one stores a decision or follows up  *)
(* on another.                                                             *)
(***************************************************************************)

Onward(r, s) ==
    /\ s.wish = r.wish /\ s.at = r.at /\ s.by = r.by
    /\ \/ s.state = r.state /\ s.done = r.done /\ s.put = r.put
       \/ r.state = "held" /\ s.state \in {"pending", "denied"}
       \/ r.state = "pending" /\ s.state \in {"running", "denied", "failed"}
       \/ r.state = "running" /\ s.state = "failed"
       \/ r.state = "running" /\ s.state = "executed" /\ s.put = now

\* Row r is what evaluator e makes of decision d.
Stores(e, d, r) ==
    /\ d \in pass[e].decided /\ pass'[e].decided = pass[e].decided \ {d}
    /\ pass[e].pc = "write" /\ pass'[e].pc # "judge"
    /\ r.wish = d.wish /\ r.at = pass[e].at /\ r.by = e
    /\ r.state # "denied" => d.allowed
    /\ r.state = "held" <=> r.state # "denied" /\ r.wish \in Gated

Stored(r) ==
    /\ r.state \in {"held", "pending", "denied"}
    /\ \/ r.by \in Evaluators /\ \E d \in Decision : Stores(r.by, d, r)
       \/ r.by \notin Evaluators /\ r.state = "pending" /\ \E t \in {exec.clock} \cup {pass[e].at : e \in Evaluators} : r.at = t

\* Row i is executed in this step.
Ends(i) == rows[i].state # "executed" /\ rows'[i].state = "executed"

RowsForward ==
    /\ DOMAIN rows \subseteq DOMAIN rows'
    /\ \A i \in DOMAIN rows : Onward(rows[i], rows'[i])
    /\ \A i \in DOMAIN rows' \ DOMAIN rows : i = Len(rows) + 1 /\ Stored(rows'[i])
    /\ \A i, j \in DOMAIN rows : Ends(i) /\ Ends(j) => i = j

\* An evaluation that learns nothing: it begins or ends, or goes on with what was decided.
Fades(e) ==
    \/ pass'[e] = pass[e]
    \/ /\ ~At(e, "judge")' /\ pass'[e].at \in {0, now}
       /\ pass'[e].decided = {} /\ pass'[e].known = {}
    \/ /\ ~At(e, "judge") /\ ~At(e, "judge")' /\ ~At(e, "active")' /\ pass'[e].at = pass[e].at
       /\ pass'[e].decided \subseteq pass[e].decided

Learns(e) ==
    \/ ReadActive(e)
    \/ \E t \in Targets : ReadHistory(e, t)
    \/ \E w \in Candidates : Judge(e, w)

Forward ==
    /\ mesh' = mesh /\ now' \in {now, now + 1} /\ (now' # now => UNCHANGED <<rows, queue, pass, exec>>)
    /\ RowsForward
    /\ \A e \in Evaluators : Fades(e)

\* What is settled for one step: types, places and the way forward.
Settled == EvalShape' /\ WorkInvariant' /\ Forward

\* Nothing happens to the rows.
LEMMA SameRows == EvalShape /\ UNCHANGED rows => RowsForward
BY DEF RowsForward, Onward, Ends

\* Nobody comes to push, nobody takes: everything stays in its place.
LEMMA PlacesKept ==
    ASSUME WorkInvariant, UNCHANGED <<rows, queue, exec>>,
           \A e \in Evaluators : pass'[e] = pass[e] \/ pass'[e].pc # "push"
    PROVE  WorkInvariant'
<1>1. QueuePending' /\ QueueDistinct' /\ WorkRunning'
  BY DEF WorkInvariant, QueuePending, QueueDistinct, WorkRunning
<1>2. PushPending' /\ PushDistinct'
  BY DEF WorkInvariant, PushPending, PushDistinct, At, Awaiting
<1> QED
  BY <1>1, <1>2 DEF WorkInvariant

LEMMA BeginSettled ==
    ASSUME EvalShape, WorkInvariant, NEW e \in Evaluators, NEW x \in Works(DOMAIN rows),
           pass[e].pc # "push",
           \/ Begin(e)
           \/ pass' = [pass EXCEPT ![e] = Idle],
           UNCHANGED <<mesh, now, rows, queue>>,
           x = exec \/ (exec.pc = "act" /\ x = [exec EXCEPT !.pc = "finish"]), exec' = x
    PROVE  Settled
<1>1. PICK p \in Passes(DOMAIN rows) :
          /\ pass' = [pass EXCEPT ![e] = p]
          /\ p.pc \in {"idle", "active"} /\ p.decided = {} /\ p.known = {} /\ p.at \in {0, now}
  <2>1. /\ [Idle EXCEPT !.pc = "active", !.at = now].pc = "active"
        /\ [Idle EXCEPT !.pc = "active", !.at = now].decided = {}
        /\ [Idle EXCEPT !.pc = "active", !.at = now].known = {}
        /\ [Idle EXCEPT !.pc = "active", !.at = now].at = now
        /\ Idle.pc = "idle" /\ Idle.decided = {} /\ Idle.known = {} /\ Idle.at = 0
    BY DEF Idle
  <2> QED
    BY <2>1, BeginType DEF Begin
<1>2. /\ pass' \in [Evaluators -> Passes(DOMAIN rows')]
      /\ \A f \in Evaluators : pass'[f].pc = "push" => pass'[f].id \in DOMAIN rows'
      /\ pass'[e] = p /\ \A f \in Evaluators \ {e} : pass'[f] = pass[f]
  BY <1>1, OnePass
<1>x. x.pc # "idle" => x.id \in DOMAIN rows
  BY StateFacts DEF EvalShape, IdsHeld, Works
<1>3. EvalShape'
  <2>1. /\ now' \in Times /\ rows' \in Seq(Row) /\ Len(rows') <= MaxRows[mesh]
        /\ queue' \in Seq(DOMAIN rows') /\ Len(queue') <= QueueSize
        /\ exec' \in Works(DOMAIN rows') /\ (exec'.pc # "idle" => exec'.id \in DOMAIN rows')
        /\ mesh' = mesh /\ EvalTypeOK
    BY <1>x, StateFacts DEF EvalShape, EvalTypeOK
  <2> QED
    BY <1>2, <2>1, ShapeStep
<1>4. WorkInvariant'
  <2>1. PushPending' /\ PushDistinct'
    BY <1>1, <1>2 DEF WorkInvariant, PushPending, PushDistinct, At, Awaiting
  <2>2. WorkRunning'
    BY StateFacts DEF WorkInvariant, WorkRunning, EvalShape, Works
  <2>3. QueuePending' /\ QueueDistinct'
    BY DEF WorkInvariant, QueuePending, QueueDistinct
  <2> QED
    BY <2>1, <2>2, <2>3 DEF WorkInvariant
<1>5. \A f \in Evaluators : Fades(f)
  BY <1>1, <1>2 DEF Fades, At
<1> QED
  BY <1>3, <1>4, <1>5, SameRows DEF Settled, Forward

LEMMA TickSettled == EvalShape /\ WorkInvariant /\ Tick => Settled
<1> SUFFICES ASSUME EvalShape, WorkInvariant, Tick PROVE Settled
  OBVIOUS
<1>1. Worker \in Evaluators /\ exec \in Works(DOMAIN rows)
  BY EvaluateAssumption, StateFacts DEF EvalShape
<1> QED
  BY <1>1, BeginSettled DEF Tick, At

LEMMA EndPassSettled ==
    ASSUME EvalShape, WorkInvariant, NEW e \in Evaluators, EndPass(e)
    PROVE  Settled
<1>1. exec \in Works(DOMAIN rows)
  BY StateFacts DEF EvalShape
<1> QED
  BY <1>1, BeginSettled DEF EndPass, At

LEMMA ActSettled == EvalShape /\ WorkInvariant /\ Act => Settled
<1> SUFFICES ASSUME EvalShape, WorkInvariant, Act PROVE Settled
  OBVIOUS
<1>1. PICK x \in Works(DOMAIN rows) : x = [exec EXCEPT !.pc = "finish"]
  <2>1. exec \in Works(DOMAIN rows)
    BY StateFacts DEF EvalShape
  <2> QED
    BY <2>1 DEF Works
<1>2. CASE \E e \in Evaluators \ {Worker} : At(e, "idle") /\ Begin(e)
  BY <1>1, <1>2, BeginSettled DEF Act, At
<1>3. CASE UNCHANGED pass
  <2>1. exec.pc = "act" /\ exec' = x /\ UNCHANGED <<mesh, now, rows, queue>>
    BY <1>1 DEF Act
  <2>2. exec.id \in DOMAIN rows /\ x.id = exec.id
    BY <1>1, <2>1, StateFacts DEF EvalShape, IdsHeld, Works
  <2>3. EvalShape'
    <3>1. /\ rows' \in Seq(Row) /\ Len(rows') <= MaxRows[mesh]
          /\ queue' \in Seq(DOMAIN rows') /\ Len(queue') <= QueueSize
          /\ exec' \in Works(DOMAIN rows') /\ (exec'.pc # "idle" => exec'.id \in DOMAIN rows')
      BY <2>1, <2>2, StateFacts DEF EvalShape, EvalTypeOK
    <3> QED
      BY <1>3, <2>1, <3>1, RowMoves
  <2>4. WorkInvariant'
    <3>1. PushPending' /\ PushDistinct' /\ QueuePending' /\ QueueDistinct'
      BY <1>3, <2>1 DEF WorkInvariant, PushPending, PushDistinct, QueuePending, QueueDistinct, At, Awaiting
    <3>2. WorkRunning'
      BY <2>1, <2>2 DEF WorkInvariant, WorkRunning
    <3> QED
      BY <3>1, <3>2 DEF WorkInvariant
  <2> QED
    BY <1>3, <2>1, <2>3, <2>4, SameRows DEF Settled, Forward, Fades
<1> QED
  BY <1>2, <1>3 DEF Act

LEMMA PassSettled == EvalShape /\ WorkInvariant /\ Pass => Settled
<1> SUFFICES ASSUME EvalShape, WorkInvariant, Pass PROVE Settled
  OBVIOUS
<1>1. now < MaxNow[mesh] /\ now' = now + 1 /\ UNCHANGED <<mesh, rows, queue, pass, exec>>
  BY DEF Pass
<1>2. now' \in Times
  BY <1>1, StateFacts, ConstantFacts DEF EvalShape, Times
<1>3. EvalShape'
  <2>1. /\ rows' \in Seq(Row) /\ Len(rows') <= MaxRows[mesh]
        /\ queue' \in Seq(DOMAIN rows') /\ Len(queue') <= QueueSize
        /\ exec' \in Works(DOMAIN rows') /\ (exec'.pc # "idle" => exec'.id \in DOMAIN rows')
        /\ pass' \in [Evaluators -> Passes(DOMAIN rows')]
        /\ \A e \in Evaluators : pass'[e].pc = "push" => pass'[e].id \in DOMAIN rows'
    BY <1>1, StateFacts DEF EvalShape, EvalTypeOK, IdsHeld, Passes
  <2> QED
    BY <1>1, <1>2, <2>1, ShapeStep DEF EvalShape
<1>4. WorkInvariant'
  BY <1>1, PlacesKept
<1> QED
  BY <1>1, <1>3, <1>4, SameRows DEF Settled, Forward, Fades

\* Reading and judging.
LEMMA LearnsSettled ==
    ASSUME EvalShape, WorkInvariant, NEW e \in Evaluators, Learns(e)
    PROVE  /\ EvalShape' /\ WorkInvariant'
           /\ UNCHANGED <<mesh, now, rows, queue, exec>>
           /\ \A f \in Evaluators \ {e} : pass'[f] = pass[f]
<1>1. EvalShape'
  BY ReadActiveType, ReadHistoryType, JudgeType DEF Learns
<1>2. UNCHANGED <<mesh, now, rows, queue, exec>> /\ \A f \in Evaluators \ {e} : pass'[f] = pass[f]
  BY DEF Learns, ReadActive, ReadHistory, Judge, EvalShape, EvalTypeOK
<1>3. pass'[e].pc # "push"
  BY ReadActiveType, ReadHistoryType, JudgeType DEF Learns
<1>4. WorkInvariant'
  BY <1>2, <1>3, PlacesKept
<1> QED
  BY <1>1, <1>2, <1>4

\* One row is rewritten, forward, and nothing else about the rows.
LEMMA OneRowForward ==
    ASSUME EvalTypeOK, NEW i \in DOMAIN rows, NEW r \in Row, rows' = [rows EXCEPT ![i] = r],
           Onward(rows[i], r)
    PROVE  /\ RowsForward /\ rows' \in Seq(Row) /\ Len(rows') <= MaxRows[mesh]
           /\ DOMAIN rows' = DOMAIN rows
           /\ rows'[i] = r /\ \A j \in DOMAIN rows \ {i} : rows'[j] = rows[j]
<1>1. /\ rows' \in Seq(Row) /\ Len(rows') = Len(rows) /\ DOMAIN rows' = DOMAIN rows
      /\ rows'[i] = r /\ \A j \in DOMAIN rows \ {i} : rows'[j] = rows[j]
  BY SetRow
<1>2. RowsForward
  BY <1>1 DEF RowsForward, Onward, Ends
<1> QED
  BY <1>1, <1>2 DEF EvalTypeOK

\* One row is added.
LEMMA OneRowMore ==
    ASSUME EvalTypeOK, Room, NEW r \in Row, rows' = Append(rows, r), Stored(r)
    PROVE  /\ RowsForward /\ rows' \in Seq(Row) /\ Len(rows') <= MaxRows[mesh]
           /\ DOMAIN rows' = DOMAIN rows \cup {Len(rows) + 1} /\ Len(rows) + 1 \notin DOMAIN rows
           /\ rows'[Len(rows) + 1] = r /\ \A j \in DOMAIN rows : rows'[j] = rows[j]
<1>1. rows \in Seq(Row) /\ Len(rows) < MaxRows[mesh] /\ mesh \in Meshes
  BY StateFacts DEF Room
<1>2. /\ rows' \in Seq(Row) /\ Len(rows') <= MaxRows[mesh]
      /\ DOMAIN rows' = DOMAIN rows \cup {Len(rows) + 1} /\ Len(rows) + 1 \notin DOMAIN rows
      /\ rows'[Len(rows) + 1] = r /\ \A j \in DOMAIN rows : rows'[j] = rows[j]
  BY <1>1, AddRow
<1>3. RowsForward
  BY <1>2 DEF RowsForward, Onward, Ends
<1> QED
  BY <1>2, <1>3

\* What an evaluator writes.
LEMMA StoreSettled ==
    ASSUME EvalShape, WorkInvariant, NEW e \in Evaluators, NEW d \in Decision, Store(e, d)
    PROVE  Settled
<1>1. PICK free \in BOOLEAN, state \in {"denied", "held", "pending"} :
          /\ state = IF ~d.allowed \/ ~free THEN "denied"
                     ELSE IF d.wish \in Gated THEN "held" ELSE "pending"
          /\ rows' = Append(rows, NewRow(d.wish, pass[e].at, state, e))
          /\ pass' = [pass EXCEPT ![e].decided = @ \ {d},
                                  ![e].pc = IF state = "pending" THEN "push" ELSE "write",
                                  ![e].id = IF state = "pending" THEN Len(rows) + 1 ELSE 0]
  BY DEF Store, Verdicts
<1>2. /\ pass[e].pc = "write" /\ d \in pass[e].decided /\ Room
      /\ UNCHANGED <<mesh, now, queue, exec>>
  BY DEF Store, At
<1>3. EvalTypeOK /\ mesh \in Meshes /\ pass[e] \in Passes(DOMAIN rows) /\ d.wish \in Wishes
  BY StateFacts, EvaluateAssumption DEF EvalShape, Decision
<1>4. PICK r \in Row : r = NewRow(d.wish, pass[e].at, state, e)
  <2>1. pass[e].at \in Times /\ state \in States
    BY <1>3 DEF Passes, States
  <2> QED
    BY <1>3, <2>1, RowTypes
<1>5. r.wish = d.wish /\ r.at = pass[e].at /\ r.by = e /\ r.state = state
  BY <1>4 DEF NewRow
<1>6. PICK p : p = [pass[e] EXCEPT !.decided = @ \ {d},
                                   !.pc = IF state = "pending" THEN "push" ELSE "write",
                                   !.id = IF state = "pending" THEN Len(rows) + 1 ELSE 0]
  OBVIOUS
<1>7. pass' = [pass EXCEPT ![e] = p]
  BY <1>1, <1>6 DEF EvalShape, EvalTypeOK
<1>8. /\ p.decided = pass[e].decided \ {d} /\ p.at = pass[e].at
      /\ p.pc = IF state = "pending" THEN "push" ELSE "write"
      /\ p.id = IF state = "pending" THEN Len(rows) + 1 ELSE 0
  BY <1>3, <1>6 DEF Passes
<1>9. pass'[e] = p /\ \A f \in Evaluators \ {e} : pass'[f] = pass[f]
  BY <1>7 DEF EvalShape, EvalTypeOK
<1>10. Stores(e, d, r)
  BY <1>1, <1>2, <1>5, <1>8, <1>9 DEF Stores, At
<1>11. Stored(r)
  BY <1>1, <1>5, <1>10 DEF Stored
<1>12. /\ RowsForward /\ rows' \in Seq(Row) /\ Len(rows') <= MaxRows[mesh]
       /\ DOMAIN rows' = DOMAIN rows \cup {Len(rows) + 1} /\ Len(rows) + 1 \notin DOMAIN rows
       /\ rows'[Len(rows) + 1] = r /\ \A j \in DOMAIN rows : rows'[j] = rows[j]
  BY <1>1, <1>2, <1>3, <1>4, <1>11, OneRowMore
<1>13. p \in Passes(DOMAIN rows') /\ (p.pc = "push" => p.id \in DOMAIN rows')
  BY <1>3, <1>6, <1>8, <1>12 DEF Passes
<1>14. EvalShape'
  <2>1. /\ pass' \in [Evaluators -> Passes(DOMAIN rows')]
        /\ \A f \in Evaluators : pass'[f].pc = "push" => pass'[f].id \in DOMAIN rows'
    BY <1>7, <1>12, <1>13, OnePass
  <2>2. /\ now' \in Times /\ mesh' = mesh
        /\ queue' \in Seq(DOMAIN rows') /\ Len(queue') <= QueueSize
        /\ exec' \in Works(DOMAIN rows') /\ (exec'.pc # "idle" => exec'.id \in DOMAIN rows')
    <3>1. /\ queue \in Seq(DOMAIN rows) /\ exec \in Works(DOMAIN rows) /\ Len(queue) <= QueueSize
          /\ exec.pc # "idle" => exec.id \in DOMAIN rows
      BY StateFacts DEF EvalShape, EvalTypeOK, IdsHeld
    <3>2. Seq(DOMAIN rows) \subseteq Seq(DOMAIN rows') /\ Works(DOMAIN rows) \subseteq Works(DOMAIN rows')
      BY <1>12, Widened
    <3> QED
      BY <1>2, <1>3, <1>12, <3>1, <3>2, StateFacts
  <2> QED
    BY <1>3, <1>12, <2>1, <2>2, ShapeStep
<1>15. WorkInvariant'
  <2>1. /\ \A k \in DOMAIN queue : queue[k] \in DOMAIN rows
        /\ exec.pc # "idle" => exec.id \in DOMAIN rows
        /\ \A f \in Evaluators : pass[f].pc = "push" => pass[f].id \in DOMAIN rows
    BY <1>3, StateFacts DEF EvalShape, IdsHeld
  <2>2. QueuePending' /\ QueueDistinct' /\ WorkRunning'
    BY <1>2, <1>12, <2>1 DEF WorkInvariant, QueuePending, QueueDistinct, WorkRunning
  <2>3. PushPending'
    <3> SUFFICES ASSUME NEW f \in Evaluators, pass'[f].pc = "push"
                 PROVE  rows'[pass'[f].id].state = "pending" /\ \A k \in DOMAIN queue' : queue'[k] # pass'[f].id
      BY DEF PushPending, Awaiting, At
    <3>1. CASE f = e
      BY <1>2, <1>5, <1>8, <1>9, <1>12, <2>1, <3>1
    <3>2. CASE f # e
      BY <1>2, <1>9, <1>12, <2>1, <3>2 DEF WorkInvariant, PushPending, Awaiting, At
    <3> QED
      BY <3>1, <3>2
  <2>4. PushDistinct'
    BY <1>8, <1>9, <1>12, <2>1 DEF WorkInvariant, PushDistinct, At
  <2> QED
    BY <2>2, <2>3, <2>4 DEF WorkInvariant
<1>16. \A f \in Evaluators : Fades(f)
  BY <1>2, <1>8, <1>9 DEF Fades, At
<1> QED
  BY <1>2, <1>12, <1>14, <1>15, <1>16 DEF Settled, Forward

\* An id appended to the queue is the last of it.
LEMMA QueueGrows ==
    ASSUME EvalTypeOK, NEW i, queue' = Append(queue, i)
    PROVE  /\ DOMAIN queue' = DOMAIN queue \cup {Len(queue) + 1} /\ Len(queue) + 1 \notin DOMAIN queue
           /\ queue'[Len(queue) + 1] = i /\ \A k \in DOMAIN queue : queue'[k] = queue[k]
<1>1. queue \in Seq(DOMAIN rows \cup {i})
  <2>1. queue \in Seq(DOMAIN rows)
    BY DEF EvalTypeOK
  <2> QED
    BY <2>1, SeqMonotonic
<1>2. /\ queue' \in Seq(DOMAIN rows \cup {i}) /\ Len(queue') = Len(queue) + 1
      /\ queue'[Len(queue) + 1] = i /\ \A k \in 1..Len(queue) : queue'[k] = queue[k]
  BY <1>1, AppendProperties
<1>3. DOMAIN queue = 1..Len(queue) /\ Len(queue) \in Nat /\ DOMAIN queue' = 1..Len(queue')
  BY <1>1, <1>2, LenProperties
<1>4. DOMAIN queue' = DOMAIN queue \cup {Len(queue) + 1} /\ Len(queue) + 1 \notin DOMAIN queue
  BY <1>2, <1>3
<1> QED
  BY <1>2, <1>3, <1>4

LEMMA PushSettled ==
    ASSUME EvalShape, WorkInvariant, NEW e \in Evaluators, Push(e)
    PROVE  Settled
<1>1. /\ pass[e].pc = "push" /\ Len(queue) < QueueSize /\ UNCHANGED <<mesh, now, rows, exec>>
      /\ queue' = Append(queue, pass[e].id)
  BY DEF Push, At
<1>2. PICK i \in DOMAIN rows : i = pass[e].id
  BY <1>1 DEF EvalShape, IdsHeld
<1>3. PICK p \in Passes(DOMAIN rows) : p = [pass[e] EXCEPT !.pc = "write", !.id = 0]
  <2>1. pass[e] \in Passes(DOMAIN rows)
    BY StateFacts DEF EvalShape
  <2> QED
    BY <2>1 DEF Passes
<1>4. p.pc = "write" /\ p.decided = pass[e].decided /\ p.at = pass[e].at
  <2>1. pass[e] \in Passes(DOMAIN rows)
    BY StateFacts DEF EvalShape
  <2> QED
    BY <1>3, <2>1 DEF Passes
<1>5. pass' = [pass EXCEPT ![e] = p]
  BY <1>3 DEF Push, EvalShape, EvalTypeOK
<1>6. /\ pass' \in [Evaluators -> Passes(DOMAIN rows')]
      /\ \A f \in Evaluators : pass'[f].pc = "push" => pass'[f].id \in DOMAIN rows'
      /\ pass'[e] = p /\ \A f \in Evaluators \ {e} : pass'[f] = pass[f]
  BY <1>1, <1>4, <1>5, OnePass
<1>7. EvalShape'
  <2>1. /\ now' \in Times /\ rows' \in Seq(Row) /\ Len(rows') <= MaxRows[mesh]
        /\ exec' \in Works(DOMAIN rows') /\ (exec'.pc # "idle" => exec'.id \in DOMAIN rows')
        /\ mesh' = mesh /\ EvalTypeOK
    BY <1>1, StateFacts DEF EvalShape, EvalTypeOK, IdsHeld
  <2>2. queue' \in Seq(DOMAIN rows') /\ Len(queue') <= QueueSize
    BY <1>1, <1>2, <2>1, QueueTypes
  <2> QED
    BY <1>6, <2>1, <2>2, ShapeStep
<1>8. WorkInvariant'
  <2>1. /\ DOMAIN queue' = DOMAIN queue \cup {Len(queue) + 1} /\ Len(queue) + 1 \notin DOMAIN queue
        /\ queue'[Len(queue) + 1] = i /\ \A k \in DOMAIN queue : queue'[k] = queue[k]
    BY <1>1, <1>2, QueueGrows DEF EvalShape
  <2>2. rows[i].state = "pending" /\ \A k \in DOMAIN queue : queue[k] # i
    BY <1>1, <1>2 DEF WorkInvariant, PushPending, Awaiting, At
  <2>3. QueuePending' /\ QueueDistinct'
    BY <1>1, <2>1, <2>2 DEF WorkInvariant, QueuePending, QueueDistinct
  <2>4. WorkRunning'
    BY <1>1 DEF WorkInvariant, WorkRunning
  <2>5. PushPending' /\ PushDistinct'
    BY <1>1, <1>2, <1>4, <1>6, <2>1 DEF WorkInvariant, PushPending, PushDistinct, Awaiting, At
  <2> QED
    BY <2>3, <2>4, <2>5 DEF WorkInvariant
<1>9. \A f \in Evaluators : Fades(f)
  BY <1>1, <1>4, <1>6 DEF Fades, At
<1> QED
  BY <1>1, <1>7, <1>8, <1>9, SameRows DEF Settled, Forward

LEMMA DropSettled ==
    ASSUME EvalShape, WorkInvariant, NEW e \in Evaluators, Drop(e)
    PROVE  Settled
<1>1. pass[e].pc = "push" /\ UNCHANGED <<mesh, now, queue, exec>>
  BY DEF Drop, At
<1>2. PICK i \in DOMAIN rows : i = pass[e].id
  BY <1>1 DEF EvalShape, IdsHeld
<1>3. EvalTypeOK /\ mesh \in Meshes /\ rows[i] \in Row /\ pass[e] \in Passes(DOMAIN rows)
  BY StateFacts DEF EvalShape
<1>4. rows[i].state = "pending"
  BY <1>1, <1>2 DEF WorkInvariant, PushPending, At
<1>5. PICK r \in Row : r = [rows[i] EXCEPT !.state = "failed", !.done = pass[e].at]
  <2>1. pass[e].at \in Times /\ "failed" \in States
    BY <1>3 DEF Passes, States
  <2> QED
    BY <1>3, <2>1, RowTypes
<1>6. rows' = [rows EXCEPT ![i] = r] /\ Onward(rows[i], r)
  BY <1>2, <1>3, <1>4, <1>5 DEF Drop, Onward, Row
<1>7. /\ RowsForward /\ rows' \in Seq(Row) /\ Len(rows') <= MaxRows[mesh]
      /\ DOMAIN rows' = DOMAIN rows
      /\ rows'[i] = r /\ \A j \in DOMAIN rows \ {i} : rows'[j] = rows[j]
  BY <1>3, <1>6, OneRowForward
<1>8. PICK p \in Passes(DOMAIN rows) : p = [pass[e] EXCEPT !.pc = "write", !.id = 0]
  BY <1>3 DEF Passes
<1>9. p.pc = "write" /\ p.decided = pass[e].decided /\ p.at = pass[e].at
  BY <1>3, <1>8 DEF Passes
<1>10. pass' = [pass EXCEPT ![e] = p]
  BY <1>8 DEF Drop, EvalShape, EvalTypeOK
<1>11. /\ pass' \in [Evaluators -> Passes(DOMAIN rows')]
       /\ \A f \in Evaluators : pass'[f].pc = "push" => pass'[f].id \in DOMAIN rows'
       /\ pass'[e] = p /\ \A f \in Evaluators \ {e} : pass'[f] = pass[f]
  BY <1>7, <1>9, <1>10, OnePass
<1>12. EvalShape'
  <2>1. /\ now' \in Times /\ queue' \in Seq(DOMAIN rows') /\ Len(queue') <= QueueSize
        /\ exec' \in Works(DOMAIN rows') /\ (exec'.pc # "idle" => exec'.id \in DOMAIN rows')
    BY <1>1, <1>7, StateFacts DEF EvalShape, EvalTypeOK, IdsHeld
  <2> QED
    BY <1>1, <1>3, <1>7, <1>11, <2>1, ShapeStep
<1>13. WorkInvariant'
  <2>1. /\ \A k \in DOMAIN queue : queue[k] \in DOMAIN rows /\ queue[k] # i
        /\ \A f \in Evaluators : pass[f].pc = "push" => pass[f].id \in DOMAIN rows
        /\ exec.pc # "idle" => exec.id \in DOMAIN rows
        /\ \A f \in Evaluators \ {e} : pass[f].pc = "push" => pass[f].id # i
    BY <1>1, <1>2, <1>3, StateFacts
       DEF EvalShape, IdsHeld, WorkInvariant, PushPending, PushDistinct, Awaiting, At
  <2>2. QueuePending' /\ QueueDistinct'
    BY <1>1, <1>7, <2>1 DEF WorkInvariant, QueuePending, QueueDistinct
  <2>3. WorkRunning'
    BY <1>1, <1>4, <1>7, <2>1 DEF WorkInvariant, WorkRunning
  <2>4. PushPending' /\ PushDistinct'
    BY <1>1, <1>7, <1>9, <1>11, <2>1 DEF WorkInvariant, PushPending, PushDistinct, Awaiting, At
  <2> QED
    BY <2>2, <2>3, <2>4 DEF WorkInvariant
<1>14. \A f \in Evaluators : Fades(f)
  BY <1>1, <1>9, <1>11 DEF Fades, At
<1> QED
  BY <1>1, <1>7, <1>12, <1>13, <1>14 DEF Settled, Forward

\* An operator or the executor rewrites one row, and the evaluators stay where they are.
LEMMA OthersRewrite ==
    ASSUME EvalShape, WorkInvariant, NEW i \in DOMAIN rows, NEW r \in Row,
           rows' = [rows EXCEPT ![i] = r], Onward(rows[i], r), UNCHANGED <<mesh, now, pass>>,
           queue' \in Seq(DOMAIN rows), Len(queue') <= QueueSize,
           exec' \in Works(DOMAIN rows), exec'.pc # "idle" => exec'.id \in DOMAIN rows,
           QueuePending', QueueDistinct', WorkRunning',
           \A e \in Evaluators : At(e, "push") => pass[e].id # i /\ ~Awaiting(pass[e].id)'
    PROVE  Settled
<1>1. /\ RowsForward /\ rows' \in Seq(Row) /\ Len(rows') <= MaxRows[mesh]
      /\ DOMAIN rows' = DOMAIN rows
      /\ rows'[i] = r /\ \A j \in DOMAIN rows \ {i} : rows'[j] = rows[j]
  BY OneRowForward DEF EvalShape
<1>2. EvalShape'
  BY <1>1, RowMoves
<1>3. PushPending' /\ PushDistinct'
  BY <1>1 DEF WorkInvariant, PushPending, PushDistinct, At, EvalShape, IdsHeld
<1> QED
  BY <1>1, <1>2, <1>3 DEF Settled, Forward, Fades, WorkInvariant

LEMMA ApproveSettled ==
    ASSUME EvalShape, WorkInvariant, NEW i \in DOMAIN rows, Approve(i)
    PROVE  Settled
<1>1. rows[i].state = "held" /\ UNCHANGED <<mesh, now, pass, exec>>
  BY DEF Approve
<1>2. EvalTypeOK /\ mesh \in Meshes /\ rows[i] \in Row /\ now \in Times
  BY StateFacts DEF EvalShape
<1>3. /\ \A k \in DOMAIN queue : queue[k] # i
      /\ exec.pc \in {"act", "finish", "store"} => exec.id # i
      /\ \A e \in Evaluators : At(e, "push") => pass[e].id # i
  BY <1>1 DEF WorkInvariant, QueuePending, PushPending, WorkRunning
<1>4. exec' \in Works(DOMAIN rows) /\ (exec'.pc # "idle" => exec'.id \in DOMAIN rows)
  BY <1>1, StateFacts DEF EvalShape, IdsHeld
<1>5. CASE /\ Len(queue) < QueueSize /\ queue' = Append(queue, i)
           /\ rows' = [rows EXCEPT ![i].state = "pending"]
  <2>1. PICK r \in Row : r = [rows[i] EXCEPT !.state = "pending"]
    BY <1>2, RowTypes DEF States
  <2>2. rows' = [rows EXCEPT ![i] = r] /\ Onward(rows[i], r) /\ r.state = "pending"
    BY <1>1, <1>2, <1>5, <2>1 DEF Onward, Row
  <2>3. rows'[i] = r /\ \A j \in DOMAIN rows \ {i} : rows'[j] = rows[j]
    BY <1>2, <2>2, SetRow
  <2>4. queue' \in Seq(DOMAIN rows) /\ Len(queue') <= QueueSize
    BY <1>2, <1>5, QueueTypes
  <2>5. /\ DOMAIN queue' = DOMAIN queue \cup {Len(queue) + 1} /\ Len(queue) + 1 \notin DOMAIN queue
        /\ queue'[Len(queue) + 1] = i /\ \A k \in DOMAIN queue : queue'[k] = queue[k]
    BY <1>2, <1>5, QueueGrows
  <2>6. QueuePending' /\ QueueDistinct'
    BY <1>2, <1>3, <2>2, <2>3, <2>5, StateFacts DEF WorkInvariant, QueuePending, QueueDistinct
  <2>7. WorkRunning'
    BY <1>1, <1>3, <1>4, <2>3 DEF WorkInvariant, WorkRunning
  <2>8. \A e \in Evaluators : At(e, "push") => pass[e].id # i /\ ~Awaiting(pass[e].id)'
    BY <1>1, <1>3, <2>5 DEF WorkInvariant, PushPending, Awaiting
  <2> QED
    BY <1>1, <1>4, <2>2, <2>4, <2>6, <2>7, <2>8, OthersRewrite
<1>6. CASE UNCHANGED queue /\ rows' = [rows EXCEPT ![i].state = "denied", ![i].done = now]
  <2>1. PICK r \in Row : r = [rows[i] EXCEPT !.state = "denied", !.done = now]
    BY <1>2, RowTypes DEF States
  <2>2. rows' = [rows EXCEPT ![i] = r] /\ Onward(rows[i], r)
    BY <1>1, <1>2, <1>6, <2>1 DEF Onward, Row
  <2>3. rows'[i] = r /\ \A j \in DOMAIN rows \ {i} : rows'[j] = rows[j]
    BY <1>2, <2>2, SetRow
  <2>4. queue' \in Seq(DOMAIN rows) /\ Len(queue') <= QueueSize
    BY <1>2, <1>6 DEF EvalTypeOK
  <2>5. QueuePending' /\ QueueDistinct' /\ WorkRunning'
    BY <1>1, <1>2, <1>3, <1>4, <1>6, <2>3, StateFacts
       DEF WorkInvariant, QueuePending, QueueDistinct, WorkRunning
  <2>6. \A e \in Evaluators : At(e, "push") => pass[e].id # i /\ ~Awaiting(pass[e].id)'
    BY <1>1, <1>3, <1>6 DEF WorkInvariant, PushPending, Awaiting
  <2> QED
    BY <1>1, <1>4, <2>2, <2>4, <2>5, <2>6, OthersRewrite
<1> QED
  BY <1>5, <1>6 DEF Approve

LEMMA StartSettled == EvalShape /\ WorkInvariant /\ Start => Settled
<1> SUFFICES ASSUME EvalShape, WorkInvariant, Start PROVE Settled
  OBVIOUS
<1>1. exec.pc = "idle" /\ queue # <<>> /\ queue' = Tail(queue) /\ UNCHANGED <<mesh, now, pass>>
  BY DEF Start
<1>2. EvalTypeOK /\ mesh \in Meshes /\ now \in Times /\ queue \in Seq(DOMAIN rows) /\ Len(queue) <= QueueSize
  BY StateFacts DEF EvalShape, EvalTypeOK
<1>3. PICK i \in DOMAIN rows : i = Head(queue)
  BY <1>1, <1>2, HeadTailProperties
<1>4. /\ queue' \in Seq(DOMAIN rows) /\ Len(queue') = Len(queue) - 1
      /\ \A k \in 1..Len(queue') : queue'[k] = queue[k + 1]
      /\ DOMAIN queue = 1..Len(queue) /\ DOMAIN queue' = 1..Len(queue') /\ Len(queue) \in Nat \ {0}
      /\ queue[1] = i
  BY <1>1, <1>2, <1>3, HeadTailProperties, LenProperties, EmptySeq
<1>5. /\ Len(queue') <= QueueSize
      /\ \A k \in DOMAIN queue' : k + 1 \in DOMAIN queue /\ k + 1 # 1
  <2>1. QueueSize \in Nat /\ Len(queue) \in Nat /\ Len(queue) <= QueueSize /\ Len(queue') = Len(queue) - 1
    BY <1>2, <1>4, ConstantFacts
  <2>2. DOMAIN queue = 1..Len(queue) /\ DOMAIN queue' = 1..Len(queue')
    BY <1>4
  <2> QED
    BY <2>1, <2>2
<1>6. 1 \in DOMAIN queue /\ rows[i].state = "pending" /\ rows[i] \in Row
  BY <1>2, <1>4, StateFacts DEF WorkInvariant, QueuePending
<1>7. \A k \in DOMAIN queue' : queue'[k] # i /\ rows[queue'[k]].state = "pending" /\ queue'[k] \in DOMAIN rows
  <2> SUFFICES ASSUME NEW k \in DOMAIN queue'
               PROVE  queue'[k] # i /\ rows[queue'[k]].state = "pending" /\ queue'[k] \in DOMAIN rows
    OBVIOUS
  <2>1. PICK l \in DOMAIN queue : l = k + 1 /\ l # 1
    BY <1>5
  <2>2. queue'[k] = queue[l]
    BY <1>4, <2>1
  <2>3. queue[l] # i
    BY <1>4, <1>6, <2>1 DEF WorkInvariant, QueueDistinct
  <2>4. rows[queue[l]].state = "pending"
    BY <2>1 DEF WorkInvariant, QueuePending
  <2>5. queue[l] \in DOMAIN rows
    BY <1>2, <2>1, StateFacts
  <2> QED
    BY <2>2, <2>3, <2>4, <2>5
<1>8. QueueDistinct'
  <2> SUFFICES ASSUME NEW k \in DOMAIN queue', NEW l \in DOMAIN queue', queue'[k] = queue'[l]
               PROVE  k = l
    BY DEF QueueDistinct
  <2>1. queue[k + 1] = queue[l + 1] /\ k \in Nat /\ l \in Nat
    BY <1>4
  <2>2. k + 1 = l + 1
    BY <1>5, <2>1 DEF WorkInvariant, QueueDistinct
  <2> QED
    BY <2>1, <2>2
<1>9. \A e \in Evaluators : At(e, "push") => pass[e].id # i /\ ~Awaiting(pass[e].id)'
  <2> SUFFICES ASSUME NEW e \in Evaluators, At(e, "push"), NEW k \in DOMAIN queue'
               PROVE  pass[e].id # i /\ queue'[k] # pass[e].id
    <3>1. \A e \in Evaluators : At(e, "push") => pass[e].id # i
      BY <1>4, <1>6 DEF WorkInvariant, PushPending, Awaiting
    <3> QED
      BY <1>1, <3>1 DEF Awaiting
  <2> QED
    BY <1>4, <1>5, <1>6 DEF WorkInvariant, PushPending, Awaiting
<1>10. ASSUME NEW state \in {"running", "denied"}, NEW r \in Row,
              r = [rows[i] EXCEPT !.state = state, !.done = IF state = "denied" THEN now ELSE @],
              rows' = [rows EXCEPT ![i] = r],
              exec' = IF state = "running" THEN [NoWork EXCEPT !.pc = "act", !.id = i] ELSE NoWork
       PROVE  Settled
  <2>1. Onward(rows[i], r) /\ r.state = state
    BY <1>6, <1>10 DEF Onward, Row
  <2>2. rows'[i] = r /\ \A j \in DOMAIN rows \ {i} : rows'[j] = rows[j]
    BY <1>2, <1>10, SetRow
  <2>3. QueuePending'
    BY <1>7, <2>2 DEF QueuePending
  <2>4. WorkRunning'
    BY <1>10, <2>1, <2>2 DEF WorkRunning, NoWork
  <2>5. exec' \in Works(DOMAIN rows) /\ (exec'.pc # "idle" => exec'.id \in DOMAIN rows)
    BY <1>2, <1>10, ConstantFacts DEF Works, NoWork
  <2> QED
    BY <1>1, <1>4, <1>5, <1>8, <1>9, <1>10, <2>1, <2>3, <2>4, <2>5, OthersRewrite
<1>11. \E state \in {"running", "denied"} :
          /\ rows' = [rows EXCEPT ![i].state = state, ![i].done = IF state = "denied" THEN now ELSE @]
          /\ exec' = IF state = "running" THEN [NoWork EXCEPT !.pc = "act", !.id = i] ELSE NoWork
  BY <1>3 DEF Start
<1>12. PICK state \in {"running", "denied"} :
          /\ rows' = [rows EXCEPT ![i].state = state, ![i].done = IF state = "denied" THEN now ELSE @]
          /\ exec' = IF state = "running" THEN [NoWork EXCEPT !.pc = "act", !.id = i] ELSE NoWork
  BY <1>11
<1>13. PICK r \in Row : r = [rows[i] EXCEPT !.state = state, !.done = IF state = "denied" THEN now ELSE @]
  <2>1. rows[i].done \in Times /\ state \in States
    BY <1>2, <1>6, RowFields DEF States
  <2> QED
    BY <1>2, <1>6, <2>1, RowTypes
<1>14. rows' = [rows EXCEPT ![i] = r]
  BY <1>6, <1>12, <1>13 DEF Row
<1> QED
  BY <1>10, <1>12, <1>13, <1>14

LEMMA ReadClockSettled == EvalShape /\ WorkInvariant /\ ReadClock => Settled
<1> SUFFICES ASSUME EvalShape, WorkInvariant, ReadClock PROVE Settled
  OBVIOUS
<1>1. exec.pc \in {"finish", "follow"} /\ UNCHANGED <<mesh, now, rows, queue, pass>>
  BY DEF ReadClock
<1>2. now \in Times /\ exec \in Works(DOMAIN rows) /\ exec.id \in DOMAIN rows
  BY <1>1, StateFacts DEF EvalShape, IdsHeld
<1>3. /\ exec' \in Works(DOMAIN rows) /\ exec'.id = exec.id
      /\ exec'.pc = "store" => exec.pc = "finish"
      /\ exec'.pc \in {"store", "insert"}
  BY <1>1, <1>2 DEF ReadClock, Works
<1>4. EvalShape'
  <2>1. /\ rows' \in Seq(Row) /\ Len(rows') <= MaxRows[mesh]
        /\ queue' \in Seq(DOMAIN rows') /\ Len(queue') <= QueueSize
        /\ exec' \in Works(DOMAIN rows') /\ (exec'.pc # "idle" => exec'.id \in DOMAIN rows')
    BY <1>1, <1>2, <1>3, StateFacts DEF EvalShape, EvalTypeOK
  <2> QED
    BY <1>1, <2>1, RowMoves
<1>5. WorkInvariant'
  <2>1. PushPending' /\ PushDistinct' /\ QueuePending' /\ QueueDistinct'
    BY <1>1 DEF WorkInvariant, PushPending, PushDistinct, QueuePending, QueueDistinct, At, Awaiting
  <2>2. WorkRunning'
    BY <1>1, <1>3 DEF WorkInvariant, WorkRunning
  <2> QED
    BY <2>1, <2>2 DEF WorkInvariant
<1> QED
  BY <1>1, <1>4, <1>5, SameRows DEF Settled, Forward, Fades

LEMMA FinishSettled == EvalShape /\ WorkInvariant /\ Finish => Settled
<1> SUFFICES ASSUME EvalShape, WorkInvariant, Finish PROVE Settled
  OBVIOUS
<1>1. exec.pc = "store" /\ UNCHANGED <<mesh, now, queue, pass>>
  BY DEF Finish
<1>2. EvalTypeOK /\ mesh \in Meshes /\ now \in Times /\ exec \in Works(DOMAIN rows)
      /\ queue \in Seq(DOMAIN rows) /\ Len(queue) <= QueueSize
  BY StateFacts DEF EvalShape, EvalTypeOK
<1>3. PICK i \in DOMAIN rows : i = exec.id
  BY <1>1 DEF EvalShape, IdsHeld
<1>4. rows[i].state = "running" /\ rows[i] \in Row
  BY <1>1, <1>2, <1>3, StateFacts DEF WorkInvariant, WorkRunning
<1>5. PICK state \in {"executed", "failed"} :
         /\ rows' = [rows EXCEPT ![i].state = state, ![i].done = exec.clock, ![i].put = now]
         /\ exec' \in {[exec EXCEPT !.pc = "follow"], NoWork}
  BY <1>3 DEF Finish
<1>6. PICK r \in Row : r = [rows[i] EXCEPT !.state = state, !.done = exec.clock, !.put = now]
  <2>1. exec.clock \in Times /\ state \in States
    BY <1>2 DEF Works, States
  <2> QED
    BY <1>2, <1>4, <2>1, RowTypes
<1>7. rows' = [rows EXCEPT ![i] = r] /\ Onward(rows[i], r)
  BY <1>4, <1>5, <1>6 DEF Onward, Row
<1>8. rows'[i] = r /\ \A j \in DOMAIN rows \ {i} : rows'[j] = rows[j]
  BY <1>2, <1>7, SetRow
<1>9. /\ exec' \in Works(DOMAIN rows) /\ (exec'.pc # "idle" => exec'.id \in DOMAIN rows)
      /\ exec'.pc \notin {"act", "finish", "store"}
  BY <1>2, <1>3, <1>5, ConstantFacts DEF Works, NoWork
<1>10. /\ \A k \in DOMAIN queue : queue[k] # i /\ queue[k] \in DOMAIN rows
       /\ \A e \in Evaluators : At(e, "push") => pass[e].id # i
  BY <1>2, <1>4, StateFacts DEF WorkInvariant, QueuePending, PushPending
<1>11. QueuePending' /\ QueueDistinct' /\ WorkRunning'
  BY <1>1, <1>8, <1>9, <1>10 DEF WorkInvariant, QueuePending, QueueDistinct, WorkRunning
<1>12. \A e \in Evaluators : At(e, "push") => pass[e].id # i /\ ~Awaiting(pass[e].id)'
  BY <1>1, <1>10 DEF WorkInvariant, PushPending, Awaiting
<1> QED
  BY <1>1, <1>2, <1>7, <1>9, <1>11, <1>12, OthersRewrite

\* A follow-up has the target of what it follows.
LEMMA FollowUpWish ==
    ASSUME NEW r \in Row, NEW y \in {"backoff_reset", "recheck"}, NEW u \in {"reset", "followup"}
    PROVE  [type |-> y, target |-> r.wish.target, rule |-> u] \in Wishes
<1>1. r.wish \in Wishes
  BY DEF Row
<1>2. PICK t \in Targets \cup {NoTarget} : t = r.wish.target
  BY <1>1 DEF Wishes
<1>3. y \in Types
  BY DEF Types
<1>4. u \in Rules
  BY DEF Rules
<1> QED
  BY <1>2, <1>3, <1>4 DEF Wishes

\* A follow-up is stored, pending, and pushed if there is room.
LEMMA FollowUpSettled ==
    ASSUME EvalShape, WorkInvariant, Room, NEW t \in Seq(Row), NEW r \in Row, UNCHANGED <<mesh, now, pass>>,
           Len(t) = Len(rows), DOMAIN t = DOMAIN rows,
           \A i \in DOMAIN rows : Onward(rows[i], t[i]) /\ t[i].state = rows[i].state,
           rows' = Append(t, r), r.state = "pending", Stored(r),
           PushFollowUp(Len(rows) + 1), exec' \in {exec, NoWork}
    PROVE  Settled
<1>1. EvalTypeOK /\ mesh \in Meshes /\ Len(t) < MaxRows[mesh]
  BY StateFacts DEF Room, EvalShape
<1>2. /\ rows' \in Seq(Row) /\ Len(rows') <= MaxRows[mesh]
      /\ DOMAIN rows' = DOMAIN rows \cup {Len(rows) + 1} /\ Len(rows) + 1 \notin DOMAIN rows
      /\ rows'[Len(rows) + 1] = r /\ \A j \in DOMAIN rows : rows'[j] = t[j]
  BY <1>1, AddRow
<1>3. RowsForward
  BY <1>2 DEF RowsForward, Ends
<1>4. PICK n \in DOMAIN rows' : n = Len(rows) + 1
  BY <1>2
<1>5. /\ \A k \in DOMAIN queue : queue[k] \in DOMAIN rows
      /\ exec.pc # "idle" => exec.id \in DOMAIN rows
      /\ exec \in Works(DOMAIN rows)
      /\ \A f \in Evaluators : pass[f].pc = "push" => pass[f].id \in DOMAIN rows
  BY <1>1, StateFacts DEF EvalShape, IdsHeld
<1>6. EvalShape'
  <2>1. queue' \in Seq(DOMAIN rows') /\ Len(queue') <= QueueSize
    BY <1>1, <1>2, <1>4, QueueTypes
  <2>2. exec' \in Works(DOMAIN rows') /\ (exec'.pc # "idle" => exec'.id \in DOMAIN rows')
    BY <1>1, <1>2, <1>5, ConstantFacts DEF Works, NoWork
  <2> QED
    BY <1>2, <2>1, <2>2, RowMoves
<1>7. WorkRunning'
  BY <1>2, <1>5 DEF WorkInvariant, WorkRunning, NoWork
<1>8. \/ queue' = queue
      \/ /\ DOMAIN queue' = DOMAIN queue \cup {Len(queue) + 1} /\ Len(queue) + 1 \notin DOMAIN queue
         /\ queue'[Len(queue) + 1] = n /\ \A k \in DOMAIN queue : queue'[k] = queue[k]
  <2>1. queue' = queue \/ queue' = Append(queue, n)
    BY <1>4 DEF PushFollowUp
  <2> QED
    BY <1>1, <2>1, QueueGrows
<1>9. QueuePending' /\ QueueDistinct'
  <2>1. CASE queue' = queue
    BY <1>2, <1>5, <2>1 DEF WorkInvariant, QueuePending, QueueDistinct
  <2>2. CASE queue' # queue
    <3>1. rows'[n].state = "pending" /\ n \notin DOMAIN rows
      BY <1>2, <1>4
    <3>2. QueuePending'
      BY <1>2, <1>5, <1>8, <2>2, <3>1 DEF WorkInvariant, QueuePending
    <3>3. QueueDistinct'
      BY <1>5, <1>8, <2>2, <3>1 DEF WorkInvariant, QueueDistinct
    <3> QED
      BY <3>2, <3>3
  <2> QED
    BY <2>1, <2>2
<1>10. PushPending' /\ PushDistinct'
  <2>1. PushDistinct'
    BY DEF WorkInvariant, PushDistinct, At
  <2>2. PushPending'
    <3> SUFFICES ASSUME NEW e \in Evaluators, pass[e].pc = "push"
                 PROVE  rows'[pass[e].id].state = "pending" /\ \A k \in DOMAIN queue' : queue'[k] # pass[e].id
      BY DEF PushPending, Awaiting, At
    <3>1. pass[e].id \in DOMAIN rows /\ rows[pass[e].id].state = "pending"
          /\ \A k \in DOMAIN queue : queue[k] # pass[e].id
      BY <1>5 DEF WorkInvariant, PushPending, Awaiting, At
    <3>2. pass[e].id # n
      BY <1>2, <1>4, <3>1
    <3> QED
      BY <1>2, <1>8, <3>1, <3>2
  <2> QED
    BY <2>1, <2>2
<1> QED
  BY <1>3, <1>6, <1>7, <1>9, <1>10 DEF Settled, Forward, Fades, WorkInvariant

LEMMA RevertSettled ==
    ASSUME EvalShape, WorkInvariant, NEW e \in Evaluators, NEW i \in DOMAIN rows, Revert(e, i)
    PROVE  Settled
<1>1. EvalTypeOK /\ mesh \in Meshes /\ rows[i] \in Row /\ pass[e].at \in Times
  <2>1. pass[e] \in Passes(DOMAIN rows)
    BY StateFacts DEF EvalShape
  <2> QED
    BY <2>1, StateFacts DEF EvalShape, Passes
<1>2. PICK s \in Row : s = [rows[i] EXCEPT !.reverted = TRUE]
  BY <1>1, RowTypes
<1>3. Onward(rows[i], s) /\ s.state = rows[i].state
  BY <1>1, <1>2 DEF Onward, Row
<1>4. PICK t : t = [rows EXCEPT ![i] = s]
  OBVIOUS
<1>5. t \in Seq(Row) /\ Len(t) = Len(rows) /\ DOMAIN t = DOMAIN rows
      /\ \A j \in DOMAIN rows : Onward(rows[j], t[j]) /\ t[j].state = rows[j].state
  <2>1. /\ t \in Seq(Row) /\ Len(t) = Len(rows) /\ DOMAIN t = DOMAIN rows
        /\ t[i] = s /\ \A j \in DOMAIN rows \ {i} : t[j] = rows[j]
    BY <1>1, <1>4, SetRow
  <2>2. \A j \in DOMAIN rows : Onward(rows[j], rows[j])
    BY DEF Onward
  <2> QED
    BY <1>3, <2>1, <2>2
<1>6. PICK w \in Wishes : w = [type |-> "backoff_reset", target |-> rows[i].wish.target, rule |-> "reset"]
  BY <1>1, FollowUpWish DEF Row
<1>7. PICK r \in Row : r = NewRow(w, pass[e].at, "pending", "reset")
  BY <1>1, RowTypes DEF States
<1>8. r.state = "pending" /\ r.by = "reset" /\ r.at = pass[e].at
  BY <1>7 DEF NewRow
<1>9. Stored(r)
  BY <1>8, EvaluateAssumption DEF Stored
<1>10. rows' = Append(t, r)
  BY <1>2, <1>4, <1>6, <1>7 DEF Revert
<1>11. UNCHANGED <<mesh, now, pass, exec>> /\ Room /\ PushFollowUp(Len(rows) + 1)
  BY DEF Revert
<1> QED
  BY <1>5, <1>8, <1>9, <1>10, <1>11, FollowUpSettled

LEMMA RecheckSettled == EvalShape /\ WorkInvariant /\ Recheck => Settled
<1> SUFFICES ASSUME EvalShape, WorkInvariant, Recheck PROVE Settled
  OBVIOUS
<1>1. exec.pc = "insert" /\ Room /\ PushFollowUp(Len(rows) + 1) /\ exec' = NoWork /\ UNCHANGED <<mesh, now, pass>>
  BY DEF Recheck
<1>2. EvalTypeOK /\ mesh \in Meshes /\ exec.clock \in Times /\ rows \in Seq(Row)
  BY StateFacts DEF EvalShape, Works
<1>3. PICK i \in DOMAIN rows : i = exec.id
  BY <1>1 DEF EvalShape, IdsHeld
<1>4. rows[i] \in Row
  BY <1>2, StateFacts
<1>5. PICK w \in Wishes : w = [type |-> "recheck", target |-> rows[i].wish.target, rule |-> "followup"]
  BY <1>4, FollowUpWish DEF Row
<1>6. PICK r \in Row : r = NewRow(w, exec.clock, "pending", "executor")
  BY <1>2, RowTypes DEF States
<1>7. r.state = "pending" /\ r.by = "executor" /\ r.at = exec.clock
  BY <1>6 DEF NewRow
<1>8. Stored(r)
  BY <1>7, EvaluateAssumption DEF Stored
<1>9. rows' = Append(rows, r)
  BY <1>3, <1>5, <1>6 DEF Recheck
<1>10. \A j \in DOMAIN rows : Onward(rows[j], rows[j]) /\ rows[j].state = rows[j].state
  BY DEF Onward
<1> QED
  BY <1>1, <1>2, <1>7, <1>8, <1>9, <1>10, FollowUpSettled

\* A step only reads, or it is settled.
LEMMA StepSettled ==
    ASSUME EvalShape, WorkInvariant, [EvalNext]_evalVars
    PROVE  Settled \/ \E e \in Evaluators : Learns(e)
<1>1. CASE UNCHANGED evalVars
  <2>1. EvalShape'
    BY <1>1 DEF evalVars, EvalShape, EvalTypeOK, IdsHeld, Times, Row
  <2>2. WorkInvariant'
    BY <1>1, PlacesKept DEF evalVars
  <2> QED
    BY <1>1, <2>1, <2>2, SameRows DEF evalVars, Settled, Forward, Fades
<1>2. CASE EvalNext
  <2>1. CASE Tick \/ Start \/ Act \/ ReadClock \/ Finish \/ Recheck \/ Pass
    BY <2>1, TickSettled, StartSettled, ActSettled, ReadClockSettled, FinishSettled, RecheckSettled, PassSettled
  <2>2. CASE \E i \in DOMAIN rows : Approve(i)
    BY <2>2, ApproveSettled
  <2>3. ASSUME NEW e \in Evaluators,
               \/ \E d \in Decision : Store(e, d)
               \/ Push(e)
               \/ Drop(e)
               \/ \E i \in DOMAIN rows : Revert(e, i)
               \/ EndPass(e)
        PROVE  Settled
    BY <2>3, StoreSettled, PushSettled, DropSettled, RevertSettled, EndPassSettled
  <2>4. ASSUME NEW e \in Evaluators,
               \/ ReadActive(e)
               \/ \E t \in Targets : ReadHistory(e, t)
               \/ \E w \in Candidates : Judge(e, w)
        PROVE  Learns(e)
    BY <2>4 DEF Learns
  <2> QED
    BY <1>2, <2>1, <2>2, <2>3, <2>4 DEF EvalNext
<1> QED
  BY <1>1, <1>2

LEMMA EvalInitShape == EvalInit => EvalShape /\ WorkInvariant
<1> SUFFICES ASSUME EvalInit PROVE EvalShape /\ WorkInvariant
  OBVIOUS
<1>1. mesh \in Meshes /\ now = 0 /\ rows = <<>> /\ queue = <<>> /\ exec = NoWork
      /\ pass = [e \in Evaluators |-> Idle]
  BY DEF EvalInit
<1>2. 0 \in Times /\ MaxRows[mesh] \in Nat /\ QueueSize \in Nat
  BY <1>1, ConstantFacts
<1>3. rows \in Seq(Row) /\ Len(rows) = 0 /\ DOMAIN rows = {}
      /\ queue \in Seq(DOMAIN rows) /\ Len(queue) = 0 /\ DOMAIN queue = {}
  BY <1>1
<1>4. Idle \in Passes(DOMAIN rows) /\ Idle.pc = "idle" /\ exec \in Works(DOMAIN rows) /\ exec.pc = "idle"
  BY <1>1, <1>2 DEF Idle, Passes, NoWork, Works
<1>5. EvalShape
  BY <1>1, <1>2, <1>3, <1>4 DEF EvalShape, EvalTypeOK, IdsHeld, Passes, Works
<1>6. WorkInvariant
  BY <1>1, <1>3, <1>4 DEF WorkInvariant, QueuePending, QueueDistinct, PushPending, PushDistinct, WorkRunning, At
<1> QED
  BY <1>5, <1>6

LEMMA ShapeHolds == EvalSpec => [](EvalShape /\ WorkInvariant)
<1>1. EvalShape /\ WorkInvariant /\ [EvalNext]_evalVars => EvalShape' /\ WorkInvariant'
  BY StepSettled, LearnsSettled DEF Settled
<1> QED
  BY <1>1, EvalInitShape, PTL DEF EvalSpec

\* Rows, queue, evaluations and the executor's work stay what EvalTypeOK says: every id is that
\* of a row, and neither the table nor controlQueue grows beyond its bound.
THEOREM EvalTypes == EvalSpec => []EvalTypeOK
BY ShapeHolds, PTL DEF EvalShape

(***************************************************************************)
(* Where evaluations stand in time, and what they know when they begin.    *)
(***************************************************************************)

TimesBehind ==
    /\ \A e \in Evaluators : pass[e].at <= now
    /\ \A i \in DOMAIN rows : rows[i].at <= now
    /\ exec.clock <= now

Unlearned == \A e \in Evaluators : At(e, "active") => pass[e].known = {} /\ pass[e].decided = {}

EvalBase == EvalShape /\ WorkInvariant /\ TimesBehind /\ Unlearned

\* The second an evaluation is about is a number, and so is a row's.
LEMMA TimeFacts ==
    ASSUME EvalTypeOK
    PROVE  /\ \A e \in Evaluators : pass[e].at \in Nat
           /\ \A i \in DOMAIN rows : rows[i].at \in Nat /\ rows[i].done \in Nat /\ rows[i].put \in Nat
           /\ now \in Nat /\ exec.clock \in Nat
<1>1. mesh \in Meshes
  BY StateFacts
<1>2. \A e \in Evaluators : pass[e].at \in Times
  BY StateFacts DEF Passes
<1>3. \A i \in DOMAIN rows : rows[i].at \in Nat /\ rows[i].done \in Nat /\ rows[i].put \in Nat
  BY <1>1, StateFacts, RowFields
<1>4. exec.clock \in Times
  BY StateFacts DEF Works
<1> QED
  BY <1>1, <1>2, <1>3, <1>4, ConstantFacts, StateFacts

\* What reading and judging do to the evaluation.
LEMMA ReadActiveEffect ==
    ASSUME EvalShape, NEW e \in Evaluators, ReadActive(e)
    PROVE  \E wishes \in mesh : \E active \in Newest(Since(Before(pass[e].at, Window)), ActiveLimit) :
               /\ pass'[e].pc \in {"judge", "write"} /\ pass'[e].todo = wishes
               /\ pass'[e].blocked = {w \in wishes : Conflicts(active, w, pass[e].at)}
               /\ pass'[e].at = pass[e].at /\ pass'[e].decided = pass[e].decided
               /\ pass'[e].known = pass[e].known /\ pass'[e].hot = pass[e].hot
<1>1. PICK wishes \in mesh, active \in Newest(Since(Before(pass[e].at, Window)), ActiveLimit) :
          pass' = [pass EXCEPT ![e].pc = IF wishes = {} THEN "write" ELSE "judge", ![e].todo = wishes,
                               ![e].blocked = {w \in wishes : Conflicts(active, w, pass[e].at)}]
  BY DEF ReadActive
<1>2. pass[e] \in Passes(DOMAIN rows)
  BY StateFacts DEF EvalShape
<1>3. PICK blocked : blocked = {w \in wishes : Conflicts(active, w, pass[e].at)}
  OBVIOUS
<1>4. PICK pc \in {"write", "judge"} : pc = IF wishes = {} THEN "write" ELSE "judge"
  OBVIOUS
<1>5. pass' = [pass EXCEPT ![e].pc = pc, ![e].todo = wishes, ![e].blocked = blocked]
  BY <1>1, <1>3, <1>4
<1>6. /\ pass'[e].pc = pc /\ pass'[e].todo = wishes /\ pass'[e].blocked = blocked
      /\ pass'[e].at = pass[e].at /\ pass'[e].decided = pass[e].decided
      /\ pass'[e].known = pass[e].known /\ pass'[e].hot = pass[e].hot
  BY <1>2, <1>5 DEF EvalShape, EvalTypeOK, Passes
<1> QED
  BY <1>3, <1>6

LEMMA ReadHistoryEffect ==
    ASSUME EvalShape, NEW e \in Evaluators, NEW t \in Targets, ReadHistory(e, t)
    PROVE  /\ pass[e].pc = "judge"
           /\ \E S \in Newest({i \in Since(Before(pass[e].at, Cooldown)) : rows[i].wish.target = t}, HistoryLimit) :
                  pass'[e].hot = IF CooledDown(S, pass[e].at) THEN pass[e].hot ELSE pass[e].hot \cup {t}
           /\ pass'[e].known = pass[e].known \cup {t}
           /\ pass'[e].pc = "judge" /\ pass'[e].todo = pass[e].todo /\ pass'[e].blocked = pass[e].blocked
           /\ pass'[e].at = pass[e].at /\ pass'[e].decided = pass[e].decided
<1>1. PICK S \in Newest({i \in Since(Before(pass[e].at, Cooldown)) : rows[i].wish.target = t}, HistoryLimit) :
          pass' = [pass EXCEPT ![e].known = @ \cup {t},
                               ![e].hot = IF CooledDown(S, pass[e].at) THEN @ ELSE @ \cup {t}]
  BY DEF ReadHistory
<1>2. pass[e] \in Passes(DOMAIN rows) /\ pass[e].pc = "judge"
  BY StateFacts DEF EvalShape, ReadHistory, At
<1>3. PICK hot : hot = IF CooledDown(S, pass[e].at) THEN pass[e].hot ELSE pass[e].hot \cup {t}
  OBVIOUS
<1>4. pass' = [pass EXCEPT ![e].known = @ \cup {t}, ![e].hot = hot]
  BY <1>1, <1>3
<1>5. /\ pass'[e].hot = hot /\ pass'[e].known = pass[e].known \cup {t}
      /\ pass'[e].pc = "judge" /\ pass'[e].todo = pass[e].todo /\ pass'[e].blocked = pass[e].blocked
      /\ pass'[e].at = pass[e].at /\ pass'[e].decided = pass[e].decided
  BY <1>2, <1>4 DEF EvalShape, EvalTypeOK, Passes
<1> QED
  BY <1>2, <1>3, <1>5

LEMMA JudgeEffect ==
    ASSUME EvalShape, NEW e \in Evaluators, NEW w \in Candidates, Judge(e, w)
    PROVE  /\ pass[e].pc = "judge" /\ w \in pass[e].todo
           /\ \E allowed \in BOOLEAN :
                 /\ pass'[e].decided = pass[e].decided \cup {[wish |-> w, allowed |-> allowed]}
                 /\ allowed =>
                       /\ w.target # NoTarget => w.target \in pass[e].known \ pass[e].hot
                       /\ w \notin pass[e].blocked
                       /\ \E seen \in Newest(Since(Before(pass[e].at, Window)), Budget + BudgetSlack) :
                             WithinBudget(seen, w)
           /\ pass'[e].at = pass[e].at
           /\ \/ pass'[e].pc = "write"
              \/ /\ pass'[e].pc = "judge" /\ pass'[e].todo = pass[e].todo \ {w}
                 /\ pass'[e].blocked = pass[e].blocked
                 /\ pass'[e].known = pass[e].known /\ pass'[e].hot = pass[e].hot
<1>1. \E fit \in Verdicts(w), seen \in Newest(Since(Before(pass[e].at, Window)), Budget + BudgetSlack) :
         LET allowed == /\ fit
                        /\ w.target \notin pass[e].hot
                        /\ WithinBudget(seen, w)
                        /\ w \notin pass[e].blocked
             decided == pass[e].decided \cup {[wish |-> w, allowed |-> allowed]}
         IN  pass' = IF pass[e].todo = {w}
                     THEN [pass EXCEPT ![e] = [Idle EXCEPT !.pc = "write", !.at = pass[e].at,
                                                           !.decided = decided]]
                     ELSE [pass EXCEPT ![e].todo = @ \ {w}, ![e].decided = decided]
  BY DEF Judge
<1>2. PICK allowed \in BOOLEAN : \E decided :
         /\ decided = pass[e].decided \cup {[wish |-> w, allowed |-> allowed]}
         /\ allowed => /\ w.target \notin pass[e].hot /\ w \notin pass[e].blocked
                       /\ \E seen \in Newest(Since(Before(pass[e].at, Window)), Budget + BudgetSlack) :
                             WithinBudget(seen, w)
         /\ pass' = IF pass[e].todo = {w}
                    THEN [pass EXCEPT ![e] = [Idle EXCEPT !.pc = "write", !.at = pass[e].at,
                                                          !.decided = decided]]
                    ELSE [pass EXCEPT ![e].todo = @ \ {w}, ![e].decided = decided]
  BY <1>1
<1>3. PICK decided :
         /\ decided = pass[e].decided \cup {[wish |-> w, allowed |-> allowed]}
         /\ allowed => /\ w.target \notin pass[e].hot /\ w \notin pass[e].blocked
                       /\ \E seen \in Newest(Since(Before(pass[e].at, Window)), Budget + BudgetSlack) :
                             WithinBudget(seen, w)
         /\ pass' = IF pass[e].todo = {w}
                    THEN [pass EXCEPT ![e] = [Idle EXCEPT !.pc = "write", !.at = pass[e].at,
                                                          !.decided = decided]]
                    ELSE [pass EXCEPT ![e].todo = @ \ {w}, ![e].decided = decided]
  BY <1>2
<1>4. /\ pass[e] \in Passes(DOMAIN rows) /\ pass[e].pc = "judge" /\ w \in pass[e].todo
      /\ w.target \in pass[e].known \cup {NoTarget}
  BY StateFacts DEF EvalShape, Judge, At
<1>5. pass'[e].decided = decided /\ pass'[e].at = pass[e].at
  BY <1>3, <1>4 DEF EvalShape, EvalTypeOK, Passes, Idle
<1>6. \/ pass'[e].pc = "write"
      \/ /\ pass'[e].pc = "judge" /\ pass'[e].todo = pass[e].todo \ {w}
         /\ pass'[e].blocked = pass[e].blocked
         /\ pass'[e].known = pass[e].known /\ pass'[e].hot = pass[e].hot
  BY <1>3, <1>4 DEF EvalShape, EvalTypeOK, Passes, Idle
<1>7. allowed => (w.target # NoTarget => w.target \in pass[e].known \ pass[e].hot)
  BY <1>3, <1>4
<1>8. /\ pass'[e].decided = pass[e].decided \cup {[wish |-> w, allowed |-> allowed]}
      /\ allowed => /\ w \notin pass[e].blocked
                    /\ \E seen \in Newest(Since(Before(pass[e].at, Window)), Budget + BudgetSlack) :
                          WithinBudget(seen, w)
  BY <1>3, <1>5
<1> QED
  BY <1>4, <1>5, <1>6, <1>7, <1>8

LEMMA LearnsPass ==
    ASSUME EvalShape, NEW e \in Evaluators, Learns(e)
    PROVE  pass'[e].at = pass[e].at /\ pass'[e].pc \in {"judge", "write"}
BY ReadActiveEffect, ReadHistoryEffect, JudgeEffect DEF Learns

\* The executor's clock only reads the time.
LEMMA ClockStep ==
    ASSUME EvalTypeOK, [EvalNext]_evalVars
    PROVE  exec'.clock \in {0, exec.clock, now}
<1>1. exec.clock \in Times /\ exec \in Works(DOMAIN rows)
  BY StateFacts DEF Works
<1>2. CASE UNCHANGED exec
  BY <1>2
<1>3. CASE Start
  BY <1>3 DEF Start, NoWork
<1>4. CASE Act
  BY <1>1, <1>4 DEF Act, Works
<1>5. CASE ReadClock
  BY <1>1, <1>5 DEF ReadClock, Works
<1>6. CASE Finish
  <2>1. exec' \in {[exec EXCEPT !.pc = "follow"], NoWork}
    BY <1>6 DEF Finish
  <2> QED
    BY <1>1, <2>1 DEF NoWork, Works
<1>7. CASE Recheck
  BY <1>7 DEF Recheck, NoWork
<1>8. CASE Tick \/ Pass
  BY <1>8 DEF Tick, Pass
<1>9. CASE \E i \in DOMAIN rows : Approve(i)
  BY <1>9 DEF Approve
<1>10. ASSUME NEW e \in Evaluators
       PROVE  /\ ReadActive(e) \/ Push(e) \/ Drop(e) \/ EndPass(e) => UNCHANGED exec
              /\ \A u \in Targets : ReadHistory(e, u) => UNCHANGED exec
              /\ \A w \in Candidates : Judge(e, w) => UNCHANGED exec
              /\ \A d \in Decision : Store(e, d) => UNCHANGED exec
              /\ \A i \in DOMAIN rows : Revert(e, i) => UNCHANGED exec
  BY DEF ReadActive, Push, Drop, EndPass, ReadHistory, Judge, Store, Revert
<1> QED
  BY <1>2, <1>3, <1>4, <1>5, <1>6, <1>7, <1>8, <1>9, <1>10 DEF EvalNext, evalVars

LEMMA BaseNext ==
    ASSUME EvalBase, [EvalNext]_evalVars
    PROVE  EvalBase'
<1>1. EvalShape /\ WorkInvariant /\ TimesBehind /\ Unlearned
  BY DEF EvalBase
<1>2. EvalTypeOK
  BY <1>1 DEF EvalShape
<1>c. exec'.clock \in Nat /\ exec'.clock <= now
  BY <1>1, <1>2, ClockStep, TimeFacts DEF TimesBehind
<1>3. CASE Settled
  <2>1. EvalShape' /\ WorkInvariant' /\ Forward
    BY <1>3 DEF Settled
  <2>2. /\ now \in Nat /\ now' \in {now, now + 1} /\ now <= now' /\ 0 <= now
        /\ \A e \in Evaluators : pass[e].at \in Nat
        /\ \A i \in DOMAIN rows : rows[i].at \in Nat
    BY <1>2, <2>1, TimeFacts DEF Forward
  <2>3. \A e \in Evaluators : pass'[e].at \in {pass[e].at, 0, now}
    BY <2>1 DEF Forward, Fades
  <2>4. \A i \in DOMAIN rows' : rows'[i].at <= now'
    <3> SUFFICES ASSUME NEW i \in DOMAIN rows' PROVE rows'[i].at <= now'
      OBVIOUS
    <3>1. CASE i \in DOMAIN rows
      <4>1. rows'[i].at = rows[i].at
        BY <2>1, <3>1 DEF Forward, RowsForward, Onward
      <4> QED
        BY <1>1, <2>2, <3>1, <4>1 DEF TimesBehind
    <3>2. CASE i \notin DOMAIN rows
      <4>1. Stored(rows'[i])
        BY <2>1, <3>2 DEF Forward, RowsForward
      <4>2. rows'[i].at = exec.clock \/ \E e \in Evaluators : rows'[i].at = pass[e].at
        BY <4>1 DEF Stored, Stores
      <4>3. exec.clock \in Nat
        BY <1>2, TimeFacts
      <4> QED
        BY <1>1, <2>2, <4>2, <4>3 DEF TimesBehind
    <3> QED
      BY <3>1, <3>2
  <2>5. \A e \in Evaluators : pass'[e].at <= now'
    BY <1>1, <2>2, <2>3 DEF TimesBehind
  <2>6. Unlearned'
    BY <1>1, <2>1 DEF Forward, Fades, Unlearned, At
  <2>7. exec'.clock <= now'
    BY <1>c, <2>2
  <2> QED
    BY <2>1, <2>4, <2>5, <2>6, <2>7 DEF EvalBase, TimesBehind
<1>4. CASE \E e \in Evaluators : Learns(e)
  <2>1. PICK e \in Evaluators : Learns(e)
    BY <1>4
  <2>2. /\ EvalShape' /\ WorkInvariant' /\ UNCHANGED <<now, rows>>
        /\ \A f \in Evaluators \ {e} : pass'[f] = pass[f]
    BY <1>1, <2>1, LearnsSettled
  <2>3. pass'[e].at = pass[e].at /\ pass'[e].pc \in {"judge", "write"}
    BY <1>1, <2>1, LearnsPass
  <2>4. TimesBehind'
    BY <1>1, <1>c, <2>2, <2>3 DEF TimesBehind
  <2>5. Unlearned'
    BY <1>1, <2>2, <2>3 DEF Unlearned, At
  <2> QED
    BY <2>2, <2>4, <2>5 DEF EvalBase
<1> QED
  BY <1>1, <1>3, <1>4, StepSettled

LEMMA BaseInit == EvalInit => EvalBase
<1> SUFFICES ASSUME EvalInit PROVE EvalBase
  OBVIOUS
<1>1. EvalShape /\ WorkInvariant
  BY EvalInitShape
<1>2. TimesBehind /\ Unlearned
  BY DEF EvalInit, TimesBehind, Unlearned, At, Idle, NoWork
<1> QED
  BY <1>1, <1>2 DEF EvalBase

LEMMA BaseHolds == EvalSpec => []EvalBase
BY BaseInit, BaseNext, PTL DEF EvalSpec

\* A query that asks for at least as many rows as there are returns them all.
LEMMA NewestIsAll ==
    ASSUME NEW S, IsFiniteSet(S), NEW k \in Nat, Cardinality(S) <= k, NEW T \in Newest(S, k)
    PROVE  T = S
<1>1. T \subseteq S /\ Cardinality(T) <= k /\ (Cardinality(T) < k => T = S)
  BY DEF Newest
<1>2. IsFiniteSet(T) /\ Cardinality(T) \in Nat /\ Cardinality(S) \in Nat
      /\ Cardinality(T) <= Cardinality(S) /\ (Cardinality(T) = Cardinality(S) => T = S)
  BY <1>1, FS_Subset, FS_CardinalityType
<1> QED
  BY <1>1, <1>2

\* No set of rows is larger than the table.
LEMMA RowsFinite ==
    ASSUME EvalTypeOK, NEW S \in SUBSET DOMAIN rows
    PROVE  IsFiniteSet(S) /\ Cardinality(S) \in Nat /\ Cardinality(S) <= MaxRows[mesh]
<1>1. DOMAIN rows = 1..Len(rows) /\ Len(rows) \in Nat /\ Len(rows) <= MaxRows[mesh] /\ MaxRows[mesh] \in Nat
  BY StateFacts, ConstantFacts DEF EvalTypeOK
<1>2. IsFiniteSet(1..Len(rows)) /\ Cardinality(1..Len(rows)) = Len(rows)
  <2>1. 1 \in Int /\ Len(rows) \in Int
    BY <1>1
  <2>2. /\ IsFiniteSet(1..Len(rows))
        /\ Cardinality(1..Len(rows)) = IF 1 > Len(rows) THEN 0 ELSE Len(rows) - 1 + 1
    BY <2>1, FS_Interval
  <2> QED
    BY <1>1, <2>2
<1>3. IsFiniteSet(S) /\ Cardinality(S) <= Len(rows) /\ Cardinality(S) \in Nat
  BY <1>1, <1>2, FS_Subset, FS_CardinalityType
<1> QED
  BY <1>1, <1>3

\* A row not younger than a second d ago is in the window of d.
LEMMA InWindow ==
    ASSUME NEW a \in Nat, NEW t \in Nat, NEW d \in Nat
    PROVE  a >= Before(t, d) <=> a + d >= t
<1>1. CASE t >= d
  BY <1>1 DEF Before
<1>2. CASE ~(t >= d)
  BY <1>2 DEF Before
<1> QED
  BY <1>1, <1>2

(***************************************************************************)
(* CooldownKept.  What an evaluation learnt of a target when it read the    *)
(* target's history stays true: an outcome stored later is stored in a      *)
(* second the evaluation is not after.                                     *)
(***************************************************************************)

\* Nothing on target t in the list of second a forbids an action on it.
Cleared(t, a) ==
    \A i \in DOMAIN rows :
        /\ rows[i].wish.target = t /\ Executed(i)
        /\ rows[i].put < a /\ rows[i].at + Cooldown >= a
        => a >= rows[i].done + Cooldown

KnownCleared ==
    \A e \in Evaluators : At(e, "judge") =>
        \A t \in pass[e].known \ pass[e].hot : Cleared(t, pass[e].at)

DecidedCleared ==
    \A e \in Evaluators : \A d \in pass[e].decided :
        d.allowed /\ d.wish.target # NoTarget => Cleared(d.wish.target, pass[e].at)

RowsCleared ==
    \A j \in DOMAIN rows :
        rows[j].by \in Evaluators /\ rows[j].state # "denied" /\ rows[j].wish.target # NoTarget
            => Cleared(rows[j].wish.target, rows[j].at)

CooldownInvariant == KnownCleared /\ DecidedCleared /\ RowsCleared

LEMMA ClearedStays ==
    ASSUME EvalBase, Forward, NEW t, NEW a \in Nat, a <= now, Cleared(t, a)
    PROVE  Cleared(t, a)'
<1> SUFFICES ASSUME NEW i \in DOMAIN rows',
                    rows'[i].wish.target = t, rows'[i].state = "executed",
                    rows'[i].put < a, rows'[i].at + Cooldown >= a
             PROVE  a >= rows'[i].done + Cooldown
  BY DEF Cleared, Executed
<1>1. now \in Nat /\ RowsForward
  BY TimeFacts DEF Forward, EvalBase, EvalShape
<1>2. i \in DOMAIN rows
  <2>1. i \notin DOMAIN rows => Stored(rows'[i])
    BY <1>1 DEF RowsForward
  <2> QED
    BY <2>1 DEF Stored
<1>3. Onward(rows[i], rows'[i])
  BY <1>1, <1>2 DEF RowsForward
<1>4. CASE rows[i].state = "executed" /\ rows'[i].done = rows[i].done /\ rows'[i].put = rows[i].put
  <2>1. rows'[i].wish = rows[i].wish /\ rows'[i].at = rows[i].at
    BY <1>3 DEF Onward
  <2> QED
    BY <1>2, <1>4, <2>1 DEF Cleared, Executed
<1>5. CASE rows'[i].put = now
  BY <1>1, <1>5
<1> QED
  BY <1>3, <1>4, <1>5 DEF Onward

LEMMA CooldownForward ==
    ASSUME EvalBase, CooldownInvariant, Forward
    PROVE  CooldownInvariant'
<1>1. /\ \A e \in Evaluators : pass[e].at \in Nat /\ pass[e].at <= now
      /\ \A i \in DOMAIN rows : rows[i].at \in Nat /\ rows[i].at <= now
  BY TimeFacts DEF EvalBase, EvalShape, TimesBehind
<1>2. KnownCleared'
  <2> SUFFICES ASSUME NEW e \in Evaluators, pass'[e].pc = "judge", NEW t \in pass'[e].known \ pass'[e].hot
               PROVE  Cleared(t, pass[e].at)'
    BY DEF KnownCleared, At
  <2>1. pass'[e] = pass[e]
    BY DEF Forward, Fades, At
  <2>2. PICK a \in Nat : a = pass[e].at
    BY <1>1
  <2>3. Cleared(t, a)
    BY <2>1, <2>2 DEF CooldownInvariant, KnownCleared, At
  <2>4. Cleared(t, a)'
    BY <1>1, <2>2, <2>3, ClearedStays
  <2>5. pass'[e].at = a
    BY <2>1, <2>2
  <2> QED
    BY <2>1, <2>4, <2>5 DEF Cleared
<1>3. DecidedCleared'
  <2> SUFFICES ASSUME NEW e \in Evaluators, NEW d \in pass'[e].decided, d.allowed, d.wish.target # NoTarget
               PROVE  Cleared(d.wish.target, pass[e].at)'
    BY DEF DecidedCleared
  <2>1. pass'[e].at = pass[e].at /\ d \in pass[e].decided
    BY DEF Forward, Fades
  <2>2. PICK a \in Nat : a = pass[e].at
    BY <1>1
  <2>3. Cleared(d.wish.target, a)
    BY <2>1, <2>2 DEF CooldownInvariant, DecidedCleared
  <2>4. Cleared(d.wish.target, a)'
    BY <1>1, <2>2, <2>3, ClearedStays
  <2>5. pass'[e].at = a
    BY <2>1, <2>2
  <2> QED
    BY <2>4, <2>5 DEF Cleared
<1>4. RowsCleared'
  <2> SUFFICES ASSUME NEW j \in DOMAIN rows', rows'[j].by \in Evaluators, rows'[j].state # "denied",
                      rows'[j].wish.target # NoTarget
               PROVE  Cleared(rows[j].wish.target, rows[j].at)'
    BY DEF RowsCleared
  <2>1. PICK t : t = rows'[j].wish.target
    OBVIOUS
  <2>2. \E a \in Nat : a = rows'[j].at /\ a <= now /\ Cleared(t, a)
    <3>1. CASE j \in DOMAIN rows
      <4>1. Onward(rows[j], rows'[j])
        BY <3>1 DEF Forward, RowsForward
      <4>2. /\ rows'[j].wish = rows[j].wish /\ rows'[j].at = rows[j].at /\ rows'[j].by = rows[j].by
            /\ rows[j].state # "denied"
        BY <4>1 DEF Onward
      <4> QED
        BY <1>1, <2>1, <3>1, <4>2 DEF CooldownInvariant, RowsCleared
    <3>2. CASE j \notin DOMAIN rows
      <4>1. PICK d \in Decision : Stores(rows'[j].by, d, rows'[j])
        BY <3>2 DEF Forward, RowsForward, Stored
      <4>2. PICK e \in Evaluators : e = rows'[j].by
        OBVIOUS
      <4>3. d \in pass[e].decided /\ d.allowed /\ d.wish = rows'[j].wish /\ pass[e].at = rows'[j].at
        BY <4>1, <4>2 DEF Stores
      <4> QED
        BY <1>1, <2>1, <4>3 DEF CooldownInvariant, DecidedCleared
    <3> QED
      BY <3>1, <3>2
  <2>3. PICK a \in Nat : a = rows'[j].at /\ a <= now /\ Cleared(t, a)
    BY <2>2
  <2>4. Cleared(t, a)'
    BY <2>3, ClearedStays
  <2> QED
    BY <2>1, <2>3, <2>4 DEF Cleared
<1> QED
  BY <1>2, <1>3, <1>4 DEF CooldownInvariant

\* An evaluation that reads a target's history gets every row it asks for.
HistoryWhole ==
    \A e \in Evaluators : At(e, "judge") =>
        \A t \in Targets :
            Cardinality({i \in Since(Before(pass[e].at, Cooldown)) : rows[i].wish.target = t}) <= HistoryLimit

LEMMA CooldownLearns ==
    ASSUME HistoryWhole, EvalBase, CooldownInvariant, NEW e \in Evaluators, Learns(e)
    PROVE  CooldownInvariant'
<1>1. EvalShape /\ WorkInvariant /\ EvalTypeOK /\ mesh \in Meshes
  BY StateFacts DEF EvalBase, EvalShape
<1>2. UNCHANGED <<mesh, now, rows>> /\ \A f \in Evaluators \ {e} : pass'[f] = pass[f]
  BY <1>1, LearnsSettled
<1>3. pass'[e].at = pass[e].at
  BY <1>1, LearnsPass
<1>4. \A t, a : Cleared(t, a)' <=> Cleared(t, a)
  BY <1>2 DEF Cleared, Executed, Cooldown
<1>5. PICK a \in Nat : a = pass[e].at
  BY <1>1, TimeFacts
<1>6. /\ \A t \in pass'[e].known \ pass'[e].hot : pass'[e].pc = "judge" => Cleared(t, a)
      /\ \A d \in pass'[e].decided : d.allowed /\ d.wish.target # NoTarget => Cleared(d.wish.target, a)
  <2>1. /\ pass[e].pc = "judge" => \A t \in pass[e].known \ pass[e].hot : Cleared(t, a)
        /\ \A d \in pass[e].decided : d.allowed /\ d.wish.target # NoTarget => Cleared(d.wish.target, a)
    BY <1>5 DEF CooldownInvariant, KnownCleared, DecidedCleared, At
  <2>2. CASE ReadActive(e)
    <3>1. pass'[e].known = pass[e].known /\ pass'[e].decided = pass[e].decided
      BY <1>1, <2>2, ReadActiveEffect
    <3>2. pass[e].known = {}
      BY <2>2 DEF EvalBase, Unlearned, ReadActive
    <3> QED
      BY <2>1, <3>1, <3>2
  <2>3. ASSUME NEW t \in Targets, ReadHistory(e, t)
        PROVE  /\ \A u \in pass'[e].known \ pass'[e].hot : Cleared(u, a)
               /\ pass'[e].decided = pass[e].decided
    <3> DEFINE H == {i \in Since(Before(a, Cooldown)) : rows[i].wish.target = t}
    <3>1. PICK S \in Newest(H, HistoryLimit) :
             pass'[e].hot = IF CooledDown(S, a) THEN pass[e].hot ELSE pass[e].hot \cup {t}
      BY <1>1, <1>5, <2>3, ReadHistoryEffect
    <3>2. pass'[e].known = pass[e].known \cup {t} /\ pass'[e].decided = pass[e].decided /\ pass[e].pc = "judge"
      BY <1>1, <2>3, ReadHistoryEffect
    <3>3. S = H
      <4>1. IsFiniteSet(H) /\ Cardinality(H) \in Nat /\ Cardinality(H) <= MaxRows[mesh]
        <5>1. H \in SUBSET DOMAIN rows
          BY DEF Since
        <5> QED
          BY <1>1, <5>1, RowsFinite
      <4>2. HistoryLimit \in Nat
        BY <1>1, ConstantFacts
      <4>3. Cardinality(H) <= HistoryLimit
        BY <1>5, <3>2 DEF HistoryWhole, At
      <4> HIDE DEF H
      <4> QED
        BY <3>1, <4>1, <4>2, <4>3, NewestIsAll
    <3>4. CooledDown(H, a) => Cleared(t, a)
      <4> SUFFICES ASSUME CooledDown(H, a), NEW i \in DOMAIN rows, rows[i].wish.target = t, Executed(i),
                          rows[i].at + Cooldown >= a
                   PROVE  a >= rows[i].done + Cooldown
        BY DEF Cleared
      <4>1. rows[i].at \in Nat /\ Cooldown \in Nat
        BY <1>1, TimeFacts, ConstantFacts
      <4>2. i \in H
        BY <1>5, <4>1, InWindow DEF Since
      <4> QED
        BY <4>2 DEF CooledDown
    <3>5. \A u \in pass'[e].known \ pass'[e].hot : u \in pass[e].known \ pass[e].hot \/ (u = t /\ CooledDown(H, a))
      BY <3>1, <3>2, <3>3
    <3> QED
      BY <2>1, <3>2, <3>4, <3>5
  <2>4. ASSUME NEW w \in Candidates, Judge(e, w)
        PROVE  /\ \A t \in pass'[e].known \ pass'[e].hot : pass'[e].pc = "judge" => Cleared(t, a)
               /\ \A d \in pass'[e].decided : d.allowed /\ d.wish.target # NoTarget => Cleared(d.wish.target, a)
    <3>1. pass[e].pc = "judge"
      BY <1>1, <2>4, JudgeEffect
    <3>2. PICK allowed \in BOOLEAN :
             /\ pass'[e].decided = pass[e].decided \cup {[wish |-> w, allowed |-> allowed]}
             /\ allowed /\ w.target # NoTarget => w.target \in pass[e].known \ pass[e].hot
      BY <1>1, <2>4, JudgeEffect
    <3>3. pass'[e].pc = "judge" => pass'[e].known = pass[e].known /\ pass'[e].hot = pass[e].hot
      BY <1>1, <2>4, JudgeEffect
    <3> QED
      BY <2>1, <3>1, <3>2, <3>3
  <2> QED
    BY <2>1, <2>2, <2>3, <2>4 DEF Learns
<1>7. KnownCleared'
  <2> SUFFICES ASSUME NEW f \in Evaluators, pass'[f].pc = "judge", NEW t \in pass'[f].known \ pass'[f].hot
               PROVE  Cleared(t, pass'[f].at)
    BY <1>4 DEF KnownCleared, At
  <2>1. CASE f = e
    BY <1>3, <1>5, <1>6, <2>1
  <2>2. CASE f # e
    BY <1>2, <2>2 DEF CooldownInvariant, KnownCleared, At
  <2> QED
    BY <2>1, <2>2
<1>8. DecidedCleared'
  <2> SUFFICES ASSUME NEW f \in Evaluators, NEW d \in pass'[f].decided, d.allowed, d.wish.target # NoTarget
               PROVE  Cleared(d.wish.target, pass'[f].at)
    BY <1>4 DEF DecidedCleared
  <2>1. CASE f = e
    BY <1>3, <1>5, <1>6, <2>1
  <2>2. CASE f # e
    BY <1>2, <2>2 DEF CooldownInvariant, DecidedCleared
  <2> QED
    BY <2>1, <2>2
<1>9. RowsCleared'
  BY <1>2, <1>4 DEF CooldownInvariant, RowsCleared
<1> QED
  BY <1>7, <1>8, <1>9 DEF CooldownInvariant

LEMMA CooldownHolds == EvalSpec /\ []HistoryWhole => []CooldownInvariant
<1>1. EvalInit => CooldownInvariant
  BY DEF EvalInit, CooldownInvariant, KnownCleared, DecidedCleared, RowsCleared, At, Idle
<1>2. HistoryWhole /\ EvalBase /\ CooldownInvariant /\ [EvalNext]_evalVars => CooldownInvariant'
  <2> SUFFICES ASSUME HistoryWhole, EvalBase, CooldownInvariant, [EvalNext]_evalVars PROVE CooldownInvariant'
    OBVIOUS
  <2>1. Settled \/ \E e \in Evaluators : Learns(e)
    BY StepSettled DEF EvalBase
  <2> QED
    BY <2>1, CooldownForward, CooldownLearns DEF Settled
<1> QED
  BY <1>1, <1>2, BaseHolds, PTL DEF EvalSpec

\* However many evaluations overlap, none proposes an action on a target within the cooldown of
\* another that was completed on it, if that one's outcome was stored before the evaluation began
\* and it is in the list cooldownSatisfied reads, while no such list is cut off.
THEOREM CooldownIsKept == EvalSpec /\ []HistoryWhole => []CooldownKept
<1>1. CooldownInvariant => CooldownKept
  BY DEF CooldownInvariant, RowsCleared, Cleared, CooldownKept
<1> QED
  BY <1>1, CooldownHolds, PTL

(***************************************************************************)
(* OneInFlightEach.  What an evaluator did not find in flight it will not   *)
(* find in flight later: only it puts its candidates there.                *)
(***************************************************************************)

\* No row of candidate w by e is in flight within the window before second a.
Fresh(e, w, a) ==
    \A i \in DOMAIN rows :
        Automatic(i) /\ InFlight(i) /\ rows[i].by = e /\ rows[i].wish = w => a > rows[i].at + Window

TodoFresh ==
    \A e \in Evaluators : At(e, "judge") =>
        \A w \in pass[e].todo \ pass[e].blocked : w \in Gated \/ Fresh(e, w, pass[e].at)

DecidedFresh ==
    \A e \in Evaluators : \A d \in pass[e].decided :
        d.allowed => d.wish \in Gated \/ Fresh(e, d.wish, pass[e].at)

DecidedOnce ==
    \A e \in Evaluators :
        /\ \A c, d \in pass[e].decided : c.wish = d.wish => c = d
        /\ At(e, "judge") => \A d \in pass[e].decided : d.wish \notin pass[e].todo

HeldGated == \A i \in DOMAIN rows : rows[i].state = "held" => rows[i].wish \in Gated

ProposedByCandidate == \A i \in DOMAIN rows : rows[i].by \in Evaluators => rows[i].wish \in Candidates

OneInvariant ==
    TodoFresh /\ DecidedFresh /\ DecidedOnce /\ HeldGated /\ ProposedByCandidate /\ OneInFlightEach

\* What is in flight was, or waited for approval, or is new.
LEMMA InFlightBefore ==
    ASSUME EvalBase, OneInvariant, Forward, NEW i \in DOMAIN rows', Automatic(i)', InFlight(i)'
    PROVE  \/ /\ i \in DOMAIN rows /\ Automatic(i) /\ InFlight(i)
              /\ rows'[i].by = rows[i].by /\ rows'[i].wish = rows[i].wish /\ rows'[i].at = rows[i].at
           \/ /\ i = Len(rows) + 1 /\ i \notin DOMAIN rows /\ rows'[i].by \in Evaluators
              /\ \E d \in Decision : /\ Stores(rows'[i].by, d, rows'[i])
                                     /\ d.allowed /\ d.wish \notin Gated
<1>1. RowsForward
  BY DEF Forward
<1>2. CASE i \in DOMAIN rows
  <2>1. Onward(rows[i], rows'[i])
    BY <1>1, <1>2 DEF RowsForward
  <2>2. rows'[i].by = rows[i].by /\ rows'[i].wish = rows[i].wish /\ rows'[i].at = rows[i].at
    BY <2>1 DEF Onward
  <2>3. Automatic(i) /\ rows[i].state # "held"
    BY <1>2, <2>2 DEF Automatic, OneInvariant, HeldGated
  <2>4. InFlight(i)
    BY <2>1, <2>3 DEF Onward, InFlight
  <2> QED
    BY <1>2, <2>2, <2>3, <2>4
<1>3. CASE i \notin DOMAIN rows
  <2>1. i = Len(rows) + 1 /\ Stored(rows'[i])
    BY <1>1, <1>3 DEF RowsForward
  <2>2. rows'[i].by \in Evaluators /\ rows'[i].wish \notin Gated /\ rows'[i].state # "denied"
    BY DEF Automatic, InFlight
  <2>3. PICK d \in Decision : Stores(rows'[i].by, d, rows'[i])
    BY <2>1, <2>2 DEF Stored
  <2> QED
    BY <1>3, <2>1, <2>2, <2>3 DEF Stores
<1> QED
  BY <1>2, <1>3

\* A candidate stays fresh until its evaluator stores it.
LEMMA FreshStays ==
    ASSUME EvalBase, OneInvariant, Forward, NEW e \in Evaluators, NEW w, NEW a, Fresh(e, w, a),
           ~\E d \in pass[e].decided : d.wish = w /\ d.allowed /\ \E r : Stores(e, d, r)
    PROVE  Fresh(e, w, a)'
<1> SUFFICES ASSUME NEW i \in DOMAIN rows', Automatic(i)', InFlight(i)', rows'[i].by = e, rows'[i].wish = w
             PROVE  a > rows'[i].at + Window
  BY DEF Fresh
<1>1. i \in DOMAIN rows
  <2> SUFFICES ASSUME i \notin DOMAIN rows PROVE FALSE
    OBVIOUS
  <2>1. PICK d \in Decision : Stores(rows'[i].by, d, rows'[i]) /\ d.allowed
    BY InFlightBefore
  <2>2. d \in pass[e].decided /\ d.wish = w
    BY <2>1 DEF Stores
  <2> QED
    BY <2>1, <2>2
<1> QED
  BY <1>1, InFlightBefore DEF Fresh

LEMMA OneForward ==
    ASSUME EvalBase, OneInvariant, Forward
    PROVE  OneInvariant'
<1>1. EvalTypeOK /\ RowsForward /\ \A e \in Evaluators : Fades(e)
  BY DEF EvalBase, EvalShape, Forward
<1>2. TodoFresh'
  <2> SUFFICES ASSUME NEW e \in Evaluators, pass'[e].pc = "judge", NEW w \in pass'[e].todo \ pass'[e].blocked,
                      w \notin Gated
               PROVE  Fresh(e, w, pass[e].at)'
    BY DEF TodoFresh, At
  <2>1. pass'[e] = pass[e]
    BY <1>1 DEF Fades, At
  <2>2. PICK a : a = pass[e].at
    OBVIOUS
  <2>3. Fresh(e, w, a)
    BY <2>1, <2>2 DEF OneInvariant, TodoFresh, At
  <2>4. \A d, r : ~Stores(e, d, r)
    BY <2>1 DEF Stores, At
  <2>5. Fresh(e, w, a)'
    BY <2>3, <2>4, FreshStays
  <2>6. pass'[e].at = a
    BY <2>1, <2>2
  <2> QED
    BY <2>5, <2>6 DEF Fresh
<1>3. DecidedFresh'
  <2> SUFFICES ASSUME NEW e \in Evaluators, NEW d \in pass'[e].decided, d.allowed, d.wish \notin Gated
               PROVE  Fresh(e, d.wish, pass[e].at)'
    BY DEF DecidedFresh
  <2>1. pass'[e].at = pass[e].at /\ d \in pass[e].decided
    BY <1>1 DEF Fades
  <2>2. PICK a : a = pass[e].at
    OBVIOUS
  <2>3. Fresh(e, d.wish, a)
    BY <2>1, <2>2 DEF OneInvariant, DecidedFresh
  <2>4. \A c \in pass[e].decided : c.wish = d.wish => \A r : ~Stores(e, c, r)
    <3> SUFFICES ASSUME NEW c \in pass[e].decided, c.wish = d.wish, NEW r, Stores(e, c, r)
                 PROVE  FALSE
      OBVIOUS
    <3>1. c = d
      BY <2>1 DEF OneInvariant, DecidedOnce
    <3> QED
      BY <3>1 DEF Stores
  <2>5. Fresh(e, d.wish, a)'
    BY <2>3, <2>4, FreshStays
  <2>6. pass'[e].at = a
    BY <2>1, <2>2
  <2> QED
    BY <2>5, <2>6 DEF Fresh
<1>4. DecidedOnce'
  BY <1>1 DEF OneInvariant, DecidedOnce, Fades, At
<1>5. HeldGated' /\ ProposedByCandidate'
  <2> SUFFICES ASSUME NEW i \in DOMAIN rows'
               PROVE  /\ rows'[i].state = "held" => rows'[i].wish \in Gated
                      /\ rows'[i].by \in Evaluators => rows'[i].wish \in Candidates
    BY DEF HeldGated, ProposedByCandidate
  <2>1. CASE i \in DOMAIN rows
    <3>1. Onward(rows[i], rows'[i])
      BY <1>1, <2>1 DEF RowsForward
    <3> QED
      BY <2>1, <3>1 DEF Onward, OneInvariant, HeldGated, ProposedByCandidate
  <2>2. CASE i \notin DOMAIN rows
    <3>1. Stored(rows'[i])
      BY <1>1, <2>2 DEF RowsForward
    <3>2. CASE rows'[i].by \in Evaluators
      <4>1. PICK d \in Decision : Stores(rows'[i].by, d, rows'[i])
        BY <3>1, <3>2 DEF Stored
      <4>2. d.wish \in Candidates
        BY DEF Decision
      <4> QED
        BY <4>1, <4>2 DEF Stores
    <3>3. CASE rows'[i].by \notin Evaluators
      BY <3>1, <3>3 DEF Stored
    <3> QED
      BY <3>2, <3>3
  <2> QED
    BY <2>1, <2>2
<1>6. OneInFlightEach'
  <2> SUFFICES ASSUME NEW i \in DOMAIN rows', NEW j \in DOMAIN rows', i < j,
                      Automatic(i)', InFlight(i)', InFlight(j)',
                      rows'[i].by = rows'[j].by, rows'[i].wish = rows'[j].wish
               PROVE  rows'[j].at > rows'[i].at + Window
    BY DEF OneInFlightEach
  <2>1. Automatic(j)'
    BY DEF Automatic
  <2>2. DOMAIN rows = 1..Len(rows) /\ Len(rows) \in Nat
    BY <1>1, StateFacts
  <2>3. CASE j \in DOMAIN rows
    <3>1. i \in DOMAIN rows
      <4>1. i \in DOMAIN rows \/ i = Len(rows) + 1
        BY <1>1 DEF RowsForward
      <4> QED
        BY <2>2, <2>3, <4>1
    <3>2. /\ Automatic(i) /\ InFlight(i) /\ rows'[i].by = rows[i].by
          /\ rows'[i].wish = rows[i].wish /\ rows'[i].at = rows[i].at
      BY <3>1, InFlightBefore
    <3>3. /\ InFlight(j) /\ rows'[j].by = rows[j].by
          /\ rows'[j].wish = rows[j].wish /\ rows'[j].at = rows[j].at
      BY <2>1, <2>3, InFlightBefore
    <3> QED
      BY <2>3, <3>1, <3>2, <3>3 DEF OneInvariant, OneInFlightEach
  <2>4. CASE j \notin DOMAIN rows
    <3>1. j = Len(rows) + 1 /\ rows'[j].by \in Evaluators
      BY <2>1, <2>4, InFlightBefore
    <3>2. PICK d \in Decision : Stores(rows'[j].by, d, rows'[j]) /\ d.allowed /\ d.wish \notin Gated
      BY <2>1, <2>4, InFlightBefore
    <3>3. PICK e \in Evaluators : e = rows'[j].by
      BY <3>1
    <3>4. d \in pass[e].decided /\ d.wish = rows'[j].wish /\ rows'[j].at = pass[e].at
      BY <3>2, <3>3 DEF Stores
    <3>5. Fresh(e, d.wish, pass[e].at)
      BY <3>2, <3>4 DEF OneInvariant, DecidedFresh
    <3>6. i \in DOMAIN rows
      <4>1. i \in DOMAIN rows \/ i = Len(rows) + 1
        BY <1>1 DEF RowsForward
      <4> QED
        BY <2>2, <3>1, <4>1
    <3>7. /\ Automatic(i) /\ InFlight(i) /\ rows'[i].by = rows[i].by
          /\ rows'[i].wish = rows[i].wish /\ rows'[i].at = rows[i].at
      BY <3>6, InFlightBefore
    <3> QED
      BY <3>3, <3>4, <3>5, <3>6, <3>7 DEF Fresh
  <2> QED
    BY <2>3, <2>4
<1> QED
  BY <1>2, <1>3, <1>4, <1>5, <1>6 DEF OneInvariant

\* An evaluation that reads the active actions gets every row it asks for.
ActiveWhole ==
    \A e \in Evaluators : At(e, "active") =>
        Cardinality(Since(Before(pass[e].at, Window))) <= ActiveLimit

LEMMA OneLearns ==
    ASSUME ActiveWhole, EvalBase, OneInvariant, NEW e \in Evaluators, Learns(e)
    PROVE  OneInvariant'
<1>1. EvalShape /\ WorkInvariant /\ EvalTypeOK /\ mesh \in Meshes
  BY StateFacts DEF EvalBase, EvalShape
<1>2. UNCHANGED <<mesh, now, rows>> /\ \A f \in Evaluators \ {e} : pass'[f] = pass[f]
  BY <1>1, LearnsSettled
<1>3. pass'[e].at = pass[e].at
  BY <1>1, LearnsPass
<1>4. \A f, w, a : Fresh(f, w, a)' <=> Fresh(f, w, a)
  BY <1>2 DEF Fresh, Automatic, InFlight
<1>5. PICK a \in Nat : a = pass[e].at
  BY <1>1, TimeFacts
<1>6. /\ \A w \in pass'[e].todo \ pass'[e].blocked : pass'[e].pc = "judge" => w \in Gated \/ Fresh(e, w, a)
      /\ \A d \in pass'[e].decided : d.allowed => d.wish \in Gated \/ Fresh(e, d.wish, a)
      /\ \A c, d \in pass'[e].decided : c.wish = d.wish => c = d
      /\ pass'[e].pc = "judge" => \A d \in pass'[e].decided : d.wish \notin pass'[e].todo
  <2>1. /\ pass[e].pc = "judge" => \A w \in pass[e].todo \ pass[e].blocked : w \in Gated \/ Fresh(e, w, a)
        /\ \A d \in pass[e].decided : d.allowed => d.wish \in Gated \/ Fresh(e, d.wish, a)
        /\ \A c, d \in pass[e].decided : c.wish = d.wish => c = d
        /\ pass[e].pc = "judge" => \A d \in pass[e].decided : d.wish \notin pass[e].todo
    BY <1>5 DEF OneInvariant, TodoFresh, DecidedFresh, DecidedOnce, At
  <2>2. CASE ReadActive(e)
    <3> DEFINE S == Since(Before(a, Window))
    <3>1. PICK wishes \in mesh : \E active \in Newest(S, ActiveLimit) :
             /\ pass'[e].todo = wishes /\ pass'[e].decided = pass[e].decided
             /\ pass'[e].blocked = {w \in wishes : Conflicts(active, w, a)}
      BY <1>1, <1>5, <2>2, ReadActiveEffect
    <3>2. PICK active \in Newest(S, ActiveLimit) :
             /\ pass'[e].todo = wishes /\ pass'[e].decided = pass[e].decided
             /\ pass'[e].blocked = {w \in wishes : Conflicts(active, w, a)}
      BY <3>1
    <3>3. pass[e].decided = {}
      BY <2>2 DEF EvalBase, Unlearned, ReadActive
    <3>4. active = S
      <4>1. IsFiniteSet(S) /\ Cardinality(S) \in Nat /\ Cardinality(S) <= MaxRows[mesh]
        <5>1. S \in SUBSET DOMAIN rows
          BY DEF Since
        <5> QED
          BY <1>1, <5>1, RowsFinite
      <4>2. ActiveLimit \in Nat
        BY <1>1, ConstantFacts
      <4>3. Cardinality(S) <= ActiveLimit
        BY <1>5, <2>2 DEF ActiveWhole, ReadActive
      <4> HIDE DEF S
      <4> QED
        BY <3>2, <4>1, <4>2, <4>3, NewestIsAll
    <3>5. \A w \in wishes : ~Conflicts(S, w, a) => Fresh(e, w, a)
      <4> SUFFICES ASSUME NEW w \in wishes, NEW i \in DOMAIN rows, InFlight(i), rows[i].wish = w,
                          ~(a > rows[i].at + Window)
                   PROVE  Conflicts(S, w, a)
        BY DEF Fresh
      <4>1. rows[i].at \in Nat /\ Window \in Nat
        BY <1>1, TimeFacts, ConstantFacts
      <4>2. i \in S
        BY <1>5, <4>1, InWindow DEF Since
      <4> QED
        BY <4>2 DEF Conflicts
    <3> HIDE DEF S
    <3>6. \A w \in pass'[e].todo \ pass'[e].blocked : Fresh(e, w, a)
      BY <3>2, <3>4, <3>5
    <3> QED
      BY <3>2, <3>3, <3>6
  <2>3. CASE \E t \in Targets : ReadHistory(e, t)
    <3>1. /\ pass[e].pc = "judge" /\ pass'[e].decided = pass[e].decided
          /\ pass'[e].todo = pass[e].todo /\ pass'[e].blocked = pass[e].blocked
      BY <1>1, <2>3, ReadHistoryEffect
    <3> QED
      BY <2>1, <3>1
  <2>4. ASSUME NEW w \in Candidates, Judge(e, w)
        PROVE  <1>6!1 /\ <1>6!2 /\ <1>6!3 /\ <1>6!4
    <3>1. pass[e].pc = "judge" /\ w \in pass[e].todo
      BY <1>1, <2>4, JudgeEffect
    <3>2. PICK allowed \in BOOLEAN :
             /\ pass'[e].decided = pass[e].decided \cup {[wish |-> w, allowed |-> allowed]}
             /\ allowed => w \notin pass[e].blocked
      BY <1>1, <2>4, JudgeEffect
    <3>3. pass'[e].pc = "judge" => pass'[e].todo = pass[e].todo \ {w} /\ pass'[e].blocked = pass[e].blocked
      BY <1>1, <2>4, JudgeEffect
    <3>4. allowed => w \in Gated \/ Fresh(e, w, a)
      BY <2>1, <3>1, <3>2
    <3>5. \A d \in pass[e].decided : d.wish # w
      BY <2>1, <3>1
    <3> QED
      BY <2>1, <3>1, <3>2, <3>3, <3>4, <3>5
  <2> QED
    BY <2>2, <2>3, <2>4 DEF Learns
<1>7. TodoFresh'
  <2> SUFFICES ASSUME NEW f \in Evaluators, pass'[f].pc = "judge", NEW w \in pass'[f].todo \ pass'[f].blocked
               PROVE  w \in Gated \/ Fresh(f, w, pass'[f].at)
    BY <1>4 DEF TodoFresh, At
  <2>1. CASE f = e
    BY <1>3, <1>5, <1>6, <2>1
  <2>2. CASE f # e
    BY <1>2, <2>2 DEF OneInvariant, TodoFresh, At
  <2> QED
    BY <2>1, <2>2
<1>8. DecidedFresh'
  <2> SUFFICES ASSUME NEW f \in Evaluators, NEW d \in pass'[f].decided, d.allowed
               PROVE  d.wish \in Gated \/ Fresh(f, d.wish, pass'[f].at)
    BY <1>4 DEF DecidedFresh
  <2>1. CASE f = e
    BY <1>3, <1>5, <1>6, <2>1
  <2>2. CASE f # e
    BY <1>2, <2>2 DEF OneInvariant, DecidedFresh
  <2> QED
    BY <2>1, <2>2
<1>9. DecidedOnce'
  BY <1>2, <1>6 DEF OneInvariant, DecidedOnce, At
<1>10. HeldGated' /\ ProposedByCandidate' /\ OneInFlightEach'
  BY <1>2 DEF OneInvariant, HeldGated, ProposedByCandidate, OneInFlightEach, Automatic, InFlight
<1> QED
  BY <1>7, <1>8, <1>9, <1>10 DEF OneInvariant

LEMMA OneHolds == EvalSpec /\ []ActiveWhole => []OneInvariant
<1>1. EvalInit => OneInvariant
  BY DEF EvalInit, OneInvariant, TodoFresh, DecidedFresh, DecidedOnce, HeldGated, ProposedByCandidate,
         OneInFlightEach, At, Idle
<1>2. ActiveWhole /\ EvalBase /\ OneInvariant /\ [EvalNext]_evalVars => OneInvariant'
  <2> SUFFICES ASSUME ActiveWhole, EvalBase, OneInvariant, [EvalNext]_evalVars PROVE OneInvariant'
    OBVIOUS
  <2>1. Settled \/ \E e \in Evaluators : Learns(e)
    BY StepSettled DEF EvalBase
  <2> QED
    BY <2>1, OneForward, OneLearns DEF Settled
<1> QED
  BY <1>1, <1>2, BaseHolds, PTL DEF EvalSpec

\* However many evaluations overlap with each other and with the executor, none has two actions of
\* one candidate in flight unless the older is beyond the window, while no list of active actions
\* is cut off.
THEOREM OneIsInFlightEach == EvalSpec /\ []ActiveWhole => []OneInFlightEach
<1>1. OneInvariant => OneInFlightEach
  BY DEF OneInvariant
<1> QED
  BY <1>1, OneHolds, PTL

(***************************************************************************)
(* BudgetOverrun.  An action an evaluation lets through takes a place of    *)
(* its evaluator and candidate, which it holds until it is executed and     *)
(* counts against the budget; the budget's check is about all that counts   *)
(* at that moment.                                                         *)
(***************************************************************************)

Recent == Since(Before(now, Window))

Spent == {i \in Recent : Automatic(i) /\ Executed(i)}

Places == Evaluators \X (Candidates \ Gated)

Taken ==
    {s \in Places :
        \/ \E i \in Recent : InFlight(i) /\ rows[i].by = s[1] /\ rows[i].wish = s[2]
        \/ \E d \in pass[s[1]].decided : d.allowed /\ d.wish = s[2]}

BudgetInvariant ==
    Budget > 0 => Cardinality(Spent) + Cardinality(Taken) < Budget + Cardinality(Places)

\* An evaluation that checks the budget gets every row it asks for.
BudgetWhole ==
    \A e \in Evaluators : At(e, "judge") =>
        Cardinality(Since(Before(pass[e].at, Window))) <= Budget + BudgetSlack

LEMMA PlacesFinite ==
    /\ IsFiniteSet(Places) /\ Cardinality(Places) \in Nat
    /\ Cardinality(Places) = Cardinality(Evaluators) * Cardinality(Candidates \ Gated)
    /\ IsFiniteSet(Taken) /\ Cardinality(Taken) \in Nat /\ Cardinality(Taken) <= Cardinality(Places)
<1>1. IsFiniteSet(Evaluators) /\ IsFiniteSet(Candidates \ Gated)
  BY EvaluateAssumption, FS_Subset
<1>2. /\ IsFiniteSet(Places)
      /\ Cardinality(Places) = Cardinality(Evaluators) * Cardinality(Candidates \ Gated)
  BY <1>1, FS_Product DEF Places
<1>3. Taken \subseteq Places
  BY DEF Taken
<1> QED
  BY <1>2, <1>3, FS_Subset, FS_CardinalityType

LEMMA SpentFinite ==
    ASSUME EvalTypeOK
    PROVE  IsFiniteSet(Spent) /\ Cardinality(Spent) \in Nat
<1>1. Spent \in SUBSET DOMAIN rows
  BY DEF Spent, Recent, Since
<1> QED
  BY <1>1, RowsFinite

\* The window only moves on.
LEMMA RecentShrinks ==
    ASSUME EvalBase, Forward, NEW i \in DOMAIN rows, i \in Recent'
    PROVE  i \in Recent
<1>1. now \in Nat /\ now' \in Nat /\ now <= now' /\ Window \in Nat /\ rows[i].at \in Nat
  BY TimeFacts, ConstantFacts, StateFacts DEF Forward, EvalBase, EvalShape
<1>2. rows'[i].at = rows[i].at
  BY DEF Forward, RowsForward, Onward
<1>3. rows[i].at + Window >= now'
  <2>1. rows'[i].at >= Before(now', Window)
    BY DEF Recent, Since
  <2> QED
    BY <1>1, <1>2, <2>1, InWindow
<1>4. rows[i].at + Window >= now
  BY <1>1, <1>3
<1> QED
  BY <1>1, <1>4, InWindow DEF Recent, Since

\* No place is taken anew but by a decision.
LEMMA TakenShrinks ==
    ASSUME EvalBase, OneInvariant, Forward
    PROVE  Taken' \subseteq Taken
<1> SUFFICES ASSUME NEW s \in Places,
                    \/ \E i \in Recent' : InFlight(i)' /\ rows'[i].by = s[1] /\ rows'[i].wish = s[2]
                    \/ \E d \in pass'[s[1]].decided : d.allowed /\ d.wish = s[2]
             PROVE  s \in Taken
  BY DEF Taken, Places
<1>1. PICK e \in Evaluators, w \in Candidates \ Gated : s[1] = e /\ s[2] = w
  BY DEF Places
<1>2. CASE \E i \in Recent' : InFlight(i)' /\ rows'[i].by = s[1] /\ rows'[i].wish = s[2]
  <2>1. PICK i \in Recent' : InFlight(i)' /\ rows'[i].by = e /\ rows'[i].wish = w
    BY <1>1, <1>2
  <2>2. i \in DOMAIN rows' /\ Automatic(i)'
    BY <2>1 DEF Recent, Since, Automatic
  <2>3. CASE i \in DOMAIN rows
    <3>1. InFlight(i) /\ rows[i].by = e /\ rows[i].wish = w
      BY <2>1, <2>2, <2>3, InFlightBefore
    <3>2. i \in Recent
      BY <2>1, <2>3, RecentShrinks
    <3> QED
      BY <1>1, <3>1, <3>2 DEF Taken
  <2>4. CASE i \notin DOMAIN rows
    <3>1. PICK d \in Decision : Stores(rows'[i].by, d, rows'[i]) /\ d.allowed
      BY <2>1, <2>2, <2>4, InFlightBefore
    <3>2. d \in pass[e].decided /\ d.wish = w
      BY <2>1, <3>1 DEF Stores
    <3> QED
      BY <1>1, <3>1, <3>2 DEF Taken
  <2> QED
    BY <2>3, <2>4
<1>3. CASE \E d \in pass'[s[1]].decided : d.allowed /\ d.wish = s[2]
  <2>1. pass'[e].decided \subseteq pass[e].decided
    BY DEF Forward, Fades
  <2> QED
    BY <1>1, <1>3, <2>1 DEF Taken
<1> QED
  BY <1>2, <1>3

\* An action that counts against the budget gives its place back.
LEMMA PlaceGivenBack ==
    ASSUME EvalBase, OneInvariant, Forward, NEW i \in Spent', i \notin Spent
    PROVE  /\ i \in DOMAIN rows /\ Ends(i)
           /\ <<rows[i].by, rows[i].wish>> \in Taken
           /\ <<rows[i].by, rows[i].wish>> \notin Taken'
<1>1. i \in DOMAIN rows' /\ i \in Recent' /\ Automatic(i)' /\ rows'[i].state = "executed"
  BY DEF Spent, Recent, Since, Executed
<1>2. i \in DOMAIN rows
  <2>1. i \notin DOMAIN rows => Stored(rows'[i])
    BY <1>1 DEF Forward, RowsForward
  <2> QED
    BY <1>1, <2>1 DEF Stored
<1>3. Onward(rows[i], rows'[i])
  BY <1>2 DEF Forward, RowsForward
<1>4. PICK e \in Evaluators, w \in Candidates \ Gated :
         rows[i].by = e /\ rows[i].wish = w /\ rows'[i].by = e /\ rows'[i].wish = w
  BY <1>1, <1>2, <1>3 DEF Onward, Automatic, OneInvariant, ProposedByCandidate
<1>5. i \in Recent /\ Automatic(i)
  BY <1>1, <1>2, <1>4, RecentShrinks DEF Automatic
<1>6. Ends(i) /\ InFlight(i)
  <2>1. rows[i].state # "executed"
    BY <1>5 DEF Spent, Executed
  <2> QED
    BY <1>1, <1>3, <2>1 DEF Ends, Onward, InFlight
<1>7. <<e, w>> \in Taken
  BY <1>4, <1>5, <1>6 DEF Taken, Places
<1>8. now \in Nat /\ rows[i].at \in Nat /\ Window \in Nat /\ rows[i].at + Window >= now
  <2>1. now \in Nat /\ rows[i].at \in Nat /\ Window \in Nat
    BY <1>2, TimeFacts, StateFacts, ConstantFacts DEF EvalBase, EvalShape
  <2>2. rows[i].at >= Before(now, Window)
    BY <1>5 DEF Recent, Since
  <2> QED
    BY <2>1, <2>2, InWindow
<1>9. \A d \in pass[e].decided : ~(d.allowed /\ d.wish = w)
  <2> SUFFICES ASSUME NEW d \in pass[e].decided, d.allowed, d.wish = w PROVE FALSE
    OBVIOUS
  <2>1. Fresh(e, w, pass[e].at)
    BY DEF OneInvariant, DecidedFresh
  <2>2. pass[e].at > rows[i].at + Window
    BY <1>2, <1>4, <1>5, <1>6, <2>1 DEF Fresh
  <2>3. pass[e].at \in Nat /\ pass[e].at <= now
    BY TimeFacts DEF EvalBase, EvalShape, TimesBehind
  <2> QED
    BY <1>8, <2>2, <2>3
<1>10. \A j \in DOMAIN rows : ~(j # i /\ j \in Recent /\ InFlight(j) /\ rows[j].by = e /\ rows[j].wish = w)
  <2> SUFFICES ASSUME NEW j \in DOMAIN rows, j # i, j \in Recent, InFlight(j), rows[j].by = e, rows[j].wish = w
               PROVE  FALSE
    OBVIOUS
  <2>1. /\ now \in Nat /\ Window \in Nat /\ rows[j].at \in Nat /\ i \in Nat /\ j \in Nat
        /\ rows[j].at <= now /\ rows[i].at <= now
    BY <1>2, TimeFacts, StateFacts, ConstantFacts DEF EvalBase, EvalShape, TimesBehind
  <2>2. rows[j].at + Window >= now
    <3>1. rows[j].at >= Before(now, Window)
      BY DEF Recent, Since
    <3> QED
      BY <2>1, <3>1, InWindow
  <2>3. Automatic(j)
    BY <1>4 DEF Automatic
  <2>4. CASE i < j
    <3>1. rows[j].at > rows[i].at + Window
      BY <1>2, <1>4, <1>5, <1>6, <2>4 DEF OneInvariant, OneInFlightEach
    <3> QED
      BY <1>8, <2>1, <3>1
  <2>5. CASE j < i
    <3>1. rows[i].at > rows[j].at + Window
      BY <1>2, <1>4, <1>6, <2>3, <2>5 DEF OneInvariant, OneInFlightEach
    <3> QED
      BY <1>8, <2>1, <2>2, <3>1
  <2> QED
    BY <2>1, <2>4, <2>5
<1>11. <<e, w>> \notin Taken'
  <2>1. ~\E d \in pass'[e].decided : d.allowed /\ d.wish = w
    <3>1. pass'[e].decided \subseteq pass[e].decided
      BY DEF Forward, Fades
    <3> QED
      BY <1>9, <3>1
  <2>2. ~\E j \in Recent' : InFlight(j)' /\ rows'[j].by = e /\ rows'[j].wish = w
    <3> SUFFICES ASSUME NEW j \in Recent', InFlight(j)', rows'[j].by = e, rows'[j].wish = w PROVE FALSE
      OBVIOUS
    <3>1. j \in DOMAIN rows' /\ Automatic(j)'
      BY DEF Recent, Since, Automatic
    <3>2. CASE j \in DOMAIN rows
      <4>1. InFlight(j) /\ rows[j].by = e /\ rows[j].wish = w
        BY <3>1, <3>2, InFlightBefore
      <4>2. j \in Recent
        BY <3>2, RecentShrinks
      <4>3. j # i
        BY <1>1 DEF InFlight
      <4> QED
        BY <1>10, <3>2, <4>1, <4>2, <4>3
    <3>3. CASE j \notin DOMAIN rows
      <4>1. PICK d \in Decision : Stores(rows'[j].by, d, rows'[j]) /\ d.allowed
        BY <3>1, <3>3, InFlightBefore
      <4>2. d \in pass[e].decided /\ d.wish = w
        BY <4>1 DEF Stores
      <4> QED
        BY <1>9, <4>1, <4>2
    <3> QED
      BY <3>2, <3>3
  <2>3. <<e, w>>[1] = e /\ <<e, w>>[2] = w
    OBVIOUS
  <2> QED
    BY <2>1, <2>2, <2>3 DEF Taken
<1> QED
  BY <1>2, <1>4, <1>6, <1>7, <1>11

LEMMA BudgetForward ==
    ASSUME EvalBase, OneInvariant, BudgetInvariant, Forward
    PROVE  BudgetInvariant'
<1> SUFFICES ASSUME Budget > 0
             PROVE  Cardinality(Spent') + Cardinality(Taken') < Budget + Cardinality(Places)
  BY DEF BudgetInvariant, Budget, Forward, Places
<1>1. /\ IsFiniteSet(Spent) /\ Cardinality(Spent) \in Nat
      /\ IsFiniteSet(Taken) /\ Cardinality(Taken) \in Nat /\ Cardinality(Places) \in Nat
      /\ Budget \in Nat /\ Cardinality(Spent) + Cardinality(Taken) < Budget + Cardinality(Places)
  BY SpentFinite, PlacesFinite, ConstantFacts, StateFacts DEF EvalBase, EvalShape, BudgetInvariant
<1>2. Taken' \subseteq Taken
  BY TakenShrinks
<1>3. CASE Spent' \subseteq Spent
  <2>1. /\ Cardinality(Spent') \in Nat /\ Cardinality(Spent') <= Cardinality(Spent)
        /\ Cardinality(Taken') \in Nat /\ Cardinality(Taken') <= Cardinality(Taken)
    BY <1>1, <1>2, <1>3, FS_Subset, FS_CardinalityType
  <2> QED
    BY <1>1, <2>1
<1>4. CASE \E i \in Spent' : i \notin Spent
  <2>1. PICK i \in Spent' : i \notin Spent
    BY <1>4
  <2>2. PICK s : s = <<rows[i].by, rows[i].wish>>
    OBVIOUS
  <2>3. i \in DOMAIN rows /\ Ends(i) /\ s \in Taken /\ s \notin Taken'
    BY <2>1, <2>2, PlaceGivenBack
  <2>4. Spent' \subseteq Spent \cup {i}
    <3> SUFFICES ASSUME NEW j \in Spent', j \notin Spent PROVE j = i
      OBVIOUS
    <3>1. j \in DOMAIN rows /\ Ends(j)
      BY PlaceGivenBack
    <3> QED
      BY <2>3, <3>1 DEF Forward, RowsForward
  <2>5. IsFiniteSet(Spent \cup {i}) /\ Cardinality(Spent \cup {i}) = Cardinality(Spent) + 1
    BY <1>1, <2>1, FS_AddElement
  <2>6. IsFiniteSet(Taken \ {s}) /\ Cardinality(Taken \ {s}) = Cardinality(Taken) - 1
    BY <1>1, <2>3, FS_RemoveElement
  <2>7. /\ Cardinality(Spent') \in Nat /\ Cardinality(Spent') <= Cardinality(Spent \cup {i})
    BY <2>4, <2>5, FS_Subset, FS_CardinalityType
  <2>8. /\ Cardinality(Taken') \in Nat /\ Cardinality(Taken') <= Cardinality(Taken \ {s})
    <3>1. Taken' \subseteq Taken \ {s}
      BY <1>2, <2>3
    <3> QED
      BY <2>6, <3>1, FS_Subset, FS_CardinalityType
  <2> QED
    BY <1>1, <2>5, <2>6, <2>7, <2>8
<1> QED
  BY <1>3, <1>4

LEMMA BudgetLearns ==
    ASSUME BudgetWhole, EvalBase, BudgetInvariant, NEW e \in Evaluators, Learns(e)
    PROVE  BudgetInvariant'
<1>1. EvalShape /\ WorkInvariant /\ EvalTypeOK /\ mesh \in Meshes
  BY StateFacts DEF EvalBase, EvalShape
<1>2. UNCHANGED <<mesh, now, rows>> /\ \A f \in Evaluators \ {e} : pass'[f] = pass[f]
  BY <1>1, LearnsSettled
<1>3. Spent' = Spent /\ Recent' = Recent /\ Budget' = Budget
  BY <1>2 DEF Spent, Recent, Since, Automatic, Executed, Budget
<1> SUFFICES ASSUME Budget > 0
             PROVE  Cardinality(Spent) + Cardinality(Taken') < Budget + Cardinality(Places)
  BY <1>3 DEF BudgetInvariant, Places
<1>4. /\ IsFiniteSet(Spent) /\ Cardinality(Spent) \in Nat
      /\ IsFiniteSet(Taken) /\ Cardinality(Taken) \in Nat
      /\ IsFiniteSet(Places) /\ Cardinality(Places) \in Nat
      /\ Budget \in Nat /\ Cardinality(Spent) + Cardinality(Taken) < Budget + Cardinality(Places)
  BY <1>1, SpentFinite, PlacesFinite, ConstantFacts DEF BudgetInvariant
<1>5. \A s \in Places : s[1] \in Evaluators
  BY DEF Places
<1>6. CASE \A d \in pass'[e].decided : d.allowed => d \in pass[e].decided
  <2>1. Taken' \subseteq Taken
    <3> SUFFICES ASSUME NEW s \in Places,
                        \/ \E i \in Recent' : InFlight(i)' /\ rows'[i].by = s[1] /\ rows'[i].wish = s[2]
                        \/ \E d \in pass'[s[1]].decided : d.allowed /\ d.wish = s[2]
                 PROVE  s \in Taken
      BY DEF Taken, Places
    <3>1. CASE \E i \in Recent' : InFlight(i)' /\ rows'[i].by = s[1] /\ rows'[i].wish = s[2]
      BY <1>2, <1>3, <3>1 DEF Taken, InFlight
    <3>2. CASE \E d \in pass'[s[1]].decided : d.allowed /\ d.wish = s[2]
      <4>1. CASE s[1] = e
        BY <1>6, <3>2, <4>1 DEF Taken
      <4>2. CASE s[1] # e
        BY <1>2, <1>5, <3>2, <4>2 DEF Taken
      <4> QED
        BY <4>1, <4>2
    <3> QED
      BY <3>1, <3>2
  <2>2. Cardinality(Taken') \in Nat /\ Cardinality(Taken') <= Cardinality(Taken)
    BY <1>4, <2>1, FS_Subset, FS_CardinalityType
  <2> QED
    BY <1>4, <2>2
<1>7. CASE Cardinality(Spent) < Budget
  <2>1. Taken' \subseteq Places
    BY DEF Taken, Places
  <2>2. Cardinality(Taken') \in Nat /\ Cardinality(Taken') <= Cardinality(Places)
    BY <1>4, <2>1, FS_Subset, FS_CardinalityType
  <2> QED
    BY <1>4, <1>7, <2>2
<1>8. CASE ReadActive(e) \/ \E t \in Targets : ReadHistory(e, t)
  <2>1. pass'[e].decided = pass[e].decided
    BY <1>1, <1>8, ReadActiveEffect, ReadHistoryEffect
  <2> QED
    BY <1>6, <2>1
<1>9. ASSUME NEW w \in Candidates, Judge(e, w)
      PROVE  \/ \A d \in pass'[e].decided : d.allowed => d \in pass[e].decided
             \/ Cardinality(Spent) < Budget
  <2> DEFINE S == Since(Before(pass[e].at, Window))
  <2>1. PICK allowed \in BOOLEAN :
           /\ pass'[e].decided = pass[e].decided \cup {[wish |-> w, allowed |-> allowed]}
           /\ allowed => \E seen \in Newest(S, Budget + BudgetSlack) : WithinBudget(seen, w)
    BY <1>1, <1>9, JudgeEffect
  <2>2. CASE ~allowed
    BY <2>1, <2>2
  <2>3. CASE allowed
    <3>1. PICK seen \in Newest(S, Budget + BudgetSlack) : WithinBudget(seen, w)
      BY <2>1, <2>3
    <3>2. seen = S
      <4>1. IsFiniteSet(S) /\ Cardinality(S) \in Nat /\ Cardinality(S) <= MaxRows[mesh]
        <5>1. S \in SUBSET DOMAIN rows
          BY DEF Since
        <5> QED
          BY <1>1, <5>1, RowsFinite
      <4>2. Budget + BudgetSlack \in Nat
        BY <1>1, ConstantFacts
      <4>3. Cardinality(S) <= Budget + BudgetSlack
        BY <1>9 DEF BudgetWhole, Judge
      <4> HIDE DEF S
      <4> QED
        BY <3>1, <4>1, <4>2, <4>3, NewestIsAll
    <3>3. Cardinality({i \in S : Executed(i)}) < Budget
      BY <3>1, <3>2 DEF WithinBudget
    <3>4. Spent \subseteq {i \in S : Executed(i)}
      <4> SUFFICES ASSUME NEW i \in Spent PROVE i \in S /\ Executed(i)
        OBVIOUS
      <4>1. i \in DOMAIN rows /\ Executed(i) /\ rows[i].at >= Before(now, Window)
        BY DEF Spent, Recent, Since
      <4>2. /\ rows[i].at \in Nat /\ now \in Nat /\ Window \in Nat
            /\ pass[e].at \in Nat /\ pass[e].at <= now
        BY <1>1, <4>1, TimeFacts, ConstantFacts DEF EvalBase, TimesBehind
      <4>3. rows[i].at + Window >= now
        BY <4>1, <4>2, InWindow
      <4>4. rows[i].at + Window >= pass[e].at
        BY <4>2, <4>3
      <4>5. rows[i].at >= Before(pass[e].at, Window)
        BY <4>2, <4>4, InWindow
      <4> QED
        BY <4>1, <4>5 DEF Since
    <3>5. /\ IsFiniteSet({i \in S : Executed(i)}) /\ Cardinality({i \in S : Executed(i)}) \in Nat
      <4>1. {i \in S : Executed(i)} \in SUBSET DOMAIN rows
        BY DEF Since
      <4> QED
        BY <1>1, <4>1, RowsFinite
    <3>6. Cardinality(Spent) <= Cardinality({i \in S : Executed(i)})
      BY <3>4, <3>5, FS_Subset
    <3> QED
      BY <1>4, <3>3, <3>5, <3>6
  <2> QED
    BY <2>2, <2>3
<1> QED
  BY <1>6, <1>7, <1>8, <1>9 DEF Learns

LEMMA BudgetHolds == EvalSpec /\ []ActiveWhole /\ []BudgetWhole => []BudgetInvariant
<1>1. EvalInit => BudgetInvariant
  <2> SUFFICES ASSUME EvalInit, Budget > 0
               PROVE  Cardinality(Spent) + Cardinality(Taken) < Budget + Cardinality(Places)
    BY DEF BudgetInvariant
  <2>1. DOMAIN rows = {} /\ \A e \in Evaluators : pass[e].decided = {}
    BY DEF EvalInit, Idle
  <2>2. Recent = {}
    BY <2>1 DEF Recent, Since
  <2>3. Spent = {} /\ Taken = {}
    BY <2>1, <2>2 DEF Spent, Taken, Places
  <2>4. Budget \in Nat /\ Cardinality(Places) \in Nat
    BY PlacesFinite, ConstantFacts DEF EvalInit
  <2> QED
    BY <2>3, <2>4, FS_EmptySet
<1>2. BudgetWhole /\ EvalBase /\ OneInvariant /\ BudgetInvariant /\ [EvalNext]_evalVars => BudgetInvariant'
  <2> SUFFICES ASSUME BudgetWhole, EvalBase, OneInvariant, BudgetInvariant, [EvalNext]_evalVars PROVE BudgetInvariant'
    OBVIOUS
  <2>1. Settled \/ \E e \in Evaluators : Learns(e)
    BY StepSettled DEF EvalBase
  <2> QED
    BY <2>1, BudgetForward, BudgetLearns DEF Settled
<1> QED
  BY <1>1, <1>2, BaseHolds, OneHolds, PTL DEF EvalSpec

\* The budget of a window is overrun by fewer actions than evaluators may have automatic candidates
\* in flight: every evaluation checks it long before what it proposes counts, while no list of
\* active actions and none of the budget is cut off.
THEOREM BudgetIsOverrunByFew == EvalSpec /\ []ActiveWhole /\ []BudgetWhole => []BudgetOverrun
<1>1. EvalBase /\ BudgetInvariant => BudgetOverrun
  <2> SUFFICES ASSUME EvalBase, BudgetInvariant, Budget > 0
               PROVE  Cardinality(Spent) < Budget + Cardinality(Evaluators) * Cardinality(Candidates \ Gated)
    BY DEF BudgetOverrun, Spent, Recent
  <2>1. /\ Cardinality(Spent) \in Nat /\ Cardinality(Taken) \in Nat /\ Cardinality(Places) \in Nat
        /\ Budget \in Nat /\ Cardinality(Spent) + Cardinality(Taken) < Budget + Cardinality(Places)
    BY SpentFinite, PlacesFinite, ConstantFacts, StateFacts DEF EvalBase, EvalShape, BudgetInvariant
  <2>2. Cardinality(Spent) < Budget + Cardinality(Places)
    BY <2>1
  <2> QED
    BY <2>2, PlacesFinite
<1> QED
  BY <1>1, BaseHolds, BudgetHolds, PTL
=============================================================================
