--------------------------- MODULE IncidentsProofs ---------------------------
(***************************************************************************)
(* Theorems about Transport and Incidents, for every number of workers and  *)
(* operators, every queue size and threshold, and every budget.             *)
(***************************************************************************)
EXTENDS Incidents, FiniteSetTheorems, TLAPS

\* The records of TransportTypeOK and IncidentsTypeOK, by name.
Loops == [pc : LoopPcs, fails : Nat, told : BOOLEAN, conn : Connections \cup {None},
          why : Phases, seen : BOOLEAN]
States == UpStates \cup {"configured", "connecting", "retrying", "failed"}
Healths == [state : States, episode : BOOLEAN, timeouts : 0 .. Threshold, total : BOOLEAN,
            by : Writers, closedBy : Writers]
Tallies == [sent : Nat, decided : Nat, lost : Nat]
Amounts == [dials : Nat, packets : Nat, restarts : Nat, requests : Nat, faults : Nat]
Takers == [pc : {"idle", "stored", "marked", "drop"}, seen : BOOLEAN]
Restarts == [pc : {"idle", "closing", "closed", "interrupt"}, conn : Connections \cup {None}]

Typed ==
    /\ loop \in Loops /\ rw \in Connections \cup {None} /\ open \subseteq Connections
    /\ health \in Healths /\ exec \in Restarts /\ token \in BOOLEAN
    /\ waiting \in 0 .. IngestSize
    /\ worker \in [Workers -> Takers]
    /\ bus \in Seq(Notices) /\ Len(bus) <= BusSize
    /\ marks \in [Reasons -> Phases \cup {"socket", "none"}]
    /\ tally \in Tallies /\ budget \in Amounts

LEMMA TypeParts == TransportTypeOK <=> Typed
BY DEF TransportTypeOK, Typed, Loops, States, Healths, Tallies, Amounts, Takers, Restarts

\* A transport that may still read has patience left.
Reading == {"up", "clear", "subscribe", "read", "timeout", "frame", "accepted", "drop"}
Patience == loop.pc \in Reading => health.timeouts < Threshold

LEMMA GotoFacts ==
    ASSUME loop \in Loops, NEW pc \in LoopPcs, Goto(pc)
    PROVE  /\ loop' \in Loops /\ loop'.pc = pc
           /\ loop'.conn = loop.conn /\ loop'.why = loop.why /\ loop'.told = loop.told
BY DEF Goto, Loops

LEMMA StateFacts ==
    ASSUME health \in Healths, NEW s \in States, NEW w \in Writers
    PROVE  /\ State(s, w) \in Healths
           /\ State(s, w).state = s /\ State(s, w).by = w
           /\ State(s, w).episode = health.episode /\ State(s, w).closedBy = health.closedBy
           /\ State(s, w).timeouts = health.timeouts
BY DEF State, Healths

LEMMA SpendType ==
    ASSUME budget \in Amounts, NEW what \in {"dials", "packets", "restarts", "requests", "faults"},
           Spend(what)
    PROVE  budget' \in Amounts
BY DEF Spend, Amounts

LEMMA PublishType ==
    ASSUME bus \in Seq(Notices), Len(bus) <= BusSize, tally \in Tallies,
           NEW n \in Notices, Publish(n)
    PROVE  bus' \in Seq(Notices) /\ Len(bus') <= BusSize /\ tally' \in Tallies
<1>0. BusSize \in Nat
  BY TransportAssumption
<1>1. bus' \in Seq(Notices) /\ Len(bus') <= BusSize
  BY <1>0 DEF Publish
<1>2. /\ tally.sent + 1 \in Nat /\ tally.decided + 1 \in Nat /\ tally.lost + 1 \in Nat
      /\ tally = [sent |-> tally.sent, decided |-> tally.decided, lost |-> tally.lost]
  BY DEF Tallies
<1>3. tally' \in Tallies
  BY <1>2 DEF Publish, Tallies
<1> QED
  BY <1>1, <1>3

LEMMA SocketNotices == \A r \in Reasons : [reason |-> r, print |-> "socket"] \in Notices
BY DEF Notices

LEMMA ConnectedType == \A b \in BOOLEAN : Connected(b) \in UpStates /\ Connected(b) \in States
BY DEF Connected, UpStates, States

LEMMA SomePcs ==
    /\ "connecting" \in States /\ "retrying" \in States /\ "failed" \in States
    /\ "idle" \in States /\ "live" \in States
    /\ "loop" \in Writers /\ "exec" \in Writers /\ "worker" \in Writers
BY DEF States, UpStates, Writers

LEMMA Numbers ==
    /\ Threshold \in Nat \ {0} /\ IngestSize \in Nat /\ BusSize \in Nat /\ MaxOpen \in Nat
    /\ Budgets \subseteq Amounts
    /\ None \notin Connections
BY TransportAssumption DEF Amounts, None, Connections

LEMMA TransportInitType == TransportInit => Typed /\ Patience
<1> SUFFICES ASSUME TransportInit PROVE Typed /\ Patience
  OBVIOUS
<1>1. loop \in Loops /\ loop.pc = "attempt"
  BY DEF TransportInit, Loops, LoopPcs, Phases
<1>2. health \in Healths
  BY Numbers DEF TransportInit, Healths, States, Writers
<1>3. exec \in Restarts /\ worker \in [Workers -> Takers] /\ tally \in Tallies
  BY DEF TransportInit, Restarts, Takers, Tallies
<1>4. waiting \in 0 .. IngestSize /\ Len(bus) <= BusSize /\ bus \in Seq(Notices)
  BY Numbers DEF TransportInit
<1>5. marks \in [Reasons -> Phases \cup {"socket", "none"}] /\ budget \in Amounts
  BY Numbers DEF TransportInit
<1>6. rw \in Connections \cup {None} /\ open \subseteq Connections /\ token \in BOOLEAN
  BY DEF TransportInit
<1> QED
  BY <1>1, <1>2, <1>3, <1>4, <1>5, <1>6 DEF Typed, Patience, Reading

\* Connect.
LEMMA ConnectType ==
    Typed /\ Patience /\ (Attempt \/ Connect) => Typed' /\ Patience'
<1> SUFFICES ASSUME Typed, Patience, Attempt \/ Connect
             PROVE  Typed' /\ Patience'
  OBVIOUS
<1> USE DEF Typed
<1>1. CASE Attempt
  <2>1. loop' \in Loops /\ loop'.pc = "dial"
    BY <1>1, GotoFacts DEF Attempt, LoopPcs
  <2>2. health' \in Healths /\ budget' \in Amounts
    BY <1>1, StateFacts, SomePcs, SpendType DEF Attempt
  <2> QED
    BY <1>1, <2>1, <2>2 DEF Attempt, Patience, Reading
<1>2. CASE DialFails
  <2>1. loop' \in Loops /\ loop'.pc = "failed"
    BY <1>2 DEF DialFails, Loops, LoopPcs, Phases
  <2>2. health' \in Healths
    BY <1>2, StateFacts, SomePcs DEF DialFails
  <2> QED
    BY <1>2, <2>1, <2>2 DEF DialFails, Patience, Reading
<1>3. CASE Dial
  <2>1. PICK c \in Connections : /\ open' = open \cup {c}
                                 /\ loop' = [loop EXCEPT !.pc = "attach", !.conn = c]
    BY <1>3 DEF Dial
  <2>2. open' \subseteq Connections
    BY <2>1
  <2>3. loop' \in Loops /\ loop'.pc = "attach"
    <3>1. "attach" \in LoopPcs
      BY DEF LoopPcs
    <3> QED
      BY <2>1, <3>1 DEF Loops
  <2> QED
    BY <1>3, <2>2, <2>3 DEF Dial, Patience, Reading
<1>4. CASE Attach
  <2>1. loop' \in Loops /\ loop'.pc = "announce"
    BY <1>4, GotoFacts DEF Attach, LoopPcs
  <2>2. rw' \in Connections \cup {None}
    BY <1>4 DEF Attach, Loops
  <2> QED
    BY <1>4, <2>1, <2>2 DEF Attach, Patience, Reading
<1>5. CASE Announce
  <2>1. loop' \in Loops
    BY <1>5, GotoFacts DEF Announce, LoopPcs
  <2>2. State("idle", "loop") \in Healths
    BY StateFacts, SomePcs
  <2>3. health' \in Healths /\ health'.timeouts = 0
    BY <1>5, <2>2, Numbers DEF Announce, Healths
  <2> QED
    BY <1>5, <2>1, <2>3, Numbers DEF Announce, Patience
<1>6. CASE Up
  <2>1. loop' \in Loops /\ loop.pc = "up"
    BY <1>6 DEF Up, LoopAt, Loops, LoopPcs
  <2>2. health' \in Healths /\ health'.timeouts = health.timeouts
    BY <1>6, SomePcs DEF Up, Healths
  <2> QED
    BY <1>6, <2>1, <2>2 DEF Up, Patience, Reading
<1>7. CASE Clear
  <2>1. loop' \in Loops /\ loop.pc = "clear"
    BY <1>7, GotoFacts DEF Clear, LoopAt, LoopPcs
  <2>2. marks' \in [Reasons -> Phases \cup {"socket", "none"}]
    BY <1>7 DEF Clear, Cleared
  <2>3. tally' \in Tallies
    BY <1>7 DEF Clear, Tallies
  <2> QED
    BY <1>7, <2>1, <2>2, <2>3 DEF Clear, Patience, Reading
<1>8. CASE Subscribe
  <2>1. loop' \in Loops /\ loop.pc = "subscribe"
    BY <1>8 DEF Subscribe, LoopAt, Loops, LoopPcs, Phases
  <2> QED
    BY <1>8, <2>1 DEF Subscribe, Patience, Reading
<1> QED
  BY <1>1, <1>2, <1>3, <1>4, <1>5, <1>6, <1>7, <1>8 DEF Connect

\* Subscribe's loop.
LEMMA FailType ==
    ASSUME Typed, NEW s \in States, NEW r \in Reasons, Fail(s, r)
    PROVE  Typed' /\ Patience'
<1> USE DEF Typed
<1>1. loop' \in Loops /\ loop'.pc = "failed"
  BY GotoFacts DEF Fail, LoopPcs
<1>2. State(s, "loop") \in Healths
  BY StateFacts, SomePcs
<1>3. health' \in Healths
  BY <1>2 DEF Fail, Healths
<1>4. bus' \in Seq(Notices) /\ Len(bus') <= BusSize /\ tally' \in Tallies
  BY PublishType, SocketNotices DEF Fail
<1> QED
  BY <1>1, <1>3, <1>4 DEF Fail, Patience, Reading

LEMMA ReadType ==
    Typed /\ Patience /\ (ReadReturns \/ ReadFails \/ Read) => Typed' /\ Patience'
<1> SUFFICES ASSUME Typed, Patience, ReadReturns \/ ReadFails \/ Read
             PROVE  Typed' /\ Patience'
  OBVIOUS
<1>1. CASE ReadReturns
  <2>1. loop.pc = "read" /\ loop' \in Loops /\ health \in Healths
    <3>1. health.total \in BOOLEAN /\ "drop" \in LoopPcs /\ "timeout" \in LoopPcs /\ "frame" \in LoopPcs
      BY DEF Typed, Healths, LoopPcs
    <3>2. Goto("timeout") \/ Goto("frame") => loop' \in Loops
      BY <3>1, GotoFacts DEF Typed
    <3>3. [loop EXCEPT !.pc = "drop", !.seen = health.total] \in Loops
      BY <3>1 DEF Loops, Typed
    <3> QED
      BY <1>1, <3>2, <3>3 DEF ReadReturns, LoopAt, Typed
  <2>2. budget' \in Amounts
    BY <1>1, SpendType DEF ReadReturns, Typed
  <2> QED
    BY <1>1, <2>1, <2>2 DEF ReadReturns, Patience, Reading, Typed
<1>2. CASE ReadFails
  BY <1>2, FailType, SomePcs DEF ReadFails, Reasons
<1>3. CASE Timeout
  <2>1. health.timeouts + 1 \in 0 .. Threshold /\ health.total \in BOOLEAN
    BY <1>3, Numbers DEF Timeout, LoopAt, Patience, Reading, Typed, Healths
  <2>2. State(Connected(health.total), "loop") \in Healths
    BY <2>1, StateFacts, SomePcs, ConnectedType DEF Typed
  <2>3. State(Connected(health.total), "loop").timeouts = health.timeouts
    BY <2>1, StateFacts, SomePcs, ConnectedType DEF Typed
  <2>4. health' \in Healths /\ health'.timeouts = health.timeouts + 1
    BY <1>3, <2>1, <2>2, <2>3 DEF Timeout, Healths
  <2>5. loop' \in Loops /\ loop'.pc = IF health.timeouts + 1 >= Threshold THEN "stalled" ELSE "read"
    BY <1>3, GotoFacts DEF Timeout, LoopPcs, Typed
  <2>6. Patience'
    BY <2>1, <2>4, <2>5, Numbers DEF Patience, Reading
  <2> QED
    BY <1>3, <2>4, <2>5, <2>6 DEF Timeout, Typed
<1>4. CASE Stalled
  BY <1>4, FailType, SomePcs DEF Stalled, Reasons
<1>5. CASE Frame
  <2>1. loop.pc = "frame" /\ loop' \in Loops
    <3>1. Goto("accepted") => loop' \in Loops
      BY GotoFacts DEF LoopPcs, Typed
    <3>2. health.total \in BOOLEAN
      BY DEF Typed, Healths
    <3>3. [loop EXCEPT !.pc = "drop", !.seen = health.total] \in Loops
      BY <3>2 DEF Loops, LoopPcs, Typed
    <3> QED
      BY <1>5, <3>1, <3>3 DEF Frame, LoopAt
  <2>2. waiting' \in 0 .. IngestSize
    BY <1>5, Numbers DEF Frame, Typed
  <2>3. bus' \in Seq(Notices) /\ Len(bus') <= BusSize /\ tally' \in Tallies
    BY <1>5, PublishType, SocketNotices DEF Frame, Reasons, Typed
  <2> QED
    BY <1>5, <2>1, <2>2, <2>3 DEF Frame, Patience, Reading, Typed
<1>6. CASE Accepted
  <2>1. loop' \in Loops
    BY <1>6, GotoFacts DEF Accepted, LoopPcs, Typed
  <2>2. State("idle", "loop") \in Healths
    BY StateFacts, SomePcs DEF Typed
  <2>3. health' \in Healths /\ health'.timeouts = 0
    BY <1>6, <2>2, Numbers DEF Accepted, Healths, Typed
  <2> QED
    BY <1>6, <2>1, <2>3, Numbers DEF Accepted, Patience, Typed
<1>7. CASE Drop
  <2>1. loop.pc = "drop" /\ loop' \in Loops /\ loop.seen \in BOOLEAN
    BY <1>7, GotoFacts DEF Drop, LoopAt, LoopPcs, Loops, Typed
  <2>2. health' \in Healths /\ health'.timeouts = health.timeouts
    BY <1>7, <2>1, StateFacts, SomePcs, ConnectedType DEF Drop, Typed
  <2> QED
    BY <1>7, <2>1, <2>2 DEF Drop, Patience, Reading, Typed
<1> QED
  BY <1>1, <1>2, <1>3, <1>4, <1>5, <1>6, <1>7 DEF Read

\* After a failure.
LEMMA DisconnectType == Typed /\ Patience /\ Disconnect => Typed' /\ Patience'
<1> SUFFICES ASSUME Typed, Patience, Disconnect
             PROVE  Typed' /\ Patience'
  OBVIOUS
<1> USE DEF Typed
<1>1. CASE Failed
  <2>1. loop' \in Loops /\ loop'.pc = "force"
    <3>1. loop.fails + 1 \in Nat /\ "force" \in LoopPcs
      BY DEF Loops, LoopPcs
    <3>2. loop' = [loop EXCEPT !.pc = "force", !.fails = loop.fails + 1]
      BY <1>1 DEF Failed
    <3> QED
      BY <3>1, <3>2 DEF Loops
  <2>2. health' \in Healths
    BY <1>1 DEF Failed, Healths
  <2> QED
    BY <1>1, <2>1, <2>2 DEF Failed, Patience, Reading
<1>2. CASE ForceState
  <2> DEFINE s == IF loop.told THEN "failed" ELSE "retrying"
  <2>0. /\ Goto("judge") /\ health' = State(s, "loop")
        /\ UNCHANGED <<rw, open, exec, token, waiting, worker, bus, marks, tally, budget>>
    BY <1>2 DEF ForceState
  <2>3. s \in States
    BY SomePcs
  <2> HIDE DEF s
  <2>1. loop' \in Loops /\ loop'.pc = "judge"
    BY <2>0, GotoFacts DEF LoopPcs
  <2>2. health' \in Healths
    BY <2>0, <2>3, StateFacts, SomePcs
  <2> QED
    BY <2>0, <2>1, <2>2 DEF Patience, Reading
<1>3. CASE Judge
  <2> DEFINE tell == loop.fails >= Threshold /\ ~loop.told
  <2>1. loop' \in Loops /\ loop'.pc \in {"sleep", "close"} /\ loop.why \in Phases
    <3>1. tell \in BOOLEAN
      OBVIOUS
    <3> QED
      BY <1>3, <3>1 DEF Judge, Loops, LoopPcs
  <2>2. health' \in Healths
    BY <1>3, StateFacts, SomePcs DEF Judge
  <2>3. [reason |-> "threshold", print |-> loop.why] \in Notices
    BY <2>1 DEF Notices, Reasons
  <2>4. bus' \in Seq(Notices) /\ Len(bus') <= BusSize /\ tally' \in Tallies
    BY <1>3, <2>3, PublishType DEF Judge
  <2> QED
    BY <1>3, <2>1, <2>2, <2>4 DEF Judge, Patience, Reading
<1>4. CASE CloseTake
  <2>1. loop' \in Loops /\ loop'.pc \in {"sleep", "closing"}
    BY <1>4 DEF CloseTake, Loops, LoopPcs
  <2> QED
    BY <1>4, <2>1 DEF CloseTake, Patience, Reading
<1>5. CASE CloseSay
  <2>1. loop' \in Loops /\ loop'.pc = "closed"
    BY <1>5, GotoFacts DEF CloseSay, LoopPcs
  <2>2. health' \in Healths
    BY <1>5, StateFacts, SomePcs DEF CloseSay, SayClosed
  <2> QED
    BY <1>5, <2>1, <2>2 DEF CloseSay, Patience, Reading
<1>6. CASE CloseDone
  <2>1. loop' \in Loops /\ loop'.pc = "sleep"
    BY <1>6 DEF CloseDone, Loops, LoopPcs
  <2> QED
    BY <1>6, <2>1 DEF CloseDone, Patience, Reading
<1>7. CASE Sleep
  <2>1. loop' \in Loops /\ loop'.pc = "attempt"
    BY <1>7 DEF Sleep, Loops, LoopPcs
  <2> QED
    BY <1>7, <2>1 DEF Sleep, Patience, Reading
<1> QED
  BY <1>1, <1>2, <1>3, <1>4, <1>5, <1>6, <1>7 DEF Disconnect

\* The executor.
LEMMA RestartType == Typed /\ Patience /\ (RestartTake \/ Restarting) => Typed' /\ Patience'
<1> SUFFICES ASSUME Typed, Patience, RestartTake \/ Restarting
             PROVE  Typed' /\ Patience'
  OBVIOUS
<1> USE DEF Typed
<1>1. CASE RestartTake
  <2>1. exec' \in Restarts /\ budget' \in Amounts
    BY <1>1, SpendType DEF RestartTake, Restarts
  <2> QED
    BY <1>1, <2>1 DEF RestartTake, Patience
<1>2. CASE RestartSay
  <2>1. exec' \in Restarts
    BY <1>2 DEF RestartSay, Restarts
  <2>2. health' \in Healths /\ health'.timeouts = health.timeouts
    BY <1>2, StateFacts, SomePcs DEF RestartSay, SayClosed
  <2> QED
    BY <1>2, <2>1, <2>2 DEF RestartSay, Patience
<1>3. CASE RestartClose
  <2>1. exec' \in Restarts
    BY <1>3 DEF RestartClose, Restarts
  <2> QED
    BY <1>3, <2>1 DEF RestartClose, Patience
<1>4. CASE Interrupt
  <2>1. exec' \in Restarts
    BY <1>4 DEF Interrupt, Restarts
  <2> QED
    BY <1>4, <2>1 DEF Interrupt, Patience
<1> QED
  BY <1>1, <1>2, <1>3, <1>4 DEF Restarting

\* The ingest workers.
LEMMA WorkerType ==
    ASSUME Typed, Patience, NEW w \in Workers,
           TakePacket(w) \/ MarkIngest(w) \/ EndEpisode(w) \/ MarkDrop(w)
    PROVE  Typed' /\ Patience'
<1> USE DEF Typed
<1>0. health.total \in BOOLEAN /\ worker[w].seen \in BOOLEAN
  BY DEF Healths, Takers
<1>1. CASE TakePacket(w)
  <2>1. worker' \in [Workers -> Takers]
    <3>1. [worker EXCEPT ![w].pc = "stored"] \in [Workers -> Takers]
      BY DEF Takers
    <3>2. [worker EXCEPT ![w] = [pc |-> "drop", seen |-> health.total]] \in [Workers -> Takers]
      BY <1>0 DEF Takers
    <3> QED
      BY <1>1, <3>1, <3>2 DEF TakePacket
  <2>2. waiting' \in 0 .. IngestSize
    BY <1>1, Numbers DEF TakePacket
  <2> QED
    BY <1>1, <2>1, <2>2 DEF TakePacket, Patience
<1>2. CASE MarkIngest(w)
  <2>1. worker' \in [Workers -> Takers]
    BY <1>2 DEF MarkIngest, Takers
  <2>2. State("live", "worker") \in Healths
    BY StateFacts, SomePcs
  <2>3. health' \in Healths /\ health'.timeouts = 0
    <3>1. 0 \in 0 .. Threshold
      BY Numbers
    <3>2. health' = [State("live", "worker") EXCEPT !.total = TRUE, !.timeouts = 0]
      BY <1>2 DEF MarkIngest
    <3> HIDE DEF Typed
    <3> QED
      BY <2>2, <3>1, <3>2 DEF Healths
  <2> QED
    BY <1>2, <2>1, <2>3, Numbers DEF MarkIngest, Patience
<1>3. CASE EndEpisode(w)
  <2>1. worker' \in [Workers -> Takers]
    BY <1>3 DEF EndEpisode, Takers
  <2>2. health' \in Healths /\ health'.timeouts = health.timeouts
    BY <1>3, SomePcs DEF EndEpisode, Healths
  <2> QED
    BY <1>3, <2>1, <2>2 DEF EndEpisode, Patience
<1>4. CASE MarkDrop(w)
  <2>1. worker' \in [Workers -> Takers]
    BY <1>4 DEF MarkDrop, Takers
  <2>2. health' \in Healths /\ health'.timeouts = health.timeouts
    BY <1>0, <1>4, StateFacts, SomePcs, ConnectedType DEF MarkDrop
  <2>3. bus' \in Seq(Notices) /\ Len(bus') <= BusSize /\ tally' \in Tallies
    BY <1>4, PublishType, SocketNotices DEF MarkDrop, Reasons
  <2> QED
    BY <1>4, <2>1, <2>2, <2>3 DEF MarkDrop, Patience
<1> QED
  BY <1>1, <1>2, <1>3, <1>4

LEMMA TransportStepType == Typed /\ Patience /\ TransportNext => Typed' /\ Patience'
BY ConnectType, ReadType, DisconnectType, RestartType, WorkerType DEF TransportNext

-----------------------------------------------------------------------------
(* Types of the whole.                                                      *)

Recorders == [pc : {"idle", "mark", "letter", "look", "write"},
              notice : Notices \cup {NoNotice}, suffix : 0 .. MaxSuffix]
Desks == [op : Operations \cup {"none"}, id : Causes, row : IncidentRows \cup {NoRow}]

\* The part of the worker and the operators.
OfficeTyped ==
    /\ queue \in Seq(Notices) /\ Len(queue) <= QueueSize
    /\ recorder \in Recorders
    /\ letters \in [DeadLettered -> Nat]
    /\ incidents \in [Causes -> IncidentRows \cup {NoRow}]
    /\ desk \in [Operators -> Desks]
    /\ settled \subseteq Reasons

\* A notice is in hand whenever the worker is not idle; a busy operator has read a row.
InHand ==
    /\ recorder.pc # "idle" => recorder.notice \in Notices
    /\ recorder.pc \in {"mark", "letter"} => Reason \in DeadLettered
    /\ \A o \in Operators : desk[o].op # "none" => desk[o].row \in IncidentRows

TypeInvariant == Typed /\ Patience /\ OfficeTyped /\ InHand

LEMMA NoRowIsNoIncident == NoRow \notin IncidentRows
<1>1. NoRow.state = "absent" /\ \A r \in IncidentRows : r.state # "absent"
  BY DEF NoRow, IncidentRows
<1> QED
  BY <1>1

LEMMA WorkedType ==
    ASSUME NEW op \in Operations, NEW r \in IncidentRows
    PROVE  Worked(op, r) \in IncidentRows
BY DEF Worked, Operations, IncidentRows

LEMMA InitTypes == Init => TypeInvariant
<1> SUFFICES ASSUME Init PROVE TypeInvariant
  OBVIOUS
<1>0. QueueSize \in Nat /\ MaxSuffix \in Nat
  BY IncidentsAssumption
<1>1. Typed /\ Patience
  BY TransportInitType DEF Init
<1>2. recorder \in Recorders /\ recorder.pc = "idle"
  BY <1>0 DEF Init, Recorders
<1>3. AtNoDesk \in Desks /\ AtNoDesk.op = "none"
  BY <1>0 DEF AtNoDesk, Desks, Causes, Reasons
<1>4. queue \in Seq(Notices) /\ Len(queue) <= QueueSize
  BY <1>0 DEF Init
<1>5. letters \in [DeadLettered -> Nat] /\ incidents \in [Causes -> IncidentRows \cup {NoRow}]
  BY DEF Init
<1>6. desk \in [Operators -> Desks] /\ (\A o \in Operators : desk[o].op = "none") /\ settled \subseteq Reasons
  BY <1>3 DEF Init
<1> QED
  BY <1>1, <1>2, <1>4, <1>5, <1>6 DEF TypeInvariant, OfficeTyped, InHand

\* What the office leaves of the transport, and the transport of the office.
LEMMA OfficeQuiet ==
    ASSUME OfficeTyped, InHand, UNCHANGED incidentVars
    PROVE  OfficeTyped' /\ InHand'
BY DEF OfficeTyped, InHand, Reason, incidentVars

LEMMA PatienceQuiet == Patience /\ UNCHANGED <<loop, health>> => Patience'
BY DEF Patience

LEMMA ConsumeTypes == TypeInvariant /\ Consume => TypeInvariant'
<1> SUFFICES ASSUME TypeInvariant, Consume PROVE TypeInvariant'
  OBVIOUS
<1> USE DEF TypeInvariant
<1>0. QueueSize \in Nat
  BY IncidentsAssumption
<1>1. bus \in Seq(Notices) /\ bus # <<>> /\ Len(bus) <= BusSize /\ BusSize \in Nat
  BY Numbers DEF Consume, Typed
<1>2. Head(bus) \in Notices /\ bus' \in Seq(Notices) /\ Len(bus') <= BusSize
  BY <1>1 DEF Consume
<1>3. queue' \in Seq(Notices) /\ Len(queue') <= QueueSize
  BY <1>0, <1>2 DEF Consume, OfficeTyped
<1>4. Typed' /\ Patience'
  BY <1>2, PatienceQuiet DEF Consume, Typed
<1>5. OfficeTyped' /\ InHand'
  BY <1>3 DEF Consume, OfficeTyped, InHand, Reason
<1> QED
  BY <1>4, <1>5

LEMMA RecordTypes == TypeInvariant /\ Record => TypeInvariant'
<1> SUFFICES ASSUME TypeInvariant, Record PROVE TypeInvariant'
  OBVIOUS
<1> USE DEF TypeInvariant
<1>0. 0 \in 0 .. MaxSuffix /\ MaxSuffix \in Nat
  BY IncidentsAssumption
<1>1. CASE Take
  <2>1. queue # <<>> /\ Head(queue) \in Notices /\ queue' \in Seq(Notices) /\ Len(queue') <= QueueSize
    BY <1>1, IncidentsAssumption DEF Take, OfficeTyped
  <2>2. /\ recorder' \in Recorders /\ recorder'.notice \in Notices
        /\ recorder'.pc = "mark" => recorder'.notice.reason \in DeadLettered
        /\ recorder'.pc \in {"mark", "look"}
    BY <1>0, <1>1, <2>1 DEF Take, Recorders
  <2>3. Typed' /\ Patience'
    BY <1>1, PatienceQuiet DEF Take, Typed, transportVars
  <2> QED
    BY <1>1, <2>1, <2>2, <2>3 DEF Take, OfficeTyped, InHand, Reason
<1>2. CASE Mark
  <2>1. recorder.pc = "mark" /\ recorder.notice \in Notices /\ Reason \in DeadLettered
    BY <1>2 DEF Mark, RecorderAt, InHand
  <2>2. /\ recorder' \in Recorders /\ recorder'.notice = recorder.notice
        /\ recorder'.pc \in {"look", "letter"}
    BY <1>2 DEF Mark, Step, OfficeTyped, Recorders
  <2>3. recorder.notice.print \in Phases \cup {"socket", "none"}
    BY <2>1 DEF Notices
  <2>4. marks' \in [Reasons -> Phases \cup {"socket", "none"}]
    BY <1>2, <2>3 DEF Mark, Typed
  <2>5. tally' \in Tallies
    BY <1>2 DEF Mark, Decided, Typed, Tallies
  <2>6. Typed' /\ Patience'
    BY <1>2, <2>4, <2>5, PatienceQuiet DEF Mark, Typed
  <2> QED
    BY <1>2, <2>1, <2>2, <2>6 DEF Mark, OfficeTyped, InHand, Reason
<1>3. CASE InsertLetter
  <2>1. recorder.pc = "letter" /\ recorder.notice \in Notices /\ Reason \in DeadLettered
    BY <1>3 DEF InsertLetter, RecorderAt, InHand
  <2>2. recorder' \in Recorders /\ recorder'.notice = recorder.notice /\ recorder'.pc = "look"
    BY <1>3 DEF InsertLetter, Step, OfficeTyped, Recorders
  <2>3. letters' \in [DeadLettered -> Nat]
    BY <1>3, <2>1 DEF InsertLetter, OfficeTyped
  <2>4. tally' \in Tallies
    BY <1>3 DEF InsertLetter, Typed, Tallies
  <2>5. budget' \in Amounts
    BY <1>3, SpendType DEF InsertLetter, Typed
  <2>6. Typed' /\ Patience'
    BY <1>3, <2>4, <2>5, PatienceQuiet DEF InsertLetter, Typed
  <2> QED
    BY <1>3, <2>1, <2>2, <2>3, <2>6 DEF InsertLetter, OfficeTyped, InHand, Reason
<1>4. CASE Look
  <2>1. recorder.pc = "look" /\ recorder.notice \in Notices
    BY <1>4 DEF Look, RecorderAt, InHand
  <2>2. \A k \in Seconds(Reason) : k \in 0 .. MaxSuffix
    BY <1>0 DEF Seconds, Later
  <2>3. recorder' \in Recorders /\ recorder'.notice = recorder.notice /\ recorder'.pc = "write"
    <3>1. \A k \in 0 .. MaxSuffix :
            LET s == [recorder EXCEPT !.pc = "write", !.suffix = k]
            IN  s \in Recorders /\ s.notice = recorder.notice /\ s.pc = "write"
      BY DEF OfficeTyped, Recorders
    <3>2. Step("write") => recorder' \in Recorders /\ recorder'.notice = recorder.notice /\ recorder'.pc = "write"
      BY DEF OfficeTyped, Recorders, Step
    <3> QED
      BY <1>4, <2>2, <3>1, <3>2 DEF Look
  <2>4. budget' \in Amounts
    BY <1>4, SpendType DEF Look, Typed
  <2>5. Typed' /\ Patience'
    BY <1>4, <2>4, PatienceQuiet DEF Look, Typed
  <2> QED
    BY <1>4, <2>1, <2>3, <2>5 DEF Look, OfficeTyped, InHand, Reason
<1>5. CASE Escalate
  <2>1. recorder' \in Recorders /\ recorder'.pc = "idle"
    BY <1>0, <1>5 DEF Escalate, Rest, Recorders
  <2>2. incidents' \in [Causes -> IncidentRows \cup {NoRow}]
    <3>1. [state |-> "open", owned |-> FALSE, noted |-> FALSE] \in IncidentRows
      BY DEF IncidentRows
    <3> QED
      BY <1>5, <3>1 DEF Escalate, OfficeTyped
  <2>3. budget' \in Amounts
    BY <1>5, SpendType DEF Escalate, Typed
  <2>4. Typed' /\ Patience'
    BY <1>5, <2>3, PatienceQuiet DEF Escalate, Typed
  <2> QED
    BY <1>5, <2>1, <2>2, <2>4 DEF Escalate, OfficeTyped, InHand
<1> QED
  BY <1>1, <1>2, <1>3, <1>4, <1>5 DEF Record

LEMMA BeginTypes ==
    ASSUME TypeInvariant, NEW o \in Operators, NEW op \in Operations, NEW id \in Causes, Begin(o, op, id)
    PROVE  TypeInvariant'
<1> USE DEF TypeInvariant
<1>1. incidents[id] \in IncidentRows
  BY DEF Begin, OfficeTyped
<1>2. [op |-> op, id |-> id, row |-> incidents[id]] \in Desks
  BY <1>1 DEF Desks
<1>3. desk' \in [Operators -> Desks]
  BY <1>2 DEF Begin, OfficeTyped
<1>4. \A p \in Operators : desk'[p].op # "none" => desk'[p].row \in IncidentRows
  BY <1>1 DEF Begin, OfficeTyped, InHand
<1>5. Typed' /\ Patience'
  BY SpendType, PatienceQuiet DEF Begin, Typed
<1> QED
  BY <1>3, <1>4, <1>5 DEF Begin, OfficeTyped, InHand, Reason

LEMMA SaveTypes ==
    ASSUME TypeInvariant, NEW o \in Operators, Save(o)
    PROVE  TypeInvariant'
<1> USE DEF TypeInvariant
<1>1. desk[o].op \in Operations /\ desk[o].id \in Causes /\ desk[o].row \in IncidentRows
  BY DEF Save, OfficeTyped, InHand, Desks
<1>2. Worked(desk[o].op, desk[o].row) \in IncidentRows
  BY <1>1, WorkedType
<1>3. incidents' \in [Causes -> IncidentRows \cup {NoRow}]
  BY <1>1, <1>2 DEF Save, OfficeTyped
<1>4. settled' \subseteq Reasons
  <2>1. desk[o].id[1] \in Reasons
    BY <1>1 DEF Causes
  <2> QED
    BY <2>1 DEF Save, OfficeTyped
<1>5. AtNoDesk \in Desks /\ AtNoDesk.op = "none"
  BY IncidentsAssumption DEF AtNoDesk, Desks, Causes, Reasons
<1>6. desk' \in [Operators -> Desks]
  BY <1>5 DEF Save, OfficeTyped
<1>7. \A p \in Operators : desk'[p].op # "none" => desk'[p].row \in IncidentRows
  BY <1>5 DEF Save, OfficeTyped, InHand
<1>8. Typed' /\ Patience'
  BY SpendType, PatienceQuiet DEF Save, Typed
<1> QED
  BY <1>3, <1>4, <1>6, <1>7, <1>8 DEF Save, OfficeTyped, InHand, Reason

LEMMA StepTypes == TypeInvariant /\ [Next]_vars => TypeInvariant'
<1> SUFFICES ASSUME TypeInvariant, [Next]_vars PROVE TypeInvariant'
  OBVIOUS
<1>1. CASE TransportNext /\ UNCHANGED incidentVars
  BY <1>1, TransportStepType, OfficeQuiet DEF TypeInvariant
<1>2. CASE Consume \/ Record
  BY <1>2, ConsumeTypes, RecordTypes
<1>3. CASE \E o \in Operators : Save(o) \/ \E op \in Operations, id \in Causes : Begin(o, op, id)
  BY <1>3, SaveTypes, BeginTypes
<1>4. CASE UNCHANGED vars
  <2>1. Typed'
    BY <1>4 DEF vars, transportVars, TypeInvariant, Typed
  <2>2. Patience'
    BY <1>4, PatienceQuiet DEF vars, transportVars, TypeInvariant
  <2> QED
    BY <1>4, <2>1, <2>2, OfficeQuiet DEF vars, TypeInvariant
<1> QED
  BY <1>1, <1>2, <1>3, <1>4 DEF Next

\* Every queue keeps within its size and every counter its type, whoever runs when; in particular
\* a connection is given up before its timeouts pass the threshold.
THEOREM IncidentsTypes == Spec => []IncidentsTypeOK
<1>1. TypeInvariant => IncidentsTypeOK
  <2>1. Typed => TransportTypeOK
    BY TypeParts
  <2> QED
    BY <2>1 DEF TypeInvariant, OfficeTyped, IncidentsTypeOK, Recorders, Desks
<1> QED
  BY <1>1, InitTypes, StepTypes, PTL DEF Spec

-----------------------------------------------------------------------------
(* Connections.                                                             *)

\* Where the transport has no connection, and where Subscribe has had one.
Loose == {"attempt", "dial", "attach", "closing", "closed", "sleep"}
Losing == {"failed", "force", "judge"}
Subscribed == {"read", "timeout", "stalled", "frame", "accepted", "drop"}

LoopSound ==
    /\ loop.pc \in Loose => rw = None
    /\ loop.pc \in Losing /\ loop.why = "connect" => rw = None
    /\ loop.pc \in Subscribed => loop.why = "subscribe"
    /\ loop.pc = "attach" => loop.conn # None

\* No one else holds what the executor is about to close.
ExecAlone == None \notin ExecHolds /\ rw \notin ExecHolds /\ LoopHolds \cap ExecHolds = {}

ConnInvariant == NoConnectionLeaks /\ LoopSound /\ ExecAlone

LEMMA LoopMoves ==
    ASSUME ConnInvariant, UNCHANGED <<rw, open, exec>>, LoopHolds' = LoopHolds, LoopSound'
    PROVE  ConnInvariant'
BY DEF ConnInvariant, NoConnectionLeaks, ExecAlone, ExecHolds

LEMMA ConnInit == Init => ConnInvariant
BY DEF Init, TransportInit, ConnInvariant, NoConnectionLeaks, LoopSound, ExecAlone, LoopHolds, ExecHolds,
       Loose, Losing, Subscribed

LEMMA ConnConnect == Typed /\ ConnInvariant /\ (Attempt \/ Connect) => ConnInvariant'
<1> SUFFICES ASSUME Typed, ConnInvariant, Attempt \/ Connect PROVE ConnInvariant'
  OBVIOUS
<1>0. loop \in Loops
  BY DEF Typed
<1> USE DEF Loose, Losing, Subscribed
<1>1. CASE Attempt
  <2>1. loop.pc = "attempt" /\ loop'.pc = "dial" /\ UNCHANGED <<rw, open, exec>>
    BY <1>0, <1>1, GotoFacts DEF Attempt, LoopAt, LoopPcs
  <2> QED
    BY <2>1, LoopMoves DEF LoopHolds, LoopSound, ConnInvariant
<1>2. CASE DialFails
  <2>1. loop.pc = "dial" /\ loop'.pc = "failed" /\ UNCHANGED <<rw, open, exec>>
    BY <1>0, <1>2 DEF DialFails, LoopAt, Loops
  <2> QED
    BY <2>1, LoopMoves DEF LoopHolds, LoopSound, ConnInvariant
<1>3. CASE Dial
  <2>1. PICK c \in Connections : /\ c \notin open /\ c # exec.conn
                                 /\ open' = open \cup {c}
                                 /\ loop' = [loop EXCEPT !.pc = "attach", !.conn = c]
    BY <1>3 DEF Dial, InUse
  <2>2. /\ loop.pc = "dial" /\ loop'.pc = "attach" /\ loop'.conn = c
        /\ UNCHANGED <<rw, exec>> /\ c # None
    BY <1>0, <1>3, <2>1, Numbers DEF Dial, LoopAt, Loops
  <2>3. LoopHolds = {} /\ LoopHolds' = {c} /\ ExecHolds' = ExecHolds /\ rw = None
    BY <2>2 DEF LoopHolds, ExecHolds, LoopSound, ConnInvariant
  <2>4. LoopSound'
    BY <2>2, <2>3 DEF LoopSound
  <2>5. NoConnectionLeaks' /\ ExecAlone'
    BY <2>1, <2>2, <2>3 DEF NoConnectionLeaks, ExecAlone, ConnInvariant
  <2> QED
    BY <2>4, <2>5 DEF ConnInvariant
<1>4. CASE Attach
  <2>1. /\ loop.pc = "attach" /\ loop'.pc = "announce" /\ rw' = loop.conn
        /\ UNCHANGED <<open, exec>>
    BY <1>0, <1>4, GotoFacts DEF Attach, LoopAt, LoopPcs
  <2>2. LoopHolds = {loop.conn} /\ LoopHolds' = {} /\ ExecHolds' = ExecHolds /\ loop.conn # None /\ rw = None
    BY <2>1 DEF LoopHolds, ExecHolds, LoopSound, ConnInvariant
  <2>3. LoopSound'
    BY <2>1 DEF LoopSound
  <2>4. NoConnectionLeaks' /\ ExecAlone'
    BY <2>1, <2>2 DEF NoConnectionLeaks, ExecAlone, ConnInvariant
  <2> QED
    BY <2>3, <2>4 DEF ConnInvariant
<1>5. CASE Announce
  <2>1. loop.pc = "announce" /\ loop'.pc = "up" /\ UNCHANGED <<rw, open, exec>>
    BY <1>0, <1>5, GotoFacts DEF Announce, LoopAt, LoopPcs
  <2> QED
    BY <2>1, LoopMoves DEF LoopHolds, LoopSound, ConnInvariant
<1>6. CASE Up
  <2>1. loop.pc = "up" /\ loop'.pc = "clear" /\ UNCHANGED <<rw, open, exec>>
    BY <1>0, <1>6 DEF Up, LoopAt, Loops
  <2> QED
    BY <2>1, LoopMoves DEF LoopHolds, LoopSound, ConnInvariant
<1>7. CASE Clear
  <2>1. loop.pc = "clear" /\ loop'.pc = "subscribe" /\ UNCHANGED <<rw, open, exec>>
    BY <1>0, <1>7, GotoFacts DEF Clear, LoopAt, LoopPcs
  <2> QED
    BY <2>1, LoopMoves DEF LoopHolds, LoopSound, ConnInvariant
<1>8. CASE Subscribe
  <2>1. /\ loop.pc = "subscribe" /\ loop'.pc \in {"failed", "read"} /\ loop'.why = "subscribe"
        /\ UNCHANGED <<rw, open, exec>>
    BY <1>0, <1>8 DEF Subscribe, LoopAt, Loops
  <2> QED
    BY <2>1, LoopMoves DEF LoopHolds, LoopSound, ConnInvariant
<1> QED
  BY <1>1, <1>2, <1>3, <1>4, <1>5, <1>6, <1>7, <1>8 DEF Connect

LEMMA ConnRead == Typed /\ ConnInvariant /\ (ReadReturns \/ ReadFails \/ Read) => ConnInvariant'
<1> SUFFICES ASSUME Typed, ConnInvariant, ReadReturns \/ ReadFails \/ Read PROVE ConnInvariant'
  OBVIOUS
<1>0. loop \in Loops
  BY DEF Typed
<1>1. /\ loop.pc \in Subscribed /\ loop'.pc \in Subscribed \cup {"failed"} /\ loop'.why = loop.why
      /\ UNCHANGED <<rw, open, exec>>
  <2>1. CASE ReadReturns
    BY <1>0, <2>1, GotoFacts DEF ReadReturns, LoopAt, LoopPcs, Loops, Subscribed
  <2>2. CASE ReadFails
    BY <1>0, <2>2, GotoFacts DEF ReadFails, Fail, LoopAt, LoopPcs, Subscribed
  <2>3. CASE Timeout
    <3>1. Goto("stalled") \/ Goto("read")
      BY <2>3 DEF Timeout
    <3> QED
      BY <1>0, <2>3, <3>1, GotoFacts DEF Timeout, LoopAt, LoopPcs, Subscribed
  <2>4. CASE Stalled
    BY <1>0, <2>4, GotoFacts DEF Stalled, Fail, LoopAt, LoopPcs, Subscribed
  <2>5. CASE Frame
    <3>1. Goto("accepted") \/ loop' = [loop EXCEPT !.pc = "drop", !.seen = health.total]
      BY <2>5 DEF Frame
    <3>2. CASE Goto("accepted")
      BY <1>0, <2>5, <3>2, GotoFacts DEF Frame, LoopAt, LoopPcs, Subscribed
    <3>3. CASE loop' = [loop EXCEPT !.pc = "drop", !.seen = health.total]
      BY <1>0, <2>5, <3>3 DEF Frame, LoopAt, Loops, Subscribed
    <3> QED
      BY <3>1, <3>2, <3>3
  <2>6. CASE Accepted
    BY <1>0, <2>6, GotoFacts DEF Accepted, LoopAt, LoopPcs, Subscribed
  <2>7. CASE Drop
    BY <1>0, <2>7, GotoFacts DEF Drop, LoopAt, LoopPcs, Subscribed
  <2> QED
    BY <2>1, <2>2, <2>3, <2>4, <2>5, <2>6, <2>7 DEF Read
<1>2. LoopHolds = {} /\ LoopHolds' = {}
  BY <1>1 DEF LoopHolds, Subscribed
<1>3. LoopSound'
  BY <1>1 DEF LoopSound, ConnInvariant, Subscribed, Loose, Losing
<1> QED
  BY <1>1, <1>2, <1>3, LoopMoves

LEMMA ConnDisconnect == Typed /\ ConnInvariant /\ Disconnect => ConnInvariant'
<1> SUFFICES ASSUME Typed, ConnInvariant, Disconnect PROVE ConnInvariant'
  OBVIOUS
<1>0. loop \in Loops
  BY DEF Typed
<1> USE DEF Loose, Losing, Subscribed
<1>1. CASE Failed
  <2>1. loop.pc = "failed" /\ loop'.pc = "force" /\ loop'.why = loop.why /\ UNCHANGED <<rw, open, exec>>
    BY <1>0, <1>1 DEF Failed, LoopAt, Loops
  <2> QED
    BY <2>1, LoopMoves DEF LoopHolds, LoopSound, ConnInvariant
<1>2. CASE ForceState
  <2>1. loop.pc = "force" /\ loop'.pc = "judge" /\ loop'.why = loop.why /\ UNCHANGED <<rw, open, exec>>
    BY <1>0, <1>2, GotoFacts DEF ForceState, LoopAt, LoopPcs
  <2> QED
    BY <2>1, LoopMoves DEF LoopHolds, LoopSound, ConnInvariant
<1>3. CASE Judge
  <2>1. /\ loop.pc = "judge" /\ loop'.pc = IF loop.why = "connect" THEN "sleep" ELSE "close"
        /\ UNCHANGED <<rw, open, exec>>
    BY <1>0, <1>3 DEF Judge, LoopAt, Loops
  <2> QED
    BY <2>1, LoopMoves DEF LoopHolds, LoopSound, ConnInvariant
<1>4. CASE CloseTake
  <2>1. /\ loop.pc = "close" /\ loop'.pc = IF rw = None THEN "sleep" ELSE "closing"
        /\ loop'.conn = rw /\ rw' = None /\ UNCHANGED <<open, exec>>
    BY <1>0, <1>4 DEF CloseTake, LoopAt, Loops
  <2>2. LoopHolds = {} /\ LoopHolds' = {rw} \ {None} /\ ExecHolds' = ExecHolds
    BY <2>1 DEF LoopHolds, ExecHolds
  <2>3. LoopSound'
    BY <2>1 DEF LoopSound
  <2>4. NoConnectionLeaks' /\ ExecAlone'
    BY <2>1, <2>2 DEF NoConnectionLeaks, ExecAlone, ConnInvariant
  <2> QED
    BY <2>3, <2>4 DEF ConnInvariant
<1>5. CASE CloseSay
  <2>1. loop.pc = "closing" /\ loop'.pc = "closed" /\ loop'.conn = loop.conn /\ UNCHANGED <<rw, open, exec>>
    BY <1>0, <1>5, GotoFacts DEF CloseSay, LoopAt, LoopPcs
  <2> QED
    BY <2>1, LoopMoves DEF LoopHolds, LoopSound, ConnInvariant
<1>6. CASE CloseDone
  <2>1. /\ loop.pc = "closed" /\ loop'.pc = "sleep" /\ open' = open \ {loop.conn}
        /\ UNCHANGED <<rw, exec>>
    BY <1>0, <1>6 DEF CloseDone, LoopAt, Loops
  <2>2. LoopHolds = {loop.conn} /\ LoopHolds' = {} /\ ExecHolds' = ExecHolds /\ rw = None
    BY <2>1 DEF LoopHolds, ExecHolds, LoopSound, ConnInvariant
  <2>3. LoopSound'
    BY <2>1, <2>2 DEF LoopSound
  <2>4. NoConnectionLeaks' /\ ExecAlone'
    BY <2>1, <2>2 DEF NoConnectionLeaks, ExecAlone, ConnInvariant
  <2> QED
    BY <2>3, <2>4 DEF ConnInvariant
<1>7. CASE Sleep
  <2>1. loop.pc = "sleep" /\ loop'.pc = "attempt" /\ UNCHANGED <<rw, open, exec>>
    BY <1>0, <1>7 DEF Sleep, LoopAt, Loops
  <2> QED
    BY <2>1, LoopMoves DEF LoopHolds, LoopSound, ConnInvariant
<1> QED
  BY <1>1, <1>2, <1>3, <1>4, <1>5, <1>6, <1>7 DEF Disconnect

LEMMA ConnRestart == Typed /\ ConnInvariant /\ (RestartTake \/ Restarting) => ConnInvariant'
<1> SUFFICES ASSUME Typed, ConnInvariant, RestartTake \/ Restarting PROVE ConnInvariant'
  OBVIOUS
<1>0. exec \in Restarts
  BY DEF Typed
<1>1. UNCHANGED loop /\ LoopHolds' = LoopHolds
  BY DEF RestartTake, Restarting, RestartSay, RestartClose, Interrupt, LoopHolds
<1>2. (rw' = None \/ rw' = rw) => LoopSound'
  BY <1>1 DEF LoopSound, ConnInvariant
<1>3. CASE RestartTake
  <2>1. /\ exec.pc = "idle" /\ exec'.pc = IF rw = None THEN "interrupt" ELSE "closing"
        /\ exec'.conn = rw /\ rw' = None /\ UNCHANGED open
    BY <1>3 DEF RestartTake
  <2>2. ExecHolds = {} /\ ExecHolds' = {rw} \ {None}
    BY <2>1 DEF ExecHolds
  <2>3. rw \notin LoopHolds \/ rw = None
    BY DEF LoopHolds, LoopSound, ConnInvariant, Loose
  <2>4. NoConnectionLeaks' /\ ExecAlone'
    BY <1>1, <2>1, <2>2, <2>3 DEF NoConnectionLeaks, ExecAlone, ConnInvariant
  <2> QED
    BY <1>2, <2>1, <2>4 DEF ConnInvariant
<1>4. CASE RestartSay
  <2>1. exec.pc = "closing" /\ exec'.pc = "closed" /\ exec'.conn = exec.conn /\ UNCHANGED <<rw, open>>
    BY <1>0, <1>4 DEF RestartSay, Restarts
  <2>2. ExecHolds' = ExecHolds
    BY <2>1 DEF ExecHolds
  <2> QED
    BY <1>1, <1>2, <2>1, <2>2 DEF NoConnectionLeaks, ExecAlone, ConnInvariant
<1>5. CASE RestartClose
  <2>1. /\ exec.pc = "closed" /\ exec'.pc = "interrupt" /\ open' = open \ {exec.conn}
        /\ UNCHANGED rw
    BY <1>5 DEF RestartClose
  <2>2. ExecHolds = {exec.conn} /\ ExecHolds' = {}
    BY <2>1 DEF ExecHolds
  <2> QED
    BY <1>1, <1>2, <2>1, <2>2 DEF NoConnectionLeaks, ExecAlone, ConnInvariant
<1>6. CASE Interrupt
  <2>1. exec.pc = "interrupt" /\ exec'.pc = "idle" /\ UNCHANGED <<rw, open>>
    BY <1>6 DEF Interrupt
  <2>2. ExecHolds = {} /\ ExecHolds' = {}
    BY <2>1 DEF ExecHolds
  <2> QED
    BY <1>1, <1>2, <2>1, <2>2 DEF NoConnectionLeaks, ExecAlone, ConnInvariant
<1> QED
  BY <1>3, <1>4, <1>5, <1>6 DEF Restarting

LEMMA ConnElsewhere ==
    ASSUME ConnInvariant, UNCHANGED <<loop, rw, open, exec>>
    PROVE  ConnInvariant'
BY DEF ConnInvariant, NoConnectionLeaks, LoopSound, ExecAlone, LoopHolds, ExecHolds

LEMMA OthersLeave ==
    \/ \E w \in Workers : TakePacket(w) \/ MarkIngest(w) \/ EndEpisode(w) \/ MarkDrop(w)
    \/ Consume \/ Record
    \/ \E o \in Operators : Save(o) \/ \E op \in Operations, id \in Causes : Begin(o, op, id)
    \/ UNCHANGED vars
    => UNCHANGED <<loop, rw, open, exec>>
BY DEF TakePacket, MarkIngest, EndEpisode, MarkDrop, Consume, Record, Take, Mark, InsertLetter, Look,
       Escalate, Save, Begin, vars, transportVars

\* However the loop's Connect and Close and the executor's restarts interleave, every open connection
\* is somebody's to close (Direct.Connect, Direct.Close).
THEOREM NoLeaks == Spec => []NoConnectionLeaks
<1>1. TypeInvariant /\ ConnInvariant /\ [Next]_vars => ConnInvariant'
  <2> SUFFICES ASSUME Typed, ConnInvariant, [Next]_vars PROVE ConnInvariant'
    BY DEF TypeInvariant
  <2> QED
    BY ConnConnect, ConnRead, ConnDisconnect, ConnRestart, ConnElsewhere, OthersLeave
       DEF Next, TransportNext
<1>2. ConnInvariant => NoConnectionLeaks
  BY DEF ConnInvariant
<1> QED
  BY <1>1, <1>2, ConnInit, InitTypes, StepTypes, PTL DEF Spec

-----------------------------------------------------------------------------
(* The health record.                                                       *)

Down == {"judge", "close", "closing", "closed", "sleep"}
Attached == Reading \cup {"stalled"}

TruthInvariant ==
    /\ loop.pc \in Down /\ health.state \in UpStates => health.by = "worker"
    /\ loop.pc \in Down \cup {"force"} /\ ~health.episode => health.closedBy = "worker"
    /\ loop.pc \in Attached /\ health.state \notin UpStates => health.by = "exec"

LEMMA TruthInit == Init => TruthInvariant
BY DEF Init, TransportInit, TruthInvariant, Down, Attached, Reading

LEMMA TruthConnect == Typed /\ TruthInvariant /\ (Attempt \/ Connect) => TruthInvariant'
<1> SUFFICES ASSUME Typed, TruthInvariant, Attempt \/ Connect PROVE TruthInvariant'
  OBVIOUS
<1>0. loop \in Loops /\ health \in Healths
  BY DEF Typed
<1> USE DEF Down, Attached, Reading
<1>1. CASE Attempt
  <2>1. loop'.pc = "dial"
    BY <1>0, <1>1, GotoFacts DEF Attempt, LoopPcs
  <2> QED
    BY <2>1 DEF TruthInvariant
<1>2. CASE DialFails
  <2>1. loop'.pc = "failed"
    BY <1>0, <1>2 DEF DialFails, Loops
  <2> QED
    BY <2>1 DEF TruthInvariant
<1>3. CASE Dial
  <2>1. loop'.pc = "attach"
    BY <1>0, <1>3 DEF Dial, Loops
  <2> QED
    BY <2>1 DEF TruthInvariant
<1>4. CASE Attach
  <2>1. loop'.pc = "announce"
    BY <1>0, <1>4, GotoFacts DEF Attach, LoopPcs
  <2> QED
    BY <2>1 DEF TruthInvariant
<1>5. CASE Announce
  <2>1. loop'.pc = "up"
    BY <1>0, <1>5, GotoFacts DEF Announce, LoopPcs
  <2>2. State("idle", "loop") \in Healths /\ State("idle", "loop").state = "idle"
    BY <1>0, StateFacts, SomePcs
  <2>3. health'.state = "idle"
    BY <1>5, <2>2 DEF Announce, Healths
  <2> QED
    BY <2>1, <2>3 DEF TruthInvariant, UpStates
<1>6. CASE Up
  <2>1. loop.pc = "up" /\ loop'.pc = "clear"
    BY <1>0, <1>6 DEF Up, LoopAt, Loops
  <2>2. health'.state = health.state /\ health'.by = health.by
    BY <1>0, <1>6 DEF Up, Healths
  <2> QED
    BY <2>1, <2>2 DEF TruthInvariant
<1>7. CASE Clear
  <2>1. loop.pc = "clear" /\ loop'.pc = "subscribe" /\ UNCHANGED health
    BY <1>0, <1>7, GotoFacts DEF Clear, LoopAt, LoopPcs
  <2> QED
    BY <2>1 DEF TruthInvariant
<1>8. CASE Subscribe
  <2>1. loop.pc = "subscribe" /\ loop'.pc \in {"failed", "read"} /\ UNCHANGED health
    BY <1>0, <1>8 DEF Subscribe, LoopAt, Loops
  <2> QED
    BY <2>1 DEF TruthInvariant
<1> QED
  BY <1>1, <1>2, <1>3, <1>4, <1>5, <1>6, <1>7, <1>8 DEF Connect

LEMMA TruthRead == Typed /\ TruthInvariant /\ (ReadReturns \/ ReadFails \/ Read) => TruthInvariant'
<1> SUFFICES ASSUME Typed, TruthInvariant, ReadReturns \/ ReadFails \/ Read PROVE TruthInvariant'
  OBVIOUS
<1>0. loop \in Loops /\ health \in Healths
  BY DEF Typed
<1> USE DEF Down, Attached, Reading
<1>1. CASE ReadReturns
  <2>1. loop.pc = "read" /\ loop'.pc \in {"timeout", "frame", "drop"} /\ UNCHANGED health
    BY <1>0, <1>1, GotoFacts DEF ReadReturns, LoopAt, LoopPcs, Loops
  <2> QED
    BY <2>1 DEF TruthInvariant
<1>2. CASE ReadFails \/ Stalled
  <2>1. loop'.pc = "failed"
    BY <1>0, <1>2, GotoFacts DEF ReadFails, Stalled, Fail, LoopPcs
  <2> QED
    BY <2>1 DEF TruthInvariant
<1>3. CASE Timeout
  <2>1. loop.pc = "timeout" /\ loop'.pc \in {"stalled", "read"}
    <3>1. Goto("stalled") \/ Goto("read")
      BY <1>3 DEF Timeout
    <3> QED
      BY <1>0, <1>3, <3>1, GotoFacts DEF Timeout, LoopAt, LoopPcs
  <2>2. health'.state \in UpStates
    <3>1. Connected(health.total) \in UpStates /\ Connected(health.total) \in States
      BY <1>0, ConnectedType DEF Healths
    <3>2. /\ State(Connected(health.total), "loop") \in Healths
          /\ State(Connected(health.total), "loop").state \in UpStates
      BY <1>0, <3>1, StateFacts, SomePcs
    <3> QED
      BY <1>3, <3>2 DEF Timeout, Healths
  <2> QED
    BY <2>1, <2>2 DEF TruthInvariant
<1>4. CASE Frame
  <2>1. UNCHANGED health /\ loop.pc = "frame"
    BY <1>4 DEF Frame, LoopAt
  <2>2. loop'.pc \in {"accepted", "drop"}
    <3>1. Goto("accepted") \/ loop' = [loop EXCEPT !.pc = "drop", !.seen = health.total]
      BY <1>4 DEF Frame
    <3>2. Goto("accepted") => loop'.pc = "accepted"
      BY <1>0, GotoFacts DEF LoopPcs
    <3> QED
      BY <1>0, <3>1, <3>2 DEF Loops
  <2> QED
    BY <2>1, <2>2 DEF TruthInvariant
<1>5. CASE Accepted
  <2>1. loop.pc = "accepted" /\ loop'.pc = "read"
    BY <1>0, <1>5, GotoFacts DEF Accepted, LoopAt, LoopPcs
  <2>2. CASE health.total
    <3>1. health'.state = health.state /\ health'.by = health.by
      BY <1>0, <1>5, <2>2 DEF Accepted, Healths
    <3> QED
      BY <2>1, <3>1 DEF TruthInvariant
  <2>3. CASE ~health.total
    <3>1. /\ State("idle", "loop") \in Healths
          /\ State("idle", "loop").state = "idle"
      BY <1>0, StateFacts, SomePcs
    <3>2. health'.state = "idle"
      BY <1>5, <2>3, <3>1 DEF Accepted, Healths
    <3> QED
      BY <2>1, <3>2 DEF TruthInvariant, UpStates
  <2> QED
    BY <2>2, <2>3
<1>6. CASE Drop
  <2>1. loop.pc = "drop" /\ loop'.pc = "read"
    BY <1>0, <1>6, GotoFacts DEF Drop, LoopAt, LoopPcs
  <2>2. loop.seen \in BOOLEAN
    BY <1>0 DEF Loops
  <2>3. Connected(loop.seen) \in UpStates /\ Connected(loop.seen) \in States
    BY <2>2, ConnectedType
  <2>4. health'.state \in UpStates
    BY <1>0, <1>6, <2>3, StateFacts, SomePcs DEF Drop
  <2> QED
    BY <2>1, <2>4 DEF TruthInvariant
<1> QED
  BY <1>1, <1>2, <1>3, <1>4, <1>5, <1>6 DEF Read

LEMMA TruthDisconnect == Typed /\ TruthInvariant /\ Disconnect => TruthInvariant'
<1> SUFFICES ASSUME Typed, TruthInvariant, Disconnect PROVE TruthInvariant'
  OBVIOUS
<1>0. loop \in Loops /\ health \in Healths
  BY DEF Typed
<1> USE DEF Down, Attached, Reading
<1>1. CASE Failed
  <2>1. loop'.pc = "force"
    BY <1>0, <1>1 DEF Failed, Loops
  <2>2. health'.episode = TRUE
    BY <1>0, <1>1 DEF Failed, Healths
  <2> QED
    BY <2>1, <2>2 DEF TruthInvariant
<1>2. CASE ForceState
  <2>1. loop.pc = "force" /\ loop'.pc = "judge"
    BY <1>0, <1>2, GotoFacts DEF ForceState, LoopAt, LoopPcs
  <2> DEFINE s == IF loop.told THEN "failed" ELSE "retrying"
  <2>2. s \in States \ UpStates /\ health' = State(s, "loop")
    BY <1>2 DEF ForceState, States, UpStates
  <2> HIDE DEF s
  <2>3. health'.state = s /\ health'.episode = health.episode /\ health'.closedBy = health.closedBy
    BY <1>0, <2>2, StateFacts, SomePcs
  <2> QED
    BY <2>1, <2>2, <2>3 DEF TruthInvariant
<1>3. CASE Judge
  <2>1. loop.pc = "judge" /\ loop'.pc \in {"sleep", "close"}
    BY <1>0, <1>3 DEF Judge, LoopAt, Loops
  <2>2. health' = State("failed", "loop") \/ health' = health
    BY <1>3 DEF Judge
  <2>3. CASE health' = State("failed", "loop")
    <3>1. health'.state = "failed" /\ health'.episode = health.episode /\ health'.closedBy = health.closedBy
      BY <1>0, <2>3, StateFacts, SomePcs
    <3> QED
      BY <2>1, <3>1 DEF TruthInvariant, UpStates
  <2>4. CASE health' = health
    BY <2>1, <2>4 DEF TruthInvariant
  <2> QED
    BY <2>2, <2>3, <2>4
<1>4. CASE CloseTake
  <2>1. loop.pc = "close" /\ loop'.pc \in {"sleep", "closing"} /\ UNCHANGED health
    BY <1>0, <1>4 DEF CloseTake, LoopAt, Loops
  <2> QED
    BY <2>1 DEF TruthInvariant
<1>5. CASE CloseSay
  <2>1. loop.pc = "closing" /\ loop'.pc = "closed"
    BY <1>0, <1>5, GotoFacts DEF CloseSay, LoopAt, LoopPcs
  <2>2. health'.state = "retrying" /\ health'.episode = health.episode /\ health'.closedBy = health.closedBy
    BY <1>0, <1>5, StateFacts, SomePcs DEF CloseSay, SayClosed
  <2> QED
    BY <2>1, <2>2 DEF TruthInvariant, UpStates
<1>6. CASE CloseDone
  <2>1. loop.pc = "closed" /\ loop'.pc = "sleep" /\ UNCHANGED health
    BY <1>0, <1>6 DEF CloseDone, LoopAt, Loops
  <2> QED
    BY <2>1 DEF TruthInvariant
<1>7. CASE Sleep
  <2>1. loop'.pc = "attempt"
    BY <1>0, <1>7 DEF Sleep, Loops
  <2> QED
    BY <2>1 DEF TruthInvariant
<1> QED
  BY <1>1, <1>2, <1>3, <1>4, <1>5, <1>6, <1>7 DEF Disconnect

\* A restart says "retrying" and signs it; a worker only says what is up, and signs that.
LEMMA TruthRestart == Typed /\ TruthInvariant /\ (RestartTake \/ Restarting) => TruthInvariant'
<1> SUFFICES ASSUME Typed, TruthInvariant, RestartTake \/ Restarting PROVE TruthInvariant'
  OBVIOUS
<1>0. health \in Healths
  BY DEF Typed
<1>1. CASE RestartSay
  <2>1. /\ UNCHANGED loop /\ health'.state = "retrying" /\ health'.by = "exec"
        /\ health'.episode = health.episode /\ health'.closedBy = health.closedBy
    BY <1>0, <1>1, StateFacts, SomePcs DEF RestartSay, SayClosed
  <2> QED
    BY <2>1 DEF TruthInvariant, UpStates
<1>2. CASE RestartTake \/ RestartClose \/ Interrupt
  <2>1. UNCHANGED <<loop, health>>
    BY <1>2 DEF RestartTake, RestartClose, Interrupt
  <2> QED
    BY <2>1 DEF TruthInvariant
<1> QED
  BY <1>1, <1>2 DEF Restarting

LEMMA TruthWorker ==
    ASSUME Typed, TruthInvariant, NEW w \in Workers,
           TakePacket(w) \/ MarkIngest(w) \/ EndEpisode(w) \/ MarkDrop(w)
    PROVE  TruthInvariant'
<1>0. health \in Healths /\ worker[w].seen \in BOOLEAN
  BY DEF Typed, Takers
<1>1. CASE TakePacket(w)
  <2>1. UNCHANGED <<loop, health>>
    BY <1>1 DEF TakePacket
  <2> QED
    BY <2>1 DEF TruthInvariant
<1>2. CASE MarkIngest(w)
  <2>1. /\ State("live", "worker") \in Healths /\ State("live", "worker").state = "live"
        /\ State("live", "worker").by = "worker"
        /\ State("live", "worker").episode = health.episode
        /\ State("live", "worker").closedBy = health.closedBy
    BY <1>0, StateFacts, SomePcs
  <2>2. health' = [State("live", "worker") EXCEPT !.total = TRUE, !.timeouts = 0] /\ UNCHANGED loop
    BY <1>2 DEF MarkIngest
  <2>3. /\ health'.state = "live" /\ health'.by = "worker"
        /\ health'.episode = health.episode /\ health'.closedBy = health.closedBy
    BY <2>1, <2>2 DEF Healths
  <2> QED
    BY <2>2, <2>3 DEF TruthInvariant, UpStates
<1>3. CASE EndEpisode(w)
  <2>1. /\ UNCHANGED loop /\ health'.closedBy = "worker"
        /\ health'.state = health.state /\ health'.by = health.by
    BY <1>0, <1>3 DEF EndEpisode, Healths
  <2> QED
    BY <2>1 DEF TruthInvariant
<1>4. CASE MarkDrop(w)
  <2>1. Connected(worker[w].seen) \in UpStates /\ Connected(worker[w].seen) \in States
    BY <1>0, ConnectedType
  <2>2. health' = State(Connected(worker[w].seen), "worker") /\ UNCHANGED loop
    BY <1>4 DEF MarkDrop
  <2>3. /\ health'.state \in UpStates /\ health'.by = "worker"
        /\ health'.episode = health.episode /\ health'.closedBy = health.closedBy
    BY <1>0, <2>1, <2>2, StateFacts, SomePcs
  <2> QED
    BY <2>2, <2>3 DEF TruthInvariant
<1> QED
  BY <1>1, <1>2, <1>3, <1>4

\* A transport that waits to retry is not shown as up, and one that reads is not shown as down, but
\* for the late word of a worker or of the executor (direct.go's writers of Health, runTransport).
THEOREM Truthful == Spec => []HealthTruthful
<1>1. TypeInvariant /\ TruthInvariant /\ [Next]_vars => TruthInvariant'
  <2> SUFFICES ASSUME Typed, TruthInvariant, [Next]_vars PROVE TruthInvariant'
    BY DEF TypeInvariant
  <2>1. (Consume \/ Record \/ UNCHANGED vars
         \/ \E o \in Operators : Save(o) \/ \E op \in Operations, id \in Causes : Begin(o, op, id))
        => UNCHANGED <<loop, health>>
    BY DEF Consume, Record, Take, Mark, InsertLetter, Look, Escalate, Save, Begin, vars, transportVars
  <2>2. UNCHANGED <<loop, health>> => TruthInvariant'
    BY DEF TruthInvariant
  <2> QED
    BY <2>1, <2>2, TruthConnect, TruthRead, TruthDisconnect, TruthRestart, TruthWorker
       DEF Next, TransportNext
<1>2. TruthInvariant => HealthTruthful
  BY DEF TruthInvariant, HealthTruthful, LoopAt, Down, Attached, Reading
<1> QED
  BY <1>1, <1>2, TruthInit, InitTypes, StepTypes, PTL DEF Spec

-----------------------------------------------------------------------------
(* Incidents.                                                               *)

\* A suffix is only ever looked up for a cause that is settled, and nobody works on a row that is
\* not there.
CauseInvariant ==
    /\ OneUntilResolved
    /\ \A r \in Reasons : incidents[<<r, 0>>].state = "resolved" => r \in settled
    /\ recorder.suffix # 0 => Reason \in settled
    /\ \A o \in Operators : desk[o].op # "none" => incidents[desk[o].id] # NoRow

LEMMA CauseInit == Init => CauseInvariant
<1> SUFFICES ASSUME Init PROVE CauseInvariant
  OBVIOUS
<1>1. \A r \in Reasons, k \in 0 .. MaxSuffix : incidents[<<r, k>>] = NoRow
  BY DEF Init, Causes
<1>2. NoRow.state # "resolved" /\ 0 \in 0 .. MaxSuffix /\ \A k \in 1 .. MaxSuffix : k \in 0 .. MaxSuffix
  BY IncidentsAssumption DEF NoRow
<1>3. recorder.suffix = 0 /\ \A o \in Operators : desk[o].op = "none"
  BY DEF Init, AtNoDesk
<1> QED
  BY <1>1, <1>2, <1>3 DEF CauseInvariant, OneUntilResolved

LEMMA CauseQuiet ==
    ASSUME CauseInvariant, UNCHANGED <<incidents, desk, settled>>,
           recorder'.suffix # 0 => recorder'.notice.reason \in settled
    PROVE  CauseInvariant'
BY DEF CauseInvariant, OneUntilResolved, Reason

LEMMA CauseRecord == TypeInvariant /\ CauseInvariant /\ Record => CauseInvariant'
<1> SUFFICES ASSUME TypeInvariant, CauseInvariant, Record PROVE CauseInvariant'
  OBVIOUS
<1>0. /\ recorder \in Recorders /\ incidents \in [Causes -> IncidentRows \cup {NoRow}]
      /\ 0 \in 0 .. MaxSuffix /\ MaxSuffix \in Nat
  BY IncidentsAssumption DEF TypeInvariant, OfficeTyped
<1>1. CASE Take
  BY <1>1, CauseQuiet DEF Take
<1>2. CASE Mark \/ InsertLetter
  <2>1. Step("look") \/ Step("letter")
    BY <1>2 DEF Mark, InsertLetter
  <2>2. recorder'.suffix = recorder.suffix /\ recorder'.notice = recorder.notice
    BY <1>0, <2>1 DEF Step, Recorders
  <2>3. UNCHANGED <<incidents, desk, settled>>
    BY <1>2 DEF Mark, InsertLetter
  <2> QED
    BY <2>2, <2>3, CauseQuiet DEF CauseInvariant, Reason
<1>3. CASE Look
  <2>1. UNCHANGED <<incidents, desk, settled>>
    BY <1>3 DEF Look
  <2>2. CASE Step("write")
    <3>1. recorder'.suffix = recorder.suffix /\ recorder'.notice = recorder.notice
      BY <1>0, <2>2 DEF Step, Recorders
    <3> QED
      BY <2>1, <3>1, CauseQuiet DEF CauseInvariant, Reason
  <2>3. CASE /\ StartsAnew(incidents[<<Reason, 0>>])
             /\ \E k \in Seconds(Reason) : recorder' = [recorder EXCEPT !.pc = "write", !.suffix = k]
    <3>1. recorder.notice \in Notices
      BY <1>3 DEF Look, RecorderAt, TypeInvariant, InHand
    <3>2. Reason \in Reasons
      BY <3>1 DEF Reason, Notices
    <3>3. Reason \in settled
      BY <2>3, <3>2 DEF StartsAnew, CauseInvariant
    <3>4. recorder'.notice = recorder.notice
      BY <1>0, <2>3 DEF Recorders
    <3> QED
      BY <2>1, <3>3, <3>4, CauseQuiet DEF Reason
  <2> QED
    BY <1>3, <2>2, <2>3 DEF Look
<1>4. CASE Escalate
  <2>1. recorder.notice \in Notices
    BY <1>4 DEF Escalate, RecorderAt, TypeInvariant, InHand
  <2>2. Reason \in Reasons /\ recorder.suffix \in 0 .. MaxSuffix /\ <<Reason, recorder.suffix>> \in Causes
    BY <1>0, <2>1 DEF Reason, Notices, Recorders, Causes
  <2>3. recorder'.suffix = 0 /\ UNCHANGED <<desk, settled>>
    BY <1>4 DEF Escalate, Rest
  <2>4. CASE UNCHANGED incidents
    BY <2>3, <2>4, CauseQuiet
  <2>5. CASE incidents' = [incidents EXCEPT ![<<Reason, recorder.suffix>>] =
                              [state |-> "open", owned |-> FALSE, noted |-> FALSE]]
    <3> DEFINE opened == [state |-> "open", owned |-> FALSE, noted |-> FALSE]
    <3>1. opened # NoRow /\ opened.state # "resolved"
      <4>1. opened \in IncidentRows /\ opened.state = "open"
        BY DEF IncidentRows
      <4> QED
        BY <4>1, NoRowIsNoIncident
    <3> HIDE DEF opened
    <3>2. \A c \in Causes : incidents'[c] = IF c = <<Reason, recorder.suffix>> THEN opened ELSE incidents[c]
      BY <1>0, <2>5 DEF opened
    <3>3. \A r \in Reasons, k \in 0 .. MaxSuffix :
            /\ <<r, k>> \in Causes
            /\ <<r, k>> = <<Reason, recorder.suffix>> => r = Reason /\ k = recorder.suffix
      BY DEF Causes
    <3>4. OneUntilResolved'
      <4> SUFFICES ASSUME NEW r \in Reasons, NEW k \in 1 .. MaxSuffix, incidents'[<<r, k>>] # NoRow
                   PROVE  r \in settled
        BY <2>3 DEF OneUntilResolved
      <4>1. k \in 0 .. MaxSuffix /\ k # 0
        BY <1>0
      <4>2. CASE <<r, k>> = <<Reason, recorder.suffix>>
        BY <3>3, <4>1, <4>2 DEF CauseInvariant
      <4>3. CASE <<r, k>> # <<Reason, recorder.suffix>>
        BY <3>2, <3>3, <4>1, <4>3 DEF CauseInvariant, OneUntilResolved
      <4> QED
        BY <4>2, <4>3
    <3>5. \A r \in Reasons : incidents'[<<r, 0>>].state = "resolved" => r \in settled
      BY <1>0, <3>1, <3>2, <3>3 DEF CauseInvariant
    <3>6. \A o \in Operators : desk[o].op # "none" => incidents'[desk[o].id] # NoRow
      <4>1. \A o \in Operators : desk[o].id \in Causes
        BY DEF TypeInvariant, OfficeTyped, Desks
      <4> QED
        BY <3>1, <3>2, <4>1 DEF CauseInvariant
    <3> QED
      BY <2>3, <3>4, <3>5, <3>6 DEF CauseInvariant
  <2> QED
    BY <1>4, <2>4, <2>5 DEF Escalate
<1> QED
  BY <1>1, <1>2, <1>3, <1>4 DEF Record

LEMMA CauseBegin ==
    ASSUME TypeInvariant, CauseInvariant, NEW o \in Operators, NEW op \in Operations, NEW id \in Causes,
           Begin(o, op, id)
    PROVE  CauseInvariant'
<1>1. incidents[id] # NoRow /\ UNCHANGED <<recorder, incidents, settled>>
  BY DEF Begin
<1>2. \A p \in Operators : desk'[p] = IF p = o THEN [op |-> op, id |-> id, row |-> incidents[id]] ELSE desk[p]
  BY DEF Begin, TypeInvariant, OfficeTyped
<1>3. \A p \in Operators : desk'[p].op # "none" => incidents[desk'[p].id] # NoRow
  BY <1>1, <1>2 DEF CauseInvariant
<1> QED
  BY <1>1, <1>3 DEF CauseInvariant, OneUntilResolved, Reason

LEMMA CauseSave ==
    ASSUME TypeInvariant, CauseInvariant, NEW o \in Operators, Save(o)
    PROVE  CauseInvariant'
<1> DEFINE id == desk[o].id
           saved == Worked(desk[o].op, desk[o].row)
<1>1. /\ desk[o].op \in Operations /\ id \in Causes /\ saved \in IncidentRows
      /\ incidents[id] # NoRow /\ UNCHANGED recorder
  BY WorkedType DEF Save, TypeInvariant, OfficeTyped, InHand, Desks, CauseInvariant
<1>2. saved # NoRow
  BY <1>1, NoRowIsNoIncident
<1>3. desk' = [desk EXCEPT ![o] = AtNoDesk] /\ AtNoDesk.op = "none"
  BY DEF Save, AtNoDesk
<1>4. \A p \in Operators : desk'[p].op # "none" => desk'[p] = desk[p]
  BY <1>3 DEF TypeInvariant, OfficeTyped
<1>5. CASE UNCHANGED <<incidents, settled>>
  BY <1>1, <1>4, <1>5 DEF CauseInvariant, OneUntilResolved, Reason
<1>6. CASE /\ incidents' = [incidents EXCEPT ![id] = saved]
           /\ settled' = IF incidents'[id].state = "resolved" /\ id[2] = 0
                         THEN settled \cup {id[1]} ELSE settled
  <2> HIDE DEF saved, id
  <2>1. \A c \in Causes : incidents'[c] = IF c = id THEN saved ELSE incidents[c]
    BY <1>1, <1>6 DEF TypeInvariant, OfficeTyped
  <2>2. settled \subseteq settled'
    BY <1>6
  <2>3. \A r \in Reasons, k \in 0 .. MaxSuffix : <<r, k>> \in Causes /\ <<r, k>>[1] = r /\ <<r, k>>[2] = k
    BY DEF Causes
  <2>4. OneUntilResolved'
    <3> SUFFICES ASSUME NEW r \in Reasons, NEW k \in 1 .. MaxSuffix, incidents'[<<r, k>>] # NoRow
                 PROVE  r \in settled
      BY <2>2 DEF OneUntilResolved
    <3>1. <<r, k>> \in Causes
      BY IncidentsAssumption DEF Causes
    <3>2. incidents[<<r, k>>] # NoRow
      BY <1>1, <2>1, <3>1
    <3> QED
      BY <3>2 DEF CauseInvariant, OneUntilResolved
  <2>5. ASSUME NEW r \in Reasons, incidents'[<<r, 0>>].state = "resolved" PROVE r \in settled'
    <3>1. 0 \in 0 .. MaxSuffix
      BY IncidentsAssumption
    <3>2. CASE <<r, 0>> = id
      BY <1>6, <2>3, <2>5, <3>1, <3>2
    <3>3. CASE <<r, 0>> # id
      BY <2>1, <2>2, <2>3, <2>5, <3>1, <3>3 DEF CauseInvariant
    <3> QED
      BY <3>2, <3>3
  <2>6. \A p \in Operators : desk'[p].op # "none" => incidents'[desk'[p].id] # NoRow
    <3>1. \A p \in Operators : desk[p].id \in Causes
      BY DEF TypeInvariant, OfficeTyped, Desks
    <3> QED
      BY <1>2, <1>4, <2>1, <3>1 DEF CauseInvariant
  <2> QED
    BY <1>1, <2>2, <2>4, <2>5, <2>6 DEF CauseInvariant, Reason
<1> QED
  BY <1>5, <1>6 DEF Save

\* However the worker's reads and writes interleave with those of the operators, a cause has one
\* incident until that one was resolved (escalateToIncident).
THEOREM OneUntil == Spec => []OneUntilResolved
<1>1. TypeInvariant /\ CauseInvariant /\ [Next]_vars => CauseInvariant'
  <2> SUFFICES ASSUME TypeInvariant, CauseInvariant, [Next]_vars PROVE CauseInvariant'
    OBVIOUS
  <2>1. (TransportNext /\ UNCHANGED incidentVars) \/ Consume \/ UNCHANGED vars => CauseInvariant'
    <3>1. (TransportNext /\ UNCHANGED incidentVars) \/ Consume \/ UNCHANGED vars
          => UNCHANGED <<recorder, incidents, desk, settled>>
      BY DEF Consume, incidentVars, vars
    <3>2. UNCHANGED <<recorder, incidents, desk, settled>> => CauseInvariant'
      BY DEF CauseInvariant, OneUntilResolved, Reason
    <3> QED
      BY <3>1, <3>2
  <2> QED
    BY <2>1, CauseRecord, CauseBegin, CauseSave DEF Next
<1>2. CauseInvariant => OneUntilResolved
  BY DEF CauseInvariant
<1> QED
  BY <1>1, <1>2, CauseInit, InitTypes, StepTypes, PTL DEF Spec

-----------------------------------------------------------------------------
(* The dead letters of an outage.                                           *)

\* The places in a queue that hold a notice of the retry threshold.
Held(s) == {i \in 1 .. Len(s) : s[i].reason = "threshold"}
Toll(b) == IF b THEN 1 ELSE 0

InMark == Toll(RecorderAt("mark") /\ Reason = "threshold")
InLetter == Toll(RecorderAt("letter") /\ Reason = "threshold")
Marked == Toll(marks["threshold"] # "none")
Outage == Toll(loop.told \/ loop.pc = "clear")

\* A notice that was sent waits in one of the queues, is in the worker's hands, or was decided on.
Accounted ==
    tally.sent = tally.decided + Cardinality(Held(bus)) + Cardinality(Held(queue)) + InMark

\* A notice suppressed by the mark is one that Clear counted as lost: of the notices sent, each but
\* that of the outage still on has its letter, or its loss, before the next can be decided on.
LetterInvariant ==
    /\ letters["threshold"] + InLetter <= tally.decided
    /\ tally.decided <= letters["threshold"] + InLetter + tally.lost
    /\ Accounted
    /\ tally.sent + Marked <= letters["threshold"] + InLetter + tally.lost + Outage

\* What a queue holds is finite, and changes by the notice appended to it or taken from its head.
LEMMA HeldNat ==
    ASSUME NEW s \in Seq(Notices)
    PROVE  IsFiniteSet(Held(s)) /\ Cardinality(Held(s)) \in Nat
<1>1. Held(s) \subseteq 1 .. Len(s) /\ IsFiniteSet(1 .. Len(s))
  BY FS_Interval DEF Held
<1> QED
  BY <1>1, FS_Subset, FS_CardinalityType

LEMMA HeldAppend ==
    ASSUME NEW s \in Seq(Notices), NEW n \in Notices
    PROVE  Cardinality(Held(Append(s, n))) = Cardinality(Held(s)) + Toll(n.reason = "threshold")
<1> DEFINE t == Append(s, n)
           k == Len(s) + 1
<1>1. Len(t) = k /\ k \in Nat /\ t[k] = n /\ \A i \in 1 .. Len(s) : t[i] = s[i]
  OBVIOUS
<1>2. k \notin Held(s)
  BY DEF Held
<1>3. CASE n.reason = "threshold"
  <2>1. Held(t) = Held(s) \cup {k}
    BY <1>1, <1>3 DEF Held
  <2> QED
    BY <1>2, <1>3, <2>1, HeldNat, FS_AddElement DEF Toll
<1>4. CASE n.reason # "threshold"
  <2>1. Held(t) = Held(s)
    BY <1>1, <1>4 DEF Held
  <2> QED
    BY <1>4, <2>1, HeldNat DEF Toll
<1> QED
  BY <1>3, <1>4

LEMMA HeldTail ==
    ASSUME NEW s \in Seq(Notices), s # <<>>
    PROVE  Cardinality(Held(s)) = Cardinality(Held(Tail(s))) + Toll(Head(s).reason = "threshold")
<1> DEFINE t == Tail(s)
           later == Held(s) \ {1}
           f == [i \in Held(t) |-> i + 1]
<1>1. /\ Len(s) \in Nat \ {0} /\ Len(t) = Len(s) - 1 /\ t \in Seq(Notices) /\ Head(s) = s[1]
      /\ \A i \in 1 .. Len(t) : t[i] = s[i + 1]
  OBVIOUS
<1>2. f \in Bijection(Held(t), later)
  <2>1. \A i \in Held(t) : i \in Nat /\ i + 1 \in later
    BY <1>1 DEF Held
  <2>2. \A j \in later : j - 1 \in Held(t) /\ (j - 1) + 1 = j
    BY <1>1 DEF Held
  <2>3. f \in [Held(t) -> later]
    BY <2>1
  <2>4. \A i, j \in Held(t) : f[i] = f[j] => i = j
    BY <2>1
  <2>5. \A j \in later : \E i \in Held(t) : f[i] = j
    BY <2>2
  <2> QED
    BY <2>3, <2>4, <2>5 DEF Bijection, Injection, Surjection, IsInjective
<1>3. Cardinality(later) = Cardinality(Held(t)) /\ Cardinality(later) \in Nat
  <2>1. IsFiniteSet(Held(t)) /\ Cardinality(Held(t)) \in Nat
    BY <1>1, HeldNat
  <2> HIDE DEF f, t, later
  <2>2. Cardinality(Held(t)) = Cardinality(later)
    BY <1>2, <2>1, FS_Bijection DEF ExistsBijection
  <2> QED
    BY <2>1, <2>2
<1> HIDE DEF f, t
<1>4. CASE Head(s).reason = "threshold"
  <2>1. 1 \in Held(s)
    BY <1>1, <1>4 DEF Held
  <2>2. Cardinality(later) = Cardinality(Held(s)) - 1 /\ Cardinality(Held(s)) \in Nat
    BY <2>1, HeldNat, FS_RemoveElement
  <2> QED
    BY <1>3, <1>4, <2>2 DEF Toll, t
<1>5. CASE Head(s).reason # "threshold"
  <2>1. later = Held(s)
    BY <1>1, <1>5 DEF Held
  <2>2. Cardinality(later) = Cardinality(Held(s)) /\ Cardinality(Held(s)) \in Nat
    BY <2>1, HeldNat
  <2> QED
    BY <1>3, <1>5, <2>2 DEF Toll, t
<1> QED
  BY <1>4, <1>5

\* What the arithmetic of a step needs to know of its terms.
LEMMA LetterNumbers ==
    ASSUME Typed, OfficeTyped
    PROVE  /\ tally.sent \in Nat /\ tally.decided \in Nat /\ tally.lost \in Nat
           /\ letters["threshold"] \in Nat
           /\ InMark \in {0, 1} /\ InLetter \in {0, 1} /\ Marked \in {0, 1} /\ Outage \in {0, 1}
           /\ Cardinality(Held(bus)) \in Nat /\ Cardinality(Held(queue)) \in Nat
BY HeldNat DEF Typed, OfficeTyped, Tallies, DeadLettered, InMark, InLetter, Marked, Outage, Toll

\* A notice that no one counts.
LEMMA OtherNotice ==
    ASSUME Typed, NEW n \in Notices, n.reason # "threshold", Publish(n) \/ UNCHANGED <<bus, tally>>
    PROVE  tally' = tally /\ Cardinality(Held(bus')) = Cardinality(Held(bus))
<1>1. bus \in Seq(Notices) /\ BusSize \in Nat
  BY Numbers DEF Typed
<1>2. CASE UNCHANGED <<bus, tally>>
  BY <1>2
<1>3. CASE Publish(n)
  <2>1. tally' = tally /\ bus' \in {bus, Append(bus, n)}
    BY <1>3 DEF Publish
  <2>2. Cardinality(Held(Append(bus, n))) = Cardinality(Held(bus)) /\ Cardinality(Held(bus)) \in Nat
    <3>1. Cardinality(Held(Append(bus, n))) = Cardinality(Held(bus)) + Toll(n.reason = "threshold")
      BY <1>1, HeldAppend
    <3>2. Cardinality(Held(bus)) \in Nat /\ Toll(n.reason = "threshold") = 0
      BY <1>1, HeldNat DEF Toll
    <3> QED
      BY <3>1, <3>2
  <2> QED
    BY <2>1, <2>2
<1> QED
  BY <1>2, <1>3

\* Everything of the transport but Up, Clear and Judge: no outage begins or ends, and no notice of
\* one is sent.
Uneventful ==
    /\ tally' = tally /\ marks' = marks /\ Cardinality(Held(bus')) = Cardinality(Held(bus))
    /\ \/ loop' = loop
       \/ loop'.told = loop.told /\ loop.pc # "clear" /\ loop'.pc # "clear"

LEMMA LetterQuiet ==
    ASSUME LetterInvariant, UNCHANGED incidentVars, Uneventful \/ UNCHANGED transportVars
    PROVE  LetterInvariant'
<1>1. UNCHANGED <<InMark, InLetter, letters, queue>>
  BY DEF incidentVars, InMark, InLetter, RecorderAt, Reason
<1>2. UNCHANGED <<Marked, Outage, tally, Cardinality(Held(bus))>>
  BY DEF Uneventful, transportVars, Marked, Outage
<1>3. UNCHANGED Cardinality(Held(queue))
  BY <1>1
<1> QED
  BY <1>1, <1>2, <1>3 DEF LetterInvariant, Accounted

LEMMA LetterTransport ==
    TypeInvariant /\ LetterInvariant /\ TransportNext /\ UNCHANGED incidentVars => LetterInvariant'
<1> SUFFICES ASSUME TypeInvariant, LetterInvariant, TransportNext, UNCHANGED incidentVars
             PROVE  LetterInvariant'
  OBVIOUS
<1>0. Typed /\ OfficeTyped /\ loop \in Loops /\ bus \in Seq(Notices) /\ BusSize \in Nat
  BY Numbers DEF TypeInvariant, Typed
<1>1. /\ UNCHANGED <<letters, queue, InMark, InLetter>>
      /\ Cardinality(Held(queue)) = Cardinality(Held(queue'))
  BY DEF incidentVars, InMark, InLetter, RecorderAt, Reason
<1>N. /\ tally.sent \in Nat /\ tally.decided \in Nat /\ tally.lost \in Nat
      /\ letters["threshold"] \in Nat
      /\ InMark \in {0, 1} /\ InLetter \in {0, 1} /\ Marked \in {0, 1} /\ Outage \in {0, 1}
      /\ Cardinality(Held(bus)) \in Nat /\ Cardinality(Held(queue)) \in Nat
  BY <1>0, LetterNumbers
<1>2. CASE Up
  <2>1. /\ UNCHANGED <<bus, tally, marks>> /\ loop'.pc = "clear"
    BY <1>0, <1>2 DEF Up, Loops
  <2>2. Outage' = 1 /\ Marked' = Marked
    BY <2>1 DEF Outage, Marked, Toll
  <2> QED
    BY <1>1, <1>N, <2>1, <2>2 DEF LetterInvariant, Accounted
<1>3. CASE Clear
  <2>1. /\ bus' = bus /\ loop.pc = "clear" /\ Marked' = 0 /\ Outage = 1
    BY <1>0, <1>3 DEF Clear, Cleared, LoopAt, Typed, Reasons, Marked, Outage, Toll
  <2>2. Outage' \in {0, 1} /\ Marked \in {0, 1}
    BY DEF Outage, Marked, Toll
  <2>3. /\ tally'.sent = tally.sent /\ tally'.decided = tally.decided
        /\ tally'.lost = IF tally.decided < tally.sent THEN tally.lost + 1 ELSE tally.lost
    BY <1>0, <1>3 DEF Clear, Typed, Tallies
  <2> QED
    BY <1>1, <1>N, <2>1, <2>2, <2>3 DEF LetterInvariant, Accounted
<1>4. CASE Judge /\ loop.fails >= Threshold /\ ~loop.told
  <2> DEFINE n == [reason |-> "threshold", print |-> loop.why]
  <2>1. /\ Publish(n) /\ marks' = marks /\ loop.pc = "judge" /\ loop'.told
    BY <1>0, <1>4 DEF Judge, LoopAt, Loops
  <2>2. Outage = 0 /\ Outage' = 1 /\ Marked' = Marked
    BY <1>4, <2>1 DEF Outage, Marked, Toll
  <2>3. n \in Notices /\ n.reason = "threshold"
    BY <1>0 DEF Loops, Notices, Reasons
  <2>4. Cardinality(Held(Append(bus, n))) = Cardinality(Held(bus)) + 1
    BY <1>0, <2>3, HeldAppend DEF Toll
  <2> HIDE DEF n
  <2>5. CASE Len(bus) < BusSize
    <3>1. /\ tally'.sent = tally.sent + 1
          /\ tally'.decided = tally.decided /\ tally'.lost = tally.lost
      BY <1>0, <2>1, <2>3, <2>5 DEF Publish, Typed, Tallies
    <3>2. Cardinality(Held(bus')) = Cardinality(Held(bus)) + 1
      <4>1. bus' = Append(bus, n)
        BY <2>1, <2>5 DEF Publish
      <4> QED
        BY <2>4, <4>1
    <3>3. Accounted'
      BY <1>1, <1>N, <3>1, <3>2 DEF LetterInvariant, Accounted
    <3> QED
      BY <1>1, <1>N, <2>2, <3>1, <3>3 DEF LetterInvariant
  <2>6. CASE ~(Len(bus) < BusSize)
    <3>1. /\ bus' = bus /\ tally'.sent = tally.sent + 1
          /\ tally'.decided = tally.decided + 1 /\ tally'.lost = tally.lost + 1
      BY <1>0, <2>1, <2>3, <2>6 DEF Publish, Typed, Tallies
    <3> QED
      BY <1>1, <1>N, <2>2, <3>1 DEF LetterInvariant, Accounted
  <2> QED
    BY <2>5, <2>6
<1>5. CASE \/ Attempt \/ DialFails \/ Dial \/ Attach \/ Announce \/ Subscribe
           \/ ReadReturns \/ ReadFails \/ Read
           \/ Disconnect /\ ~(Judge /\ loop.fails >= Threshold /\ ~loop.told)
           \/ RestartTake \/ Restarting
           \/ \E w \in Workers : TakePacket(w) \/ MarkIngest(w) \/ EndEpisode(w) \/ MarkDrop(w)
  <2>1. \/ marks' = marks /\ loop'.told = loop.told /\ loop.pc # "clear" /\ loop'.pc # "clear"
        \/ loop' = loop /\ marks' = marks
    <3>1. CASE Attempt \/ DialFails \/ Dial \/ Attach \/ Announce \/ Subscribe
      BY <1>0, <3>1 DEF Attempt, DialFails, Dial, Attach, Announce, Subscribe, LoopAt, Goto, Loops
    <3>2. CASE ReadReturns \/ ReadFails \/ Read
      BY <1>0, <3>2 DEF ReadReturns, ReadFails, Read, Timeout, Stalled, Frame, Accepted, Drop, Fail,
                        LoopAt, Goto, Loops
    <3>3. CASE Disconnect /\ ~(Judge /\ loop.fails >= Threshold /\ ~loop.told)
      BY <1>0, <3>3 DEF Disconnect, Failed, ForceState, Judge, CloseTake, CloseSay, CloseDone, Sleep,
                        LoopAt, Goto, Loops
    <3>4. CASE RestartTake \/ Restarting
      BY <3>4 DEF RestartTake, Restarting, RestartSay, RestartClose, Interrupt
    <3>5. CASE \E w \in Workers : TakePacket(w) \/ MarkIngest(w) \/ EndEpisode(w) \/ MarkDrop(w)
      BY <3>5 DEF TakePacket, MarkIngest, EndEpisode, MarkDrop
    <3> QED
      BY <1>5, <3>1, <3>2, <3>3, <3>4, <3>5
  <2>2. \/ UNCHANGED <<bus, tally>>
        \/ \E r \in Reasons \ {"threshold"} : Publish([reason |-> r, print |-> "socket"])
    <3>1. CASE Attempt \/ DialFails \/ Dial \/ Attach \/ Announce \/ Subscribe
      BY <3>1 DEF Attempt, DialFails, Dial, Attach, Announce, Subscribe
    <3>2. CASE ReadReturns \/ ReadFails \/ Read
      BY <3>2 DEF ReadReturns, ReadFails, Read, Timeout, Stalled, Frame, Accepted, Drop, Fail, Reasons
    <3>3. CASE Disconnect /\ ~(Judge /\ loop.fails >= Threshold /\ ~loop.told)
      BY <3>3 DEF Disconnect, Failed, ForceState, Judge, CloseTake, CloseSay, CloseDone, Sleep
    <3>4. CASE RestartTake \/ Restarting
      BY <3>4 DEF RestartTake, Restarting, RestartSay, RestartClose, Interrupt
    <3>5. CASE \E w \in Workers : TakePacket(w) \/ MarkIngest(w) \/ EndEpisode(w) \/ MarkDrop(w)
      BY <3>5 DEF TakePacket, MarkIngest, EndEpisode, MarkDrop, Reasons
    <3> QED
      BY <1>5, <3>1, <3>2, <3>3, <3>4, <3>5
  <2>3. tally' = tally /\ Cardinality(Held(bus')) = Cardinality(Held(bus))
    <3>1. \A r \in Reasons : [reason |-> r, print |-> "socket"] \in Notices
      BY SocketNotices
    <3> QED
      BY <1>0, <2>2, <3>1, OtherNotice
  <2> QED
    BY <2>1, <2>3, LetterQuiet DEF Uneventful
<1> QED
  BY <1>2, <1>3, <1>4, <1>5 DEF TransportNext, Connect

LEMMA LetterRecord == TypeInvariant /\ LetterInvariant /\ (Consume \/ Record) => LetterInvariant'
<1> SUFFICES ASSUME TypeInvariant, LetterInvariant, Consume \/ Record PROVE LetterInvariant'
  OBVIOUS
<1>0. /\ Typed /\ OfficeTyped /\ InHand /\ recorder \in Recorders
      /\ bus \in Seq(Notices) /\ queue \in Seq(Notices)
  BY DEF TypeInvariant, Typed, OfficeTyped
<1>N. /\ tally.sent \in Nat /\ tally.decided \in Nat /\ tally.lost \in Nat
      /\ letters["threshold"] \in Nat
      /\ InMark \in {0, 1} /\ InLetter \in {0, 1} /\ Marked \in {0, 1} /\ Outage \in {0, 1}
      /\ Cardinality(Held(bus)) \in Nat /\ Cardinality(Held(queue)) \in Nat
  BY <1>0, LetterNumbers
<1>1. loop' = loop /\ Outage' = Outage
  BY DEF Consume, Record, Take, Mark, InsertLetter, Look, Escalate, transportVars, Outage
<1>2. CASE Consume
  <2>1. UNCHANGED <<tally, marks, letters, recorder>> /\ bus # <<>>
    BY <1>2 DEF Consume
  <2>2. UNCHANGED <<InMark, InLetter, Marked>>
    BY <2>1 DEF InMark, InLetter, Marked, RecorderAt, Reason
  <2>3. Head(bus) \in Notices
    BY <1>0, <2>1
  <2>4. /\ Cardinality(Held(bus)) = Cardinality(Held(bus')) + Toll(Head(bus).reason = "threshold")
        /\ Cardinality(Held(queue')) = Cardinality(Held(queue)) + Toll(Head(bus).reason = "threshold")
    BY <1>0, <1>2, <2>1, <2>3, HeldTail, HeldAppend DEF Consume
  <2>5. Cardinality(Held(bus')) \in Nat /\ Toll(Head(bus).reason = "threshold") \in {0, 1}
    <3>1. bus' \in Seq(Notices)
      BY <1>0, <1>2 DEF Consume
    <3> QED
      BY <3>1, HeldNat DEF Toll
  <2>6. Accounted'
    <3> DEFINE b == Cardinality(Held(bus))
               c == Cardinality(Held(bus'))
               q == Cardinality(Held(queue))
               r == Cardinality(Held(queue'))
               t == Toll(Head(bus).reason = "threshold")
    <3>1. b \in Nat /\ c \in Nat /\ q \in Nat /\ t \in {0, 1} /\ b = c + t /\ r = q + t
      BY <1>N, <2>4, <2>5
    <3>2. tally.sent = tally.decided + b + q + InMark
      BY DEF LetterInvariant, Accounted
    <3> HIDE DEF b, c, q, r, t
    <3>3. tally.sent = tally.decided + c + r + InMark
      BY <1>N, <3>1, <3>2
    <3> QED
      BY <2>1, <2>2, <3>3 DEF Accounted, c, r
  <2> QED
    BY <1>1, <1>N, <2>1, <2>2, <2>6 DEF LetterInvariant
<1>3. CASE Take
  <2>1. /\ UNCHANGED <<bus, tally, marks, letters>> /\ queue # <<>> /\ queue' = Tail(queue)
        /\ recorder.pc = "idle"
    BY <1>3 DEF Take, transportVars, RecorderAt
  <2>2. UNCHANGED Marked /\ InMark = 0 /\ InLetter = 0
    BY <2>1 DEF InMark, InLetter, Marked, RecorderAt, Toll
  <2>3. InLetter' = 0 /\ InMark' = Toll(Head(queue).reason = "threshold")
    BY <1>3 DEF Take, InMark, InLetter, RecorderAt, Reason, Toll, DeadLettered
  <2>4. Cardinality(Held(queue)) = Cardinality(Held(queue')) + Toll(Head(queue).reason = "threshold")
    BY <1>0, <2>1, HeldTail
  <2>5. Cardinality(Held(queue')) \in Nat /\ Toll(Head(queue).reason = "threshold") \in {0, 1}
    <3>1. queue' \in Seq(Notices)
      BY <1>0, <2>1
    <3> QED
      BY <3>1, HeldNat DEF Toll
  <2> QED
    BY <1>1, <1>N, <2>1, <2>2, <2>3, <2>4, <2>5 DEF LetterInvariant, Accounted
<1>4. CASE Mark
  <2>1. /\ UNCHANGED <<bus, queue, letters>> /\ recorder.pc = "mark" /\ recorder.notice \in Notices
        /\ recorder'.pc \in {"look", "letter"} /\ recorder'.notice = recorder.notice
    BY <1>0, <1>4 DEF Mark, Step, Recorders, RecorderAt, InHand
  <2>2. InLetter = 0 /\ InMark' = 0 /\ InMark = Toll(Reason = "threshold")
    BY <2>1 DEF InMark, InLetter, RecorderAt, Toll
  <2>3. CASE Reason # "threshold"
    <3>1. tally' = tally /\ marks'["threshold"] = marks["threshold"]
      BY <1>0, <1>4, <2>3 DEF Mark, Decided, Typed, Tallies, Reasons
    <3>2. InMark = 0 /\ InLetter' = 0 /\ Marked' = Marked
      BY <2>1, <2>2, <2>3, <3>1 DEF InLetter, Marked, Toll, Reason
    <3> QED
      BY <1>1, <1>N, <2>1, <2>2, <3>1, <3>2 DEF LetterInvariant, Accounted
  <2>4. CASE Reason = "threshold"
    <3>1. /\ tally'.decided = tally.decided + 1 /\ tally'.sent = tally.sent /\ tally'.lost = tally.lost
      BY <1>0, <1>4, <2>4 DEF Mark, Decided, Typed, Tallies
    <3>2. recorder.notice.print # "none" /\ InMark = 1
      BY <2>1, <2>2, <2>4 DEF Notices, Phases, Toll
    <3>3. \/ Marked = 1 /\ Marked' = 1 /\ InLetter' = 0
          \/ Marked' = 1 /\ InLetter' = 1
      <4>1. CASE marks[Reason] = recorder.notice.print /\ Step("look") /\ UNCHANGED marks
        BY <1>0, <2>4, <3>2, <4>1 DEF Marked, InLetter, Step, RecorderAt, Recorders, Toll
      <4>2. CASE marks' = [marks EXCEPT ![Reason] = recorder.notice.print] /\ Step("letter")
        <5>1. marks'["threshold"] = recorder.notice.print
          BY <1>0, <2>4, <4>2 DEF Typed, Reasons
        <5> QED
          BY <1>0, <2>1, <2>4, <3>2, <4>2, <5>1 DEF Marked, InLetter, Step, RecorderAt, Recorders, Reason, Toll
      <4> QED
        BY <1>4, <4>1, <4>2 DEF Mark
    <3>4. UNCHANGED <<Cardinality(Held(bus)), Cardinality(Held(queue)), letters["threshold"]>>
      BY <2>1
    <3>5. Accounted'
      BY <1>N, <2>2, <3>1, <3>2, <3>4 DEF LetterInvariant, Accounted
    <3> QED
      BY <1>1, <1>N, <2>2, <3>1, <3>2, <3>3, <3>4, <3>5 DEF LetterInvariant, Accounted
  <2> QED
    BY <2>3, <2>4
<1>5. CASE InsertLetter
  <2>1. /\ UNCHANGED <<bus, queue, marks>> /\ recorder.pc = "letter" /\ recorder'.pc = "look"
        /\ Reason \in DeadLettered
    BY <1>0, <1>5 DEF InsertLetter, Step, Recorders, RecorderAt, InHand
  <2>2. /\ InMark = 0 /\ InMark' = 0 /\ InLetter' = 0 /\ InLetter = Toll(Reason = "threshold")
        /\ Marked' = Marked
    BY <2>1 DEF InMark, InLetter, Marked, RecorderAt, Toll
  <2>3. /\ tally'.sent = tally.sent /\ tally'.decided = tally.decided
        /\ \/ /\ letters'["threshold"] = letters["threshold"] + InLetter /\ tally'.lost = tally.lost
           \/ /\ letters'["threshold"] = letters["threshold"] /\ tally'.lost = tally.lost + InLetter
    BY <1>0, <1>5, <2>1, <2>2 DEF InsertLetter, Typed, Tallies, OfficeTyped, DeadLettered, Toll
  <2>4. UNCHANGED <<Cardinality(Held(bus)), Cardinality(Held(queue))>>
    BY <2>1
  <2> QED
    BY <1>1, <1>N, <2>2, <2>3, <2>4 DEF LetterInvariant, Accounted
<1>6. CASE Look \/ Escalate
  <2>1. /\ UNCHANGED <<bus, queue, marks, tally, letters>>
        /\ recorder.pc \in {"look", "write"} /\ recorder'.pc \in {"write", "idle"}
    <3>1. CASE Look
      BY <1>0, <3>1 DEF Look, Step, RecorderAt, Recorders
    <3>2. CASE Escalate
      BY <1>0, <3>2 DEF Escalate, Rest, RecorderAt, Recorders
    <3> QED
      BY <1>6, <3>1, <3>2
  <2>2. InMark = 0 /\ InMark' = 0 /\ InLetter = 0 /\ InLetter' = 0 /\ Marked' = Marked
    BY <2>1 DEF InMark, InLetter, Marked, RecorderAt, Toll
  <2>3. UNCHANGED <<Cardinality(Held(bus)), Cardinality(Held(queue))>>
    BY <2>1
  <2> QED
    BY <1>1, <1>N, <2>1, <2>2, <2>3 DEF LetterInvariant, Accounted
<1> QED
  BY <1>2, <1>3, <1>4, <1>5, <1>6 DEF Record

LEMMA LetterInit == Init => LetterInvariant
<1> SUFFICES ASSUME Init PROVE LetterInvariant
  OBVIOUS
<1>1. Cardinality(Held(bus)) = 0 /\ Cardinality(Held(queue)) = 0
  <2>1. bus = <<>> /\ queue = <<>> /\ Held(<<>>) = {} /\ Cardinality({}) = 0
    BY FS_EmptySet DEF Init, TransportInit, Held
  <2> QED
    BY <2>1
<1>2. /\ tally.sent = 0 /\ tally.decided = 0 /\ tally.lost = 0 /\ letters["threshold"] = 0
      /\ InMark = 0 /\ InLetter = 0 /\ Marked = 0 /\ Outage = 0
  BY DEF Init, TransportInit, InMark, InLetter, Marked, Outage, Toll, RecorderAt, DeadLettered, Reasons
<1> QED
  BY <1>1, <1>2 DEF LetterInvariant, Accounted

\* However slow the worker is, an outage that passes the retry threshold leaves one dead letter, but
\* for a notice counted as lost: one that found no room, whose INSERT failed, or that the worker had
\* not decided on when the transport came up (runTransport, recordTransportDeadLetter).
THEOREM OneLetter == Spec => []OneLetterPerOutage
<1>1. TypeInvariant /\ LetterInvariant /\ [Next]_vars => LetterInvariant'
  <2> SUFFICES ASSUME TypeInvariant, LetterInvariant, [Next]_vars PROVE LetterInvariant'
    OBVIOUS
  <2>1. CASE \/ UNCHANGED vars
             \/ \E o \in Operators : Save(o) \/ \E op \in Operations, id \in Causes : Begin(o, op, id)
    <3>1. UNCHANGED <<loop, bus, marks, tally, queue, recorder, letters>>
      BY <2>1 DEF Save, Begin, vars, transportVars, incidentVars
    <3>2. UNCHANGED <<InMark, InLetter, Marked, Outage, Cardinality(Held(bus)), Cardinality(Held(queue))>>
      BY <3>1 DEF InMark, InLetter, Marked, Outage, RecorderAt, Reason
    <3> QED
      BY <3>1, <3>2 DEF LetterInvariant, Accounted
  <2> QED
    BY <2>1, LetterTransport, LetterRecord DEF Next
<1>2. TypeInvariant /\ LetterInvariant => OneLetterPerOutage
  <2> SUFFICES ASSUME TypeInvariant, LetterInvariant PROVE OneLetterPerOutage
    OBVIOUS
  <2>1. letters["threshold"] \in Nat /\ tally.decided \in Nat /\ tally.lost \in Nat /\ InLetter \in {0, 1}
    BY LetterNumbers DEF TypeInvariant
  <2>2. InLetter = IF RecorderAt("letter") /\ Reason = "threshold" THEN 1 ELSE 0
    BY DEF InLetter, Toll
  <2> HIDE DEF InLetter
  <2> QED
    BY <2>1, <2>2 DEF LetterInvariant, OneLetterPerOutage
<1> QED
  BY <1>1, <1>2, LetterInit, InitTypes, StepTypes, PTL DEF Spec
=============================================================================
