----------------------------- MODULE Transport -----------------------------
(***************************************************************************)
(* One direct transport under supervision: the reconnect loop of           *)
(* runTransport with the socket's Connect, Subscribe and Close, the        *)
(* executor that restarts the transport, the ingest workers that mark what *)
(* they stored, and the event bus their notices go out on.                 *)
(*                                                                         *)
(* Sources: internal/service/app.go (runTransport, enqueueIngest, ingest), *)
(* internal/service/control.go (transportControlState, the restart of      *)
(* executeControlAction), internal/transport/direct.go,                    *)
(* internal/events/bus.go.                                                 *)
(*                                                                         *)
(* A step is one critical section of the transport's mutex, one channel    *)
(* operation, or one call that leaves the process.  Of Health, the model    *)
(* keeps what others decide by: State, whether a failure episode is open,  *)
(* ConsecutiveTimeouts, and whether TotalMessages is 0.                    *)
(***************************************************************************)
EXTENDS Naturals, Sequences, FiniteSets

CONSTANTS
    Threshold,    \* MaxTimeouts: read timeouts a connection has, failures until a notice
    Workers,      \* ingest workers
    IngestSize,   \* capacity of ingestCh
    BusSize,      \* capacity of the subscription to the bus
    MaxOpen,      \* bound of the model: connections that can be told apart
    Budgets       \* bounds of the model: how often things may happen, one mix per behaviour

None == 0

\* The notices that have an effect.  timeout_stall, malformed_frame and the like only make audit
\* entries; with transport.error and meshtastic.packet they share the subscription, so that BusSize
\* is the room they leave.
Reasons == {"threshold", "timeout", "stream", "reject"}

\* What ShouldDeadLetter keeps; the other reasons make an incident only, by their severity.
DeadLettered == {"threshold", "reject"}

ASSUME TransportAssumption ==
    /\ Threshold \in Nat \ {0}
    /\ IngestSize \in Nat /\ BusSize \in Nat /\ MaxOpen \in Nat
    /\ Budgets \subseteq [dials : Nat, packets : Nat, restarts : Nat, requests : Nat, faults : Nat]

VARIABLES
    loop,     \* runTransport: where it is, consecutiveFailures, thresholdRecorded, its connection
    rw,       \* Direct.rw: the connection the transport has, or None
    open,     \* connections not closed yet
    health,   \* Direct.health
    exec,     \* the executor in a restart, and the connection it took
    token,    \* interruptCh, of capacity one
    waiting,  \* packets in ingestCh
    worker,   \* what each ingest worker is at
    bus,      \* notices in the subscription of consumeTransportEvents
    marks,    \* dlEpisodes: the fingerprint last dead-lettered for a reason
    tally,    \* threshold notices sent, decided on by the observation worker, and lost on the way
    budget    \* what is left of the bounds

transportVars == <<loop, rw, open, health, exec, token, waiting, worker, bus, marks, tally, budget>>

Connections == 1 .. MaxOpen
Phases == {"connect", "subscribe"}
Notices == [reason : Reasons, print : Phases \cup {"socket"}]

\* "retrying" also stands for what Close leaves; by is who last wrote the state, and closedBy who
\* last closed the failure episode, which only the properties read.
UpStates == {"idle", "live"}
Writers == {"loop", "exec", "worker"}

LoopPcs == {"attempt", "dial", "attach", "announce", "up", "clear", "subscribe", "read", "timeout",
            "stalled", "frame", "accepted", "drop", "failed", "force", "judge", "close", "closing",
            "closed", "sleep"}

TransportTypeOK ==
    /\ loop \in [pc : LoopPcs, fails : Nat, told : BOOLEAN, conn : Connections \cup {None},
                 why : Phases, seen : BOOLEAN]
    /\ rw \in Connections \cup {None}
    /\ open \subseteq Connections
    /\ health \in [state : UpStates \cup {"configured", "connecting", "retrying", "failed"},
                   episode : BOOLEAN, timeouts : 0 .. Threshold, total : BOOLEAN,
                   by : Writers, closedBy : Writers]
    /\ exec \in [pc : {"idle", "closing", "closed", "interrupt"}, conn : Connections \cup {None}]
    /\ token \in BOOLEAN
    /\ waiting \in 0 .. IngestSize
    /\ worker \in [Workers -> [pc : {"idle", "stored", "marked", "drop"}, seen : BOOLEAN]]
    /\ bus \in Seq(Notices) /\ Len(bus) <= BusSize
    /\ marks \in [Reasons -> Phases \cup {"socket", "none"}]
    /\ tally \in [sent : Nat, decided : Nat, lost : Nat]
    /\ budget \in [dials : Nat, packets : Nat, restarts : Nat, requests : Nat, faults : Nat]

TransportInit ==
    /\ loop = [pc |-> "attempt", fails |-> 0, told |-> FALSE, conn |-> None, why |-> "connect",
               seen |-> FALSE]
    /\ rw = None
    /\ open = {}
    /\ health = [state |-> "configured", episode |-> FALSE, timeouts |-> 0, total |-> FALSE,
                 by |-> "loop", closedBy |-> "loop"]
    /\ exec = [pc |-> "idle", conn |-> None]
    /\ token = FALSE
    /\ waiting = 0
    /\ worker = [w \in Workers |-> [pc |-> "idle", seen |-> FALSE]]
    /\ bus = <<>>
    /\ marks = [r \in Reasons |-> "none"]
    /\ tally = [sent |-> 0, decided |-> 0, lost |-> 0]
    /\ budget \in Budgets

Spend(what) == budget[what] > 0 /\ budget' = [budget EXCEPT ![what] = @ - 1]

-----------------------------------------------------------------------------
(* Helpers: the bus, and the writes of the health record.                   *)

\* Publish never waits: a notice for which there is no slot is gone.
Publish(n) ==
    LET fits == Len(bus) < BusSize
        counts == n.reason = "threshold"
    IN  /\ bus' = IF fits THEN Append(bus, n) ELSE bus
        /\ tally' = IF ~counts THEN tally
                    ELSE IF fits THEN [tally EXCEPT !.sent = @ + 1]
                    ELSE [tally EXCEPT !.sent = @ + 1, !.decided = @ + 1, !.lost = @ + 1]

\* connectedState.
Connected(total) == IF total THEN "live" ELSE "idle"

State(s, who) == [health EXCEPT !.state = s, !.by = who]

\* Close in three steps: take the connection, say so (unless there was none), close it.
SayClosed(who) == health' = State("retrying", who)

LoopAt(pc) == loop.pc = pc
Goto(pc) == loop' = [loop EXCEPT !.pc = pc]

-----------------------------------------------------------------------------
(* The loop: Connect.                                                       *)

Attempt ==
    /\ LoopAt("attempt") /\ Spend("dials")
    /\ health' = State("connecting", "loop")
    /\ Goto("dial")
    /\ UNCHANGED <<rw, open, exec, token, waiting, worker, bus, marks, tally>>

DialFails ==
    /\ LoopAt("dial")
    /\ health' = State("retrying", "loop")
    /\ loop' = [loop EXCEPT !.pc = "failed", !.why = "connect"]
    /\ UNCHANGED <<rw, open, exec, token, waiting, worker, bus, marks, tally, budget>>

\* The dialler gives a connection no one else has; it may as well be the first of those.
InUse == open \cup {exec.conn}

Dial ==
    /\ LoopAt("dial")
    /\ \E c \in Connections \ InUse :
          /\ 1 .. c - 1 \subseteq InUse
          /\ open' = open \cup {c}
          /\ loop' = [loop EXCEPT !.pc = "attach", !.conn = c]
    /\ UNCHANGED <<rw, health, exec, token, waiting, worker, bus, marks, tally, budget>>

Attach ==
    /\ LoopAt("attach")
    /\ rw' = loop.conn
    /\ Goto("announce")
    /\ UNCHANGED <<open, health, exec, token, waiting, worker, bus, marks, tally, budget>>

Announce ==
    /\ LoopAt("announce")
    /\ health' = [State("idle", "loop") EXCEPT !.timeouts = 0]
    /\ Goto("up")
    /\ UNCHANGED <<rw, open, exec, token, waiting, worker, bus, marks, tally, budget>>

\* A connection is a success: the counters and the failure episode start anew ...
Up ==
    /\ LoopAt("up")
    /\ loop' = [loop EXCEPT !.pc = "clear", !.fails = 0, !.told = FALSE]
    /\ health' = [health EXCEPT !.episode = FALSE, !.closedBy = "loop"]
    /\ UNCHANGED <<rw, open, exec, token, waiting, worker, bus, marks, tally, budget>>

\* ... and so does dead-lettering, whether or not the last notice was looked at yet.
ClearedBug == marks

Cleared == [marks EXCEPT !["threshold"] = "none"]

Clear ==
    /\ LoopAt("clear")
    /\ marks' = Cleared
    /\ tally' = IF tally.decided < tally.sent THEN [tally EXCEPT !.lost = @ + 1] ELSE tally
    /\ Goto("subscribe")
    /\ UNCHANGED <<rw, open, health, exec, token, waiting, worker, bus, budget>>

-----------------------------------------------------------------------------
(* The loop: Subscribe.                                                     *)

Subscribe ==
    /\ LoopAt("subscribe")
    /\ loop' = [loop EXCEPT !.pc = IF rw = None THEN "failed" ELSE "read", !.conn = rw,
                            !.why = "subscribe"]
    /\ UNCHANGED <<rw, open, health, exec, token, waiting, worker, bus, marks, tally, budget>>

\* A read of an open connection returns: nothing for too long, a frame, or one that is dropped.
ReadReturns ==
    /\ LoopAt("read") /\ loop.conn \in open
    /\ \/ Goto("timeout") /\ UNCHANGED budget
       \/ Goto("frame") /\ Spend("packets")
       \/ /\ loop' = [loop EXCEPT !.pc = "drop", !.seen = health.total]
          /\ Spend("packets")
    /\ UNCHANGED <<rw, open, health, exec, token, waiting, worker, bus, marks, tally>>

\* markFailure.
Fail(state, reason) ==
    /\ health' = [State(state, "loop") EXCEPT !.episode = TRUE]
    /\ Publish([reason |-> reason, print |-> "socket"])
    /\ Goto("failed")
    /\ UNCHANGED <<rw, open, exec, token, waiting, worker, marks, budget>>

\* The peer hangs up, or somebody here has closed the connection.
ReadFailsBug == LoopAt("read") /\ UNCHANGED transportVars

ReadFails == LoopAt("read") /\ Fail("retrying", "stream")

Timeout ==
    /\ LoopAt("timeout")
    /\ health' = [State(Connected(health.total), "loop") EXCEPT !.timeouts = @ + 1]
    /\ Goto(IF health.timeouts + 1 >= Threshold THEN "stalled" ELSE "read")
    /\ UNCHANGED <<rw, open, exec, token, waiting, worker, bus, marks, tally, budget>>

Stalled == LoopAt("stalled") /\ Fail("failed", "timeout")

\* enqueueIngest never waits either; the caller reports and drops what it refuses.
Frame ==
    /\ LoopAt("frame")
    /\ IF waiting < IngestSize
       THEN waiting' = waiting + 1 /\ Goto("accepted") /\ UNCHANGED <<bus, tally>>
       ELSE /\ Publish([reason |-> "reject", print |-> "socket"])
            /\ loop' = [loop EXCEPT !.pc = "drop", !.seen = health.total]
            /\ UNCHANGED waiting
    /\ UNCHANGED <<rw, open, health, exec, token, worker, marks, budget>>

Accepted ==
    /\ LoopAt("accepted")
    /\ health' = IF health.total THEN [health EXCEPT !.timeouts = 0]
                 ELSE [State("idle", "loop") EXCEPT !.timeouts = 0]
    /\ Goto("read")
    /\ UNCHANGED <<rw, open, exec, token, waiting, worker, bus, marks, tally, budget>>

\* markDropWithState writes the state it worked out before.
Drop ==
    /\ LoopAt("drop")
    /\ health' = State(Connected(loop.seen), "loop")
    /\ Goto("read")
    /\ UNCHANGED <<rw, open, exec, token, waiting, worker, bus, marks, tally, budget>>

-----------------------------------------------------------------------------
(* The loop: after a failure.                                               *)

FailedBug ==
    /\ LoopAt("failed")
    /\ loop' = [loop EXCEPT !.pc = "force", !.fails = @ + 1]
    /\ UNCHANGED <<rw, open, health, exec, token, waiting, worker, bus, marks, tally, budget>>

Failed ==
    /\ LoopAt("failed")
    /\ loop' = [loop EXCEPT !.pc = "force", !.fails = @ + 1]
    /\ health' = [health EXCEPT !.episode = TRUE]
    /\ UNCHANGED <<rw, open, exec, token, waiting, worker, bus, marks, tally, budget>>

ForceState ==
    /\ LoopAt("force")
    /\ health' = State(IF loop.told THEN "failed" ELSE "retrying", "loop")
    /\ Goto("judge")
    /\ UNCHANGED <<rw, open, exec, token, waiting, worker, bus, marks, tally, budget>>

\* The first failure past the threshold is told; then it is asleep, or closes first.
Judge ==
    /\ LoopAt("judge")
    /\ LET tell == loop.fails >= Threshold /\ ~loop.told
       IN  /\ loop' = [loop EXCEPT !.pc = IF loop.why = "connect" THEN "sleep" ELSE "close",
                                   !.told = @ \/ tell]
           /\ IF tell
              THEN /\ health' = State("failed", "loop")
                   /\ Publish([reason |-> "threshold", print |-> loop.why])
              ELSE UNCHANGED <<health, bus, tally>>
    /\ UNCHANGED <<rw, open, exec, token, waiting, worker, marks, budget>>

CloseTake ==
    /\ LoopAt("close")
    /\ loop' = [loop EXCEPT !.pc = IF rw = None THEN "sleep" ELSE "closing", !.conn = rw]
    /\ rw' = None
    /\ UNCHANGED <<open, health, exec, token, waiting, worker, bus, marks, tally, budget>>

CloseSay ==
    /\ LoopAt("closing")
    /\ SayClosed("loop")
    /\ Goto("closed")
    /\ UNCHANGED <<rw, open, exec, token, waiting, worker, bus, marks, tally, budget>>

CloseDone ==
    /\ LoopAt("closed")
    /\ open' = open \ {loop.conn}
    /\ loop' = [loop EXCEPT !.pc = "sleep", !.conn = None]
    /\ UNCHANGED <<rw, health, exec, token, waiting, worker, bus, marks, tally, budget>>

\* sleepWithControl ends by its timer or by the interrupt of a restart, an old one included.
Sleep ==
    /\ LoopAt("sleep")
    /\ token' \in {FALSE, token}
    /\ loop' = [loop EXCEPT !.pc = "attempt"]
    /\ UNCHANGED <<rw, open, health, exec, waiting, worker, bus, marks, tally, budget>>

-----------------------------------------------------------------------------
(* The executor: restart_transport and resubscribe_transport.               *)

RestartTakeBug ==
    /\ exec.pc = "idle" /\ Spend("restarts")
    /\ exec' = [pc |-> IF rw = None THEN "interrupt" ELSE "closing", conn |-> rw]
    /\ UNCHANGED <<loop, rw, open, health, token, waiting, worker, bus, marks, tally>>

RestartTake ==
    /\ exec.pc = "idle" /\ Spend("restarts")
    /\ exec' = [pc |-> IF rw = None THEN "interrupt" ELSE "closing", conn |-> rw]
    /\ rw' = None
    /\ UNCHANGED <<loop, open, health, token, waiting, worker, bus, marks, tally>>

RestartSay ==
    /\ exec.pc = "closing"
    /\ SayClosed("exec")
    /\ exec' = [exec EXCEPT !.pc = "closed"]
    /\ UNCHANGED <<loop, rw, open, token, waiting, worker, bus, marks, tally, budget>>

RestartClose ==
    /\ exec.pc = "closed"
    /\ open' = open \ {exec.conn}
    /\ exec' = [pc |-> "interrupt", conn |-> None]
    /\ UNCHANGED <<loop, rw, health, token, waiting, worker, bus, marks, tally, budget>>

\* interrupt leaves a token, if there is none.
Interrupt ==
    /\ exec.pc = "interrupt"
    /\ token' = TRUE
    /\ exec' = [pc |-> "idle", conn |-> None]
    /\ UNCHANGED <<loop, rw, open, health, waiting, worker, bus, marks, tally, budget>>

-----------------------------------------------------------------------------
(* The ingest workers: ingest.                                              *)

WorkerAt(w, pc) == worker[w].pc = pc

\* A packet is stored; or it is a duplicate, suppressed, or cannot be parsed or written.
TakePacket(w) ==
    /\ WorkerAt(w, "idle") /\ waiting > 0
    /\ waiting' = waiting - 1
    /\ worker' \in {[worker EXCEPT ![w].pc = "stored"],
                    [worker EXCEPT ![w] = [pc |-> "drop", seen |-> health.total]]}
    /\ UNCHANGED <<loop, rw, open, health, exec, token, bus, marks, tally, budget>>

\* MarkIngest, two critical sections.
MarkIngest(w) ==
    /\ WorkerAt(w, "stored")
    /\ health' = [State("live", "worker") EXCEPT !.total = TRUE, !.timeouts = 0]
    /\ worker' = [worker EXCEPT ![w].pc = "marked"]
    /\ UNCHANGED <<loop, rw, open, exec, token, waiting, bus, marks, tally, budget>>

EndEpisode(w) ==
    /\ WorkerAt(w, "marked")
    /\ health' = [health EXCEPT !.episode = FALSE, !.closedBy = "worker"]
    /\ worker' = [worker EXCEPT ![w].pc = "idle"]
    /\ UNCHANGED <<loop, rw, open, exec, token, waiting, bus, marks, tally, budget>>

\* MarkDrop, and a notice if the packet is lost for good.
MarkDrop(w) ==
    /\ WorkerAt(w, "drop")
    /\ health' = State(Connected(worker[w].seen), "worker")
    /\ worker' = [worker EXCEPT ![w].pc = "idle"]
    /\ \/ Publish([reason |-> "reject", print |-> "socket"])
       \/ UNCHANGED <<bus, tally>>
    /\ UNCHANGED <<loop, rw, open, exec, token, waiting, marks, budget>>

-----------------------------------------------------------------------------
Disconnect ==
    \/ Failed \/ ForceState \/ Judge
    \/ CloseTake \/ CloseSay \/ CloseDone \/ Sleep

Read == Timeout \/ Stalled \/ Frame \/ Accepted \/ Drop

Connect == DialFails \/ Dial \/ Attach \/ Announce \/ Up \/ Clear \/ Subscribe

Restarting == RestartSay \/ RestartClose \/ Interrupt

TransportNext ==
    \/ Attempt \/ Connect
    \/ ReadReturns \/ ReadFails \/ Read
    \/ Disconnect
    \/ RestartTake \/ Restarting
    \/ \E w \in Workers : TakePacket(w) \/ MarkIngest(w) \/ EndEpisode(w) \/ MarkDrop(w)

-----------------------------------------------------------------------------
(* Properties.                                                              *)

\* Every open connection has exactly one who will close it: the transport, or the loop or the
\* executor in the middle of Connect or Close (Direct.Connect, Direct.Close).
LoopHolds == IF loop.pc \in {"attach", "closing", "closed"} THEN {loop.conn} ELSE {}
ExecHolds == IF exec.pc \in {"closing", "closed"} THEN {exec.conn} ELSE {}

NoConnectionLeaks == open = LoopHolds \cup ExecHolds \cup ({rw} \ {None})

\* While the loop waits to retry, the transport's state says so, and a failure episode is open,
\* unless a packet of the lost connection was marked after the loss; and a transport that reads
\* an open connection is said to be up, unless the restart of an earlier connection spoke last.
HealthTruthful ==
    /\ LoopAt("sleep") /\ health.state \in UpStates => health.by = "worker"
    /\ LoopAt("sleep") /\ ~health.episode => health.closedBy = "worker"
    /\ LoopAt("read") /\ loop.conn \in open /\ health.state \notin UpStates => health.by = "exec"

\* Whatever restarts and workers do in between, a loop whose connection is closed under it dials
\* again (runTransport, sleepWithControl).
Redials == LoopAt("read") /\ loop.conn \notin open ~> LoopAt("attempt")
=============================================================================
