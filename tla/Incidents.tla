----------------------------- MODULE Incidents -----------------------------
(***************************************************************************)
(* What becomes of a transport's notices: the consumer of the event bus,   *)
(* the observation worker that writes dead letters and incidents, and the  *)
(* operators who work on the incidents over HTTP and the CLI.              *)
(*                                                                         *)
(* Sources: internal/service/app.go (consumeTransportEvents,               *)
(* observationWorker, recordTransportDeadLetter, escalateToIncident),      *)
(* internal/web/web.go, internal/service/incident_collab.go,               *)
(* incident_moat.go, runbook_review.go, internal/db/db.go.                 *)
(*                                                                         *)
(* Nobody holds a lock over an incident: the worker and every operator     *)
(* read a row, and write the whole row back in a later step.               *)
(***************************************************************************)
EXTENDS Transport

CONSTANTS
    QueueSize,    \* capacity of observationCh, and the notice its sender blocks with
    Operators,    \* requests of operators in progress at a time
    MaxSuffix     \* bound of the model: incidents of one cause after the first

ASSUME IncidentsAssumption == QueueSize \in Nat \ {0} /\ MaxSuffix \in Nat

VARIABLES
    queue,        \* notices in observationCh
    recorder,     \* the observation worker: where it is, its notice, the incident it will write
    letters,      \* dead letters for each reason
    incidents,    \* the table: a cause's first incident is 0, the later ones have a suffix
    desk,         \* what each operator is doing, and the row read for it
    settled       \* causes whose first incident was resolved at some time

incidentVars == <<queue, recorder, letters, incidents, desk, settled>>
vars == <<transportVars, incidentVars>>

Causes == Reasons \X (0 .. MaxSuffix)

\* The columns an operator works on: the workflow state, the owner and the notes.
IncidentRows == [state : {"open", "acknowledged", "escalated", "resolved"},
                 owned : BOOLEAN, noted : BOOLEAN]
NoRow == [state |-> "absent"]

Operations == {"acknowledge", "escalate", "resolve", "handoff", "patch", "runbook"}

NoNotice == [reason |-> "none", print |-> "none"]

IncidentsTypeOK ==
    /\ TransportTypeOK
    /\ queue \in Seq(Notices) /\ Len(queue) <= QueueSize
    /\ recorder \in [pc : {"idle", "mark", "letter", "look", "write"},
                     notice : Notices \cup {NoNotice}, suffix : 0 .. MaxSuffix]
    /\ letters \in [DeadLettered -> Nat]
    /\ incidents \in [Causes -> IncidentRows \cup {NoRow}]
    /\ desk \in [Operators -> [op : Operations \cup {"none"}, id : Causes,
                               row : IncidentRows \cup {NoRow}]]
    /\ settled \subseteq Reasons

AtNoDesk == [op |-> "none", id |-> <<"stream", 0>>, row |-> NoRow]

Init ==
    /\ TransportInit
    /\ queue = <<>>
    /\ recorder = [pc |-> "idle", notice |-> NoNotice, suffix |-> 0]
    /\ letters = [r \in DeadLettered |-> 0]
    /\ incidents = [c \in Causes |-> NoRow]
    /\ desk = [o \in Operators |-> AtNoDesk]
    /\ settled = {}

-----------------------------------------------------------------------------
(* The bus's consumer and the observation worker.                           *)

\* The consumer blocks until the worker's queue has room.
ConsumeBug ==
    /\ bus # <<>>
    /\ bus' = Tail(bus) /\ queue' = Append(queue, Head(bus))
    /\ UNCHANGED <<loop, rw, open, health, exec, token, waiting, worker, marks, tally, budget>>
    /\ UNCHANGED <<recorder, letters, incidents, desk, settled>>

Consume ==
    /\ bus # <<>> /\ Len(queue) < QueueSize
    /\ bus' = Tail(bus) /\ queue' = Append(queue, Head(bus))
    /\ UNCHANGED <<loop, rw, open, health, exec, token, waiting, worker, marks, tally, budget>>
    /\ UNCHANGED <<recorder, letters, incidents, desk, settled>>

RecorderAt(pc) == recorder.pc = pc
Reason == recorder.notice.reason
Step(pc) == recorder' = [recorder EXCEPT !.pc = pc]
Rest == recorder' = [pc |-> "idle", notice |-> NoNotice, suffix |-> 0]

Take ==
    /\ RecorderAt("idle") /\ queue # <<>>
    /\ LET n == Head(queue)
       IN  recorder' = [pc |-> IF n.reason \in DeadLettered THEN "mark" ELSE "look",
                        notice |-> n, suffix |-> 0]
    /\ queue' = Tail(queue)
    /\ UNCHANGED transportVars
    /\ UNCHANGED <<letters, incidents, desk, settled>>

\* The first part of recordTransportDeadLetter, under dlMu: the same again, within the suppression
\* window, is not recorded; and the mark is there before the letter is.
Decided == [tally EXCEPT !.decided = @ + IF Reason = "threshold" THEN 1 ELSE 0]

Mark ==
    /\ RecorderAt("mark")
    /\ \/ /\ marks[Reason] = recorder.notice.print
          /\ Step("look")
          /\ UNCHANGED marks
       \/ /\ marks' = [marks EXCEPT ![Reason] = recorder.notice.print]
          /\ Step("letter")
    /\ tally' = Decided
    /\ UNCHANGED <<loop, rw, open, health, exec, token, waiting, worker, bus, budget>>
    /\ UNCHANGED <<queue, letters, incidents, desk, settled>>

InsertLetter ==
    /\ RecorderAt("letter")
    /\ \/ letters' = [letters EXCEPT ![Reason] = @ + 1] /\ UNCHANGED <<tally, budget>>
       \/ /\ Spend("faults")
          /\ tally' = [tally EXCEPT !.lost = @ + IF Reason = "threshold" THEN 1 ELSE 0]
          /\ UNCHANGED letters
    /\ Step("look")
    /\ UNCHANGED <<loop, rw, open, health, exec, token, waiting, worker, bus, marks>>
    /\ UNCHANGED <<queue, incidents, desk, settled>>

\* escalateToIncident looks at the cause's first incident only.  Once that is resolved it writes
\* one named for the second it is: that of the last, or a new one.  An error reads as no incident.
StartsAnewBug(row) == row.state \notin {"absent", "open"}

StartsAnew(row) == row.state = "resolved"

Later(r) == {k \in 1 .. MaxSuffix : \A j \in 1 .. k - 1 : incidents[<<r, j>>] # NoRow}
Seconds(r) == {k \in Later(r) : k + 1 \notin Later(r) \/ incidents[<<r, k + 1>>] = NoRow}

Look ==
    /\ RecorderAt("look")
    /\ \/ /\ ~StartsAnew(incidents[<<Reason, 0>>])
          /\ Step("write")
          /\ UNCHANGED budget
       \/ /\ StartsAnew(incidents[<<Reason, 0>>])
          /\ \E k \in Seconds(Reason) : recorder' = [recorder EXCEPT !.pc = "write", !.suffix = k]
          /\ UNCHANGED budget
       \/ Step("write") /\ Spend("faults")
    /\ UNCHANGED <<loop, rw, open, health, exec, token, waiting, worker, bus, marks, tally>>
    /\ UNCHANGED <<queue, letters, incidents, desk, settled>>

\* UpsertIncident replaces every column: what operators wrote on the row is gone.
Escalate ==
    /\ RecorderAt("write")
    /\ \/ /\ incidents' = [incidents EXCEPT ![<<Reason, recorder.suffix>>] =
                              [state |-> "open", owned |-> FALSE, noted |-> FALSE]]
          /\ UNCHANGED budget
       \/ Spend("faults") /\ UNCHANGED incidents
    /\ Rest
    /\ UNCHANGED <<loop, rw, open, health, exec, token, waiting, worker, bus, marks, tally>>
    /\ UNCHANGED <<queue, letters, desk, settled>>

-----------------------------------------------------------------------------
(* Operators.                                                               *)

Begin(o, op, id) ==
    /\ desk[o].op = "none" /\ incidents[id] # NoRow
    /\ Spend("requests")
    /\ desk' = [desk EXCEPT ![o] = [op |-> op, id |-> id, row |-> incidents[id]]]
    /\ UNCHANGED <<loop, rw, open, health, exec, token, waiting, worker, bus, marks, tally>>
    /\ UNCHANGED <<queue, recorder, letters, incidents, settled>>

\* What an operation changes of the row it read; attaching a runbook only writes it back.
Worked(op, row) ==
    CASE op = "acknowledge" -> [row EXCEPT !.state = "acknowledged"]
      [] op = "escalate"    -> [row EXCEPT !.state = "escalated"]
      [] op = "resolve"     -> [row EXCEPT !.state = "resolved"]
      [] op = "handoff"     -> [row EXCEPT !.owned = TRUE]
      [] op = "patch"       -> [row EXCEPT !.noted = TRUE]
      [] op = "runbook"     -> row

Save(o) ==
    /\ desk[o].op # "none"
    /\ \/ /\ incidents' = [incidents EXCEPT ![desk[o].id] = Worked(desk[o].op, desk[o].row)]
          /\ settled' = IF incidents'[desk[o].id].state = "resolved" /\ desk[o].id[2] = 0
                        THEN settled \cup {desk[o].id[1]} ELSE settled
          /\ UNCHANGED budget
       \/ Spend("faults") /\ UNCHANGED <<incidents, settled>>
    /\ desk' = [desk EXCEPT ![o] = AtNoDesk]
    /\ UNCHANGED <<loop, rw, open, health, exec, token, waiting, worker, bus, marks, tally>>
    /\ UNCHANGED <<queue, recorder, letters>>

-----------------------------------------------------------------------------
Record == Take \/ Mark \/ InsertLetter \/ Look \/ Escalate

Next ==
    \/ TransportNext /\ UNCHANGED incidentVars
    \/ Consume
    \/ Record
    \/ \E o \in Operators : Save(o) \/ \E op \in Operations, id \in Causes : Begin(o, op, id)

Spec == Init /\ [][Next]_vars

\* The goroutines run: the loop goes on when it can, a read of a closed connection returns, a
\* restart that began ends.  Nothing says that a dial succeeds or that a peer ever sends.
FairSpec ==
    /\ Spec
    /\ WF_vars((Attempt \/ Connect \/ Read \/ Disconnect) /\ UNCHANGED incidentVars)
    /\ WF_vars(loop.conn \notin open /\ ReadFails /\ UNCHANGED incidentVars)
    /\ WF_vars(Restarting /\ UNCHANGED incidentVars)

-----------------------------------------------------------------------------
(* Properties.                                                              *)

\* An outage that passes the retry threshold leaves one dead letter.  It leaves none when the bus
\* had no room for its notice, when the INSERT failed, and when the transport came up before the
\* worker had decided on the notice of the outage before: then the mark outlives its clearing
\* (runTransport's clearDeadLetterEpisode, recordTransportDeadLetter).
OneLetterPerOutage ==
    /\ letters["threshold"] <= tally.decided
    /\ tally.decided <= letters["threshold"] + tally.lost
                            + IF RecorderAt("letter") /\ Reason = "threshold" THEN 1 ELSE 0

\* However the worker and the operators meet, a cause has one incident until that one was resolved
\* (escalateToIncident, resolveIncident).
OneUntilResolved ==
    \A r \in Reasons, k \in 1 .. MaxSuffix : incidents[<<r, k>>] # NoRow => r \in settled

\* Ownership that was handed over, and notes that were written, are not undone by the worker
\* (incident_collab.go, PatchIncidentWorkflow).
HandoffDurable ==
    [][Escalate => \A c \in Causes :
          incidents[c] # NoRow => /\ incidents[c].owned => incidents'[c].owned
                                  /\ incidents[c].noted => incidents'[c].noted]_vars
=============================================================================
