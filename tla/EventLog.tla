------------------------------ MODULE EventLog ------------------------------
(***************************************************************************)
(* The event log of internal/eventlog/eventlog.go as a value: the rows of  *)
(* kernel_event_log and the counter that numbers them.                     *)
(*                                                                         *)
(*    last   Log.sequenceNum, the number given out most recently;          *)
(*    rows   the table, of which only event_id and sequence_num matter.    *)
(*                                                                         *)
(* The counter lives in memory and the rows on disk.  A number is consumed *)
(* before its INSERT runs and is not given back when the INSERT fails, so  *)
(* the rows have gaps, and the counter may be ahead of every row.          *)
(*                                                                         *)
(* AppendBatch is not modelled: nothing in the program calls it.  A name   *)
(* that ends in Bug is the mutated form of the operator that follows it.   *)
(***************************************************************************)
EXTENDS Naturals, FiniteSets

EmptyLog == [last |-> 0, rows |-> {}]

Ids(rows) == {r.id : r \in rows}

Numbers(rows) == {r.seq : r \in rows}

(* The greatest number in a table, 0 for an empty one: SELECT MAX(...).     *)
TopNumber(rows) ==
  IF rows = {} THEN 0 ELSE CHOOSE s \in Numbers(rows) : \A t \in Numbers(rows) : t <= s

(* The row that comes first in ORDER BY sequence_num ASC.                  *)
FirstRow(rows) == CHOOSE r \in rows : \A s \in rows : r.seq <= s.seq

(* Append, first half: the number is taken under Log.mu.                   *)
Reserve(l) == [l EXCEPT !.last = @ + 1]

AcceptsBug(l, e, s) == s \notin Numbers(l.rows)

(* Append, second half: event_id is the primary key, sequence_num UNIQUE.  *)
Accepts(l, e, s) == e \notin Ids(l.rows) /\ s \notin Numbers(l.rows)

Store(l, e, s) == [l EXCEPT !.rows = @ \cup {[seq |-> s, id |-> e]}]

(* Query with AfterSequence and Limit: the first n rows beyond a position. *)
Page(l, after, n) ==
  {r \in l.rows : r.seq > after /\ Cardinality({s \in l.rows : after < s.seq /\ s.seq < r.seq}) < n}

(* Compact: old rows go, unless their number is among the last keep.       *)
KeepFromBug(l, keep) == l.last

KeepFrom(l, keep) == IF l.last > keep THEN l.last - keep ELSE 0

Compacted(l, old, keep) ==
  [l EXCEPT !.rows = {r \in @ : r.id \notin old \/ r.seq >= KeepFrom(l, keep)}]

ReopenedBug(l) == [l EXCEPT !.last = Cardinality(l.rows)]

(* Open: the counter of a new process is read back from the rows.          *)
Reopened(l) == [l EXCEPT !.last = TopNumber(l.rows)]
=============================================================================
