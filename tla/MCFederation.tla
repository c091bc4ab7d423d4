---------------------------- MODULE MCFederation ----------------------------
(***************************************************************************)
(* Small instances of Federation for TLC.                                  *)
(***************************************************************************)
EXTENDS Federation, TLC

CONSTANTS n1, n2, n3, e1, e2, e3, bus1, bus2, bus3, push1, push2, tick1, tick2, tick3

(* Two nodes, and two events on n2, which asks n1 for nothing (and has no    *)
(* pullers).  No distrust, and nobody read-only.                           *)
Pair == {n1, n2}
PairPeers == n1 :> {n2} @@ n2 :> {n1}
ScopeHome == e2 :> n2 @@ e3 :> n2
NoPeers == [n \in Nodes |-> {}]
OneWay == [n \in Nodes |-> [p \in Nodes |-> IF n = n1 THEN Events ELSE {}]]

(* Where the goroutines run, by the digit in their names.                  *)
Placed ==
  [g \in Goroutines |-> IF g \in {bus1, push1, tick1} THEN n1
                        ELSE IF g \in {bus2, push2, tick2} THEN n2 ELSE n3]

(* Two nodes that sync n2's event only, which n2 gets back; and n3, which  *)
(* asks n1 and is not trusted.                                             *)
Trio == {n1, n2, n3}
EchoHome == e1 :> n1 @@ e2 :> n2
EchoPeers == n1 :> {n2} @@ n2 :> {n1} @@ n3 :> {n1}
EchoUntrusted == n1 :> {n3} @@ n2 :> {} @@ n3 :> {}
EchoWanted == [n \in Nodes |-> [p \in Nodes |-> IF n3 \in {n, p} THEN Events ELSE {e2}]]
=============================================================================
