---------------------------- MODULE Replication -----------------------------
(***************************************************************************)
(* What federation promises, without logs, positions or messages: an event *)
(* is recorded once at the node it happens on, and from there it spreads   *)
(* one hop at a time, only from a peer the receiver lets write to it and   *)
(* that does not distrust it, and only within the scope that either has    *)
(* declared for the other.                                                 *)
(***************************************************************************)
CONSTANTS
  Nodes,   \* MEL instances
  Events,  \* event ids
  Home,    \* Home[e]: the node on which e happens
  Peers,   \* Peers[n]: the nodes n is configured with and trusts (trust_level >= 1)
  Untrusted, \* Untrusted[n]: those it is configured with and does not trust
  ReadOnly,  \* ReadOnly[n]: those of Peers[n] it holds at trust_level 1
  Wanted   \* Wanted[n][p]: the events in the sync scope n has for p, ExcludeTypes
           \* taken away; for a peer that registered itself, the default scope

VARIABLE known  \* known[n]: the events that were ever recorded in n's log

Init == known = [n \in Nodes |-> {}]

(* Whether n may take e from p: level 1 is read-only, a peer that may      *)
(* receive and not write, and a scope is of what goes to and from a peer.  *)
MayTake(n, p, e) ==
  /\ p \in Peers[n] \ ReadOnly[n] /\ n \notin Untrusted[p]
  /\ e \in Wanted[n][p] \cap Wanted[p][n]

Record(n, e) == e \notin known[n] /\ known' = [known EXCEPT ![n] = @ \cup {e}]

Happen(n, e) == Home[e] = n /\ (\A p \in Nodes : e \notin known[p]) /\ Record(n, e)

Spread(n, p, e) == e \in known[p] /\ MayTake(n, p, e) /\ Record(n, e)

Next == \E n \in Nodes, e \in Events : Happen(n, e) \/ \E p \in Nodes : Spread(n, p, e)

Spec == Init /\ [][Next]_known
=============================================================================
