----------------------------- MODULE MCSwitches -----------------------------
(* Instances of Switches for TLC. *)
EXTENDS Switches, TLC

El(type, on) == [type |-> type, on |-> on]

\* Both relays on, after an element for a relay the board does not have.
MCCommands == {<<El(25, TRUE), El(24, TRUE), El(23, TRUE)>>}

AtWork == {a \in Actors : pc[a] # "idle"}

\* Bound: what more than three edges and tasks at once make is not explored, nor
\* what a third task makes while a channel is disturbed, nor what a second one
\* makes while both are.
Crowd ==
  /\ Cardinality(edges) + Cardinality(AtWork) <= 3
  /\ disturbed # {} => Cardinality(AtWork) <= 2
  /\ disturbed = Channels => Cardinality(edges) + Cardinality(AtWork) <= 1

Symmetry == Permutations(ToggleTasks)
=============================================================================
