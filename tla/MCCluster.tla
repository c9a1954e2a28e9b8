----------------------------- MODULE MCCluster -----------------------------
(* Bounds and symmetry for model checking Cluster. *)
EXTENDS Cluster, TLC

Limits(inc, callbacks, gone, informants, tell) ==
  [inc |-> inc, flight |-> 1, callbacks |-> callbacks, misses |-> 1, gone |-> gone,
   informants |-> informants, news |-> 1, tell |-> tell]

\* One node tells of suspicions, so that their subjects refute them.
Refuting == {Limits(1, 1, 0, {n}, {"Suspected"}) : n \in Nodes}

\* One node tells of whom it took for Failed or Alive, and one leaves or crashes.
Departing == {Limits(0, 1, 1, {n}, {"Alive", "Failed"}) : n \in Nodes}

\* Two callbacks wait at once.
Overtaking == {Limits(0, 2, 0, {}, {})}

\* Two messages are under way at once.
Reordering == {[Limits(0, 1, 0, {}, {}) EXCEPT !.flight = 2]}

ClusterBounds == Refuting \cup Departing \cup Overtaking \cup Reordering

Symmetry == Permutations(Nodes)

=============================================================================
