--------------------------- MODULE MCDetectorNode ---------------------------
(* Values of AddressOf for model checking DetectorNode. *)
EXTENDS DetectorNode

\* Every node on a host of its own.
OwnAddress == [n \in Nodes |-> n]

=============================================================================
