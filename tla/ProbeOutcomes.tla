--------------------------- MODULE ProbeOutcomes ---------------------------
(***************************************************************************)
(* What the protocol periods of detectors/pingack.go promise, without the  *)
(* messages: a period ends well only if the process it probes has answered *)
(* a ping with the number of the period.                                   *)
(***************************************************************************)
EXTENDS Naturals

CONSTANTS
  Nodes,   \* the addresses
  Ids,     \* the processes, <<address, life>>
  Seqs,    \* the sequence numbers
  None     \* no target

VARIABLES
  probe,   \* per address: the running period or the verdict of the last one
  answers  \* <<i, s>>: process i has answered a ping numbered s

vars == <<probe, answers>>

Rest(verdict) == [stage |-> verdict, target |-> None, seq |-> 0]

Running(n) == probe[n].stage = "running"

Init ==
  /\ probe = [n \in Nodes |-> Rest("idle")]
  /\ answers = {}

Begin(n) ==
  /\ ~Running(n) /\ Running(n)'
  /\ \E t \in Ids, s \in Seqs :
       probe' = [probe EXCEPT ![n] = [stage |-> "running", target |-> t, seq |-> s]]
  /\ UNCHANGED answers

\* Answers are never taken back.
Answer ==
  /\ UNCHANGED probe
  /\ answers \subseteq answers' /\ answers' \subseteq Ids \X Seqs

EndAcked(n) ==
  /\ Running(n)
  /\ <<probe[n].target, probe[n].seq>> \in answers
  /\ probe' = [probe EXCEPT ![n] = Rest("acked")]
  /\ UNCHANGED answers

EndSilent(n) ==
  /\ Running(n)
  /\ probe' = [probe EXCEPT ![n] = Rest("silent")]
  /\ UNCHANGED answers

\* The process at n dies, and its period with it.
Die(n) ==
  /\ probe' = [probe EXCEPT ![n] = Rest("idle")]
  /\ UNCHANGED answers

Next ==
  \/ Answer
  \/ \E n \in Nodes : Begin(n) \/ EndAcked(n) \/ EndSilent(n) \/ Die(n)

Spec == Init /\ [][Next]_vars

=============================================================================
