------------------------------ MODULE Members ------------------------------
(***************************************************************************)
(* The entries of a membership list (utils/types.go, utils/membership.go)  *)
(* and the rules by which the detectors merge evidence into one entry.     *)
(*                                                                         *)
(* Every operator below is the effect of one critical section of the       *)
(* membership lock on the entry of one node.  It takes the entry as it is  *)
(* and returns the entry as the section leaves it.  A node the list does   *)
(* not hold has the entry Absent.  The times kept in an entry              *)
(* (LastHeartbeat, SuspicionStart) are not part of it.                     *)
(***************************************************************************)
EXTENDS Integers

\* The values of MemberStatus.
Statuses == {"Alive", "Suspected", "Failed"}

\* An entry as the code sees it: status and incarnation, or nothing at all.
Rec(s, i) == [status |-> s, inc |-> i]
Absent    == Rec("Absent", 0)
Present(m) == m.status # "Absent"

Member(Incs) == {Absent} \cup [status : Statuses, inc : Incs]

-----------------------------------------------------------------------------
(* Merge rules, m the entry before, s and i the status and incarnation of  *)
(* the evidence.                                                           *)

\* Mutant of HeardFrom: a message of an older incarnation is not ignored.
HeardFromStale(m, i) == Rec("Alive", i)

\* Ping or Heartbeat from the node itself, and its Ack: an unknown sender is
\* added, a newer incarnation replaces, the same incarnation lifts a suspicion.
HeardFrom(m, i) ==
  IF ~Present(m) \/ i > m.inc \/ (i = m.inc /\ m.status = "Suspected")
  THEN Rec("Alive", i)
  ELSE m

\* A MemberUpdate piggybacked on a message, about a node the list holds.  At the
\* same incarnation Alive and Suspected replace each other, and Failed stays.
Learn(m, s, i) ==
  IF i > m.inc \/ (i = m.inc /\ {s, m.status} = {"Alive", "Suspected"})
  THEN Rec(s, i)
  ELSE m

\* Evidence of life that cannot add an entry but replaces any status of an entry
\* that is not newer: AliveMsg, IndirectAck and both branches of ClearSuspect.
Revive(m, i) == IF Present(m) /\ i >= m.inc THEN Rec("Alive", i) ELSE m

\* A Confirm message (gossip mode only).
Condemn(m, i) == IF Present(m) /\ i >= m.inc THEN Rec("Failed", i) ELSE m

\* The status alone changes, whatever the incarnation.
Mark(m, s) == IF Present(m) THEN Rec(s, m.inc) ELSE m

\* Status and incarnation are overwritten, whatever they were.
Overwrite(m, s, i) == IF Present(m) THEN Rec(s, i) ELSE m

-----------------------------------------------------------------------------
(* Incarnation numbers are int32.                                          *)

MaxInt32 == 2147483647
Next32(n) == IF n = MaxInt32 THEN -MaxInt32 - 1 ELSE n + 1

\* The incarnation a node gives itself when it learns it is suspected.
Refutation(own, claimed) == Next32(IF claimed >= own THEN claimed ELSE own)

=============================================================================
