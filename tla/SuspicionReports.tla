-------------------------- MODULE SuspicionReports --------------------------
(***************************************************************************)
(* The suspicion manager with a history of the reports it was given, to    *)
(* say what an escalation rests on.  The history takes no part in the      *)
(* manager's steps.                                                        *)
(***************************************************************************)
EXTENDS Suspicion

VARIABLE reports   \* the reports ProcessSuspicion was called with

Report == [reporter : Reporters, target : Nodes, inc : Incs]

ReportInit == Init /\ reports = {}

ReportNext ==
  \/ \E c \in Callers, r \in Reporters, t \in Nodes \cup {LocalNode}, i \in Incs :
       /\ ProcessSuspicion(c, r, t, i)
       /\ reports' = reports \cup
            {n \in {[reporter |-> r, target |-> t, inc |-> i]} : t # LocalNode}
  \/ /\ \/ \E c \in Callers, t \in Nodes, i \in Incs : ClearSuspect(c, t, i)
        \/ ManagerStep
        \/ ListChange
     /\ UNCHANGED reports

ReportSpec == ReportInit /\ [][ReportNext]_<<vars, reports>>

-----------------------------------------------------------------------------

\* The nodes that reported incarnation i of node t.
ReportersOf(t, i) == {r \in Reporters : [reporter |-> r, target |-> t, inc |-> i] \in reports}

Quorum(t, i) == Cardinality(ReportersOf(t, i)) >= RequireReports

\* Nothing the manager does about an incarnation of a node, be it an escalated
\* entry, a member about to be marked, a verdict or a callback, happens without
\* RequireReports nodes having reported that very incarnation to it: reports of
\* another incarnation never count (ProcessSuspicion, check, OnSuspect, OnConfirm).
QuorumBehindEscalation ==
  /\ \A t \in Nodes : Escalated(t) => Quorum(t, entries[t].inc)
  /\ \A c \in Callers : calls[c].pc = "mark" => Quorum(calls[c].target, calls[c].inc)
  /\ \A v \in toConfirm : Quorum(v.target, v.inc)
  /\ \A cb \in Callback :
       cb.kind # "OnClear" /\ callbacks[cb] > 0 => Quorum(cb.target, cb.inc)

=============================================================================
