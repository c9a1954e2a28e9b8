--------------------------- MODULE SuspicionCases ---------------------------
(***************************************************************************)
(* What the suspicion manager of utils/suspicion.go promises to those who  *)
(* call it, without locks, the membership list and callbacks.              *)
(*                                                                         *)
(* There is at most one case per node.  A case is about one incarnation of *)
(* the node and collects the reporters that suspect it.  With enough       *)
(* reporters it escalates, and if nothing clears it, it is closed with the *)
(* verdict that the node failed and kept for a while.  Within a case       *)
(* reporters only join and stages only advance.  A case gives way to a     *)
(* report about a later incarnation, is dismissed by a sign of life, or is *)
(* retired after the verdict.                                              *)
(*                                                                         *)
(* A report about a node without a case does not open one at once: its     *)
(* caller finds none, goes away, and comes back to open it or gives up.    *)
(* What it opens takes the place of whatever case there is by then.  That  *)
(* is the only way a case loses reporters, its stage or its incarnation to *)
(* a report, and only reports that found no case can do it.                *)
(***************************************************************************)
EXTENDS Integers

CONSTANTS
  Nodes,           \* nodes that can be suspected
  Reporters,       \* nodes that can report
  Incs,            \* incarnation numbers
  Callers,         \* who brings the reports
  Enough           \* sets of reporters large enough to escalate

VARIABLES
  cases,           \* the case of every node
  found            \* the report of a caller that found no case, as a set of at most one

vars == <<cases, found>>

\* The stages of a case are "open", "escalated" and "closed".
NoCase == [stage |-> "none", inc |-> 0, reporters |-> {}]

ReportOf(r, t, i) == [reporter |-> r, target |-> t, inc |-> i]

Init ==
  /\ cases = [t \in Nodes |-> NoCase]
  /\ found = [c \in Callers |-> {}]

-----------------------------------------------------------------------------

Open(i) == [stage |-> "open", inc |-> i, reporters |-> {}]

\* A case with one more reporter.
Joined(case, r) ==
  LET rs == case.reporters \cup {r}
  IN  [stage     |-> IF case.stage = "open" /\ rs \in Enough THEN "escalated" ELSE case.stage,
       inc       |-> case.inc,
       reporters |-> rs]

\* A report about the incarnation of the case joins it.
JoinCase(r, t) ==
  /\ cases[t].stage # "none"
  /\ cases' = [cases EXCEPT ![t] = Joined(@, r)]
  /\ UNCHANGED found

\* A report about a later incarnation starts over.
SupersedeCase(r, t, i) ==
  /\ cases[t].stage # "none" /\ i > cases[t].inc
  /\ cases' = [cases EXCEPT ![t] = Joined(Open(i), r)]
  /\ UNCHANGED found

\* A caller with a report finds no case of its node.
FindNone(c, r, t, i) ==
  /\ found[c] = {}
  /\ cases[t].stage = "none"
  /\ found' = [found EXCEPT ![c] = {ReportOf(r, t, i)}]
  /\ UNCHANGED cases

\* It gives up, or opens a case with its report, in place of what there may be by now.
GiveUp(c) ==
  /\ found[c] # {}
  /\ found' = [found EXCEPT ![c] = {}]
  /\ UNCHANGED cases

OpenCase(c, report) ==
  /\ report \in found[c]
  /\ cases' = [cases EXCEPT ![report.target] = Joined(Open(report.inc), report.reporter)]
  /\ found' = [found EXCEPT ![c] = {}]

\* A sign of life ends the case.
Dismiss(t) ==
  /\ cases[t].stage # "none"
  /\ cases' = [cases EXCEPT ![t] = NoCase]
  /\ UNCHANGED found

\* One pass over the cases: closes some that escalated, retires some closed ones.
Sweep ==
  /\ \E closing \in SUBSET {t \in Nodes : cases[t].stage = "escalated"},
        retiring \in SUBSET {t \in Nodes : cases[t].stage = "closed"} :
       cases' = [t \in Nodes |->
                   CASE t \in closing  -> [cases[t] EXCEPT !.stage = "closed"]
                     [] t \in retiring -> NoCase
                     [] OTHER          -> cases[t]]
  /\ UNCHANGED found

Next ==
  \/ Sweep
  \/ \E t \in Nodes : Dismiss(t)
  \/ \E r \in Reporters, t \in Nodes : JoinCase(r, t)
  \/ \E r \in Reporters, t \in Nodes, i \in Incs : SupersedeCase(r, t, i)
  \/ \E c \in Callers, r \in Reporters, t \in Nodes, i \in Incs : FindNone(c, r, t, i)
  \/ \E c \in Callers : GiveUp(c) \/ \E report \in found[c] : OpenCase(c, report)

Spec == Init /\ [][Next]_vars

=============================================================================
