------------------------ MODULE SuspicionCasesProofs ------------------------
(***************************************************************************)
(* Proof that the suspicion manager implements SuspicionCases, for any     *)
(* number of nodes, reporters and calling goroutines and any bounds.       *)
(*                                                                         *)
(* The calls that are in the window of ProcessSuspicion in which sm.mu is  *)
(* given up are the reports that found no case.  What else the proof needs *)
(* to know of a reachable state is that a node without an entry has no     *)
(* remains of one (NoRemains): a sign of life for it changes no case.      *)
(***************************************************************************)
EXTENDS SuspicionProofs

USE SuspicionAssumption

\* A node without an entry has no remains of one.
NoRemains == \A t \in Nodes : entries[t].stage = "none" => entries[t] = NoEntry

-----------------------------------------------------------------------------
(* The mapping of entries to cases                                         *)

\* The stages, one by one.
LEMMA CaseStages ==
  /\ CaseStage("none") = "none"
  /\ CaseStage("collecting") = "open"
  /\ CaseStage("reported") = "escalated" /\ CaseStage("due") = "escalated"
  /\ CaseStage("confirmed") = "closed" /\ CaseStage("expired") = "closed"
BY DEF CaseStage

\* No entry is no case, and a new entry (ProcessSuspicion) an open one.
LEMMA CaseOfFresh ==
  ASSUME NEW i \in Incs
  PROVE  CaseOf(NoEntry) = Cases!NoCase /\ CaseOf(Fresh(i)) = Cases!Open(i)
BY CaseStages DEF CaseOf, NoEntry, Fresh, Cases!NoCase, Cases!Open

\* A reporter joins an entry as it joins the case (ProcessSuspicion).
LEMMA CaseOfReporter ==
  ASSUME NEW e \in Entry, NEW r \in Reporters, e.stage # "none"
  PROVE  /\ CaseOf(AddReporter(e, r)) = Cases!Joined(CaseOf(e), r)
         /\ AddReporter(e, r).stage # "none"
<1> DEFINE rs == e.reporters \cup {r}
           isEnough == Cardinality(rs) >= RequireReports
           stage == IF e.stage = "collecting" /\ isEnough THEN "reported" ELSE e.stage
           joined == IF CaseStage(e.stage) = "open" /\ isEnough
                     THEN "escalated" ELSE CaseStage(e.stage)
<1>1. AddReporter(e, r) = [stage |-> stage, inc |-> e.inc, reporters |-> rs]
  BY DEF AddReporter, Entry
<1>2. rs \in Enough <=> isEnough
  BY DEF Enough, Entry
<1>3. Cases!Joined(CaseOf(e), r) = [stage |-> joined, inc |-> e.inc, reporters |-> rs]
  BY <1>2 DEF Cases!Joined, CaseOf
<1>4. e.stage \in {"collecting", "reported", "due", "confirmed", "expired"}
  BY DEF Entry, Stages
<1>5. CaseStage(stage) = joined /\ stage # "none"
  BY <1>4, CaseStages
<1> QED BY <1>1, <1>3, <1>5 DEF CaseOf

-----------------------------------------------------------------------------
(* Entries without remains                                                 *)

\* A new manager tracks nothing (NewSuspicionManager).
LEMMA NoRemainsInit == Init => NoRemains
BY DEF Init, NoRemains

\* What a report leaves behind is an entry (ProcessSuspicion).
LEMMA FileReportRemains ==
  ASSUME TypeOK, NoRemains, NEW c \in Callers, NEW r \in Reporters, NEW t \in Nodes, NEW e \in Entry,
         e.stage # "none", FileReport(c, r, t, e)
  PROVE  NoRemains'
<1>1. AddReporter(e, r).stage # "none"
  BY CaseOfReporter
<1>2. \A n \in Nodes : entries'[n] = IF n = t THEN AddReporter(e, r) ELSE entries[n]
  BY DEF FileReport, TypeOK
<1> QED BY <1>1, <1>2 DEF NoRemains

\* Entries are made by reports, advanced by time and check, and deleted whole
\* (ProcessSuspicion, ClearSuspect, check).
LEMMA NoRemainsStep ==
  ASSUME TypeOK, NoRemains, [Next]_vars
  PROVE  NoRemains'
<1> USE DEF TypeOK
<1>1. ASSUME NEW c \in Callers, NEW r \in Reporters, NEW t \in Nodes \cup {LocalNode}, NEW i \in Incs,
             ProcessSuspicion(c, r, t, i)
      PROVE  NoRemains'
  <2>1. CASE RefuteSelf(c, i) \/ ProcessStale(c, r, t, i) \/ ProcessUntracked(c, r, t, i)
    BY <2>1 DEF NoRemains, RefuteSelf, ProcessStale, ProcessUntracked
  <2>2. CASE ProcessTracked(c, r, t, i)
    <3>1. t \in Nodes /\ entries[t] \in Entry /\ entries[t].stage # "none"
      BY <2>2 DEF ProcessTracked
    <3>2. Fresh(i) \in Entry /\ Fresh(i).stage # "none"
      BY DEF Fresh, Entry, Stages
    <3>3. CASE i > entries[t].inc
      BY <2>2, <3>1, <3>2, <3>3, FileReportRemains DEF ProcessTracked
    <3>4. CASE ~(i > entries[t].inc)
      BY <2>2, <3>1, <3>4, FileReportRemains DEF ProcessTracked
    <3> QED BY <3>3, <3>4
  <2> QED BY <1>1, <2>1, <2>2 DEF ProcessSuspicion
<1>2. ASSUME NEW c \in Callers, NEW t \in Nodes, NEW i \in Incs, ClearSuspect(c, t, i)
      PROVE  NoRemains'
  <2>1. \A n \in Nodes : entries'[n] = entries[n] \/ entries'[n] = NoEntry
    BY <1>2 DEF ClearSuspect, ClearStale, ClearLookup, vars
  <2> QED BY <2>1 DEF NoRemains
<1>3. ASSUME NEW c \in Callers, Continue(c)
      PROVE  NoRemains'
  <2>1. CASE CreateEntry(c)
    <3>1. calls[c].reporter \in Reporters /\ calls[c].target \in Nodes /\ calls[c].inc \in Incs
      BY <2>1 DEF CreateEntry, Call, Idle
    <3>2. Fresh(calls[c].inc) \in Entry /\ Fresh(calls[c].inc).stage # "none"
      BY <3>1 DEF Fresh, Entry, Stages
    <3> QED BY <2>1, <3>1, <3>2, FileReportRemains DEF CreateEntry
  <2>2. CASE ~CreateEntry(c)
    <3>1. entries' = entries
      BY <1>3, <2>2 DEF Continue, ReadLocal, MarkSuspected, ClearUntracked, ClearTracked, ClearMember
    <3> QED BY <3>1 DEF NoRemains
  <2> QED BY <2>1, <2>2
<1>4. CASE CheckScan
  <2>1. \A t \in Nodes : \/ entries'[t] = entries[t]
                         \/ entries'[t] = NoEntry
                         \/ entries'[t] = [entries[t] EXCEPT !.stage = "confirmed"]
    BY <1>4 DEF CheckScan
  <2>2. \A t \in Nodes : [entries[t] EXCEPT !.stage = "confirmed"].stage = "confirmed"
    BY DEF Entry
  <2> QED BY <2>1, <2>2 DEF NoRemains
<1>5. ASSUME NEW t \in Nodes, Elapse(t)
      PROVE  NoRemains'
  <2>1. entries'[t].stage # "none"
    BY <1>5 DEF Elapse, Entry
  <2>2. \A n \in Nodes \ {t} : entries'[n] = entries[n]
    BY <1>5 DEF Elapse
  <2> QED BY <2>1, <2>2 DEF NoRemains
<1>6. ASSUME CheckApply \/ ListChange \/ (\E t \in Nodes, i \in Incs : RunCallback(t, i))
             \/ UNCHANGED vars
      PROVE  NoRemains'
  <2>1. entries' = entries
    BY <1>6 DEF CheckApply, ListChange, RunCallback, OnSuspect, OnConfirm, OnClear, vars
  <2> QED BY <2>1 DEF NoRemains
<1> QED BY <1>1, <1>2, <1>3, <1>4, <1>5, <1>6 DEF Next, ManagerStep

-----------------------------------------------------------------------------
(* Steps of the manager as steps of the cases                              *)

\* The case of every node, and the report of every call in the window.
AllCases == [t \in Nodes |-> CaseOf(entries[t])]
AllFound == [c \in Callers |-> FoundNone(calls[c])]

\* The map starts empty (NewSuspicionManager), and so do the cases.
LEMMA CasesInit == Init => Cases!Init
<1> SUFFICES ASSUME Init PROVE Cases!Init
  OBVIOUS
<1>1. 0 \in Incs
  BY DEF Incs
<1>2. \A t \in Nodes : CaseOf(entries[t]) = Cases!NoCase
  BY <1>1, CaseOfFresh DEF Init
<1>3. \A c \in Callers : FoundNone(calls[c]) = {}
  BY DEF Init, FoundNone, Idle
<1> QED BY <1>2, <1>3 DEF Cases!Init

\* What leaves the map alone leaves the cases alone.
LEMMA CasesStutter ==
  ASSUME \A t \in Nodes : CaseOf(entries'[t]) = CaseOf(entries[t])
  PROVE  AllCases' = AllCases
BY DEF AllCases

\* Calls outside the window, before and after, have found nothing.
LEMMA FoundStutter ==
  ASSUME \A c \in Callers : FoundNone(calls'[c]) = FoundNone(calls[c])
  PROVE  AllFound' = AllFound
BY DEF AllFound

\* A call that is neither before nor after in the window, and the others as they were.
LEMMA FoundOutside ==
  ASSUME TypeOK, NEW c \in Callers, NEW call, calls' = [calls EXCEPT ![c] = call],
         calls[c].pc \notin {"readLocal", "create"}, call.pc \notin {"readLocal", "create"}
  PROVE  AllFound' = AllFound
<1>1. \A d \in Callers : FoundNone(calls'[d]) = FoundNone(calls[d])
  BY DEF FoundNone, TypeOK
<1> QED BY <1>1, FoundStutter

\* A report goes on outside the window (the end of ProcessSuspicion).
LEMMA FileReportCall ==
  ASSUME TypeOK, NEW c \in Callers, NEW r \in Reporters, NEW t \in Nodes, NEW e, FileReport(c, r, t, e)
  PROVE  \E call : calls' = [calls EXCEPT ![c] = call] /\ call.pc \in {"mark", "idle"}
<1> DEFINE marking == [pc |-> "mark", reporter |-> r, target |-> t, inc |-> e.inc]
<1>1. \/ calls' = [calls EXCEPT ![c] = marking]
      \/ calls' = [calls EXCEPT ![c] = Idle]
  BY DEF FileReport
<1>2. marking.pc = "mark" /\ Idle.pc = "idle"
  BY DEF Idle
<1> HIDE DEF marking
<1> QED BY <1>1, <1>2

\* A report that joins an entry joins its case (ProcessSuspicion).
LEMMA JoinStep ==
  ASSUME TypeOK, NEW c \in Callers, NEW r \in Reporters, NEW t \in Nodes, calls[c] = Idle,
         entries[t].stage # "none", FileReport(c, r, t, entries[t])
  PROVE  Cases!JoinCase(r, t)
<1>1. entries[t] \in Entry
  BY DEF TypeOK
<1>2. CaseOf(AddReporter(entries[t], r)) = Cases!Joined(CaseOf(entries[t]), r)
  BY <1>1, CaseOfReporter
<1>3. AllCases' = [AllCases EXCEPT ![t] = Cases!Joined(@, r)]
  BY <1>2 DEF AllCases, FileReport, TypeOK
<1>4. CaseOf(entries[t]).stage # "none"
  BY <1>1, CaseStages DEF CaseOf, Entry, Stages
<1>5. AllFound' = AllFound
  BY FileReportCall, FoundOutside DEF Idle
<1> QED BY <1>3, <1>4, <1>5 DEF Cases!JoinCase, AllCases, AllFound

\* A fresh entry with its first reporter is an open case with it.
LEMMA FreshStep ==
  ASSUME TypeOK, NEW c \in Callers, NEW r \in Reporters, NEW t \in Nodes, NEW i \in Incs,
         FileReport(c, r, t, Fresh(i))
  PROVE  AllCases' = [AllCases EXCEPT ![t] = Cases!Joined(Cases!Open(i), r)]
<1>1. Fresh(i) \in Entry /\ Fresh(i).stage # "none"
  BY DEF Fresh, Entry, Stages
<1>2. CaseOf(AddReporter(Fresh(i), r)) = Cases!Joined(Cases!Open(i), r)
  BY <1>1, CaseOfFresh, CaseOfReporter
<1> QED BY <1>2 DEF AllCases, FileReport, TypeOK

\* A report about a later incarnation supersedes the case (ProcessSuspicion).
LEMMA SupersedeStep ==
  ASSUME TypeOK, NEW c \in Callers, NEW r \in Reporters, NEW t \in Nodes, NEW i \in Incs,
         calls[c] = Idle, entries[t].stage # "none", i > entries[t].inc, FileReport(c, r, t, Fresh(i))
  PROVE  Cases!SupersedeCase(r, t, i)
<1>1. AllCases' = [AllCases EXCEPT ![t] = Cases!Joined(Cases!Open(i), r)]
  BY FreshStep
<1>2. CaseOf(entries[t]).stage # "none" /\ i > CaseOf(entries[t]).inc
  BY CaseStages DEF CaseOf, TypeOK, Entry, Stages
<1>3. AllFound' = AllFound
  BY FileReportCall, FoundOutside DEF Idle
<1> QED BY <1>1, <1>2, <1>3 DEF Cases!SupersedeCase, AllCases, AllFound

\* A report about a node nothing is known of finds no case (ProcessSuspicion).
LEMMA FindNoneStep ==
  ASSUME TypeOK, NEW c \in Callers, NEW r \in Reporters, NEW t \in Nodes, NEW i \in Incs,
         ProcessUntracked(c, r, t, i)
  PROVE  Cases!FindNone(c, r, t, i)
<1> DEFINE call == [pc |-> "readLocal", reporter |-> r, target |-> t, inc |-> i]
<1>1. calls' = [calls EXCEPT ![c] = call] /\ calls[c] = Idle
  BY DEF ProcessUntracked
<1>2. FoundNone(calls[c]) = {}
  BY <1>1 DEF FoundNone, Idle
<1>3. FoundNone(call) = {Cases!ReportOf(r, t, i)}
  BY DEF FoundNone, Cases!ReportOf
<1> HIDE DEF call
<1>4. AllFound' = [AllFound EXCEPT ![c] = {Cases!ReportOf(r, t, i)}]
  BY <1>1, <1>3 DEF AllFound, TypeOK
<1>5. CaseOf(entries[t]).stage = "none"
  BY CaseStages DEF CaseOf, ProcessUntracked
<1>6. AllCases' = AllCases
  BY CasesStutter DEF ProcessUntracked
<1>7. t \in Nodes /\ c \in Callers
  OBVIOUS
<1> QED BY <1>2, <1>4, <1>5, <1>6, <1>7 DEF Cases!FindNone, AllCases, AllFound

\* A call that finds the list ahead of it gives up, another goes on (ProcessSuspicion).
LEMMA ReadLocalStep ==
  ASSUME TypeOK, NEW c \in Callers, ReadLocal(c)
  PROVE  Cases!GiveUp(c) \/ (AllCases' = AllCases /\ AllFound' = AllFound)
<1>1. AllCases' = AllCases
  BY CasesStutter DEF ReadLocal
<1>2. CASE calls' = [calls EXCEPT ![c] = Idle]
  <2>1. FoundNone(calls[c]) # {}
    BY DEF ReadLocal, FoundNone
  <2>2. FoundNone(Idle) = {}
    BY DEF FoundNone, Idle
  <2>3. AllFound' = [AllFound EXCEPT ![c] = {}]
    BY <1>2, <2>2 DEF AllFound, TypeOK
  <2> QED BY <1>1, <2>1, <2>3 DEF Cases!GiveUp, AllCases, AllFound
<1>3. CASE calls' = [calls EXCEPT ![c] = [calls[c] EXCEPT !.pc = "create"]]
  <2>1. PICK r \in Reporters, t \in Nodes, i \in Incs :
          calls[c] = [pc |-> "readLocal", reporter |-> r, target |-> t, inc |-> i]
    BY DEF ReadLocal, TypeOK, Call, Idle
  <2>2. calls'[c] = [pc |-> "create", reporter |-> r, target |-> t, inc |-> i]
    BY <1>3, <2>1 DEF TypeOK
  <2>3. FoundNone(calls'[c]) = FoundNone(calls[c])
    BY <2>1, <2>2 DEF FoundNone
  <2>4. \A d \in Callers \ {c} : calls'[d] = calls[d]
    BY <1>3 DEF TypeOK
  <2>5. AllFound' = AllFound
    BY <2>3, <2>4, FoundStutter
  <2> QED BY <1>1, <2>5
<1> QED BY <1>2, <1>3 DEF ReadLocal

\* A call in the window opens a case, in place of what there is (ProcessSuspicion).
LEMMA OpenStep ==
  ASSUME TypeOK, NEW c \in Callers, CreateEntry(c)
  PROVE  \E report \in AllFound[c] : Cases!OpenCase(c, report)
<1>1. PICK r \in Reporters, t \in Nodes, i \in Incs :
        calls[c] = [pc |-> "create", reporter |-> r, target |-> t, inc |-> i]
  BY DEF CreateEntry, TypeOK, Call, Idle
<1>2. FileReport(c, r, t, Fresh(i))
  BY <1>1 DEF CreateEntry
<1>3. AllCases' = [AllCases EXCEPT ![t] = Cases!Joined(Cases!Open(i), r)]
  BY <1>2, FreshStep
<1> DEFINE report == [reporter |-> r, target |-> t, inc |-> i]
<1>4. AllFound[c] = {report}
  BY <1>1 DEF AllFound, FoundNone
<1>5. PICK call : calls' = [calls EXCEPT ![c] = call] /\ call.pc \in {"mark", "idle"}
  BY <1>2, FileReportCall
<1>6. FoundNone(call) = {}
  BY <1>5 DEF FoundNone
<1>7. AllFound' = [AllFound EXCEPT ![c] = {}]
  BY <1>5, <1>6 DEF AllFound, TypeOK
<1>8. report.reporter = r /\ report.target = t /\ report.inc = i
  OBVIOUS
<1> HIDE DEF report
<1>9. Cases!OpenCase(c, report)
  BY <1>3, <1>4, <1>7, <1>8 DEF Cases!OpenCase, AllCases, AllFound
<1> QED BY <1>4, <1>9

\* A sign of life that takes an entry away dismisses the case (ClearSuspect).
LEMMA DismissStep ==
  ASSUME TypeOK, NoRemains, NEW c \in Callers, NEW t \in Nodes, NEW i \in Incs,
         ClearSuspect(c, t, i)
  PROVE  Cases!Dismiss(t) \/ (AllCases' = AllCases /\ AllFound' = AllFound)
<1>1. CASE ClearStale(c, t, i)
  BY <1>1, CasesStutter, FoundStutter DEF ClearStale, vars
<1>2. ASSUME ClearLookup(c, t, i)
      PROVE  AllFound' = AllFound
  <2> DEFINE call == [pc |-> IF entries[t].stage = "none" THEN "clearUntracked" ELSE "clearTracked",
                      target |-> t, inc |-> i]
  <2>1. calls' = [calls EXCEPT ![c] = call] /\ calls[c] = Idle
    BY <1>2 DEF ClearLookup
  <2>2. call.pc \notin {"readLocal", "create"} /\ Idle.pc \notin {"readLocal", "create"}
    BY DEF Idle
  <2> HIDE DEF call
  <2> QED BY <2>1, <2>2, FoundOutside
<1>3. CASE ClearLookup(c, t, i) /\ entries[t].stage = "none"
  <2>1. entries' = entries
    BY <1>3 DEF ClearLookup, NoRemains, TypeOK
  <2> QED BY <1>2, <1>3, <2>1, CasesStutter
<1>4. CASE ClearLookup(c, t, i) /\ entries[t].stage # "none"
  <2>1. AllCases' = [AllCases EXCEPT ![t] = Cases!NoCase]
    BY <1>4, CaseOfFresh DEF AllCases, ClearLookup, TypeOK, Incs
  <2>2. CaseOf(entries[t]).stage # "none"
    BY <1>4, CaseStages DEF CaseOf, TypeOK, Entry, Stages
  <2> QED BY <1>2, <1>4, <2>1, <2>2 DEF Cases!Dismiss, AllCases, AllFound
<1> QED BY <1>1, <1>3, <1>4 DEF ClearSuspect

\* One pass of check is one sweep.
LEMMA SweepStep ==
  ASSUME TypeOK, CheckScan
  PROVE  Cases!Sweep
<1>1. \A t \in DueTargets : CaseOf(entries[t]).stage = "escalated"
  BY CaseStages DEF CaseOf, DueTargets
<1>2. \A t \in ExpiredTargets : CaseOf(entries[t]).stage = "closed"
  BY CaseStages DEF CaseOf, ExpiredTargets
<1>3. DueTargets \subseteq Nodes /\ ExpiredTargets \subseteq Nodes
  BY DEF DueTargets, ExpiredTargets
<1>4. \A t \in Nodes :
        CaseOf(entries'[t]) = CASE t \in DueTargets     -> [CaseOf(entries[t]) EXCEPT !.stage = "closed"]
                                [] t \in ExpiredTargets -> Cases!NoCase
                                [] OTHER                -> CaseOf(entries[t])
  <2> TAKE t \in Nodes
  <2>1. CASE t \in DueTargets
    <3>1. entries'[t] = [entries[t] EXCEPT !.stage = "confirmed"]
      BY <2>1 DEF CheckScan, DueTargets, ExpiredTargets
    <3>2. CaseOf(entries'[t]) = [CaseOf(entries[t]) EXCEPT !.stage = "closed"]
      BY <3>1, CaseStages DEF CaseOf, TypeOK, Entry
    <3> QED BY <2>1, <3>2 DEF ExpiredTargets, DueTargets
  <2>2. CASE t \in ExpiredTargets
    <3>1. t \notin DueTargets
      BY <2>2 DEF DueTargets, ExpiredTargets
    <3>2. entries'[t] = NoEntry
      BY <2>2, <3>1 DEF CheckScan
    <3>3. 0 \in Incs
      BY DEF Incs
    <3> QED BY <2>2, <3>1, <3>2, <3>3, CaseOfFresh
  <2>3. CASE t \notin DueTargets /\ t \notin ExpiredTargets
    <3>1. entries'[t] = entries[t]
      BY <2>3 DEF CheckScan
    <3> QED BY <2>3, <3>1
  <2> QED BY <2>1, <2>2, <2>3
<1>5. AllCases' = [t \in Nodes |->
                     CASE t \in DueTargets     -> [AllCases[t] EXCEPT !.stage = "closed"]
                       [] t \in ExpiredTargets -> Cases!NoCase
                       [] OTHER                -> AllCases[t]]
  BY <1>4 DEF AllCases
<1>6. /\ DueTargets \in SUBSET {t \in Nodes : AllCases[t].stage = "escalated"}
      /\ ExpiredTargets \in SUBSET {t \in Nodes : AllCases[t].stage = "closed"}
  BY <1>1, <1>2, <1>3 DEF AllCases
<1>7. AllFound' = AllFound
  BY FoundStutter DEF CheckScan
<1> QED BY <1>5, <1>6, <1>7 DEF Cases!Sweep, AllCases, AllFound

\* Every step of the manager is a step of the cases or leaves them alone.
LEMMA CasesStep ==
  ASSUME TypeOK, NoRemains, [Next]_vars
  PROVE  Cases!Next \/ (AllCases' = AllCases /\ AllFound' = AllFound)
<1> DEFINE Goal == Cases!Next \/ (AllCases' = AllCases /\ AllFound' = AllFound)
<1>1. ASSUME NEW c \in Callers, NEW r \in Reporters, NEW t \in Nodes \cup {LocalNode}, NEW i \in Incs,
             ProcessSuspicion(c, r, t, i)
      PROVE  Goal
  <2>1. CASE RefuteSelf(c, i) \/ ProcessStale(c, r, t, i)
    BY <2>1, CasesStutter, FoundStutter DEF RefuteSelf, ProcessStale
  <2>2. CASE ProcessTracked(c, r, t, i)
    <3>1. t \in Nodes /\ entries[t].stage # "none" /\ calls[c] = Idle
      BY <2>2 DEF ProcessTracked
    <3>2. CASE i > entries[t].inc
      <4>1. FileReport(c, r, t, Fresh(i))
        BY <2>2, <3>2 DEF ProcessTracked
      <4>2. Cases!SupersedeCase(r, t, i)
        BY <3>1, <3>2, <4>1, SupersedeStep
      <4> QED BY <3>1, <4>2 DEF Cases!Next
    <3>3. CASE ~(i > entries[t].inc)
      <4>1. FileReport(c, r, t, entries[t])
        BY <2>2, <3>3 DEF ProcessTracked
      <4>2. Cases!JoinCase(r, t)
        BY <3>1, <4>1, JoinStep
      <4> QED BY <3>1, <4>2 DEF Cases!Next
    <3> QED BY <3>2, <3>3
  <2>3. ASSUME ProcessUntracked(c, r, t, i), t \in Nodes
        PROVE  Goal
    <3>1. Cases!FindNone(c, r, t, i)
      BY <2>3, FindNoneStep
    <3> QED BY <2>3, <3>1 DEF Cases!Next
  <2>4. t \notin Nodes => ~ProcessUntracked(c, r, t, i)
    BY DEF ProcessUntracked
  <2> QED BY <1>1, <2>1, <2>2, <2>3, <2>4 DEF ProcessSuspicion
<1>2. ASSUME NEW c \in Callers, NEW t \in Nodes, NEW i \in Incs, ClearSuspect(c, t, i)
      PROVE  Goal
  BY <1>2, DismissStep DEF Cases!Next
<1>3. ASSUME NEW c \in Callers, Continue(c)
      PROVE  Goal
  <2>1. CASE ReadLocal(c)
    BY <2>1, ReadLocalStep DEF Cases!Next
  <2>2. CASE CreateEntry(c)
    BY <2>2, OpenStep DEF Cases!Next, AllFound
  <2>3. CASE MarkSuspected(c) \/ ClearUntracked(c) \/ ClearTracked(c)
    <3>1. entries' = entries /\ calls' = [calls EXCEPT ![c] = Idle]
      BY <2>3 DEF MarkSuspected, ClearUntracked, ClearTracked, ClearMember
    <3>2. calls[c].pc \notin {"readLocal", "create"} /\ Idle.pc \notin {"readLocal", "create"}
      BY <2>3 DEF MarkSuspected, ClearUntracked, ClearTracked, Idle
    <3> QED BY <3>1, <3>2, CasesStutter, FoundOutside
  <2> QED BY <1>3, <2>1, <2>2, <2>3 DEF Continue
<1>4. CASE CheckScan
  BY <1>4, SweepStep DEF Cases!Next
<1>5. ASSUME NEW t \in Nodes, Elapse(t)
      PROVE  Goal
  <2>1. CaseStage(entries'[t].stage) = CaseStage(entries[t].stage)
        /\ entries'[t].inc = entries[t].inc /\ entries'[t].reporters = entries[t].reporters
    BY <1>5, CaseStages DEF Elapse, TypeOK, Entry
  <2>2. \A n \in Nodes \ {t} : entries'[n] = entries[n]
    BY <1>5 DEF Elapse, TypeOK
  <2>3. \A n \in Nodes : CaseOf(entries'[n]) = CaseOf(entries[n])
    BY <2>1, <2>2 DEF CaseOf
  <2>4. calls' = calls
    BY <1>5 DEF Elapse
  <2> QED BY <2>3, <2>4, CasesStutter, FoundStutter
<1>6. ASSUME CheckApply \/ ListChange \/ (\E t \in Nodes, i \in Incs : RunCallback(t, i))
             \/ UNCHANGED vars
      PROVE  Goal
  <2>1. entries' = entries /\ calls' = calls
    BY <1>6 DEF CheckApply, ListChange, RunCallback, OnSuspect, OnConfirm, OnClear, vars
  <2> QED BY <2>1, CasesStutter, FoundStutter
<1>7. CASE ManagerStep
  BY <1>3, <1>4, <1>5, <1>6, <1>7 DEF ManagerStep
<1> QED BY <1>1, <1>2, <1>6, <1>7 DEF Next

\* However many goroutines call the manager, its entries are cases as SuspicionCases has
\* them: no report that joins one starts it over, none takes it back to an older
\* incarnation, no stage is skipped or undone, except by a report that found nothing
\* tracked and opens a case later (ProcessSuspicion, ClearSuspect, check).
THEOREM ManagerImplementsCases == Spec => ImplementsCases
<1>1. Init => NoRemains /\ Cases!Init
  BY NoRemainsInit, CasesInit
<1>2. TypeOK /\ NoRemains /\ [Next]_vars => NoRemains'
  BY NoRemainsStep
<1>3. TypeOK /\ NoRemains /\ [Next]_vars => [Cases!Next]_<<AllCases, AllFound>>
  BY CasesStep
<1> QED BY <1>1, <1>2, <1>3, SuspicionTypeOK, PTL
        DEF Spec, ImplementsCases, Cases!Spec, Cases!vars, AllCases, AllFound

=============================================================================
