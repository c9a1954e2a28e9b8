---------------------- MODULE SuspicionReportsProofs ----------------------
(***************************************************************************)
(* Proof that nothing escalates without a quorum of reports, for any       *)
(* number of nodes, reporters and calling goroutines and any bounds.       *)
(***************************************************************************)
EXTENDS SuspicionReports, SuspicionProofs, FiniteSetTheorems

USE SuspicionAssumption

\* What each part of the state rests on.  An entry, escalated or not, holds only
\* nodes that reported its incarnation, and so does a call that goes on to create
\* an entry: that is what makes the invariant inductive.
EntryBacked(t) ==
  /\ entries[t].reporters \subseteq ReportersOf(t, entries[t].inc)
  /\ Escalated(t) => Quorum(t, entries[t].inc)

CallBacked(c) ==
  /\ calls[c].pc \in {"readLocal", "create"}
       => calls[c].reporter \in ReportersOf(calls[c].target, calls[c].inc)
  /\ calls[c].pc = "mark" => Quorum(calls[c].target, calls[c].inc)

CallbackBacked(cb) == cb.kind # "OnClear" /\ callbacks[cb] > 0 => Quorum(cb.target, cb.inc)

ReportInv ==
  /\ \A t \in Nodes : EntryBacked(t)
  /\ \A c \in Callers : CallBacked(c)
  /\ \A v \in toConfirm : Quorum(v.target, v.inc)
  /\ \A cb \in Callback : CallbackBacked(cb)

\* A step of the manager with its history is a step of the manager.
LEMMA ReportStep == [ReportNext]_<<vars, reports>> => [Next]_vars
BY DEF ReportNext, Next

\* With the history, the types hold as well.
LEMMA ReportType == ReportSpec => []TypeOK
<1>1. ReportInit => TypeOK
  BY InitType DEF ReportInit
<1>2. TypeOK /\ [ReportNext]_<<vars, reports>> => TypeOK'
  BY ReportStep, NextType
<1> QED BY <1>1, <1>2, PTL DEF ReportSpec

\* Reports are never forgotten, so a quorum stays one.
LEMMA QuorumStays ==
  ASSUME NEW t \in Nodes, NEW i \in Incs, reports \subseteq reports'
  PROVE  /\ ReportersOf(t, i) \subseteq ReportersOf(t, i)'
         /\ Quorum(t, i) => Quorum(t, i)'
<1>1. ReportersOf(t, i) \subseteq ReportersOf(t, i)'
  BY DEF ReportersOf
<1>2. IsFiniteSet(ReportersOf(t, i)')
  BY FS_Subset DEF ReportersOf
<1>3. IsFiniteSet(ReportersOf(t, i)) /\ Cardinality(ReportersOf(t, i)) <= Cardinality(ReportersOf(t, i)')
  BY <1>1, <1>2, FS_Subset
<1>4. Cardinality(ReportersOf(t, i)) \in Nat /\ Cardinality(ReportersOf(t, i)') \in Nat
  BY <1>2, <1>3, FS_CardinalityType
<1> QED BY <1>1, <1>3, <1>4 DEF Quorum

\* An entry that holds enough reporters has a quorum.
LEMMA EnoughReporters ==
  ASSUME NEW t \in Nodes, NEW i \in Incs, NEW rs \in SUBSET ReportersOf(t, i),
         Cardinality(rs) >= RequireReports
  PROVE  Quorum(t, i)
<1>1. IsFiniteSet(ReportersOf(t, i))
  BY FS_Subset DEF ReportersOf
<1>2. IsFiniteSet(rs) /\ Cardinality(rs) <= Cardinality(ReportersOf(t, i))
  BY <1>1, FS_Subset
<1>3. Cardinality(rs) \in Nat /\ Cardinality(ReportersOf(t, i)) \in Nat
  BY <1>1, <1>2, FS_CardinalityType
<1> QED BY <1>2, <1>3 DEF Quorum

\* Whatever was backed stays so, as reports are only added.
LEMMA EntryStays ==
  ASSUME TypeOK, ReportInv, reports \subseteq reports', NEW t \in Nodes, entries'[t] = entries[t]
  PROVE  EntryBacked(t)'
<1>1. PICK i \in Incs : i = entries[t].inc
  BY DEF TypeOK, Entry
<1>2. /\ ReportersOf(t, i) \subseteq ReportersOf(t, i)'
      /\ Quorum(t, i) => Quorum(t, i)'
  BY QuorumStays
<1>3. entries[t].reporters \subseteq ReportersOf(t, i)
  BY <1>1 DEF ReportInv, EntryBacked
<1>4. Escalated(t) => Quorum(t, i)
  BY <1>1 DEF ReportInv, EntryBacked
<1>5. Escalated(t)' => Escalated(t)
  BY DEF Escalated
<1>6. entries'[t].reporters \subseteq ReportersOf(t, i)' /\ (Escalated(t)' => Quorum(t, i)')
  BY <1>2, <1>3, <1>4, <1>5
<1>7. i = entries'[t].inc
  BY <1>1
<1> QED BY <1>6, <1>7 DEF EntryBacked, Quorum, ReportersOf

\* The same for a call a step does not touch.
LEMMA CallStays ==
  ASSUME TypeOK, ReportInv, reports \subseteq reports', NEW c \in Callers, calls'[c] = calls[c]
  PROVE  CallBacked(c)'
<1>1. CASE calls[c] = Idle
  BY <1>1 DEF CallBacked, Idle
<1>2. CASE calls[c] # Idle
  <2>1. PICK t \in Nodes, i \in Incs : t = calls[c].target /\ i = calls[c].inc
    BY <1>2, CallFields
  <2>2. /\ ReportersOf(t, i) \subseteq ReportersOf(t, i)'
        /\ Quorum(t, i) => Quorum(t, i)'
    BY QuorumStays
  <2>3. CallBacked(c)
    BY DEF ReportInv
  <2>4. /\ calls'[c].pc \in {"readLocal", "create"} => calls'[c].reporter \in ReportersOf(t, i)'
        /\ calls'[c].pc = "mark" => Quorum(t, i)'
    BY <2>1, <2>2, <2>3 DEF CallBacked
  <2> QED BY <2>1, <2>4 DEF CallBacked, Quorum, ReportersOf
<1> QED BY <1>1, <1>2

\* The same for the verdicts check has reached.
LEMMA VerdictsStay ==
  ASSUME TypeOK, ReportInv, reports \subseteq reports', NEW v \in toConfirm
  PROVE  Quorum(v.target, v.inc)'
<1>1. v.target \in Nodes /\ v.inc \in Incs
  BY DEF TypeOK, Verdict
<1> QED BY <1>1, QuorumStays DEF ReportInv

\* The same for callbacks, as long as none is spawned.
LEMMA CallbackStays ==
  ASSUME TypeOK, TypeOK', ReportInv, reports \subseteq reports', NEW cb \in Callback,
         callbacks'[cb] <= callbacks[cb]
  PROVE  CallbackBacked(cb)'
<1>1. cb.target \in Nodes /\ cb.inc \in Incs
  BY DEF Callback
<1>2. callbacks'[cb] > 0 => callbacks[cb] > 0
  BY DEF TypeOK
<1>3. CallbackBacked(cb)
  BY DEF ReportInv
<1> QED BY <1>1, <1>2, <1>3, QuorumStays DEF CallbackBacked

\* Callbacks spawned on a quorum, and those from before, are backed.
LEMMA SpawnBacked ==
  ASSUME TypeOK, TypeOK', ReportInv, reports \subseteq reports',
         NEW cbs \in SUBSET Callback, Spawn(cbs),
         \A cb \in cbs : cb.kind # "OnClear" => Quorum(cb.target, cb.inc)'
  PROVE  \A cb \in Callback : CallbackBacked(cb)'
<1> TAKE cb \in Callback
<1>1. CASE cb \in cbs
  BY <1>1 DEF CallbackBacked
<1>2. CASE cb \notin cbs
  <2>1. callbacks'[cb] = callbacks[cb]
    BY <1>2 DEF Spawn, TypeOK
  <2>2. callbacks'[cb] <= callbacks[cb]
    BY <2>1 DEF TypeOK
  <2> QED BY <2>2, CallbackStays
<1> QED BY <1>1, <1>2

\* The tail of ProcessSuspicion: if the entry it works on is backed and so is the
\* reporter, the entry it stores and the call that goes on to mark are backed.
LEMMA FileReportBacked ==
  ASSUME TypeOK, TypeOK', ReportInv, reports \subseteq reports',
         NEW c \in Callers, NEW r \in Reporters, NEW t \in Nodes, NEW e \in Entry,
         FileReport(c, r, t, e),
         r \in ReportersOf(t, e.inc)',
         e.reporters \subseteq ReportersOf(t, e.inc)',
         e.stage \in {"none", "collecting"} \/ Quorum(t, e.inc)'
  PROVE  /\ \A n \in Nodes : EntryBacked(n)'
         /\ \A d \in Callers : CallBacked(d)'
<1> DEFINE new == AddReporter(e, r)
<1>1. /\ new.inc = e.inc
      /\ new.reporters = e.reporters \cup {r}
      /\ new.stage = IF e.stage = "collecting" /\ Cardinality(e.reporters \cup {r}) >= RequireReports
                     THEN "reported" ELSE e.stage
  BY DEF AddReporter, Entry
<1>2. e.inc \in Incs /\ e.stage \in Stages
  BY DEF Entry
<1>3. new.reporters \subseteq ReportersOf(t, e.inc)'
  BY <1>1
<1>4. Cardinality(e.reporters \cup {r}) >= RequireReports => Quorum(t, e.inc)'
  <2>1. IsFiniteSet(ReportersOf(t, e.inc)')
    BY FS_Subset DEF ReportersOf
  <2>2. /\ IsFiniteSet(e.reporters \cup {r})
        /\ Cardinality(e.reporters \cup {r}) <= Cardinality(ReportersOf(t, e.inc)')
    BY <1>1, <1>3, <2>1, FS_Subset
  <2>3. Cardinality(e.reporters \cup {r}) \in Nat /\ Cardinality(ReportersOf(t, e.inc)') \in Nat
    BY <2>1, <2>2, FS_CardinalityType
  <2> QED BY <2>2, <2>3 DEF Quorum
<1>5. new.stage \in {"reported", "due", "confirmed", "expired"} => Quorum(t, e.inc)'
  BY <1>1, <1>2, <1>4 DEF Stages
<1>6. entries'[t] = new /\ \A n \in Nodes \ {t} : entries'[n] = entries[n]
  BY DEF FileReport, TypeOK
<1>7. EntryBacked(t)'
  BY <1>1, <1>3, <1>5, <1>6 DEF EntryBacked, Escalated, Quorum, ReportersOf
<1>8. \A n \in Nodes : EntryBacked(n)'
  BY <1>6, <1>7, EntryStays
<1>9. CallBacked(c)'
  <2>1. CASE Escalates(e, r)
    <3>1. Quorum(t, e.inc)'
      BY <2>1, <1>5 DEF Escalates
    <3>2. calls'[c] = [pc |-> "mark", reporter |-> r, target |-> t, inc |-> e.inc]
      BY <2>1 DEF FileReport, TypeOK
    <3> QED BY <3>1, <3>2 DEF CallBacked, Quorum, ReportersOf
  <2>2. CASE ~Escalates(e, r)
    <3>1. calls'[c] = Idle
      BY <2>2 DEF FileReport, TypeOK
    <3> QED BY <3>1 DEF CallBacked, Idle
  <2> QED BY <2>1, <2>2
<1>10. \A d \in Callers : CallBacked(d)'
  <2>1. \A d \in Callers \ {c} : calls'[d] = calls[d]
    BY DEF FileReport, TypeOK
  <2> QED BY <1>9, <2>1, CallStays
<1> QED BY <1>8, <1>10

\* A report that is filed is about an entry backed so far, and is in the history.
LEMMA ProcessBacked ==
  ASSUME TypeOK, TypeOK', ReportInv,
         NEW c \in Callers, NEW r \in Reporters, NEW t \in Nodes, NEW i \in Incs,
         ProcessSuspicion(c, r, t, i), t # LocalNode,
         reports' = reports \cup {[reporter |-> r, target |-> t, inc |-> i]}
  PROVE  ReportInv'
<1>0. reports \subseteq reports' /\ r \in ReportersOf(t, i)'
  BY DEF ReportersOf
<1>1. toConfirm' = toConfirm /\ callbacks' = callbacks
  BY DEF ProcessSuspicion, ProcessStale, ProcessTracked, ProcessUntracked
<1>2. \A v \in toConfirm' : Quorum(v.target, v.inc)'
  BY <1>0, <1>1, VerdictsStay
<1>3. \A cb \in Callback : CallbackBacked(cb)'
  <2>1. \A cb \in Callback : callbacks'[cb] <= callbacks[cb]
    BY <1>1 DEF TypeOK
  <2> QED BY <1>0, <2>1, CallbackStays
<1>4. CASE ProcessStale(c, r, t, i)
  <2>1. \A n \in Nodes : EntryBacked(n)'
    BY <1>0, <1>4, EntryStays DEF ProcessStale
  <2>2. \A d \in Callers : CallBacked(d)'
    BY <1>0, <1>4, CallStays DEF ProcessStale
  <2> QED BY <1>2, <1>3, <2>1, <2>2 DEF ReportInv
<1>5. CASE ProcessTracked(c, r, t, i)
  <2>1. CASE i > entries[t].inc
    <3>1. Fresh(i) \in Entry /\ Fresh(i).inc = i /\ Fresh(i).reporters = {}
          /\ Fresh(i).stage = "collecting"
      BY DEF Fresh, Entry, Stages
    <3>2. FileReport(c, r, t, Fresh(i))
      BY <1>5, <2>1 DEF ProcessTracked
    <3>3. (\A n \in Nodes : EntryBacked(n)') /\ (\A d \in Callers : CallBacked(d)')
      BY <1>0, <3>1, <3>2, FileReportBacked
    <3> QED BY <1>2, <1>3, <3>3 DEF ReportInv
  <2>2. CASE ~(i > entries[t].inc)
    <3>1. entries[t] \in Entry /\ entries[t].inc \in Incs /\ entries[t].stage \in Stages
      BY DEF TypeOK, Entry
    <3>2. entries[t].inc = i
      BY <1>5, <2>2, <3>1 DEF ProcessTracked, Incs
    <3>3. FileReport(c, r, t, entries[t])
      BY <1>5, <2>2 DEF ProcessTracked
    <3>4. entries[t].reporters \subseteq ReportersOf(t, i)'
      BY <1>0, <3>2, QuorumStays DEF ReportInv, EntryBacked
    <3>5. entries[t].stage \in {"none", "collecting"} \/ Quorum(t, i)'
      BY <1>0, <3>1, <3>2, QuorumStays DEF ReportInv, EntryBacked, Escalated, Stages
    <3>6. (\A n \in Nodes : EntryBacked(n)') /\ (\A d \in Callers : CallBacked(d)')
      BY <1>0, <3>1, <3>2, <3>3, <3>4, <3>5, FileReportBacked
    <3> QED BY <1>2, <1>3, <3>6 DEF ReportInv
  <2> QED BY <2>1, <2>2
<1>6. CASE ProcessUntracked(c, r, t, i)
  <2>1. \A n \in Nodes : EntryBacked(n)'
    BY <1>0, <1>6, EntryStays DEF ProcessUntracked
  <2>2. calls'[c] = [pc |-> "readLocal", reporter |-> r, target |-> t, inc |-> i]
    BY <1>6 DEF ProcessUntracked, TypeOK
  <2>3. CallBacked(c)'
    BY <1>0, <2>2 DEF CallBacked, ReportersOf
  <2>4. \A d \in Callers \ {c} : calls'[d] = calls[d]
    BY <1>6 DEF ProcessUntracked, TypeOK
  <2>5. \A d \in Callers : CallBacked(d)'
    BY <1>0, <2>3, <2>4, CallStays
  <2> QED BY <1>2, <1>3, <2>1, <2>5 DEF ReportInv
<1> QED BY <1>4, <1>5, <1>6 DEF ProcessSuspicion

\* A step that spawns no callback and reaches no verdict.
LEMMA QuietBacked ==
  ASSUME TypeOK, TypeOK', ReportInv, reports \subseteq reports',
         \A t \in Nodes : EntryBacked(t)', \A c \in Callers : CallBacked(c)',
         toConfirm' \subseteq toConfirm,
         \A cb \in Callback : callbacks'[cb] <= callbacks[cb]
  PROVE  ReportInv'
BY VerdictsStay, CallbackStays DEF ReportInv

\* The rest of a call.
LEMMA ContinueBacked ==
  ASSUME TypeOK, TypeOK', ReportInv, NEW c \in Callers, Continue(c), UNCHANGED reports
  PROVE  ReportInv'
<1>0. reports \subseteq reports' /\ toConfirm' = toConfirm
  BY DEF Continue, ReadLocal, CreateEntry, MarkSuspected, ClearUntracked, ClearTracked, ClearMember
<1>1. calls[c] # Idle
  BY DEF Continue, ReadLocal, CreateEntry, MarkSuspected, ClearUntracked, ClearTracked, Idle
<1>2. \A d \in Callers \ {c} : calls'[d] = calls[d]
  BY DEF Continue, ReadLocal, CreateEntry, MarkSuspected, ClearUntracked, ClearTracked,
         ClearMember, FileReport, TypeOK
<1>3. CASE ReadLocal(c)
  <2>1. \A n \in Nodes : EntryBacked(n)'
    BY <1>0, <1>3, EntryStays DEF ReadLocal
  <2>2. CallBacked(c)'
    <3>1. CASE calls'[c] = Idle
      BY <3>1 DEF CallBacked, Idle
    <3>2. CASE calls'[c] # Idle
      <4>1. PICK r \in Reporters, t \in Nodes, i \in Incs :
              calls[c] = [pc |-> "readLocal", reporter |-> r, target |-> t, inc |-> i]
        BY <1>3 DEF ReadLocal, TypeOK, Call, Idle
      <4>2. calls'[c] = [pc |-> "create", reporter |-> r, target |-> t, inc |-> i]
        BY <1>3, <3>2, <4>1 DEF ReadLocal, TypeOK
      <4>3. r \in ReportersOf(t, i)
        BY <4>1 DEF ReportInv, CallBacked
      <4>4. r \in ReportersOf(t, i)'
        BY <1>0, <4>3, QuorumStays
      <4> QED BY <4>2, <4>4 DEF CallBacked, ReportersOf
    <3> QED BY <3>1, <3>2
  <2>4. \A d \in Callers : CallBacked(d)'
    BY <1>0, <1>2, <2>2, CallStays
  <2>5. \A cb \in Callback : callbacks'[cb] <= callbacks[cb]
    BY <1>3 DEF ReadLocal, TypeOK
  <2> QED BY <1>0, <2>1, <2>4, <2>5, QuietBacked
<1>4. CASE CreateEntry(c)
  <2>1. PICK r \in Reporters, t \in Nodes, i \in Incs :
          r = calls[c].reporter /\ t = calls[c].target /\ i = calls[c].inc
    BY <1>1, <1>4, CallFields DEF CreateEntry
  <2>2. Fresh(i) \in Entry /\ Fresh(i).inc = i /\ Fresh(i).reporters = {}
        /\ Fresh(i).stage = "collecting"
    BY DEF Fresh, Entry, Stages
  <2>3. r \in ReportersOf(t, i)'
    BY <1>4, <2>1 DEF CreateEntry, ReportInv, CallBacked, ReportersOf
  <2>4. FileReport(c, r, t, Fresh(i))
    BY <1>4, <2>1 DEF CreateEntry
  <2>5. (\A n \in Nodes : EntryBacked(n)') /\ (\A d \in Callers : CallBacked(d)')
    BY <1>0, <2>2, <2>3, <2>4, FileReportBacked
  <2>6. \A cb \in Callback : callbacks'[cb] <= callbacks[cb]
    BY <1>4 DEF CreateEntry, TypeOK
  <2> QED BY <1>0, <2>5, <2>6, QuietBacked
<1>5. ASSUME MarkSuspected(c) \/ ClearUntracked(c) \/ ClearTracked(c)
      PROVE  ReportInv'
  <2>1. \A n \in Nodes : EntryBacked(n)'
    BY <1>0, <1>5, EntryStays DEF MarkSuspected, ClearUntracked, ClearTracked, ClearMember
  <2>2. calls'[c] = Idle
    BY <1>5 DEF MarkSuspected, ClearUntracked, ClearTracked, ClearMember, TypeOK
  <2>3. CallBacked(c)'
    BY <2>2 DEF CallBacked, Idle
  <2>4. \A d \in Callers : CallBacked(d)'
    BY <1>0, <1>2, <2>3, CallStays
  <2>5. PICK t \in Nodes, i \in Incs : t = calls[c].target /\ i = calls[c].inc
    BY <1>1, CallFields
  <2>6. CASE MarkSuspected(c)
    <3>1. Cb("OnSuspect", t, i) \in Callback
      BY DEF Cb, Callback
    <3>2. Quorum(t, i)
      BY <2>5, <2>6 DEF MarkSuspected, ReportInv, CallBacked
    <3>3. Quorum(t, i)'
      BY <1>0, <3>2, QuorumStays
    <3>4. Quorum(Cb("OnSuspect", t, i).target, Cb("OnSuspect", t, i).inc)'
      BY <3>3 DEF Cb
    <3>5. Spawn({Cb("OnSuspect", t, i)})
      BY <2>5, <2>6 DEF MarkSuspected
    <3>6. \A cb \in Callback : CallbackBacked(cb)'
      BY <1>0, <3>1, <3>4, <3>5, SpawnBacked
    <3> QED BY <1>0, <2>1, <2>4, <3>6, VerdictsStay DEF ReportInv
  <2>7. CASE ClearTracked(c)
    <3>1. Cb("OnClear", t, i) \in Callback /\ Cb("OnClear", t, i).kind = "OnClear"
      BY DEF Cb, Callback
    <3>2. Spawn({Cb("OnClear", t, i)})
      BY <2>5, <2>7 DEF ClearTracked
    <3>3. \A cb \in Callback : CallbackBacked(cb)'
      BY <1>0, <3>1, <3>2, SpawnBacked
    <3> QED BY <1>0, <2>1, <2>4, <3>3, VerdictsStay DEF ReportInv
  <2>8. CASE ClearUntracked(c)
    <3>1. \A cb \in Callback : callbacks'[cb] <= callbacks[cb]
      BY <2>8 DEF ClearUntracked, TypeOK
    <3> QED BY <1>0, <2>1, <2>4, <3>1, QuietBacked
  <2> QED BY <1>5, <2>6, <2>7, <2>8
<1> QED BY <1>3, <1>4, <1>5 DEF Continue

\* ClearSuspect only takes entries away.
LEMMA ClearBacked ==
  ASSUME TypeOK, TypeOK', ReportInv, NEW c \in Callers, NEW t \in Nodes, NEW i \in Incs,
         ClearSuspect(c, t, i), UNCHANGED reports
  PROVE  ReportInv'
<1>0. reports \subseteq reports' /\ toConfirm' = toConfirm
  BY DEF ClearSuspect, ClearStale, ClearLookup, vars
<1>1. \A cb \in Callback : callbacks'[cb] <= callbacks[cb]
  BY DEF ClearSuspect, ClearStale, ClearLookup, vars, TypeOK
<1>2. \A n \in Nodes : entries'[n] = entries[n] \/ entries'[n] = NoEntry
  BY DEF ClearSuspect, ClearStale, ClearLookup, vars, TypeOK
<1>3. \A n \in Nodes : EntryBacked(n)'
  <2> TAKE n \in Nodes
  <2>1. CASE entries'[n] = entries[n]
    BY <1>0, <2>1, EntryStays
  <2>2. CASE entries'[n] = NoEntry
    BY <2>2 DEF NoEntry, EntryBacked, Escalated
  <2> QED BY <1>2, <2>1, <2>2
<1>4. \A d \in Callers : calls'[d] = calls[d] \/ calls'[d].pc \in {"clearUntracked", "clearTracked"}
  BY DEF ClearSuspect, ClearStale, ClearLookup, vars, TypeOK
<1>5. \A d \in Callers : CallBacked(d)'
  <2> TAKE d \in Callers
  <2>1. CASE calls'[d] = calls[d]
    BY <1>0, <2>1, CallStays
  <2>2. CASE calls'[d].pc \in {"clearUntracked", "clearTracked"}
    BY <2>2 DEF CallBacked
  <2> QED BY <1>4, <2>1, <2>2
<1> QED BY <1>0, <1>1, <1>3, <1>5, QuietBacked

\* A new stage of an escalated entry rests on the quorum of the old one.
LEMMA AdvanceBacked ==
  ASSUME TypeOK, ReportInv, reports \subseteq reports', NEW t \in Nodes, Escalated(t),
         entries'[t].inc = entries[t].inc, entries'[t].reporters = entries[t].reporters
  PROVE  EntryBacked(t)'
<1>1. PICK i \in Incs : i = entries[t].inc
  BY DEF TypeOK, Entry
<1>2. entries[t].reporters \subseteq ReportersOf(t, i) /\ Quorum(t, i)
  BY <1>1 DEF ReportInv, EntryBacked
<1>3. entries[t].reporters \subseteq ReportersOf(t, i)' /\ Quorum(t, i)'
  BY <1>2, QuorumStays
<1> QED BY <1>1, <1>3 DEF EntryBacked, Quorum, ReportersOf

\* The check loop and the clock: verdicts come from entries with a quorum, and
\* OnConfirm is spawned for verdicts.
LEMMA CheckBacked ==
  ASSUME TypeOK, TypeOK', ReportInv, UNCHANGED reports,
         CheckScan \/ CheckApply \/ (\E t \in Nodes : Elapse(t))
  PROVE  ReportInv'
<1>0. reports \subseteq reports' /\ calls' = calls
  BY DEF CheckScan, CheckApply, Elapse
<1>1. \A c \in Callers : CallBacked(c)'
  BY <1>0, CallStays
<1>2. CASE CheckScan
  <2>1. \A t \in Nodes : EntryBacked(t)'
    <3> TAKE t \in Nodes
    <3>1. CASE entries[t].stage = "due"
      <4>1. entries'[t] = [entries[t] EXCEPT !.stage = "confirmed"]
        BY <1>2, <3>1 DEF CheckScan, DueTargets, ExpiredTargets
      <4>2. entries'[t].inc = entries[t].inc /\ entries'[t].reporters = entries[t].reporters
        BY <4>1 DEF TypeOK, Entry
      <4> QED BY <1>0, <3>1, <4>2, AdvanceBacked DEF Escalated
    <3>2. CASE entries[t].stage = "expired"
      <4>1. entries'[t] = NoEntry
        BY <1>2, <3>2 DEF CheckScan, DueTargets, ExpiredTargets
      <4> QED BY <4>1 DEF NoEntry, EntryBacked, Escalated
    <3>3. CASE entries[t].stage \notin {"due", "expired"}
      <4>1. entries'[t] = entries[t]
        BY <1>2, <3>3 DEF CheckScan, DueTargets, ExpiredTargets
      <4> QED BY <1>0, <4>1, EntryStays
    <3> QED BY <3>1, <3>2, <3>3
  <2>2. \A v \in toConfirm' : Quorum(v.target, v.inc)'
    <3> TAKE v \in toConfirm'
    <3>1. PICK t \in DueTargets : v = [target |-> t, inc |-> entries[t].inc]
      BY <1>2 DEF CheckScan
    <3>2. t \in Nodes /\ Escalated(t)
      BY <3>1 DEF DueTargets, Escalated
    <3>3. entries[t].inc \in Incs
      BY <3>2 DEF TypeOK, Entry
    <3>4. Quorum(t, entries[t].inc)
      BY <3>2 DEF ReportInv, EntryBacked
    <3>5. Quorum(v.target, v.inc)
      BY <3>1, <3>4
    <3>6. v.target \in Nodes /\ v.inc \in Incs
      BY <3>1, <3>2, <3>3
    <3> QED BY <1>0, <3>5, <3>6, QuorumStays
  <2>3. \A cb \in Callback : CallbackBacked(cb)'
    <3>1. \A cb \in Callback : callbacks'[cb] <= callbacks[cb]
      BY <1>2 DEF CheckScan, TypeOK
    <3> QED BY <1>0, <3>1, CallbackStays
  <2> QED BY <1>1, <2>1, <2>2, <2>3 DEF ReportInv
<1>3. CASE CheckApply
  <2>1. \A t \in Nodes : EntryBacked(t)'
    BY <1>0, <1>3, EntryStays DEF CheckApply
  <2>2. PICK cbs : cbs = {Cb("OnConfirm", v.target, v.inc) :
                            v \in {w \in toConfirm : Present(members[w.target])}}
    OBVIOUS
  <2>3. cbs \in SUBSET Callback
    BY <2>2 DEF Cb, Callback, TypeOK, Verdict
  <2>4. \A cb \in cbs : Quorum(cb.target, cb.inc)'
    <3> TAKE cb \in cbs
    <3>1. PICK v \in toConfirm : cb = Cb("OnConfirm", v.target, v.inc)
      BY <2>2
    <3>2. cb.target = v.target /\ cb.inc = v.inc
      BY <3>1 DEF Cb
    <3>3. Quorum(v.target, v.inc)'
      BY <1>0, VerdictsStay
    <3> QED BY <3>2, <3>3
  <2>5. Spawn(cbs) /\ toConfirm' = {}
    BY <1>3, <2>2 DEF CheckApply
  <2>6. \A cb \in Callback : CallbackBacked(cb)'
    BY <1>0, <2>3, <2>4, <2>5, SpawnBacked
  <2> QED BY <1>1, <2>1, <2>5, <2>6 DEF ReportInv
<1>4. CASE \E t \in Nodes : Elapse(t)
  <2>1. PICK t \in Nodes : Elapse(t)
    BY <1>4
  <2>2. Escalated(t) /\ entries'[t].inc = entries[t].inc
        /\ entries'[t].reporters = entries[t].reporters
    BY <2>1 DEF Elapse, Escalated, TypeOK, Entry
  <2>3. \A n \in Nodes \ {t} : entries'[n] = entries[n]
    BY <2>1 DEF Elapse, TypeOK
  <2>4. \A n \in Nodes : EntryBacked(n)'
    BY <1>0, <2>2, <2>3, AdvanceBacked, EntryStays
  <2>5. toConfirm' = toConfirm /\ \A cb \in Callback : callbacks'[cb] <= callbacks[cb]
    BY <2>1 DEF Elapse, TypeOK
  <2> QED BY <1>0, <1>1, <2>4, <2>5, QuietBacked
<1> QED BY <1>2, <1>3, <1>4

\* Callbacks that run and changes of the list touch nothing the invariant is about.
LEMMA ListBacked ==
  ASSUME TypeOK, TypeOK', ReportInv, UNCHANGED reports,
         ListChange \/ (\E t \in Nodes, i \in Incs : RunCallback(t, i))
  PROVE  ReportInv'
<1>0. reports \subseteq reports' /\ calls' = calls /\ entries' = entries /\ toConfirm' = toConfirm
  BY DEF ListChange, RunCallback, OnSuspect, OnConfirm, OnClear
<1>1. \A cb \in Callback : callbacks'[cb] <= callbacks[cb]
  BY DEF ListChange, RunCallback, OnSuspect, OnConfirm, OnClear, Run, TypeOK
<1>2. \A t \in Nodes : EntryBacked(t)'
  BY <1>0, EntryStays
<1>3. \A c \in Callers : CallBacked(c)'
  BY <1>0, CallStays
<1> QED BY <1>0, <1>1, <1>2, <1>3, QuietBacked

\* A new manager has no entry, call, verdict or callback to back.
LEMMA ReportInvInit == ReportInit => ReportInv
BY DEF ReportInit, Init, ReportInv, EntryBacked, CallBacked, CallbackBacked, NoEntry, Escalated, Idle

\* Every step of the manager with its history keeps everything backed.
LEMMA ReportInvStep ==
  TypeOK /\ TypeOK' /\ ReportInv /\ [ReportNext]_<<vars, reports>> => ReportInv'
<1> SUFFICES ASSUME TypeOK, TypeOK', ReportInv, [ReportNext]_<<vars, reports>>
             PROVE  ReportInv'
  OBVIOUS
<1>1. ASSUME NEW c \in Callers, NEW r \in Reporters, NEW t \in Nodes \cup {LocalNode}, NEW i \in Incs,
             ProcessSuspicion(c, r, t, i),
             reports' = reports \cup
               {n \in {[reporter |-> r, target |-> t, inc |-> i]} : t # LocalNode}
      PROVE  ReportInv'
  <2>1. CASE t # LocalNode
    <3>1. t \in Nodes
      BY <2>1
    <3>2. reports' = reports \cup {[reporter |-> r, target |-> t, inc |-> i]}
      BY <1>1, <2>1
    <3> QED BY <1>1, <2>1, <3>1, <3>2, ProcessBacked
  <2>2. CASE t = LocalNode
    <3>1. RefuteSelf(c, i)
      BY <1>1, <2>2 DEF ProcessSuspicion, ProcessStale, ProcessTracked, ProcessUntracked
    <3>2. reports \subseteq reports' /\ calls' = calls /\ entries' = entries
          /\ toConfirm' = toConfirm /\ callbacks' = callbacks
      BY <1>1, <3>1 DEF RefuteSelf
    <3>3. \A cb \in Callback : callbacks'[cb] <= callbacks[cb]
      BY <3>2 DEF TypeOK
    <3> QED BY <3>2, <3>3, EntryStays, CallStays, QuietBacked
  <2> QED BY <2>1, <2>2
<1>2. ASSUME ManagerStep, UNCHANGED reports
      PROVE  ReportInv'
  BY <1>2, ContinueBacked, CheckBacked, ListBacked DEF ManagerStep
<1>3. ASSUME UNCHANGED <<vars, reports>>
      PROVE  ReportInv'
  <2>1. \A cb \in Callback : callbacks'[cb] <= callbacks[cb]
    BY <1>3 DEF vars, TypeOK
  <2> QED BY <1>3, <2>1, EntryStays, CallStays, QuietBacked DEF vars
<1> QED BY <1>1, <1>2, <1>3, ClearBacked, ListBacked DEF ReportNext

\* Nothing the manager does about an incarnation of a node happens without
\* RequireReports nodes having reported that incarnation (ProcessSuspicion, check).
THEOREM QuorumTheorem == ReportSpec => []QuorumBehindEscalation
<1>1. ReportInit => ReportInv
  BY ReportInvInit
<1>2. TypeOK /\ TypeOK' /\ ReportInv /\ [ReportNext]_<<vars, reports>> => ReportInv'
  BY ReportInvStep
<1>3. ReportInv => QuorumBehindEscalation
  BY DEF ReportInv, QuorumBehindEscalation, EntryBacked, CallBacked, CallbackBacked
<1> QED BY <1>1, <1>2, <1>3, ReportType, PTL DEF ReportSpec

=============================================================================
