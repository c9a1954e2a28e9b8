----------------------------- MODULE Suspicion -----------------------------
(***************************************************************************)
(* The suspicion manager (utils/suspicion.go) together with the three      *)
(* callbacks main.go installs in it, on one node.                          *)
(*                                                                         *)
(* One step is one critical section.  The manager has a lock of its own    *)
(* (sm.mu, guarding entries) and uses the lock of the membership list      *)
(* (guarding members and incarnation), and it never holds both: every      *)
(* operation is a sequence of sections between which the goroutines that   *)
(* call it, its own check loop and the goroutines that run callbacks       *)
(* interleave.                                                             *)
(*                                                                         *)
(* The goroutines that call the manager are Callers.  Here they call with  *)
(* any arguments, and anything may happen to the membership list at any    *)
(* time (ListChange), so what holds here holds of every program around the *)
(* manager.  DetectorNode.tla puts the detectors of the repository there.  *)
(*                                                                         *)
(* There is no clock.  That SuspicionTimeout has passed since firstReport, *)
(* or that cleanupAfter has passed, is a stage of the entry which an       *)
(* action of its own (Elapse) reaches at any time.                         *)
(***************************************************************************)
EXTENDS Members, FiniteSets

CONSTANTS
  LocalNode,        \* the node this manager runs on
  Nodes,            \* nodes the membership list may hold
  Reporters,        \* nodes whose suspicions reach the manager
  Callers,          \* goroutines that call the manager
  RequireReports,   \* opts.RequireReports
  MaxIncarnation,   \* bound on incarnation numbers
  MaxOutstanding,   \* bound on different callbacks that have not run yet
  MaxCopies         \* bound on equal callbacks that have not run yet

ASSUME SuspicionAssumption ==
  /\ IsFiniteSet(Reporters)
  /\ RequireReports \in Nat \ {0}
  /\ MaxIncarnation \in Nat
  /\ MaxIncarnation < MaxInt32
  /\ MaxOutstanding \in Nat \ {0}
  /\ MaxCopies \in Nat \ {0}

Incs == 0 .. MaxIncarnation

\* "none": the map has no key.  "collecting": firstReport is not set.  When the
\* time of a "reported" entry has passed and check has not seen it yet it is
\* "due", and a "confirmed" one is "expired".
Stages == {"none", "collecting", "reported", "due", "confirmed", "expired"}
Entry   == [stage : Stages, inc : Incs, reporters : SUBSET Reporters]
NoEntry == [stage |-> "none", inc |-> 0, reporters |-> {}]

\* Where a goroutine is inside ProcessSuspicion or ClearSuspect.
Idle == [pc |-> "idle"]
Call == {Idle}
          \cup [pc : {"readLocal", "create", "mark"},
                reporter : Reporters, target : Nodes, inc : Incs]
          \cup [pc : {"clearUntracked", "clearTracked"}, target : Nodes, inc : Incs]

Callback == [kind : {"OnSuspect", "OnConfirm", "OnClear"}, target : Nodes, inc : Incs]
Verdict  == [target : Nodes, inc : Incs]

VARIABLES
  members,       \* MembershipList.Members, as the entry of every node or Absent
  incarnation,   \* MembershipList.Incarnation, this node's own
  entries,       \* SuspicionManager.entries, NoEntry where the map has no key
  calls,         \* what each caller is doing in the manager
  toConfirm,     \* check: verdicts reached and not yet written to the list
  callbacks      \* how often each callback was spawned and has not run yet

vars == <<members, incarnation, entries, calls, toConfirm, callbacks>>

Init ==
  /\ members \in [Nodes -> {Absent, Rec("Alive", 0)}]
  /\ incarnation = 0
  /\ entries   = [t \in Nodes |-> NoEntry]
  /\ calls     = [c \in Callers |-> Idle]
  /\ toConfirm = {}
  /\ callbacks = [cb \in Callback |-> 0]

-----------------------------------------------------------------------------
(* Entries                                                                 *)

Fresh(i) == [stage |-> "collecting", inc |-> i, reporters |-> {}]

\* The entry with one more reporter, and firstReport set when that is enough.
AddReporter(e, r) ==
  LET rs == e.reporters \cup {r}
  IN  [stage     |-> IF e.stage = "collecting" /\ Cardinality(rs) >= RequireReports
                     THEN "reported" ELSE e.stage,
       inc       |-> e.inc,
       reporters |-> rs]

Escalates(e, r) == e.stage = "collecting" /\ AddReporter(e, r).stage = "reported"

Escalated(t) == entries[t].stage \in {"reported", "due", "confirmed", "expired"}

-----------------------------------------------------------------------------
(* Callbacks.  They run in goroutines of their own, in any order.          *)

Cb(k, t, i) == [kind |-> k, target |-> t, inc |-> i]

Outstanding == {cb \in Callback : callbacks[cb] > 0}

\* Bounds: a goroutine that would exceed them waits here.
Spawn(cbs) ==
  /\ Cardinality(Outstanding \cup cbs) <= MaxOutstanding
  /\ \A cb \in cbs : callbacks[cb] < MaxCopies
  /\ callbacks' = [cb \in Callback |-> callbacks[cb] + (IF cb \in cbs THEN 1 ELSE 0)]

\* Mutant of Run: a callback nobody spawned.
RunUnspawned(cb) == callbacks' = [callbacks EXCEPT ![cb] = @ - 1]

Run(cb) ==
  /\ callbacks[cb] > 0
  /\ callbacks' = [callbacks EXCEPT ![cb] = @ - 1]

\* Status and incarnation are overwritten with those of the suspicion.
OnSuspect(t, i) ==
  /\ Run(Cb("OnSuspect", t, i))
  /\ members' = [members EXCEPT ![t] = Overwrite(@, "Suspected", i)]
  /\ UNCHANGED <<incarnation, entries, calls, toConfirm>>

OnConfirm(t, i) ==
  /\ Run(Cb("OnConfirm", t, i))
  /\ members' = [members EXCEPT ![t] = Overwrite(@, "Failed", i)]
  /\ UNCHANGED <<incarnation, entries, calls, toConfirm>>

\* The status becomes Alive in any case, the incarnation is only raised.
OnClear(t, i) ==
  /\ Run(Cb("OnClear", t, i))
  /\ members' = [members EXCEPT ![t] =
                   Overwrite(@, "Alive", IF i >= @.inc THEN i ELSE @.inc)]
  /\ UNCHANGED <<incarnation, entries, calls, toConfirm>>

-----------------------------------------------------------------------------
(* ProcessSuspicion                                                        *)

\* A report about this node itself: it picks an incarnation that outlives it.
RefuteSelf(c, i) ==
  /\ calls[c] = Idle
  /\ Refutation(incarnation, i) \in Incs
  /\ incarnation' = Refutation(incarnation, i)
  /\ UNCHANGED <<members, entries, calls, toConfirm, callbacks>>

\* The end of the section under sm.mu: reporter r joins entry e, and the call
\* goes on to mark the member if that made the entry escalate.
FileReport(c, r, t, e) ==
  /\ entries' = [entries EXCEPT ![t] = AddReporter(e, r)]
  /\ calls' = [calls EXCEPT ![c] =
                 IF Escalates(e, r)
                 THEN [pc |-> "mark", reporter |-> r, target |-> t, inc |-> e.inc]
                 ELSE Idle]

\* A report about an incarnation older than the tracked one is dropped.
ProcessStale(c, r, t, i) ==
  /\ calls[c] = Idle
  /\ t # LocalNode
  /\ entries[t].stage # "none" /\ i < entries[t].inc
  /\ UNCHANGED <<members, incarnation, entries, calls, toConfirm, callbacks>>

\* Mutants of ProcessTracked: a report of the same incarnation starts over too; the
\* reporters of the older incarnation are kept.
ProcessTrackedRestarting(c, r, t, i) ==
  /\ calls[c] = Idle
  /\ t # LocalNode
  /\ entries[t].stage # "none" /\ i >= entries[t].inc
  /\ FileReport(c, r, t, Fresh(i))
  /\ UNCHANGED <<members, incarnation, toConfirm, callbacks>>

ProcessTrackedKeeping(c, r, t, i) ==
  /\ calls[c] = Idle
  /\ t # LocalNode
  /\ entries[t].stage # "none" /\ i >= entries[t].inc
  /\ FileReport(c, r, t, [entries[t] EXCEPT !.inc = i])
  /\ UNCHANGED <<members, incarnation, toConfirm, callbacks>>

\* One about the tracked incarnation joins it, one about a newer starts over.
ProcessTracked(c, r, t, i) ==
  /\ calls[c] = Idle
  /\ t # LocalNode
  /\ entries[t].stage # "none" /\ i >= entries[t].inc
  /\ FileReport(c, r, t, IF i > entries[t].inc THEN Fresh(i) ELSE entries[t])
  /\ UNCHANGED <<members, incarnation, toConfirm, callbacks>>

\* Nothing is tracked: sm.mu is given up to look at the membership list.
ProcessUntracked(c, r, t, i) ==
  /\ calls[c] = Idle
  /\ t # LocalNode
  /\ entries[t].stage = "none"
  /\ calls' = [calls EXCEPT ![c] =
                 [pc |-> "readLocal", reporter |-> r, target |-> t, inc |-> i]]
  /\ UNCHANGED <<members, incarnation, entries, toConfirm, callbacks>>

\* A report older than the list is dropped.  An absent member counts as 0.
ReadLocal(c) ==
  /\ calls[c].pc = "readLocal"
  /\ calls' = [calls EXCEPT ![c] =
                 IF @.inc < members[@.target].inc THEN Idle ELSE [@ EXCEPT !.pc = "create"]]
  /\ UNCHANGED <<members, incarnation, entries, toConfirm, callbacks>>

\* sm.mu again: a new entry is stored, whatever the map holds by now.
CreateEntry(c) ==
  /\ calls[c].pc = "create"
  /\ FileReport(c, calls[c].reporter, calls[c].target, Fresh(calls[c].inc))
  /\ UNCHANGED <<members, incarnation, toConfirm, callbacks>>

\* The membership section that follows an escalation.
MarkSuspected(c) ==
  /\ calls[c].pc = "mark"
  /\ members' = [members EXCEPT ![calls[c].target] = Mark(@, "Suspected")]
  /\ Spawn({Cb("OnSuspect", calls[c].target, calls[c].inc)})
  /\ calls' = [calls EXCEPT ![c] = Idle]
  /\ UNCHANGED <<incarnation, entries, toConfirm>>

-----------------------------------------------------------------------------
(* ClearSuspect                                                            *)

\* A sign of life older than what is tracked is dropped.
ClearStale(c, t, i) ==
  /\ calls[c] = Idle
  /\ entries[t].stage # "none" /\ i < entries[t].inc
  /\ UNCHANGED vars

\* Otherwise an entry is deleted, if there is one, and the list is next.
ClearLookup(c, t, i) ==
  /\ calls[c] = Idle
  /\ entries[t].stage = "none" \/ i >= entries[t].inc
  /\ entries' = [entries EXCEPT ![t] = NoEntry]
  /\ calls' = [calls EXCEPT ![c] =
                 [pc |-> IF entries[t].stage = "none" THEN "clearUntracked" ELSE "clearTracked",
                  target |-> t, inc |-> i]]
  /\ UNCHANGED <<members, incarnation, toConfirm, callbacks>>

ClearMember(c) ==
  /\ members' = [members EXCEPT ![calls[c].target] = Revive(@, calls[c].inc)]
  /\ calls' = [calls EXCEPT ![c] = Idle]
  /\ UNCHANGED <<incarnation, entries, toConfirm>>

ClearUntracked(c) ==
  /\ calls[c].pc = "clearUntracked"
  /\ ClearMember(c)
  /\ UNCHANGED callbacks

ClearTracked(c) ==
  /\ calls[c].pc = "clearTracked"
  /\ ClearMember(c)
  /\ Spawn({Cb("OnClear", calls[c].target, calls[c].inc)})

-----------------------------------------------------------------------------
(* The check loop and the passing of time                                  *)

DueTargets     == {t \in Nodes : entries[t].stage = "due"}
ExpiredTargets == {t \in Nodes : entries[t].stage = "expired"}

\* Mutants of CheckScan: the verdicts are not kept for the membership section;
\* entries past their retention are not deleted.
CheckScanForgetful ==
  /\ DueTargets # {}
  /\ entries' = [t \in Nodes |-> IF t \in DueTargets
                                 THEN [entries[t] EXCEPT !.stage = "confirmed"] ELSE entries[t]]
  /\ UNCHANGED <<members, incarnation, calls, toConfirm, callbacks>>

CheckScanHoarding ==
  /\ toConfirm = {}
  /\ DueTargets # {}
  /\ entries' = [t \in Nodes |-> IF t \in DueTargets
                                 THEN [entries[t] EXCEPT !.stage = "confirmed"] ELSE entries[t]]
  /\ toConfirm' = {[target |-> t, inc |-> entries[t].inc] : t \in DueTargets}
  /\ UNCHANGED <<members, incarnation, calls, callbacks>>

\* check under sm.mu: entries that ran out of time are confirmed, confirmed
\* ones past their retention are deleted.  A pass that finds neither is no step.
CheckScan ==
  /\ toConfirm = {}
  /\ DueTargets \cup ExpiredTargets # {}
  /\ entries' = [t \in Nodes |->
                   CASE t \in DueTargets     -> [entries[t] EXCEPT !.stage = "confirmed"]
                     [] t \in ExpiredTargets -> NoEntry
                     [] OTHER                -> entries[t]]
  /\ toConfirm' = {[target |-> t, inc |-> entries[t].inc] : t \in DueTargets}
  /\ UNCHANGED <<members, incarnation, calls, callbacks>>

\* check under the membership lock: every verdict is written, whatever the
\* member is by now, and OnConfirm spawned for those the list holds.
CheckApply ==
  /\ toConfirm # {}
  /\ members' = [t \in Nodes |->
                   IF \E v \in toConfirm : v.target = t
                   THEN Mark(members[t], "Failed") ELSE members[t]]
  /\ Spawn({Cb("OnConfirm", v.target, v.inc) :
              v \in {w \in toConfirm : Present(members[w.target])}})
  /\ toConfirm' = {}
  /\ UNCHANGED <<incarnation, entries, calls>>

\* The time an entry waits for passes.
Elapse(t) ==
  /\ entries[t].stage \in {"reported", "confirmed"}
  /\ entries' = [entries EXCEPT ![t].stage = IF @ = "reported" THEN "due" ELSE "expired"]
  /\ UNCHANGED <<members, incarnation, calls, toConfirm, callbacks>>

-----------------------------------------------------------------------------
(* The specification                                                       *)

ProcessSuspicion(c, r, t, i) ==
  \/ t = LocalNode /\ RefuteSelf(c, i)
  \/ ProcessStale(c, r, t, i)
  \/ ProcessTracked(c, r, t, i)
  \/ ProcessUntracked(c, r, t, i)

ClearSuspect(c, t, i) == ClearStale(c, t, i) \/ ClearLookup(c, t, i)

\* A call on its way.
Continue(c) ==
  \/ ReadLocal(c)
  \/ CreateEntry(c)
  \/ MarkSuspected(c)
  \/ ClearUntracked(c)
  \/ ClearTracked(c)

RunCallback(t, i) == OnSuspect(t, i) \/ OnConfirm(t, i) \/ OnClear(t, i)

\* Anybody else who holds the membership lock.
ListChange ==
  /\ members' \in [Nodes -> Member(Incs)]
  /\ UNCHANGED <<incarnation, entries, calls, toConfirm, callbacks>>

\* The manager with its own goroutines, without its callers.
ManagerStep ==
  \/ \E c \in Callers : Continue(c)
  \/ \E t \in Nodes, i \in Incs : RunCallback(t, i)
  \/ \E t \in Nodes : Elapse(t)
  \/ CheckScan
  \/ CheckApply

Next ==
  \/ \E c \in Callers, r \in Reporters, t \in Nodes \cup {LocalNode}, i \in Incs :
       ProcessSuspicion(c, r, t, i)
  \/ \E c \in Callers, t \in Nodes, i \in Incs : ClearSuspect(c, t, i)
  \/ ManagerStep
  \/ ListChange

\* Goroutines that can run do run, and time passes.
ManagerFairness ==
  /\ \A c \in Callers : WF_vars(Continue(c))
  /\ \A t \in Nodes, i \in Incs :
       WF_vars(OnSuspect(t, i)) /\ WF_vars(OnConfirm(t, i)) /\ WF_vars(OnClear(t, i))
  /\ \A t \in Nodes : WF_vars(Elapse(t))
  /\ WF_vars(CheckScan)
  /\ WF_vars(CheckApply)

Spec == Init /\ [][Next]_vars

-----------------------------------------------------------------------------
(* Properties                                                              *)

TypeOK ==
  /\ members \in [Nodes -> Member(Incs)]
  /\ incarnation \in Incs
  /\ entries \in [Nodes -> Entry]
  /\ calls \in [Callers -> Call]
  /\ toConfirm \subseteq Verdict
  /\ callbacks \in [Callback -> 0 .. MaxCopies]

\* An escalated entry that nothing clears or replaces ends in a verdict: check
\* marks the member Failed unless the list has lost it in the meantime.
EscalationReachesVerdict ==
  \A t \in Nodes :
    entries[t].stage = "reported" ~>
      \/ entries[t].stage \in {"none", "collecting"}
      \/ members[t].status \in {"Failed", "Absent"}

\* No entry stays behind a verdict for good: check drops it after its retention
\* unless a newer suspicion takes its place.
VerdictsAreForgotten ==
  \A t \in Nodes : entries[t].stage = "confirmed" ~> entries[t].stage # "confirmed" /\ entries[t].stage # "expired"

\* What an entry is in the terms of SuspicionCases.
CaseStage(s) ==
  CASE s = "none"                      -> "none"
    [] s = "collecting"                -> "open"
    [] s \in {"reported", "due"}       -> "escalated"
    [] s \in {"confirmed", "expired"}  -> "closed"

CaseOf(e) == [stage |-> CaseStage(e.stage), inc |-> e.inc, reporters |-> e.reporters]

Enough == {rs \in SUBSET Reporters : Cardinality(rs) >= RequireReports}

\* The report of a call that gave sm.mu up because nothing was tracked.
FoundNone(call) ==
  IF call.pc \in {"readLocal", "create"}
  THEN {[reporter |-> call.reporter, target |-> call.target, inc |-> call.inc]}
  ELSE {}

Cases == INSTANCE SuspicionCases WITH cases <- [t \in Nodes |-> CaseOf(entries[t])],
                                      found <- [c \in Callers |-> FoundNone(calls[c])]

\* However many goroutines call it, the manager keeps its cases as SuspicionCases has
\* them: reporters accumulate, stages advance, an older incarnation never takes over, and
\* only a report whose caller found nothing tracked and gave sm.mu up (suspicion.go:114-131)
\* can take the place of a case it is not newer than.
ImplementsCases == Cases!Spec

\* README.md:31 says the manager "aggregates suspicion reports": while an entry
\* is about one incarnation, no reporter is ever lost from it (ProcessSuspicion).
AggregatesReports ==
  [][\A t \in Nodes :
       entries[t].stage # "none" /\ entries'[t].stage # "none" /\ entries'[t].inc = entries[t].inc
         => entries[t].reporters \subseteq entries'[t].reporters]_vars

=============================================================================
