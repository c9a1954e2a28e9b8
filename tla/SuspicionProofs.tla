-------------------------- MODULE SuspicionProofs --------------------------
(***************************************************************************)
(* Proof that the state of the suspicion manager is well typed, for any    *)
(* number of nodes, reporters and calling goroutines and any bounds, and   *)
(* what its lists make of refutations and of messages that come out of     *)
(* order or twice.                                                         *)
(***************************************************************************)
EXTENDS Suspicion, TLAPS

USE SuspicionAssumption

\* The effects on a list entry stay inside the list's type (membership.go).
LEMMA MemberType ==
  ASSUME NEW m \in Member(Incs), NEW i \in Incs, NEW s \in Statuses
  PROVE  /\ Revive(m, i) \in Member(Incs)
         /\ Mark(m, s) \in Member(Incs)
         /\ Overwrite(m, s, i) \in Member(Incs)
         /\ m.inc \in Incs
BY DEF Member, Revive, Mark, Overwrite, Rec, Absent, Present, Statuses, Incs

\* One more reporter leaves an entry well typed (ProcessSuspicion).
LEMMA ReporterType ==
  ASSUME NEW e \in Entry, NEW r \in Reporters
  PROVE  AddReporter(e, r) \in Entry
BY DEF Entry, AddReporter, Stages

\* The initial state is well typed (NewSuspicionManager).
LEMMA InitType == Init => TypeOK
BY DEF Init, TypeOK, Member, Rec, Absent, Statuses, Incs, Entry, NoEntry, Stages, Call, Idle

\* The tail of ProcessSuspicion, on a well typed entry.
LEMMA FileReportType ==
  ASSUME TypeOK, NEW c \in Callers, NEW r \in Reporters, NEW t \in Nodes, NEW e \in Entry,
         FileReport(c, r, t, e)
  PROVE  entries' \in [Nodes -> Entry] /\ calls' \in [Callers -> Call]
<1>1. AddReporter(e, r) \in Entry
  BY ReporterType
<1>2. e.inc \in Incs
  BY DEF Entry
<1>3. [pc |-> "mark", reporter |-> r, target |-> t, inc |-> e.inc] \in Call
  BY <1>2 DEF Call
<1>4. Idle \in Call
  BY DEF Call
<1> QED BY <1>1, <1>3, <1>4 DEF FileReport, TypeOK

\* Spawning known callbacks keeps the counts within their bound.
LEMMA SpawnType ==
  ASSUME TypeOK, NEW cbs \in SUBSET Callback, Spawn(cbs)
  PROVE  callbacks' \in [Callback -> 0 .. MaxCopies]
BY DEF Spawn, TypeOK

\* A callback that runs was counted, so its count stays a number (go sm.opts.On...).
LEMMA RunType ==
  ASSUME TypeOK, NEW cb \in Callback, Run(cb)
  PROVE  callbacks' \in [Callback -> 0 .. MaxCopies]
BY DEF Run, TypeOK

\* A call in the middle of the manager is about a node it can track.
LEMMA CallFields ==
  ASSUME TypeOK, NEW c \in Callers, calls[c] # Idle
  PROVE  /\ calls[c].target \in Nodes
         /\ calls[c].inc \in Incs
         /\ calls[c].pc \in {"readLocal", "create", "mark"} => calls[c].reporter \in Reporters
BY DEF TypeOK, Call

\* Every step of the manager and of its surroundings keeps the types.
LEMMA NextType == TypeOK /\ [Next]_vars => TypeOK'
<1> SUFFICES ASSUME TypeOK, [Next]_vars PROVE TypeOK'
  OBVIOUS
<1> USE DEF TypeOK
<1>1. ASSUME NEW c \in Callers, NEW r \in Reporters, NEW t \in Nodes \cup {LocalNode}, NEW i \in Incs,
             ProcessSuspicion(c, r, t, i)
      PROVE  TypeOK'
  <2>1. CASE RefuteSelf(c, i)
    BY <2>1 DEF RefuteSelf
  <2>2. CASE ProcessStale(c, r, t, i)
    BY <2>2 DEF ProcessStale
  <2>3. CASE ProcessTracked(c, r, t, i)
    <3>1. t \in Nodes
      BY <2>3 DEF ProcessTracked
    <3>2. Fresh(i) \in Entry /\ entries[t] \in Entry
      BY <3>1 DEF Fresh, Entry, Stages
    <3>3. (IF i > entries[t].inc THEN Fresh(i) ELSE entries[t]) \in Entry
      BY <3>2
    <3>4. FileReport(c, r, t, IF i > entries[t].inc THEN Fresh(i) ELSE entries[t])
      BY <2>3 DEF ProcessTracked
    <3>5. entries' \in [Nodes -> Entry] /\ calls' \in [Callers -> Call]
      BY <3>1, <3>3, <3>4, FileReportType
    <3> QED BY <2>3, <3>5 DEF ProcessTracked
  <2>4. CASE ProcessUntracked(c, r, t, i)
    BY <2>4 DEF ProcessUntracked, Call
  <2> QED BY <1>1, <2>1, <2>2, <2>3, <2>4 DEF ProcessSuspicion
<1>2. ASSUME NEW c \in Callers, NEW t \in Nodes, NEW i \in Incs, ClearSuspect(c, t, i)
      PROVE  TypeOK'
  <2>1. CASE ClearStale(c, t, i)
    BY <2>1 DEF ClearStale, vars
  <2>2. CASE ClearLookup(c, t, i)
    <3>1. NoEntry \in Entry
      BY DEF NoEntry, Entry, Stages, Incs
    <3>2. [pc |-> IF entries[t].stage = "none" THEN "clearUntracked" ELSE "clearTracked",
           target |-> t, inc |-> i] \in Call
      BY DEF Call
    <3> QED BY <2>2, <3>1, <3>2 DEF ClearLookup
  <2> QED BY <1>2, <2>1, <2>2 DEF ClearSuspect
<1>3. ASSUME NEW c \in Callers, Continue(c)
      PROVE  TypeOK'
  <2>0. Idle \in Call
    BY DEF Call
  <2>1. CASE ReadLocal(c)
    <3>1. calls[c] \in [pc : {"readLocal", "create", "mark"},
                        reporter : Reporters, target : Nodes, inc : Incs]
      BY <2>1 DEF ReadLocal, Call, Idle
    <3>2. [calls[c] EXCEPT !.pc = "create"] \in Call
      BY <3>1 DEF Call
    <3> QED BY <2>0, <2>1, <3>2 DEF ReadLocal
  <2>2. CASE CreateEntry(c)
    <3>1. calls[c].reporter \in Reporters /\ calls[c].target \in Nodes /\ calls[c].inc \in Incs
      BY <2>2 DEF CreateEntry, Call, Idle
    <3>2. Fresh(calls[c].inc) \in Entry
      BY <3>1 DEF Fresh, Entry, Stages
    <3>3. entries' \in [Nodes -> Entry] /\ calls' \in [Callers -> Call]
      BY <2>2, <3>1, <3>2, FileReportType DEF CreateEntry
    <3> QED BY <2>2, <3>3 DEF CreateEntry
  <2>3. CASE MarkSuspected(c)
    <3>1. calls[c].target \in Nodes /\ calls[c].inc \in Incs
      BY <2>3 DEF MarkSuspected, Call, Idle
    <3>2. Mark(members[calls[c].target], "Suspected") \in Member(Incs)
      BY <3>1, MemberType DEF Statuses
    <3>3. callbacks' \in [Callback -> 0 .. MaxCopies]
      BY <2>3, <3>1, SpawnType DEF MarkSuspected, Cb, Callback
    <3> QED BY <2>0, <2>3, <3>1, <3>2, <3>3 DEF MarkSuspected
  <2>4. ASSUME ClearUntracked(c) \/ ClearTracked(c)
        PROVE  TypeOK'
    <3>1. calls[c].target \in Nodes /\ calls[c].inc \in Incs
      BY <2>4 DEF ClearUntracked, ClearTracked, Call, Idle
    <3>2. Revive(members[calls[c].target], calls[c].inc) \in Member(Incs)
      BY <3>1, MemberType DEF Statuses
    <3>3. callbacks' \in [Callback -> 0 .. MaxCopies]
      BY <2>4, <3>1, SpawnType DEF ClearUntracked, ClearTracked, Cb, Callback
    <3> QED BY <2>0, <2>4, <3>1, <3>2, <3>3 DEF ClearUntracked, ClearTracked, ClearMember
  <2> QED BY <1>3, <2>1, <2>2, <2>3, <2>4 DEF Continue
<1>4. ASSUME NEW t \in Nodes, NEW i \in Incs, RunCallback(t, i)
      PROVE  TypeOK'
  <2>1. /\ Cb("OnSuspect", t, i) \in Callback
        /\ Cb("OnConfirm", t, i) \in Callback
        /\ Cb("OnClear", t, i) \in Callback
    BY DEF Cb, Callback
  <2>2. callbacks' \in [Callback -> 0 .. MaxCopies]
    BY <1>4, <2>1, RunType DEF RunCallback, OnSuspect, OnConfirm, OnClear
  <2>3. members[t].inc \in Incs
    BY MemberType DEF Statuses
  <2>4. /\ Overwrite(members[t], "Suspected", i) \in Member(Incs)
        /\ Overwrite(members[t], "Failed", i) \in Member(Incs)
        /\ Overwrite(members[t], "Alive", i) \in Member(Incs)
        /\ Overwrite(members[t], "Alive", members[t].inc) \in Member(Incs)
    BY <2>3, MemberType DEF Statuses
  <2>5. members' \in [Nodes -> Member(Incs)]
    BY <1>4, <2>4 DEF RunCallback, OnSuspect, OnConfirm, OnClear
  <2> QED BY <1>4, <2>2, <2>5 DEF RunCallback, OnSuspect, OnConfirm, OnClear
<1>5. ASSUME NEW t \in Nodes, Elapse(t)
      PROVE  TypeOK'
  BY <1>5 DEF Elapse, Entry, Stages
<1>6. CASE CheckScan
  <2>1. NoEntry \in Entry
    BY DEF NoEntry, Entry, Stages, Incs
  <2>2. \A t \in Nodes : [entries[t] EXCEPT !.stage = "confirmed"] \in Entry
    BY DEF Entry, Stages
  <2>3. entries' \in [Nodes -> Entry]
    BY <1>6, <2>1, <2>2 DEF CheckScan
  <2>4. toConfirm' \subseteq Verdict
    BY <1>6 DEF CheckScan, Verdict, DueTargets, Entry
  <2> QED BY <1>6, <2>3, <2>4 DEF CheckScan
<1>7. CASE CheckApply
  <2>1. \A t \in Nodes : Mark(members[t], "Failed") \in Member(Incs)
    <3> TAKE t \in Nodes
    <3>1. 0 \in Incs
      BY DEF Incs
    <3> QED BY <3>1, MemberType DEF Statuses
  <2>2. {Cb("OnConfirm", v.target, v.inc) :
           v \in {w \in toConfirm : Present(members[w.target])}} \in SUBSET Callback
    BY DEF Cb, Callback, Verdict
  <2>3. callbacks' \in [Callback -> 0 .. MaxCopies]
    BY <1>7, <2>2, SpawnType DEF CheckApply
  <2> QED BY <1>7, <2>1, <2>3 DEF CheckApply
<1>8. CASE ListChange
  BY <1>8 DEF ListChange
<1>9. CASE UNCHANGED vars
  BY <1>9 DEF vars
<1> QED BY <1>1, <1>2, <1>3, <1>4, <1>5, <1>6, <1>7, <1>8, <1>9 DEF Next, ManagerStep

\* In every reachable state the manager's maps, calls and pending callbacks are
\* well typed: no entry, verdict or callback is about a node or an incarnation
\* outside the program's range.
THEOREM SuspicionTypeOK == Spec => []TypeOK
<1>1. Init => TypeOK
  BY InitType
<1>2. TypeOK /\ [Next]_vars => TypeOK'
  BY NextType
<1> QED BY <1>1, <1>2, PTL DEF Spec

-----------------------------------------------------------------------------
(* Numbers of 32 bits                                                      *)

Int32 == (-MaxInt32 - 1) .. MaxInt32

\* A node that refutes a suspicion is believed by every list that holds nothing newer than
\* its own incarnation or the one it was suspected of, whichever way the answer comes.  At
\* the largest int32 the number wraps (suspicion.go:206-210): then every list that
\* holds another incarnation of the node passes the answer over.
THEOREM RefutationIsBelieved ==
  ASSUME NEW own \in Int32, NEW claimed \in Int32,
         NEW s \in Statuses, NEW i \in Int32, i <= own \/ i <= claimed
  PROVE  LET new == Refutation(own, claimed)
             m   == Rec(s, i)
         IN  IF MaxInt32 \in {own, claimed}
             THEN i # -MaxInt32 - 1 =>
                    HeardFrom(m, new) = m /\ Learn(m, "Alive", new) = m /\ Revive(m, new) = m
             ELSE /\ HeardFrom(m, new) = Rec("Alive", new)
                  /\ Learn(m, "Alive", new) = Rec("Alive", new)
                  /\ Revive(m, new) = Rec("Alive", new)
<1> DEFINE new == Refutation(own, claimed)
           m   == Rec(s, i)
<1>0. MaxInt32 \in Nat
  BY DEF MaxInt32
<1>1. Present(m) /\ m.inc = i /\ m.status = s
  BY DEF Rec, Present, Statuses
<1>2. CASE MaxInt32 \in {own, claimed}
  <2>1. new = -MaxInt32 - 1
    BY <1>0, <1>2 DEF Refutation, Next32, Int32
  <2>2. i # -MaxInt32 - 1 => ~(new > i) /\ new # i /\ ~(new >= i)
    BY <1>0, <2>1 DEF Int32
  <2> HIDE DEF new, m
  <2>3. i # -MaxInt32 - 1 =>
          HeardFrom(m, new) = m /\ Learn(m, "Alive", new) = m /\ Revive(m, new) = m
    BY <1>1, <2>2 DEF HeardFrom, Learn, Revive
  <2> QED BY <1>2, <2>3 DEF new, m
<1>3. CASE MaxInt32 \notin {own, claimed}
  <2>1. new > i /\ new >= i
    BY <1>0, <1>3 DEF Refutation, Next32, Int32
  <2> HIDE DEF new, m
  <2>2. /\ HeardFrom(m, new) = Rec("Alive", new) /\ Learn(m, "Alive", new) = Rec("Alive", new)
        /\ Revive(m, new) = Rec("Alive", new)
    BY <1>1, <2>1 DEF HeardFrom, Learn, Revive
  <2> QED BY <1>3, <2>2 DEF new, m
<1> QED BY <1>2, <1>3

-----------------------------------------------------------------------------
(* The order of messages                                                   *)

\* What a list can learn of a node it holds: a heartbeat or an ack of its own, a
\* piggybacked update, an AliveMsg, a Confirm message.
Evidence == [kind : {"heartbeat", "update", "alive", "confirm"}, status : Statuses, inc : Int]

\* The entry after it.
Weigh(m, e) ==
  CASE e.kind = "heartbeat" -> HeardFrom(m, e.inc)
    [] e.kind = "update"    -> IF Present(m) THEN Learn(m, e.status, e.inc) ELSE Rec(e.status, e.inc)
    [] e.kind = "alive"     -> Revive(m, e.inc)
    [] e.kind = "confirm"   -> Condemn(m, e.inc)

\* Evidence of a later incarnation replaces the entry, that of an earlier one is ignored,
\* and that of the same leaves the incarnation as it is.
LEMMA WeighByIncarnation ==
  ASSUME NEW s \in Statuses, NEW i \in Int, NEW e \in Evidence
  PROVE  /\ e.inc > i => \E r \in Statuses : \A q \in Statuses, j \in Int :
                           e.inc > j => Weigh(Rec(q, j), e) = Rec(r, e.inc)
         /\ e.inc < i => Weigh(Rec(s, i), e) = Rec(s, i)
         /\ e.inc = i => \E r \in Statuses : Weigh(Rec(s, i), e) = Rec(r, i)
<1> DEFINE ByIncarnation(r) ==
             \A q \in Statuses, j \in Int :
               /\ e.inc > j => Weigh(Rec(q, j), e) = Rec(r, e.inc)
               /\ e.inc < j => Weigh(Rec(q, j), e) = Rec(q, j)
               /\ e.inc = j => Weigh(Rec(q, j), e) \in {Rec(q, j), Rec(r, j)}
<1>1. /\ e.kind \in {"heartbeat", "update", "alive", "confirm"}
      /\ e.status \in Statuses /\ e.inc \in Int
  BY DEF Evidence
<1>2. \A q \in Statuses, j \in Int :
        Present(Rec(q, j)) /\ Rec(q, j).inc = j /\ Rec(q, j).status = q
  BY DEF Rec, Present, Statuses
<1>3. "Alive" \in Statuses /\ "Failed" \in Statuses
  BY DEF Statuses
<1>4. CASE e.kind = "heartbeat"
  <2>1. \A m : Weigh(m, e) = HeardFrom(m, e.inc)
    BY <1>4 DEF Weigh
  <2>2. ByIncarnation("Alive")
    BY <1>1, <1>2, <2>1 DEF HeardFrom
  <2> QED BY <1>1, <1>3, <2>2
<1>5. CASE e.kind = "update"
  <2>1. \A m : Weigh(m, e) = IF Present(m) THEN Learn(m, e.status, e.inc) ELSE Rec(e.status, e.inc)
    BY <1>5 DEF Weigh
  <2>2. ByIncarnation(e.status)
    BY <1>1, <1>2, <2>1 DEF Learn
  <2> QED BY <1>1, <1>3, <2>2
<1>6. CASE e.kind = "alive"
  <2>1. \A m : Weigh(m, e) = Revive(m, e.inc)
    BY <1>6 DEF Weigh
  <2>2. ByIncarnation("Alive")
    BY <1>1, <1>2, <2>1 DEF Revive
  <2> QED BY <1>1, <1>3, <2>2
<1>7. CASE e.kind = "confirm"
  <2>1. \A m : Weigh(m, e) = Condemn(m, e.inc)
    BY <1>7 DEF Weigh
  <2>2. ByIncarnation("Failed")
    BY <1>1, <1>2, <2>1 DEF Condemn
  <2> QED BY <1>1, <1>3, <2>2
<1> QED BY <1>1, <1>4, <1>5, <1>6, <1>7

\* Messages about different incarnations of a node may come in either order: the entry of a
\* list that holds the node is the same in the end (detectors).
THEOREM OrderMattersWithinIncarnationsOnly ==
  ASSUME NEW s \in Statuses, NEW i \in Int, NEW e \in Evidence, NEW f \in Evidence, e.inc # f.inc
  PROVE  Weigh(Weigh(Rec(s, i), e), f) = Weigh(Weigh(Rec(s, i), f), e)
<1>1. ASSUME NEW x \in Evidence, NEW y \in Evidence, x.inc < y.inc
      PROVE  Weigh(Weigh(Rec(s, i), x), y) = Weigh(Weigh(Rec(s, i), y), x)
  <2>0. x.inc \in Int /\ y.inc \in Int
    BY DEF Evidence
  <2>1. CASE y.inc > i
    <3>1. PICK r \in Statuses : \A q \in Statuses, j \in Int :
                                  y.inc > j => Weigh(Rec(q, j), y) = Rec(r, y.inc)
      BY <2>1, WeighByIncarnation
    <3>2. Weigh(Weigh(Rec(s, i), y), x) = Rec(r, y.inc)
      <4>1. Weigh(Rec(s, i), y) = Rec(r, y.inc)
        BY <2>1, <3>1
      <4>2. Weigh(Rec(r, y.inc), x) = Rec(r, y.inc)
        BY <1>1, <2>0, WeighByIncarnation
      <4> QED BY <4>1, <4>2
    <3>3. \E q \in Statuses, j \in Int : y.inc > j /\ Weigh(Rec(s, i), x) = Rec(q, j)
      <4>1. CASE x.inc > i
        <5>1. PICK q \in Statuses : \A p \in Statuses, j \in Int :
                                      x.inc > j => Weigh(Rec(p, j), x) = Rec(q, x.inc)
          BY <4>1, WeighByIncarnation
        <5>2. Weigh(Rec(s, i), x) = Rec(q, x.inc)
          BY <4>1, <5>1
        <5> QED BY <1>1, <2>0, <5>2
      <4>2. CASE x.inc < i
        <5>1. Weigh(Rec(s, i), x) = Rec(s, i)
          BY <4>2, WeighByIncarnation
        <5> QED BY <2>1, <5>1
      <4>3. CASE x.inc = i
        <5>1. PICK q \in Statuses : Weigh(Rec(s, i), x) = Rec(q, i)
          BY <4>3, WeighByIncarnation
        <5> QED BY <2>1, <5>1
      <4> QED BY <2>0, <4>1, <4>2, <4>3
    <3> QED BY <3>1, <3>2, <3>3
  <2>2. CASE ~(y.inc > i)
    <3>1. x.inc < i
      BY <1>1, <2>0, <2>2
    <3>2. Weigh(Rec(s, i), x) = Rec(s, i)
      BY <3>1, WeighByIncarnation
    <3>3. \E q \in Statuses : Weigh(Rec(s, i), y) = Rec(q, i)
      <4>1. y.inc < i \/ y.inc = i
        BY <2>0, <2>2
      <4> QED BY <4>1, WeighByIncarnation
    <3>4. \A q \in Statuses : Weigh(Rec(q, i), x) = Rec(q, i)
      BY <3>1, WeighByIncarnation
    <3> QED BY <3>2, <3>3, <3>4
  <2> QED BY <2>1, <2>2
<1>2. e.inc < f.inc \/ f.inc < e.inc
  BY DEF Evidence
<1> QED BY <1>1, <1>2

\* A message that comes twice is the same as one that comes once, to a list that holds the
\* node or not (detectors).
THEOREM DuplicatesChangeNothing ==
  ASSUME NEW m \in Member(Int), NEW e \in Evidence
  PROVE  Weigh(Weigh(m, e), e) = Weigh(m, e)
<1>1. /\ e.kind \in {"heartbeat", "update", "alive", "confirm"}
      /\ e.status \in Statuses /\ e.inc \in Int /\ m.inc \in Int
  BY DEF Evidence, Member, Absent, Rec
<1>2. \A q \in Statuses, j \in Int :
        Present(Rec(q, j)) /\ Rec(q, j).inc = j /\ Rec(q, j).status = q
  BY DEF Rec, Present, Statuses
<1>3. "Alive" \in Statuses /\ "Failed" \in Statuses
  BY DEF Statuses
<1>4. CASE e.kind = "heartbeat"
  <2>1. \A n : Weigh(n, e) = HeardFrom(n, e.inc)
    BY <1>4 DEF Weigh
  <2> QED BY <1>1, <1>2, <1>3, <2>1 DEF HeardFrom
<1>5. CASE e.kind = "update"
  <2>1. \A n : Weigh(n, e) = IF Present(n) THEN Learn(n, e.status, e.inc) ELSE Rec(e.status, e.inc)
    BY <1>5 DEF Weigh
  <2> QED BY <1>1, <1>2, <2>1 DEF Learn
<1>6. CASE e.kind = "alive"
  <2>1. \A n : Weigh(n, e) = Revive(n, e.inc)
    BY <1>6 DEF Weigh
  <2> QED BY <1>1, <1>2, <1>3, <2>1 DEF Revive
<1>7. CASE e.kind = "confirm"
  <2>1. \A n : Weigh(n, e) = Condemn(n, e.inc)
    BY <1>7 DEF Weigh
  <2> QED BY <1>1, <1>2, <1>3, <2>1 DEF Condemn
<1> QED BY <1>1, <1>4, <1>5, <1>6, <1>7

=============================================================================
