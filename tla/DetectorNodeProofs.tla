------------------------- MODULE DetectorNodeProofs -------------------------
(***************************************************************************)
(* Proofs about a node with either detector, for any number of nodes and   *)
(* any bounds: it uses the suspicion manager as Suspicion.tla allows, so   *)
(* that what is proved there holds here, its state is well typed, and no   *)
(* merge rule takes an entry back to an older incarnation.                 *)
(***************************************************************************)
EXTENDS DetectorNode, SuspicionCasesProofs

USE SuspicionAssumption, DetectorAssumption

-----------------------------------------------------------------------------
(* Types                                                                   *)

\* What the merge rules make of an entry is an entry (detectors).
LEMMA MergedType ==
  ASSUME NEW m \in Member(Incs), NEW i \in Incs, NEW s \in Statuses
  PROVE  /\ HeardFrom(m, i) \in Member(Incs)
         /\ Learn(m, s, i) \in Member(Incs)
         /\ Condemn(m, i) \in Member(Incs)
         /\ Rec(s, i) \in Member(Incs)
         /\ Absent \in Member(Incs)
BY DEF Member, HeardFrom, Learn, Condemn, Rec, Absent, Present, Statuses, Incs

\* The calls made after a merge are calls the manager knows.
LEMMA TaskType ==
  ASSUME NEW r \in Reporters, NEW t \in Nodes, NEW s, NEW i \in Incs
  PROVE  /\ ReportTask(r, t, i) \in Task
         /\ ClearTask(t, i) \in Task
         /\ TasksOf(r, t, s, i) \in SUBSET Task
<1>1. ReportTask(r, t, i) \in Task /\ ClearTask(t, i) \in Task
  BY DEF ReportTask, ClearTask, Task
<1>2. TasksOf(r, t, s, i) \in {{ReportTask(r, t, i)}, {ClearTask(t, i)}, {}}
  BY DEF TasksOf
<1> QED BY <1>1, <1>2

\* A section of the membership lock, given that what it writes is well typed.
LEMMA MergeType ==
  ASSUME NodeTypeOK, NEW c \in Callers, NEW ms, NEW heard, NEW tasks, Merge(c, ms, heard, tasks),
         ms \in [Nodes -> Member(Incs)], tasks \in SUBSET Task
  PROVE  NodeTypeOK' /\ ListChange
BY DEF Merge, NodeTypeOK, TypeOK, ListChange, managerVars, config

\* The same of a message handler that changes one entry.
LEMMA MergeOneType ==
  ASSUME NodeTypeOK, NEW t \in Nodes, NEW m \in Member(Incs), NEW heard, NEW tasks \in SUBSET Task,
         MergeOne(t, m, heard, tasks)
  PROVE  NodeTypeOK' /\ ListChange
<1>1. [members EXCEPT ![t] = m] \in [Nodes -> Member(Incs)]
  BY DEF NodeTypeOK, TypeOK
<1>2. Handler \in Callers
  OBVIOUS
<1>3. Merge(Handler, [members EXCEPT ![t] = m], IF heard THEN {t} ELSE {}, tasks)
  BY DEF MergeOne
<1> QED BY <1>1, <1>2, <1>3, MergeType

\* Messages from and about a peer.
LEMMA ReceiveType ==
  ASSUME NodeTypeOK, NEW s \in Peers, NEW i \in Incs,
         Receive(s, i) \/ ConfirmMessage(s, i)
  PROVE  NodeTypeOK' /\ ListChange
<1>1. s \in Nodes /\ members[s] \in Member(Incs) /\ {} \in SUBSET Task
  BY DEF Peers, NodeTypeOK, TypeOK
<1>2. {ClearTask(s, i)} \in SUBSET Task
  BY <1>1 DEF ClearTask, Task
<1>3. /\ HeardFrom(members[s], i) \in Member(Incs) /\ Revive(members[s], i) \in Member(Incs)
      /\ Condemn(members[s], i) \in Member(Incs) /\ Absent \in Member(Incs)
      /\ Rec("Alive", i) \in Member(Incs)
  BY <1>1, MergedType, MemberType DEF Statuses
<1>4. CASE HeartbeatFrom(s, i)
  BY <1>1, <1>3, <1>4, MergeOneType DEF HeartbeatFrom
<1>5. CASE AliveMessage(s, i)
  BY <1>1, <1>2, <1>3, <1>5, MergeOneType DEF AliveMessage
<1>6. CASE Join(s, i)
  <2> DEFINE ms == [t \in Nodes |-> CASE t = s                                 -> Rec("Alive", i)
                                      [] AddressOf[t] = AddressOf[s] /\ t # s  -> Absent
                                      [] OTHER                                 -> members[t]]
  <2>1. \A t \in Nodes : ms[t] \in {Rec("Alive", i), Absent, members[t]}
    OBVIOUS
  <2>2. ms \in [Nodes -> Member(Incs)]
    BY <1>3, <2>1 DEF NodeTypeOK, TypeOK
  <2>3. Merge(Handler, ms, {s}, {})
    BY <1>6 DEF Join
  <2> HIDE DEF ms
  <2> QED BY <1>1, <2>2, <2>3, MergeType
<1>7. CASE Leave(s)
  BY <1>1, <1>3, <1>7, MergeOneType DEF Leave
<1>8. CASE Ack(s, i)
  BY <1>1, <1>2, <1>3, <1>8, MergeOneType DEF Ack
<1>9. CASE IndirectAck(s, i)
  BY <1>1, <1>2, <1>3, <1>9, MergeOneType DEF IndirectAck
<1>10. CASE ConfirmMessage(s, i)
  BY <1>1, <1>3, <1>10, MergeOneType DEF ConfirmMessage
<1> QED BY <1>4, <1>5, <1>6, <1>7, <1>8, <1>9, <1>10 DEF Receive

\* Suspicions and piggybacked updates.
LEMMA ReceiveAboutType ==
  ASSUME NodeTypeOK, NEW r \in Reporters, NEW t \in Nodes, NEW i \in Incs, ReceiveAbout(r, t, i)
  PROVE  NodeTypeOK' /\ [Next]_vars
<1>1. members[t] \in Member(Incs) /\ members \in [Nodes -> Member(Incs)]
  BY DEF NodeTypeOK, TypeOK
<1>2. CASE SuspectMessage(r, t, i)
  <2>1. {ReportTask(r, t, i)} \in SUBSET Task
    BY TaskType
  <2> QED BY <1>1, <1>2, <2>1, MergeType DEF SuspectMessage, Next
<1>3. ASSUME NEW s \in Statuses, UpdateSelf(r, s, i)
      PROVE  NodeTypeOK' /\ [Next]_vars
  <2>1. LocalNode \in Nodes
    OBVIOUS
  <2>2. TasksOf(r, LocalNode, s, i) \in SUBSET Task
    BY <2>1, TaskType
  <2> QED BY <1>3, <2>2 DEF UpdateSelf, NodeTypeOK, TypeOK, vars, config
<1>4. ASSUME NEW s \in Statuses, UpdateUnknown(t, s, i)
      PROVE  NodeTypeOK' /\ [Next]_vars
  <2>1. Rec(s, i) \in Member(Incs) /\ {} \in SUBSET Task
    BY <1>1, MergedType
  <2> QED BY <1>4, <2>1, MergeOneType DEF UpdateUnknown, Next
<1>5. ASSUME NEW s \in Statuses, UpdateKnown(r, t, s, i)
      PROVE  NodeTypeOK' /\ [Next]_vars
  <2>1. Learn(members[t], s, i) \in Member(Incs) /\ TasksOf(r, t, s, i) \in SUBSET Task
    BY <1>1, MergedType, TaskType
  <2> QED BY <1>5, <2>1, MergeOneType DEF UpdateKnown, Next
<1> QED BY <1>2, <1>3, <1>4, <1>5 DEF ReceiveAbout

\* The list that answers a Join.
LEMMA ReceiveListType ==
  ASSUME NodeTypeOK, ReceiveList
  PROVE  NodeTypeOK' /\ ListChange
<1>1. PICK list \in [Peers -> Member(Incs)] : JoinResponse(list)
  BY DEF ReceiveList
<1> DEFINE news == {t \in Peers : /\ Present(list[t])
                                  /\ ~Present(members[t]) \/ list[t].inc > members[t].inc}
           ms == [t \in Nodes |-> IF t \in news THEN list[t] ELSE members[t]]
           tasks == {ClearTask(t, list[t].inc) : t \in {n \in news : list[n].status = "Alive"}}
<1>2. ms \in [Nodes -> Member(Incs)]
  BY DEF NodeTypeOK, TypeOK
<1>3. \A t \in Peers : list[t].inc \in Incs /\ t \in Nodes
  BY MemberType DEF Statuses, Peers, Incs
<1>4. tasks \in SUBSET Task
  BY <1>3 DEF ClearTask, Task
<1>5. Merge(Handler, ms, news, tasks)
  BY <1>1 DEF JoinResponse
<1> HIDE DEF news, ms, tasks
<1> QED BY <1>2, <1>4, <1>5, MergeType

\* The failure detector of either mode.
LEMMA DetectType ==
  ASSUME NodeTypeOK, (\E t \in Peers : Detect(t)) \/ Sweep
  PROVE  NodeTypeOK' /\ [Next]_vars
<1>1. /\ members \in [Nodes -> Member(Incs)]
      /\ Absent \in Member(Incs)
      /\ \A t \in Nodes : members[t].inc \in Incs
      /\ \A t \in Nodes : Mark(members[t], "Suspected") \in Member(Incs)
      /\ 0 \in Incs
  <2>1. 0 \in Incs
    BY DEF Incs
  <2> QED BY <2>1, MemberType DEF NodeTypeOK, TypeOK, Statuses, Member, Absent, Rec
<1>2. ASSUME NEW t \in Peers, DeclareSuspicion(t)
      PROVE  NodeTypeOK' /\ [Next]_vars
  <2>1. PICK m : /\ m = (IF Present(members[t]) THEN Mark(members[t], "Suspected")
                                                ELSE Rec("Suspected", 0))
                 /\ Merge(Detector, [members EXCEPT ![t] = m], {}, {ReportTask(LocalNode, t, m.inc)})
    BY <1>2 DEF DeclareSuspicion
  <2>2. m \in Member(Incs)
    BY <1>1, <2>1 DEF Member, Rec, Statuses, Peers
  <2>3. m.inc \in Incs
    BY <1>1, <2>2, MemberType DEF Statuses
  <2>4. {ReportTask(LocalNode, t, m.inc)} \in SUBSET Task
    BY <2>3 DEF ReportTask, Task, Peers
  <2>5. [members EXCEPT ![t] = m] \in [Nodes -> Member(Incs)]
    BY <1>1, <2>2
  <2> QED BY <2>1, <2>4, <2>5, MergeType DEF Next
<1>3. ASSUME NEW t \in Peers, RereadIncarnation(t)
      PROVE  NodeTypeOK' /\ [Next]_vars
  <2>1. PICK task \in agenda[Detector] :
          /\ task.target = t
          /\ agenda' = [agenda EXCEPT ![Detector] = {[task EXCEPT !.inc = members[t].inc]}]
    BY <1>3 DEF RereadIncarnation
  <2>2. task \in Task /\ members[t].inc \in Incs
    BY <1>1 DEF NodeTypeOK, Peers
  <2>3. [task EXCEPT !.inc = members[t].inc] \in Task
    BY <2>2 DEF Task
  <2>4. agenda' \in [Callers -> SUBSET Task] /\ UNCHANGED <<vars, config, quiet>>
    BY <1>3, <2>1, <2>3 DEF RereadIncarnation, NodeTypeOK
  <2> QED BY <2>4 DEF NodeTypeOK, TypeOK, vars, config
<1>4. ASSUME NEW t \in Peers, DeclareFailure(t)
      PROVE  NodeTypeOK' /\ [Next]_vars
  <2>1. [members EXCEPT ![t] = Absent] \in [Nodes -> Member(Incs)] /\ {} \in SUBSET Task
    BY <1>1
  <2>2. Merge(Detector, [members EXCEPT ![t] = Absent], {}, {})
    BY <1>4 DEF DeclareFailure
  <2> QED BY <2>1, <2>2, MergeType DEF Next
<1>5. ASSUME NEW gone, RemoveSuspected(gone)
      PROVE  NodeTypeOK' /\ [Next]_vars
  BY <1>1, <1>5 DEF RemoveSuspected, Remove, NodeTypeOK, TypeOK, managerVars, config, Next, ListChange
<1>6. ASSUME NEW silent \in SUBSET Peers, NEW gone, GossipCheck(silent, gone)
      PROVE  NodeTypeOK' /\ [Next]_vars
  <2> DEFINE suspected(t) == IF enableSuspicion THEN Mark(members[t], "Suspected") ELSE Absent
             ms == [t \in Nodes |-> CASE t \in silent -> suspected(t)
                                      [] t \in gone   -> Absent
                                      [] OTHER        -> members[t]]
             tasks == IF enableSuspicion
                      THEN {ReportTask(LocalNode, t, members[t].inc) : t \in silent} ELSE {}
  <2>1. \A t \in Nodes : ms[t] \in {suspected(t), Absent, members[t]}
    BY DEF ms
  <2>2. \A t \in Nodes : suspected(t) \in Member(Incs)
    BY <1>1
  <2>3. ms \in [Nodes -> Member(Incs)]
    BY <1>1, <2>1, <2>2
  <2>4. tasks \in SUBSET Task
    BY <1>1 DEF ReportTask, Task, Peers
  <2>5. Merge(Detector, ms, {}, tasks)
    BY <1>6 DEF GossipCheck
  <2> HIDE DEF ms, tasks
  <2> QED BY <2>3, <2>4, <2>5, MergeType DEF Next
<1> QED BY <1>2, <1>3, <1>4, <1>5, <1>6 DEF Detect, Sweep, CheckFailures

\* The next call on an agenda is a call the manager may get.
LEMMA BeginTaskType ==
  ASSUME NodeTypeOK, NEW c \in Callers, BeginTask(c)
  PROVE  NodeTypeOK' /\ Next
<1>1. PICK task \in agenda[c] :
        /\ agenda' = [agenda EXCEPT ![c] = @ \ {task}]
        /\ \/ task.kind = "report"
              /\ ProcessSuspicion(c, task.reporter, task.target, task.inc)
           \/ task.kind = "clear"
              /\ ClearSuspect(c, task.target, task.inc)
  BY DEF BeginTask
<1>2. task \in Task
  BY DEF NodeTypeOK
<1>3. Next
  <2>1. CASE task.kind = "report"
    <3>1. task.reporter \in Reporters /\ task.target \in Nodes /\ task.inc \in Incs
      BY <1>2, <2>1 DEF Task
    <3>2. ProcessSuspicion(c, task.reporter, task.target, task.inc)
      BY <1>1, <2>1
    <3> QED BY <3>1, <3>2 DEF Next
  <2>2. CASE task.kind = "clear"
    <3>1. task.target \in Nodes /\ task.inc \in Incs
      BY <1>2, <2>2 DEF Task
    <3>2. ClearSuspect(c, task.target, task.inc)
      BY <1>1, <2>2
    <3> QED BY <3>1, <3>2 DEF Next
  <2> QED BY <1>1, <2>1, <2>2
<1>4. TypeOK'
  BY <1>3, NextType DEF NodeTypeOK
<1>5. agenda' \in [Callers -> SUBSET Task] /\ UNCHANGED <<config, quiet>>
  BY <1>1 DEF BeginTask, NodeTypeOK
<1> QED BY <1>3, <1>4, <1>5 DEF NodeTypeOK, config

\* The manager's own steps, and time.
LEMMA ManagerType ==
  ASSUME NodeTypeOK, Manager \/ (\E t \in Peers : FallQuiet(t))
  PROVE  NodeTypeOK' /\ [Next]_vars
<1>1. CASE Manager
  <2>1. Next
    BY <1>1 DEF Manager, Next
  <2>2. TypeOK'
    BY <2>1, NextType DEF NodeTypeOK
  <2> QED BY <1>1, <2>1, <2>2 DEF Manager, NodeTypeOK, config
<1>2. CASE \E t \in Peers : FallQuiet(t)
  BY <1>2 DEF FallQuiet, NodeTypeOK, TypeOK, vars, config
<1> QED BY <1>1, <1>2

\* Every step of a node keeps the types and is a step of the manager under its
\* most general client, or none.
LEMMA NodeStep ==
  ASSUME NodeTypeOK, [NodeNext]_nodeVars
  PROVE  NodeTypeOK' /\ [Next]_vars
<1>1. ASSUME ListChange PROVE [Next]_vars
  BY <1>1 DEF Next
<1>2. CASE \E s \in Peers, i \in Incs : Receive(s, i) \/ ConfirmMessage(s, i)
  BY <1>1, <1>2, ReceiveType
<1>3. CASE \E r \in Reporters \ {LocalNode}, t \in Nodes, i \in Incs : ReceiveAbout(r, t, i)
  BY <1>3, ReceiveAboutType
<1>4. CASE ReceiveList
  BY <1>1, <1>4, ReceiveListType
<1>5. CASE (\E t \in Peers : Detect(t)) \/ Sweep
  BY <1>5, DetectType
<1>6. CASE \E c \in Callers : BeginTask(c)
  BY <1>6, BeginTaskType
<1>7. CASE (\E t \in Peers : FallQuiet(t)) \/ Manager
  BY <1>7, ManagerType
<1>8. CASE UNCHANGED nodeVars
  BY <1>8 DEF nodeVars, vars, config, NodeTypeOK, TypeOK
<1> QED BY <1>2, <1>3, <1>4, <1>5, <1>6, <1>7, <1>8 DEF NodeNext

\* A node starts well typed (NewController).
LEMMA NodeInitType == NodeInit => NodeTypeOK
BY InitType DEF NodeInit, NodeTypeOK, Task

\* In every reachable state of a node its lists, maps and the calls its goroutines
\* still make are about nodes and incarnations of the program's range: handlers
\* hand the manager nothing else (processQueue, pingLoop, failureDetectionLoop).
THEOREM NodeTypeCorrect == NodeSpec => []NodeTypeOK
<1>1. NodeInit => NodeTypeOK
  BY NodeInitType
<1>2. NodeTypeOK /\ [NodeNext]_nodeVars => NodeTypeOK'
  BY NodeStep
<1> QED BY <1>1, <1>2, PTL DEF NodeSpec

\* A node of either mode is one of the programs around the manager for which
\* Suspicion.tla speaks: every safety property proved or checked of Spec holds of
\* the manager in the node (processQueue, pingLoop, failureDetectionLoop).
THEOREM NodeUsesManager == NodeSpec => Spec
<1>1. NodeInit => Init
  BY DEF NodeInit
<1>2. NodeTypeOK /\ [NodeNext]_nodeVars => [Next]_vars
  BY NodeStep
<1> QED BY <1>1, <1>2, NodeTypeCorrect, PTL DEF NodeSpec, Spec

\* So in a node of either mode, with its handler and its detector loop both calling, the
\* manager keeps its cases as SuspicionCases has them (ProcessSuspicion, ClearSuspect, check).
THEOREM NodeImplementsCases == NodeSpec => ImplementsCases
BY NodeUsesManager, ManagerImplementsCases

-----------------------------------------------------------------------------
(* Incarnations                                                            *)

\* Entry n may follow entry m without the list going back in time.
NotOlder(m, n) == Present(m) /\ Present(n) => n.inc >= m.inc

\* The merge rules never go back in time (detectors, ClearSuspect).
LEMMA MergeNotOlder ==
  ASSUME NEW m \in Member(Incs), NEW i \in Incs, NEW s \in Statuses
  PROVE  /\ NotOlder(m, HeardFrom(m, i)) /\ NotOlder(m, Learn(m, s, i))
         /\ NotOlder(m, Revive(m, i))    /\ NotOlder(m, Condemn(m, i))
         /\ NotOlder(m, Mark(m, s))      /\ NotOlder(m, Absent)
         /\ NotOlder(m, m)               /\ NotOlder(Absent, m)
BY DEF NotOlder, Member, HeardFrom, Learn, Revive, Condemn, Mark, Rec, Absent, Present, Incs

\* Of the messages from a peer only a Join does.
LEMMA ReceiveNotOlder ==
  ASSUME NodeTypeOK, NEW s \in Peers, NEW i \in Incs,
         Receive(s, i) \/ ConfirmMessage(s, i), NEW t \in Nodes
  PROVE  NotOlder(members[t], members'[t]) \/ Join(t, i)
<1>1. members[t] \in Member(Incs) /\ members[s] \in Member(Incs) /\ s \in Nodes
  BY DEF NodeTypeOK, TypeOK, Peers
<1>2. ASSUME NEW m \in {HeardFrom(members[s], i), Revive(members[s], i),
                        Condemn(members[s], i), Absent},
             NEW heard, NEW tasks, MergeOne(s, m, heard, tasks)
      PROVE  NotOlder(members[t], members'[t])
  <2>1. NotOlder(members[s], m) /\ NotOlder(members[t], members[t])
    BY <1>1, MergeNotOlder DEF Statuses
  <2>2. members'[t] = IF t = s THEN m ELSE members[t]
    BY <1>2 DEF MergeOne, Merge, NodeTypeOK, TypeOK
  <2> QED BY <2>1, <2>2
<1>3. CASE Join(s, i)
  <2>1. CASE t = s
    BY <1>3, <2>1
  <2>2. CASE t # s
    <3>1. members'[t] \in {Absent, members[t]}
      BY <1>3, <2>2 DEF Join, Merge
    <3> QED BY <1>1, <3>1, MergeNotOlder DEF Statuses
  <2> QED BY <2>1, <2>2
<1>4. CASE HeartbeatFrom(s, i) \/ Ack(s, i)
  BY <1>2, <1>4 DEF HeartbeatFrom, Ack
<1>5. CASE AliveMessage(s, i) \/ IndirectAck(s, i)
  BY <1>2, <1>5 DEF AliveMessage, IndirectAck
<1>6. CASE Leave(s) \/ ConfirmMessage(s, i)
  BY <1>2, <1>6 DEF Leave, ConfirmMessage
<1> QED BY <1>3, <1>4, <1>5, <1>6 DEF Receive

\* Nor do suspicions, updates and lists.
LEMMA ReceiveAboutNotOlder ==
  ASSUME NodeTypeOK, NEW t \in Nodes,
         \/ \E r \in Reporters, n \in Nodes, i \in Incs : ReceiveAbout(r, n, i)
         \/ ReceiveList
  PROVE  NotOlder(members[t], members'[t])
<1>1. members[t] \in Member(Incs) /\ NotOlder(members[t], members[t])
  BY MergeNotOlder DEF NodeTypeOK, TypeOK, Statuses, Incs, NotOlder, Member, Absent, Rec
<1>2. ASSUME NEW r \in Reporters, NEW n \in Nodes, NEW i \in Incs, ReceiveAbout(r, n, i)
      PROVE  NotOlder(members[t], members'[t])
  <2>1. CASE members' = members
    BY <1>1, <2>1
  <2>2. ASSUME NEW s \in Statuses, UpdateUnknown(n, s, i)
        PROVE  NotOlder(members[t], members'[t])
    <3>1. members'[t] = members[t] \/ ~Present(members[t])
      BY <2>2 DEF UpdateUnknown, MergeOne, Merge, NodeTypeOK, TypeOK
    <3> QED BY <1>1, <3>1 DEF NotOlder
  <2>3. ASSUME NEW s \in Statuses, UpdateKnown(r, n, s, i)
        PROVE  NotOlder(members[t], members'[t])
    <3>1. members'[t] = IF t = n THEN Learn(members[t], s, i) ELSE members[t]
      BY <2>3 DEF UpdateKnown, MergeOne, Merge, NodeTypeOK, TypeOK
    <3>2. NotOlder(members[t], Learn(members[t], s, i))
      BY <1>1, MergeNotOlder
    <3> QED BY <1>1, <3>1, <3>2
  <2> QED BY <1>2, <2>1, <2>2, <2>3 DEF ReceiveAbout, SuspectMessage, Merge, UpdateSelf, vars
<1>3. CASE ReceiveList
  <2>1. PICK list \in [Peers -> Member(Incs)] : JoinResponse(list)
    BY <1>3 DEF ReceiveList
  <2>2. \/ members'[t] = members[t]
        \/ t \in Peers /\ members'[t] = list[t] /\ (~Present(members[t]) \/ list[t].inc > members[t].inc)
    BY <2>1 DEF JoinResponse, Merge
  <2>3. t \in Peers => list[t].inc \in Incs /\ members[t].inc \in Incs
    BY <1>1, MemberType DEF Statuses, Incs
  <2> QED BY <1>1, <2>2, <2>3 DEF NotOlder, Incs
<1> QED BY <1>2, <1>3

\* Nor do the failure detectors.
LEMMA DetectNotOlder ==
  ASSUME NodeTypeOK, NEW t \in Nodes, (\E n \in Peers : Detect(n)) \/ Sweep
  PROVE  NotOlder(members[t], members'[t])
<1>1. members[t] \in Member(Incs)
  BY DEF NodeTypeOK, TypeOK
<1>2. /\ NotOlder(members[t], members[t]) /\ NotOlder(members[t], Absent)
      /\ NotOlder(members[t], Mark(members[t], "Suspected"))
  BY <1>1, MergeNotOlder DEF Statuses, Incs, NotOlder, Member, Absent, Rec, Mark, Present
<1>3. ASSUME NEW n \in Peers, DeclareSuspicion(n)
      PROVE  NotOlder(members[t], members'[t])
  <2>1. \/ members'[t] = members[t]
        \/ members'[t] = Mark(members[t], "Suspected")
        \/ ~Present(members[t])
    BY <1>3 DEF DeclareSuspicion, Merge, NodeTypeOK, TypeOK
  <2> QED BY <1>2, <2>1 DEF NotOlder
<1>4. ASSUME NEW n \in Peers, DeclareFailure(n) \/ RereadIncarnation(n)
      PROVE  NotOlder(members[t], members'[t])
  <2>1. members'[t] \in {members[t], Absent}
    BY <1>4 DEF DeclareFailure, RereadIncarnation, Merge, vars, NodeTypeOK, TypeOK
  <2> QED BY <1>2, <2>1
<1>5. ASSUME NEW gone, RemoveSuspected(gone)
      PROVE  NotOlder(members[t], members'[t])
  <2>1. members'[t] \in {members[t], Absent}
    BY <1>5 DEF RemoveSuspected, Remove
  <2> QED BY <1>2, <2>1
<1>6. ASSUME NEW silent, NEW gone, GossipCheck(silent, gone)
      PROVE  NotOlder(members[t], members'[t])
  <2> DEFINE m == CASE t \in silent -> IF enableSuspicion THEN Mark(members[t], "Suspected") ELSE Absent
                    [] t \in gone   -> Absent
                    [] OTHER        -> members[t]
  <2>1. m \in {members[t], Absent, Mark(members[t], "Suspected")}
    OBVIOUS
  <2>2. members'[t] = m
    BY <1>6 DEF GossipCheck, Merge
  <2> QED BY <1>2, <2>1, <2>2
<1> QED BY <1>3, <1>4, <1>5, <1>6 DEF Detect, Sweep, CheckFailures

\* Of the manager's steps only OnSuspect and OnConfirm do.
LEMMA ManagerNotOlder ==
  ASSUME NodeTypeOK, NEW t \in Nodes, ManagerStep
  PROVE  \/ NotOlder(members[t], members'[t])
         \/ \E i \in Incs, k \in {"OnSuspect", "OnConfirm"} :
              callbacks'[Cb(k, t, i)] < callbacks[Cb(k, t, i)]
<1>1. members[t] \in Member(Incs) /\ TypeOK
  BY DEF NodeTypeOK, TypeOK
<1>2. NotOlder(members[t], members[t])
  BY <1>1 DEF NotOlder, Member, Incs, Rec, Absent, Present
<1>3. ASSUME NEW c \in Callers, Continue(c)
      PROVE  NotOlder(members[t], members'[t])
  <2>1. calls[c] # Idle
    BY <1>3 DEF Continue, ReadLocal, CreateEntry, MarkSuspected, ClearUntracked, ClearTracked, Idle
  <2>2. calls[c].inc \in Incs
    BY <1>1, <2>1, CallFields
  <2>3. \/ members'[t] = members[t]
        \/ members'[t] = Mark(members[t], "Suspected")
        \/ members'[t] = Revive(members[t], calls[c].inc)
    BY <1>1, <1>3 DEF Continue, ReadLocal, CreateEntry, MarkSuspected, ClearUntracked,
                      ClearTracked, ClearMember, TypeOK
  <2> QED BY <1>1, <1>2, <2>2, <2>3, MergeNotOlder DEF Statuses
<1>4. CASE CheckApply
  <2>1. members'[t] \in {members[t], Mark(members[t], "Failed")}
    BY <1>4 DEF CheckApply
  <2>2. 0 \in Incs
    BY DEF Incs
  <2> QED BY <1>1, <1>2, <2>1, <2>2, MergeNotOlder DEF Statuses
<1>5. CASE CheckScan \/ (\E n \in Nodes : Elapse(n))
  BY <1>2, <1>5 DEF CheckScan, Elapse
<1>6. ASSUME NEW n \in Nodes, NEW i \in Incs, NEW k \in {"OnSuspect", "OnConfirm"}, Run(Cb(k, n, i)),
             \A d \in Nodes \ {n} : members'[d] = members[d]
      PROVE  \/ NotOlder(members[t], members'[t])
             \/ callbacks'[Cb(k, t, i)] < callbacks[Cb(k, t, i)]
  <2>1. Cb(k, n, i) \in Callback
    BY DEF Cb, Callback
  <2>2. callbacks'[Cb(k, n, i)] < callbacks[Cb(k, n, i)]
    BY <1>1, <1>6, <2>1 DEF Run, TypeOK
  <2> QED BY <1>2, <1>6, <2>2
<1>7. ASSUME NEW n \in Nodes, NEW i \in Incs, OnClear(n, i)
      PROVE  NotOlder(members[t], members'[t])
  <2>1. \/ members'[t] = members[t]
        \/ members'[t] = Overwrite(members[t], "Alive", IF i >= members[t].inc THEN i ELSE members[t].inc)
    BY <1>1, <1>7 DEF OnClear, TypeOK
  <2> QED BY <1>1, <1>2, <2>1 DEF NotOlder, Overwrite, Rec, Member, Incs, Absent, Present
<1>8. ASSUME NEW n \in Nodes, NEW i \in Incs, RunCallback(n, i)
      PROVE  \/ NotOlder(members[t], members'[t])
             \/ \E k \in {"OnSuspect", "OnConfirm"} :
                  callbacks'[Cb(k, t, i)] < callbacks[Cb(k, t, i)]
  <2>1. OnClear(n, i) \/ \A d \in Nodes \ {n} : members'[d] = members[d]
    BY <1>1, <1>8 DEF RunCallback, OnSuspect, OnConfirm, TypeOK
  <2> QED BY <1>6, <1>7, <1>8, <2>1 DEF RunCallback, OnSuspect, OnConfirm
<1> QED BY <1>3, <1>4, <1>5, <1>8 DEF ManagerStep

\* Calls on their first section leave the list alone (ProcessSuspicion, ClearSuspect).
LEMMA BeginTaskMembers ==
  ASSUME NEW c \in Callers, BeginTask(c)
  PROVE  members' = members
BY DEF BeginTask, ProcessSuspicion, RefuteSelf, ProcessStale, ProcessTracked, ProcessUntracked,
       ClearSuspect, ClearStale, ClearLookup, vars

\* Whatever messages, timeouts and goroutines do, an entry of the list goes back
\* to an older incarnation in no other way than by a Join of its node or by a late
\* OnSuspect or OnConfirm (message handlers, checkFailures, ClearSuspect, check).
THEOREM IncarnationsOnlyLoweredByCallbacksAndJoins ==
  NodeSpec => OnlyCallbacksAndJoinsLowerIncarnation
<1> DEFINE Lowered(t) == Present(members[t]) /\ Present(members'[t]) /\ members'[t].inc < members[t].inc
           Excused(t) == \/ \E i \in Incs : Join(t, i)
                         \/ \E i \in Incs, k \in {"OnSuspect", "OnConfirm"} :
                              callbacks'[Cb(k, t, i)] < callbacks[Cb(k, t, i)]
<1>1. ASSUME NodeTypeOK, NodeTypeOK', [NodeNext]_nodeVars, NEW t \in Nodes, Lowered(t)
      PROVE  Excused(t)
  <2>1. members[t].inc \in Int /\ members'[t].inc \in Int
    BY <1>1 DEF NodeTypeOK, TypeOK, Member, Incs, Absent, Rec
  <2>2. ~NotOlder(members[t], members'[t])
    BY <1>1, <2>1 DEF NotOlder
  <2>3. members' # members
    BY <1>1, <2>1
  <2>4. CASE \E s \in Peers, i \in Incs : Receive(s, i) \/ ConfirmMessage(s, i)
    BY <1>1, <2>2, <2>4, ReceiveNotOlder
  <2>5. CASE \/ \E r \in Reporters \ {LocalNode}, n \in Nodes, i \in Incs : ReceiveAbout(r, n, i)
             \/ ReceiveList
    BY <1>1, <2>2, <2>5, ReceiveAboutNotOlder
  <2>6. CASE (\E n \in Peers : Detect(n)) \/ Sweep
    BY <1>1, <2>2, <2>6, DetectNotOlder
  <2>7. CASE Manager
    BY <1>1, <2>2, <2>7, ManagerNotOlder DEF Manager
  <2>8. CASE \/ \E c \in Callers : BeginTask(c)
             \/ \E n \in Peers : FallQuiet(n)
             \/ UNCHANGED nodeVars
    BY <2>3, <2>8, BeginTaskMembers DEF FallQuiet, nodeVars, vars
  <2> QED BY <1>1, <2>4, <2>5, <2>6, <2>7, <2>8 DEF NodeNext
<1>2. NodeTypeOK /\ NodeTypeOK' /\ [NodeNext]_nodeVars
        => [\A t \in Nodes : Lowered(t) => Excused(t)]_nodeVars
  BY <1>1
<1> QED BY <1>2, NodeTypeCorrect, PTL DEF NodeSpec, OnlyCallbacksAndJoinsLowerIncarnation

-----------------------------------------------------------------------------
(* A node without suspicion                                                *)

\* Without suspicion no goroutine has a suspicion to report or is reporting one.
OnlyClears(tasks) == \A task \in tasks : task.kind = "clear"

ClearsOnly ==
  ~enableSuspicion => \A c \in Callers : /\ OnlyClears(agenda[c])
                                         /\ calls[c].pc \in {"idle", "clearUntracked"}

NoSuspicionInv == NoCasesWithoutSuspicion /\ ClearsOnly

\* A section of the membership lock after which nothing but clears is to be done.
LEMMA MergeClears ==
  ASSUME NodeTypeOK, NoSuspicionInv, NEW c \in Callers, NEW ms, NEW heard, NEW tasks,
         Merge(c, ms, heard, tasks), ~enableSuspicion => OnlyClears(tasks)
  PROVE  NoSuspicionInv'
<1>1. /\ agenda' = [agenda EXCEPT ![c] = tasks]
      /\ UNCHANGED <<enableSuspicion, entries, calls, toConfirm>>
  BY DEF Merge, managerVars, config
<1>2. \A x \in Callers : agenda'[x] = (IF x = c THEN tasks ELSE agenda[x])
  BY <1>1 DEF NodeTypeOK
<1>3. ClearsOnly'
  BY <1>1, <1>2 DEF NoSuspicionInv, ClearsOnly, OnlyClears
<1>4. NoCasesWithoutSuspicion'
  BY <1>1 DEF NoSuspicionInv, NoCasesWithoutSuspicion
<1> QED BY <1>3, <1>4 DEF NoSuspicionInv

\* The calls after a sign of life are clears, and so are those that an update asks for
\* without suspicion (processUpdate).
LEMMA ClearTasks ==
  ASSUME NEW r, NEW t, NEW s, NEW i
  PROVE  /\ OnlyClears({}) /\ OnlyClears({ClearTask(t, i)})
         /\ ~enableSuspicion => OnlyClears(TasksOf(r, t, s, i))
<1>1. OnlyClears({}) /\ OnlyClears({ClearTask(t, i)})
  BY DEF OnlyClears, ClearTask
<1>2. ~enableSuspicion => TasksOf(r, t, s, i) \in {{}, {ClearTask(t, i)}}
  BY DEF TasksOf
<1> QED BY <1>1, <1>2

\* The handlers of messages: SuspectMessage does nothing without suspicion.
LEMMA ReceiveClears ==
  ASSUME NodeTypeOK, NoSuspicionInv,
         \/ \E s \in Peers, i \in Incs : Receive(s, i) \/ ConfirmMessage(s, i)
         \/ \E r \in Reporters \ {LocalNode}, t \in Nodes, i \in Incs : ReceiveAbout(r, t, i)
         \/ ReceiveList
  PROVE  NoSuspicionInv'
<1>1. Handler \in Callers
  OBVIOUS
<1>2. ASSUME NEW t, NEW m, NEW heard, NEW tasks,
             MergeOne(t, m, heard, tasks), ~enableSuspicion => OnlyClears(tasks)
      PROVE  NoSuspicionInv'
  BY <1>1, <1>2, MergeClears DEF MergeOne
<1>3. ASSUME NEW s \in Peers, NEW i \in Incs, Receive(s, i) \/ ConfirmMessage(s, i)
      PROVE  NoSuspicionInv'
  <2>1. CASE Join(s, i)
    BY <1>1, <2>1, ClearTasks, MergeClears DEF Join
  <2>2. CASE HeartbeatFrom(s, i) \/ AliveMessage(s, i) \/ Leave(s)
    BY <1>2, <2>2, ClearTasks DEF HeartbeatFrom, AliveMessage, Leave
  <2>3. CASE Ack(s, i) \/ IndirectAck(s, i) \/ ConfirmMessage(s, i)
    BY <1>2, <2>3, ClearTasks DEF Ack, IndirectAck, ConfirmMessage
  <2> QED BY <1>3, <2>1, <2>2, <2>3 DEF Receive
<1>4. ASSUME NEW r \in Reporters, NEW t \in Nodes, NEW i \in Incs, ReceiveAbout(r, t, i)
      PROVE  NoSuspicionInv'
  <2>1. CASE SuspectMessage(r, t, i)
    BY <1>1, <2>1, MergeClears DEF SuspectMessage
  <2>2. ASSUME NEW s \in Statuses, UpdateSelf(r, s, i)
        PROVE  NoSuspicionInv'
    <3>1. /\ agenda' = [agenda EXCEPT ![Handler] = TasksOf(r, LocalNode, s, i)]
          /\ UNCHANGED <<enableSuspicion, entries, calls, toConfirm>>
      BY <2>2 DEF UpdateSelf, vars, config
    <3>2. \A x \in Callers :
            agenda'[x] = (IF x = Handler THEN TasksOf(r, LocalNode, s, i) ELSE agenda[x])
      BY <3>1 DEF NodeTypeOK
    <3>3. ~enableSuspicion => OnlyClears(TasksOf(r, LocalNode, s, i))
      BY ClearTasks
    <3>4. ClearsOnly'
      BY <3>1, <3>2, <3>3 DEF NoSuspicionInv, ClearsOnly, OnlyClears
    <3> QED BY <3>1, <3>4 DEF NoSuspicionInv, NoCasesWithoutSuspicion
  <2>3. ASSUME NEW s \in Statuses, UpdateUnknown(t, s, i) \/ UpdateKnown(r, t, s, i)
        PROVE  NoSuspicionInv'
    BY <1>2, <2>3, ClearTasks DEF UpdateUnknown, UpdateKnown
  <2> QED BY <1>4, <2>1, <2>2, <2>3 DEF ReceiveAbout
<1>5. ASSUME NEW list, JoinResponse(list)
      PROVE  NoSuspicionInv'
  <2>1. PICK news, ms :
          Merge(Handler, ms, news,
                {ClearTask(t, list[t].inc) : t \in {n \in news : list[n].status = "Alive"}})
    BY <1>5 DEF JoinResponse
  <2>2. OnlyClears({ClearTask(t, list[t].inc) : t \in {n \in news : list[n].status = "Alive"}})
    BY DEF OnlyClears, ClearTask
  <2> QED BY <1>1, <2>1, <2>2, MergeClears
<1> QED BY <1>3, <1>4, <1>5 DEF ReceiveList

\* The failure checks: without suspicion they remove, and report nothing.
LEMMA DetectClears ==
  ASSUME NodeTypeOK, NoSuspicionInv, (\E t \in Peers : Detect(t)) \/ Sweep
  PROVE  NoSuspicionInv'
<1>1. Detector \in Callers
  OBVIOUS
<1>2. ASSUME NEW t \in Peers, DeclareSuspicion(t)
      PROVE  NoSuspicionInv'
  <2>1. PICK ms, tasks : Merge(Detector, ms, {}, tasks)
    BY <1>2 DEF DeclareSuspicion
  <2>2. enableSuspicion
    BY <1>2 DEF DeclareSuspicion
  <2> QED BY <1>1, <2>1, <2>2, MergeClears
<1>3. ASSUME NEW t \in Peers, RereadIncarnation(t)
      PROVE  NoSuspicionInv'
  <2>1. PICK task \in agenda[Detector] :
          agenda' = [agenda EXCEPT ![Detector] = {[task EXCEPT !.inc = members[t].inc]}]
    BY <1>3 DEF RereadIncarnation
  <2>2. task \in Task
    BY <1>1 DEF NodeTypeOK
  <2>3. [task EXCEPT !.inc = members[t].inc].kind = task.kind
    BY <2>2 DEF Task
  <2>4. \A x \in Callers : agenda'[x] = (IF x = Detector THEN {[task EXCEPT !.inc = members[t].inc]}
                                                         ELSE agenda[x])
    BY <2>1 DEF NodeTypeOK
  <2>5. UNCHANGED <<enableSuspicion, entries, calls, toConfirm>>
    BY <1>3 DEF RereadIncarnation, vars, config
  <2> DEFINE reread == [task EXCEPT !.inc = members[t].inc]
  <2>6. ~enableSuspicion => reread.kind = "clear"
    BY <1>1, <2>1, <2>3 DEF NoSuspicionInv, ClearsOnly, OnlyClears
  <2>7. \A x \in Callers : agenda'[x] \in {{reread}, agenda[x]}
    BY <2>4
  <2> HIDE DEF reread
  <2>8. ClearsOnly'
    BY <2>5, <2>6, <2>7 DEF NoSuspicionInv, ClearsOnly, OnlyClears
  <2> QED BY <2>5, <2>8 DEF NoSuspicionInv, NoCasesWithoutSuspicion
<1>4. ASSUME NEW t \in Peers, DeclareFailure(t)
      PROVE  NoSuspicionInv'
  BY <1>1, <1>4, ClearTasks, MergeClears DEF DeclareFailure
<1>5. ASSUME NEW gone, RemoveSuspected(gone)
      PROVE  NoSuspicionInv'
  BY <1>5 DEF RemoveSuspected, Remove, managerVars, config,
              NoSuspicionInv, ClearsOnly, NoCasesWithoutSuspicion
<1>6. ASSUME NEW silent, NEW gone, GossipCheck(silent, gone)
      PROVE  NoSuspicionInv'
  <2> DEFINE tasks == IF enableSuspicion
                      THEN {ReportTask(LocalNode, t, members[t].inc) : t \in silent} ELSE {}
  <2>1. PICK ms : Merge(Detector, ms, {}, tasks)
    BY <1>6 DEF GossipCheck
  <2>2. ~enableSuspicion => OnlyClears(tasks)
    BY DEF OnlyClears
  <2> HIDE DEF tasks
  <2> QED BY <1>1, <2>1, <2>2, MergeClears
<1> QED BY <1>2, <1>3, <1>4, <1>5, <1>6 DEF Detect, Sweep, CheckFailures

\* Without suspicion the calls that begin are clears, which find nothing tracked.
LEMMA BeginTaskClears ==
  ASSUME NodeTypeOK, NoSuspicionInv, NEW c \in Callers, BeginTask(c)
  PROVE  NoSuspicionInv'
<1>1. PICK task \in agenda[c] :
        /\ agenda' = [agenda EXCEPT ![c] = @ \ {task}]
        /\ \/ task.kind = "report"
              /\ ProcessSuspicion(c, task.reporter, task.target, task.inc)
           \/ task.kind = "clear"
              /\ ClearSuspect(c, task.target, task.inc)
  BY DEF BeginTask
<1>2. UNCHANGED enableSuspicion /\ task \in Task
  BY DEF BeginTask, config, NodeTypeOK
<1> SUFFICES ASSUME ~enableSuspicion
             PROVE  NoSuspicionInv'
  BY <1>2 DEF NoSuspicionInv, NoCasesWithoutSuspicion, ClearsOnly
<1>3. /\ task.kind = "clear" /\ ClearSuspect(c, task.target, task.inc)
      /\ task.target \in Nodes
  BY <1>1, <1>2 DEF NoSuspicionInv, ClearsOnly, OnlyClears, Task
<1>4. entries[task.target] = NoEntry
  BY <1>3 DEF NoSuspicionInv, NoCasesWithoutSuspicion
<1>5. ClearLookup(c, task.target, task.inc)
  BY <1>3, <1>4 DEF ClearSuspect, ClearStale, NoEntry
<1>6. /\ entries' = [entries EXCEPT ![task.target] = NoEntry]
      /\ calls' = [calls EXCEPT ![c] = [pc |-> "clearUntracked", target |-> task.target,
                                        inc |-> task.inc]]
      /\ toConfirm' = toConfirm
  BY <1>4, <1>5 DEF ClearLookup, NoEntry
<1>7. NoCasesWithoutSuspicion'
  BY <1>6 DEF NoSuspicionInv, NoCasesWithoutSuspicion, NodeTypeOK, TypeOK
<1>8. \A x \in Callers : agenda'[x] \subseteq agenda[x]
  BY <1>1 DEF NodeTypeOK
<1>9. \A x \in Callers : calls'[x] = calls[x] \/ calls'[x].pc = "clearUntracked"
  BY <1>6 DEF NodeTypeOK, TypeOK
<1>10. ClearsOnly'
  BY <1>2, <1>8, <1>9 DEF NoSuspicionInv, ClearsOnly, OnlyClears
<1> QED BY <1>7, <1>10 DEF NoSuspicionInv

\* Nor does the manager itself open a case.
LEMMA ManagerClears ==
  ASSUME NodeTypeOK, NoSuspicionInv, Manager
  PROVE  NoSuspicionInv'
<1>1. ManagerStep /\ UNCHANGED <<enableSuspicion, agenda>>
  BY DEF Manager, config
<1> SUFFICES ASSUME ~enableSuspicion
             PROVE  NoSuspicionInv'
  BY <1>1 DEF NoSuspicionInv, NoCasesWithoutSuspicion, ClearsOnly
<1>2. /\ toConfirm = {} /\ \A t \in Nodes : entries[t].stage = "none"
      /\ \A c \in Callers : calls[c].pc \in {"idle", "clearUntracked"}
  BY DEF NoSuspicionInv, NoCasesWithoutSuspicion, ClearsOnly, NoEntry
<1>3. CASE \E c \in Callers : Continue(c)
  <2>1. PICK c \in Callers : ClearUntracked(c)
    BY <1>2, <1>3 DEF Continue, ReadLocal, CreateEntry, MarkSuspected, ClearTracked
  <2>2. calls' = [calls EXCEPT ![c] = Idle] /\ UNCHANGED <<entries, toConfirm>>
    BY <2>1 DEF ClearUntracked, ClearMember
  <2>3. \A x \in Callers : calls'[x] = calls[x] \/ calls'[x].pc = "idle"
    BY <2>2 DEF NodeTypeOK, TypeOK, Idle
  <2> QED BY <1>1, <2>2, <2>3 DEF NoSuspicionInv, NoCasesWithoutSuspicion, ClearsOnly
<1>4. CASE \E t \in Nodes, i \in Incs : RunCallback(t, i)
  <2>1. UNCHANGED <<entries, toConfirm, calls>>
    BY <1>4 DEF RunCallback, OnSuspect, OnConfirm, OnClear
  <2> QED BY <1>1, <2>1 DEF NoSuspicionInv, NoCasesWithoutSuspicion, ClearsOnly
<1>5. ~(\E t \in Nodes : Elapse(t)) /\ ~CheckScan /\ ~CheckApply
  BY <1>2 DEF Elapse, CheckScan, CheckApply, DueTargets, ExpiredTargets
<1> QED BY <1>1, <1>3, <1>4, <1>5 DEF ManagerStep

\* Without suspicion (enableSuspicion) the manager never opens a case, whatever the
\* peers say and the timers do: the one guard of handleSuspect and the two of the
\* updates and checks keep every report out (ProcessSuspicion).
THEOREM CasesNeedSuspicion == NodeSpec => []NoCasesWithoutSuspicion
<1>1. NodeInit => NoSuspicionInv
  BY DEF NodeInit, Init, Idle, NoSuspicionInv, NoCasesWithoutSuspicion, ClearsOnly, OnlyClears
<1>2. ASSUME NodeTypeOK, NoSuspicionInv, [NodeNext]_nodeVars
      PROVE  NoSuspicionInv'
  <2>1. CASE \/ \E s \in Peers, i \in Incs : Receive(s, i) \/ ConfirmMessage(s, i)
             \/ \E r \in Reporters \ {LocalNode}, t \in Nodes, i \in Incs : ReceiveAbout(r, t, i)
             \/ ReceiveList
    BY <1>2, <2>1, ReceiveClears
  <2>2. CASE (\E t \in Peers : Detect(t)) \/ Sweep
    BY <1>2, <2>2, DetectClears
  <2>3. CASE \E c \in Callers : BeginTask(c)
    BY <1>2, <2>3, BeginTaskClears
  <2>4. CASE Manager
    BY <1>2, <2>4, ManagerClears
  <2>5. CASE (\E t \in Peers : FallQuiet(t)) \/ UNCHANGED nodeVars
    BY <1>2, <2>5 DEF FallQuiet, nodeVars, vars, config,
                      NoSuspicionInv, NoCasesWithoutSuspicion, ClearsOnly
  <2> QED BY <1>2, <2>1, <2>2, <2>3, <2>4, <2>5 DEF NodeNext
<1>3. NoSuspicionInv => NoCasesWithoutSuspicion
  BY DEF NoSuspicionInv
<1> QED BY <1>1, <1>2, <1>3, NodeTypeCorrect, PTL DEF NodeSpec

=============================================================================
