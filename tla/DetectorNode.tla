---------------------------- MODULE DetectorNode ----------------------------
(***************************************************************************)
(* One node of the group: the membership list, the suspicion manager and   *)
(* the detector of its mode (detectors/pingack.go or detectors/gossip.go), *)
(* while the node is a member (active) of the group.                       *)
(*                                                                         *)
(* Two goroutines call the manager.  Handler is processQueue of            *)
(* utils/network.go, which runs the message handlers one after the other.  *)
(* Detector is pingLoop in pingack mode and the gossip failureDetectionLoop*)
(* in gossip mode.  A handler first merges its message into the list (one  *)
(* critical section) and then calls the manager; agenda holds the calls it *)
(* still has to make.  A message with piggybacked updates is handled as    *)
(* the message itself and then one processUpdate after the other.          *)
(*                                                                         *)
(* Messages come from peers that say anything; timeouts expire at any      *)
(* time.  Left out are the messages this node sends, the recent updates it *)
(* piggybacks, and everything from LeaveGroup to the next JoinGroup.       *)
(***************************************************************************)
EXTENDS Suspicion

CONSTANTS
  Modes,              \* the modes the node may be started in
  Handler, Detector,  \* the two goroutines
  AddressOf           \* the host and port of a node; a restart keeps it

ASSUME DetectorAssumption ==
  /\ Modes \subseteq {"pingack", "gossip"}
  /\ Handler # Detector
  /\ Callers = {Handler, Detector}
  /\ LocalNode \in Nodes \cap Reporters
  /\ DOMAIN AddressOf = Nodes

Peers == Nodes \ {LocalNode}

ReportTask(r, t, i) == [kind |-> "report", reporter |-> r, target |-> t, inc |-> i]
ClearTask(t, i)     == [kind |-> "clear", target |-> t, inc |-> i]

Task == [kind : {"report"}, reporter : Reporters, target : Nodes, inc : Incs]
          \cup [kind : {"clear"}, target : Nodes, inc : Incs]

VARIABLES
  mode,             \* Controller.mode
  enableSuspicion,  \* enableSuspicion of the detector
  agenda,    \* calls a goroutine still makes before it does anything else
  quiet      \* gossip: members whose LastHeartbeat is so old that checkFailures acts

\* What the node is started with and keeps.
config == <<mode, enableSuspicion>>

nodeVars == <<vars, config, agenda, quiet>>

managerVars == <<incarnation, entries, calls, toConfirm, callbacks>>

NodeInit ==
  /\ Init
  /\ members[LocalNode] = Rec("Alive", 0)
  /\ mode \in Modes
  /\ enableSuspicion \in BOOLEAN
  /\ agenda = [c \in Callers |-> {}]
  /\ quiet = {}

-----------------------------------------------------------------------------
(* Sections of the membership lock                                         *)

\* The goroutine is done with the previous message or round.
Ready(c) == calls[c] = Idle /\ agenda[c] = {}

\* Goroutine c changes the list to ms, sets LastHeartbeat of the members heard,
\* and has the calls in tasks to make.
Merge(c, ms, heard, tasks) ==
  /\ Ready(c)
  /\ members' = ms
  /\ quiet' = {t \in quiet \ heard : Present(ms[t])}
  /\ agenda' = [agenda EXCEPT ![c] = tasks]
  /\ UNCHANGED <<managerVars, config>>

\* The same for the handler and one member.
MergeOne(t, m, heard, tasks) ==
  Merge(Handler, [members EXCEPT ![t] = m], IF heard THEN {t} ELSE {}, tasks)

-----------------------------------------------------------------------------
(* Message handlers of both detectors                                      *)

\* The part of Ping and Heartbeat that is about the sender.  It lifts a
\* suspicion in the list but does not tell the manager.
HeartbeatFrom(s, i) ==
  MergeOne(s, HeardFrom(members[s], i), i >= members[s].inc, {})

\* Mutants of TasksOf: the incarnation is off by one; suspicion is not asked for.
TasksOfNext(r, t, s, i) ==
  CASE s = "Suspected" /\ enableSuspicion -> {ReportTask(r, t, i + 1)}
    [] s = "Alive"                        -> {ClearTask(t, i)}
    [] OTHER                              -> {}

TasksOfAlways(r, t, s, i) ==
  CASE s = "Suspected" -> {ReportTask(r, t, i)}
    [] s = "Alive"     -> {ClearTask(t, i)}
    [] OTHER           -> {}

\* The calls that follow a piggybacked update about a known node.
TasksOf(r, t, s, i) ==
  CASE s = "Suspected" /\ enableSuspicion -> {ReportTask(r, t, i)}
    [] s = "Alive"                        -> {ClearTask(t, i)}
    [] OTHER                              -> {}

\* Bound: suspicions of this node stop when its incarnation has no successor.
Refutable(t, i) == t = LocalNode => Refutation(incarnation, i) \in Incs

\* A piggybacked update from r.  One about this node leaves its entry alone, one
\* about an unknown node adds it and does not reach the manager.
UpdateSelf(r, s, i) ==
  /\ Ready(Handler)
  /\ s = "Suspected" => Refutable(LocalNode, i)
  /\ agenda' = [agenda EXCEPT ![Handler] = TasksOf(r, LocalNode, s, i)]
  /\ UNCHANGED <<vars, config, quiet>>

UpdateUnknown(t, s, i) ==
  /\ ~Present(members[t])
  /\ MergeOne(t, Rec(s, i), TRUE, {})

UpdateKnown(r, t, s, i) ==
  LET m == Learn(members[t], s, i)
  IN  /\ Present(members[t])
      /\ MergeOne(t, m, s = "Alive" /\ m # members[t], TasksOf(r, t, s, i))

AliveMessage(s, i) ==
  LET m == Revive(members[s], i)
  IN  MergeOne(s, m, m # members[s], {ClearTask(s, i)})

SuspectMessage(s, t, i) ==
  /\ enableSuspicion
  /\ Refutable(t, i)
  /\ Merge(Handler, members, {}, {ReportTask(s, t, i)})

\* A join replaces the entry of the sender, whatever it was, and evicts every
\* other entry with the same address.
Join(s, i) ==
  Merge(Handler,
           [t \in Nodes |-> CASE t = s                       -> Rec("Alive", i)
                              [] AddressOf[t] = AddressOf[s]
                                   /\ t # s                  -> Absent
                              [] OTHER                       -> members[t]],
           {s}, {})

\* The list that answers our Join, Absent where it has no entry.  What is news
\* and Alive is cleared afterwards.
JoinResponse(list) ==
  LET news == {t \in Peers : /\ Present(list[t])
                             /\ ~Present(members[t]) \/ list[t].inc > members[t].inc}
  IN  Merge(Handler,
               [t \in Nodes |-> IF t \in news THEN list[t] ELSE members[t]],
               news,
               {ClearTask(t, list[t].inc) : t \in {n \in news : list[n].status = "Alive"}})
    
Leave(s) == MergeOne(s, Absent, FALSE, {})

-----------------------------------------------------------------------------
(* Pingack only                                                            *)

Ack(s, i) ==
  /\ mode = "pingack"
  /\ MergeOne(s, HeardFrom(members[s], i), i >= members[s].inc, {ClearTask(s, i)})

IndirectAck(t, i) ==
  /\ mode = "pingack"
  /\ MergeOne(t, Revive(members[t], i), i >= members[t].inc, {ClearTask(t, i)})

\* declareSuspicion: a protocol period ended without any ack.  Its target was an
\* Alive member when it began and may be anything by now; if the list has lost it,
\* it is put back.
DeclareSuspicion(t) ==
  /\ mode = "pingack"
  /\ enableSuspicion
  /\ LET m == IF Present(members[t]) THEN Mark(members[t], "Suspected") ELSE Rec("Suspected", 0)
     IN  Merge(Detector, [members EXCEPT ![t] = m], {}, {ReportTask(LocalNode, t, m.inc)})

\* The report that follows reads the incarnation without the lock: it may still
\* see what another goroutine wrote after the section.  (The code reads it through
\* the pointer it holds, so of a Join it would see nothing.  Here it may.)
RereadIncarnation(t) ==
  /\ mode = "pingack"
  /\ Present(members[t])
  /\ \E task \in agenda[Detector] :
       /\ task.target = t
       /\ agenda' = [agenda EXCEPT ![Detector] = {[task EXCEPT !.inc = members[t].inc]}]
  /\ UNCHANGED <<vars, config, quiet>>

\* Without suspicion the silent member is removed at once.
DeclareFailure(t) ==
  /\ mode = "pingack"
  /\ ~enableSuspicion
  /\ Merge(Detector, [members EXCEPT ![t] = Absent], {}, {})

Remove(gone) ==
  /\ members' = [t \in Nodes |-> IF t \in gone THEN Absent ELSE members[t]]
  /\ UNCHANGED <<managerVars, config, agenda, quiet>>

\* Mutant of RemoveSuspected: it leaves members the manager does not track.
RemoveTracked(gone) ==
  /\ mode = "pingack"
  /\ gone # {}
  /\ \A t \in gone : members[t].status = "Suspected" /\ entries[t].stage # "none"
  /\ Remove(gone)

\* checkFailures in a goroutine of its own: removes members suspected too long.
RemoveSuspected(gone) ==
  /\ mode = "pingack"
  /\ gone # {}
  /\ \A t \in gone : members[t].status = "Suspected"
  /\ Remove(gone)

-----------------------------------------------------------------------------
(* Gossip only                                                             *)

\* A verdict of a peer.  It is never sent to the node it is about.
ConfirmMessage(t, i) ==
  /\ mode = "gossip"
  /\ MergeOne(t, Condemn(members[t], i), FALSE, {})

\* checkFailures: silent Alive members become suspected, or go at once without
\* suspicion; members Suspected for long, or Failed and quiet, go.
GossipCheck(silent, gone) ==
  /\ mode = "gossip"
  /\ silent \cup gone # {}
  /\ \A t \in silent : members[t].status = "Alive" /\ t \in quiet
  /\ Merge(Detector,
           [t \in Nodes |->
              CASE t \in silent -> IF enableSuspicion THEN Mark(members[t], "Suspected") ELSE Absent
                [] t \in gone   -> Absent
                [] OTHER        -> members[t]],
           {},
           IF enableSuspicion
           THEN {ReportTask(LocalNode, t, members[t].inc) : t \in silent} ELSE {})

\* Mutant of CheckFailures: Failed members are not removed.
CheckFailuresNoFailed(silent, gone) ==
  /\ \A t \in gone : members[t].status = "Suspected"
  /\ GossipCheck(silent, gone)

CheckFailures(silent, gone) ==
  /\ \A t \in gone : \/ members[t].status = "Suspected"
                     \/ members[t].status = "Failed" /\ t \in quiet
  /\ GossipCheck(silent, gone)

-----------------------------------------------------------------------------
(* The specification                                                       *)

\* A goroutine makes the next call on its agenda.
BeginTask(c) ==
  /\ calls[c] = Idle
  /\ \E task \in agenda[c] :
       /\ agenda' = [agenda EXCEPT ![c] = @ \ {task}]
       /\ \/ task.kind = "report"
             /\ ProcessSuspicion(c, task.reporter, task.target, task.inc)
          \/ task.kind = "clear"
             /\ ClearSuspect(c, task.target, task.inc)
  /\ UNCHANGED <<config, quiet>>

\* A step of the manager.  Of its callbacks OnClear also sets LastHeartbeat.
Manager ==
  /\ ManagerStep
  /\ quiet' = quiet \ {t \in Nodes : \E i \in Incs :
                          LET cb == Cb("OnClear", t, i) IN callbacks'[cb] < callbacks[cb]}
  /\ UNCHANGED <<config, agenda>>

\* Nothing was heard from a member for a while.
FallQuiet(t) ==
  /\ mode = "gossip"
  /\ Present(members[t])
  /\ t \notin quiet
  /\ quiet' = quiet \cup {t}
  /\ UNCHANGED <<vars, config, agenda>>

Receive(s, i) ==
  \/ HeartbeatFrom(s, i)
  \/ AliveMessage(s, i)
  \/ Join(s, i)
  \/ Leave(s)
  \/ Ack(s, i)
  \/ IndirectAck(s, i)

ReceiveAbout(r, t, i) ==
  \/ SuspectMessage(r, t, i)
  \/ \E s \in Statuses : IF t = LocalNode THEN UpdateSelf(r, s, i)
                         ELSE UpdateUnknown(t, s, i) \/ UpdateKnown(r, t, s, i)

\* The list that answers a Join may hold any nodes.
ReceiveList == \E list \in [Peers -> Member(Incs)] : JoinResponse(list)

Detect(t) ==
  \/ DeclareSuspicion(t)
  \/ RereadIncarnation(t)
  \/ DeclareFailure(t)

Sweep ==
  \E gone, silent \in SUBSET Peers : RemoveSuspected(gone) \/ CheckFailures(silent, gone)

NodeNext ==
  \/ \E s \in Peers, i \in Incs : Receive(s, i)
  \/ \E r \in Reporters \ {LocalNode}, t \in Nodes, i \in Incs : ReceiveAbout(r, t, i)
  \/ \E t \in Peers, i \in Incs : ConfirmMessage(t, i)
  \/ ReceiveList
  \/ \E t \in Peers : Detect(t)
  \/ Sweep
  \/ \E c \in Callers : BeginTask(c)
  \/ \E t \in Peers : FallQuiet(t)
  \/ Manager

\* A member that a round of checkFailures removes once it has been so for long.
Removable(t) ==
  \/ members[t].status = "Suspected"
  \/ mode = "gossip" /\ members[t].status = "Failed" /\ t \in quiet

Removal(t) ==
  \E gone, silent \in SUBSET Peers :
    t \in gone /\ (RemoveSuspected(gone) \/ CheckFailures(silent, gone))

\* The rounds go on and time passes: a member that stays removable is removed,
\* unless there comes a time after which no round gets to do it.
RoundsGoOn(t) == []<>~Removable(t) \/ SF_nodeVars(Removal(t))

NodeFairness ==
  /\ ManagerFairness
  /\ \A c \in Callers : WF_nodeVars(BeginTask(c))
  /\ \A t \in Peers : RoundsGoOn(t) /\ WF_nodeVars(FallQuiet(t))

NodeSpec     == NodeInit /\ [][NodeNext]_nodeVars
FairNodeSpec == NodeSpec /\ NodeFairness

-----------------------------------------------------------------------------
(* Properties                                                              *)

NodeTypeOK ==
  /\ TypeOK
  /\ mode \in Modes
  /\ enableSuspicion \in BOOLEAN
  /\ agenda \in [Callers -> SUBSET Task]
  /\ quiet \subseteq Peers

\* The incarnation of an entry is lowered by nothing but a Join of the node and
\* the callbacks of a suspicion: no merge rule of a message handler, no failure
\* check and no ClearSuspect ever does.
OnlyCallbacksAndJoinsLowerIncarnation ==
  [][\A t \in Nodes :
       Present(members[t]) /\ Present(members'[t]) /\ members'[t].inc < members[t].inc
         => \/ \E i \in Incs : Join(t, i)
            \/ \E i \in Incs, k \in {"OnSuspect", "OnConfirm"} :
                 callbacks'[Cb(k, t, i)] < callbacks[Cb(k, t, i)]]_nodeVars

\* A member does not stay Suspected, whatever is lost or late: it is cleared,
\* confirmed or removed (checkFailures and the suspicion manager).
SuspicionsAreResolved ==
  \A t \in Peers : members[t].status = "Suspected" ~> members[t].status # "Suspected"

\* In gossip mode a Failed member that is not heard from any more is removed
\* (checkFailures).
SilentFailedGoes ==
  \A t \in Peers :
    members[t].status = "Failed" /\ t \in quiet
      ~> members[t].status # "Failed" \/ t \notin quiet

\* README.md:112: Failed members are "retained temporarily".
FailedIsTemporary ==
  \A t \in Peers : members[t].status = "Failed" ~> members[t].status # "Failed"

\* README.md:120: "Incarnation numbering avoids stale overwrites".  Unless the
\* node joins anew, what the list says of its incarnation never becomes older.
NoStaleOverwrites ==
  [][\A t \in Nodes :
       Present(members[t]) /\ Present(members'[t]) /\ ~(\E i \in Incs : Join(t, i))
         => members'[t].inc >= members[t].inc]_nodeVars

\* README.md:14: "Alive -> Suspected -> Failed": the manager's verdict (check)
\* falls on members that are Suspected when it falls.
OnlySuspectsAreConfirmed ==
  [][toConfirm # {} /\ toConfirm' = {}
       => \A t \in Nodes : members[t].status = "Alive" => members'[t].status # "Failed"]_nodeVars

\* Without suspicion (enableSuspicion) the manager never opens a case, no matter
\* what the peers say.
NoCasesWithoutSuspicion ==
  ~enableSuspicion => toConfirm = {} /\ \A t \in Nodes : entries[t] = NoEntry

=============================================================================
