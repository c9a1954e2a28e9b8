------------------------------ MODULE Cluster ------------------------------
(***************************************************************************)
(* A group of nodes in gossip mode (detectors/gossip.go) that exchange     *)
(* messages over UDP: heartbeats with piggybacked updates, and the         *)
(* Suspect, Confirm and AliveMsg messages of the suspicion manager and its *)
(* callbacks (main.go:44-125).  Where DetectorNode lets the peers of a     *)
(* node say anything, here they say what their state makes them say.       *)
(*                                                                         *)
(* Messages are delayed, reordered and lost (lost when they are sent: one  *)
(* that is never received is under way for ever).  The manager's callbacks *)
(* are goroutines that run at any time after the step that started them.   *)
(* A handler, a failure check of one member and a verdict of the manager   *)
(* are one step each: the gaps within them are in DetectorNode.            *)
(* RequireReports is 1, as main sets it.  There is no clock: timeouts      *)
(* expire at any time, so a failure check can miss anybody.                *)
(***************************************************************************)
EXTENDS Members, FiniteSets

CONSTANTS
  Nodes,
  Suspicions,      \* values of enableSuspicion: a subset of BOOLEAN
  MaxIncarnation,  \* (bound)
  Bounds,          \* the bounds of a behaviour, one of: a record of
                   \*   inc        the highest incarnation
                   \*   flight     messages under way; more are lost
                   \*   callbacks  callbacks that wait to run, in all nodes
                   \*   misses     nodes and incarnations that failure checks miss
                   \*   gone       nodes that leave or crash
                   \*   informants nodes whose recent updates are handed on
                   \*   news       recent updates of one; more are not handed on
                   \*   tell       statuses that recent updates tell of
  None

ASSUME ClusterAssumption ==
  /\ Suspicions \subseteq BOOLEAN
  /\ MaxIncarnation \in Nat /\ MaxIncarnation < MaxInt32
  /\ None \notin Nodes

Incs   == 0..MaxIncarnation
NoCase == [stage |-> "none", inc |-> 0]
Case   == {NoCase} \cup [stage : {"reported", "confirmed"}, inc : Incs]
Callback == [kind : {"OnSuspect", "OnConfirm", "OnClear"}, about : Nodes, inc : Incs]
Update == [about : Nodes, status : Statuses, inc : Incs]
NoUpdate == [about |-> None, status |-> "Alive", inc |-> 0]
Kinds  == {"Heartbeat", "Suspect", "Confirm", "AliveMsg", "Leave"}

\* update is the piggybacked update of a Heartbeat, or what a Suspect or Confirm says
\* of its Target.
Msg(kind, from, inc, update) == [kind |-> kind, from |-> from, inc |-> inc, update |-> update]

VARIABLES
  bounds,
  enableSuspicion,
  node,      \* per node: list (Members), inc (Incarnation), cases (manager's entries),
             \* callbacks (started and not yet run), news (recentUpdates)
  up,        \* nodes whose process runs
  active,    \* nodes that have not left the group
  sent,      \* messages under way, with their receiver
  missed,    \* history: nodes that a failure check found silent, at which incarnation
  lent       \* history: nodes that an OnClear of theirs gave a higher incarnation, and which

vars == <<bounds, enableSuspicion, node, up, active, sent, missed, lent>>

TypeOK ==
  /\ bounds \in Bounds
  /\ enableSuspicion \in Suspicions
  /\ node \in [Nodes -> [list : [Nodes -> Member(Incs)], inc : Incs,
                         cases : [Nodes -> Case], callbacks : SUBSET Callback,
                         news : SUBSET Update]]
  /\ up \subseteq Nodes /\ active \subseteq Nodes
  /\ \A p \in sent :
       /\ p.to \in Nodes /\ p.msg.kind \in Kinds
       /\ p.msg.from \in Nodes /\ p.msg.inc \in Incs
       /\ p.msg.update \in Update \cup {NoUpdate}
  /\ missed \subseteq Nodes \X Incs /\ lent \subseteq Nodes \X Incs

\* The state of a node of a group that everybody has joined.
Fresh == [list  |-> [t \in Nodes |-> Rec("Alive", 0)], inc |-> 0,
          cases |-> [t \in Nodes |-> NoCase], callbacks |-> {}, news |-> {}]

Init ==
  /\ bounds \in Bounds
  /\ enableSuspicion \in Suspicions
  /\ node = [n \in Nodes |-> Fresh]
  /\ up = Nodes /\ active = Nodes
  /\ sent = {} /\ missed = {} /\ lent = {}

-----------------------------------------------------------------------------
(* What a handler or callback does to its node.  A run of it is a record   *)
(* with the fields of the node, its name, the callbacks it starts and what *)
(* it sends; every operator takes one and returns it as the call leaves    *)
(* it.                                                                     *)

RunOf(n) == [list |-> node[n].list, inc |-> node[n].inc, cases |-> node[n].cases,
             callbacks |-> node[n].callbacks, news |-> node[n].news,
             me |-> n, started |-> {}, out |-> {}]

Put(r, t, m)   == [r EXCEPT !.list[t] = m]
Track(r, t, c) == [r EXCEPT !.cases[t] = c]

Start(r, kind, t, i) ==
  [r EXCEPT !.started = @ \cup {[kind |-> kind, about |-> t, inc |-> i]}]

\* AddRecentUpdate.
Record(r, t, s, i) ==
  IF r.me \in bounds.informants /\ s \in bounds.tell /\ Cardinality(r.news) < bounds.news
  THEN [r EXCEPT !.news = @ \cup {[about |-> t, status |-> s, inc |-> i]}]
  ELSE r

\* A change of an entry that is recorded if it is one.
Change(r, t, m) ==
  IF m = r.list[t] THEN r ELSE Record(Put(r, t, m), t, m.status, m.inc)

\* To every listed node but those in except.
Broadcast(r, except, msg) ==
  [r EXCEPT !.out = @ \cup {[to |-> t, msg |-> msg] :
                             t \in {p \in Nodes \ except : Present(r.list[p])}}]

\* Mutant of RefuteSelf: the new incarnation is sent and not kept.
RefuteSelfForgetting(r, i) ==
  LET new == Refutation(r.inc, i)
  IN  IF new \in Incs THEN Broadcast(r, {r.me}, Msg("AliveMsg", r.me, new, NoUpdate)) ELSE r

\* handleSelfRefutation.  It raises Incarnation and leaves the node's own entry alone.
RefuteSelf(r, i) ==
  LET new == Refutation(r.inc, i)
  IN  Broadcast([r EXCEPT !.inc = new], {r.me}, Msg("AliveMsg", r.me, new, NoUpdate))

\* ProcessSuspicion: the first report of a new case marks the target and starts OnSuspect.
Report(r, t, i) ==
  LET old == r.cases[t]
      new == IF old = NoCase THEN i >= r.list[t].inc ELSE i > old.inc
      case == [stage |-> "reported", inc |-> i]
  IN  CASE t = r.me -> RefuteSelf(r, i)
        [] t # r.me /\ new ->
             Start(Put(Track(r, t, case), t, Mark(r.list[t], "Suspected")), "OnSuspect", t, i)
        [] OTHER -> r

\* Only what it forgets starts OnClear.
ClearSuspect(r, t, i) ==
  LET old == r.cases[t]
      revived == Put(r, t, Revive(r.list[t], i))
  IN  CASE old = NoCase -> revived
        [] old # NoCase /\ i >= old.inc -> Start(Track(revived, t, NoCase), "OnClear", t, i)
        [] OTHER -> r

\* Mutant of Learned: an unknown node is taken for Alive.
LearnedAlive(m, u) == IF Present(m) THEN Learn(m, u.status, u.inc) ELSE Rec("Alive", u.inc)

Learned(m, u) == IF Present(m) THEN Learn(m, u.status, u.inc) ELSE Rec(u.status, u.inc)

\* processUpdate.  A Failed about oneself is passed over.
ProcessUpdate(r, u) ==
  LET t == u.about
      known == Present(r.list[t])
      at == IF t = r.me THEN r ELSE Change(r, t, Learned(r.list[t], u))
  IN  CASE t # r.me /\ ~known -> at
        [] u.status = "Suspected" /\ enableSuspicion /\ (t = r.me \/ known) ->
             Report(at, t, u.inc)
        [] u.status = "Alive" /\ (t = r.me \/ known) -> ClearSuspect(at, t, u.inc)
        [] OTHER -> at

HandleHeartbeat(r, m) ==
  LET heard == Change(r, m.from, HeardFrom(r.list[m.from], m.inc))
  IN  IF m.update = NoUpdate THEN heard ELSE ProcessUpdate(heard, m.update)

HandleSuspect(r, m) == IF enableSuspicion THEN Report(r, m.update.about, m.inc) ELSE r

HandleAlive(r, m) ==
  ClearSuspect(Change(r, m.from, Revive(r.list[m.from], m.inc)), m.from, m.inc)

HandleConfirm(r, m) ==
  LET t == m.update.about  old == r.list[t]
  IN  IF Present(old) /\ m.inc >= old.inc
      THEN Record(Put(r, t, Condemn(old, m.inc)), t, "Failed", m.inc) ELSE r

\* Of the entry that goes, a Failed update stays.
Drop(r, t) ==
  IF Present(r.list[t]) THEN Record(Put(r, t, Absent), t, "Failed", r.list[t].inc) ELSE r

HandleLeave(r, m) == Drop(r, m.from)

-----------------------------------------------------------------------------
(* The callbacks of main.                                                  *)

\* Mutant of OnSuspect: sender and target are swapped.
OnSuspectSwapped(r, t, i) ==
  Broadcast(Put(r, t, Overwrite(r.list[t], "Suspected", i)), {r.me, t},
            Msg("Suspect", t, i, [about |-> r.me, status |-> "Suspected", inc |-> i]))

OnSuspect(r, t, i) ==
  Broadcast(Put(r, t, Overwrite(r.list[t], "Suspected", i)), {r.me, t},
            Msg("Suspect", r.me, i, [about |-> t, status |-> "Suspected", inc |-> i]))

\* Mutant of OnConfirm: the target is told too.
OnConfirmToAll(r, t, i) ==
  Broadcast(Put(r, t, Overwrite(r.list[t], "Failed", i)), {r.me},
            Msg("Confirm", r.me, i, [about |-> t, status |-> "Failed", inc |-> i]))

OnConfirm(r, t, i) ==
  Broadcast(Put(r, t, Overwrite(r.list[t], "Failed", i)), {r.me, t},
            Msg("Confirm", r.me, i, [about |-> t, status |-> "Failed", inc |-> i]))

\* Mutant of OnClear: the incarnation is raised for the node.
OnClearNext(r, t, i) ==
  Broadcast(Put(r, t, Overwrite(r.list[t], "Alive", i + 1)), {r.me, t},
            Msg("AliveMsg", r.me, i + 1, NoUpdate))

\* Whatever the entry has become, it is Alive again.  The AliveMsg names this node as its
\* sender and the incarnation of t.
OnClear(r, t, i) ==
  LET old == r.list[t].inc
  IN  Broadcast(Put(r, t, Overwrite(r.list[t], "Alive", IF i >= old THEN i ELSE old)),
                {r.me, t}, Msg("AliveMsg", r.me, i, NoUpdate))

-----------------------------------------------------------------------------
(* Steps                                                                   *)

\* Run r changes its node and sends what the network does not lose.  Bounds: a step that
\* would raise an incarnation above the highest is not taken, and one that starts a
\* callback waits while as many wait to run as may, or the same does.
Finish(r, rest) ==
  /\ r.inc \in Incs /\ r.inc <= bounds.inc
  /\ r.started # {} =>
       /\ r.started \cap r.callbacks = {}
       /\ Cardinality(UNION {{n} \X node[n].callbacks : n \in Nodes}) < bounds.callbacks
  /\ node' = [node EXCEPT ![r.me] = [list |-> r.list, inc |-> r.inc, cases |-> r.cases,
                                     callbacks |-> r.callbacks \cup r.started,
                                     news |-> r.news]]
  /\ \E arriving \in SUBSET r.out :
       /\ Cardinality(rest \cup arriving) <= bounds.flight
       /\ sent' = rest \cup arriving

\* A handler of a node that has left returns at once, except handleLeave.
Receive(p) ==
  LET m == p.msg  r == RunOf(p.to)
      handled == CASE m.kind = "Heartbeat" -> HandleHeartbeat(r, m)
                   [] m.kind = "Suspect"   -> HandleSuspect(r, m)
                   [] m.kind = "AliveMsg"  -> HandleAlive(r, m)
                   [] m.kind = "Confirm"   -> HandleConfirm(r, m)
                   [] m.kind = "Leave"     -> HandleLeave(r, m)
  IN  /\ p.to \in up
      /\ Finish(IF p.to \in active \/ m.kind = "Leave" THEN handled ELSE r, sent \ {p})
      /\ UNCHANGED <<bounds, enableSuspicion, up, active, missed, lent>>

\* What performGossipRound can put into a heartbeat: recent updates, to which it has
\* added the entries of itself and of Alive members.
Piggyback(n) ==
  node[n].news \cup {[about |-> t, status |-> "Alive", inc |-> node[n].list[t].inc] :
                       t \in {d \in Nodes : node[n].list[d].status = "Alive"}}

\* performGossipRound, to one target.  The rounds of a node that has left go on.
GossipRound(n, t) ==
  /\ n \in up
  /\ t # n /\ node[n].list[t].status = "Alive"
  /\ \E u \in Piggyback(n) \cup {NoUpdate} :
       sent' = sent \cup {[to |-> t, msg |-> Msg("Heartbeat", n, node[n].inc, u)]}
  /\ Cardinality(sent') <= bounds.flight
  /\ UNCHANGED <<bounds, enableSuspicion, node, up, active, missed, lent>>

\* updateWindow is over.
Expire(n, u) ==
  /\ u \in node[n].news
  /\ node' = [node EXCEPT ![n].news = @ \ {u}]
  /\ UNCHANGED <<bounds, enableSuspicion, up, active, sent, missed, lent>>

\* checkFailures about t: its heartbeats stay away, or it has been Suspected or Failed
\* for long enough.
Silent(n, t) ==
  /\ node[n].list[t].status = "Alive"
  /\ missed' = missed \cup {<<t, node[n].list[t].inc>>}
  /\ Cardinality(missed') <= bounds.misses

Suspicious(n, t) ==
  /\ enableSuspicion /\ Silent(n, t)
  /\ LET m == Mark(node[n].list[t], "Suspected")
     IN  Finish(Report(Change(RunOf(n), t, m), t, m.inc), sent)

Removed(n, t) ==
  /\ \/ ~enableSuspicion /\ Silent(n, t)
     \/ node[n].list[t].status \in {"Suspected", "Failed"} /\ UNCHANGED missed
  /\ Finish(Drop(RunOf(n), t), sent)

CheckFailures(n, t) ==
  /\ n \in up /\ t # n
  /\ Suspicious(n, t) \/ Removed(n, t)
  /\ UNCHANGED <<bounds, enableSuspicion, up, active, lent>>

\* The manager's check: a case becomes a verdict, OnConfirm is started if the list still
\* holds the node, and later the case is forgotten.
Confirm(n, t) ==
  LET c == node[n].cases[t]  m == node[n].list[t]
      r == Put(Track(RunOf(n), t, [c EXCEPT !.stage = "confirmed"]), t, Mark(m, "Failed"))
  IN  /\ n \in up
      /\ c.stage = "reported"
      /\ Finish(IF Present(m) THEN Start(r, "OnConfirm", t, c.inc) ELSE r, sent)
      /\ UNCHANGED <<bounds, enableSuspicion, up, active, missed, lent>>

Forget(n, t) ==
  /\ n \in up
  /\ node[n].cases[t].stage = "confirmed"
  /\ node' = [node EXCEPT ![n].cases[t] = NoCase]
  /\ UNCHANGED <<bounds, enableSuspicion, up, active, sent, missed, lent>>

\* The goroutine of a callback runs, in a node that has left as well.
RunCallback(n, c) ==
  LET r == [RunOf(n) EXCEPT !.callbacks = @ \ {c}]  t == c.about  i == c.inc
  IN  /\ n \in up
      /\ c \in node[n].callbacks
      /\ \/ c.kind = "OnSuspect" /\ Finish(OnSuspect(r, t, i), sent)
         \/ c.kind = "OnConfirm" /\ Finish(OnConfirm(r, t, i), sent)
         \/ c.kind = "OnClear"   /\ Finish(OnClear(r, t, i), sent)
      /\ lent' = IF c.kind = "OnClear" /\ i > node[n].inc THEN lent \cup {<<n, i>>} ELSE lent
      /\ UNCHANGED <<bounds, enableSuspicion, up, active, missed>>

MayGo(n) == Cardinality((Nodes \ (up \cap active)) \cup {n}) <= bounds.gone

LeaveGroup(n) ==
  /\ n \in up \cap active /\ MayGo(n)
  /\ Finish(Broadcast(RunOf(n), {n}, Msg("Leave", n, node[n].inc, NoUpdate)), sent)
  /\ active' = active \ {n}
  /\ UNCHANGED <<bounds, enableSuspicion, up, missed, lent>>

\* What the process knew, and the callbacks it had started, are gone (inc is kept as
\* history).
Crash(n) ==
  /\ n \in up /\ MayGo(n)
  /\ up' = up \ {n}
  /\ node' = [node EXCEPT ![n] = [Fresh EXCEPT !.inc = node[n].inc]]
  /\ UNCHANGED <<bounds, enableSuspicion, active, sent, missed, lent>>

Next ==
  \/ \E p \in sent : Receive(p)
  \/ \E n, t \in Nodes :
       GossipRound(n, t) \/ CheckFailures(n, t) \/ Confirm(n, t) \/ Forget(n, t)
  \/ \E n \in Nodes :
       \/ LeaveGroup(n) \/ Crash(n)
       \/ \E u \in node[n].news : Expire(n, u)
       \/ \E c \in node[n].callbacks : RunCallback(n, c)

Spec == Init /\ [][Next]_vars

-----------------------------------------------------------------------------
(* Properties                                                              *)

\* Behind every case, suspicion callback, Suspect, Confirm and Suspected update about a
\* node at an incarnation, anywhere in the group, is a failure check (gossip.go:210-216)
\* that missed that node at that very incarnation.  Only who was missed, at whatever
\* incarnation, or has left the group is listed as anything but Alive or reported Failed.
SuspicionsStartWithAMiss ==
  LET Excused(t) == t \notin active \/ \E i \in Incs : <<t, i>> \in missed
      Founded(u) == /\ u.status = "Suspected" => <<u.about, u.inc>> \in missed
                    /\ u.status = "Failed" => Excused(u.about)
  IN  /\ \A n, t \in Nodes :
           /\ node[n].cases[t] # NoCase => <<t, node[n].cases[t].inc>> \in missed
           /\ node[n].list[t].status # "Alive" => Excused(t)
      /\ \A n \in Nodes :
           /\ \A c \in node[n].callbacks : c.kind # "OnClear" => <<c.about, c.inc>> \in missed
           /\ \A u \in node[n].news : Founded(u)
      /\ \A p \in sent :
           /\ Founded(p.msg.update)
           /\ p.msg.kind = "Confirm" => <<p.msg.update.about, p.msg.inc>> \in missed

\* A node is Alive in its own list.  The handler of Confirm would take anybody: it is
\* OnConfirm of the others that leaves the target out (main.go:79).
NobodyCondemnsItself ==
  \A n \in Nodes : node[n].list[n].status = "Alive"

\* An incarnation that is listed, tracked, about to be written or under way of a node is
\* one the node has given itself, or one an OnClear of that node has given it
\* (main.go:116-120), which some other node has given itself.
IncarnationsAreGranted ==
  LET Granted(t, i) == i <= node[t].inc \/ \E j \in Incs : i <= j /\ <<t, j>> \in lent
  IN  /\ \A n, t \in Nodes :
           Granted(t, node[n].list[t].inc) /\ Granted(t, node[n].cases[t].inc)
      /\ \A n \in Nodes : \A x \in node[n].news \cup node[n].callbacks : Granted(x.about, x.inc)
      /\ \A p \in sent :
           /\ p.msg.kind \in {"Heartbeat", "AliveMsg", "Leave"} => Granted(p.msg.from, p.msg.inc)
           /\ p.msg.update # NoUpdate => Granted(p.msg.update.about, p.msg.update.inc)
      /\ \A l \in lent : \E n \in Nodes : l[2] <= node[n].inc

\* What could make a running node take t for Alive: it does already, or it has an OnClear
\* or a recent update that says so, or a message that says so is under way to it.
SignsOfLife(t) ==
  \/ \E n \in up :
       \/ node[n].list[t].status = "Alive"
       \/ \E c \in node[n].callbacks : c.kind = "OnClear" /\ c.about = t
       \/ \E u \in node[n].news : u.about = t /\ u.status = "Alive"
  \/ \E p \in sent :
       /\ p.to \in up
       /\ \/ p.msg.from = t /\ p.msg.kind \in {"Heartbeat", "AliveMsg"}
          \/ p.msg.update.about = t /\ p.msg.update.status = "Alive"

\* A node whose process has ended and of which no sign of life is left is never taken for
\* Alive again: what the others still tell of it (gossip.go:345-361 adds whoever they
\* tell of) and the manager's late callbacks do not raise the dead.
TheDeadStayDead ==
  [][\A t \in Nodes \ up : ~SignsOfLife(t) => ~SignsOfLife(t)']_vars

\* gossip.go:305-306 calls a heartbeat of a lower incarnation than the listed one stale:
\* its sender would have given itself a higher one since.
OnlyStaleHeartbeatsAreIgnored ==
  \A p \in sent :
    (p.msg.kind = "Heartbeat" /\ p.msg.inc < node[p.to].list[p.msg.from].inc)
      => p.msg.inc < node[p.msg.from].inc

=============================================================================
