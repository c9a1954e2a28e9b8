--------------------------- MODULE ClusterProofs ---------------------------
(***************************************************************************)
(* Proofs about a group in gossip mode, for any number of nodes and any    *)
(* bounds: its type, that no node is condemned in its own list, where      *)
(* suspicions and incarnations come from, and that the dead stay dead.     *)
(*                                                                         *)
(* All of them rest on one lemma.  An account C says of every node at      *)
(* which incarnations it may be called Alive, down (listed as something    *)
(* else) or in doubt (reported to a manager).  Entries, cases, callbacks,  *)
(* updates and messages that keep to an account keep to it in the next     *)
(* state, if the account allows what the step adds (StepKeepsTo).  The     *)
(* account Said of what was granted and missed proves the invariants, the  *)
(* account WithoutSignsOf of a dead node that it stays dead.               *)
(***************************************************************************)
EXTENDS Cluster, TLAPS

USE ClusterAssumption

-----------------------------------------------------------------------------
(* What keeps to an account                                                *)

Accounts == [Nodes -> [alive : SUBSET Nat, down : SUBSET Nat, doubt : SUBSET Nat]]

\* Doubt takes down, whoever is down may be so at 0 (where Absent is) and at every
\* incarnation it is Alive at, and who may come back may do so at every one.
Closed(C) ==
  /\ C \in Accounts
  /\ \A t \in Nodes :
       /\ C[t].doubt \subseteq C[t].down
       /\ C[t].down # {} => 0 \in C[t].down /\ C[t].alive \subseteq C[t].down
       /\ C[t].alive # {} => C[t].down \subseteq C[t].alive

CaseOf     == {NoCase} \cup [stage : {"reported", "confirmed"}, inc : Nat]
CallbackOf == [kind : {"OnSuspect", "OnConfirm", "OnClear"}, about : Nodes, inc : Nat]
UpdateOf   == [about : Nodes, status : Statuses, inc : Nat]
MsgOf      == [kind : Kinds, from : Nodes, inc : Nat, update : UpdateOf \cup {NoUpdate}]
PacketOf   == [to : Nodes, msg : MsgOf]
Runs == [list : [Nodes -> Member(Nat)], inc : Nat, cases : [Nodes -> CaseOf],
         callbacks : SUBSET CallbackOf, news : SUBSET UpdateOf, me : Nodes,
         started : SUBSET CallbackOf, out : SUBSET PacketOf]

EntryOK(C, t, m) == m.inc \in IF m.status = "Alive" THEN C[t].alive ELSE C[t].down

UpdateOK(C, u) ==
  /\ u.status = "Alive" => u.inc \in C[u.about].alive
  /\ u.status = "Suspected" => u.inc \in C[u.about].doubt
  /\ u.status = "Failed" => u.inc \in C[u.about].down

\* No callback of a node is about itself.
CallbackOK(C, me, c) ==
  /\ c.about # me
  /\ c.inc \in IF c.kind = "OnClear" THEN C[c.about].alive ELSE C[c.about].doubt

\* No message tells its receiver of its own failure or leave.
MsgOK(C, to, m) ==
  /\ m.update # NoUpdate => UpdateOK(C, m.update)
  /\ m.kind \in {"Heartbeat", "AliveMsg"} => m.inc \in C[m.from].alive
  /\ m.kind = "Leave" => m.inc \in C[m.from].down /\ m.from # to
  /\ m.kind \in {"Suspect", "Confirm"} => /\ m.update # NoUpdate
                                          /\ m.inc \in C[m.update.about].doubt
  /\ m.kind = "Confirm" => m.update.about # to

PacketOK(C, p) == MsgOK(C, p.to, p.msg)

\* A run of a handler or callback, between two calls.
RunOK(C, r) ==
  /\ r \in Runs
  /\ \A t \in Nodes : EntryOK(C, t, r.list[t])
  /\ \A t \in Nodes : r.cases[t] # NoCase => r.cases[t].inc \in C[t].doubt
  /\ r.list[r.me].status = "Alive" /\ r.cases[r.me] = NoCase
  /\ \A c \in r.callbacks \cup r.started : CallbackOK(C, r.me, c)
  /\ \A u \in r.news : UpdateOK(C, u)
  /\ \A p \in r.out : PacketOK(C, p)

\* Run s goes on where r was.
Goes(C, r, s) == RunOK(C, s) /\ s.me = r.me /\ r.inc <= s.inc
Keeps(C, r, s) == RunOK(C, s) /\ s.me = r.me /\ s.inc = r.inc

-----------------------------------------------------------------------------
(* The calls that handlers and callbacks are made of                       *)

\* The fields of a run.
LEMMA RunFields ==
  ASSUME NEW C, NEW r, RunOK(C, r)
  PROVE  /\ r.list \in [Nodes -> Member(Nat)] /\ r.inc \in Nat /\ r.me \in Nodes
         /\ r.cases \in [Nodes -> CaseOf] /\ r.news \in SUBSET UpdateOf
         /\ r.callbacks \in SUBSET CallbackOf /\ r.started \in SUBSET CallbackOf
         /\ r.out \in SUBSET PacketOf
         /\ \A t \in Nodes : EntryOK(C, t, r.list[t])
         /\ r.list[r.me].status = "Alive" /\ r.cases[r.me] = NoCase
BY DEF RunOK, Runs

\* Putting an entry into the list.
LEMMA PutOK ==
  ASSUME NEW C, NEW r, RunOK(C, r), NEW t \in Nodes, NEW m \in Member(Nat),
         EntryOK(C, t, m), t = r.me => m.status = "Alive"
  PROVE  /\ Keeps(C, r, Put(r, t, m)) /\ Put(r, t, m).list[t] = m
         /\ Put(r, t, m).cases = r.cases
<1> DEFINE s == [r EXCEPT !.list = [r.list EXCEPT ![t] = m]]
<1>1. [r.list EXCEPT ![t] = m] \in [Nodes -> Member(Nat)]
  BY RunFields
<1>2. /\ s \in Runs /\ s.list = [r.list EXCEPT ![t] = m]
      /\ s.inc = r.inc /\ s.cases = r.cases /\ s.callbacks = r.callbacks /\ s.news = r.news
      /\ s.me = r.me /\ s.started = r.started /\ s.out = r.out
  BY <1>1 DEF RunOK, Runs
<1>3. \A x \in Nodes : s.list[x] = IF x = t THEN m ELSE r.list[x]
  BY <1>2, RunFields
<1>4. Put(r, t, m) = s
  BY DEF Put
<1> HIDE DEF s
<1>5. RunOK(C, s)
  BY <1>2, <1>3, RunFields DEF RunOK
<1> QED BY <1>2, <1>3, <1>4, <1>5 DEF Keeps

\* The same for a case of the manager.
LEMMA TrackOK ==
  ASSUME NEW C, NEW r, RunOK(C, r), NEW t \in Nodes, NEW c \in CaseOf,
         c # NoCase => t # r.me /\ c.inc \in C[t].doubt
  PROVE  Keeps(C, r, Track(r, t, c)) /\ Track(r, t, c).list = r.list
<1> DEFINE s == [r EXCEPT !.cases = [r.cases EXCEPT ![t] = c]]
<1>1. [r.cases EXCEPT ![t] = c] \in [Nodes -> CaseOf]
  BY RunFields
<1>2. /\ s \in Runs /\ s.cases = [r.cases EXCEPT ![t] = c]
      /\ s.inc = r.inc /\ s.list = r.list /\ s.callbacks = r.callbacks /\ s.news = r.news
      /\ s.me = r.me /\ s.started = r.started /\ s.out = r.out
  BY <1>1 DEF RunOK, Runs
<1>3. \A x \in Nodes : s.cases[x] = IF x = t THEN c ELSE r.cases[x]
  BY <1>2, RunFields
<1>4. Track(r, t, c) = s
  BY DEF Track
<1> HIDE DEF s
<1>5. RunOK(C, s)
  BY <1>2, <1>3, RunFields DEF RunOK
<1> QED BY <1>2, <1>4, <1>5 DEF Keeps

\* Starting a callback about another node.
LEMMA StartOK ==
  ASSUME NEW C, NEW r, RunOK(C, r), NEW t \in Nodes, t # r.me, NEW i \in Nat,
         NEW kind \in {"OnSuspect", "OnConfirm", "OnClear"},
         i \in IF kind = "OnClear" THEN C[t].alive ELSE C[t].doubt
  PROVE  Keeps(C, r, Start(r, kind, t, i))
<1> DEFINE c == [kind |-> kind, about |-> t, inc |-> i]
           s == [r EXCEPT !.started = r.started \cup {c}]
<1>1. c \in CallbackOf /\ CallbackOK(C, r.me, c)
  BY DEF CallbackOf, CallbackOK
<1>2. Start(r, kind, t, i) = s
  BY DEF Start
<1> HIDE DEF c
<1>3. /\ s \in Runs /\ s.started = r.started \cup {c}
      /\ s.inc = r.inc /\ s.list = r.list /\ s.cases = r.cases /\ s.news = r.news
      /\ s.me = r.me /\ s.callbacks = r.callbacks /\ s.out = r.out
  BY <1>1 DEF RunOK, Runs
<1> HIDE DEF s
<1>4. RunOK(C, s)
  BY <1>1, <1>3 DEF RunOK
<1> QED BY <1>2, <1>3, <1>4 DEF Keeps

\* AddRecentUpdate.
LEMMA RecordOK ==
  ASSUME NEW C, NEW r, RunOK(C, r), NEW t \in Nodes, NEW st \in Statuses, NEW i \in Nat,
         UpdateOK(C, [about |-> t, status |-> st, inc |-> i])
  PROVE  Keeps(C, r, Record(r, t, st, i)) /\ Record(r, t, st, i).list = r.list
<1> DEFINE u == [about |-> t, status |-> st, inc |-> i]
           s == [r EXCEPT !.news = r.news \cup {u}]
<1>1. u \in UpdateOf /\ UpdateOK(C, u)
  BY DEF UpdateOf
<1>2. Record(r, t, st, i) \in {r, s}
  BY DEF Record
<1> HIDE DEF u
<1>3. /\ s \in Runs /\ s.news = r.news \cup {u}
      /\ s.inc = r.inc /\ s.list = r.list /\ s.cases = r.cases /\ s.started = r.started
      /\ s.me = r.me /\ s.callbacks = r.callbacks /\ s.out = r.out
  BY <1>1 DEF RunOK, Runs
<1> HIDE DEF s
<1>4. RunOK(C, s)
  BY <1>1, <1>3 DEF RunOK
<1> QED BY <1>2, <1>3, <1>4 DEF Keeps

\* A change of an entry that is recorded if it is one.
LEMMA ChangeOK ==
  ASSUME NEW C, NEW r, RunOK(C, r), NEW t \in Nodes, NEW m \in Member(Nat),
         t = r.me => m.status = "Alive",
         m # r.list[t] => /\ Present(m) /\ EntryOK(C, t, m)
                          /\ UpdateOK(C, [about |-> t, status |-> m.status, inc |-> m.inc])
  PROVE  Keeps(C, r, Change(r, t, m)) /\ Change(r, t, m).list[t] = m
<1>1. CASE m = r.list[t]
  BY <1>1 DEF Change, Keeps
<1>2. CASE m # r.list[t]
  <2>1. m.status \in Statuses /\ m.inc \in Nat
    BY <1>2 DEF Member, Present, Absent, Rec, Statuses
  <2>2. Keeps(C, r, Put(r, t, m)) /\ Put(r, t, m).list[t] = m
    BY <1>2, PutOK
  <2> DEFINE s == Put(r, t, m)
  <2> HIDE DEF s
  <2>3. RunOK(C, s) /\ Change(r, t, m) = Record(s, t, m.status, m.inc)
    BY <1>2, <2>2 DEF Change, Keeps, s
  <2>4. Keeps(C, s, Record(s, t, m.status, m.inc)) /\ Record(s, t, m.status, m.inc).list = s.list
    BY <1>2, <2>1, <2>3, RecordOK
  <2> QED BY <2>2, <2>3, <2>4 DEF Keeps, s
<1> QED BY <1>1, <1>2

\* A broadcast of a message that keeps to C at everyone that may get it.
LEMMA BroadcastOK ==
  ASSUME NEW C, NEW r, RunOK(C, r), NEW except, NEW msg \in MsgOf,
         \A to \in Nodes \ except : MsgOK(C, to, msg)
  PROVE  Keeps(C, r, Broadcast(r, except, msg))
<1> DEFINE new == {[to |-> x, msg |-> msg] : x \in {p \in Nodes \ except : Present(r.list[p])}}
           s   == [r EXCEPT !.out = r.out \cup new]
<1>1. new \subseteq PacketOf /\ \A p \in new : PacketOK(C, p)
  BY DEF PacketOf, PacketOK
<1>2. Broadcast(r, except, msg) = s
  BY DEF Broadcast
<1> HIDE DEF new
<1>3. /\ s \in Runs /\ s.out = r.out \cup new
      /\ s.inc = r.inc /\ s.list = r.list /\ s.cases = r.cases /\ s.started = r.started
      /\ s.me = r.me /\ s.callbacks = r.callbacks /\ s.news = r.news
  BY <1>1 DEF RunOK, Runs
<1> HIDE DEF s
<1>4. RunOK(C, s)
  BY <1>1, <1>3 DEF RunOK
<1> QED BY <1>2, <1>3, <1>4 DEF Keeps

-----------------------------------------------------------------------------
(* The manager                                                             *)

\* The node of run r may be Alive at the incarnation s ends with.
Owned(C, r, s) == s.inc \in C[r.me].alive

\* handleSelfRefutation.
LEMMA RefuteOK ==
  ASSUME NEW C, Closed(C), NEW r, RunOK(C, r), NEW i \in Nat, Owned(C, r, RefuteSelf(r, i))
  PROVE  Goes(C, r, RefuteSelf(r, i))
<1> DEFINE new == Refutation(r.inc, i)
           s   == [r EXCEPT !.inc = new]
           msg == Msg("AliveMsg", r.me, new, NoUpdate)
<1>1. new \in Int /\ (new \in Nat => new > r.inc)
  BY RunFields DEF Refutation, Next32, MaxInt32
<1>2. RefuteSelf(r, i) = Broadcast(s, {r.me}, msg)
  BY DEF RefuteSelf
<1>3. r \in Runs
  BY DEF RunOK
<1> HIDE DEF new
<1>4. s.inc = new /\ s.me = r.me
  BY <1>3 DEF Runs
<1>5. Broadcast(s, {r.me}, msg).inc = new /\ Broadcast(s, {r.me}, msg).me = r.me
  BY <1>3, <1>4 DEF Broadcast, Runs
<1>6. new \in C[r.me].alive /\ new \in Nat
  BY <1>2, <1>5, RunFields DEF Owned, Closed, Accounts
<1>7. /\ s \in Runs /\ s.list = r.list /\ s.cases = r.cases /\ s.callbacks = r.callbacks
      /\ s.news = r.news /\ s.started = r.started /\ s.out = r.out
  BY <1>3, <1>6 DEF Runs
<1> HIDE DEF s
<1>8. RunOK(C, s)
  BY <1>4, <1>7 DEF RunOK
<1>9. msg \in MsgOf /\ \A to \in Nodes : MsgOK(C, to, msg)
  BY <1>6, RunFields DEF Msg, MsgOf, MsgOK, Kinds
<1> HIDE DEF msg
<1>10. Keeps(C, s, Broadcast(s, {r.me}, msg))
  BY <1>8, <1>9, BroadcastOK
<1> QED BY <1>1, <1>2, <1>4, <1>6, <1>10, RunFields DEF Goes, Keeps

\* ProcessSuspicion of a doubt.
LEMMA ReportOK ==
  ASSUME NEW C, Closed(C), NEW r, RunOK(C, r), NEW t \in Nodes, NEW i \in C[t].doubt,
         Owned(C, r, Report(r, t, i))
  PROVE  Goes(C, r, Report(r, t, i))
<1>1. i \in Nat
  BY DEF Closed, Accounts
<1>2. CASE t = r.me
  BY <1>1, <1>2, RefuteOK DEF Report
<1>3. CASE t # r.me
  <2> DEFINE c == [stage |-> "reported", inc |-> i]
             m == Mark(r.list[t], "Suspected")
             a == Track(r, t, c)
             b == Put(a, t, m)
             d == Start(b, "OnSuspect", t, i)
  <2>1. Report(r, t, i) \in {r, d}
    BY <1>3 DEF Report
  <2>2. c \in CaseOf /\ c.inc = i
    BY <1>1 DEF CaseOf
  <2>3. m \in Member(Nat) /\ EntryOK(C, t, m)
    <3>1. r.list[t] \in Member(Nat) /\ EntryOK(C, t, r.list[t])
      BY RunFields
    <3> QED BY <3>1 DEF Mark, Member, Present, Rec, Absent, Statuses, EntryOK, Closed
  <2> HIDE DEF c, m
  <2>4. Keeps(C, r, a)
    BY <1>3, <2>2, TrackOK
  <2> HIDE DEF a
  <2>5. Keeps(C, a, b)
    BY <1>3, <2>3, <2>4, PutOK DEF Keeps
  <2> HIDE DEF b
  <2>6. Keeps(C, b, d)
    BY <1>1, <1>3, <2>4, <2>5, StartOK DEF Keeps
  <2> HIDE DEF d
  <2> QED BY <2>1, <2>4, <2>5, <2>6, RunFields DEF Keeps, Goes
<1> QED BY <1>2, <1>3

\* ClearSuspect at an incarnation the node may be Alive at.
LEMMA ClearOK ==
  ASSUME NEW C, Closed(C), NEW r, RunOK(C, r), NEW t \in Nodes, NEW i \in C[t].alive
  PROVE  Keeps(C, r, ClearSuspect(r, t, i))
<1> DEFINE m == Revive(r.list[t], i)
           a == Put(r, t, m)
           b == Track(a, t, NoCase)
           d == Start(b, "OnClear", t, i)
<1>1. i \in Nat
  BY DEF Closed, Accounts
<1>2. m \in Member(Nat) /\ EntryOK(C, t, m) /\ (t = r.me => m.status = "Alive")
  <2>1. r.list[t] \in Member(Nat) /\ EntryOK(C, t, r.list[t])
    BY RunFields
  <2>2. t = r.me => r.list[t].status = "Alive"
    BY RunFields
  <2> QED BY <1>1, <2>1, <2>2 DEF Revive, Member, Rec, Statuses, EntryOK
<1>3. /\ ClearSuspect(r, t, i) \in {r, a, d}
      /\ ClearSuspect(r, t, i) = d => r.cases[t] # NoCase \/ d \in {r, a}
  BY DEF ClearSuspect
<1> HIDE DEF m
<1>4. Keeps(C, r, a)
  BY <1>2, PutOK
<1> HIDE DEF a
<1>5. CASE r.cases[t] = NoCase
  BY <1>3, <1>4, <1>5 DEF Keeps
<1>6. CASE r.cases[t] # NoCase
  <2>1. t # r.me
    BY <1>6, RunFields
  <2>2. Keeps(C, a, b)
    BY <1>4, TrackOK DEF Keeps, CaseOf
  <2> HIDE DEF b
  <2>3. Keeps(C, b, d)
    BY <1>1, <1>4, <2>1, <2>2, StartOK DEF Keeps
  <2> QED BY <1>3, <1>4, <2>2, <2>3 DEF Keeps
<1> QED BY <1>5, <1>6

-----------------------------------------------------------------------------
(* The handlers                                                            *)

\* processUpdate.
LEMMA ProcessUpdateOK ==
  ASSUME NEW C, Closed(C), NEW r, RunOK(C, r), NEW u \in UpdateOf, UpdateOK(C, u),
         Owned(C, r, ProcessUpdate(r, u))
  PROVE  Goes(C, r, ProcessUpdate(r, u))
<1> DEFINE t  == u.about
           m  == Learned(r.list[t], u)
           at == IF t = r.me THEN r ELSE Change(r, t, m)
<1>1. t \in Nodes /\ u.inc \in Nat /\ u.status \in Statuses
  BY DEF UpdateOf
<1>2. Keeps(C, r, at)
  <2>1. CASE t = r.me
    BY <2>1 DEF Keeps
  <2>2. CASE t # r.me
    <3>1. r.list[t] \in Member(Nat) /\ EntryOK(C, t, r.list[t])
      BY <1>1, RunFields
    <3>2. m \in {r.list[t], Rec(u.status, u.inc)}
      BY DEF Learned, Learn
    <3>3. LET e == Rec(u.status, u.inc)
          IN  /\ e \in Member(Nat) /\ Present(e) /\ EntryOK(C, t, e)
              /\ u = [about |-> t, status |-> e.status, inc |-> e.inc]
      BY <1>1 DEF Rec, Member, Present, EntryOK, UpdateOK, Closed, Statuses, UpdateOf
    <3>4. /\ m \in Member(Nat)
          /\ m # r.list[t] => /\ Present(m) /\ EntryOK(C, t, m)
                              /\ UpdateOK(C, [about |-> t, status |-> m.status, inc |-> m.inc])
      <4> HIDE DEF m, t
      <4> QED BY <3>1, <3>2, <3>3
    <3> HIDE DEF m, t
    <3>5. Keeps(C, r, Change(r, t, m))
      BY <1>1, <2>2, <3>4, ChangeOK
    <3> QED BY <2>2, <3>5
  <2> QED BY <2>1, <2>2
<1>3. /\ ProcessUpdate(r, u) \in {at, Report(at, t, u.inc), ClearSuspect(at, t, u.inc)}
      /\ ProcessUpdate(r, u) = at \/ u.status \in {"Suspected", "Alive"}
      /\ u.status = "Suspected" => ProcessUpdate(r, u) \in {at, Report(at, t, u.inc)}
      /\ u.status = "Alive" => ProcessUpdate(r, u) \in {at, ClearSuspect(at, t, u.inc)}
  BY DEF ProcessUpdate
<1> HIDE DEF at
<1>4. RunOK(C, at)
  BY <1>2 DEF Keeps
<1>5. CASE ProcessUpdate(r, u) = at
  BY <1>2, <1>5, RunFields DEF Keeps, Goes
<1>6. CASE ProcessUpdate(r, u) = Report(at, t, u.inc) /\ u.status = "Suspected"
  <2>1. u.inc \in C[t].doubt
    BY <1>6 DEF UpdateOK
  <2>2. Owned(C, at, Report(at, t, u.inc))
    BY <1>2, <1>6 DEF Owned, Keeps
  <2>3. Goes(C, at, Report(at, t, u.inc))
    BY <1>1, <1>4, <2>1, <2>2, ReportOK
  <2> QED BY <1>2, <1>6, <2>3 DEF Goes, Keeps
<1>7. CASE ProcessUpdate(r, u) = ClearSuspect(at, t, u.inc) /\ u.status = "Alive"
  <2>1. u.inc \in C[t].alive
    BY <1>7 DEF UpdateOK
  <2>2. Keeps(C, at, ClearSuspect(at, t, u.inc))
    BY <1>1, <1>4, <2>1, ClearOK
  <2> QED BY <1>2, <1>7, <2>2, RunFields DEF Goes, Keeps
<1> QED BY <1>3, <1>5, <1>6, <1>7

\* handleHeartbeat and handleAliveMessage put an Alive entry at the sender's incarnation
\* into the list or leave it as it is.
LEMMA AliveEntryOK ==
  ASSUME NEW C, NEW r, RunOK(C, r), NEW t \in Nodes, NEW i \in C[t].alive \cap Nat,
         NEW m \in {r.list[t], Rec("Alive", i)}
  PROVE  Keeps(C, r, Change(r, t, m))
<1>1. r.list[t] \in Member(Nat) /\ (t = r.me => r.list[t].status = "Alive")
  BY RunFields
<1>2. LET e == Rec("Alive", i)
      IN  /\ e \in Member(Nat) /\ Present(e) /\ EntryOK(C, t, e) /\ e.status = "Alive"
          /\ UpdateOK(C, [about |-> t, status |-> e.status, inc |-> e.inc])
  BY DEF Rec, Member, Present, EntryOK, UpdateOK, Statuses
<1> QED BY <1>1, <1>2, ChangeOK

LEMMA HeartbeatOK ==
  ASSUME NEW C, Closed(C), NEW r, RunOK(C, r), NEW m \in MsgOf, m.kind = "Heartbeat",
         MsgOK(C, r.me, m), Owned(C, r, HandleHeartbeat(r, m))
  PROVE  Goes(C, r, HandleHeartbeat(r, m))
<1> DEFINE e     == HeardFrom(r.list[m.from], m.inc)
           heard == Change(r, m.from, e)
<1>1. /\ m.from \in Nodes /\ m.inc \in C[m.from].alive \cap Nat
      /\ m.update \in UpdateOf \cup {NoUpdate}
      /\ m.update # NoUpdate => UpdateOK(C, m.update)
  BY DEF MsgOf, MsgOK
<1>2. e \in {r.list[m.from], Rec("Alive", m.inc)}
  BY DEF HeardFrom
<1>3. HandleHeartbeat(r, m) = IF m.update = NoUpdate THEN heard ELSE ProcessUpdate(heard, m.update)
  BY DEF HandleHeartbeat
<1> HIDE DEF e
<1>4. Keeps(C, r, heard)
  BY <1>1, <1>2, AliveEntryOK
<1> HIDE DEF heard
<1>5. m.update # NoUpdate => Goes(C, heard, HandleHeartbeat(r, m))
  <2> SUFFICES ASSUME m.update # NoUpdate PROVE Goes(C, heard, HandleHeartbeat(r, m))
    OBVIOUS
  <2>1. HandleHeartbeat(r, m) = ProcessUpdate(heard, m.update)
    BY <1>3
  <2>2. Owned(C, heard, ProcessUpdate(heard, m.update)) /\ RunOK(C, heard)
    BY <1>4, <2>1 DEF Owned, Keeps
  <2> QED BY <1>1, <2>1, <2>2, ProcessUpdateOK
<1> QED BY <1>3, <1>4, <1>5, RunFields DEF Keeps, Goes

LEMMA SuspectOK ==
  ASSUME NEW C, Closed(C), NEW r, RunOK(C, r), NEW m \in MsgOf, m.kind = "Suspect",
         MsgOK(C, r.me, m), Owned(C, r, HandleSuspect(r, m))
  PROVE  Goes(C, r, HandleSuspect(r, m))
<1>1. m.update.about \in Nodes /\ m.inc \in C[m.update.about].doubt
  BY DEF MsgOf, MsgOK, UpdateOf
<1>2. Goes(C, r, r)
  BY RunFields DEF Goes
<1> QED BY <1>1, <1>2, ReportOK DEF HandleSuspect

LEMMA AliveOK ==
  ASSUME NEW C, Closed(C), NEW r, RunOK(C, r), NEW m \in MsgOf, m.kind = "AliveMsg",
         MsgOK(C, r.me, m)
  PROVE  Keeps(C, r, HandleAlive(r, m))
<1> DEFINE e == Revive(r.list[m.from], m.inc)
           a == Change(r, m.from, e)
<1>1. m.from \in Nodes /\ m.inc \in C[m.from].alive \cap Nat
  BY DEF MsgOf, MsgOK
<1>2. e \in {r.list[m.from], Rec("Alive", m.inc)}
  BY DEF Revive
<1>3. HandleAlive(r, m) = ClearSuspect(a, m.from, m.inc)
  BY DEF HandleAlive
<1> HIDE DEF e
<1>4. Keeps(C, r, a)
  BY <1>1, <1>2, AliveEntryOK
<1> HIDE DEF a
<1>5. Keeps(C, a, ClearSuspect(a, m.from, m.inc))
  BY <1>1, <1>4, ClearOK DEF Keeps
<1> QED BY <1>3, <1>4, <1>5 DEF Keeps

LEMMA ConfirmOK ==
  ASSUME NEW C, Closed(C), NEW r, RunOK(C, r), NEW m \in MsgOf, m.kind = "Confirm",
         MsgOK(C, r.me, m)
  PROVE  Keeps(C, r, HandleConfirm(r, m))
<1> DEFINE t == m.update.about
           e == Condemn(r.list[t], m.inc)
           a == Put(r, t, e)
           b == Record(a, t, "Failed", m.inc)
<1>1. t \in Nodes /\ t # r.me /\ m.inc \in C[t].down /\ m.inc \in Nat
  BY DEF MsgOf, MsgOK, UpdateOf, Closed
<1>2. HandleConfirm(r, m) \in {r, b}
  BY DEF HandleConfirm
<1>3. e \in Member(Nat) /\ EntryOK(C, t, e)
  <2>1. r.list[t] \in Member(Nat) /\ EntryOK(C, t, r.list[t])
    BY <1>1, RunFields
  <2> QED BY <1>1, <2>1 DEF Condemn, Member, Rec, Statuses, EntryOK
<1> HIDE DEF e, t
<1>4. Keeps(C, r, a)
  BY <1>1, <1>3, PutOK
<1> HIDE DEF a
<1>5. Keeps(C, a, b)
  <2>1. UpdateOK(C, [about |-> t, status |-> "Failed", inc |-> m.inc])
    BY <1>1 DEF UpdateOK
  <2> QED BY <1>1, <1>4, <2>1, RecordOK DEF Keeps, Statuses
<1> HIDE DEF b
<1>6. Keeps(C, r, r)
  BY DEF Keeps
<1> QED BY <1>2, <1>4, <1>5, <1>6 DEF Keeps

\* The removal of a node that may be down.
LEMMA DropOK ==
  ASSUME NEW C, Closed(C), NEW r, RunOK(C, r), NEW t \in Nodes, t # r.me, C[t].down # {}
  PROVE  Keeps(C, r, Drop(r, t))
<1> DEFINE i == r.list[t].inc
           a == Put(r, t, Absent)
           b == Record(a, t, "Failed", i)
<1>1. Drop(r, t) \in {r, b}
  BY DEF Drop
<1>2. Absent \in Member(Nat) /\ EntryOK(C, t, Absent)
  BY DEF Absent, Rec, Member, EntryOK, Closed
<1>3. i \in Nat /\ UpdateOK(C, [about |-> t, status |-> "Failed", inc |-> i])
  <2>1. r.list[t] \in Member(Nat) /\ EntryOK(C, t, r.list[t])
    BY RunFields
  <2> QED BY <2>1 DEF UpdateOK, EntryOK, Closed, Member, Absent, Rec
<1> HIDE DEF i
<1>4. Keeps(C, r, a)
  BY <1>2, PutOK
<1> HIDE DEF a
<1>5. Keeps(C, a, b)
  BY <1>3, <1>4, RecordOK DEF Keeps, Statuses
<1> HIDE DEF b
<1>6. Keeps(C, r, r)
  BY DEF Keeps
<1> QED BY <1>1, <1>4, <1>5, <1>6 DEF Keeps

-----------------------------------------------------------------------------
(* The callbacks, about another node                                       *)

\* An entry is overwritten and the others are told.
LEMMA TellOK ==
  ASSUME NEW C, NEW r, RunOK(C, r), NEW t \in Nodes, t # r.me, NEW st \in Statuses,
         NEW i \in Nat, EntryOK(C, t, Rec(st, i)), NEW except, NEW msg \in MsgOf,
         \A to \in Nodes \ except : MsgOK(C, to, msg)
  PROVE  Keeps(C, r, Broadcast(Put(r, t, Overwrite(r.list[t], st, i)), except, msg))
<1> DEFINE e == Overwrite(r.list[t], st, i)
           a == Put(r, t, e)
<1>1. e \in Member(Nat) /\ EntryOK(C, t, e)
  <2>1. r.list[t] \in Member(Nat) /\ EntryOK(C, t, r.list[t])
    BY RunFields
  <2> QED BY <2>1 DEF Overwrite, Member, Rec
<1> HIDE DEF e
<1>2. Keeps(C, r, a)
  BY <1>1, PutOK
<1> HIDE DEF a
<1>3. Keeps(C, a, Broadcast(a, except, msg))
  BY <1>2, BroadcastOK DEF Keeps
<1> QED BY <1>2, <1>3 DEF Keeps, a, e

LEMMA OnSuspectOK ==
  ASSUME NEW C, Closed(C), NEW r, RunOK(C, r), NEW t \in Nodes, t # r.me, NEW i \in C[t].doubt
  PROVE  Keeps(C, r, OnSuspect(r, t, i))
<1> DEFINE u   == [about |-> t, status |-> "Suspected", inc |-> i]
           msg == Msg("Suspect", r.me, i, u)
<1>1. i \in Nat /\ i \in C[t].down
  BY DEF Closed, Accounts
<1>2. u \in UpdateOf /\ u # NoUpdate /\ UpdateOK(C, u) /\ u.about = t
  BY <1>1 DEF UpdateOf, Statuses, NoUpdate, UpdateOK
<1> HIDE DEF u
<1>3. msg \in MsgOf /\ \A to \in Nodes : MsgOK(C, to, msg)
  BY <1>1, <1>2, RunFields DEF Msg, MsgOf, MsgOK, Kinds
<1>4. EntryOK(C, t, Rec("Suspected", i))
  BY <1>1 DEF EntryOK, Rec
<1> DEFINE except == {r.me, t}
<1>5. OnSuspect(r, t, i) = Broadcast(Put(r, t, Overwrite(r.list[t], "Suspected", i)), except, msg)
  BY DEF OnSuspect, u
<1> HIDE DEF msg, except
<1> QED BY <1>1, <1>3, <1>4, <1>5, TellOK DEF Statuses

LEMMA OnConfirmOK ==
  ASSUME NEW C, Closed(C), NEW r, RunOK(C, r), NEW t \in Nodes, t # r.me, NEW i \in C[t].doubt
  PROVE  Keeps(C, r, OnConfirm(r, t, i))
<1> DEFINE u   == [about |-> t, status |-> "Failed", inc |-> i]
           msg == Msg("Confirm", r.me, i, u)
           except == {r.me, t}
<1>1. i \in Nat /\ i \in C[t].down
  BY DEF Closed, Accounts
<1>2. u \in UpdateOf /\ u # NoUpdate /\ UpdateOK(C, u) /\ u.about = t
  BY <1>1 DEF UpdateOf, Statuses, NoUpdate, UpdateOK
<1> HIDE DEF u
<1>3. msg \in MsgOf /\ \A to \in Nodes \ except : MsgOK(C, to, msg)
  BY <1>1, <1>2, RunFields DEF Msg, MsgOf, MsgOK, Kinds
<1>4. EntryOK(C, t, Rec("Failed", i))
  BY <1>1 DEF EntryOK, Rec
<1>5. OnConfirm(r, t, i) = Broadcast(Put(r, t, Overwrite(r.list[t], "Failed", i)), except, msg)
  BY DEF OnConfirm, u
<1> HIDE DEF msg, except
<1> QED BY <1>1, <1>3, <1>4, <1>5, TellOK DEF Statuses

LEMMA OnClearOK ==
  ASSUME NEW C, Closed(C), NEW r, RunOK(C, r), NEW t \in Nodes, t # r.me,
         NEW i \in C[t].alive, i \in C[r.me].alive
  PROVE  Keeps(C, r, OnClear(r, t, i))
<1> DEFINE j   == IF i >= r.list[t].inc THEN i ELSE r.list[t].inc
           msg == Msg("AliveMsg", r.me, i, NoUpdate)
           except == {r.me, t}
<1>1. i \in Nat
  BY DEF Closed, Accounts
<1>2. msg \in MsgOf /\ \A to \in Nodes : MsgOK(C, to, msg)
  BY <1>1, RunFields DEF Msg, MsgOf, MsgOK, Kinds
<1>3. j \in Nat /\ EntryOK(C, t, Rec("Alive", j))
  <2>1. r.list[t] \in Member(Nat) /\ EntryOK(C, t, r.list[t])
    BY RunFields
  <2> QED BY <1>1, <2>1 DEF EntryOK, Rec, Member, Absent, Closed
<1>4. OnClear(r, t, i) = Broadcast(Put(r, t, Overwrite(r.list[t], "Alive", j)), except, msg)
  BY DEF OnClear
<1> HIDE DEF j, msg, except
<1> QED BY <1>2, <1>3, <1>4, TellOK DEF Statuses

-----------------------------------------------------------------------------
(* Accounts that say more                                                  *)

Within(C, D) == \A t \in Nodes : /\ C[t].alive \subseteq D[t].alive
                                 /\ C[t].down \subseteq D[t].down
                                 /\ C[t].doubt \subseteq D[t].doubt

LEMMA MsgWithin ==
  ASSUME NEW C, NEW D, Within(C, D), NEW to, NEW m \in MsgOf, MsgOK(C, to, m)
  PROVE  MsgOK(D, to, m)
<1>1. m.update # NoUpdate => UpdateOK(D, m.update) /\ m.update.about \in Nodes
  BY DEF MsgOf, MsgOK, UpdateOK, UpdateOf, Within
<1>2. m.from \in Nodes
  BY DEF MsgOf
<1> QED BY <1>1, <1>2 DEF MsgOK, Within

LEMMA RunWithin ==
  ASSUME NEW C, NEW D, Within(C, D), NEW r, RunOK(C, r)
  PROVE  RunOK(D, r)
<1>1. \A t \in Nodes : EntryOK(D, t, r.list[t])
  BY DEF RunOK, EntryOK, Within
<1>2. \A c \in r.callbacks \cup r.started : CallbackOK(D, r.me, c)
  <2>1. \A c \in r.callbacks \cup r.started : c.about \in Nodes
    BY RunFields DEF CallbackOf
  <2> QED BY <2>1 DEF RunOK, CallbackOK, Within
<1>3. \A u \in r.news : UpdateOK(D, u)
  <2>1. \A u \in r.news : u.about \in Nodes
    BY RunFields DEF UpdateOf
  <2> QED BY <2>1 DEF RunOK, UpdateOK, Within
<1>4. \A p \in r.out : PacketOK(D, p)
  BY RunFields, MsgWithin DEF RunOK, PacketOK, PacketOf
<1>5. \A t \in Nodes : r.cases[t] # NoCase => r.cases[t].inc \in D[t].doubt
  BY DEF RunOK, Within
<1> QED BY <1>1, <1>2, <1>3, <1>4, <1>5 DEF RunOK

\* The account that says everything.
All == [t \in Nodes |-> [alive |-> Nat, down |-> Nat, doubt |-> Nat]]

LEMMA AllClosed == Closed(All) /\ \A C : Closed(C) => Within(C, All)
BY DEF Closed, Accounts, All, Within

-----------------------------------------------------------------------------
(* States                                                                  *)

Shape == [list : [Nodes -> Member(Nat)], inc : Incs, cases : [Nodes -> CaseOf],
          callbacks : SUBSET CallbackOf, news : SUBSET UpdateOf]

BaseOK ==
  /\ bounds \in Bounds /\ enableSuspicion \in Suspicions
  /\ node \in [Nodes -> Shape]
  /\ up \subseteq Nodes /\ active \subseteq Nodes
  /\ sent \subseteq PacketOf
  /\ missed \subseteq Nodes \X Incs /\ lent \subseteq Nodes \X Incs

\* The nodes of S, and what is under way to them, keep to C.
WorldOK(C, S) ==
  /\ \A n \in S : RunOK(C, RunOf(n))
  /\ \A p \in sent : p.to \in S => PacketOK(C, p)

\* The account C allows what a step adds.
Allows(C, S) ==
  /\ Closed(C) /\ up' \subseteq S /\ S \subseteq Nodes
  /\ S \subseteq up' \/ \A t \in Nodes : 0 \in C[t].alive
  /\ \A n \in up', i \in Nat : i <= node'[n].inc => i \in C[n].alive
  /\ \A n \in active \ active' : node[n].inc \in C[n].down
  /\ \A t \in Nodes, i \in Nat : <<t, i>> \in missed' /\ i \in C[t].alive => i \in C[t].doubt
  /\ \A n \in up', i \in Nat : <<n, i>> \in lent' => i \in C[n].alive

\* What a step has to show.
Kept(C, S) ==
  /\ node' \in [Nodes -> Shape] /\ sent' \subseteq PacketOf
  /\ WorldOK(C, S)'
  /\ \A n \in Nodes : node[n].inc <= node'[n].inc

\* Run r of a node of S ends, with the packets of rest under way.
LEMMA FinishOK ==
  ASSUME NEW C, NEW S \in SUBSET Nodes, BaseOK, WorldOK(C, S),
         NEW r, RunOK(C, r), node[r.me].inc <= r.inc,
         NEW rest, rest \subseteq sent, Finish(r, rest)
  PROVE  Kept(C, S)
<1> DEFINE new == [list |-> r.list, inc |-> r.inc, cases |-> r.cases,
                   callbacks |-> r.callbacks \cup r.started, news |-> r.news]
<1>1. node' = [node EXCEPT ![r.me] = new] /\ r.inc \in Incs /\ r.me \in Nodes
  BY RunFields DEF Finish
<1>2. new \in Shape
  BY <1>1, RunFields DEF Shape
<1> DEFINE run == [list |-> new.list, inc |-> new.inc, cases |-> new.cases,
                   callbacks |-> new.callbacks, news |-> new.news,
                   me |-> r.me, started |-> {}, out |-> {}]
<1>3. RunOK(C, run)
  <2>1. run \in Runs
    BY <1>1, RunFields DEF Runs
  <2> QED BY <2>1 DEF RunOK
<1> HIDE DEF new
<1>4. /\ node' \in [Nodes -> Shape]
      /\ \A n \in Nodes : node'[n] = IF n = r.me THEN new ELSE node[n]
  BY <1>1, <1>2 DEF BaseOK
<1>5. \A n \in S : RunOK(C, RunOf(n)')
  <2> SUFFICES ASSUME NEW n \in S PROVE RunOK(C, RunOf(n)')
    OBVIOUS
  <2>1. CASE n = r.me
    <3>1. RunOf(n)' = run
      BY <1>4, <2>1 DEF RunOf
    <3> HIDE DEF run
    <3> QED BY <1>3, <3>1
  <2>2. CASE n # r.me
    <3>1. RunOf(n)' = RunOf(n)
      BY <1>4, <2>2 DEF RunOf
    <3> QED BY <3>1 DEF WorldOK
  <2> QED BY <2>1, <2>2
<1>6. sent' \subseteq sent \cup r.out
  BY DEF Finish
<1>7. sent' \subseteq PacketOf /\ \A p \in sent' : p.to \in S => PacketOK(C, p)
  BY <1>6, RunFields DEF BaseOK, WorldOK, RunOK
<1>8. \A n \in Nodes : node[n].inc <= node'[n].inc
  <2>1. new.inc = r.inc
    BY DEF new
  <2>2. \A n \in Nodes : node[n].inc \in Int
    BY DEF BaseOK, Shape, Incs
  <2> QED BY <1>4, <2>1, <2>2
<1> QED BY <1>4, <1>5, <1>7, <1>8 DEF Kept, WorldOK

\* The run of a running node, before its first call.
LEMMA RunOfOK ==
  ASSUME NEW C, NEW S, BaseOK, WorldOK(C, S), NEW n \in S \cap Nodes
  PROVE  /\ RunOK(C, RunOf(n)) /\ RunOf(n).me = n /\ RunOf(n).inc = node[n].inc
         /\ RunOf(n).list = node[n].list /\ RunOf(n).cases = node[n].cases
         /\ RunOf(n).callbacks = node[n].callbacks
         /\ node[n].inc \in Nat /\ node[n].list \in [Nodes -> Member(Nat)]
BY DEF WorldOK, RunOf, BaseOK, Shape, Incs

\* A node whose run ends may be Alive at the incarnation it ends with.
LEMMA FinishOwned ==
  ASSUME NEW C, NEW S, Allows(C, S), BaseOK, NEW r, r.me \in up', r.me \in Nodes,
         NEW rest, Finish(r, rest)
  PROVE  r.inc \in C[r.me].alive
<1>1. node'[r.me].inc = r.inc /\ r.inc \in Nat
  BY DEF Finish, BaseOK, Incs
<1> QED BY <1>1 DEF Allows

-----------------------------------------------------------------------------
(* The steps                                                               *)

LEMMA ReceiveOK ==
  ASSUME NEW C, NEW S, BaseOK, WorldOK(C, S), Allows(C, S), NEW p \in sent, Receive(p)
  PROVE  Kept(C, S)
<1> DEFINE m == p.msg
           r == RunOf(p.to)
           handled == CASE m.kind = "Heartbeat" -> HandleHeartbeat(r, m)
                        [] m.kind = "Suspect"   -> HandleSuspect(r, m)
                        [] m.kind = "AliveMsg"  -> HandleAlive(r, m)
                        [] m.kind = "Confirm"   -> HandleConfirm(r, m)
                        [] m.kind = "Leave"     -> HandleLeave(r, m)
           s == IF p.to \in active \/ m.kind = "Leave" THEN handled ELSE r
<1>1. p.to \in S /\ p.to \in Nodes /\ p.to \in up' /\ S \in SUBSET Nodes /\ Closed(C)
  BY DEF Receive, Allows
<1>2. m \in MsgOf /\ MsgOK(C, p.to, m)
  BY <1>1 DEF BaseOK, WorldOK, PacketOK, PacketOf
<1>3. RunOK(C, r) /\ r.me = p.to /\ r.inc = node[p.to].inc
  BY <1>1, RunOfOK
<1>4. Finish(s, sent \ {p})
  BY DEF Receive
<1> HIDE DEF m, r
<1>5. /\ m.kind \in Kinds
      /\ \/ s = r
         \/ m.kind = "Heartbeat" /\ s = HandleHeartbeat(r, m)
         \/ m.kind = "Suspect" /\ s = HandleSuspect(r, m)
         \/ m.kind = "AliveMsg" /\ s = HandleAlive(r, m)
         \/ m.kind = "Confirm" /\ s = HandleConfirm(r, m)
         \/ m.kind = "Leave" /\ s = Drop(r, m.from)
  BY <1>2 DEF MsgOf, Kinds, HandleLeave
<1> HIDE DEF s
<1>6. RunOK(All, r) /\ MsgOK(All, r.me, m)
  BY <1>1, <1>2, <1>3, AllClosed, RunWithin, MsgWithin
<1>7. s.inc \in All[r.me].alive
  BY <1>1, <1>3, <1>4 DEF Finish, Incs, All
<1>8. s.me = r.me => Owned(C, r, s)
  BY <1>1, <1>3, <1>4, FinishOwned DEF Owned
<1>9. Goes(C, r, s)
  <2>1. CASE s = r
    BY <1>3, <2>1, RunFields DEF Goes
  <2>2. CASE m.kind = "Heartbeat" /\ s = HandleHeartbeat(r, m)
    <3>1. s.me = r.me
      BY <1>2, <1>6, <1>7, <2>2, AllClosed, HeartbeatOK DEF Goes, Owned
    <3> QED BY <1>1, <1>2, <1>3, <1>8, <2>2, <3>1, HeartbeatOK
  <2>3. CASE m.kind = "Suspect" /\ s = HandleSuspect(r, m)
    <3>1. s.me = r.me
      BY <1>2, <1>6, <1>7, <2>3, AllClosed, SuspectOK DEF Goes, Owned
    <3> QED BY <1>1, <1>2, <1>3, <1>8, <2>3, <3>1, SuspectOK
  <2>4. CASE m.kind = "AliveMsg" /\ s = HandleAlive(r, m)
    BY <1>1, <1>2, <1>3, <2>4, AliveOK, RunFields DEF Goes, Keeps
  <2>5. CASE m.kind = "Confirm" /\ s = HandleConfirm(r, m)
    BY <1>1, <1>2, <1>3, <2>5, ConfirmOK, RunFields DEF Goes, Keeps
  <2>6. CASE m.kind = "Leave" /\ s = Drop(r, m.from)
    <3>1. m.from \in Nodes /\ m.from # r.me /\ C[m.from].down # {}
      BY <1>2, <1>3, <2>6 DEF MsgOf, MsgOK
    <3> QED BY <1>1, <1>3, <2>6, <3>1, DropOK, RunFields DEF Goes, Keeps
  <2> QED BY <1>5, <2>1, <2>2, <2>3, <2>4, <2>5, <2>6
<1> QED BY <1>1, <1>3, <1>4, <1>9, FinishOK DEF Goes

\* A step that leaves the entry in the group of all nodes but n alone.
LEMMA ChangedOK ==
  ASSUME NEW C, NEW S \in SUBSET Nodes, BaseOK, WorldOK(C, S), NEW n \in Nodes,
         NEW new \in Shape, node' = [node EXCEPT ![n] = new], node[n].inc <= new.inc,
         n \in S => RunOK(C, RunOf(n)'), sent' = sent
  PROVE  Kept(C, S)
<1>1. /\ node' \in [Nodes -> Shape]
      /\ \A x \in Nodes : node'[x] = IF x = n THEN new ELSE node[x]
  BY DEF BaseOK
<1>2. \A x \in S : RunOK(C, RunOf(x)')
  <2> SUFFICES ASSUME NEW x \in S, x # n PROVE RunOK(C, RunOf(x)')
    OBVIOUS
  <2>1. RunOf(x)' = RunOf(x)
    BY <1>1 DEF RunOf
  <2> QED BY <2>1 DEF WorldOK
<1>3. \A x \in Nodes : node[x].inc <= node'[x].inc
  <2>1. \A x \in Nodes : node[x].inc \in Int
    BY DEF BaseOK, Shape, Incs
  <2> QED BY <1>1, <2>1
<1> QED BY <1>1, <1>2, <1>3 DEF Kept, WorldOK, BaseOK

LEMMA ExpireOK ==
  ASSUME NEW C, NEW S, BaseOK, WorldOK(C, S), Allows(C, S), NEW n \in Nodes,
         NEW u \in node[n].news, Expire(n, u)
  PROVE  Kept(C, S)
<1> DEFINE new == [node[n] EXCEPT !.news = node[n].news \ {u}]
           run == [list |-> new.list, inc |-> new.inc, cases |-> new.cases,
                   callbacks |-> new.callbacks, news |-> new.news,
                   me |-> n, started |-> {}, out |-> {}]
<1>1. /\ new \in Shape /\ new.news \subseteq node[n].news
      /\ new.list = node[n].list /\ new.inc = node[n].inc /\ new.cases = node[n].cases
      /\ new.callbacks = node[n].callbacks
  BY DEF BaseOK, Shape
<1>2. node' = [node EXCEPT ![n] = new]
  BY DEF Expire
<1>3. n \in S => RunOK(C, run)
  <2> SUFFICES ASSUME n \in S PROVE RunOK(C, run)
    OBVIOUS
  <2> HIDE DEF new
  <2>1. RunOK(C, RunOf(n))
    BY DEF WorldOK
  <2> QED BY <1>1, <2>1 DEF RunOK, RunOf, Runs
<1> HIDE DEF new
<1>4. RunOf(n)' = run
  BY <1>2 DEF RunOf, BaseOK
<1> HIDE DEF run
<1>5. node[n].inc <= new.inc /\ S \in SUBSET Nodes /\ sent' = sent
  BY <1>1 DEF BaseOK, Shape, Incs, Allows, Expire
<1> QED BY <1>1, <1>2, <1>3, <1>4, <1>5, ChangedOK

LEMMA ForgetOK ==
  ASSUME NEW C, NEW S, BaseOK, WorldOK(C, S), Allows(C, S), NEW n \in Nodes, NEW t \in Nodes,
         Forget(n, t)
  PROVE  Kept(C, S)
<1> DEFINE new == [node[n] EXCEPT !.cases = [node[n].cases EXCEPT ![t] = NoCase]]
           run == Track(RunOf(n), t, NoCase)
<1>1. n \in S /\ S \in SUBSET Nodes /\ sent' = sent
  BY DEF Forget, Allows
<1>2. RunOK(C, run)
  BY <1>1, RunOfOK, TrackOK DEF Keeps, CaseOf
<1>3. node' = [node EXCEPT ![n] = new]
  BY DEF Forget
<1>4. /\ node[n] \in Shape /\ node[n].inc <= node[n].inc
      /\ [node[n].cases EXCEPT ![t] = NoCase] \in [Nodes -> CaseOf]
  <2>1. NoCase \in CaseOf /\ node[n] \in Shape
    BY DEF CaseOf, BaseOK
  <2> QED BY <2>1 DEF Shape, Incs
<1>5. new \in Shape /\ node[n].inc <= new.inc
  <2> HIDE DEF NoCase
  <2> QED BY <1>4 DEF Shape
<1>6. RunOf(n)' = run
  <2>1. node'[n] = new
    BY <1>3 DEF BaseOK
  <2> QED BY <2>1, <1>4 DEF RunOf, Track, Shape
<1> HIDE DEF new, run
<1> QED BY <1>1, <1>2, <1>3, <1>5, <1>6, ChangedOK

\* A crashed node is not of S, or every node may be Alive at 0.
LEMMA CrashOK ==
  ASSUME NEW C, NEW S, BaseOK, WorldOK(C, S), Allows(C, S), NEW n \in Nodes, Crash(n)
  PROVE  Kept(C, S)
<1> DEFINE new == [Fresh EXCEPT !.inc = node[n].inc]
           run == [list |-> [t \in Nodes |-> Rec("Alive", 0)], inc |-> node[n].inc,
                   cases |-> [t \in Nodes |-> NoCase], callbacks |-> {}, news |-> {},
                   me |-> n, started |-> {}, out |-> {}]
<1>1. new \in Shape /\ node[n].inc <= new.inc /\ node' = [node EXCEPT ![n] = new]
  <2>1. /\ [t \in Nodes |-> Rec("Alive", 0)] \in [Nodes -> Member(Nat)]
        /\ [t \in Nodes |-> NoCase] \in [Nodes -> CaseOf]
    BY DEF Rec, Member, CaseOf, Statuses
  <2>2. node[n].inc \in Incs /\ Incs \subseteq Int
    BY DEF BaseOK, Shape, Incs
  <2>3. new.inc = node[n].inc /\ new \in Shape
    <3> HIDE DEF NoCase
    <3> QED BY <2>1, <2>2 DEF Shape, Fresh
  <2> QED BY <2>2, <2>3 DEF Crash
<1>2. RunOf(n)' = run
  BY <1>1 DEF RunOf, BaseOK, Fresh
<1>3. n \in S => RunOK(C, run)
  <2> SUFFICES ASSUME n \in S PROVE RunOK(C, run)
    OBVIOUS
  <2>1. n \notin up' /\ \A t \in Nodes : 0 \in C[t].alive
    BY DEF Allows, Crash
  <2>2. run \in Runs
    BY DEF Runs, BaseOK, Shape, Incs, Rec, Member, CaseOf, Statuses
  <2> QED BY <2>1, <2>2 DEF RunOK, EntryOK, Rec
<1> HIDE DEF new, run
<1>4. S \in SUBSET Nodes /\ sent' = sent
  BY DEF Allows, Crash
<1> QED BY <1>1, <1>2, <1>3, <1>4, ChangedOK

LEMMA GossipRoundOK ==
  ASSUME NEW C, NEW S, BaseOK, WorldOK(C, S), Allows(C, S), NEW n \in Nodes, NEW t \in Nodes,
         GossipRound(n, t)
  PROVE  Kept(C, S)
<1>1. n \in S /\ n \in up' /\ S \in SUBSET Nodes /\ node' = node
  BY DEF GossipRound, Allows
<1>2. RunOK(C, RunOf(n)) /\ RunOf(n).list = node[n].list /\ RunOf(n).news = node[n].news
      /\ node[n].inc \in Nat
  BY <1>1, RunOfOK DEF RunOf
<1>3. node[n].inc \in C[n].alive
  BY <1>1, <1>2 DEF Allows
<1>4. PICK u \in Piggyback(n) \cup {NoUpdate} :
        sent' = sent \cup {[to |-> t, msg |-> Msg("Heartbeat", n, node[n].inc, u)]}
  BY DEF GossipRound
<1>5. u # NoUpdate => u \in UpdateOf /\ UpdateOK(C, u)
  <2>1. CASE u \in node[n].news
    BY <1>2, <2>1, RunFields DEF RunOK
  <2>2. CASE \E d \in Nodes : /\ node[n].list[d].status = "Alive"
                              /\ u = [about |-> d, status |-> "Alive",
                                      inc |-> node[n].list[d].inc]
    <3>1. PICK d \in Nodes : /\ node[n].list[d].status = "Alive"
                             /\ u = [about |-> d, status |-> "Alive",
                                     inc |-> node[n].list[d].inc]
      BY <2>2
    <3>2. node[n].list[d] \in Member(Nat) /\ EntryOK(C, d, node[n].list[d])
      BY <1>2, RunFields
    <3> QED BY <3>1, <3>2 DEF UpdateOf, UpdateOK, EntryOK, Member, Statuses, Absent, Rec
  <2> QED BY <1>4, <2>1, <2>2 DEF Piggyback
<1> DEFINE msg == Msg("Heartbeat", n, node[n].inc, u)
<1>6. msg \in MsgOf /\ MsgOK(C, t, msg)
  BY <1>2, <1>3, <1>5 DEF Msg, MsgOf, MsgOK, Kinds
<1> HIDE DEF msg
<1>7. sent' \subseteq PacketOf /\ \A p \in sent' : p.to \in S => PacketOK(C, p)
  BY <1>4, <1>6 DEF msg, PacketOf, PacketOK, BaseOK, WorldOK
<1>8. \A x \in S : RunOK(C, RunOf(x)')
  <2> TAKE x \in S
  <2>1. RunOf(x)' = RunOf(x)
    BY <1>1 DEF RunOf
  <2> QED BY <2>1 DEF WorldOK
<1>9. node' \in [Nodes -> Shape] /\ \A x \in Nodes : node[x].inc <= node'[x].inc
  BY <1>1 DEF BaseOK, Shape, Incs
<1> QED BY <1>7, <1>8, <1>9 DEF Kept, WorldOK

\* A node found silent is in doubt at the incarnation it is listed at.
LEMMA SilentOK ==
  ASSUME NEW C, NEW S, BaseOK, WorldOK(C, S), Allows(C, S), NEW n \in S, NEW t \in Nodes,
         Silent(n, t)
  PROVE  node[n].list[t].inc \in C[t].doubt
<1>1. node[n].list[t] \in Member(Nat) /\ EntryOK(C, t, node[n].list[t])
  BY RunOfOK, RunFields DEF Allows
<1>2. node[n].list[t].inc \in Nat /\ node[n].list[t].inc \in C[t].alive
  BY <1>1 DEF Silent, EntryOK, Member, Absent, Rec
<1> QED BY <1>2 DEF Silent, Allows

LEMMA SuspiciousOK ==
  ASSUME NEW C, NEW S, BaseOK, WorldOK(C, S), Allows(C, S), NEW n \in Nodes, NEW t \in Nodes,
         n \in up', t # n, Suspicious(n, t)
  PROVE  Kept(C, S)
<1> DEFINE r == RunOf(n)
           m == Mark(node[n].list[t], "Suspected")
           a == Change(r, t, m)
           s == Report(a, t, m.inc)
<1>1. n \in S /\ S \in SUBSET Nodes /\ Closed(C)
  BY DEF Allows
<1>2. RunOK(C, r) /\ r.me = n /\ r.list = node[n].list /\ r.inc = node[n].inc
  BY <1>1, RunOfOK
<1>3. node[n].list[t].status = "Alive" /\ node[n].list[t].inc \in C[t].doubt
  BY <1>1, SilentOK DEF Suspicious, Silent
<1>4. m = Rec("Suspected", node[n].list[t].inc) /\ m.inc = node[n].list[t].inc
  BY <1>3 DEF Mark, Present, Rec
<1>5. Finish(s, sent)
  BY DEF Suspicious
<1> HIDE DEF r, m
<1>6. /\ m \in Member(Nat) /\ Present(m) /\ EntryOK(C, t, m) /\ m.inc \in C[t].doubt
      /\ UpdateOK(C, [about |-> t, status |-> m.status, inc |-> m.inc])
  BY <1>1, <1>3, <1>4 DEF Member, Rec, Present, EntryOK, UpdateOK, Closed, Statuses, Accounts
<1>7. Keeps(C, r, a)
  BY <1>2, <1>6, ChangeOK
<1> HIDE DEF a
<1>8. RunOK(C, a) /\ a.me = n
  BY <1>2, <1>7 DEF Keeps
<1>9. s.me = n
  BY <1>8, <1>6 DEF Report, Start, Put, Track, RunOK, Runs
<1> HIDE DEF s
<1>10. Owned(C, a, s)
  BY <1>5, <1>8, <1>9, FinishOwned DEF Owned
<1>11. Goes(C, a, s)
  BY <1>1, <1>6, <1>8, <1>10, ReportOK DEF s
<1> QED BY <1>1, <1>2, <1>5, <1>7, <1>9, <1>11, FinishOK DEF Goes, Keeps

LEMMA RemovedOK ==
  ASSUME NEW C, NEW S, BaseOK, WorldOK(C, S), Allows(C, S), NEW n \in Nodes, NEW t \in Nodes,
         n \in up', t # n, Removed(n, t)
  PROVE  Kept(C, S)
<1> DEFINE r == RunOf(n)
           s == Drop(r, t)
<1>1. n \in S /\ S \in SUBSET Nodes /\ Closed(C)
  BY DEF Allows
<1>2. RunOK(C, r) /\ r.me = n /\ r.list = node[n].list /\ r.inc = node[n].inc /\ r.inc \in Nat
  BY <1>1, RunOfOK
<1>3. C[t].down # {}
  <2>1. CASE Silent(n, t)
    BY <1>1, <2>1, SilentOK DEF Closed
  <2>2. CASE node[n].list[t].status \in {"Suspected", "Failed"}
    BY <1>2, <2>2, RunFields DEF EntryOK
  <2> QED BY <2>1, <2>2 DEF Removed
<1>4. Finish(s, sent)
  BY DEF Removed
<1> HIDE DEF r
<1>5. Keeps(C, r, s)
  BY <1>1, <1>2, <1>3, DropOK
<1> HIDE DEF s
<1> QED BY <1>1, <1>2, <1>4, <1>5, FinishOK DEF Keeps

LEMMA ConfirmStepOK ==
  ASSUME NEW C, NEW S, BaseOK, WorldOK(C, S), Allows(C, S), NEW n \in Nodes, NEW t \in Nodes,
         Confirm(n, t)
  PROVE  Kept(C, S)
<1> DEFINE r == RunOf(n)
           c == node[n].cases[t]
           d == [c EXCEPT !.stage = "confirmed"]
           m == Mark(node[n].list[t], "Failed")
           a == Track(r, t, d)
           b == Put(a, t, m)
           s == IF Present(node[n].list[t]) THEN Start(b, "OnConfirm", t, c.inc) ELSE b
<1>1. n \in S /\ S \in SUBSET Nodes /\ Closed(C)
  BY DEF Confirm, Allows
<1>2. /\ RunOK(C, r) /\ r.me = n /\ r.list = node[n].list /\ r.cases = node[n].cases
      /\ r.inc = node[n].inc /\ r.inc \in Nat
  BY <1>1, RunOfOK
<1>3. c \in CaseOf /\ c # NoCase /\ c.inc \in C[t].doubt /\ t # n
  <2>1. c.stage = "reported"
    BY DEF Confirm
  <2>2. c \in CaseOf /\ c # NoCase
    BY <1>2, <2>1, RunFields DEF NoCase
  <2>3. r.cases[t] = c /\ r.cases[n] = NoCase
    BY <1>2, RunFields
  <2> HIDE DEF r, c
  <2> QED BY <1>2, <2>2, <2>3 DEF RunOK
<1>4. d \in CaseOf /\ d.inc = c.inc /\ c.inc \in Nat
  BY <1>3 DEF CaseOf, NoCase
<1>5. m \in Member(Nat) /\ EntryOK(C, t, m)
  <2>1. node[n].list[t] \in Member(Nat) /\ EntryOK(C, t, node[n].list[t])
    BY <1>2, RunFields
  <2> QED BY <1>1, <1>3, <2>1 DEF Mark, Member, Present, Rec, Absent, Statuses, EntryOK, Closed
<1>6. Finish(s, sent)
  BY DEF Confirm
<1> HIDE DEF r, c, d, m
<1>7. Keeps(C, r, a)
  BY <1>2, <1>3, <1>4, TrackOK
<1> HIDE DEF a
<1>8. Keeps(C, a, b)
  BY <1>2, <1>3, <1>5, <1>7, PutOK DEF Keeps
<1> HIDE DEF b
<1>9. Keeps(C, b, s)
  <2>1. Keeps(C, b, b)
    BY <1>8 DEF Keeps
  <2>2. Keeps(C, b, Start(b, "OnConfirm", t, c.inc))
    BY <1>2, <1>3, <1>4, <1>7, <1>8, StartOK DEF Keeps
  <2> QED BY <2>1, <2>2
<1> HIDE DEF s
<1> QED BY <1>1, <1>2, <1>6, <1>7, <1>8, <1>9, FinishOK DEF Keeps

LEMMA RunCallbackOK ==
  ASSUME NEW C, NEW S, BaseOK, WorldOK(C, S), Allows(C, S), NEW n \in Nodes,
         NEW c \in node[n].callbacks, RunCallback(n, c)
  PROVE  Kept(C, S)
<1> DEFINE q == RunOf(n)
           r == [q EXCEPT !.callbacks = q.callbacks \ {c}]
           t == c.about
           i == c.inc
<1>1. n \in S /\ n \in up' /\ S \in SUBSET Nodes /\ Closed(C)
  BY DEF RunCallback, Allows
<1>2. /\ RunOK(C, q) /\ q.me = n /\ q.inc = node[n].inc /\ q.inc \in Nat
      /\ q.callbacks = node[n].callbacks
  BY <1>1, RunOfOK
<1>3. CallbackOK(C, n, c) /\ c \in CallbackOf
  BY <1>2, RunFields DEF RunOK
<1>4. \/ c.kind = "OnSuspect" /\ Finish(OnSuspect(r, t, i), sent)
      \/ c.kind = "OnConfirm" /\ Finish(OnConfirm(r, t, i), sent)
      \/ c.kind = "OnClear" /\ Finish(OnClear(r, t, i), sent)
  BY DEF RunCallback
<1>5. (c.kind = "OnClear" /\ i > node[n].inc) => <<n, i>> \in lent'
  BY DEF RunCallback
<1> HIDE DEF q
<1>6. RunOK(C, r) /\ r.me = n /\ r.inc = node[n].inc
  <2>1. /\ r \in Runs /\ r.callbacks \subseteq q.callbacks
        /\ r.inc = q.inc /\ r.list = q.list /\ r.cases = q.cases /\ r.started = q.started
        /\ r.me = q.me /\ r.out = q.out /\ r.news = q.news
    BY <1>2 DEF RunOK, Runs
  <2> HIDE DEF r
  <2> QED BY <1>2, <2>1 DEF RunOK
<1> HIDE DEF r
<1>7. t \in Nodes /\ t # n /\ i \in Nat /\ i \in IF c.kind = "OnClear" THEN C[t].alive ELSE C[t].doubt
  BY <1>3 DEF CallbackOK, CallbackOf
<1> HIDE DEF t, i
<1>8. CASE c.kind = "OnSuspect" /\ Finish(OnSuspect(r, t, i), sent)
  <2>1. Keeps(C, r, OnSuspect(r, t, i))
    BY <1>1, <1>6, <1>7, <1>8, OnSuspectOK
  <2> QED BY <1>1, <1>2, <1>6, <1>8, <2>1, FinishOK DEF Keeps
<1>9. CASE c.kind = "OnConfirm" /\ Finish(OnConfirm(r, t, i), sent)
  <2>1. Keeps(C, r, OnConfirm(r, t, i))
    BY <1>1, <1>6, <1>7, <1>9, OnConfirmOK
  <2> QED BY <1>1, <1>2, <1>6, <1>9, <2>1, FinishOK DEF Keeps
<1>10. CASE c.kind = "OnClear" /\ Finish(OnClear(r, t, i), sent)
  <2>1. node'[n].inc = node[n].inc
    BY <1>6, <1>10 DEF Finish, BaseOK, OnClear, Broadcast, Put, RunOK, Runs
  <2>2. i \in C[n].alive
    BY <1>1, <1>2, <1>5, <1>7, <1>10, <2>1 DEF Allows
  <2>3. Keeps(C, r, OnClear(r, t, i))
    BY <1>1, <1>6, <1>7, <1>10, <2>2, OnClearOK
  <2> QED BY <1>1, <1>2, <1>6, <1>10, <2>3, FinishOK DEF Keeps
<1> QED BY <1>4, <1>8, <1>9, <1>10

LEMMA LeaveGroupOK ==
  ASSUME NEW C, NEW S, BaseOK, WorldOK(C, S), Allows(C, S), NEW n \in Nodes, LeaveGroup(n)
  PROVE  Kept(C, S)
<1> DEFINE r == RunOf(n)
           msg == Msg("Leave", n, node[n].inc, NoUpdate)
           except == {n}
           s == Broadcast(r, except, msg)
<1>1. n \in S /\ n \in active \ active' /\ S \in SUBSET Nodes
  BY DEF LeaveGroup, Allows
<1>2. RunOK(C, r) /\ r.me = n /\ r.inc = node[n].inc /\ r.inc \in Nat
  BY <1>1, RunOfOK
<1>3. msg \in MsgOf /\ \A to \in Nodes \ except : MsgOK(C, to, msg)
  BY <1>1, <1>2 DEF Msg, MsgOf, MsgOK, Kinds, Allows
<1>4. Finish(s, sent)
  BY DEF LeaveGroup
<1> HIDE DEF r, msg, except
<1>5. Keeps(C, r, s)
  BY <1>2, <1>3, BroadcastOK
<1> HIDE DEF s
<1> QED BY <1>1, <1>2, <1>4, <1>5, FinishOK DEF Keeps

\* What keeps to an account that allows what a step adds keeps to it after the step.
LEMMA StepKeepsTo ==
  ASSUME NEW C, NEW S, BaseOK, WorldOK(C, S), Allows(C, S), Next
  PROVE  Kept(C, S)
<1>1. ASSUME NEW p \in sent, Receive(p) PROVE Kept(C, S)
  BY <1>1, ReceiveOK
<1>2. ASSUME NEW n \in Nodes, NEW t \in Nodes, GossipRound(n, t) PROVE Kept(C, S)
  BY <1>2, GossipRoundOK
<1>3. ASSUME NEW n \in Nodes, NEW t \in Nodes, CheckFailures(n, t) PROVE Kept(C, S)
  BY <1>3, SuspiciousOK, RemovedOK DEF CheckFailures
<1>4. ASSUME NEW n \in Nodes, NEW t \in Nodes, Confirm(n, t) PROVE Kept(C, S)
  BY <1>4, ConfirmStepOK
<1>5. ASSUME NEW n \in Nodes, NEW t \in Nodes, Forget(n, t) PROVE Kept(C, S)
  BY <1>5, ForgetOK
<1>6. ASSUME NEW n \in Nodes, LeaveGroup(n) PROVE Kept(C, S)
  BY <1>6, LeaveGroupOK
<1>7. ASSUME NEW n \in Nodes, Crash(n) PROVE Kept(C, S)
  BY <1>7, CrashOK
<1>8. ASSUME NEW n \in Nodes, NEW u \in node[n].news, Expire(n, u) PROVE Kept(C, S)
  BY <1>8, ExpireOK
<1>9. ASSUME NEW n \in Nodes, NEW c \in node[n].callbacks, RunCallback(n, c) PROVE Kept(C, S)
  BY <1>9, RunCallbackOK
<1> QED BY <1>1, <1>2, <1>3, <1>4, <1>5, <1>6, <1>7, <1>8, <1>9 DEF Next

-----------------------------------------------------------------------------
(* The account of what was granted and missed, and its invariant           *)

Granted(t) == {i \in Incs : i <= node[t].inc \/ \E j \in Incs : i <= j /\ <<t, j>> \in lent}
Excused(t) == t \notin active \/ \E i \in Incs : <<t, i>> \in missed

Said == [t \in Nodes |-> [alive |-> Granted(t),
                          down  |-> IF Excused(t) THEN Granted(t) ELSE {},
                          doubt |-> {i \in Granted(t) : <<t, i>> \in missed}]]

\* Every incarnation that an OnClear gave was one of some node.
LentOK == \A l \in lent : \E n \in Nodes : l[2] <= node[n].inc

GroupInv == BaseOK /\ WorldOK(Said, Nodes) /\ LentOK

LEMMA SaidClosed ==
  ASSUME BaseOK
  PROVE  Closed(Said) /\ \A t \in Nodes : 0 \in Said[t].alive
<1>1. \A t \in Nodes : node[t].inc \in Nat /\ 0 \in Incs /\ Incs \subseteq Nat
  BY DEF BaseOK, Shape, Incs
<1>2. \A t \in Nodes : 0 \in Granted(t) /\ Granted(t) \subseteq Incs
  BY <1>1 DEF Granted
<1>3. Said \in Accounts
  BY <1>1, <1>2 DEF Said, Accounts
<1>4. \A t \in Nodes : Said[t].doubt # {} => Excused(t)
  BY <1>1, <1>2 DEF Said, Excused
<1> QED BY <1>2, <1>3, <1>4 DEF Closed, Said

LEMMA AllAllows == ASSUME BaseOK, up' \subseteq Nodes PROVE Allows(All, Nodes)
<1>1. \A t \in Nodes : All[t].alive = Nat /\ All[t].down = Nat /\ All[t].doubt = Nat
  BY DEF All
<1>2. \A n \in active : node[n].inc \in Nat
  BY DEF BaseOK, Shape, Incs
<1>3. Closed(All)
  BY AllClosed
<1>4. active \subseteq Nodes
  BY DEF BaseOK
<1> HIDE DEF All
<1> QED BY <1>1, <1>2, <1>3, <1>4 DEF Allows

\* What keeps to Said mentions no incarnation above the highest.
LEMMA SaidBounds ==
  ASSUME GroupInv
  PROVE  /\ \A n, t \in Nodes : node[n].list[t].inc \in Incs /\ node[n].cases[t].inc \in Incs
         /\ \A n \in Nodes : \A c \in node[n].callbacks : c \in CallbackOf /\ c.inc \in Incs
<1>1. \A t \in Nodes : /\ Said[t].alive \subseteq Incs /\ Said[t].down \subseteq Incs
                       /\ Said[t].doubt \subseteq Incs
  BY DEF Said, Granted
<1>2. BaseOK /\ WorldOK(Said, Nodes)
  BY DEF GroupInv
<1>3. ASSUME NEW n \in Nodes
      PROVE  /\ RunOK(Said, RunOf(n)) /\ RunOf(n).list = node[n].list
             /\ RunOf(n).cases = node[n].cases /\ RunOf(n).callbacks = node[n].callbacks
  BY <1>2, RunOfOK
<1>4. ASSUME NEW n \in Nodes, NEW t \in Nodes PROVE node[n].list[t].inc \in Incs
  BY <1>1, <1>3, RunFields DEF EntryOK
<1>5. ASSUME NEW n \in Nodes, NEW t \in Nodes PROVE node[n].cases[t].inc \in Incs
  <2>1. RunOK(Said, RunOf(n)) /\ RunOf(n).cases = node[n].cases
    BY <1>3
  <2>2. node[n].cases[t] # NoCase => node[n].cases[t].inc \in Said[t].doubt
    BY <2>1 DEF RunOK
  <2> QED BY <1>1, <2>2 DEF NoCase, Incs
<1>6. ASSUME NEW n \in Nodes, NEW c \in node[n].callbacks
      PROVE  c \in CallbackOf /\ c.inc \in Incs
  <2>1. RunOK(Said, RunOf(n)) /\ RunOf(n).callbacks = node[n].callbacks
    BY <1>3
  <2>2. c \in CallbackOf /\ CallbackOK(Said, RunOf(n).me, c)
    BY <2>1, RunFields DEF RunOK
  <2> QED BY <1>1, <2>2 DEF CallbackOK, CallbackOf
<1> QED BY <1>4, <1>5, <1>6

\* The histories and the bounds over a step.
LEMMA HistorySteps ==
  ASSUME GroupInv, Next
  PROVE  /\ bounds' = bounds /\ enableSuspicion' = enableSuspicion
         /\ up' \subseteq up /\ active' \subseteq active
         /\ missed \subseteq missed' /\ missed' \subseteq Nodes \X Incs
         /\ lent \subseteq lent'
         /\ \A l \in lent' \ lent : \E n \in Nodes : \E c \in node[n].callbacks :
              l = <<n, c.inc>> /\ c.kind = "OnClear"
<1> DEFINE Goal == /\ bounds' = bounds /\ enableSuspicion' = enableSuspicion
                   /\ up' \subseteq up /\ active' \subseteq active
                   /\ missed \subseteq missed' /\ missed' \subseteq Nodes \X Incs
                   /\ lent \subseteq lent'
                   /\ \A l \in lent' \ lent : \E n \in Nodes : \E c \in node[n].callbacks :
                        l = <<n, c.inc>> /\ c.kind = "OnClear"
<1>1. missed \subseteq Nodes \X Incs
  BY DEF GroupInv, BaseOK
<1>2. ASSUME NEW p \in sent, Receive(p) PROVE Goal
  BY <1>1, <1>2 DEF Receive
<1>3. ASSUME NEW n \in Nodes, NEW t \in Nodes, GossipRound(n, t) PROVE Goal
  BY <1>1, <1>3 DEF GossipRound
<1>4. ASSUME NEW n \in Nodes, NEW t \in Nodes, CheckFailures(n, t) PROVE Goal
  <2>1. missed' = missed \/ missed' = missed \cup {<<t, node[n].list[t].inc>>}
    BY <1>4 DEF CheckFailures, Suspicious, Removed, Silent
  <2>2. <<t, node[n].list[t].inc>> \in Nodes \X Incs
    BY SaidBounds
  <2>3. /\ bounds' = bounds /\ enableSuspicion' = enableSuspicion
        /\ up' = up /\ active' = active /\ lent' = lent
    BY <1>4 DEF CheckFailures
  <2> QED BY <1>1, <2>1, <2>2, <2>3
<1>5. ASSUME NEW n \in Nodes, NEW t \in Nodes, Confirm(n, t) \/ Forget(n, t) PROVE Goal
  BY <1>1, <1>5 DEF Confirm, Forget
<1>6. ASSUME NEW n \in Nodes, LeaveGroup(n) \/ Crash(n) PROVE Goal
  BY <1>1, <1>6 DEF LeaveGroup, Crash
<1>7. ASSUME NEW n \in Nodes, NEW u \in node[n].news, Expire(n, u) PROVE Goal
  BY <1>1, <1>7 DEF Expire
<1>8. ASSUME NEW n \in Nodes, NEW c \in node[n].callbacks, RunCallback(n, c) PROVE Goal
  <2>1. lent' = lent \/ (c.kind = "OnClear" /\ lent' = lent \cup {<<n, c.inc>>})
    BY <1>8 DEF RunCallback
  <2>2. /\ bounds' = bounds /\ enableSuspicion' = enableSuspicion
        /\ up' = up /\ active' = active /\ missed' = missed
    BY <1>8 DEF RunCallback
  <2> QED BY <1>1, <2>1, <2>2
<1> HIDE DEF Goal
<1>9. Goal
  BY <1>2, <1>3, <1>4, <1>5, <1>6, <1>7, <1>8 DEF Next
<1> QED BY <1>9 DEF Goal

\* The shape of the next state, by the account that says everything.
LEMMA BaseStep ==
  ASSUME GroupInv, Next
  PROVE  BaseOK' /\ \A n \in Nodes : node[n].inc <= node'[n].inc
<1>1. BaseOK /\ WorldOK(Said, Nodes) /\ Closed(Said)
  BY SaidClosed DEF GroupInv
<1>2. WorldOK(All, Nodes)
  <2>1. Within(Said, All)
    BY <1>1, AllClosed
  <2>2. \A n \in Nodes : RunOK(All, RunOf(n))
    BY <1>1, <2>1, RunWithin DEF WorldOK
  <2>3. ASSUME NEW p \in sent, p.to \in Nodes PROVE PacketOK(All, p)
    <3>1. MsgOK(Said, p.to, p.msg) /\ p.msg \in MsgOf
      BY <1>1, <2>3 DEF WorldOK, PacketOK, BaseOK, PacketOf
    <3> HIDE DEF Said, All
    <3> QED BY <2>1, <3>1, MsgWithin DEF PacketOK
  <2> QED BY <2>2, <2>3 DEF WorldOK
<1>3. Allows(All, Nodes)
  BY <1>1, HistorySteps, AllAllows DEF BaseOK
<1>4. Kept(All, Nodes)
  BY <1>1, <1>2, <1>3, StepKeepsTo
<1>5. lent' \subseteq Nodes \X Incs
  <2>1. \A l \in lent' \ lent : l \in Nodes \X Incs
    BY HistorySteps, SaidBounds
  <2> QED BY <1>1, <2>1 DEF BaseOK
<1> QED BY <1>1, <1>4, <1>5, HistorySteps DEF BaseOK, Kept

LEMMA GroupInit == ASSUME Init PROVE GroupInv
<1>1. /\ [t \in Nodes |-> Rec("Alive", 0)] \in [Nodes -> Member(Nat)]
      /\ [t \in Nodes |-> NoCase] \in [Nodes -> CaseOf]
  BY DEF Rec, Member, CaseOf, Statuses
<1>2. Fresh \in Shape
  <2> HIDE DEF NoCase
  <2> QED BY <1>1 DEF Fresh, Shape, Incs
<1>3. BaseOK
  BY <1>2 DEF Init, BaseOK
<1>4. \A t \in Nodes : 0 \in Said[t].alive
  BY <1>3, SaidClosed
<1>5. \A n \in Nodes : RunOK(Said, RunOf(n))
  <2> TAKE n \in Nodes
  <2> DEFINE run == [list |-> [t \in Nodes |-> Rec("Alive", 0)], inc |-> 0,
                     cases |-> [t \in Nodes |-> NoCase], callbacks |-> {}, news |-> {},
                     me |-> n, started |-> {}, out |-> {}]
  <2>1. RunOf(n) = run
    BY DEF Init, RunOf, Fresh
  <2>2. run \in Runs
    <3> HIDE DEF NoCase
    <3> QED BY <1>1 DEF Runs
  <2>3. RunOK(Said, run)
    BY <1>4, <2>2 DEF RunOK, EntryOK, Rec
  <2> HIDE DEF run
  <2> QED BY <2>1, <2>3
<1> QED BY <1>3, <1>5 DEF GroupInv, WorldOK, LentOK, Init

LEMMA GroupStep == ASSUME GroupInv, Next PROVE GroupInv'
<1>1. /\ BaseOK /\ WorldOK(Said, Nodes) /\ LentOK
      /\ BaseOK' /\ \A n \in Nodes : node[n].inc <= node'[n].inc
  BY BaseStep DEF GroupInv
<1>2. PICK C : C = Said'
  OBVIOUS
<1>3. /\ C = [t \in Nodes |-> [alive |-> Granted(t)', down |-> IF Excused(t)' THEN Granted(t)' ELSE {},
                               doubt |-> {i \in Granted(t)' : <<t, i>> \in missed'}]]
  BY <1>2 DEF Said
<1>4. Closed(C) /\ \A t \in Nodes : 0 \in C[t].alive
  <2>1. \A t \in Nodes : node'[t].inc \in Nat /\ 0 \in Incs /\ Incs \subseteq Nat
    BY <1>1 DEF BaseOK, Shape, Incs
  <2>2. \A t \in Nodes : 0 \in Granted(t)' /\ Granted(t)' \subseteq Incs
    BY <2>1 DEF Granted
  <2>3. C \in Accounts
    BY <1>3, <2>1, <2>2 DEF Accounts
  <2>4. \A t \in Nodes : C[t].doubt # {} => Excused(t)'
    BY <1>3, <2>1, <2>2 DEF Excused
  <2> QED BY <1>3, <2>2, <2>3, <2>4 DEF Closed
<1>5. Allows(C, Nodes)
  <2>1. \A n \in Nodes : node'[n].inc \in Incs /\ node[n].inc \in Incs /\ Incs \subseteq Nat
    BY <1>1 DEF BaseOK, Shape, Incs
  <2>2. up' \subseteq Nodes /\ active \subseteq Nodes
    BY <1>1 DEF BaseOK
  <2>3. ASSUME NEW n \in up', NEW i \in Nat, i <= node'[n].inc PROVE i \in C[n].alive
    <3>1. i \in Granted(n)'
      BY <2>1, <2>2, <2>3 DEF Granted, Incs
    <3> QED BY <1>3, <2>2, <3>1
  <2>4. ASSUME NEW n \in active \ active' PROVE node[n].inc \in C[n].down
    <3>1. node[n].inc \in Granted(n)' /\ Excused(n)'
      BY <1>1, <2>1, <2>2, <2>4 DEF Granted, Excused
    <3> QED BY <1>3, <2>2, <3>1
  <2>5. \A t \in Nodes, i \in Nat : <<t, i>> \in missed' /\ i \in C[t].alive => i \in C[t].doubt
    BY <1>3
  <2>6. ASSUME NEW n \in up', NEW i \in Nat, <<n, i>> \in lent' PROVE i \in C[n].alive
    <3>1. i \in Incs /\ i <= i
      BY <1>1, <2>6 DEF BaseOK
    <3>2. i \in Granted(n)'
      BY <2>6, <3>1 DEF Granted
    <3> QED BY <1>3, <2>2, <3>2
  <2> QED BY <1>4, <2>2, <2>3, <2>4, <2>5, <2>6 DEF Allows
<1>6. Within(Said, C)
  <2>1. missed \subseteq missed' /\ lent \subseteq lent' /\ active' \subseteq active
    BY HistorySteps DEF GroupInv
  <2>2. \A n \in Nodes : node'[n].inc \in Int /\ node[n].inc \in Int /\ Incs \subseteq Int
    BY <1>1 DEF BaseOK, Shape, Incs
  <2>3. \A t \in Nodes : Granted(t) \subseteq Granted(t)'
    BY <1>1, <2>1, <2>2 DEF Granted
  <2>4. \A t \in Nodes : Excused(t) => Excused(t)'
    BY <2>1 DEF Excused
  <2> QED BY <1>3, <2>1, <2>3, <2>4 DEF Within, Said
<1>7. WorldOK(C, Nodes)
  <2>1. \A n \in Nodes : RunOK(C, RunOf(n))
    BY <1>1, <1>6, RunWithin DEF WorldOK
  <2>2. ASSUME NEW p \in sent, p.to \in Nodes PROVE PacketOK(C, p)
    <3>1. MsgOK(Said, p.to, p.msg) /\ p.msg \in MsgOf
      BY <1>1, <2>2 DEF WorldOK, PacketOK, BaseOK, PacketOf
    <3> HIDE DEF Said
    <3> QED BY <1>6, <3>1, MsgWithin DEF PacketOK
  <2> QED BY <2>1, <2>2 DEF WorldOK
<1>8. Kept(C, Nodes)
  BY <1>1, <1>5, <1>7, StepKeepsTo
<1>9. WorldOK(Said, Nodes)'
  BY <1>2, <1>8 DEF Kept, WorldOK
<1>10. LentOK'
  <2> SUFFICES ASSUME NEW l \in lent' PROVE \E n \in Nodes : l[2] <= node'[n].inc
    BY DEF LentOK
  <2>1. \A n \in Nodes : node'[n].inc \in Int /\ node[n].inc \in Int
    BY <1>1 DEF BaseOK, Shape, Incs
  <2>2. \A k \in lent : k[2] \in Int
    BY <1>1 DEF BaseOK, Incs
  <2>3. CASE l \in lent
    BY <1>1, <2>1, <2>2, <2>3 DEF LentOK
  <2>4. CASE l \notin lent
    <3>1. PICK n \in Nodes : \E c \in node[n].callbacks : l = <<n, c.inc>> /\ c.kind = "OnClear"
      BY <2>4, HistorySteps
    <3>2. PICK c \in node[n].callbacks : l = <<n, c.inc>> /\ c.kind = "OnClear"
      BY <3>1
    <3>3. c.about \in Nodes /\ c.inc \in Said[c.about].alive
      <4>1. RunOK(Said, RunOf(n)) /\ RunOf(n).callbacks = node[n].callbacks
        BY <1>1, RunOfOK
      <4>2. c \in CallbackOf /\ CallbackOK(Said, RunOf(n).me, c)
        BY <4>1, RunFields DEF RunOK
      <4> QED BY <3>2, <4>2 DEF CallbackOK, CallbackOf
    <3>4. c.inc \in Granted(c.about)
      BY <3>3 DEF Said
    <3>5. c.inc \in Int /\ Incs \subseteq Int
      BY <3>4 DEF Granted, Incs
    <3>6. CASE c.inc <= node[c.about].inc
      BY <1>1, <2>1, <3>2, <3>3, <3>5, <3>6
    <3>7. CASE \E j \in Incs : c.inc <= j /\ <<c.about, j>> \in lent
      <4>1. PICK j \in Incs : c.inc <= j /\ <<c.about, j>> \in lent
        BY <3>7
      <4>2. PICK m \in Nodes : j <= node[m].inc
        BY <1>1, <4>1 DEF LentOK
      <4> QED BY <1>1, <2>1, <3>2, <3>5, <4>1, <4>2
    <3> QED BY <3>4, <3>6, <3>7 DEF Granted
  <2> QED BY <2>3, <2>4
<1> QED BY <1>1, <1>9, <1>10 DEF GroupInv

LEMMA GroupStutter == ASSUME GroupInv, UNCHANGED vars PROVE GroupInv'
<1>1. BaseOK' /\ LentOK'
  BY DEF GroupInv, BaseOK, LentOK, vars
<1>2. Said' = Said
  BY DEF Said, Granted, Excused, vars
<1>3. \A n \in Nodes : RunOf(n)' = RunOf(n)
  BY DEF RunOf, vars
<1>4. WorldOK(Said, Nodes)'
  BY <1>2, <1>3 DEF GroupInv, WorldOK, vars
<1> QED BY <1>1, <1>4 DEF GroupInv

LEMMA GroupInvariant == Spec => []GroupInv
<1>1. GroupInv /\ [Next]_vars => GroupInv'
  BY GroupStep, GroupStutter
<1> QED BY GroupInit, <1>1, PTL DEF Spec

-----------------------------------------------------------------------------
(* The theorems                                                            *)

\* What the invariant says of one node and of one message.
LEMMA NodeSays ==
  ASSUME GroupInv, NEW n \in Nodes
  PROVE  /\ RunOK(Said, RunOf(n)) /\ RunOf(n).me = n
         /\ RunOf(n).list = node[n].list /\ RunOf(n).cases = node[n].cases
         /\ RunOf(n).news = node[n].news
         /\ \A c \in node[n].callbacks : CallbackOK(Said, n, c) /\ c \in CallbackOf
         /\ \A u \in node[n].news : UpdateOK(Said, u) /\ u \in UpdateOf
         /\ node[n].list \in [Nodes -> Member(Nat)] /\ node[n].cases \in [Nodes -> CaseOf]
         /\ \A t \in Nodes : EntryOK(Said, t, node[n].list[t])
         /\ \A t \in Nodes : node[n].cases[t] # NoCase => node[n].cases[t].inc \in Said[t].doubt
<1>1. RunOK(Said, RunOf(n))
  BY DEF GroupInv, WorldOK
<1>2. /\ RunOf(n).me = n /\ RunOf(n).list = node[n].list /\ RunOf(n).cases = node[n].cases
      /\ RunOf(n).news = node[n].news /\ RunOf(n).callbacks = node[n].callbacks
  BY DEF RunOf
<1> QED BY <1>1, <1>2, RunFields DEF RunOK

LEMMA PacketSays ==
  ASSUME GroupInv, NEW p \in sent
  PROVE  /\ p.to \in Nodes /\ p.msg \in MsgOf /\ MsgOK(Said, p.to, p.msg)
         /\ p.msg.from \in Nodes /\ p.msg.kind \in Kinds
         /\ p.msg.update # NoUpdate =>
              UpdateOK(Said, p.msg.update) /\ p.msg.update \in UpdateOf
<1>1. p \in PacketOf
  BY DEF GroupInv, BaseOK
<1>2. p.to \in Nodes /\ p.msg \in MsgOf
  BY <1>1 DEF PacketOf
<1>3. MsgOK(Said, p.to, p.msg)
  BY <1>2 DEF GroupInv, WorldOK, PacketOK
<1> HIDE DEF Said
<1> QED BY <1>2, <1>3 DEF MsgOK, MsgOf

LEMMA SaidIncs ==
  /\ \A t \in Nodes : /\ Said[t].alive = Granted(t) /\ Said[t].down \subseteq Granted(t)
                      /\ Said[t].down # {} => Excused(t)
                      /\ Said[t].doubt = {i \in Granted(t) : <<t, i>> \in missed}
  /\ \A t : Granted(t) \subseteq Incs
BY DEF Said, Granted

\* The type of the group's state in any group: no incarnation is tracked, called back or
\* sent above the highest that the code of a node (handleSelfRefutation) has granted.
THEOREM ClusterTypeOK == Spec => []TypeOK
<1>1. GroupInv => TypeOK
  <2> SUFFICES ASSUME GroupInv PROVE TypeOK
    OBVIOUS
  <2>1. BaseOK
    BY DEF GroupInv
  <2>2. \A t \in Nodes : /\ Said[t].alive \subseteq Incs /\ Said[t].down \subseteq Incs
                         /\ Said[t].doubt \subseteq Incs
    BY SaidIncs
  <2>3. ASSUME NEW u \in UpdateOf, UpdateOK(Said, u) PROVE u \in Update
    BY <2>2, <2>3 DEF UpdateOf, UpdateOK, Update, Statuses
  <2>4. ASSUME NEW n \in Nodes
        PROVE  node[n] \in [list : [Nodes -> Member(Incs)], inc : Incs,
                            cases : [Nodes -> Case], callbacks : SUBSET Callback,
                            news : SUBSET Update]
    <3>1. node[n].list \in [Nodes -> Member(Incs)]
      <4>1. node[n].list \in [Nodes -> Member(Nat)]
            /\ \A t \in Nodes : node[n].list[t].inc \in Incs
        BY NodeSays, SaidBounds
      <4>2. \A t \in Nodes : node[n].list[t] \in Member(Incs)
        BY <4>1 DEF Member
      <4> QED BY <4>1, <4>2
    <3>2. node[n].cases \in [Nodes -> Case]
      <4>1. node[n].cases \in [Nodes -> CaseOf]
            /\ \A t \in Nodes : node[n].cases[t].inc \in Incs
        BY NodeSays, SaidBounds
      <4>2. \A t \in Nodes : node[n].cases[t] \in Case
        BY <4>1 DEF Case, CaseOf
      <4> QED BY <4>1, <4>2
    <3>3. node[n].callbacks \subseteq Callback
      BY SaidBounds DEF Callback, CallbackOf
    <3>4. node[n].news \subseteq Update
      BY <2>3, NodeSays
    <3>5. node[n] \in Shape
      BY <2>1 DEF BaseOK
    <3> QED BY <3>1, <3>2, <3>3, <3>4, <3>5 DEF Shape
  <2>5. ASSUME NEW p \in sent
        PROVE  /\ p.to \in Nodes /\ p.msg.kind \in Kinds
               /\ p.msg.from \in Nodes /\ p.msg.inc \in Incs
               /\ p.msg.update \in Update \cup {NoUpdate}
    <3>1. p.msg.inc \in Incs
      <4>1. p.msg.update # NoUpdate => p.msg.update.about \in Nodes
        BY PacketSays DEF UpdateOf
      <4> QED BY <2>2, <4>1, PacketSays DEF MsgOK, Kinds
    <3> QED BY <2>3, <3>1, PacketSays
  <2> QED BY <2>1, <2>4, <2>5 DEF BaseOK, TypeOK
<1> QED BY GroupInvariant, <1>1, PTL

\* Behind every case, OnSuspect, OnConfirm, Suspect, Confirm and Suspected update of any
\* group is a failure check (gossip.go:210-216) that missed that node at that very
\* incarnation, and nobody is listed as anything but Alive who was never missed and has
\* not left.
THEOREM SuspicionsHaveACause == Spec => []SuspicionsStartWithAMiss
<1>1. GroupInv => SuspicionsStartWithAMiss
  <2> SUFFICES ASSUME GroupInv PROVE SuspicionsStartWithAMiss
    OBVIOUS
  <2>1. ASSUME NEW u \in UpdateOf, UpdateOK(Said, u)
        PROVE  /\ u.status = "Suspected" => <<u.about, u.inc>> \in missed
               /\ u.status = "Failed" => Excused(u.about)
    BY <2>1, SaidIncs DEF UpdateOf, UpdateOK
  <2>2. ASSUME NEW n \in Nodes, NEW t \in Nodes
        PROVE  /\ node[n].cases[t] # NoCase => <<t, node[n].cases[t].inc>> \in missed
               /\ node[n].list[t].status # "Alive" => Excused(t)
    BY NodeSays, SaidIncs DEF EntryOK
  <2>3. ASSUME NEW n \in Nodes, NEW c \in node[n].callbacks, c.kind # "OnClear"
        PROVE  <<c.about, c.inc>> \in missed
    BY <2>3, NodeSays, SaidIncs DEF CallbackOK, CallbackOf
  <2>4. ASSUME NEW p \in sent
        PROVE  /\ p.msg.update.status = "Suspected" =>
                    <<p.msg.update.about, p.msg.update.inc>> \in missed
               /\ p.msg.update.status = "Failed" => Excused(p.msg.update.about)
               /\ p.msg.kind = "Confirm" => <<p.msg.update.about, p.msg.inc>> \in missed
    <3>1. p.msg.update # NoUpdate => p.msg.update.about \in Nodes
      BY PacketSays DEF UpdateOf
    <3>2. NoUpdate.status = "Alive"
      BY DEF NoUpdate
    <3>3. p.msg.kind = "Confirm" => <<p.msg.update.about, p.msg.inc>> \in missed
      BY <3>1, PacketSays, SaidIncs DEF MsgOK
    <3> QED BY <2>1, <3>2, <3>3, PacketSays
  <2> QED BY <2>1, <2>2, <2>3, <2>4, NodeSays DEF SuspicionsStartWithAMiss, Excused
<1> QED BY GroupInvariant, <1>1, PTL

\* In any group a node is Alive in its own list: OnConfirm leaves its target out
\* (main.go:79), and processUpdate passes over a Failed about oneself.
THEOREM NobodyFailsItself == Spec => []NobodyCondemnsItself
<1>1. GroupInv => NobodyCondemnsItself
  BY NodeSays, RunFields DEF NobodyCondemnsItself
<1> QED BY GroupInvariant, <1>1, PTL

\* No incarnation is made up in any group: whatever is listed, tracked, called back or
\* sent of a node it has given itself, or an OnClear of it (main.go:116-120) has given it
\* one that another node has given itself.
THEOREM NoIncarnationIsMadeUp == Spec => []IncarnationsAreGranted
<1>1. GroupInv => IncarnationsAreGranted
  <2> SUFFICES ASSUME GroupInv PROVE IncarnationsAreGranted
    OBVIOUS
  <2> DEFINE G(t, i) == i <= node[t].inc \/ \E j \in Incs : i <= j /\ <<t, j>> \in lent
  <2>1. ASSUME NEW t \in Nodes
        PROVE  /\ \A i \in Said[t].alive : G(t, i)
               /\ \A i \in Said[t].down : G(t, i)
               /\ \A i \in Said[t].doubt : G(t, i)
               /\ G(t, 0)
    <3>1. \A i \in Granted(t) : G(t, i)
      BY DEF Granted
    <3>2. 0 <= node[t].inc
      BY DEF GroupInv, BaseOK, Shape, Incs
    <3> QED BY <3>1, <3>2, SaidIncs
  <2> HIDE DEF G
  <2>2. ASSUME NEW u \in UpdateOf, UpdateOK(Said, u) PROVE G(u.about, u.inc)
    BY <2>1, <2>2 DEF UpdateOf, UpdateOK, Statuses
  <2>3. ASSUME NEW n \in Nodes, NEW t \in Nodes
        PROVE  G(t, node[n].list[t].inc) /\ G(t, node[n].cases[t].inc)
    BY <2>1, NodeSays DEF EntryOK, NoCase
  <2>4. ASSUME NEW n \in Nodes, NEW x \in node[n].news \cup node[n].callbacks
        PROVE  G(x.about, x.inc)
    <3>1. CASE x \in node[n].news
      BY <2>2, <3>1, NodeSays
    <3>2. CASE x \in node[n].callbacks
      BY <2>1, <3>2, NodeSays DEF CallbackOK, CallbackOf
    <3> QED BY <3>1, <3>2
  <2>5. ASSUME NEW p \in sent
        PROVE  /\ p.msg.kind \in {"Heartbeat", "AliveMsg", "Leave"} => G(p.msg.from, p.msg.inc)
               /\ p.msg.update # NoUpdate => G(p.msg.update.about, p.msg.update.inc)
    BY <2>1, <2>2, PacketSays DEF MsgOK
  <2>6. LentOK
    BY DEF GroupInv
  <2> QED BY <2>3, <2>4, <2>5, <2>6 DEF IncarnationsAreGranted, G, LentOK
<1> QED BY GroupInvariant, <1>1, PTL

\* An account in which t is Alive nowhere.
WithoutSignsOf(t) ==
  [x \in Nodes |-> [alive |-> IF x = t THEN {} ELSE Nat, down |-> Nat, doubt |-> Nat]]

\* A run without a sign of t keeps to that account.
LEMMA NoSignsInARun ==
  ASSUME NEW t \in Nodes, NEW C, C = WithoutSignsOf(t), NEW r, RunOK(All, r), r.out = {},
         r.list[t].status # "Alive",
         \A c \in r.callbacks \cup r.started : ~(c.kind = "OnClear" /\ c.about = t),
         \A u \in r.news : ~(u.about = t /\ u.status = "Alive")
  PROVE  RunOK(C, r)
<1>1. \A x \in Nodes : /\ C[x].alive = (IF x = t THEN {} ELSE Nat)
                       /\ C[x].down = Nat /\ C[x].doubt = Nat
  BY DEF WithoutSignsOf
<1>2. \A x \in Nodes : r.list[x].inc \in Nat
  BY RunFields DEF Member, Absent, Rec
<1>3. \A x \in Nodes : EntryOK(C, x, r.list[x])
  BY <1>1, <1>2 DEF EntryOK
<1>4. \A c \in r.callbacks \cup r.started : c \in CallbackOf /\ c.about # r.me
  BY RunFields DEF RunOK, CallbackOK
<1>5. \A c \in r.callbacks \cup r.started : CallbackOK(C, r.me, c)
  BY <1>1, <1>4 DEF CallbackOK, CallbackOf
<1>6. \A u \in r.news : UpdateOK(C, u)
  <2>1. \A u \in r.news : u \in UpdateOf
    BY RunFields
  <2> QED BY <1>1, <2>1 DEF UpdateOK, UpdateOf
<1>7. \A x \in Nodes : r.cases[x] # NoCase => r.cases[x].inc \in C[x].doubt
  BY <1>1, RunFields DEF CaseOf, NoCase
<1>8. r \in Runs /\ r.list[r.me].status = "Alive" /\ r.cases[r.me] = NoCase
  BY DEF RunOK
<1> QED BY <1>3, <1>5, <1>6, <1>7, <1>8 DEF RunOK

\* The same of a message that was sent.
LEMMA NoSignsInAMessage ==
  ASSUME NEW t \in Nodes, NEW C, C = WithoutSignsOf(t), NEW to, NEW m \in MsgOf,
         MsgOK(All, to, m),
         ~(m.from = t /\ m.kind \in {"Heartbeat", "AliveMsg"}),
         ~(m.update.about = t /\ m.update.status = "Alive")
  PROVE  MsgOK(C, to, m)
<1>1. \A x \in Nodes : /\ C[x].alive = (IF x = t THEN {} ELSE Nat)
                       /\ C[x].down = Nat /\ C[x].doubt = Nat
  BY DEF WithoutSignsOf
<1>2. m.from \in Nodes /\ m.inc \in Nat /\ m.update \in UpdateOf \cup {NoUpdate}
  BY DEF MsgOf
<1>3. m.update # NoUpdate => m.update.about \in Nodes /\ m.update.inc \in Nat
  BY <1>2 DEF UpdateOf
<1>4. m.update # NoUpdate => UpdateOK(C, m.update)
  BY <1>1, <1>3 DEF UpdateOK
<1>5. m.kind \in {"Heartbeat", "AliveMsg"} => m.inc \in C[m.from].alive
  BY <1>1, <1>2
<1>6. /\ m.kind = "Leave" => m.inc \in C[m.from].down /\ m.from # to
      /\ m.kind \in {"Suspect", "Confirm"} => /\ m.update # NoUpdate
                                              /\ m.inc \in C[m.update.about].doubt
      /\ m.kind = "Confirm" => m.update.about # to
  BY <1>1, <1>2, <1>3 DEF MsgOK
<1> QED BY <1>4, <1>5, <1>6 DEF MsgOK

\* The account holds in the part S of the group that runs if t gives no sign there.
LEMMA NoSignsInTheWorld ==
  ASSUME NEW t \in Nodes, NEW C, C = WithoutSignsOf(t), GroupInv, NEW S \in SUBSET up,
         ~SignsOfLife(t)
  PROVE  WorldOK(C, S)
<1>1. Within(Said, All) /\ BaseOK /\ WorldOK(Said, Nodes)
  BY SaidClosed, AllClosed DEF GroupInv
<1>2. ASSUME NEW n \in S PROVE RunOK(C, RunOf(n))
  <2>1. n \in up /\ n \in Nodes
    BY <1>1 DEF BaseOK
  <2>2. RunOK(All, RunOf(n))
    BY <1>1, <2>1, RunWithin DEF WorldOK
  <2>3. /\ RunOf(n).list = node[n].list /\ RunOf(n).callbacks = node[n].callbacks
        /\ RunOf(n).news = node[n].news /\ RunOf(n).started = {} /\ RunOf(n).out = {}
    BY DEF RunOf
  <2>4. /\ node[n].list[t].status # "Alive"
        /\ \A c \in node[n].callbacks : ~(c.kind = "OnClear" /\ c.about = t)
        /\ \A u \in node[n].news : ~(u.about = t /\ u.status = "Alive")
    BY <2>1 DEF SignsOfLife
  <2> QED BY <2>2, <2>3, <2>4, NoSignsInARun
<1>3. ASSUME NEW p \in sent, p.to \in S PROVE PacketOK(C, p)
  <2>1. MsgOK(Said, p.to, p.msg) /\ p.msg \in MsgOf /\ p.to \in up
    BY <1>1, <1>3 DEF WorldOK, PacketOK, BaseOK, PacketOf
  <2>2. MsgOK(All, p.to, p.msg)
    <3> HIDE DEF Said, All
    <3> QED BY <1>1, <2>1, MsgWithin
  <2>3. /\ ~(p.msg.from = t /\ p.msg.kind \in {"Heartbeat", "AliveMsg"})
        /\ ~(p.msg.update.about = t /\ p.msg.update.status = "Alive")
    BY <2>1 DEF SignsOfLife
  <2> QED BY <2>1, <2>2, <2>3, NoSignsInAMessage DEF PacketOK
<1> QED BY <1>2, <1>3 DEF WorldOK

\* Where t is Alive nowhere, nothing that keeps to C takes it for Alive.
LEMMA DeadStep ==
  ASSUME GroupInv, GroupInv', Next, NEW t \in Nodes \ up, ~SignsOfLife(t)
  PROVE  ~SignsOfLife(t)'
<1>1. PICK C : C = WithoutSignsOf(t)
  OBVIOUS
<1>2. PICK S : S = up'
  OBVIOUS
<1>3. /\ BaseOK /\ S \in SUBSET up /\ S \in SUBSET Nodes
      /\ up' \subseteq up /\ t \notin up' /\ active \subseteq Nodes
  BY <1>2, HistorySteps DEF GroupInv, BaseOK
<1>4. WorldOK(C, S)
  BY <1>1, <1>3, NoSignsInTheWorld
<1>5. \A x \in Nodes : /\ C[x].alive = (IF x = t THEN {} ELSE Nat)
                       /\ C[x].down = Nat /\ C[x].doubt = Nat
  BY <1>1 DEF WithoutSignsOf
<1>6. Closed(C)
  BY <1>1, <1>5 DEF WithoutSignsOf, Closed, Accounts
<1>7. Allows(C, S)
  <2>1. \A n \in Nodes : node[n].inc \in Nat
    BY <1>3 DEF BaseOK, Shape, Incs
  <2> QED BY <1>2, <1>3, <1>5, <1>6, <2>1 DEF Allows
<1>8. Kept(C, S)
  BY <1>3, <1>4, <1>7, StepKeepsTo
<1>9. ASSUME NEW n \in S
      PROVE  /\ node'[n].list[t].status # "Alive"
             /\ \A c \in node'[n].callbacks : ~(c.kind = "OnClear" /\ c.about = t)
             /\ \A u \in node'[n].news : ~(u.about = t /\ u.status = "Alive")
  <2> DEFINE r == RunOf(n)'
  <2>1. RunOK(C, r)
    BY <1>8 DEF Kept, WorldOK
  <2>2. r.list = node'[n].list /\ r.callbacks = node'[n].callbacks /\ r.news = node'[n].news
    BY DEF RunOf
  <2> HIDE DEF r
  <2>3. EntryOK(C, t, r.list[t])
    BY <2>1, RunFields
  <2>4. \A c \in r.callbacks : CallbackOK(C, r.me, c)
    BY <2>1 DEF RunOK
  <2>5. \A u \in r.news : UpdateOK(C, u)
    BY <2>1 DEF RunOK
  <2> QED BY <1>5, <2>2, <2>3, <2>4, <2>5 DEF EntryOK, CallbackOK, UpdateOK
<1>10. ASSUME NEW p \in sent', p.to \in S
       PROVE  /\ ~(p.msg.from = t /\ p.msg.kind \in {"Heartbeat", "AliveMsg"})
              /\ ~(p.msg.update.about = t /\ p.msg.update.status = "Alive")
  <2>1. MsgOK(C, p.to, p.msg)
    BY <1>8, <1>10 DEF Kept, WorldOK, PacketOK
  <2>2. t # NoUpdate.about
    BY DEF NoUpdate
  <2> QED BY <1>5, <2>1, <2>2 DEF MsgOK, UpdateOK
<1> QED BY <1>2, <1>9, <1>10 DEF SignsOfLife

\* In any group a node whose process has ended, and of which no sign of life is left, is
\* never taken for Alive again, whatever the others tell of it (gossip.go:345-361) and
\* whichever callbacks still wait to run (main.go:97-106).
THEOREM TheDeadAreNotRaised == Spec => TheDeadStayDead
<1>1. GroupInv /\ GroupInv' /\ [Next]_vars
        => [\A t \in Nodes \ up : ~SignsOfLife(t) => ~SignsOfLife(t)']_vars
  <2>1. ASSUME GroupInv, GroupInv', Next
        PROVE  \A t \in Nodes \ up : ~SignsOfLife(t) => ~SignsOfLife(t)'
    BY <2>1, DeadStep
  <2> QED BY <2>1
<1> QED BY GroupInvariant, <1>1, PTL DEF Spec, TheDeadStayDead

=============================================================================
