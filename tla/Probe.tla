------------------------------- MODULE Probe -------------------------------
(***************************************************************************)
(* The probing protocol of detectors/pingack.go between several nodes: a   *)
(* protocol period pings a member, asks others to ping it when no ack      *)
(* comes, and ends with an ack or in silence.  A helper keeps a waiter in  *)
(* pendingIndirect, under a key made of the number of the request and its  *)
(* target, and a goroutine (a proxy here) that relays one answer.          *)
(*                                                                         *)
(* A process is <<address, life>>: NodeID carries the time the process     *)
(* began.  Messages go to addresses and a restarted process counts its     *)
(* periods from 1 again.  sent is never emptied: a message may be lost,    *)
(* delayed, duplicated and overtaken.  What the handlers do to membership  *)
(* lists and to the suspicion manager is in DetectorNode; here a list may  *)
(* hold any process as Alive.  A node that has left (active false) answers *)
(* nothing, which is a loss; Stop cancels the proxies, which is an early   *)
(* timeout.                                                                *)
(***************************************************************************)
EXTENDS Naturals, FiniteSets

CONSTANTS
  Nodes,        \* the addresses
  Pingers,      \* those whose periods are followed (bound)
  Pinged,       \* those that are probed (bound)
  Helping,      \* those that are asked for help (bound)
  K,            \* most helpers of a period: k
  MaxSeq,       \* periods of a process (bound)
  Mortal,       \* those that restart (bound)
  MaxRestarts,  \* restarts of all addresses together (bound)
  MaxPeriods,   \* periods of all processes together (bound)
  MaxProxies,   \* proxies running at one time, at all nodes (bound)
  None          \* no target, no proxy

Seqs    == 1..MaxSeq
Ids     == Nodes \X (0..MaxRestarts)
Keys    == Seqs \X Ids
Proxies == 1..MaxProxies
Proxy   == [node : Nodes, requester : Nodes, key : Keys,
            stage : {"waiting", "told", "ending"}]
Period  == [stage : {"idle", "acked", "silent"}, target : {None}, seq : {0}, acked : {FALSE}]
           \cup [stage : {"direct", "indirect"}, target : Ids, seq : Seqs, acked : BOOLEAN]

ASSUME ProbeAssumption ==
  /\ Pingers \cup Pinged \cup Helping \cup Mortal \subseteq Nodes
  /\ {K, MaxSeq, MaxRestarts, MaxPeriods, MaxProxies} \subseteq Nat
  /\ None \notin Ids \cup Proxies \cup Proxy

Message ==
  [type : {"Ping"}, from : Nodes, to : Nodes, seq : Seqs]
  \cup [type : {"Ack"}, from : Ids, to : Nodes, seq : Seqs]
  \cup [type : {"IndirectPing"}, from : Nodes, to : Nodes, target : Ids, seq : Seqs]
  \cup [type : {"IndirectAck"}, to : Nodes, target : Ids, seq : Seqs]

Ping(n, t, s)            == [type |-> "Ping", from |-> n, to |-> t[1], seq |-> s]
Ack(i, n, s)             == [type |-> "Ack", from |-> i, to |-> n, seq |-> s]
IndirectPing(n, h, t, s) == [type |-> "IndirectPing", from |-> n, to |-> h, target |-> t, seq |-> s]
IndirectAck(n, t, s)     == [type |-> "IndirectAck", to |-> n, target |-> t, seq |-> s]

VARIABLES
  life,             \* the process at an address
  seqNum,           \* seqNum: the periods it has begun
  period,           \* its protocol period: the one entry of pendingAcks, or the last verdict
  pendingIndirect,  \* key -> the proxy whose waiter is registered
  proxies,          \* the goroutines of handleIndirectPing
  sent,             \* every message ever sent
  answered,         \* history: the target of n's period has answered a ping since it began
  begun             \* history: every period begun, <<process, number, target>>

vars == <<life, seqNum, period, pendingIndirect, proxies, sent, answered, begun>>

Self(n) == <<n, life[n]>>
Known   == {i \in Ids : i[2] <= life[i[1]]}

Rest(verdict) == [stage |-> verdict, target |-> None, seq |-> 0, acked |-> FALSE]
Running(n)    == period[n].stage \in {"direct", "indirect"}

NoWaiters == [k \in Keys |-> None]
Free      == {w \in Proxies : proxies[w] = None}

TypeOK ==
  /\ life \in [Nodes -> 0..MaxRestarts]
  /\ seqNum \in [Nodes -> 0..MaxSeq]
  /\ period \in [Nodes -> Period]
  /\ pendingIndirect \in [Nodes -> [Keys -> Proxies \cup {None}]]
  /\ proxies \in [Proxies -> Proxy \cup {None}]
  /\ sent \subseteq Message
  /\ answered \in [Nodes -> BOOLEAN]
  /\ begun \subseteq (Ids \X Seqs \X Ids)

Init ==
  /\ life = [n \in Nodes |-> 0]
  /\ seqNum = [n \in Nodes |-> 0]
  /\ period = [n \in Nodes |-> Rest("idle")]
  /\ pendingIndirect = [n \in Nodes |-> NoWaiters]
  /\ proxies = [w \in Proxies |-> None]
  /\ sent = {}
  /\ answered = [n \in Nodes |-> FALSE]
  /\ begun = {}

-----------------------------------------------------------------------------
(* performSWIMProtocolPeriod: pingLoop runs one period after the other.    *)

\* Any process but this one that the list may hold as Alive.  The entry in
\* pendingAcks is there before the ping is sent.
BeginPeriod(n, t) ==
  /\ ~Running(n)
  /\ seqNum[n] < MaxSeq /\ Cardinality(begun) < MaxPeriods
  /\ t \in Known \ {Self(n)} /\ t[1] \in Pinged
  /\ LET s == seqNum[n] + 1
     IN  /\ seqNum' = [seqNum EXCEPT ![n] = s]
         /\ period' = [period EXCEPT ![n] =
                         [stage |-> "direct", target |-> t, seq |-> s, acked |-> FALSE]]
         /\ sent' = sent \cup {Ping(n, t, s)}
         /\ begun' = begun \cup {<<Self(n), s, t>>}
  /\ answered' = [answered EXCEPT ![n] = FALSE]
  /\ UNCHANGED <<life, pendingIndirect, proxies>>

\* Mutant of EndPeriod: the entry of pendingAcks outlives its period.
EndPeriodKeeping(n, verdict) ==
  /\ period' = [period EXCEPT ![n] = [@ EXCEPT !.stage = verdict]]
  /\ answered' = [answered EXCEPT ![n] = FALSE]
  /\ UNCHANGED <<life, seqNum, pendingIndirect, proxies, sent, begun>>

EndPeriod(n, verdict) ==
  /\ period' = [period EXCEPT ![n] = Rest(verdict)]
  /\ answered' = [answered EXCEPT ![n] = FALSE]
  /\ UNCHANGED <<life, seqNum, pendingIndirect, proxies, sent, begun>>

\* ackReceived is read.  When the timer has fired too, select takes either.
TakeAck(n) ==
  /\ Running(n)
  /\ period[n].acked
  /\ EndPeriod(n, "acked")

\* The addresses of the helpers, at most K of them (bound: among Helping).
Helpers(n) ==
  {H \in SUBSET {i[1] : i \in Known \ {Self(n), period[n].target}} :
     H \subseteq Helping /\ Cardinality(H) <= K}

\* The direct timer.  Without helpers the period ends here.
DirectTimeout(n) ==
  /\ period[n].stage = "direct"
  /\ \/ EndPeriod(n, "silent")
     \/ \E H \in Helpers(n) \ {{}} :
          /\ period' = [period EXCEPT ![n].stage = "indirect"]
          /\ sent' = sent \cup {IndirectPing(n, h, period[n].target, period[n].seq) : h \in H}
          /\ UNCHANGED <<life, seqNum, pendingIndirect, proxies, answered, begun>>

IndirectTimeout(n) ==
  /\ period[n].stage = "indirect"
  /\ EndPeriod(n, "silent")

-----------------------------------------------------------------------------
(* Message handlers                                                        *)

Received(type) == {m \in sent : m.type = type}

\* The answer goes to the address of the sender.  The Target of the ping is not
\* looked at: whoever has the address answers, under its own NodeID.
HandlePing ==
  \E m \in Received("Ping") :
    /\ sent' = sent \cup {Ack(Self(m.to), m.from, m.seq)}
    /\ answered' = [n \in Nodes |-> \/ answered[n]
                                    \/ Running(n) /\ period[n].target = Self(m.to)]
    /\ UNCHANGED <<life, seqNum, period, pendingIndirect, proxies, begun>>

\* Mutant of Matches: the target of the period is not compared.
MatchesNumber(n, t, s) == Running(n) /\ period[n].seq = s

\* The entry of pendingAcks under s is about t.
Matches(n, t, s) == Running(n) /\ period[n].seq = s /\ period[n].target = t

Signal(n, t, s) ==
  period' = IF Matches(n, t, s) THEN [period EXCEPT ![n].acked = TRUE] ELSE period

\* First the own period, then the waiter registered under the number and sender.
\* The two critical sections commute with everything that runs in between.
HandleAck ==
  \E m \in Received("Ack") :
    /\ Signal(m.to, m.from, m.seq)
    /\ LET w == pendingIndirect[m.to][<<m.seq, m.from>>]
       IN  proxies' = IF w # None /\ proxies[w].stage = "waiting"
                      THEN [proxies EXCEPT ![w].stage = "told"]
                      ELSE proxies
    /\ UNCHANGED <<life, seqNum, pendingIndirect, sent, answered, begun>>

HandleIndirectAck ==
  \E m \in Received("IndirectAck") :
    /\ Signal(m.to, m.target, m.seq)
    /\ UNCHANGED <<life, seqNum, pendingIndirect, proxies, sent, answered, begun>>

\* The new waiter takes the place of one with the same key.  Nothing that runs
\* between the registration and the start of the goroutine depends on either.
HandleIndirectPing ==
  \E m \in Received("IndirectPing") :
    /\ Free # {}
    /\ LET k == <<m.seq, m.target>>
           w == CHOOSE w \in Free : TRUE
       IN  /\ pendingIndirect' = [pendingIndirect EXCEPT ![m.to][k] = w]
           /\ proxies' = [proxies EXCEPT ![w] =
                [node |-> m.to, requester |-> m.from, key |-> k, stage |-> "waiting"]]
           /\ sent' = sent \cup {Ping(m.to, m.target, m.seq)}
    /\ UNCHANGED <<life, seqNum, period, answered, begun>>

-----------------------------------------------------------------------------
(* The goroutine of a proxy, and the cleanup loop                          *)

At(w, stages) == proxies[w] # None /\ proxies[w].stage \in stages

\* Mutant of Relay: the answer is relayed before it has come.
RelayUntold(w) ==
  /\ At(w, {"waiting", "told"})
  /\ sent' = sent \cup {IndirectAck(proxies[w].requester, proxies[w].key[2], proxies[w].key[1])}
  /\ proxies' = [proxies EXCEPT ![w].stage = "ending"]
  /\ UNCHANGED <<life, seqNum, period, pendingIndirect, answered, begun>>

Relay(w) ==
  /\ At(w, {"told"})
  /\ sent' = sent \cup {IndirectAck(proxies[w].requester, proxies[w].key[2], proxies[w].key[1])}
  /\ proxies' = [proxies EXCEPT ![w].stage = "ending"]
  /\ UNCHANGED <<life, seqNum, period, pendingIndirect, answered, begun>>

\* The timer, or the context of the manager.
Expire(w) ==
  /\ At(w, {"waiting", "told"})
  /\ proxies' = [proxies EXCEPT ![w].stage = "ending"]
  /\ UNCHANGED <<life, seqNum, period, pendingIndirect, sent, answered, begun>>

\* Mutant of Finish: the entry is not deleted.
FinishForgetting(w) ==
  /\ At(w, {"ending"})
  /\ proxies' = [proxies EXCEPT ![w] = None]
  /\ UNCHANGED <<life, seqNum, period, pendingIndirect, sent, answered, begun>>

\* The deferred function: the context is cancelled already, and the entry is
\* deleted by its key, whoever has registered under it in the meantime.
Finish(w) ==
  /\ At(w, {"ending"})
  /\ pendingIndirect' = [pendingIndirect EXCEPT ![proxies[w].node][proxies[w].key] = None]
  /\ proxies' = [proxies EXCEPT ![w] = None]
  /\ UNCHANGED <<life, seqNum, period, sent, answered, begun>>

\* Entries whose context is cancelled go, and so does any entry older than twice the
\* time a proxy waits.  There is no clock, so an entry may be that old at any time.  Its
\* proxy is cancelled, which is an early timeout (Expire).
CleanupOrphanedEntries(n) ==
  LET entries   == {k \in Keys : pendingIndirect[n][k] # None}
      cancelled == {k \in entries : LET w == pendingIndirect[n][k]
                                    IN  proxies[w] = None \/ At(w, {"ending"})}
  IN  \E old \in SUBSET entries :
        /\ cancelled \cup old # {}
        /\ pendingIndirect' = [pendingIndirect EXCEPT ![n] =
                                 [k \in Keys |-> IF k \in cancelled \cup old THEN None ELSE @[k]]]
        /\ UNCHANGED <<life, seqNum, period, proxies, sent, answered, begun>>

-----------------------------------------------------------------------------
(* Processes                                                               *)

\* The process at n dies, at any point, and the next one begins with nothing.  One
\* that dies for good is a node whose messages are all lost from now on.
Restart(n) ==
  /\ n \in Mortal
  /\ life[n] < MaxRestarts
  /\ Cardinality({i \in Known : i[2] > 0}) < MaxRestarts
  /\ life' = [life EXCEPT ![n] = @ + 1]
  /\ period' = [period EXCEPT ![n] = Rest("idle")]
  /\ seqNum' = [seqNum EXCEPT ![n] = 0]
  /\ pendingIndirect' = [pendingIndirect EXCEPT ![n] = NoWaiters]
  /\ proxies' = [w \in Proxies |-> IF proxies[w] # None /\ proxies[w].node = n
                                   THEN None ELSE proxies[w]]
  /\ answered' = [answered EXCEPT ![n] = FALSE]
  /\ UNCHANGED <<sent, begun>>

-----------------------------------------------------------------------------
Next ==
  \/ \E n \in Pingers, t \in Ids : BeginPeriod(n, t)
  \/ \E n \in Pingers : TakeAck(n) \/ DirectTimeout(n) \/ IndirectTimeout(n)
  \/ HandlePing \/ HandleAck \/ HandleIndirectPing \/ HandleIndirectAck
  \/ \E w \in Proxies : Relay(w) \/ Expire(w) \/ Finish(w)
  \/ \E n \in Nodes : CleanupOrphanedEntries(n) \/ Restart(n)

Spec == Init /\ [][Next]_vars

-----------------------------------------------------------------------------
(* Properties                                                              *)

\* No waiter outlives its goroutine: an entry of pendingIndirect belongs to a
\* proxy of that node and key that is still running, although proxies delete by
\* key and may delete each other's entries, and whatever the cleanup loop has
\* deleted already (pingack.go:373-406, 618-626).
NoOrphans ==
  \A n \in Nodes, k \in Keys :
    LET w == pendingIndirect[n][k]
    IN  w # None => proxies[w] # None /\ proxies[w].node = n /\ proxies[w].key = k

\* Another process has used the number of n's period for the same address.
Shared(n) ==
  \E p \in begun : /\ p[1] # Self(n)
                   /\ p[2] = period[n].seq
                   /\ p[3][1] = period[n].target[1]

\* An ack that ends a period is news: the target has answered since the period
\* began, unless the number and the address of the target were used by another
\* process too (a helper's own period, or the process this one has replaced).  Then
\* an answer of the past is taken for one of today (pingack.go:549, 560, 655).
AcksAreFresh ==
  \A n \in Nodes : Running(n) /\ period[n].acked => answered[n] \/ Shared(n)

\* The protocol implements its outcomes: whatever is lost, late, repeated or
\* relayed, a period that ends with an ack (pingack.go:178, 225) had its target
\* itself, not another process at its address, answer a ping of its number.
Outcomes == INSTANCE ProbeOutcomes WITH
  probe   <- [n \in Nodes |-> [stage  |-> IF Running(n) THEN "running" ELSE period[n].stage,
                               target |-> period[n].target,
                               seq    |-> period[n].seq]],
  answers <- {<<m.from, m.seq>> : m \in {x \in sent : x.type = "Ack"}}

ImplementsOutcomes == Outcomes!Spec

=============================================================================
