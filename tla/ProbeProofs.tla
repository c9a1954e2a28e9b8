---------------------------- MODULE ProbeProofs ----------------------------
(***************************************************************************)
(* Proofs about the probing protocol, for any number of nodes, helpers,    *)
(* periods, restarts and proxies: its state is well typed, no waiter of    *)
(* pendingIndirect outlives its goroutine, and a period ends with an ack   *)
(* only if the process it probes has answered a ping of its number, which  *)
(* it has done since the period began unless the number is shared.         *)
(*                                                                         *)
(* For the last, what an ack becomes on its way is followed back: from the *)
(* period that is settled, over the IndirectAck, over the proxy that is    *)
(* told, to an Ack under the number and the name of the target.  For       *)
(* being news, every Ack is followed back to a period of its number.       *)
(***************************************************************************)
EXTENDS Probe, TLAPS

USE ProbeAssumption

\* Process i has answered a ping numbered s.
HasAnswered(i, s) == \E m \in sent : m.type = "Ack" /\ m.from = i /\ m.seq = s

\* A proxy has been told, an IndirectAck has been sent and a period has been settled
\* only if the target has answered.
ToldInv    == \A w \in Proxies : At(w, {"told"}) => HasAnswered(proxies[w].key[2], proxies[w].key[1])
RelayedInv == \A m \in sent : m.type = "IndirectAck" => HasAnswered(m.target, m.seq)
SettledInv == \A n \in Nodes :
                Running(n) /\ period[n].acked => HasAnswered(period[n].target, period[n].seq)

AnswerInv == ToldInv /\ RelayedInv /\ SettledInv

-----------------------------------------------------------------------------
(* Types                                                                   *)

\* The fields of a message.
LEMMA MessageFields ==
  ASSUME NEW m \in Message
  PROVE  /\ m.to \in Nodes
         /\ m.seq \in Seqs
         /\ m.type = "Ping" => m.from \in Nodes
         /\ m.type = "Ack" => m.from \in Ids
         /\ m.type = "IndirectPing" => m.from \in Nodes /\ m.target \in Ids
         /\ m.type = "IndirectAck" => m.target \in Ids
BY DEF Message

\* The messages the protocol makes are messages.
LEMMA MadeMessages ==
  /\ \A n \in Nodes, t \in Ids, s \in Seqs :
       Ping(n, t, s) \in Message /\ Ack(t, n, s) \in Message /\ IndirectAck(n, t, s) \in Message
  /\ \A n, h \in Nodes, t \in Ids, s \in Seqs : IndirectPing(n, h, t, s) \in Message
BY DEF Message, Ping, Ack, IndirectPing, IndirectAck, Ids

\* The process at an address has a name.
LEMMA SelfTyped ==
  ASSUME TypeOK, NEW n \in Nodes
  PROVE  Self(n) \in Ids
BY DEF TypeOK, Self, Ids

\* A period that runs is about a process and has a number.
LEMMA RunningTyped ==
  ASSUME TypeOK, NEW n \in Nodes, Running(n)
  PROVE  /\ period[n].target \in Ids /\ period[n].seq \in Seqs
         /\ [period[n] EXCEPT !.acked = TRUE] \in Period
         /\ [period[n] EXCEPT !.stage = "indirect"] \in Period
<1>1. period[n] \in [stage : {"direct", "indirect"}, target : Ids, seq : Seqs, acked : BOOLEAN]
  BY DEF TypeOK, Running, Period
<1> QED BY <1>1 DEF Period

\* A proxy that runs has a node, a requester and a key.
LEMMA ProxyTyped ==
  ASSUME TypeOK, NEW w \in Proxies, proxies[w] # None
  PROVE  /\ proxies[w].node \in Nodes /\ proxies[w].requester \in Nodes
         /\ proxies[w].key \in Keys
         /\ proxies[w].key[1] \in Seqs /\ proxies[w].key[2] \in Ids
         /\ \A s \in {"waiting", "told", "ending"} : [proxies[w] EXCEPT !.stage = s] \in Proxy
<1>1. proxies[w] \in Proxy
  BY DEF TypeOK
<1> QED BY <1>1 DEF Proxy, Keys

\* Settling a period keeps its type (handleAck, handleIndirectAck).
LEMMA SignalTyped ==
  ASSUME TypeOK, NEW n \in Nodes, NEW t, NEW s, Signal(n, t, s)
  PROVE  period' \in [Nodes -> Period]
<1>1. CASE ~Matches(n, t, s)
  BY <1>1 DEF Signal, TypeOK
<1>2. CASE Matches(n, t, s)
  <2>1. [period[n] EXCEPT !.acked = TRUE] \in Period
    BY <1>2, RunningTyped DEF Matches
  <2>2. period' = [period EXCEPT ![n] = [period[n] EXCEPT !.acked = TRUE]]
    BY <1>2 DEF Signal
  <2> QED BY <2>1, <2>2 DEF TypeOK
<1> QED BY <1>1, <1>2

\* An ack tells at most one proxy, which waits for it under its number and sender.
LEMMA AckEffect ==
  ASSUME TypeOK, NoOrphans, HandleAck
  PROVE  \E m \in Received("Ack") :
           /\ m \in Message /\ m.type = "Ack"
           /\ Signal(m.to, m.from, m.seq)
           /\ \/ proxies' = proxies
              \/ \E w \in Proxies :
                   /\ proxies[w] # None /\ proxies[w].key = <<m.seq, m.from>>
                   /\ proxies' = [proxies EXCEPT ![w].stage = "told"]
           /\ UNCHANGED <<life, seqNum, pendingIndirect, sent, answered, begun>>
<1>1. PICK m \in Received("Ack") :
        /\ Signal(m.to, m.from, m.seq)
        /\ LET w == pendingIndirect[m.to][<<m.seq, m.from>>]
           IN  proxies' = IF w # None /\ proxies[w].stage = "waiting"
                          THEN [proxies EXCEPT ![w].stage = "told"]
                          ELSE proxies
        /\ UNCHANGED <<life, seqNum, pendingIndirect, sent, answered, begun>>
  BY DEF HandleAck
<1> DEFINE k == <<m.seq, m.from>>
           w == pendingIndirect[m.to][k]
<1>2. m \in Message /\ m.type = "Ack"
  BY DEF Received, TypeOK
<1>3. m.to \in Nodes /\ k \in Keys
  BY <1>2, MessageFields DEF Keys
<1>4. w \in Proxies \cup {None}
  BY <1>3 DEF TypeOK
<1>5. ASSUME w # None
      PROVE  w \in Proxies /\ proxies[w] # None /\ proxies[w].key = k
  BY <1>3, <1>4, <1>5 DEF NoOrphans
<1>6. CASE w # None /\ proxies[w].stage = "waiting"
  BY <1>1, <1>2, <1>5, <1>6
<1>7. CASE ~(w # None /\ proxies[w].stage = "waiting")
  BY <1>1, <1>2, <1>7
<1> QED BY <1>6, <1>7

\* A request takes a free proxy and gives it the key (handleIndirectPing).
LEMMA RequestEffect ==
  ASSUME TypeOK, HandleIndirectPing
  PROVE  \E m \in Received("IndirectPing"), w \in Free :
           /\ m.to \in Nodes /\ <<m.seq, m.target>> \in Keys
           /\ m.target \in Ids /\ m.seq \in Seqs
           /\ [node |-> m.to, requester |-> m.from, key |-> <<m.seq, m.target>>,
               stage |-> "waiting"] \in Proxy
           /\ pendingIndirect' = [pendingIndirect EXCEPT ![m.to][<<m.seq, m.target>>] = w]
           /\ proxies' = [proxies EXCEPT ![w] =
                [node |-> m.to, requester |-> m.from, key |-> <<m.seq, m.target>>,
                 stage |-> "waiting"]]
           /\ sent' = sent \cup {Ping(m.to, m.target, m.seq)}
           /\ UNCHANGED <<life, seqNum, period, answered, begun>>
<1>1. PICK m \in Received("IndirectPing") :
        /\ Free # {}
        /\ LET k == <<m.seq, m.target>>
               w == CHOOSE w \in Free : TRUE
           IN  /\ pendingIndirect' = [pendingIndirect EXCEPT ![m.to][k] = w]
               /\ proxies' = [proxies EXCEPT ![w] =
                    [node |-> m.to, requester |-> m.from, key |-> k, stage |-> "waiting"]]
               /\ sent' = sent \cup {Ping(m.to, m.target, m.seq)}
        /\ UNCHANGED <<life, seqNum, period, answered, begun>>
  BY DEF HandleIndirectPing
<1> DEFINE w == CHOOSE w \in Free : TRUE
<1>2. w \in Free
  BY <1>1
<1>3. m \in Message /\ m.type = "IndirectPing"
  BY DEF Received, TypeOK
<1>4. m.to \in Nodes /\ m.from \in Nodes /\ m.target \in Ids /\ m.seq \in Seqs
  BY <1>3, MessageFields
<1>5. [node |-> m.to, requester |-> m.from, key |-> <<m.seq, m.target>>,
       stage |-> "waiting"] \in Proxy
  BY <1>4 DEF Proxy, Keys
<1> QED BY <1>1, <1>2, <1>4, <1>5 DEF Keys

-----------------------------------------------------------------------------
(* Waiters and the proxies they belong to                                  *)

\* At the start nothing waits.
LEMMA TypeInit == Init => TypeOK /\ NoOrphans
<1> SUFFICES ASSUME Init PROVE TypeOK /\ NoOrphans
  OBVIOUS
<1>1. NoWaiters \in [Keys -> Proxies \cup {None}] /\ \A k \in Keys : NoWaiters[k] = None
  BY DEF NoWaiters
<1>2. period \in [Nodes -> Period]
  BY DEF Init, Rest, Period
<1>3. proxies \in [Proxies -> Proxy \cup {None}]
  BY DEF Init
<1>4. TypeOK
  BY <1>1, <1>2, <1>3 DEF Init, TypeOK
<1>5. NoOrphans
  BY <1>1 DEF Init, NoOrphans
<1> QED BY <1>4, <1>5

\* A proxy that only goes on to another stage keeps its waiter.
LEMMA StageStep ==
  ASSUME TypeOK, NoOrphans, NEW w \in Proxies, proxies[w] # None,
         NEW s \in {"waiting", "told", "ending"},
         proxies' = [proxies EXCEPT ![w].stage = s], UNCHANGED pendingIndirect
  PROVE  proxies' \in [Proxies -> Proxy \cup {None}] /\ NoOrphans'
<1>1. proxies' = [proxies EXCEPT ![w] = [proxies[w] EXCEPT !.stage = s]]
  OBVIOUS
<1>2. [proxies[w] EXCEPT !.stage = s] \in Proxy
  BY ProxyTyped
<1>3. proxies' \in [Proxies -> Proxy \cup {None}]
  BY <1>1, <1>2 DEF TypeOK
<1>4. /\ proxies'[w] # None
      /\ proxies'[w].node = proxies[w].node /\ proxies'[w].key = proxies[w].key
  <2>1. proxies'[w] = [proxies[w] EXCEPT !.stage = s]
    BY <1>1 DEF TypeOK
  <2>2. proxies[w] \in Proxy
    BY DEF TypeOK
  <2> QED BY <1>2, <2>1, <2>2 DEF Proxy
<1>5. \A x \in Proxies \ {w} : proxies'[x] = proxies[x]
  BY <1>1 DEF TypeOK
<1>6. \A n \in Nodes, k \in Keys : pendingIndirect[n][k] \in Proxies \cup {None}
  BY DEF TypeOK
<1>7. NoOrphans'
  BY <1>4, <1>5, <1>6 DEF NoOrphans
<1> QED BY <1>3, <1>7

\* A new request (handleIndirectPing): no waiter belongs to a proxy that was free.
LEMMA RequestStep ==
  ASSUME TypeOK, NoOrphans, HandleIndirectPing
  PROVE  TypeOK' /\ NoOrphans'
<1>1. PICK m \in Received("IndirectPing"), w \in Free :
        /\ m.to \in Nodes /\ <<m.seq, m.target>> \in Keys
        /\ m.target \in Ids /\ m.seq \in Seqs
        /\ [node |-> m.to, requester |-> m.from, key |-> <<m.seq, m.target>>,
            stage |-> "waiting"] \in Proxy
        /\ pendingIndirect' = [pendingIndirect EXCEPT ![m.to][<<m.seq, m.target>>] = w]
        /\ proxies' = [proxies EXCEPT ![w] =
             [node |-> m.to, requester |-> m.from, key |-> <<m.seq, m.target>>,
              stage |-> "waiting"]]
        /\ sent' = sent \cup {Ping(m.to, m.target, m.seq)}
        /\ UNCHANGED <<life, seqNum, period, answered, begun>>
  BY RequestEffect
<1> DEFINE k == <<m.seq, m.target>>
           p == [node |-> m.to, requester |-> m.from, key |-> k, stage |-> "waiting"]
<1>2. w \in Proxies /\ proxies[w] = None /\ p \in Proxy
  BY <1>1 DEF Free
<1>3. pendingIndirect' \in [Nodes -> [Keys -> Proxies \cup {None}]]
  BY <1>1, <1>2 DEF TypeOK
<1>4. proxies' \in [Proxies -> Proxy \cup {None}]
  BY <1>1, <1>2 DEF TypeOK
<1>5. sent' \subseteq Message
  BY <1>1, MadeMessages DEF TypeOK
<1>6. TypeOK'
  BY <1>1, <1>3, <1>4, <1>5 DEF TypeOK
<1>7. ASSUME NEW n \in Nodes, NEW j \in Keys, pendingIndirect'[n][j] # None
      PROVE  LET x == pendingIndirect'[n][j]
             IN  proxies'[x] # None /\ proxies'[x].node = n /\ proxies'[x].key = j
  <2>1. proxies'[w] = p
    BY <1>1, <1>2 DEF TypeOK
  <2>2. p # None /\ p.node = m.to /\ p.key = k
    BY <1>2
  <2>3. CASE n = m.to /\ j = k
    <3>1. pendingIndirect'[n][j] = w
      BY <1>1, <2>3 DEF TypeOK
    <3> QED BY <2>1, <2>2, <2>3, <3>1
  <2>4. CASE ~(n = m.to /\ j = k)
    <3>1. pendingIndirect'[n][j] = pendingIndirect[n][j]
      BY <1>1, <2>4 DEF TypeOK
    <3>2. pendingIndirect[n][j] \in Proxies /\ pendingIndirect[n][j] # None
      BY <1>7, <3>1 DEF TypeOK
    <3>3. proxies[pendingIndirect[n][j]] # None
      BY <3>2 DEF NoOrphans
    <3>4. proxies'[pendingIndirect[n][j]] = proxies[pendingIndirect[n][j]]
      BY <1>1, <1>2, <3>2, <3>3 DEF TypeOK
    <3> QED BY <3>1, <3>2, <3>4 DEF NoOrphans
  <2> QED BY <2>3, <2>4
<1>8. NoOrphans'
  BY <1>7 DEF NoOrphans
<1> QED BY <1>6, <1>8

\* The deferred function of a proxy: whoever's waiter it deletes, its own is gone.
LEMMA FinishStep ==
  ASSUME TypeOK, NoOrphans, NEW w \in Proxies, Finish(w)
  PROVE  TypeOK' /\ NoOrphans'
<1> DEFINE n == proxies[w].node
           k == proxies[w].key
<1>1. /\ proxies[w] # None /\ n \in Nodes /\ k \in Keys
      /\ pendingIndirect' = [pendingIndirect EXCEPT ![n][k] = None]
      /\ proxies' = [proxies EXCEPT ![w] = None]
      /\ UNCHANGED <<life, seqNum, period, sent, answered, begun>>
  BY ProxyTyped DEF Finish, At
<1>2. pendingIndirect' \in [Nodes -> [Keys -> Proxies \cup {None}]]
  BY <1>1 DEF TypeOK
<1>3. proxies' \in [Proxies -> Proxy \cup {None}]
  BY <1>1 DEF TypeOK
<1>4. TypeOK'
  BY <1>1, <1>2, <1>3 DEF TypeOK
<1>5. ASSUME NEW a \in Nodes, NEW j \in Keys, pendingIndirect'[a][j] # None
      PROVE  LET x == pendingIndirect'[a][j]
             IN  proxies'[x] # None /\ proxies'[x].node = a /\ proxies'[x].key = j
  <2>1. ~(a = n /\ j = k)
    BY <1>1, <1>5 DEF TypeOK
  <2>2. pendingIndirect'[a][j] = pendingIndirect[a][j]
    BY <1>1, <2>1 DEF TypeOK
  <2> DEFINE x == pendingIndirect[a][j]
  <2>3. x \in Proxies /\ proxies[x] # None /\ proxies[x].node = a /\ proxies[x].key = j
    BY <1>5, <2>2 DEF TypeOK, NoOrphans
  <2>4. x # w
    BY <2>1, <2>3
  <2>5. proxies'[x] = proxies[x]
    BY <1>1, <2>3, <2>4 DEF TypeOK
  <2> QED BY <2>2, <2>3, <2>5
<1>6. NoOrphans'
  BY <1>5 DEF NoOrphans
<1> QED BY <1>4, <1>6

\* The cleanup loop only deletes waiters.
LEMMA CleanupStep ==
  ASSUME TypeOK, NoOrphans, NEW n \in Nodes, CleanupOrphanedEntries(n)
  PROVE  TypeOK' /\ NoOrphans'
<1>1. PICK kept :
        /\ \E gone \in SUBSET Keys :
             kept = [k \in Keys |-> IF k \in gone THEN None ELSE pendingIndirect[n][k]]
        /\ pendingIndirect' = [pendingIndirect EXCEPT ![n] = kept]
        /\ UNCHANGED <<life, seqNum, period, proxies, sent, answered, begun>>
  <2> DEFINE entries == {k \in Keys : pendingIndirect[n][k] # None}
             cancelled == {k \in entries : LET w == pendingIndirect[n][k]
                                           IN  proxies[w] = None \/ At(w, {"ending"})}
             keptWithout(gone) == [k \in Keys |-> IF k \in gone THEN None ELSE pendingIndirect[n][k]]
  <2>1. PICK old \in SUBSET entries :
          /\ pendingIndirect' = [pendingIndirect EXCEPT ![n] = keptWithout(cancelled \cup old)]
          /\ UNCHANGED <<life, seqNum, period, proxies, sent, answered, begun>>
    BY DEF CleanupOrphanedEntries, TypeOK
  <2>2. cancelled \cup old \in SUBSET Keys
    OBVIOUS
  <2> QED BY <2>1, <2>2
<1>2. /\ kept \in [Keys -> Proxies \cup {None}]
      /\ \A k \in Keys : kept[k] \in {None, pendingIndirect[n][k]}
  BY <1>1 DEF TypeOK
<1>3. pendingIndirect' \in [Nodes -> [Keys -> Proxies \cup {None}]]
  BY <1>1, <1>2 DEF TypeOK
<1>4. TypeOK'
  BY <1>1, <1>3 DEF TypeOK
<1>5. \A a \in Nodes, k \in Keys : pendingIndirect'[a][k] \in {None, pendingIndirect[a][k]}
  BY <1>1, <1>2 DEF TypeOK
<1>6. NoOrphans'
  BY <1>1, <1>5 DEF NoOrphans
<1> QED BY <1>4, <1>6

\* A process takes its waiters and its proxies with it.
LEMMA RestartStep ==
  ASSUME TypeOK, NoOrphans, NEW n \in Nodes, Restart(n)
  PROVE  TypeOK' /\ NoOrphans'
<1>1. /\ life' = [life EXCEPT ![n] = @ + 1] /\ life[n] < MaxRestarts
      /\ period' = [period EXCEPT ![n] = Rest("idle")]
      /\ seqNum' = [seqNum EXCEPT ![n] = 0]
      /\ pendingIndirect' = [pendingIndirect EXCEPT ![n] = NoWaiters]
      /\ proxies' = [w \in Proxies |-> IF proxies[w] # None /\ proxies[w].node = n
                                       THEN None ELSE proxies[w]]
      /\ answered' = [answered EXCEPT ![n] = FALSE]
      /\ UNCHANGED <<sent, begun>>
  BY DEF Restart
<1>2. /\ NoWaiters \in [Keys -> Proxies \cup {None}]
      /\ \A k \in Keys : NoWaiters[k] = None
  BY DEF NoWaiters
<1>3. pendingIndirect' \in [Nodes -> [Keys -> Proxies \cup {None}]]
  BY <1>1, <1>2 DEF TypeOK
<1>4. proxies' \in [Proxies -> Proxy \cup {None}]
  BY <1>1 DEF TypeOK
<1>5. life' \in [Nodes -> 0..MaxRestarts] /\ seqNum' \in [Nodes -> 0..MaxSeq]
  BY <1>1 DEF TypeOK
<1>6. period' \in [Nodes -> Period] /\ answered' \in [Nodes -> BOOLEAN]
  BY <1>1 DEF TypeOK, Rest, Period
<1>7. TypeOK'
  BY <1>1, <1>3, <1>4, <1>5, <1>6 DEF TypeOK
<1>8. ASSUME NEW a \in Nodes, NEW k \in Keys, pendingIndirect'[a][k] # None
      PROVE  LET x == pendingIndirect'[a][k]
             IN  proxies'[x] # None /\ proxies'[x].node = a /\ proxies'[x].key = k
  <2>1. a # n
    BY <1>1, <1>2, <1>8 DEF TypeOK
  <2>2. pendingIndirect'[a][k] = pendingIndirect[a][k]
    BY <1>1, <2>1 DEF TypeOK
  <2> DEFINE x == pendingIndirect[a][k]
  <2>3. x \in Proxies /\ proxies[x] # None /\ proxies[x].node = a /\ proxies[x].key = k
    BY <1>8, <2>2 DEF TypeOK, NoOrphans
  <2>4. proxies'[x] = proxies[x]
    BY <1>1, <2>1, <2>3
  <2> QED BY <2>2, <2>3, <2>4
<1>9. NoOrphans'
  BY <1>8 DEF NoOrphans
<1> QED BY <1>7, <1>9

\* A period begins, ends, or goes on with helpers (performSWIMProtocolPeriod).
LEMMA PeriodStep ==
  ASSUME TypeOK, NEW n \in Pingers,
         (\E t \in Ids : BeginPeriod(n, t)) \/ TakeAck(n) \/ DirectTimeout(n) \/ IndirectTimeout(n)
  PROVE  TypeOK' /\ UNCHANGED <<pendingIndirect, proxies>>
<1>0. n \in Nodes
  OBVIOUS
<1>1. ASSUME NEW t \in Ids, BeginPeriod(n, t)
      PROVE  TypeOK'
  <2> DEFINE s == seqNum[n] + 1
             p == [stage |-> "direct", target |-> t, seq |-> s, acked |-> FALSE]
  <2>1. /\ seqNum' = [seqNum EXCEPT ![n] = s]
        /\ period' = [period EXCEPT ![n] = p]
        /\ sent' = sent \cup {Ping(n, t, s)}
        /\ begun' = begun \cup {<<Self(n), s, t>>}
        /\ answered' = [answered EXCEPT ![n] = FALSE]
        /\ UNCHANGED <<life, pendingIndirect, proxies>>
    BY <1>1 DEF BeginPeriod
  <2>2. s \in Seqs /\ s \in 0..MaxSeq
    BY <1>0, <1>1 DEF BeginPeriod, TypeOK, Seqs
  <2>3. p \in Period
    BY <2>2 DEF Period
  <2>4. seqNum' \in [Nodes -> 0..MaxSeq]
    BY <1>0, <2>1, <2>2 DEF TypeOK
  <2>5. period' \in [Nodes -> Period]
    BY <1>0, <2>1, <2>3 DEF TypeOK
  <2>6. sent' \subseteq Message
    BY <1>0, <2>1, <2>2, MadeMessages DEF TypeOK
  <2>7. begun' \subseteq (Ids \X Seqs \X Ids)
    BY <1>0, <2>1, <2>2, SelfTyped DEF TypeOK
  <2>8. answered' \in [Nodes -> BOOLEAN]
    BY <2>1 DEF TypeOK
  <2> QED BY <2>1, <2>4, <2>5, <2>6, <2>7, <2>8 DEF TypeOK
<1>2. ASSUME NEW verdict \in {"acked", "silent"}, EndPeriod(n, verdict)
      PROVE  TypeOK'
  <2>1. Rest(verdict) \in Period
    BY DEF Rest, Period
  <2>2. period' \in [Nodes -> Period] /\ answered' \in [Nodes -> BOOLEAN]
    BY <1>2, <2>1 DEF EndPeriod, TypeOK
  <2> QED BY <1>2, <2>2 DEF EndPeriod, TypeOK
<1>3. ASSUME NEW H \in Helpers(n), period[n].stage = "direct",
             period' = [period EXCEPT ![n].stage = "indirect"],
             sent' = sent \cup {IndirectPing(n, h, period[n].target, period[n].seq) : h \in H},
             UNCHANGED <<life, seqNum, pendingIndirect, proxies, answered, begun>>
      PROVE  TypeOK'
  <2>1. Running(n)
    BY <1>3 DEF Running
  <2>2. H \subseteq Nodes
    BY DEF Helpers
  <2>3. sent' \subseteq Message
    <3>1. \A h \in H : IndirectPing(n, h, period[n].target, period[n].seq) \in Message
      BY <1>0, <2>1, <2>2, RunningTyped, MadeMessages
    <3> QED BY <1>3, <3>1 DEF TypeOK
  <2>4. period' = [period EXCEPT ![n] = [period[n] EXCEPT !.stage = "indirect"]]
    BY <1>3
  <2>5. period' \in [Nodes -> Period]
    BY <1>0, <2>1, <2>4, RunningTyped DEF TypeOK
  <2> QED BY <1>3, <2>3, <2>5 DEF TypeOK
<1>4. TypeOK'
  <2>1. CASE TakeAck(n) \/ IndirectTimeout(n)
    BY <1>2, <2>1 DEF TakeAck, IndirectTimeout
  <2>2. CASE DirectTimeout(n)
    BY <1>2, <1>3, <2>2 DEF DirectTimeout
  <2> QED BY <1>1, <2>1, <2>2
<1>5. UNCHANGED <<pendingIndirect, proxies>>
  BY DEF BeginPeriod, TakeAck, DirectTimeout, IndirectTimeout, EndPeriod
<1> QED BY <1>4, <1>5

\* A waiter stays what it is while waiters and proxies do.
LEMMA OrphansStutter ==
  ASSUME NoOrphans, UNCHANGED <<pendingIndirect, proxies>>
  PROVE  NoOrphans'
BY DEF NoOrphans

\* Every step keeps the types and the waiters' proxies.
LEMMA TypeStep == TypeOK /\ NoOrphans /\ [Next]_vars => TypeOK' /\ NoOrphans'
<1> SUFFICES ASSUME TypeOK, NoOrphans, [Next]_vars PROVE TypeOK' /\ NoOrphans'
  OBVIOUS
<1>1. ASSUME NEW n \in Pingers,
             (\E t \in Ids : BeginPeriod(n, t)) \/ TakeAck(n) \/ DirectTimeout(n) \/ IndirectTimeout(n)
      PROVE  TypeOK' /\ NoOrphans'
  BY <1>1, PeriodStep, OrphansStutter
<1>2. CASE HandlePing
  <2>1. PICK m \in Received("Ping") :
          /\ sent' = sent \cup {Ack(Self(m.to), m.from, m.seq)}
          /\ answered' = [n \in Nodes |-> \/ answered[n]
                                          \/ Running(n) /\ period[n].target = Self(m.to)]
          /\ UNCHANGED <<life, seqNum, period, pendingIndirect, proxies, begun>>
    BY <1>2 DEF HandlePing
  <2>2. m \in Message /\ m.type = "Ping"
    BY DEF Received, TypeOK
  <2>3. Ack(Self(m.to), m.from, m.seq) \in Message
    BY <2>2, MessageFields, MadeMessages, SelfTyped
  <2>4. answered' \in [Nodes -> BOOLEAN]
    BY <2>1, Zenon DEF TypeOK
  <2>5. TypeOK'
    BY <2>1, <2>3, <2>4 DEF TypeOK
  <2> QED BY <2>1, <2>5, OrphansStutter
<1>3. CASE HandleAck
  <2>1. PICK m \in Received("Ack") :
          /\ m \in Message /\ m.type = "Ack"
          /\ Signal(m.to, m.from, m.seq)
          /\ \/ proxies' = proxies
             \/ \E w \in Proxies :
                  /\ proxies[w] # None /\ proxies[w].key = <<m.seq, m.from>>
                  /\ proxies' = [proxies EXCEPT ![w].stage = "told"]
          /\ UNCHANGED <<life, seqNum, pendingIndirect, sent, answered, begun>>
    BY <1>3, AckEffect
  <2>2. period' \in [Nodes -> Period]
    BY <2>1, MessageFields, SignalTyped
  <2>3. proxies' \in [Proxies -> Proxy \cup {None}] /\ NoOrphans'
    <3>1. CASE proxies' = proxies
      BY <2>1, <3>1, OrphansStutter DEF TypeOK
    <3>2. ASSUME NEW w \in Proxies, proxies[w] # None,
                 proxies' = [proxies EXCEPT ![w].stage = "told"]
          PROVE  proxies' \in [Proxies -> Proxy \cup {None}] /\ NoOrphans'
      BY <2>1, <3>2, StageStep
    <3> QED BY <2>1, <3>1, <3>2
  <2> QED BY <2>1, <2>2, <2>3 DEF TypeOK
<1>4. CASE HandleIndirectAck
  <2>1. PICK m \in Received("IndirectAck") :
          /\ Signal(m.to, m.target, m.seq)
          /\ UNCHANGED <<life, seqNum, pendingIndirect, proxies, sent, answered, begun>>
    BY <1>4 DEF HandleIndirectAck
  <2>2. m \in Message
    BY DEF Received, TypeOK
  <2>3. period' \in [Nodes -> Period]
    BY <2>1, <2>2, MessageFields, SignalTyped
  <2>4. TypeOK'
    BY <2>1, <2>3 DEF TypeOK
  <2> QED BY <2>1, <2>4, OrphansStutter
<1>5. ASSUME NEW w \in Proxies, Relay(w)
      PROVE  TypeOK' /\ NoOrphans'
  <2>1. /\ proxies[w] # None
        /\ sent' = sent \cup {IndirectAck(proxies[w].requester, proxies[w].key[2], proxies[w].key[1])}
        /\ proxies' = [proxies EXCEPT ![w].stage = "ending"]
        /\ UNCHANGED <<life, seqNum, period, pendingIndirect, answered, begun>>
    BY <1>5 DEF Relay, At
  <2>2. proxies' \in [Proxies -> Proxy \cup {None}] /\ NoOrphans'
    BY <2>1, StageStep
  <2>3. sent' \subseteq Message
    <3>1. IndirectAck(proxies[w].requester, proxies[w].key[2], proxies[w].key[1]) \in Message
      BY <2>1, ProxyTyped, MadeMessages
    <3> QED BY <2>1, <3>1 DEF TypeOK
  <2> QED BY <2>1, <2>2, <2>3 DEF TypeOK
<1>6. ASSUME NEW w \in Proxies, Expire(w)
      PROVE  TypeOK' /\ NoOrphans'
  <2>1. /\ proxies[w] # None
        /\ proxies' = [proxies EXCEPT ![w].stage = "ending"]
        /\ UNCHANGED <<life, seqNum, period, pendingIndirect, sent, answered, begun>>
    BY <1>6 DEF Expire, At
  <2>2. proxies' \in [Proxies -> Proxy \cup {None}] /\ NoOrphans'
    BY <2>1, StageStep
  <2> QED BY <2>1, <2>2 DEF TypeOK
<1>7. CASE UNCHANGED vars
  <2>1. TypeOK'
    BY <1>7 DEF vars, TypeOK
  <2> QED BY <1>7, <2>1, OrphansStutter DEF vars
<1> QED BY <1>1, <1>2, <1>3, <1>4, <1>5, <1>6, <1>7, RequestStep, FinishStep, CleanupStep, RestartStep
        DEF Next

\* The state of the protocol is well typed (pendingAcks, pendingIndirect, the proxies
\* and the messages of pingack.go), and no waiter in pendingIndirect outlives its
\* goroutine, although handleIndirectPing overwrites waiters, proxies delete each
\* other's, and processes end at any point (pingack.go:597, 623, 398).
THEOREM NoWaiterOutlivesItsProxy == Spec => [](TypeOK /\ NoOrphans)
BY TypeInit, TypeStep, PTL DEF Spec

\* The type invariant; that a proxy answers under the key of its waiter needs it with
\* the theorem before.
THEOREM ProbeTypeOK == Spec => []TypeOK
BY NoWaiterOutlivesItsProxy, PTL

-----------------------------------------------------------------------------
(* Whoever is told, relays or is settled: the target has answered          *)

\* Messages stay: what has been answered has been answered for ever.
LEMMA AnswersStay ==
  ASSUME sent \subseteq sent', NEW i, NEW s, HasAnswered(i, s)
  PROVE  HasAnswered(i, s)'
BY DEF HasAnswered

\* No step takes a message back.
LEMMA SentGrows == [Next]_vars => sent \subseteq sent'
BY DEF Next, vars, BeginPeriod, EndPeriod, TakeAck, DirectTimeout, IndirectTimeout,
       HandlePing, HandleAck, HandleIndirectAck, HandleIndirectPing, Relay, Expire, Finish,
       CleanupOrphanedEntries, Restart

\* A step after which no proxy is told that was not.
LEMMA ToldKept ==
  ASSUME ToldInv, sent \subseteq sent',
         \A w \in Proxies : \/ proxies'[w] = proxies[w]
                            \/ proxies'[w] = None
                            \/ proxies'[w].stage # "told"
  PROVE  ToldInv'
BY AnswersStay DEF ToldInv, At

\* A step that sends no IndirectAck.
LEMMA RelayedKept ==
  ASSUME RelayedInv, sent \subseteq sent',
         \A m \in sent' : m.type = "IndirectAck" => m \in sent
  PROVE  RelayedInv'
BY AnswersStay DEF RelayedInv

\* A step after which no period is settled that was not.
LEMMA SettledKept ==
  ASSUME SettledInv, sent \subseteq sent',
         \A n \in Nodes : Running(n)' /\ period'[n].acked =>
                            /\ Running(n) /\ period[n].acked
                            /\ period'[n].target = period[n].target
                            /\ period'[n].seq = period[n].seq
  PROVE  SettledInv'
BY AnswersStay DEF SettledInv

\* An ack or a relayed ack settles the period with its number and target only
\* (handleAck, handleIndirectAck).
LEMMA SignalSettles ==
  ASSUME TypeOK, SettledInv, sent \subseteq sent',
         NEW n \in Nodes, NEW t, NEW s, HasAnswered(t, s), Signal(n, t, s)
  PROVE  SettledInv'
<1>1. CASE ~Matches(n, t, s)
  <2>1. period' = period
    BY <1>1 DEF Signal
  <2> QED BY <2>1, SettledKept DEF Running
<1>2. CASE Matches(n, t, s)
  <2>1. period' = [period EXCEPT ![n].acked = TRUE]
    BY <1>2 DEF Signal
  <2>2. \A x \in Nodes \ {n} : period'[x] = period[x]
    BY <2>1 DEF TypeOK
  <2>3. period[n].target = t /\ period[n].seq = s /\ Running(n)
    BY <1>2 DEF Matches
  <2>4. period'[n].target = t /\ period'[n].seq = s
    <3>1. period[n] \in [stage : {"direct", "indirect"}, target : Ids, seq : Seqs, acked : BOOLEAN]
      BY <2>3 DEF TypeOK, Period, Running
    <3>2. period'[n] = [period[n] EXCEPT !.acked = TRUE]
      BY <2>1 DEF TypeOK
    <3> QED BY <2>3, <3>1, <3>2
  <2>5. HasAnswered(t, s)'
    BY AnswersStay
  <2>6. ASSUME NEW x \in Nodes, (Running(x) /\ period[x].acked)'
        PROVE  HasAnswered(period[x].target, period[x].seq)'
    <3>1. CASE x = n
      BY <2>4, <2>5, <3>1
    <3>2. CASE x # n
      <4>1. period'[x] = period[x]
        BY <2>2, <3>2
      <4>2. HasAnswered(period[x].target, period[x].seq)
        BY <2>6, <4>1 DEF SettledInv, Running
      <4> QED BY <4>1, <4>2, AnswersStay
    <3> QED BY <3>1, <3>2
  <2> QED BY <2>6 DEF SettledInv
<1> QED BY <1>1, <1>2

\* Nor has anything been answered.
LEMMA AnswerInit == Init => AnswerInv
BY DEF Init, AnswerInv, ToldInv, RelayedInv, SettledInv, At, Running, Rest

\* Every step keeps the way back from a settled period to the target's answer.
LEMMA AnswerStep == TypeOK /\ NoOrphans /\ AnswerInv /\ [Next]_vars => AnswerInv'
<1> SUFFICES ASSUME TypeOK, NoOrphans, AnswerInv, [Next]_vars PROVE AnswerInv'
  OBVIOUS
<1>0. sent \subseteq sent'
  BY SentGrows
<1> USE <1>0 DEF AnswerInv
<1>1. ASSUME NEW n \in Pingers, NEW t \in Ids, BeginPeriod(n, t)
      PROVE  AnswerInv'
  <2>1. ToldInv'
    BY <1>1, ToldKept DEF BeginPeriod
  <2>2. RelayedInv'
    BY <1>1, RelayedKept DEF BeginPeriod, Ping
  <2>3. SettledInv'
    <3>1. ~period'[n].acked /\ \A x \in Nodes \ {n} : period'[x] = period[x]
      BY <1>1 DEF BeginPeriod, TypeOK
    <3> QED BY <3>1, SettledKept DEF Running
  <2> QED BY <2>1, <2>2, <2>3
<1>2. ASSUME NEW n \in Nodes, NEW verdict \in {"acked", "silent"}, EndPeriod(n, verdict)
      PROVE  AnswerInv'
  <2>1. ToldInv' /\ RelayedInv'
    BY <1>2, ToldKept, RelayedKept DEF EndPeriod
  <2>2. ~period'[n].acked /\ \A x \in Nodes \ {n} : period'[x] = period[x]
    BY <1>2 DEF EndPeriod, Rest, TypeOK
  <2> QED BY <2>1, <2>2, SettledKept DEF Running
<1>3. ASSUME NEW n \in Pingers, TakeAck(n) \/ DirectTimeout(n) \/ IndirectTimeout(n)
      PROVE  AnswerInv'
  <2>1. ASSUME NEW H \in Helpers(n), period[n].stage = "direct",
               period' = [period EXCEPT ![n].stage = "indirect"],
               sent' = sent \cup {IndirectPing(n, h, period[n].target, period[n].seq) : h \in H},
               UNCHANGED <<life, seqNum, pendingIndirect, proxies, answered, begun>>
        PROVE  AnswerInv'
    <3>1. ToldInv' /\ RelayedInv'
      BY <2>1, ToldKept, RelayedKept DEF IndirectPing
    <3>2. Running(n)
      BY <2>1 DEF Running
    <3>3. period[n] \in [stage : {"direct", "indirect"}, target : Ids, seq : Seqs, acked : BOOLEAN]
      BY <3>2 DEF TypeOK, Period, Running
    <3>4. period'[n] = [period[n] EXCEPT !.stage = "indirect"]
          /\ \A x \in Nodes \ {n} : period'[x] = period[x]
      BY <2>1 DEF TypeOK
    <3>5. /\ period'[n].acked = period[n].acked
          /\ period'[n].target = period[n].target /\ period'[n].seq = period[n].seq
      BY <3>3, <3>4
    <3> QED BY <3>1, <3>2, <3>4, <3>5, SettledKept DEF Running
  <2> QED BY <1>2, <1>3, <2>1 DEF TakeAck, DirectTimeout, IndirectTimeout
<1>4. CASE HandlePing
  <2>1. /\ \E m \in Received("Ping") : sent' = sent \cup {Ack(Self(m.to), m.from, m.seq)}
        /\ UNCHANGED <<period, proxies>>
    BY <1>4 DEF HandlePing
  <2>2. ToldInv' /\ RelayedInv'
    BY <2>1, ToldKept, RelayedKept DEF Ack
  <2> QED BY <2>1, <2>2, SettledKept DEF Running
<1>5. CASE HandleAck
  <2>1. PICK m \in Received("Ack") :
          /\ m \in Message /\ m.type = "Ack"
          /\ Signal(m.to, m.from, m.seq)
          /\ \/ proxies' = proxies
             \/ \E w \in Proxies :
                  /\ proxies[w] # None /\ proxies[w].key = <<m.seq, m.from>>
                  /\ proxies' = [proxies EXCEPT ![w].stage = "told"]
          /\ UNCHANGED <<life, seqNum, pendingIndirect, sent, answered, begun>>
    BY <1>5, AckEffect
  <2>2. HasAnswered(m.from, m.seq)
    BY <2>1 DEF HasAnswered, Received
  <2>3. SettledInv'
    BY <2>1, <2>2, MessageFields, SignalSettles
  <2>4. RelayedInv'
    BY <2>1, RelayedKept
  <2>5. ToldInv'
    <3>1. CASE proxies' = proxies
      BY <3>1, ToldKept
    <3>2. ASSUME NEW w \in Proxies, proxies[w] # None, proxies[w].key = <<m.seq, m.from>>,
                 proxies' = [proxies EXCEPT ![w].stage = "told"]
          PROVE  ToldInv'
      <4>1. proxies'[w].key = <<m.seq, m.from>>
        <5>1. proxies[w] \in Proxy /\ proxies'[w] = [proxies[w] EXCEPT !.stage = "told"]
          BY <3>2 DEF TypeOK
        <5> QED BY <3>2, <5>1 DEF Proxy
      <4>2. \A x \in Proxies \ {w} : proxies'[x] = proxies[x]
        BY <3>2 DEF TypeOK
      <4>3. HasAnswered(proxies[w].key[2], proxies[w].key[1])'
        BY <2>2, <4>1, AnswersStay
      <4>4. ASSUME NEW x \in Proxies \ {w}, At(x, {"told"})'
            PROVE  HasAnswered(proxies[x].key[2], proxies[x].key[1])'
        <5>1. proxies'[x] = proxies[x]
          BY <4>2
        <5>2. HasAnswered(proxies[x].key[2], proxies[x].key[1])
          BY <4>4, <5>1 DEF ToldInv, At
        <5> QED BY <5>1, <5>2, AnswersStay
      <4> QED BY <4>3, <4>4 DEF ToldInv
    <3> QED BY <2>1, <3>1, <3>2
  <2> QED BY <2>3, <2>4, <2>5
<1>6. CASE HandleIndirectAck
  <2>1. PICK m \in Received("IndirectAck") :
          /\ Signal(m.to, m.target, m.seq)
          /\ UNCHANGED <<life, seqNum, pendingIndirect, proxies, sent, answered, begun>>
    BY <1>6 DEF HandleIndirectAck
  <2>2. m \in Message /\ m \in sent /\ m.type = "IndirectAck"
    BY DEF Received, TypeOK
  <2>3. HasAnswered(m.target, m.seq)
    BY <2>2 DEF RelayedInv
  <2>4. SettledInv'
    BY <2>1, <2>2, <2>3, MessageFields, SignalSettles
  <2> QED BY <2>1, <2>4, ToldKept, RelayedKept
<1>7. CASE HandleIndirectPing
  <2>1. PICK m \in Received("IndirectPing"), w \in Free :
          /\ proxies' = [proxies EXCEPT ![w] =
               [node |-> m.to, requester |-> m.from, key |-> <<m.seq, m.target>>,
                stage |-> "waiting"]]
          /\ sent' = sent \cup {Ping(m.to, m.target, m.seq)}
          /\ period' = period
    BY <1>7, RequestEffect
  <2>2. proxies'[w].stage = "waiting" /\ \A x \in Proxies \ {w} : proxies'[x] = proxies[x]
    BY <2>1 DEF TypeOK, Free
  <2>3. ToldInv'
    BY <2>2, ToldKept
  <2>4. RelayedInv'
    BY <2>1, RelayedKept DEF Ping
  <2> QED BY <2>1, <2>3, <2>4, SettledKept DEF Running
<1>8. ASSUME NEW w \in Proxies, Relay(w)
      PROVE  AnswerInv'
  <2> DEFINE p == proxies[w]
             a == IndirectAck(p.requester, p.key[2], p.key[1])
  <2>1. /\ At(w, {"told"}) /\ p # None
        /\ sent' = sent \cup {a}
        /\ proxies' = [proxies EXCEPT ![w].stage = "ending"]
        /\ period' = period
    BY <1>8 DEF Relay, At
  <2>2. HasAnswered(a.target, a.seq)
    BY <2>1 DEF ToldInv, IndirectAck
  <2>4. RelayedInv'
    <3>1. ASSUME NEW m \in sent', m.type = "IndirectAck"
          PROVE  HasAnswered(m.target, m.seq)'
      <4>1. HasAnswered(m.target, m.seq)
        BY <2>1, <2>2, <3>1 DEF RelayedInv
      <4> QED BY <4>1, AnswersStay
    <3> QED BY <3>1 DEF RelayedInv
  <2>5. ToldInv'
    <3>1. p \in Proxy /\ proxies'[w] = [p EXCEPT !.stage = "ending"]
      BY <2>1 DEF TypeOK
    <3>2. proxies'[w].stage = "ending" /\ \A x \in Proxies \ {w} : proxies'[x] = proxies[x]
      BY <2>1, <3>1 DEF TypeOK, Proxy
    <3> QED BY <3>2, ToldKept
  <2> QED BY <2>1, <2>4, <2>5, SettledKept DEF Running
<1>9. ASSUME NEW w \in Proxies, Expire(w) \/ Finish(w)
      PROVE  AnswerInv'
  <2>1. /\ proxies[w] # None /\ UNCHANGED <<sent, period>>
        /\ \/ proxies' = [proxies EXCEPT ![w].stage = "ending"]
           \/ proxies' = [proxies EXCEPT ![w] = None]
    BY <1>9 DEF Expire, Finish, At
  <2>2. proxies[w] \in Proxy /\ \A x \in Proxies \ {w} : proxies'[x] = proxies[x]
    BY <2>1 DEF TypeOK
  <2>3. proxies'[w] = None \/ proxies'[w].stage = "ending"
    BY <2>1, <2>2 DEF TypeOK, Proxy
  <2>4. ToldInv'
    BY <2>2, <2>3, ToldKept
  <2> QED BY <2>1, <2>4, RelayedKept, SettledKept DEF Running
<1>10. ASSUME NEW n \in Nodes, Restart(n)
       PROVE  AnswerInv'
  <2>1. ~period'[n].acked /\ \A x \in Nodes \ {n} : period'[x] = period[x]
    BY <1>10 DEF Restart, Rest, TypeOK
  <2>2. \A w \in Proxies : proxies'[w] \in {None, proxies[w]}
    BY <1>10 DEF Restart
  <2>3. ToldInv'
    BY <2>2, ToldKept
  <2>4. RelayedInv'
    BY <1>10, RelayedKept DEF Restart
  <2> QED BY <2>1, <2>3, <2>4, SettledKept DEF Running
<1>11. ASSUME (\E n \in Nodes : CleanupOrphanedEntries(n)) \/ UNCHANGED vars
       PROVE  AnswerInv'
  <2>1. UNCHANGED <<sent, period, proxies>>
    BY <1>11 DEF CleanupOrphanedEntries, vars
  <2> QED BY <2>1, ToldKept, RelayedKept, SettledKept DEF Running
<1> QED BY <1>1, <1>3, <1>4, <1>5, <1>6, <1>7, <1>8, <1>9, <1>10, <1>11 DEF Next

\* A settled period has been answered.
LEMMA ProbeInvariant == Spec => [](TypeOK /\ NoOrphans /\ AnswerInv)
BY AnswerInit, AnswerStep, NoWaiterOutlivesItsProxy, PTL DEF Spec

-----------------------------------------------------------------------------
(* Refinement of ProbeOutcomes                                             *)

\* What the mapping makes of periods and messages.
Periods == [n \in Nodes |-> [stage  |-> IF Running(n) THEN "running" ELSE period[n].stage,
                             target |-> period[n].target,
                             seq    |-> period[n].seq]]
Answers == {<<m.from, m.seq>> : m \in {x \in sent : x.type = "Ack"}}

\* The answers are those somebody has given.
LEMMA AnswersAre ==
  ASSUME NEW i, NEW s
  PROVE  HasAnswered(i, s) <=> <<i, s>> \in Answers
BY DEF HasAnswered, Answers

\* Answers are given by processes, and never taken back.
LEMMA AnswersGrow ==
  ASSUME TypeOK, TypeOK', sent \subseteq sent'
  PROVE  Answers \subseteq Answers' /\ Answers' \subseteq Ids \X Seqs
<1>1. Answers \subseteq Answers'
  BY DEF Answers
<1>2. \A m \in sent' : m.type = "Ack" => m.from \in Ids /\ m.seq \in Seqs
  BY MessageFields DEF TypeOK
<1>3. Answers' \subseteq Ids \X Seqs
  BY <1>2 DEF Answers
<1> QED BY <1>1, <1>3

\* A step that begins and ends no period gives answers or does nothing.
LEMMA AnswerMaps ==
  ASSUME TypeOK, TypeOK', sent \subseteq sent', Periods' = Periods
  PROVE  Outcomes!Answer
BY AnswersGrow DEF Outcomes!Answer, Periods, Answers

\* Nor do such a step's changes within a period show.
LEMMA SamePeriods ==
  ASSUME \A n \in Nodes : /\ Running(n)' <=> Running(n)
                          /\ Running(n) \/ period'[n].stage = period[n].stage
                          /\ period'[n].target = period[n].target
                          /\ period'[n].seq = period[n].seq
  PROVE  Periods' = Periods
BY DEF Periods

\* A step that sends no Ack gives no answer.
LEMMA SameAnswers ==
  ASSUME sent \subseteq sent', \A m \in sent' : m.type = "Ack" => m \in sent
  PROVE  Answers' = Answers
BY DEF Answers

\* The period of n, as the mapping shows it, is replaced.
LEMMA PeriodReplaced ==
  ASSUME TypeOK, NEW n \in Nodes, NEW p \in Period, period' = [period EXCEPT ![n] = p]
  PROVE  Periods' = [Periods EXCEPT ![n] =
                       [stage  |-> IF p.stage \in {"direct", "indirect"} THEN "running" ELSE p.stage,
                        target |-> p.target, seq |-> p.seq]]
<1>1. period'[n] = p /\ \A x \in Nodes \ {n} : period'[x] = period[x]
  BY DEF TypeOK
<1> QED BY <1>1 DEF Periods, Running

\* Settling a period does not show (handleAck, handleIndirectAck).
LEMMA SignalHidden ==
  ASSUME TypeOK, NEW n \in Nodes, NEW t, NEW s, Signal(n, t, s)
  PROVE  Periods' = Periods
<1>1. CASE ~Matches(n, t, s)
  <2>1. period' = period
    BY <1>1 DEF Signal
  <2> QED BY <2>1 DEF Periods, Running
<1>2. CASE Matches(n, t, s)
  <2>1. Running(n) /\ period' = [period EXCEPT ![n].acked = TRUE]
    BY <1>2 DEF Signal, Matches
  <2>2. period[n] \in [stage : {"direct", "indirect"}, target : Ids, seq : Seqs, acked : BOOLEAN]
    BY <2>1 DEF TypeOK, Period, Running
  <2>3. /\ period'[n] = [period[n] EXCEPT !.acked = TRUE]
        /\ \A x \in Nodes \ {n} : period'[x] = period[x]
    BY <2>1 DEF TypeOK
  <2>4. /\ period'[n].stage = period[n].stage
        /\ period'[n].target = period[n].target /\ period'[n].seq = period[n].seq
    BY <2>2, <2>3
  <2> QED BY <2>3, <2>4, SamePeriods DEF Running
<1> QED BY <1>1, <1>2

\* The initial states map to the initial state of ProbeOutcomes.
LEMMA OutcomesInit == Init => Outcomes!Init
BY DEF Init, Outcomes!Init, Outcomes!Rest, Rest, Running

\* A period begins, ends, or goes on with helpers, as ProbeOutcomes has it
\* (performSWIMProtocolPeriod).
LEMMA PeriodMaps ==
  ASSUME TypeOK, AnswerInv, TypeOK', sent \subseteq sent', NEW n \in Pingers,
         (\E t \in Ids : BeginPeriod(n, t)) \/ TakeAck(n) \/ DirectTimeout(n) \/ IndirectTimeout(n)
  PROVE  Outcomes!Next
<1>0. n \in Nodes
  OBVIOUS
<1>1. ASSUME NEW t \in Ids, BeginPeriod(n, t)
      PROVE  Outcomes!Begin(n)
  <2> DEFINE s == seqNum[n] + 1
             p == [stage |-> "direct", target |-> t, seq |-> s, acked |-> FALSE]
  <2>1. /\ ~Running(n)
        /\ period' = [period EXCEPT ![n] = p]
        /\ sent' = sent \cup {Ping(n, t, s)}
    BY <1>1 DEF BeginPeriod
  <2>2. s \in Seqs /\ p \in Period
    BY <1>0, <1>1 DEF BeginPeriod, TypeOK, Seqs, Period
  <2>3. Periods' = [Periods EXCEPT ![n] = [stage |-> "running", target |-> t, seq |-> s]]
    BY <1>0, <2>1, <2>2, PeriodReplaced
  <2>4. Answers' = Answers
    BY <2>1, SameAnswers DEF Ping
  <2>5. Periods[n].stage # "running" /\ Periods'[n].stage = "running"
    <3>1. Periods[n].stage = period[n].stage /\ period[n].stage # "running"
      BY <1>0, <2>1 DEF Periods, TypeOK, Period
    <3>2. Periods'[n] = [stage |-> "running", target |-> t, seq |-> s]
      BY <1>0, <2>3 DEF Periods
    <3> QED BY <3>1, <3>2
  <2> QED BY <2>2, <2>3, <2>4, <2>5 DEF Outcomes!Begin, Outcomes!Running, Periods, Answers
<1>2. ASSUME NEW verdict \in {"acked", "silent"}, EndPeriod(n, verdict)
      PROVE  /\ Periods' = [Periods EXCEPT ![n] = Outcomes!Rest(verdict)]
             /\ Answers' = Answers
  <2>1. period' = [period EXCEPT ![n] = Rest(verdict)] /\ sent' = sent
    BY <1>2 DEF EndPeriod
  <2>2. Rest(verdict) \in Period
    BY DEF Rest, Period
  <2>3. Periods' = [Periods EXCEPT ![n] =
                      [stage  |-> IF Rest(verdict).stage \in {"direct", "indirect"}
                                  THEN "running" ELSE Rest(verdict).stage,
                       target |-> Rest(verdict).target, seq |-> Rest(verdict).seq]]
    BY <1>0, <2>1, <2>2, PeriodReplaced
  <2> QED BY <2>1, <2>3 DEF Rest, Outcomes!Rest, Answers
<1>3. ASSUME Running(n)
      PROVE  Outcomes!Running(n)
  BY <1>0, <1>3 DEF Outcomes!Running, Running
<1>4. CASE TakeAck(n)
  <2>1. Running(n) /\ period[n].acked /\ EndPeriod(n, "acked")
    BY <1>4 DEF TakeAck
  <2>2. <<period[n].target, period[n].seq>> \in Answers
    BY <1>0, <2>1, AnswersAre DEF AnswerInv, SettledInv
  <2>3. Outcomes!EndAcked(n)
    BY <1>0, <1>2, <1>3, <2>1, <2>2 DEF Outcomes!EndAcked, Periods, Answers
  <2> QED BY <1>0, <2>3 DEF Outcomes!Next
<1>5. ASSUME Running(n), EndPeriod(n, "silent")
      PROVE  Outcomes!Next
  <2>1. Outcomes!EndSilent(n)
    BY <1>2, <1>3, <1>5 DEF Outcomes!EndSilent, Periods, Answers
  <2> QED BY <1>0, <2>1 DEF Outcomes!Next
<1>6. ASSUME period[n].stage = "direct", period' = [period EXCEPT ![n].stage = "indirect"]
      PROVE  Outcomes!Next
  <2>1. Running(n)
    BY <1>6 DEF Running
  <2>2. period[n] \in [stage : {"direct", "indirect"}, target : Ids, seq : Seqs, acked : BOOLEAN]
    BY <1>0, <2>1 DEF TypeOK, Period, Running
  <2>3. /\ period'[n] = [period[n] EXCEPT !.stage = "indirect"]
        /\ \A x \in Nodes \ {n} : period'[x] = period[x]
    BY <1>0, <1>6 DEF TypeOK
  <2>4. /\ period'[n].stage = "indirect"
        /\ period'[n].target = period[n].target /\ period'[n].seq = period[n].seq
    BY <2>2, <2>3
  <2>5. Periods' = Periods
    BY <2>1, <2>3, <2>4, SamePeriods DEF Running
  <2> QED BY <2>5, AnswerMaps DEF Outcomes!Next
<1>7. CASE DirectTimeout(n) \/ IndirectTimeout(n)
  BY <1>5, <1>6, <1>7 DEF DirectTimeout, IndirectTimeout, Running
<1> QED BY <1>0, <1>1, <1>4, <1>7 DEF Outcomes!Next

\* Every step of the protocol is one of ProbeOutcomes, or none.
LEMMA OutcomesStep ==
  ASSUME TypeOK, NoOrphans, AnswerInv, [Next]_vars
  PROVE  [Outcomes!Next]_(Outcomes!vars)
<1>1. TypeOK' /\ sent \subseteq sent'
  BY TypeStep, SentGrows
<1>2. ASSUME NEW n \in Pingers,
             (\E t \in Ids : BeginPeriod(n, t)) \/ TakeAck(n) \/ DirectTimeout(n) \/ IndirectTimeout(n)
      PROVE  Outcomes!Next
  BY <1>1, <1>2, PeriodMaps
<1>3. ASSUME period' = period
      PROVE  Outcomes!Next
  <2>1. Periods' = Periods
    BY <1>3 DEF Periods, Running
  <2> QED BY <1>1, <2>1, AnswerMaps DEF Outcomes!Next
<1>4. CASE HandleAck
  <2>1. PICK m \in Received("Ack") : m \in Message /\ Signal(m.to, m.from, m.seq)
    BY <1>4, AckEffect
  <2>2. Periods' = Periods
    BY <2>1, MessageFields, SignalHidden
  <2> QED BY <1>1, <2>2, AnswerMaps DEF Outcomes!Next
<1>5. CASE HandleIndirectAck
  <2>1. PICK m \in Received("IndirectAck") : Signal(m.to, m.target, m.seq)
    BY <1>5 DEF HandleIndirectAck
  <2>2. m \in Message
    BY DEF Received, TypeOK
  <2>3. Periods' = Periods
    BY <2>1, <2>2, MessageFields, SignalHidden
  <2> QED BY <1>1, <2>3, AnswerMaps DEF Outcomes!Next
<1>6. ASSUME NEW n \in Nodes, Restart(n)
      PROVE  Outcomes!Next
  <2>1. period' = [period EXCEPT ![n] = Rest("idle")] /\ sent' = sent
    BY <1>6 DEF Restart
  <2>2. Rest("idle") \in Period
    BY DEF Rest, Period
  <2>3. Periods' = [Periods EXCEPT ![n] =
                      [stage  |-> IF Rest("idle").stage \in {"direct", "indirect"}
                                  THEN "running" ELSE Rest("idle").stage,
                       target |-> Rest("idle").target, seq |-> Rest("idle").seq]]
    BY <2>1, <2>2, PeriodReplaced
  <2>4. Outcomes!Die(n)
    BY <2>1, <2>3 DEF Outcomes!Die, Outcomes!Rest, Rest, Periods, Answers
  <2> QED BY <2>4 DEF Outcomes!Next
<1>7. ASSUME \/ HandlePing \/ HandleIndirectPing
             \/ \E w \in Proxies : Relay(w) \/ Expire(w) \/ Finish(w)
             \/ \E n \in Nodes : CleanupOrphanedEntries(n)
             \/ UNCHANGED vars
      PROVE  Outcomes!Next
  <2>1. period' = period
    BY <1>7 DEF HandlePing, HandleIndirectPing, Relay, Expire, Finish, CleanupOrphanedEntries, vars
  <2> QED BY <1>3, <2>1
<1> QED BY <1>2, <1>4, <1>5, <1>6, <1>7 DEF Next

\* A protocol period ends with an ack only if the very process it probes has answered a
\* ping of its number, whatever is lost, late, repeated or relayed, whatever waiters
\* share a key, and whoever restarts (performSWIMProtocolPeriod, handleAck,
\* handleIndirectAck, handleIndirectPing).
THEOREM ProbeImplementsOutcomes == Spec => ImplementsOutcomes
<1>1. TypeOK /\ NoOrphans /\ AnswerInv /\ [Next]_vars => [Outcomes!Next]_(Outcomes!vars)
  BY OutcomesStep
<1> QED BY <1>1, OutcomesInit, ProbeInvariant, PTL DEF Spec, ImplementsOutcomes, Outcomes!Spec

-----------------------------------------------------------------------------
(* An ack is news, or the number is shared                                 *)

\* Some period of that number has been about the process at that address.
Used(s, a) == \E p \in begun : p[2] = s /\ p[3][1] = a

\* Pings, requests and answers go back to a period of their number.
AskOK(m) == /\ m.type = "Ping" => Used(m.seq, m.to)
            /\ m.type = "IndirectPing" => Used(m.seq, m.target[1])
            /\ m.type = "Ack" => Used(m.seq, m.from[1])

AskedInv == \A m \in sent : AskOK(m)

\* A period that runs has begun.
RunInv == \A n \in Nodes :
            Running(n) => <<Self(n), period[n].seq, period[n].target>> \in begun

\* Periods are those of processes up to the present one, which has counted its own.
NumberInv == \A p \in begun, n \in Nodes :
               p[1][1] = n => p[1][2] <= life[n] /\ (p[1][2] = life[n] => p[2] <= seqNum[n])

\* If the target has ever answered under the number, it has since the period began, or
\* the number is shared.
FreshInv == \A n \in Nodes :
              Running(n) /\ HasAnswered(period[n].target, period[n].seq) => answered[n] \/ Shared(n)

HistoryInv == AskedInv /\ RunInv /\ NumberInv /\ FreshInv

\* The way back to a period stays.
LEMMA AskStays ==
  ASSUME begun \subseteq begun', NEW m, AskOK(m)
  PROVE  AskOK(m)'
BY DEF AskOK, Used

\* A step that begins no period and no process, and gives no answer.
LEMMA HistoryKept ==
  ASSUME HistoryInv, UNCHANGED <<life, seqNum, begun>>,
         \A m \in sent' : m \in sent \/ (AskOK(m) /\ m.type # "Ack"),
         \A n \in Nodes : Running(n)' => /\ Running(n)
                                         /\ period'[n].target = period[n].target
                                         /\ period'[n].seq = period[n].seq
                                         /\ answered'[n] = answered[n]
  PROVE  HistoryInv'
<1> USE DEF HistoryInv
<1>1. AskedInv'
  BY AskStays DEF AskedInv
<1>2. RunInv' /\ NumberInv'
  BY DEF RunInv, NumberInv, Self
<1>3. ASSUME NEW n \in Nodes, (Running(n) /\ HasAnswered(period[n].target, period[n].seq))'
      PROVE  (answered[n] \/ Shared(n))'
  <2>1. HasAnswered(period[n].target, period[n].seq)
    BY <1>3 DEF HasAnswered
  <2>2. answered[n] \/ Shared(n)
    BY <1>3, <2>1 DEF FreshInv
  <2> QED BY <1>3, <2>2 DEF Shared, Self
<1> QED BY <1>1, <1>2, <1>3 DEF FreshInv

\* Settling a period leaves its target and number alone.
LEMMA SignalSame ==
  ASSUME TypeOK, NEW n \in Nodes, NEW t, NEW s, Signal(n, t, s)
  PROVE  \A x \in Nodes : Running(x)' => /\ Running(x)
                                         /\ period'[x].target = period[x].target
                                         /\ period'[x].seq = period[x].seq
<1> SUFFICES ASSUME NEW x \in Nodes, Running(x)'
             PROVE  /\ Running(x) /\ period'[x].target = period[x].target
                    /\ period'[x].seq = period[x].seq
  OBVIOUS
<1>1. Periods' = Periods
  BY SignalHidden
<1>2. Periods[x] = [stage  |-> IF Running(x) THEN "running" ELSE period[x].stage,
                    target |-> period[x].target, seq |-> period[x].seq]
  BY DEF Periods
<1>3. Periods'[x] = [stage |-> "running", target |-> period'[x].target, seq |-> period'[x].seq]
  BY DEF Periods
<1>4. period[x].stage # "running"
  BY DEF TypeOK, Period
<1> QED BY <1>1, <1>2, <1>3, <1>4

\* A period begins: an answer under its number and about its address goes back to
\* another process, which has used the number before.
LEMMA BeginHistory ==
  ASSUME TypeOK, HistoryInv, NEW n \in Nodes, NEW t \in Ids, BeginPeriod(n, t)
  PROVE  HistoryInv'
<1> DEFINE s == seqNum[n] + 1
           b == <<Self(n), s, t>>
<1>1. /\ seqNum' = [seqNum EXCEPT ![n] = s] /\ life' = life
      /\ period' = [period EXCEPT ![n] =
                      [stage |-> "direct", target |-> t, seq |-> s, acked |-> FALSE]]
      /\ sent' = sent \cup {Ping(n, t, s)} /\ begun' = begun \cup {b}
      /\ answered' = [answered EXCEPT ![n] = FALSE]
  BY DEF BeginPeriod
<1>2. /\ seqNum'[n] = s /\ period'[n].target = t /\ period'[n].seq = s
      /\ \A x \in Nodes \ {n} : /\ seqNum'[x] = seqNum[x] /\ period'[x] = period[x]
                                /\ answered'[x] = answered[x]
  BY <1>1 DEF TypeOK
<1>3. /\ seqNum[n] \in Nat /\ s \in Nat /\ s > seqNum[n] /\ life[n] \in Nat
      /\ b[1] = Self(n) /\ b[2] = s /\ b[3] = t /\ Self(n)[1] = n /\ Self(n)[2] = life[n]
  BY ProbeAssumption DEF TypeOK, Self
<1> HIDE DEF s, b
<1>4. AskedInv'
  <2> DEFINE q == Ping(n, t, s)
  <2>1. q.type = "Ping" /\ q.seq = s /\ q.to = t[1]
    BY DEF Ping
  <2> HIDE DEF q
  <2>2. b \in begun'
    BY <1>1
  <2>3. ASSUME NEW m, m = q PROVE AskOK(m)'
    BY <1>3, <2>1, <2>2, <2>3 DEF AskOK, Used
  <2>4. \A m \in sent : AskOK(m)'
    BY <1>1, AskStays DEF HistoryInv, AskedInv
  <2>5. \A m \in sent' : m \in sent \/ m = q
    BY <1>1 DEF q
  <2> QED BY <2>3, <2>4, <2>5 DEF AskedInv
<1>5. RunInv'
  BY <1>1, <1>2 DEF HistoryInv, RunInv, Running, Self, b
<1>6. NumberInv'
  <2>1. ASSUME NEW p \in begun', NEW x \in Nodes, p[1][1] = x
        PROVE  p[1][2] <= life[x] /\ (p[1][2] = life[x] => p[2] <= seqNum'[x])
    <3>1. CASE p = b
      BY <1>2, <1>3, <2>1, <3>1
    <3>2. CASE p \in begun
      <4>1. p[1][2] <= life[x] /\ (p[1][2] = life[x] => p[2] <= seqNum[x])
        BY <2>1, <3>2 DEF HistoryInv, NumberInv
      <4>2. p[2] \in Nat
        BY <3>2 DEF TypeOK, Seqs
      <4>3. CASE x = n
        BY <1>2, <1>3, <4>1, <4>2, <4>3
      <4>4. CASE x # n
        BY <1>2, <4>1, <4>4
      <4> QED BY <4>3, <4>4
    <3> QED BY <1>1, <3>1, <3>2
  <2> QED BY <1>1, <2>1 DEF NumberInv
<1>7. FreshInv'
  <2>1. \A i, k : HasAnswered(i, k)' => HasAnswered(i, k)
    BY <1>1 DEF HasAnswered, Ping
  <2>2. ASSUME HasAnswered(t, s) PROVE Shared(n)'
    <3>1. Used(s, t[1])
      BY <2>2 DEF HasAnswered, HistoryInv, AskedInv, AskOK
    <3>2. PICK p \in begun : p[2] = s /\ p[3][1] = t[1]
      BY <3>1 DEF Used
    <3>3. p[1] # Self(n)
      <4>1. SUFFICES ASSUME p[1] = Self(n) PROVE FALSE
        OBVIOUS
      <4>2. p[2] <= seqNum[n]
        BY <1>3, <4>1 DEF HistoryInv, NumberInv
      <4> QED BY <1>3, <3>2, <4>2
    <3> QED BY <1>1, <1>2, <3>2, <3>3 DEF Shared, Self
  <2>3. ASSUME NEW x \in Nodes, (Running(x) /\ HasAnswered(period[x].target, period[x].seq))'
        PROVE  (answered[x] \/ Shared(x))'
    <3>1. CASE x = n
      <4>1. HasAnswered(t, s)
        BY <1>2, <2>1, <2>3, <3>1
      <4> QED BY <2>2, <3>1, <4>1
    <3>2. CASE x # n
      <4>1. period'[x] = period[x] /\ answered'[x] = answered[x]
        BY <1>2, <3>2
      <4>2. HasAnswered(period[x].target, period[x].seq)
        BY <2>1, <2>3, <4>1
      <4>3. answered[x] \/ Shared(x)
        BY <2>3, <4>1, <4>2 DEF HistoryInv, FreshInv, Running
      <4> QED BY <1>1, <4>1, <4>3 DEF Shared, Self
    <3> QED BY <3>1, <3>2
  <2> QED BY <2>3 DEF FreshInv
<1> QED BY <1>4, <1>5, <1>6, <1>7 DEF HistoryInv

\* A ping is answered: the period about whoever answers takes note.
LEMMA PingHistory ==
  ASSUME TypeOK, HistoryInv, HandlePing
  PROVE  HistoryInv'
<1>1. PICK m \in Received("Ping") :
        /\ sent' = sent \cup {Ack(Self(m.to), m.from, m.seq)}
        /\ answered' = [n \in Nodes |-> \/ answered[n]
                                        \/ Running(n) /\ period[n].target = Self(m.to)]
        /\ UNCHANGED <<life, seqNum, period, pendingIndirect, proxies, begun>>
  BY DEF HandlePing
<1> DEFINE a == Ack(Self(m.to), m.from, m.seq)
<1>2. m \in sent /\ m.type = "Ping"
  BY DEF Received
<1>3. a.type = "Ack" /\ a.from = Self(m.to) /\ a.seq = m.seq /\ Self(m.to)[1] = m.to
  BY DEF Ack, Self
<1> HIDE DEF a
<1>4. AskedInv'
  <2>1. AskOK(a)
    BY <1>2, <1>3 DEF AskOK, HistoryInv, AskedInv
  <2> QED BY <1>1, <2>1, AskStays DEF HistoryInv, AskedInv, a
<1>5. RunInv' /\ NumberInv'
  BY <1>1 DEF HistoryInv, RunInv, NumberInv, Self, Running
<1>6. ASSUME NEW n \in Nodes, (Running(n) /\ HasAnswered(period[n].target, period[n].seq))'
      PROVE  (answered[n] \/ Shared(n))'
  <2>1. Running(n) /\ period'[n] = period[n]
    BY <1>1, <1>6 DEF Running
  <2>2. CASE period[n].target = Self(m.to)
    BY <1>1, <2>1, <2>2
  <2>3. CASE period[n].target # Self(m.to)
    <3>1. HasAnswered(period[n].target, period[n].seq)
      BY <1>1, <1>3, <1>6, <2>1, <2>3 DEF HasAnswered, a
    <3>2. answered[n] \/ Shared(n)
      BY <2>1, <3>1 DEF HistoryInv, FreshInv
    <3> QED BY <1>1, <3>2 DEF Shared, Self
  <2> QED BY <2>2, <2>3
<1>7. FreshInv'
  BY <1>6 DEF FreshInv
<1> QED BY <1>4, <1>5, <1>7 DEF HistoryInv

\* A process begins: it has begun no period.
LEMMA RestartHistory ==
  ASSUME TypeOK, HistoryInv, NEW n \in Nodes, Restart(n)
  PROVE  HistoryInv'
<1>1. /\ life' = [life EXCEPT ![n] = @ + 1] /\ period' = [period EXCEPT ![n] = Rest("idle")]
      /\ seqNum' = [seqNum EXCEPT ![n] = 0] /\ answered' = [answered EXCEPT ![n] = FALSE]
      /\ sent' = sent /\ begun' = begun
  BY DEF Restart
<1>2. /\ life'[n] = life[n] + 1 /\ ~Running(n)' /\ life[n] \in Nat
      /\ \A x \in Nodes \ {n} : /\ life'[x] = life[x] /\ period'[x] = period[x]
                                /\ seqNum'[x] = seqNum[x] /\ answered'[x] = answered[x]
  BY <1>1, ProbeAssumption DEF TypeOK, Running, Rest
<1>3. AskedInv'
  BY <1>1, AskStays DEF HistoryInv, AskedInv
<1>4. RunInv'
  BY <1>1, <1>2 DEF HistoryInv, RunInv, Running, Self
<1>5. NumberInv'
  <2>1. ASSUME NEW p \in begun, NEW x \in Nodes, p[1][1] = x
        PROVE  p[1][2] <= life'[x] /\ (p[1][2] = life'[x] => p[2] <= seqNum'[x])
    <3>1. p[1][2] <= life[x] /\ (p[1][2] = life[x] => p[2] <= seqNum[x])
      BY <2>1 DEF HistoryInv, NumberInv
    <3>2. CASE x = n
      <4>1. p[1] \in Ids
        BY DEF TypeOK
      <4>2. p[1][2] \in Nat
        BY <4>1, ProbeAssumption DEF Ids
      <4> QED BY <1>2, <3>1, <3>2, <4>2
    <3>3. CASE x # n
      BY <1>2, <3>1, <3>3
    <3> QED BY <3>2, <3>3
  <2> QED BY <1>1, <2>1 DEF NumberInv
<1>6. ASSUME NEW x \in Nodes, (Running(x) /\ HasAnswered(period[x].target, period[x].seq))'
      PROVE  (answered[x] \/ Shared(x))'
  <2>1. x # n
    BY <1>2, <1>6
  <2>2. /\ period'[x] = period[x] /\ answered'[x] = answered[x] /\ life'[x] = life[x]
    BY <1>2, <2>1
  <2>3. answered[x] \/ Shared(x)
    BY <1>1, <1>6, <2>2 DEF HistoryInv, FreshInv, Running, HasAnswered
  <2> QED BY <1>1, <2>2, <2>3 DEF Shared, Self
<1>7. FreshInv'
  BY <1>6 DEF FreshInv
<1> QED BY <1>3, <1>4, <1>5, <1>7 DEF HistoryInv

\* Every step keeps the history of periods and answers.
LEMMA HistoryStep == TypeOK /\ NoOrphans /\ HistoryInv /\ [Next]_vars => HistoryInv'
<1> SUFFICES ASSUME TypeOK, NoOrphans, HistoryInv, [Next]_vars PROVE HistoryInv'
  OBVIOUS
<1>1. ASSUME NEW n \in Nodes, NEW verdict \in {"acked", "silent"}, EndPeriod(n, verdict)
      PROVE  HistoryInv'
  <2>1. /\ ~Running(n)' /\ UNCHANGED <<life, seqNum, begun, sent>>
        /\ \A x \in Nodes \ {n} : period'[x] = period[x] /\ answered'[x] = answered[x]
    BY <1>1 DEF EndPeriod, Rest, TypeOK, Running
  <2> QED BY <2>1, HistoryKept DEF Running
<1>2. ASSUME NEW n \in Pingers, TakeAck(n) \/ DirectTimeout(n) \/ IndirectTimeout(n)
      PROVE  HistoryInv'
  <2>0. n \in Nodes
    BY ProbeAssumption
  <2>1. ASSUME NEW H \in Helpers(n), period[n].stage = "direct",
               period' = [period EXCEPT ![n].stage = "indirect"],
               sent' = sent \cup {IndirectPing(n, h, period[n].target, period[n].seq) : h \in H},
               UNCHANGED <<life, seqNum, pendingIndirect, proxies, answered, begun>>
        PROVE  HistoryInv'
    <3>1. Running(n)
      BY <2>1 DEF Running
    <3>2. period[n] \in [stage : {"direct", "indirect"}, target : Ids, seq : Seqs, acked : BOOLEAN]
      BY <2>0, <3>1 DEF TypeOK, Period, Running
    <3>3. period'[n] = [period[n] EXCEPT !.stage = "indirect"]
          /\ \A x \in Nodes \ {n} : period'[x] = period[x]
      BY <2>0, <2>1 DEF TypeOK
    <3>4. period'[n].target = period[n].target /\ period'[n].seq = period[n].seq
      BY <3>2, <3>3
    <3>5. Used(period[n].seq, period[n].target[1])
      BY <2>0, <3>1 DEF HistoryInv, RunInv, Used
    <3>6. \A m \in sent' : m \in sent \/ (AskOK(m) /\ m.type # "Ack")
      BY <2>1, <3>5 DEF AskOK, IndirectPing
    <3> QED BY <2>1, <3>1, <3>3, <3>4, <3>6, HistoryKept DEF Running
  <2> QED BY <1>1, <1>2, <2>0, <2>1 DEF TakeAck, DirectTimeout, IndirectTimeout
<1>3. CASE HandleAck \/ HandleIndirectAck
  <2>1. PICK m \in sent, t \in Ids, s \in Seqs :
          m.to \in Nodes /\ Signal(m.to, t, s) /\ UNCHANGED <<life, seqNum, sent, answered, begun>>
    BY <1>3, MessageFields DEF HandleAck, HandleIndirectAck, Received, TypeOK
  <2> QED BY <2>1, SignalSame, HistoryKept
<1>4. CASE HandleIndirectPing
  <2>1. PICK m \in Received("IndirectPing") :
          /\ sent' = sent \cup {Ping(m.to, m.target, m.seq)}
          /\ UNCHANGED <<life, seqNum, period, answered, begun>>
    BY <1>4 DEF HandleIndirectPing
  <2> DEFINE q == Ping(m.to, m.target, m.seq)
  <2>2. q.type = "Ping" /\ q.seq = m.seq /\ q.to = m.target[1]
    BY DEF Ping
  <2> HIDE DEF q
  <2>3. AskOK(q)
    BY <2>2 DEF Received, AskOK, HistoryInv, AskedInv
  <2>4. \A x \in sent' : x \in sent \/ x = q
    BY <2>1 DEF q
  <2> QED BY <2>1, <2>2, <2>3, <2>4, HistoryKept DEF Running
<1>5. ASSUME NEW w \in Proxies, Relay(w) \/ Expire(w) \/ Finish(w)
      PROVE  HistoryInv'
  <2>1. UNCHANGED <<life, seqNum, period, answered, begun>>
    BY <1>5 DEF Relay, Expire, Finish
  <2>2. \A m \in sent' : m \in sent \/ m.type = "IndirectAck"
    BY <1>5 DEF Relay, Expire, Finish, IndirectAck
  <2>3. \A m \in sent' : m \in sent \/ (AskOK(m) /\ m.type # "Ack")
    BY <2>2 DEF AskOK
  <2> QED BY <2>1, <2>3, HistoryKept DEF Running
<1>6. ASSUME (\E n \in Nodes : CleanupOrphanedEntries(n)) \/ UNCHANGED vars
      PROVE  HistoryInv'
  <2>1. UNCHANGED <<life, seqNum, period, sent, answered, begun>>
    BY <1>6 DEF CleanupOrphanedEntries, vars
  <2> QED BY <2>1, HistoryKept DEF Running
<1>7. Pingers \subseteq Nodes
  BY ProbeAssumption
<1> QED BY <1>2, <1>3, <1>4, <1>5, <1>6, <1>7, BeginHistory, PingHistory, RestartHistory DEF Next

\* An ack that ends a period is news: the target has answered since the period began, or
\* another process has used the number for the same address.
THEOREM AnAckIsNews == Spec => []AcksAreFresh
<1>1. Init => HistoryInv
  BY DEF Init, HistoryInv, AskedInv, RunInv, NumberInv, FreshInv, Running, Rest
<1>2. AnswerInv /\ HistoryInv => AcksAreFresh
  BY DEF AnswerInv, SettledInv, HistoryInv, FreshInv, AcksAreFresh
<1> QED BY <1>1, <1>2, HistoryStep, NoWaiterOutlivesItsProxy, ProbeInvariant, PTL DEF Spec

=============================================================================
