-------------------------- MODULE LifecycleProofs --------------------------
(***************************************************************************)
(* Proofs about Lifecycle: its type invariant, that a gossip Stop closes   *)
(* every channel once, that switches made one at a time are complete, and  *)
(* that a gossip Stop waits only for loops that can end.                   *)
(***************************************************************************)
EXTENDS Lifecycle, FiniteSetTheorems, TLAPS

USE LifecycleAssumption

-----------------------------------------------------------------------------
(* Types.  How many channels are made and loops run is bounded by the      *)
(* requests: every Start belongs to one.                                   *)

Waits == Channels \cup {Nil}

Ops(m) == [pc : PCs, mech : Modes, susp : BOOLEAN, ch : (1..m) \cup {Nil}, todo : SUBSET Types]

MainPCs == {"idle", "join", "joinWrite", "drain", "stop", "stopGossip", "closeGossip",
            "waitGossip", "forgetGossip", "stopPing", "stopRest", "exited", "crashed"}
ClientPCs == PCs \ {"drain", "stop", "stopRest", "exited", "crashed"}

\* A switch that may yet make a channel, and one that may yet begin loops.
BeforeChannel == {"setMode", "stopGossip", "closeGossip", "waitGossip", "forgetGossip",
                  "stopPing", "start"}
BeforeLoops   == BeforeChannel \cup {"register", "spawn"}

Ahead(P) == {p \in Clients : op[p].pc \in P}

\* Clients with their pc in P, and n starts that have come to pass.
Budget(P, n) == IsFiniteSet(Ahead(P)) /\ Cardinality(Ahead(P)) + n <= requests + 1

\* s loops have begun, each of them waits for a channel or has ended (0).
With(w, s, c) == {i \in 1..s : w[i] = c}
Census(f, s) ==
  \E w \in [1..s -> Waits \cup {0}] : f = [c \in Waits |-> Cardinality(With(w, s, c))]

FlagsOK == active \in [Modes -> BOOLEAN] /\ suspicion \in [Modes -> BOOLEAN] /\ stopped \in BOOLEAN

ProcsOK == /\ op \in [Procs -> Ops(made)]
           /\ op[Main].pc \in MainPCs
           /\ \A p \in Clients : op[p].pc \in ClientPCs

DataOK == /\ mode \in Modes /\ handlers \in [Types -> Modes]
          /\ requests \in 0..MaxRequests /\ events \subseteq Events
          /\ made \in Nat \ {0} /\ stopCh \in 1..made \cup {Nil} /\ closed \subseteq 1..made

LoopsOK == /\ loops \in [Kinds -> [Waits -> Nat]] /\ pingLoops \in Nat
           /\ \E s \in Nat : /\ Budget(BeforeLoops, s + pingLoops)
                             /\ \A k \in Kinds : Census(loops[k], s)

TypeInv == FlagsOK /\ ProcsOK /\ DataOK /\ Budget(BeforeChannel, made) /\ LoopsOK

-----------------------------------------------------------------------------
(* Loops counted channel by channel                                        *)

\* The count of a set that gains or loses one element.
LEMMA OneMore ==
  ASSUME NEW S, NEW x, IsFiniteSet(S), x \notin S
  PROVE  IsFiniteSet(S \cup {x}) /\ Cardinality(S \cup {x}) = Cardinality(S) + 1
BY FS_AddElement

\* As OneMore.
LEMMA OneLess ==
  ASSUME NEW S, NEW x, IsFiniteSet(S), x \in S
  PROVE  IsFiniteSet(S \ {x}) /\ Cardinality(S \ {x}) = Cardinality(S) - 1
BY FS_RemoveElement

\* The loops that wait for a channel are finitely many.
LEMMA WithFinite ==
  ASSUME NEW s \in Nat, NEW w, NEW c
  PROVE  IsFiniteSet(With(w, s, c)) /\ Cardinality(With(w, s, c)) \in 0..s
<1>1. IsFiniteSet(1..s) /\ Cardinality(1..s) = s
  BY FS_Interval
<1>2. With(w, s, c) \in SUBSET (1..s)
  BY DEF With
<1>3. IsFiniteSet(With(w, s, c)) /\ Cardinality(With(w, s, c)) <= s
  BY <1>1, <1>2, FS_Subset
<1>4. Cardinality(With(w, s, c)) \in Nat
  BY <1>3, FS_CardinalityType
<1> QED BY <1>3, <1>4

\* No channel has more waiters than loops have begun.
LEMMA CensusBound ==
  ASSUME NEW s \in Nat, NEW f, Census(f, s)
  PROVE  f \in [Waits -> 0..s]
<1>1. PICK w \in [1..s -> Waits \cup {0}] : f = [c \in Waits |-> Cardinality(With(w, s, c))]
  BY DEF Census
<1>2. \A c \in Waits : Cardinality(With(w, s, c)) \in 0..s
  BY WithFinite
<1> QED BY <1>1, <1>2

\* A loop begins, and has not read the channel yet.
LEMMA CensusBegin ==
  ASSUME NEW s \in Nat, NEW f, Census(f, s)
  PROVE  Census([f EXCEPT ![Nil] = @ + 1], s + 1)
<1>1. PICK w \in [1..s -> Waits \cup {0}] : f = [c \in Waits |-> Cardinality(With(w, s, c))]
  BY DEF Census
<1> DEFINE v == [i \in 1..(s + 1) |-> IF i = s + 1 THEN Nil ELSE w[i]]
<1>2. Nil \in Waits /\ v \in [1..(s + 1) -> Waits \cup {0}]
  BY DEF Waits
<1>3. With(v, s + 1, Nil) = With(w, s, Nil) \cup {s + 1} /\ s + 1 \notin With(w, s, Nil)
  BY DEF With
<1>4. \A c \in Waits : c # Nil => With(v, s + 1, c) = With(w, s, c)
  BY DEF With
<1> HIDE DEF v
<1>5. Cardinality(With(v, s + 1, Nil)) = Cardinality(With(w, s, Nil)) + 1
  BY <1>3, WithFinite, OneMore
<1>6. [f EXCEPT ![Nil] = @ + 1] = [c \in Waits |-> Cardinality(With(v, s + 1, c))]
  BY <1>1, <1>2, <1>4, <1>5
<1> QED BY <1>2, <1>6 DEF Census

\* A loop that waits for c goes on to d, which may be its end.
LEMMA CensusMove ==
  ASSUME NEW s \in Nat, NEW f, Census(f, s),
         NEW c \in Waits, NEW d \in Waits \cup {0}, c # d, f[c] > 0
  PROVE  Census([e \in Waits |-> IF e = c THEN f[e] - 1 ELSE IF e = d THEN f[e] + 1 ELSE f[e]], s)
<1>1. PICK w \in [1..s -> Waits \cup {0}] : f = [e \in Waits |-> Cardinality(With(w, s, e))]
  BY DEF Census
<1>2. \A e : IsFiniteSet(With(w, s, e)) /\ Cardinality(With(w, s, e)) \in Nat
  BY WithFinite
<1>3. With(w, s, c) # {}
  <2>1. Cardinality(With(w, s, c)) # 0
    BY <1>1
  <2> QED BY <2>1, FS_EmptySet, Zenon
<1>4. PICK j \in 1..s : w[j] = c
  BY <1>3 DEF With
<1> DEFINE v == [w EXCEPT ![j] = d]
<1>5. v \in [1..s -> Waits \cup {0}]
  OBVIOUS
<1>6. /\ With(v, s, c) = With(w, s, c) \ {j} /\ j \in With(w, s, c)
      /\ With(v, s, d) = With(w, s, d) \cup {j} /\ j \notin With(w, s, d)
      /\ \A e \in Waits : e # c /\ e # d => With(v, s, e) = With(w, s, e)
  BY <1>4 DEF With
<1> HIDE DEF v
<1>7. Cardinality(With(v, s, c)) = Cardinality(With(w, s, c)) - 1
  BY <1>2, <1>6, OneLess
<1>8. Cardinality(With(v, s, d)) = Cardinality(With(w, s, d)) + 1
  BY <1>2, <1>6, OneMore
<1>9. [e \in Waits |-> IF e = c THEN f[e] - 1 ELSE IF e = d THEN f[e] + 1 ELSE f[e]]
        = [e \in Waits |-> Cardinality(With(v, s, e))]
  BY <1>1, <1>6, <1>7, <1>8
<1> QED BY <1>5, <1>9 DEF Census

-----------------------------------------------------------------------------
(* One process moves                                                       *)

\* p goes on, and is o then.
Moves(p, o) == p \in Procs /\ op' = [op EXCEPT ![p] = o]

\* What may become of p.
Fits(p, o) == /\ o \in Ops(made')
              /\ p = Main => o.pc \in MainPCs
              /\ p # Main => o.pc \in ClientPCs

\* The processes stay well typed.
LEMMA ProcsKept ==
  ASSUME ProcsOK, NEW p, NEW o, Moves(p, o), Fits(p, o),
         made \in Nat, made' \in Nat, made' >= made
  PROVE  ProcsOK'
<1>1. \A q \in Procs : op[q] \in Ops(made')
  BY DEF ProcsOK, Ops
<1>2. op' \in [Procs -> Ops(made')]
  BY <1>1 DEF ProcsOK, Moves, Fits
<1>3. op'[Main].pc \in MainPCs
  BY DEF ProcsOK, Moves, Fits, Procs
<1>4. \A q \in Clients : op'[q].pc \in ClientPCs
  BY DEF ProcsOK, Moves, Fits, Procs
<1> QED BY <1>2, <1>3, <1>4 DEF ProcsOK, Ops

\* Budget in the next state.
BudgetThen(P, n) == IsFiniteSet(Ahead(P)') /\ Cardinality(Ahead(P)') + n <= requests' + 1

\* The processes that are ahead of something, after a move.
LEMMA AheadThen ==
  ASSUME ProcsOK, NEW P, NEW p, NEW o, Moves(p, o)
  PROVE  Ahead(P)' = IF p \in Clients /\ o.pc \in P THEN Ahead(P) \cup {p} ELSE Ahead(P) \ {p}
BY DEF ProcsOK, Moves, Ahead, Procs

\* Nobody comes to be ahead.
LEMMA BudgetKept ==
  ASSUME ProcsOK, requests \in Nat, NEW P, NEW n \in Nat, Budget(P, n),
         NEW p, NEW o, Moves(p, o), requests' = requests, p # Main /\ o.pc \in P => op[p].pc \in P
  PROVE  BudgetThen(P, n)
<1>1. Ahead(P)' \in SUBSET Ahead(P)
  BY AheadThen DEF Ahead, Moves, Procs
<1>2. /\ IsFiniteSet(Ahead(P)') /\ Cardinality(Ahead(P)') <= Cardinality(Ahead(P))
      /\ Cardinality(Ahead(P)') \in Nat /\ Cardinality(Ahead(P)) \in Nat
  BY <1>1, FS_Subset, FS_CardinalityType DEF Budget
<1> QED BY <1>2 DEF Budget, BudgetThen

\* A start comes to pass.
LEMMA BudgetUsed ==
  ASSUME ProcsOK, requests \in Nat, NEW P, NEW n \in Nat, Budget(P, n),
         NEW p, NEW o, Moves(p, o), requests' = requests,
         p \in Clients, op[p].pc \in P, o.pc \notin P
  PROVE  BudgetThen(P, n + 1)
<1>1. Ahead(P)' = Ahead(P) \ {p} /\ p \in Ahead(P)
  BY AheadThen DEF Ahead
<1>2. /\ IsFiniteSet(Ahead(P)') /\ Cardinality(Ahead(P)') = Cardinality(Ahead(P)) - 1
      /\ Cardinality(Ahead(P)) \in Nat
  BY <1>1, OneLess, FS_CardinalityType DEF Budget
<1> QED BY <1>2 DEF Budget, BudgetThen

\* A request comes.
LEMMA BudgetGranted ==
  ASSUME ProcsOK, requests \in Nat, NEW P, NEW n \in Nat, Budget(P, n),
         NEW p, NEW o, Moves(p, o), requests' = requests + 1
  PROVE  BudgetThen(P, n)
<1>1. CASE p \in Clients /\ o.pc \in P /\ p \notin Ahead(P)
  <2>1. Ahead(P)' = Ahead(P) \cup {p}
    BY <1>1, AheadThen
  <2>2. IsFiniteSet(Ahead(P)') /\ Cardinality(Ahead(P)') = Cardinality(Ahead(P)) + 1
    BY <1>1, <2>1, OneMore DEF Budget
  <2>3. Cardinality(Ahead(P)) \in Nat
    BY FS_CardinalityType DEF Budget
  <2> QED BY <2>2, <2>3 DEF Budget, BudgetThen
<1>2. CASE ~(p \in Clients /\ o.pc \in P /\ p \notin Ahead(P))
  <2>1. Ahead(P)' \in SUBSET Ahead(P)
    <3>1. (Ahead(P)' = Ahead(P) \cup {p} /\ p \in Ahead(P)) \/ Ahead(P)' = Ahead(P) \ {p}
      BY <1>2, AheadThen
    <3> QED BY <3>1
  <2>2. /\ IsFiniteSet(Ahead(P)') /\ Cardinality(Ahead(P)') <= Cardinality(Ahead(P))
        /\ Cardinality(Ahead(P)') \in Nat /\ Cardinality(Ahead(P)) \in Nat
    BY <2>1, FS_Subset, FS_CardinalityType DEF Budget
  <2> QED BY <2>2 DEF Budget, BudgetThen
<1> QED BY <1>1, <1>2

\* A move that makes no channel and no loop.
LEMMA TypeMove ==
  ASSUME TypeInv, NEW p, NEW o, Moves(p, o), Fits(p, o), FlagsOK', DataOK',
         UNCHANGED <<made, requests, loops, pingLoops>>,
         p # Main /\ o.pc \in BeforeChannel => op[p].pc \in BeforeChannel,
         p # Main /\ o.pc \in BeforeLoops => op[p].pc \in BeforeLoops
  PROVE  TypeInv'
<1>1. ProcsOK /\ made \in Nat /\ requests \in Nat
  BY DEF TypeInv, DataOK
<1>2. ProcsOK'
  BY <1>1, ProcsKept
<1>3. Budget(BeforeChannel, made)'
  BY <1>1, BudgetKept DEF TypeInv, BudgetThen, Budget
<1>4. PICK s \in Nat : Budget(BeforeLoops, s + pingLoops) /\ \A k \in Kinds : Census(loops[k], s)
  BY DEF TypeInv, LoopsOK
<1>5. s + pingLoops \in Nat
  BY <1>4 DEF TypeInv, LoopsOK
<1>6. BudgetThen(BeforeLoops, s + pingLoops)
  BY <1>1, <1>4, <1>5, BudgetKept
<1>7. LoopsOK'
  BY <1>4, <1>6 DEF TypeInv, LoopsOK, BudgetThen, Budget
<1> QED BY <1>2, <1>3, <1>7 DEF TypeInv

\* A request comes.
LEMMA ArriveTypes ==
  ASSUME TypeInv, NEW p \in Clients, NEW m \in Modes, NEW s \in BOOLEAN, NEW o,
         Arrive(p, o), o \in {Op("setMode", m, s), Op("join", "gossip", FALSE), Op("leave", "gossip", FALSE)}
  PROVE  TypeInv'
<1>1. /\ requests \in Nat /\ requests < MaxRequests /\ requests' = requests + 1
      /\ UNCHANGED <<mode, active, suspicion, stopCh, made, closed, loops, stopped, pingLoops, handlers>>
      /\ events' \subseteq Events
  <2>1. events' \in {events, events \cup {"overlap"}} /\ events \subseteq Events
    BY DEF Arrive, TypeInv, DataOK
  <2>2. events' \subseteq Events
    BY <2>1 DEF Events
  <2> QED BY <2>2 DEF Arrive, TypeInv, DataOK, gossipVars, pingVars
<1>2. Moves(p, o) /\ ProcsOK /\ made \in Nat
  BY DEF Arrive, Moves, Procs, TypeInv, DataOK
<1>3. Fits(p, o)
  <2>1. o \in Ops(made')
    <3>1. \A pc \in PCs, mm \in Modes, ss \in BOOLEAN : Op(pc, mm, ss) \in Ops(made')
      BY DEF Op, Ops
    <3>2. "setMode" \in PCs /\ "join" \in PCs /\ "leave" \in PCs
      BY DEF PCs
    <3>3. "gossip" \in Modes /\ FALSE \in BOOLEAN
      BY DEF Modes
    <3>4. CASE o = Op("setMode", m, s)
      <4>1. Op("setMode", m, s) \in Ops(made')
        BY <3>1, <3>2
      <4> QED BY <3>4, <4>1
    <3>5. CASE o = Op("join", "gossip", FALSE)
      <4>1. Op("join", "gossip", FALSE) \in Ops(made')
        BY <3>1, <3>2, <3>3
      <4> QED BY <3>5, <4>1
    <3>6. CASE o = Op("leave", "gossip", FALSE)
      <4>1. Op("leave", "gossip", FALSE) \in Ops(made')
        BY <3>1, <3>2, <3>3
      <4> QED BY <3>6, <4>1
    <3> QED BY <3>4, <3>5, <3>6
  <2>2. o.pc \in ClientPCs
    BY DEF Op, ClientPCs, PCs
  <2> QED BY <2>1, <2>2 DEF Fits
<1>4. ProcsOK'
  BY <1>1, <1>2, <1>3, ProcsKept
<1>5. Budget(BeforeChannel, made)'
  BY <1>1, <1>2, BudgetGranted DEF TypeInv, BudgetThen, Budget
<1>6. PICK n \in Nat : Budget(BeforeLoops, n + pingLoops) /\ \A k \in Kinds : Census(loops[k], n)
  BY DEF TypeInv, LoopsOK
<1>7. n + pingLoops \in Nat
  BY <1>6 DEF TypeInv, LoopsOK
<1>8. BudgetThen(BeforeLoops, n + pingLoops)
  BY <1>1, <1>2, <1>6, <1>7, BudgetGranted
<1>9. LoopsOK'
  BY <1>1, <1>6, <1>8 DEF TypeInv, LoopsOK, BudgetThen, Budget
<1>10. FlagsOK' /\ DataOK'
  BY <1>1 DEF TypeInv, FlagsOK, DataOK
<1> QED BY <1>4, <1>5, <1>9, <1>10 DEF TypeInv

\* The record of a process that goes on.
LEMMA OpsGo ==
  ASSUME NEW n \in Nat, NEW x \in Ops(n), NEW pc \in PCs
  PROVE  /\ [x EXCEPT !.pc = pc] \in Ops(n)
         /\ \A m \in Modes : [x EXCEPT !.pc = pc, !.mech = m] \in Ops(n)
         /\ \A c \in 1..n \cup {Nil} : [x EXCEPT !.pc = pc, !.ch = c] \in Ops(n)
         /\ \A todo \in SUBSET Types : [x EXCEPT !.pc = pc, !.todo = todo] \in Ops(n)
BY DEF Ops

\* Idle processes.
LEMMA IdleType == \A n \in Nat : Idle \in Ops(n) /\ Idle.pc = "idle"
BY DEF Idle, Op, Ops, PCs, Modes

\* A process where it can be.
PlaceOK(p, pc) == pc \in PCs /\ (p = Main => pc \in MainPCs) /\ (p # Main => pc \in ClientPCs)

\* Where a process is, is one of its places.
LEMMA PlaceNow ==
  ASSUME TypeInv, NEW p \in Procs
  PROVE  op[p] \in Ops(made) /\ PlaceOK(p, op[p].pc) /\ made \in Nat
BY DEF TypeInv, ProcsOK, DataOK, PlaceOK, Ops, Procs

\* Goto keeps the types of the processes.
LEMMA GotoFits ==
  ASSUME TypeInv, NEW p \in Procs, NEW pc, Goto(p, pc), PlaceOK(p, pc), made' = made
  PROVE  Moves(p, op'[p]) /\ Fits(p, op'[p]) /\ op'[p].pc = pc
<1>1. op'[p] = [op[p] EXCEPT !.pc = pc] /\ op[p] \in Ops(made)
  BY PlaceNow DEF Goto, TypeInv, ProcsOK
<1>2. op'[p].pc = pc
  BY <1>1 DEF Ops
<1>3. op'[p] \in Ops(made')
  <2>1. made \in Nat /\ pc \in PCs
    BY PlaceNow DEF PlaceOK
  <2>2. [op[p] EXCEPT !.pc = pc] \in Ops(made)
    BY <1>1, <2>1, OpsGo
  <2> QED BY <1>1, <2>2
<1> QED BY <1>2, <1>3 DEF Moves, Fits, PlaceOK, Goto

\* So does the end of a request.
LEMMA DoneFits ==
  ASSUME TypeInv, NEW p \in Procs, Done(p), made' = made
  PROVE  Moves(p, op'[p]) /\ Fits(p, op'[p]) /\ op'[p].pc = "idle"
<1>1. op'[p] = Idle /\ made \in Nat
  BY DEF Done, TypeInv, ProcsOK, DataOK
<1> QED BY <1>1, IdleType DEF Moves, Fits, Done, MainPCs, ClientPCs, PCs

\* And a panic.
LEMMA PanicFits ==
  ASSUME TypeInv, NEW p \in Procs, Panic(p), made' = made
  PROVE  Moves(p, op'[p]) /\ Fits(p, op'[p]) /\ op'[p].pc \in {"crashed", "idle"}
<1>1. CASE p = Main
  <2>1. Goto(p, "crashed")
    BY <1>1 DEF Panic, Goto
  <2>2. PlaceOK(p, "crashed")
    BY <1>1 DEF PlaceOK, PCs, MainPCs
  <2> QED BY <2>1, <2>2, GotoFits
<1>2. CASE p # Main
  <2>1. Done(p)
    BY <1>2 DEF Panic, Done
  <2> QED BY <2>1, DoneFits
<1> QED BY <1>1, <1>2

\* Where an operation is, and that it may go from there.
LEMMA PlaceAt ==
  ASSUME TypeInv, NEW p \in Procs, NEW pc, At(p, pc)
  PROVE  op[p].pc = pc /\ PlaceOK(p, pc) /\ op[p] \in Ops(made)
BY PlaceNow DEF At

\* Steps after which only the place of one process, mode, suspicion or an active flag
\* is another.
LEMMA RouteTypes ==
  ASSUME TypeInv, NEW p \in Procs, RouteJoin(p) \/ RouteLeave(p)
  PROVE  TypeInv'
<1>1. PICK to \in {"joinWrite", "leaveWrite"} :
        /\ to = "joinWrite" => op[p].pc = "join"
        /\ to = "leaveWrite" => op[p].pc = "leave"
        /\ op' = [op EXCEPT ![p].pc = to, ![p].mech = mode]
        /\ UNCHANGED <<mode, active, suspicion, gossipVars, pingVars, handlers, requests, events>>
  BY DEF RouteJoin, RouteLeave, Route, At
<1>2. op'[p] = [op[p] EXCEPT !.pc = to, !.mech = mode]
  BY <1>1 DEF TypeInv, ProcsOK
<1>3. op[p] \in Ops(made) /\ PlaceOK(p, op[p].pc) /\ made \in Nat /\ mode \in Modes
  BY PlaceNow DEF TypeInv, DataOK
<1>4. op'[p] \in Ops(made) /\ op'[p].pc = to
  <2>1. to \in PCs
    BY DEF PCs
  <2>2. [op[p] EXCEPT !.pc = to, !.mech = mode] \in Ops(made)
    BY <1>3, <2>1, OpsGo
  <2>3. [op[p] EXCEPT !.pc = to, !.mech = mode].pc = to
    BY <1>3 DEF Ops
  <2> QED BY <1>2, <2>2, <2>3
<1>5. Fits(p, op'[p]) /\ Moves(p, op'[p])
  <2>1. p = Main => to \in MainPCs
    BY <1>1, <1>3 DEF PlaceOK, MainPCs
  <2>2. to \in ClientPCs
    BY DEF ClientPCs, PCs
  <2>3. made' = made
    BY <1>1 DEF gossipVars
  <2> QED BY <1>1, <1>4, <2>1, <2>2, <2>3 DEF Fits, Moves
<1>6. FlagsOK' /\ DataOK'
  BY <1>1 DEF TypeInv, FlagsOK, DataOK, gossipVars, pingVars
<1>7. op'[p].pc \notin BeforeLoops /\ op'[p].pc \notin BeforeChannel
  BY <1>4 DEF BeforeLoops, BeforeChannel
<1> QED BY <1>1, <1>5, <1>6, <1>7, TypeMove DEF gossipVars, pingVars

\* Events that happen stay within Events.
LEMMA EventsGrow ==
  ASSUME TypeInv, NEW e \in Events, events' \in {events, events \cup {e}}
  PROVE  events' \subseteq Events
BY DEF TypeInv, DataOK

\* The only mark that is ever taken back is that of a gossip that was left.
Keeps(e) == (e = events \/ e = events \ {"left gossip"})

LEMMA EventsKept ==
  ASSUME TypeInv, NEW e, Keeps(e), NEW s \in SUBSET Events, events' = e \cup s
  PROVE  /\ events' \subseteq Events
         /\ \A x \in events : x # "left gossip" => x \in events'
BY DEF TypeInv, DataOK, Keeps

\* A flag that is set.
LEMMA FlagSet ==
  ASSUME NEW f \in [Modes -> BOOLEAN], NEW m, NEW b \in BOOLEAN
  PROVE  [f EXCEPT ![m] = b] \in [Modes -> BOOLEAN]
OBVIOUS

\* What JoinGroup and StartGossip do with the marks.
LEMMA JoinEvents ==
  ASSUME NEW p, JoinGroup(p)
  PROVE  \E e, s : Keeps(e) /\ s \in SUBSET Events /\ events' = e \cup s
<1>1. CASE op[p].mech # "gossip"
  <2>1. events' = events \cup {} /\ {} \in SUBSET Events
    BY <1>1 DEF JoinGroup
  <2> QED BY <2>1 DEF Keeps
<1>2. CASE op[p].mech = "gossip"
  <2>1. PICK s \in {{"join in stop"}, {}} : events' = (events \ {"left gossip"}) \cup s
    BY <1>2 DEF JoinGroup
  <2> QED BY <2>1 DEF Keeps, Events
<1> QED BY <1>1, <1>2

LEMMA StartEvents ==
  ASSUME NEW p, StartGossip(p)
  PROVE  \E e, s : Keeps(e) /\ s \in SUBSET Events /\ events' = e \cup s
<1>1. CASE events' = events
  <2>1. events' = events \cup {} /\ {} \in SUBSET Events
    BY <1>1
  <2> QED BY <2>1 DEF Keeps
<1>2. CASE events' # events
  <2>1. PICK s \in {{"start beside stop"}, {}} : events' = (events \ {"left gossip"}) \cup s
    BY <1>2 DEF StartGossip
  <2> QED BY <2>1 DEF Keeps, Events
<1> QED BY <1>1, <1>2

\* JoinGroup and LeaveGroup.
LEMMA GroupTypes ==
  ASSUME TypeInv, NEW p \in Procs, JoinGroup(p) \/ LeaveGroup(p)
  PROVE  TypeInv'
<1>1. /\ Done(p) /\ \E b \in BOOLEAN : active' = [active EXCEPT ![op[p].mech] = b]
      /\ \E e, s : Keeps(e) /\ s \in SUBSET Events /\ events' = e \cup s
      /\ UNCHANGED <<mode, suspicion, gossipVars, pingVars, handlers, requests>>
  <2>1. CASE JoinGroup(p)
    <3>1. \E e, s : Keeps(e) /\ s \in SUBSET Events /\ events' = e \cup s
      BY <2>1, JoinEvents
    <3> QED BY <2>1, <3>1 DEF JoinGroup
  <2>2. CASE LeaveGroup(p)
    <3>1. PICK s \in SUBSET Events : events' = events \cup s
      BY <2>2, {"left gossip"} \in SUBSET Events, {} \in SUBSET Events DEF LeaveGroup, Events
    <3> QED BY <2>2, <3>1 DEF LeaveGroup, Keeps
  <2> QED BY <2>1, <2>2
<1>2. Moves(p, op'[p]) /\ Fits(p, op'[p]) /\ op'[p].pc = "idle"
  BY <1>1, DoneFits DEF gossipVars
<1>3. FlagsOK'
  <2>1. active' \in [Modes -> BOOLEAN]
    BY <1>1, FlagSet DEF TypeInv, FlagsOK
  <2>2. UNCHANGED <<suspicion, stopped>>
    BY <1>1 DEF pingVars
  <2> QED BY <2>1, <2>2 DEF TypeInv, FlagsOK
<1>4. DataOK'
  <2>1. events' \subseteq Events
    BY <1>1, EventsKept
  <2> QED BY <1>1, <2>1 DEF TypeInv, DataOK, gossipVars
<1>5. op'[p].pc \notin BeforeLoops /\ op'[p].pc \notin BeforeChannel
  BY <1>2 DEF BeforeLoops, BeforeChannel
<1> QED BY <1>1, <1>2, <1>3, <1>4, <1>5, TypeMove DEF gossipVars, pingVars

\* A move between two places, or out of them: the budgets are not touched.
LEMMA PlaceMove ==
  ASSUME TypeInv, NEW p \in Procs, NEW pc, At(p, pc), NEW to, Moves(p, op'[p]), Fits(p, op'[p]),
         op'[p].pc = to, FlagsOK', DataOK', UNCHANGED <<made, requests, loops, pingLoops>>,
         p # Main /\ to \in BeforeChannel => pc \in BeforeChannel,
         p # Main /\ to \in BeforeLoops => pc \in BeforeLoops
  PROVE  TypeInv'
BY TypeMove DEF At

\* The stop of a manager ends in the start of the other, or in the rest of the stop.
LEMMA AfterStopFits ==
  ASSUME TypeInv, NEW p \in Procs, AfterStop(p), made' = made
  PROVE  /\ Moves(p, op'[p]) /\ Fits(p, op'[p])
         /\ p # Main => op'[p].pc = "start"
         /\ p = Main => op'[p].pc = "stopRest"
<1>1. CASE p = Main
  BY <1>1, GotoFits DEF AfterStop, PlaceOK, PCs, MainPCs
<1>2. CASE p # Main
  BY <1>2, GotoFits DEF AfterStop, PlaceOK, PCs, ClientPCs
<1> QED BY <1>1, <1>2

\* SetMode.
LEMMA SetModeTypes ==
  ASSUME TypeInv, NEW p \in Procs, SetMode(p)
  PROVE  TypeInv'
<1>1. PICK to \in {"stopPing", "stopGossip"} : Goto(p, to)
  BY DEF SetMode
<1>2. PlaceOK(p, to)
  BY DEF PlaceOK, PCs, MainPCs, ClientPCs
<1>3. Moves(p, op'[p]) /\ Fits(p, op'[p]) /\ op'[p].pc = to
  BY <1>1, <1>2, GotoFits DEF SetMode, gossipVars
<1>4. mode' \in Modes
  BY PlaceAt DEF SetMode, Ops
<1>5. FlagsOK' /\ DataOK'
  <2>1. events' \subseteq Events
    BY EventsGrow DEF SetMode, Events
  <2> QED BY <1>4, <2>1 DEF SetMode, TypeInv, FlagsOK, DataOK, gossipVars, pingVars
<1>6. At(p, "setMode") /\ UNCHANGED <<made, requests, loops, pingLoops>>
  BY DEF SetMode, gossipVars, pingVars
<1> QED BY <1>3, <1>5, <1>6, PlaceMove DEF BeforeChannel, BeforeLoops

\* StopPing.
LEMMA StopPingTypes ==
  ASSUME TypeInv, NEW p \in Procs, StopPing(p)
  PROVE  TypeInv'
<1>1. /\ At(p, "stopPing") /\ UNCHANGED <<made, requests, loops, pingLoops>>
      /\ UNCHANGED <<mode, active, suspicion, stopCh, closed, handlers>>
      /\ events' \in {events, events \cup {"panic"}} /\ stopped' \in {stopped, TRUE}
  BY DEF StopPing, gossipVars, Panic
<1>2. FlagsOK'
  BY <1>1 DEF TypeInv, FlagsOK
<1>3. DataOK'
  <2>1. events' \subseteq Events
    BY <1>1, EventsGrow DEF Events
  <2> QED BY <1>1, <2>1 DEF TypeInv, DataOK
<1>4. CASE Panic(p)
  BY <1>1, <1>2, <1>3, <1>4, PanicFits, PlaceMove DEF BeforeChannel, BeforeLoops
<1>5. CASE AfterStop(p)
  BY <1>1, <1>2, <1>3, <1>5, AfterStopFits, PlaceMove DEF BeforeChannel, BeforeLoops
<1> QED BY <1>4, <1>5 DEF StopPing

\* A process that goes on and takes a channel along.
LEMMA TakeFits ==
  ASSUME TypeInv, NEW p \in Procs, NEW pc, PlaceOK(p, pc), NEW c \in 1..made \cup {Nil},
         op' = [op EXCEPT ![p].pc = pc, ![p].ch = c], made' = made
  PROVE  Moves(p, op'[p]) /\ Fits(p, op'[p]) /\ op'[p].pc = pc
<1>1. op'[p] = [op[p] EXCEPT !.pc = pc, !.ch = c] /\ op[p] \in Ops(made) /\ made \in Nat
  BY PlaceNow DEF TypeInv, ProcsOK
<1>2. [op[p] EXCEPT !.pc = pc, !.ch = c] \in Ops(made)
  BY <1>1, OpsGo DEF PlaceOK
<1>3. op'[p] \in Ops(made') /\ op'[p].pc = pc
  <2>1. [op[p] EXCEPT !.pc = pc, !.ch = c].pc = pc
    BY <1>1 DEF Ops
  <2> QED BY <1>1, <1>2, <2>1
<1> QED BY <1>3 DEF Moves, Fits, PlaceOK

\* StopGossip.
LEMMA StopGossipTypes ==
  ASSUME TypeInv, NEW p \in Procs, StopGossip(p)
  PROVE  TypeInv'
<1>1. /\ At(p, "stopGossip") /\ UNCHANGED <<made, requests, loops, pingLoops>>
      /\ UNCHANGED <<mode, suspicion, stopCh, closed, handlers, stopped>>
      /\ events' \in {events, events \cup {"start beside stop"}}
      /\ active' = active \/ active' = [active EXCEPT !["gossip"] = FALSE]
  BY DEF StopGossip, gossipVars, pingVars
<1>2. FlagsOK'
  <2>1. active' \in [Modes -> BOOLEAN]
    BY <1>1, FlagSet DEF TypeInv, FlagsOK
  <2> QED BY <1>1, <2>1 DEF TypeInv, FlagsOK
<1>3. DataOK'
  <2>1. events' \subseteq Events
    BY <1>1, EventsGrow DEF Events
  <2> QED BY <1>1, <2>1 DEF TypeInv, DataOK
<1>4. CASE AfterStop(p)
  BY <1>1, <1>2, <1>3, <1>4, AfterStopFits, PlaceMove DEF BeforeChannel, BeforeLoops
<1>5. CASE op' = [op EXCEPT ![p].pc = "closeGossip", ![p].ch = stopCh]
  <2>1. PlaceOK(p, "closeGossip") /\ stopCh \in 1..made \cup {Nil}
    BY DEF PlaceOK, PCs, MainPCs, ClientPCs, TypeInv, DataOK
  <2>2. Moves(p, op'[p]) /\ Fits(p, op'[p]) /\ op'[p].pc = "closeGossip"
    BY <1>1, <1>5, <2>1, TakeFits
  <2> QED BY <1>1, <1>2, <1>3, <2>2, PlaceMove DEF BeforeChannel, BeforeLoops
<1> QED BY <1>4, <1>5 DEF StopGossip

\* CloseGossip.
LEMMA CloseGossipTypes ==
  ASSUME TypeInv, NEW p \in Procs, CloseGossip(p)
  PROVE  TypeInv'
<1>1. /\ At(p, "closeGossip") /\ UNCHANGED <<made, requests, loops, pingLoops>>
      /\ UNCHANGED <<mode, active, suspicion, stopCh, handlers, stopped>>
      /\ events' \in {events, events \cup {"panic"}}
      /\ closed' \in {closed, closed \cup ({op[p].ch} \ {Nil})}
  BY DEF CloseGossip, pingVars, Panic
<1>2. FlagsOK'
  BY <1>1 DEF TypeInv, FlagsOK
<1>3. DataOK'
  <2>1. events' \subseteq Events
    BY <1>1, EventsGrow DEF Events
  <2>2. op[p].ch \in 1..made \cup {Nil}
    BY <1>1, PlaceAt DEF Ops
  <2>3. closed' \subseteq 1..made
    BY <1>1, <2>2 DEF TypeInv, DataOK
  <2> QED BY <1>1, <2>1, <2>3 DEF TypeInv, DataOK
<1>4. CASE Panic(p)
  BY <1>1, <1>2, <1>3, <1>4, PanicFits, PlaceMove DEF BeforeChannel, BeforeLoops
<1>5. CASE Goto(p, "waitGossip")
  <2>1. PlaceOK(p, "waitGossip")
    BY DEF PlaceOK, PCs, MainPCs, ClientPCs
  <2> QED BY <1>1, <1>2, <1>3, <1>5, <2>1, GotoFits, PlaceMove DEF BeforeChannel, BeforeLoops
<1> QED BY <1>4, <1>5 DEF CloseGossip

\* WaitGossip and ForgetGossip.
LEMMA ForgetGossipTypes ==
  ASSUME TypeInv, NEW p \in Procs, WaitGossip(p) \/ ForgetGossip(p)
  PROVE  TypeInv'
<1>1. PICK pc \in {"waitGossip", "forgetGossip"} :
        /\ At(p, pc) /\ UNCHANGED <<made, requests, loops, pingLoops>>
        /\ UNCHANGED <<mode, active, suspicion, closed, handlers, stopped, events>>
        /\ stopCh' \in {stopCh, Nil}
  BY DEF WaitGossip, ForgetGossip, pingVars, gossipVars
<1>2. FlagsOK' /\ DataOK'
  BY <1>1 DEF TypeInv, FlagsOK, DataOK
<1>3. CASE WaitGossip(p)
  <2>1. Goto(p, "forgetGossip") /\ PlaceOK(p, "forgetGossip")
    BY <1>3 DEF WaitGossip, PlaceOK, PCs, MainPCs, ClientPCs
  <2> QED BY <1>1, <1>2, <2>1, GotoFits, PlaceMove DEF BeforeChannel, BeforeLoops
<1>4. CASE ForgetGossip(p)
  <2>1. PICK to \in {"stopRest", "start"} :
          /\ (p = Main) = (to = "stopRest") /\ Nil \in 1..made \cup {Nil}
          /\ op' = [op EXCEPT ![p].pc = to, ![p].ch = Nil]
    BY <1>4 DEF ForgetGossip
  <2>2. PlaceOK(p, to)
    BY <2>1 DEF PlaceOK, PCs, MainPCs, ClientPCs
  <2>3. Moves(p, op'[p]) /\ Fits(p, op'[p]) /\ op'[p].pc = to
    BY <1>1, <2>1, <2>2, TakeFits
  <2>4. p # Main => to = "start"
    BY <2>1
  <2> QED BY <1>1, <1>2, <2>3, <2>4, PlaceMove DEF BeforeChannel, BeforeLoops
<1> QED BY <1>3, <1>4

\* Only clients start a manager.
LEMMA ClientsStart ==
  ASSUME TypeInv, NEW p \in Procs, NEW pc \in {"start", "register", "spawn", "setSuspicion"}, At(p, pc)
  PROVE  p # Main /\ p \in Clients
BY PlaceAt DEF PlaceOK, MainPCs, Procs

\* A process that goes on with types to register.
LEMMA TodoFits ==
  ASSUME TypeInv, NEW p \in Procs, NEW pc, PlaceOK(p, pc), NEW todo \in SUBSET Types,
         op'[p] = [op[p] EXCEPT !.pc = pc, !.todo = todo], NEW m \in Nat, m >= made
  PROVE  op'[p] \in Ops(m) /\ op'[p].pc = pc
<1>1. op[p] \in Ops(made) /\ made \in Nat
  BY PlaceNow
<1>2. op[p] \in Ops(m)
  BY <1>1 DEF Ops
<1>3. [op[p] EXCEPT !.pc = pc, !.todo = todo] \in Ops(m)
  BY <1>2, OpsGo DEF PlaceOK
<1>4. [op[p] EXCEPT !.pc = pc, !.todo = todo].pc = pc
  BY <1>2 DEF Ops
<1> QED BY <1>3, <1>4

\* StartGossip: a channel is made, and the budget of channels is less by one start.
LEMMA StartGossipTypes ==
  ASSUME TypeInv, NEW p \in Procs, StartGossip(p)
  PROVE  TypeInv'
<1>1. /\ At(p, "start") /\ UNCHANGED <<mode, suspicion, closed, loops, stopped, pingLoops, handlers, requests>>
      /\ p # Main /\ p \in Clients /\ op[p].pc = "start"
  BY ClientsStart DEF StartGossip, At, pingVars
<1>2. CASE active["gossip"]
  <2>1. Goto(p, "setSuspicion") /\ UNCHANGED <<active, stopCh, made, events>>
    BY <1>2 DEF StartGossip
  <2>2. PlaceOK(p, "setSuspicion")
    BY <1>1 DEF PlaceOK, PCs, ClientPCs
  <2>3. FlagsOK' /\ DataOK'
    BY <1>1, <2>1 DEF TypeInv, FlagsOK, DataOK
  <2> QED BY <1>1, <2>1, <2>2, <2>3, GotoFits, PlaceMove DEF BeforeChannel, BeforeLoops
<1>3. CASE ~active["gossip"]
  <2>1. /\ made' = made + 1 /\ stopCh' = made + 1 /\ active' = [active EXCEPT !["gossip"] = TRUE]
        /\ op' = [op EXCEPT ![p].pc = "register", ![p].todo = Types]
    BY <1>3 DEF StartGossip
  <2>2. ProcsOK /\ made \in Nat \ {0} /\ requests \in Nat /\ made' \in Nat \ {0} /\ made' >= made
    <3>1. made \in Nat \ {0} /\ requests \in 0..MaxRequests /\ ProcsOK
      BY DEF TypeInv, DataOK
    <3>2. made' = made + 1
      BY <2>1
    <3>3. requests \in Nat
      BY <3>1
    <3>4. made' \in Nat \ {0} /\ made' >= made
      BY <3>1, <3>2
    <3> QED BY <3>1, <3>3, <3>4
  <2>3. op'[p] \in Ops(made') /\ op'[p].pc = "register"
    <3>1. op'[p] = [op[p] EXCEPT !.pc = "register", !.todo = Types]
      BY <2>1, <2>2 DEF ProcsOK
    <3>2. PlaceOK(p, "register") /\ Types \in SUBSET Types
      BY <1>1 DEF PlaceOK, PCs, ClientPCs
    <3> QED BY <2>2, <3>1, <3>2, TodoFits
  <2>4. Moves(p, op'[p]) /\ Fits(p, op'[p])
    BY <1>1, <2>1, <2>3 DEF Moves, Fits, ClientPCs, PCs
  <2>5. ProcsOK'
    BY <2>2, <2>4, ProcsKept
  <2>6. DataOK' /\ FlagsOK'
    <3>1. events' \subseteq Events
      BY StartEvents, EventsKept
    <3>2. active' \in [Modes -> BOOLEAN]
      BY <2>1, FlagSet DEF TypeInv, FlagsOK
    <3>3. stopCh' \in 1..made' \cup {Nil}
      <4>1. made' = made + 1 /\ stopCh' = made + 1
        BY <2>1
      <4> QED BY <2>2, <4>1
    <3>4. closed' \subseteq 1..made'
      <4>1. closed \subseteq 1..made /\ 1..made \subseteq 1..(made + 1)
        BY <2>2 DEF TypeInv, DataOK
      <4> QED BY <1>1, <2>1, <4>1
    <3>5. made' \in Nat \ {0}
      BY <2>2
    <3>6. DataOK'
      BY <1>1, <3>1, <3>3, <3>4, <3>5 DEF TypeInv, DataOK
    <3>7. FlagsOK'
      BY <1>1, <3>2 DEF TypeInv, FlagsOK
    <3> QED BY <3>6, <3>7
  <2>7. Budget(BeforeChannel, made)'
    <3>1. BudgetThen(BeforeChannel, made + 1)
      BY <1>1, <2>2, <2>3, <2>4, BudgetUsed DEF TypeInv, BeforeChannel
    <3> QED BY <2>1, <3>1 DEF BudgetThen, Budget
  <2>8. LoopsOK'
    <3>1. PICK s \in Nat : Budget(BeforeLoops, s + pingLoops) /\ \A k \in Kinds : Census(loops[k], s)
      BY DEF TypeInv, LoopsOK
    <3>2. s + pingLoops \in Nat
      BY <3>1 DEF TypeInv, LoopsOK
    <3>3. BudgetThen(BeforeLoops, s + pingLoops)
      BY <1>1, <2>2, <2>4, <3>1, <3>2, BudgetKept DEF BeforeLoops, BeforeChannel
    <3> QED BY <1>1, <3>1, <3>3 DEF TypeInv, LoopsOK, BudgetThen, Budget
  <2> QED BY <2>5, <2>6, <2>7, <2>8 DEF TypeInv
<1> QED BY <1>2, <1>3

\* StartPing.
LEMMA StartPingTypes ==
  ASSUME TypeInv, NEW p \in Procs, StartPing(p)
  PROVE  TypeInv'
<1>1. /\ At(p, "start") /\ op' = [op EXCEPT ![p].pc = "register", ![p].todo = Types] /\ p # Main
      /\ UNCHANGED <<mode, active, suspicion, stopCh, made, closed, loops, stopped, pingLoops,
                     handlers, requests, events>>
  BY ClientsStart DEF StartPing, gossipVars, pingVars
<1>2. op'[p] \in Ops(made') /\ op'[p].pc = "register"
  <2>1. op'[p] = [op[p] EXCEPT !.pc = "register", !.todo = Types]
    BY <1>1 DEF TypeInv, ProcsOK
  <2>2. PlaceOK(p, "register") /\ Types \in SUBSET Types
    BY <1>1 DEF PlaceOK, PCs, ClientPCs
  <2>3. made' = made /\ made \in Nat /\ made >= made
    BY <1>1, PlaceNow
  <2>4. op'[p] \in Ops(made) /\ op'[p].pc = "register"
    BY <2>1, <2>2, <2>3, TodoFits
  <2> QED BY <2>3, <2>4
<1>3. Moves(p, op'[p]) /\ Fits(p, op'[p])
  BY <1>1, <1>2 DEF Moves, Fits, ClientPCs, PCs
<1>4. FlagsOK' /\ DataOK'
  BY <1>1 DEF TypeInv, FlagsOK, DataOK
<1> QED BY <1>1, <1>2, <1>3, <1>4, PlaceMove DEF BeforeChannel, BeforeLoops

\* Register.
LEMMA RegisterTypes ==
  ASSUME TypeInv, NEW p \in Procs, Register(p)
  PROVE  TypeInv'
<1>1. PICK y \in op[p].todo, to \in {"spawn", "register"} :
        /\ handlers' = [handlers EXCEPT ![y] = op[p].mech]
        /\ op' = [op EXCEPT ![p].todo = @ \ {y}, ![p].pc = to]
  BY DEF Register
<1>2. /\ At(p, "register") /\ p # Main
      /\ UNCHANGED <<mode, active, suspicion, stopCh, made, closed, loops, stopped, pingLoops,
                     requests, events>>
  BY ClientsStart DEF Register, gossipVars, pingVars
<1>3. op[p] \in Ops(made) /\ made \in Nat /\ op[p].todo \ {y} \in SUBSET Types
  <2>1. op[p] \in Ops(made) /\ made \in Nat
    BY PlaceNow
  <2> QED BY <2>1 DEF Ops
<1>4. op'[p] \in Ops(made') /\ op'[p].pc = to
  <2>1. op'[p] = [op[p] EXCEPT !.pc = to, !.todo = op[p].todo \ {y}]
    BY <1>1, <1>3 DEF TypeInv, ProcsOK, Ops
  <2>2. PlaceOK(p, to)
    BY <1>2 DEF PlaceOK, PCs, ClientPCs
  <2>3. made' = made /\ made \in Nat /\ made >= made
    BY <1>2, <1>3
  <2>4. op'[p] \in Ops(made) /\ op'[p].pc = to
    BY <1>3, <2>1, <2>2, <2>3, TodoFits
  <2> QED BY <2>3, <2>4
<1>5. Moves(p, op'[p]) /\ Fits(p, op'[p])
  <2>1. op' = [op EXCEPT ![p] = op'[p]]
    BY <1>1
  <2> QED BY <1>2, <1>4, <2>1 DEF Moves, Fits, ClientPCs, PCs
<1>6. handlers' \in [Types -> Modes]
  BY <1>1, <1>3 DEF TypeInv, DataOK, Ops
<1>7. FlagsOK' /\ DataOK'
  BY <1>2, <1>6 DEF TypeInv, FlagsOK, DataOK
<1> QED BY <1>2, <1>4, <1>5, <1>7, PlaceMove DEF BeforeChannel, BeforeLoops

\* SpawnGossip and SpawnPing: a start comes to pass.
LEMMA SpawnTypes ==
  ASSUME TypeInv, NEW p \in Procs, SpawnGossip(p) \/ SpawnPing(p)
  PROVE  TypeInv'
<1>1. /\ At(p, "spawn") /\ Goto(p, "setSuspicion") /\ p # Main /\ p \in Clients /\ op[p].pc = "spawn"
      /\ UNCHANGED <<mode, active, suspicion, stopCh, made, closed, stopped, handlers, requests, events>>
  BY ClientsStart DEF SpawnGossip, SpawnPing, gossipVars, pingVars, At
<1>2. Moves(p, op'[p]) /\ Fits(p, op'[p]) /\ op'[p].pc = "setSuspicion"
  <2>1. PlaceOK(p, "setSuspicion")
    BY <1>1 DEF PlaceOK, PCs, ClientPCs
  <2> QED BY <1>1, <2>1, GotoFits
<1>3. ProcsOK /\ made \in Nat /\ made' \in Nat /\ made' >= made /\ requests \in Nat
  BY <1>1 DEF TypeInv, DataOK
<1>4. ProcsOK' /\ FlagsOK' /\ DataOK'
  BY <1>1, <1>2, <1>3, ProcsKept DEF TypeInv, FlagsOK, DataOK
<1>5. Budget(BeforeChannel, made)'
  <2>1. BudgetThen(BeforeChannel, made)
    BY <1>1, <1>2, <1>3, BudgetKept DEF TypeInv, BeforeChannel
  <2> QED BY <1>1, <2>1 DEF BudgetThen, Budget
<1>6. PICK s \in Nat : Budget(BeforeLoops, s + pingLoops) /\ \A k \in Kinds : Census(loops[k], s)
  BY DEF TypeInv, LoopsOK
<1>7. pingLoops \in Nat /\ loops \in [Kinds -> [Waits -> Nat]] /\ s + pingLoops \in Nat
  BY <1>6 DEF TypeInv, LoopsOK
<1>8. BudgetThen(BeforeLoops, s + pingLoops + 1)
  BY <1>1, <1>2, <1>3, <1>6, <1>7, BudgetUsed DEF BeforeLoops, BeforeChannel
<1>9. CASE SpawnGossip(p)
  <2>1. /\ loops' = [k \in Kinds |-> [loops[k] EXCEPT ![Nil] = @ + 1]] /\ pingLoops' = pingLoops
    BY <1>9 DEF SpawnGossip, pingVars
  <2>2. \A k \in Kinds : Census(loops'[k], s + 1)
    BY <1>6, <2>1, CensusBegin
  <2>3. loops' \in [Kinds -> [Waits -> Nat]]
    BY <1>7, <2>1 DEF Waits
  <2>4. s + 1 \in Nat /\ (s + 1) + pingLoops' = s + pingLoops + 1
    BY <1>7, <2>1
  <2>5. Budget(BeforeLoops, (s + 1) + pingLoops)'
    BY <1>8, <2>4 DEF BudgetThen, Budget
  <2>6. LoopsOK'
    BY <1>7, <2>1, <2>2, <2>3, <2>4, <2>5 DEF LoopsOK
  <2> QED BY <1>4, <1>5, <2>6 DEF TypeInv
<1>10. CASE SpawnPing(p)
  <2>1. pingLoops' = pingLoops + 1 /\ loops' = loops
    BY <1>10 DEF SpawnPing, gossipVars
  <2>2. s + pingLoops' = s + pingLoops + 1 /\ pingLoops' \in Nat
    BY <1>7, <2>1
  <2>3. Budget(BeforeLoops, s + pingLoops)'
    BY <1>8, <2>2 DEF BudgetThen, Budget
  <2>4. LoopsOK'
    BY <1>6, <1>7, <2>1, <2>2, <2>3 DEF LoopsOK
  <2> QED BY <1>4, <1>5, <2>4 DEF TypeInv
<1> QED BY <1>9, <1>10

\* SetSuspicion.
LEMMA SetSuspicionTypes ==
  ASSUME TypeInv, NEW p \in Procs, SetSuspicion(p)
  PROVE  TypeInv'
<1>1. /\ At(p, "setSuspicion") /\ Done(p) /\ suspicion' = [suspicion EXCEPT ![mode] = op[p].susp]
      /\ UNCHANGED <<mode, active, stopCh, made, closed, loops, stopped, pingLoops, handlers,
                     requests, events>>
  BY DEF SetSuspicion, gossipVars, pingVars
<1>2. Moves(p, op'[p]) /\ Fits(p, op'[p]) /\ op'[p].pc = "idle"
  BY <1>1, DoneFits
<1>3. suspicion' \in [Modes -> BOOLEAN]
  <2>1. op[p].susp \in BOOLEAN
    BY PlaceNow DEF Ops
  <2> QED BY <1>1, <2>1, FlagSet DEF TypeInv, FlagsOK
<1>4. FlagsOK' /\ DataOK'
  BY <1>1, <1>3 DEF TypeInv, FlagsOK, DataOK
<1> QED BY <1>1, <1>2, <1>4, PlaceMove DEF BeforeChannel, BeforeLoops

\* Signal, Drain, StopController and StopRest.
LEMMA MainTypes ==
  ASSUME TypeInv, Signal \/ Drain \/ StopController \/ StopRest
  PROVE  TypeInv'
<1>1. PICK pc \in PCs, to \in {"drain", "stop", "stopGossip", "stopPing", "exited"} :
        /\ At(Main, pc) /\ Goto(Main, to)
        /\ events' \in {events, events \cup {"overlap"}}
        /\ UNCHANGED <<mode, active, suspicion, stopCh, made, closed, loops, stopped, pingLoops,
                       handlers, requests>>
  BY DEF Signal, Drain, StopController, StopRest, PCs, gossipVars, pingVars
<1>2. PlaceOK(Main, to) /\ Main \in Procs
  BY DEF PlaceOK, PCs, MainPCs, Procs
<1>3. Moves(Main, op'[Main]) /\ Fits(Main, op'[Main])
  BY <1>1, <1>2, GotoFits
<1>4. events' \subseteq Events
  BY <1>1, EventsGrow DEF Events
<1>5. FlagsOK' /\ DataOK'
  BY <1>1, <1>4 DEF TypeInv, FlagsOK, DataOK
<1> QED BY <1>1, <1>3, <1>5, TypeMove

\* The loops go on.
LEMMA LoopTypes ==
  ASSUME TypeInv, NEW k \in Kinds, NEW c \in Waits, TakeTurn(k, c) \/ EndLoop(k, c)
  PROVE  TypeInv'
<1>1. /\ UNCHANGED <<mode, active, suspicion, stopCh, made, closed, stopped, pingLoops, handlers, op,
                     requests, events>>
      /\ loops[k][c] > 0
  BY DEF TakeTurn, EndLoop, pingVars
<1>2. PICK d \in Waits \cup {0} :
        /\ c # d
        /\ loops' = [loops EXCEPT ![k] =
                       [e \in Waits |-> IF e = c THEN loops[k][e] - 1
                                        ELSE IF e = d THEN loops[k][e] + 1 ELSE loops[k][e]]]
  <2>1. CASE TakeTurn(k, c)
    <3>1. stopCh \in Waits /\ stopCh \in Waits \cup {0} /\ c # stopCh
      <4>1. made \in Nat /\ requests \in 0..MaxRequests /\ stopCh \in 1..made \cup {Nil}
        BY DEF TypeInv, DataOK
      <4>2. Cardinality(Ahead(BeforeChannel)) + made <= requests + 1
            /\ Cardinality(Ahead(BeforeChannel)) \in Nat
        BY FS_CardinalityType DEF TypeInv, Budget
      <4>3. made <= MaxRequests + 1
        BY <4>1, <4>2
      <4> QED BY <2>1, <4>1, <4>3 DEF Waits, Channels, TakeTurn
    <3>2. loops' = [loops EXCEPT ![k][c] = @ - 1, ![k][stopCh] = @ + 1]
      BY <2>1 DEF TakeTurn
    <3>3. loops' = [loops EXCEPT ![k] =
                       [e \in Waits |-> IF e = c THEN loops[k][e] - 1
                                        ELSE IF e = stopCh THEN loops[k][e] + 1 ELSE loops[k][e]]]
      BY <3>1, <3>2 DEF TypeInv, LoopsOK
    <3> QED BY <3>1, <3>3
  <2>2. CASE EndLoop(k, c)
    <3>1. loops' = [loops EXCEPT ![k][c] = @ - 1]
      BY <2>2 DEF EndLoop
    <3>2. 0 \notin Waits
      BY DEF Waits, Channels
    <3>3. loops' = [loops EXCEPT ![k] =
                       [e \in Waits |-> IF e = c THEN loops[k][e] - 1
                                        ELSE IF e = 0 THEN loops[k][e] + 1 ELSE loops[k][e]]]
      BY <3>1, <3>2 DEF TypeInv, LoopsOK
    <3> QED BY <3>2, <3>3
  <2> QED BY <2>1, <2>2
<1>3. PICK s \in Nat : Budget(BeforeLoops, s + pingLoops) /\ \A j \in Kinds : Census(loops[j], s)
  BY DEF TypeInv, LoopsOK
<1> DEFINE f == [e \in Waits |-> IF e = c THEN loops[k][e] - 1
                                 ELSE IF e = d THEN loops[k][e] + 1 ELSE loops[k][e]]
<1>4. Census(f, s)
  BY <1>1, <1>2, <1>3, CensusMove
<1>5. loops' = [loops EXCEPT ![k] = f]
  BY <1>2
<1>6. f \in [Waits -> Nat]
  <2>1. loops[k] \in [Waits -> Nat]
    BY DEF TypeInv, LoopsOK
  <2> QED BY <1>1, <2>1
<1> HIDE DEF f
<1>7. loops' \in [Kinds -> [Waits -> Nat]] /\ \A j \in Kinds : Census(loops'[j], s)
  BY <1>3, <1>4, <1>5, <1>6 DEF TypeInv, LoopsOK
<1>8. LoopsOK'
  <2>1. Budget(BeforeLoops, s + pingLoops)'
    BY <1>1, <1>3 DEF Budget, Ahead
  <2> QED BY <1>1, <1>7, <2>1 DEF TypeInv, LoopsOK
<1>9. FlagsOK' /\ ProcsOK' /\ DataOK' /\ Budget(BeforeChannel, made)'
  BY <1>1 DEF TypeInv, FlagsOK, ProcsOK, DataOK, Budget, Ahead
<1> QED BY <1>8, <1>9 DEF TypeInv

\* The pingack loops of a Start end.
LEMMA EndPingTypes ==
  ASSUME TypeInv, EndPingLoops
  PROVE  TypeInv'
<1>1. /\ UNCHANGED <<mode, active, suspicion, stopCh, made, closed, loops, stopped, handlers, op,
                     requests, events>>
      /\ pingLoops > 0 /\ pingLoops' = pingLoops - 1
  BY DEF EndPingLoops, gossipVars
<1>2. PICK s \in Nat : Budget(BeforeLoops, s + pingLoops) /\ \A k \in Kinds : Census(loops[k], s)
  BY DEF TypeInv, LoopsOK
<1>3. pingLoops \in Nat /\ pingLoops' \in Nat /\ requests \in Nat
  BY <1>1 DEF TypeInv, LoopsOK, DataOK
<1>4. Budget(BeforeLoops, s + pingLoops)'
  <2>1. IsFiniteSet(Ahead(BeforeLoops)) /\ Cardinality(Ahead(BeforeLoops)) \in Nat
        /\ Cardinality(Ahead(BeforeLoops)) + (s + pingLoops) <= requests + 1
    BY <1>2, FS_CardinalityType DEF Budget
  <2>2. Ahead(BeforeLoops)' = Ahead(BeforeLoops)
    BY <1>1 DEF Ahead
  <2>3. Cardinality(Ahead(BeforeLoops)) + (s + pingLoops') <= requests + 1
    BY <1>1, <1>3, <2>1
  <2> QED BY <1>1, <2>1, <2>2, <2>3 DEF Budget
<1>5. LoopsOK'
  BY <1>1, <1>2, <1>3, <1>4 DEF TypeInv, LoopsOK
<1>6. FlagsOK' /\ ProcsOK' /\ DataOK' /\ Budget(BeforeChannel, made)'
  BY <1>1 DEF TypeInv, FlagsOK, ProcsOK, DataOK, Budget, Ahead
<1> QED BY <1>5, <1>6 DEF TypeInv

\* Before the first request.
LEMMA InitTypes == Init => TypeInv
<1> SUFFICES ASSUME Init PROVE TypeInv
  OBVIOUS
<1>1. FlagsOK
  <2>1. active = [m \in Modes |-> m = "ping" \/ mode = "gossip"]
    BY DEF Init
  <2>2. \A m \in Modes : (m = "ping" \/ mode = "gossip") \in BOOLEAN
    BY Zenon
  <2>3. active \in [Modes -> BOOLEAN]
    BY <2>1, <2>2, Zenon
  <2>4. suspicion \in [Modes -> BOOLEAN] /\ stopped \in BOOLEAN
    BY DEF Init, Modes
  <2> QED BY <2>3, <2>4 DEF FlagsOK
<1>2. DataOK
  BY DEF Init, DataOK, Events
<1>3. /\ ProcsOK
      /\ \A p \in Clients : op[p].pc = "idle"
  <2>1. PICK pc \in {"idle", "join"} :
          op = [p \in Procs |-> IF p = Main THEN [Idle EXCEPT !.pc = pc] ELSE Idle]
    BY DEF Init
  <2>2. made = 1 /\ Main \in Procs /\ pc \in PCs
    BY DEF Init, Procs, PCs
  <2>3. Idle \in Ops(1) /\ Idle.pc = "idle"
    BY IdleType
  <2>4. [Idle EXCEPT !.pc = pc] \in Ops(1) /\ [Idle EXCEPT !.pc = pc].pc = pc
    BY <2>2, <2>3 DEF Ops
  <2> HIDE DEF Idle
  <2>5. op \in [Procs -> Ops(1)] /\ op[Main].pc = pc /\ \A p \in Clients : op[p].pc = "idle"
    BY <2>1, <2>2, <2>3, <2>4 DEF Procs
  <2> QED BY <2>2, <2>5 DEF ProcsOK, MainPCs, ClientPCs, PCs
<1>4. Ahead(BeforeChannel) = {} /\ Ahead(BeforeLoops) = {}
  BY <1>3 DEF Ahead, BeforeChannel, BeforeLoops
<1>5. requests = 0 /\ made = 1 /\ IsFiniteSet({}) /\ Cardinality({}) = 0
  BY FS_EmptySet DEF Init
<1>6. Budget(BeforeChannel, made)
  BY <1>4, <1>5 DEF Budget
<1>7. LoopsOK
  <2> DEFINE n == IF mode = "gossip" THEN 1 ELSE 0
             f == [c \in Waits |-> IF c = Nil /\ mode = "gossip" THEN 1 ELSE 0]
             w == [i \in 1..n |-> Nil]
  <2>1. loops = [k \in Kinds |-> f] /\ pingLoops \in Nat /\ n \in Nat /\ n + pingLoops = 1
    BY DEF Init, Waits, Modes
  <2>2. Budget(BeforeLoops, n + pingLoops)
    BY <1>4, <1>5, <2>1 DEF Budget
  <2>3. Census(f, n)
    <3>1. w \in [1..n -> Waits \cup {0}]
      BY DEF Waits
    <3>2. \A c \in Waits : With(w, n, c) = IF c = Nil THEN 1..n ELSE {}
      BY DEF With
    <3>3. Cardinality(1..n) = n /\ Cardinality({}) = 0
      BY FS_Interval, FS_EmptySet, <2>1
    <3>4. f = [c \in Waits |-> Cardinality(With(w, n, c))]
      <4> HIDE DEF w
      <4> QED BY <3>2, <3>3
    <3> HIDE DEF w, f, n
    <3> QED BY <3>1, <3>4 DEF Census
  <2>4. f \in [Waits -> Nat]
    OBVIOUS
  <2> HIDE DEF f, n
  <2> QED BY <2>1, <2>2, <2>3, <2>4 DEF LoopsOK
<1> QED BY <1>1, <1>2, <1>3, <1>6, <1>7 DEF TypeInv

\* What happens in a step of Next: a request, a step of an operation, of a loop or of Main.
LEMMA TypeInvariant == Spec => []TypeInv
<1>1. TypeInv /\ [Next]_vars => TypeInv'
  <2> SUFFICES ASSUME TypeInv, [Next]_vars PROVE TypeInv'
    OBVIOUS
  <2>1. ASSUME NEW p \in Clients, NEW m \in Modes, NEW s \in Suspicions, SwitchRequest(p, m, s)
        PROVE  TypeInv'
    BY <2>1, ArriveTypes DEF SwitchRequest
  <2>2. ASSUME NEW p \in Clients, JoinRequest(p) \/ LeaveRequest(p)
        PROVE  TypeInv'
    <3>1. "gossip" \in Modes /\ FALSE \in BOOLEAN
      BY DEF Modes
    <3> QED BY <2>2, <3>1, ArriveTypes DEF JoinRequest, LeaveRequest
  <2>3. ASSUME NEW p \in Procs, Step(p) PROVE TypeInv'
    BY <2>3, RouteTypes, GroupTypes, SetModeTypes, StopPingTypes, StopGossipTypes,
       CloseGossipTypes, ForgetGossipTypes, StartGossipTypes, StartPingTypes, RegisterTypes,
       SpawnTypes, SetSuspicionTypes DEF Step
  <2>4. ASSUME NEW k \in Kinds, NEW c \in Waits, TakeTurn(k, c) \/ EndLoop(k, c) PROVE TypeInv'
    BY <2>4, LoopTypes
  <2>5. CASE Signal \/ Drain \/ StopController \/ StopRest
    BY <2>5, MainTypes
  <2>6. CASE UNCHANGED vars
    BY <2>6 DEF vars, TypeInv, FlagsOK, ProcsOK, DataOK, LoopsOK, Budget, Ahead
  <2> QED BY <2>1, <2>2, <2>3, <2>4, <2>5, <2>6, EndPingTypes DEF Next, Waits
<1> QED BY InitTypes, <1>1, PTL DEF Spec

\* The type invariant; that no more channels are made and loops run than requests came
\* needs the count of the switches under way.
THEOREM LifecycleTypeOK == Spec => []TypeOK
<1>1. TypeInv => TypeOK
  <2> SUFFICES ASSUME TypeInv PROVE TypeOK
    OBVIOUS
  <2>1. made \in 0..(MaxRequests + 1)
    <3>1. made \in Nat /\ requests \in 0..MaxRequests
      BY DEF TypeInv, DataOK
    <3>2. Cardinality(Ahead(BeforeChannel)) + made <= requests + 1
          /\ Cardinality(Ahead(BeforeChannel)) \in Nat
      BY FS_CardinalityType DEF TypeInv, Budget
    <3> QED BY <3>1, <3>2
  <2>2. PICK s \in Nat : Budget(BeforeLoops, s + pingLoops) /\ \A k \in Kinds : Census(loops[k], s)
    BY DEF TypeInv, LoopsOK
  <2>3. s <= MaxRequests + 1 /\ pingLoops \in 0..(MaxRequests + 1)
    <3>1. pingLoops \in Nat /\ requests \in 0..MaxRequests
      BY DEF TypeInv, LoopsOK, DataOK
    <3>2. Cardinality(Ahead(BeforeLoops)) + (s + pingLoops) <= requests + 1
          /\ Cardinality(Ahead(BeforeLoops)) \in Nat
      BY <2>2, FS_CardinalityType DEF Budget
    <3> QED BY <3>1, <3>2
  <2>4. loops \in [Kinds -> [Waits -> 0..(MaxRequests + 1)]]
    <3>1. \A k \in Kinds : loops[k] \in [Waits -> 0..s]
      BY <2>2, CensusBound
    <3>2. 0..s \subseteq 0..(MaxRequests + 1)
      BY <2>3
    <3>3. \A k \in Kinds : loops[k] \in [Waits -> 0..(MaxRequests + 1)]
      BY <3>1, <3>2
    <3> QED BY <3>3 DEF TypeInv, LoopsOK
  <2>5. \A p \in Procs : /\ op[p].pc \in PCs
                         /\ op[p].mech \in Modes /\ op[p].susp \in BOOLEAN
                         /\ op[p].ch \in 1..made \cup {Nil}
                         /\ op[p].todo \subseteq Types
    BY PlaceNow DEF Ops
  <2> QED BY <2>1, <2>3, <2>4, <2>5 DEF TypeOK, TypeInv, FlagsOK, DataOK, Waits
<1> QED BY TypeInvariant, <1>1, PTL

-----------------------------------------------------------------------------
(* Stops at the same time                                                  *)

Closing(p) == op[p].pc = "closeGossip"
StopPCs    == {"closeGossip", "waitGossip", "forgetGossip"}

\* The channel of an active manager is open and nobody is about to close it; whoever is
\* about to close one closes an open one of his own; a closed channel is forgotten by
\* someone who is in Stop.
ClosingOK ==
  /\ active["gossip"] =>
       stopCh \notin closed /\ \A p \in Procs : Closing(p) => op[p].ch # stopCh \/ stopCh = Nil
  /\ \A p \in Procs : Closing(p) => op[p].ch \notin closed
  /\ \A p, q \in Procs : Closing(p) /\ Closing(q) /\ p # q => op[p].ch # op[q].ch \/ op[p].ch = Nil
  /\ stopCh \in closed => \E q \in Procs : op[q].pc \in StopPCs

\* This holds as long as no JoinGroup has set active during a Stop.
ClosingInv == "join in stop" \in events \/ ClosingOK

\* A step of a process that is not in Stop and does not make the manager active.
LEMMA ClosingAside ==
  ASSUME TypeInv, ClosingOK, NEW p, NEW o, Moves(p, o), op[p].pc \notin StopPCs, o.pc \notin StopPCs,
         UNCHANGED <<stopCh, closed>>, active'["gossip"] => active["gossip"]
  PROVE  ClosingOK'
<1>1. \A q \in Procs : op'[q].pc \in StopPCs => op'[q] = op[q] /\ op[q].pc \in StopPCs
  BY DEF Moves, TypeInv, ProcsOK
<1>2. \A q \in Procs : op[q].pc \in StopPCs => op'[q] = op[q]
  BY DEF Moves, TypeInv, ProcsOK
<1>3. \A q \in Procs : op'[q].pc = "closeGossip" => op'[q] = op[q] /\ Closing(q)
  BY <1>1 DEF StopPCs, Closing
<1> QED BY <1>1, <1>2, <1>3 DEF ClosingOK, Closing

\* A request comes, and nothing else.
LEMMA ClosingArrive ==
  ASSUME TypeInv, ClosingInv, NEW p \in Clients, NEW o, Arrive(p, o), o.pc \notin StopPCs
  PROVE  ClosingInv'
<1>1. op[p].pc \notin StopPCs /\ Moves(p, o) /\ UNCHANGED <<stopCh, closed, active>>
  BY DEF Arrive, At, StopPCs, Moves, Procs, gossipVars
<1>2. "join in stop" \in events => "join in stop" \in events'
  BY DEF Arrive
<1> QED BY <1>1, <1>2, ClosingAside DEF ClosingInv

\* A process in Start of the gossip manager, past the lock.
Starting(p) == op[p].pc \in {"register", "spawn"} /\ op[p].mech = "gossip"

\* A step that leaves the gossip manager as it is, or begins its loops.
Elsewhere(p) ==
  \/ RouteJoin(p) \/ RouteLeave(p) \/ LeaveGroup(p) \/ SetMode(p) \/ StopPing(p)
  \/ StartPing(p) \/ Register(p) \/ SpawnGossip(p) \/ SpawnPing(p) \/ SetSuspicion(p)

\* Where such a step goes: not into Stop, nor into Start.
LEMMA ElsewhereMoves ==
  ASSUME TypeInv, NEW p \in Procs, Elsewhere(p)
  PROVE  /\ Moves(p, op'[p]) /\ op[p].pc \notin StopPCs /\ op'[p].pc \notin StopPCs
         /\ Starting(p)' => Starting(p)
         /\ UNCHANGED <<stopCh, closed>> /\ events \subseteq events'
<1>1. PICK pc \in PCs \ StopPCs : At(p, pc)
  BY DEF Elsewhere, RouteJoin, RouteLeave, Route, LeaveGroup, SetMode, StopPing, StartPing, Register,
         SpawnGossip, SpawnPing, SetSuspicion, PCs, StopPCs
<1>2. UNCHANGED <<stopCh, closed>> /\ events \subseteq events'
  BY DEF Elsewhere, RouteJoin, RouteLeave, Route, LeaveGroup, SetMode, StopPing, StartPing, Register,
         SpawnGossip, SpawnPing, SetSuspicion, gossipVars, Panic
<1>3. Moves(p, op'[p]) /\ op'[p].pc \notin StopPCs /\ (Starting(p)' => Starting(p))
  <2>1. CASE RouteJoin(p) \/ RouteLeave(p)
    BY <2>1 DEF RouteJoin, RouteLeave, Route, Moves, StopPCs, Starting, TypeInv, ProcsOK, Ops
  <2>2. CASE LeaveGroup(p) \/ SetSuspicion(p)
    BY <2>2, DoneFits DEF LeaveGroup, SetSuspicion, gossipVars, StopPCs, Starting
  <2>3. CASE SetMode(p) \/ SpawnGossip(p) \/ SpawnPing(p)
    <3>1. PICK to \in {"stopPing", "stopGossip", "setSuspicion"} : Goto(p, to)
      BY <2>3 DEF SetMode, SpawnGossip, SpawnPing
    <3> QED BY <3>1 DEF Goto, Moves, StopPCs, Starting, TypeInv, ProcsOK, Ops
  <2>4. CASE StopPing(p)
    <3>1. Panic(p) \/ AfterStop(p)
      BY <2>4 DEF StopPing
    <3>2. made' = made
      BY <2>4 DEF StopPing, gossipVars
    <3>3. CASE Panic(p)
      BY <3>2, <3>3, PanicFits DEF StopPCs, Starting
    <3>4. CASE AfterStop(p)
      BY <3>2, <3>4, AfterStopFits DEF StopPCs, Starting
    <3> QED BY <3>1, <3>3, <3>4
  <2>5. CASE StartPing(p)
    <3> DEFINE x == [op[p] EXCEPT !.pc = "register", !.todo = Types]
    <3>1. op' = [op EXCEPT ![p].pc = "register", ![p].todo = Types] /\ op[p].mech = "ping"
      BY <2>5 DEF StartPing
    <3>2. op \in [Procs -> Ops(made)]
      BY DEF TypeInv, ProcsOK
    <3>3. x.pc = "register" /\ x.mech = op[p].mech
      BY <3>2 DEF Ops
    <3>4. op' = [op EXCEPT ![p] = x]
      BY <3>1, <3>2 DEF Ops
    <3> HIDE DEF x
    <3>5. op'[p] = x
      BY <3>2, <3>4
    <3> QED BY <3>1, <3>3, <3>4, <3>5 DEF Moves, StopPCs, Starting
  <2>6. CASE Register(p)
    <3>1. PICK y \in op[p].todo, to \in {"spawn", "register"} : op' = [op EXCEPT ![p].todo = @ \ {y}, ![p].pc = to]
      BY <2>6 DEF Register
    <3> DEFINE x == [op[p] EXCEPT !.todo = @ \ {y}, !.pc = to]
    <3>2. op \in [Procs -> Ops(made)]
      BY DEF TypeInv, ProcsOK
    <3>3. x.pc = to /\ x.mech = op[p].mech
      BY <3>2 DEF Ops
    <3>4. op' = [op EXCEPT ![p] = x]
      BY <3>1, <3>2 DEF Ops
    <3> HIDE DEF x
    <3>5. op'[p] = x
      BY <3>2, <3>4
    <3>6. x.pc \notin StopPCs
      BY <3>3 DEF StopPCs
    <3>7. op[p].pc = "register"
      BY <2>6 DEF Register, At
    <3> QED BY <3>3, <3>4, <3>5, <3>6, <3>7 DEF Moves, Starting
  <2> QED BY <2>1, <2>2, <2>3, <2>4, <2>5, <2>6 DEF Elsewhere
<1>4. op[p].pc \notin StopPCs
  BY <1>1 DEF At
<1> QED BY <1>2, <1>3, <1>4

\* Such steps do not touch what Stop closes.
LEMMA ClosingElsewhere ==
  ASSUME TypeInv, ClosingInv, NEW p \in Procs, Elsewhere(p)
  PROVE  ClosingInv'
<1>1. active'["gossip"] => active["gossip"]
  <2>1. CASE LeaveGroup(p)
    <3>1. active' = [active EXCEPT ![op[p].mech] = FALSE] /\ active \in [Modes -> BOOLEAN] /\ "gossip" \in Modes
      BY <2>1 DEF LeaveGroup, TypeInv, FlagsOK, Modes
    <3> QED BY <3>1
  <2>2. CASE UNCHANGED active
    BY <2>2
  <2> QED BY <2>1, <2>2 DEF Elsewhere, RouteJoin, RouteLeave, Route, SetMode, StopPing, StartPing, Register,
                            SpawnGossip, SpawnPing, SetSuspicion
<1> QED BY <1>1, ElsewhereMoves, ClosingAside DEF ClosingInv

\* JoinGroup: the manager becomes active, but not during a Stop.
LEMMA ClosingJoin ==
  ASSUME TypeInv, ClosingInv, NEW p \in Procs, JoinGroup(p)
  PROVE  ClosingInv'
<1>1. /\ op[p].pc = "joinWrite" /\ Done(p) /\ UNCHANGED <<stopCh, closed, made>>
      /\ active' = [active EXCEPT ![op[p].mech] = TRUE]
      /\ "join in stop" \in events => "join in stop" \in events'
      /\ op[p].mech = "gossip" /\ InStop => "join in stop" \in events'
  BY DEF JoinGroup, At, gossipVars
<1>2. Moves(p, op'[p]) /\ op'[p].pc \notin StopPCs /\ op[p].pc \notin StopPCs
  BY <1>1, DoneFits DEF StopPCs
<1>3. CASE "join in stop" \in events'
  BY <1>3 DEF ClosingInv
<1>4. CASE "join in stop" \notin events' /\ op[p].mech # "gossip"
  <2>1. active'["gossip"] = active["gossip"]
    BY <1>1, <1>4 DEF TypeInv, FlagsOK, Modes
  <2> QED BY <1>1, <1>2, <1>4, <2>1, ClosingAside DEF ClosingInv
<1>5. CASE "join in stop" \notin events' /\ op[p].mech = "gossip"
  <2>1. ~InStop /\ "join in stop" \notin events
    BY <1>1, <1>5
  <2>2. \A q \in Procs : op[q].pc \notin StopPCs
    BY <2>1 DEF InStop, StopPCs
  <2>3. \A q \in Procs : op'[q].pc \notin StopPCs
    BY <1>2, <2>2 DEF Moves, TypeInv, ProcsOK
  <2>4. stopCh \notin closed
    BY <1>5, <2>1, <2>2 DEF ClosingInv, ClosingOK
  <2> QED BY <1>1, <2>3, <2>4 DEF ClosingInv, ClosingOK, Closing, StopPCs
<1> QED BY <1>3, <1>4, <1>5

\* StopGossip: an active manager is made inactive, and its channel taken.
LEMMA ClosingStop ==
  ASSUME TypeInv, ClosingInv, NEW p \in Procs, StopGossip(p)
  PROVE  ClosingInv'
<1>1. /\ op[p].pc = "stopGossip" /\ UNCHANGED <<stopCh, closed, made>>
      /\ "join in stop" \in events => "join in stop" \in events'
  BY DEF StopGossip, At, gossipVars
<1>2. CASE ~active["gossip"]
  <2>1. AfterStop(p) /\ active' = active
    BY <1>2 DEF StopGossip
  <2>2. Moves(p, op'[p]) /\ op'[p].pc \notin StopPCs /\ op[p].pc \notin StopPCs
    BY <1>1, <2>1, AfterStopFits DEF StopPCs
  <2> QED BY <1>1, <2>1, <2>2, ClosingAside DEF ClosingInv
<1>3. CASE active["gossip"] /\ ClosingOK
  <2>1. /\ op' = [op EXCEPT ![p].pc = "closeGossip", ![p].ch = stopCh]
        /\ active' = [active EXCEPT !["gossip"] = FALSE]
    BY <1>3 DEF StopGossip
  <2>2. /\ \A q \in Procs : q # p => op'[q] = op[q]
        /\ op'[p].pc = "closeGossip" /\ op'[p].ch = stopCh
    BY <2>1 DEF TypeInv, ProcsOK, Ops
  <2>3. ~active'["gossip"]
    BY <2>1 DEF TypeInv, FlagsOK, Modes
  <2>4. \A q \in Procs : Closing(q)' => op'[q].ch \notin closed
    BY <1>3, <2>2 DEF ClosingOK, Closing
  <2>5. \A q, r \in Procs : Closing(q)' /\ Closing(r)' /\ q # r => op'[q].ch # op'[r].ch \/ op'[q].ch = Nil
    BY <1>3, <2>2 DEF ClosingOK, Closing
  <2>6. \E q \in Procs : op'[q].pc \in StopPCs
    BY <2>2 DEF StopPCs
  <2> QED BY <1>1, <2>3, <2>4, <2>5, <2>6 DEF ClosingInv, ClosingOK, Closing
<1> QED BY <1>1, <1>2, <1>3 DEF ClosingInv

\* CloseGossip: the channel is open, and nobody else is about to close it.
LEMMA ClosingClose ==
  ASSUME TypeInv, ClosingInv, NEW p \in Procs, CloseGossip(p)
  PROVE  ClosingInv'
<1>1. /\ op[p].pc = "closeGossip" /\ UNCHANGED <<stopCh, active>>
      /\ "join in stop" \in events => "join in stop" \in events'
  BY DEF CloseGossip, At, Panic
<1>2. CASE ClosingOK
  <2>1. op[p].ch \notin closed
    BY <1>1, <1>2 DEF ClosingOK, Closing
  <2>2. closed' = closed \cup ({op[p].ch} \ {Nil}) /\ Goto(p, "waitGossip")
    BY <2>1 DEF CloseGossip
  <2>3. /\ \A q \in Procs : q # p => op'[q] = op[q]
        /\ op'[p].pc = "waitGossip"
    BY <2>2 DEF Goto, TypeInv, ProcsOK, Ops
  <2>4. \A q \in Procs : Closing(q)' => q # p /\ Closing(q) /\ op'[q] = op[q]
    BY <2>3 DEF Closing
  <2>5. \A q \in Procs : Closing(q)' => op'[q].ch \notin closed'
    BY <1>1, <1>2, <2>2, <2>4 DEF ClosingOK, Closing
  <2>6. \A q, r \in Procs : Closing(q)' /\ Closing(r)' /\ q # r => op'[q].ch # op'[r].ch \/ op'[q].ch = Nil
    BY <1>2, <2>4 DEF ClosingOK
  <2>7. active["gossip"] => stopCh \notin closed' /\ \A q \in Procs : Closing(q)' => op'[q].ch # stopCh \/ stopCh = Nil
    BY <1>1, <1>2, <2>2, <2>4 DEF ClosingOK, Closing
  <2>8. \E q \in Procs : op'[q].pc \in StopPCs
    BY <2>3 DEF StopPCs
  <2> QED BY <1>1, <2>5, <2>6, <2>7, <2>8 DEF ClosingInv, ClosingOK, Closing
<1> QED BY <1>1, <1>2 DEF ClosingInv

\* WaitGossip and ForgetGossip: nobody comes to close, and a closed channel is forgotten
\* by the last one in Stop.
LEMMA ClosingForget ==
  ASSUME TypeInv, ClosingInv, NEW p \in Procs, WaitGossip(p) \/ ForgetGossip(p)
  PROVE  ClosingInv'
<1>1. /\ UNCHANGED <<closed, active, events>> /\ closed \subseteq 1..made /\ Nil \notin closed
      /\ op[p].pc \in {"waitGossip", "forgetGossip"}
  BY DEF WaitGossip, ForgetGossip, At, gossipVars, TypeInv, DataOK
<1>2. /\ \A q \in Procs : q # p => op'[q] = op[q]
      /\ op'[p].pc # "closeGossip"
      /\ WaitGossip(p) => op'[p].pc = "forgetGossip" /\ stopCh' = stopCh
      /\ ForgetGossip(p) => stopCh' = Nil
  BY DEF WaitGossip, ForgetGossip, Goto, gossipVars, TypeInv, ProcsOK, Ops
<1>3. \A q \in Procs : Closing(q)' => Closing(q) /\ op'[q] = op[q]
  BY <1>2 DEF Closing
<1>4. CASE ClosingOK
  <2>1. \A q \in Procs : Closing(q)' => op'[q].ch \notin closed
    BY <1>3, <1>4 DEF ClosingOK
  <2>2. \A q, r \in Procs : Closing(q)' /\ Closing(r)' /\ q # r => op'[q].ch # op'[r].ch \/ op'[q].ch = Nil
    BY <1>3, <1>4 DEF ClosingOK
  <2>3. active["gossip"] => stopCh' \notin closed /\ \A q \in Procs : Closing(q)' => op'[q].ch # stopCh' \/ stopCh' = Nil
    BY <1>1, <1>2, <1>3, <1>4 DEF ClosingOK
  <2>4. stopCh' \in closed => \E q \in Procs : op'[q].pc \in StopPCs
    BY <1>1, <1>2 DEF StopPCs
  <2> QED BY <1>1, <2>1, <2>2, <2>3, <2>4 DEF ClosingInv, ClosingOK, Closing
<1> QED BY <1>1, <1>4 DEF ClosingInv

\* StartGossip: the channel is a new one.
LEMMA ClosingStart ==
  ASSUME TypeInv, ClosingInv, NEW p \in Procs, StartGossip(p)
  PROVE  ClosingInv'
<1>1. /\ op[p].pc = "start" /\ closed' = closed
      /\ "join in stop" \in events => "join in stop" \in events'
  BY DEF StartGossip, At
<1>2. PICK to \in {"setSuspicion", "register"} :
        /\ \A q \in Procs : q # p => op'[q] = op[q]
        /\ op'[p].pc = to
  <2>1. PICK to \in {"setSuspicion", "register"} :
          Goto(p, to) \/ op' = [op EXCEPT ![p].pc = to, ![p].todo = Types]
    BY DEF StartGossip
  <2>2. op \in [Procs -> Ops(made)]
    BY DEF TypeInv, ProcsOK
  <2> QED BY <2>1, <2>2 DEF Goto, Ops
<1>3. CASE active["gossip"]
  <2>1. Moves(p, op'[p]) /\ op'[p].pc \notin StopPCs /\ op[p].pc \notin StopPCs
    BY <1>1, <1>2, <1>3 DEF StartGossip, Goto, Moves, StopPCs
  <2>2. stopCh' = stopCh
    BY <1>3 DEF StartGossip
  <2> QED BY <1>1, <1>3, <2>1, <2>2, ClosingAside DEF ClosingInv
<1>4. CASE ~active["gossip"] /\ ClosingOK
  <2>1. stopCh' = made + 1 /\ made \in Nat /\ closed \subseteq 1..made
    BY <1>4 DEF StartGossip, TypeInv, DataOK
  <2>2. \A q \in Procs : Closing(q)' => Closing(q) /\ op'[q] = op[q]
    BY <1>2 DEF Closing
  <2>3. \A q \in Procs : op[q].ch \in 1..made \cup {Nil}
    BY DEF TypeInv, ProcsOK, Ops
  <2>4. stopCh' \notin closed /\ \A q \in Procs : op[q].ch # stopCh'
    BY <2>1, <2>3
  <2>5. \A q \in Procs : Closing(q)' => op'[q].ch \notin closed /\ op'[q].ch # stopCh'
    BY <1>4, <2>2, <2>4 DEF ClosingOK
  <2>6. \A q, r \in Procs : Closing(q)' /\ Closing(r)' /\ q # r => op'[q].ch # op'[r].ch \/ op'[q].ch = Nil
    BY <1>4, <2>2 DEF ClosingOK
  <2> QED BY <1>1, <2>4, <2>5, <2>6 DEF ClosingInv, ClosingOK, Closing
<1> QED BY <1>1, <1>3, <1>4 DEF ClosingInv

\* Main goes on to stop, or ends.
LEMMA ClosingMain ==
  ASSUME TypeInv, ClosingInv, Signal \/ Drain \/ StopController \/ StopRest
  PROVE  ClosingInv'
<1>1. PICK pc \in PCs \ StopPCs, to \in {"drain", "stop", "stopGossip", "stopPing", "exited"} :
        /\ At(Main, pc) /\ Goto(Main, to)
        /\ events' \in {events, events \cup {"overlap"}}
        /\ UNCHANGED <<stopCh, closed, active>>
  BY DEF Signal, Drain, StopController, StopRest, PCs, StopPCs, gossipVars
<1>2. Moves(Main, op'[Main]) /\ op'[Main].pc = to
  BY <1>1 DEF Goto, Moves, TypeInv, ProcsOK, Ops, Procs
<1>3. op[Main].pc \notin StopPCs /\ to \notin StopPCs
  BY <1>1 DEF At, StopPCs
<1> QED BY <1>1, <1>2, <1>3, ClosingAside DEF ClosingInv

\* The invariant of Stops at the same time.
LEMMA ClosingInvariant == Spec => []ClosingInv
<1>1. Init => ClosingInv
  <2> SUFFICES ASSUME Init PROVE ClosingInv
    OBVIOUS
  <2>1. \A p \in Procs : op[p].pc \in {"idle", "join"}
    BY DEF Init, Idle, Op
  <2>2. closed = {}
    BY DEF Init
  <2> QED BY <2>1, <2>2 DEF ClosingInv, ClosingOK, Closing
<1>2. TypeInv /\ ClosingInv /\ [Next]_vars => ClosingInv'
  <2> SUFFICES ASSUME TypeInv, ClosingInv, [Next]_vars PROVE ClosingInv'
    OBVIOUS
  <2>1. ASSUME NEW p \in Clients, NEW o,
               o.pc \in {"setMode", "join", "leave"}, Arrive(p, o)
        PROVE  ClosingInv'
    <3>1. o.pc \notin StopPCs
      BY <2>1 DEF StopPCs
    <3> QED BY <2>1, <3>1, ClosingArrive
  <2>2. ASSUME NEW p \in Clients, NEW m \in Modes, NEW s \in Suspicions,
               SwitchRequest(p, m, s)
        PROVE  ClosingInv'
    BY <2>1, <2>2 DEF SwitchRequest, Op
  <2>3. ASSUME NEW p \in Clients, JoinRequest(p) \/ LeaveRequest(p)
        PROVE  ClosingInv'
    BY <2>1, <2>3 DEF JoinRequest, LeaveRequest, Op
  <2>4. ASSUME NEW p \in Procs, Step(p) PROVE ClosingInv'
    BY <2>4, ClosingElsewhere, ClosingJoin, ClosingStop, ClosingClose, ClosingForget, ClosingStart
       DEF Step, Elsewhere
  <2>5. CASE UNCHANGED <<op, stopCh, closed, active, events>>
    BY <2>5 DEF ClosingInv, ClosingOK, Closing
  <2>6. ASSUME NEW k \in Kinds, NEW c \in Channels \cup {Nil}, TakeTurn(k, c) \/ EndLoop(k, c)
        PROVE  ClosingInv'
    BY <2>5, <2>6 DEF TakeTurn, EndLoop
  <2>7. CASE EndPingLoops \/ UNCHANGED vars
    BY <2>5, <2>7 DEF EndPingLoops, vars, gossipVars
  <2> QED BY <2>2, <2>3, <2>4, <2>6, <2>7, ClosingMain DEF Next
<1> QED BY <1>1, <1>2, TypeInvariant, PTL DEF Spec

\* Every Stop of the gossip manager closes an open channel, whatever requests and the
\* shutdown do at the same time, as long as no JoinGroup sets active during a Stop.
THEOREM GossipStopsCloseOnce == Spec => GossipClosesOnce
<1>1. TypeInv /\ ClosingInv =>
        [\A p \in Procs : CloseGossip(p) /\ op[p].ch \in closed => "join in stop" \in events]_vars
  BY DEF ClosingInv, ClosingOK, Closing, CloseGossip, At
<1> QED BY <1>1, TypeInvariant, ClosingInvariant, PTL DEF GossipClosesOnce

-----------------------------------------------------------------------------
(* Requests one at a time                                                  *)

\* Requests came one at a time, and the shutdown has not begun.
Calm == op[Main].pc \in {"idle", "join", "joinWrite"} /\ events \cap {"overlap", "panic"} = {}

Alone == \A p, q \in Procs : Under(p) /\ Under(q) => p = q

\* No loop waits for a closed channel, and none will.
Open == stopCh \notin closed /\ \A k \in Kinds, c \in Waits \cap closed : loops[k][c] = 0

HandledBy(m) == \A y \in Types : handlers[y] = m

\* Gossip loops that run in pingack mode are of a node that had left, and every node
\* that had left has them.
Left == "left gossip" \in events
Over == ~active["gossip"] /\ (~NoLoops <=> Left)

\* Between switches, the ping loops have been stopped when gossip has been asked for.
Asked == "asked for gossip" \in events
Once  == stopped <=> Asked

\* Between requests: WhatSwitchesLeave, and what the next switch relies on.
Whole == /\ Open /\ HandledBy(mode) /\ Once
         /\ mode = "gossip" => ~NoLoops /\ (pingLoops = 0 \/ stopped) /\ (active["gossip"] <=> ~Left)
         /\ mode = "ping" => (pingLoops > 0 \/ stopped) /\ Over

\* On the way to gossip: an active manager needs no Start.
ToGossip == /\ mode = "gossip" /\ Open /\ Asked
            /\ active["gossip"] => HandledBy("gossip") /\ ~NoLoops /\ ~Left

\* In the middle of a gossip Stop: only a manager that had not left gets there.
Stopping == ~active["gossip"] /\ ~Left /\ Once

\* p has registered all types but todo for m.
Registered(p, m) == \A y \in Types \ op[p].todo : handlers[y] = m

\* What holds while p alone is under way.
Local(p) ==
  LET pc == op[p].pc
      m  == op[p].mech
  IN  /\ pc \in {"setMode", "join", "leave", "setSuspicion"} => Whole
      /\ pc \in {"joinWrite", "leaveWrite"} => Whole /\ m = mode
      /\ pc = "stopPing" => ToGossip /\ m = "gossip"
      /\ pc = "start" /\ m = "gossip" => ToGossip /\ stopped
      /\ pc \in {"register", "spawn"} /\ m = "gossip" =>
           mode = "gossip" /\ Open /\ stopped /\ Asked /\ active["gossip"] /\ ~Left
      /\ pc = "stopGossip" => /\ mode = "ping" /\ m = "ping" /\ Open /\ Once
                              /\ IF active["gossip"] THEN ~Left ELSE Over
      /\ pc \in {"closeGossip", "waitGossip"} => mode = "ping" /\ m = "ping" /\ Stopping
      /\ pc = "forgetGossip" => mode = "ping" /\ m = "ping" /\ Stopping /\ NoLoops
      /\ pc \in {"start", "register", "spawn"} /\ m = "ping" => mode = "ping" /\ Open /\ Once /\ Over
      /\ pc = "register" => Registered(p, m)
      /\ pc = "spawn" => HandledBy(m)

SwitchInv ==
  Calm => /\ Alone
          /\ \A p \in Procs : Under(p) => Local(p)
          /\ (\A p \in Procs : ~Under(p)) => Whole

-----------------------------------------------------------------------------
(* The loops                                                               *)

\* No channel is never closed.
LEMMA NilStaysOpen ==
  ASSUME TypeInv
  PROVE  Nil \notin closed
<1>1. closed \subseteq 1..made /\ made \in Nat
  BY DEF TypeInv, DataOK
<1>2. \A c \in 1..made : c \in Nat
  BY <1>1
<1> QED BY <1>1, <1>2

\* No loops, as a fact about their counts.
LEMMA NoLoopsMeans ==
  ASSUME TypeInv
  PROVE  NoLoops <=> \A k \in Kinds, c \in Waits : loops[k][c] = 0
<1>1. \A k \in Kinds : DOMAIN loops[k] = Waits
  BY DEF TypeInv, LoopsOK
<1> QED BY <1>1 DEF NoLoops

\* A turn and an end of a loop: none comes from nowhere, and while the channels loops
\* wait for are open, none ends.
LEMMA LoopsTurn ==
  ASSUME TypeInv, TypeInv', NEW k \in Kinds, NEW c \in Waits, TakeTurn(k, c) \/ EndLoop(k, c)
  PROVE  ~NoLoops /\ (Open => Open' /\ ~NoLoops')
<1>1. loops[k][c] > 0 /\ UNCHANGED <<stopCh, closed>> /\ loops \in [Kinds -> [Waits -> Nat]]
  BY DEF TakeTurn, EndLoop, TypeInv, LoopsOK
<1>2. ~NoLoops
  BY <1>1, NoLoopsMeans
<1>3. ASSUME Open PROVE Open' /\ ~NoLoops'
  <2>1. c \notin closed
    BY <1>1, <1>3 DEF Open
  <2>2. TakeTurn(k, c)
    BY <2>1 DEF EndLoop
  <2>3. loops' = [loops EXCEPT ![k][c] = @ - 1, ![k][stopCh] = @ + 1] /\ c # stopCh
    BY <2>2 DEF TakeTurn
  <2>4. stopCh \notin closed
    BY <1>3 DEF Open
  <2>5. \A j \in Kinds, e \in Waits \cap closed : loops'[j][e] = loops[j][e]
    BY <1>1, <2>1, <2>3, <2>4
  <2>6. Open'
    BY <1>1, <1>3, <2>4, <2>5 DEF Open
  <2>7. stopCh \in Waits
    <3>1. made' = made /\ stopCh' = stopCh
      BY <2>2 DEF TakeTurn
    <3>2. made \in Nat /\ requests \in 0..MaxRequests /\ stopCh \in 1..made \cup {Nil}
      BY DEF TypeInv, DataOK
    <3>3. Cardinality(Ahead(BeforeChannel)) + made <= requests + 1
          /\ Cardinality(Ahead(BeforeChannel)) \in Nat
      BY FS_CardinalityType DEF TypeInv, Budget
    <3>4. made <= MaxRequests + 1
      BY <3>2, <3>3
    <3> QED BY <3>2, <3>4 DEF Waits, Channels
  <2>8. loops'[k][stopCh] > 0
    BY <1>1, <2>3, <2>7
  <2>9. ~NoLoops'
    <3>1. DOMAIN loops'[k] = Waits
      BY DEF TypeInv, LoopsOK
    <3> QED BY <2>7, <2>8, <3>1 DEF NoLoops
  <2> QED BY <2>6, <2>9
<1> QED BY <1>2, <1>3

\* What holds of a lone process, when only loops have moved.
LEMMA LocalKept ==
  ASSUME NEW p, UNCHANGED <<op, mode, active, stopped, handlers, events>>,
         Whole => Whole', ToGossip => ToGossip', Open /\ Over => Over', Open => Open', NoLoops => NoLoops',
         Local(p)
  PROVE  Local(p)'
<1>1. Registered(p, op[p].mech) => Registered(p, op[p].mech)'
  BY DEF Registered
<1>2. HandledBy(op[p].mech) => HandledBy(op[p].mech)'
  BY DEF HandledBy
<1>3. (Left' <=> Left) /\ (Asked' <=> Asked) /\ (Once' <=> Once) /\ (Stopping' <=> Stopping)
  BY DEF Left, Asked, Once, Stopping
<1> HIDE DEF Whole, ToGossip, Over, Open, NoLoops, Registered, HandledBy, Left, Asked, Once, Stopping
<1> QED BY <1>1, <1>2, <1>3 DEF Local

\* The loops keep the invariant.
LEMMA SwitchLoops ==
  ASSUME TypeInv, TypeInv', SwitchInv,
         \/ \E k \in Kinds, c \in Waits : TakeTurn(k, c) \/ EndLoop(k, c)
         \/ EndPingLoops
  PROVE  SwitchInv'
<1>1. UNCHANGED <<op, mode, active, stopped, handlers, events>>
  BY DEF TakeTurn, EndLoop, EndPingLoops, gossipVars, pingVars
<1>2. (Open => Open') /\ (NoLoops => NoLoops') /\ (Open /\ ~NoLoops => ~NoLoops')
  <2>1. CASE EndPingLoops
    BY <2>1 DEF EndPingLoops, gossipVars, Open, NoLoops
  <2>2. CASE ~EndPingLoops
    BY <2>2, LoopsTurn
  <2> QED BY <2>1, <2>2
<1>3. (pingLoops = 0 \/ stopped => pingLoops' = 0 \/ stopped') /\ (pingLoops > 0 \/ stopped => pingLoops' > 0 \/ stopped')
  <2>1. pingLoops' = pingLoops \/ stopped
    BY DEF EndPingLoops, TakeTurn, EndLoop, pingVars
  <2> QED BY <1>1, <2>1
<1>4. Open /\ Over => Over'
  BY <1>1, <1>2 DEF Over, Left
<1>5. ToGossip => ToGossip'
  BY <1>1, <1>2 DEF ToGossip, HandledBy, Asked, Left
<1>6. Whole => Whole'
  BY <1>1, <1>2, <1>3, <1>4 DEF Whole, HandledBy, Left, Once, Asked
<1>7. \A p \in Procs : Local(p) => Local(p)'
  BY <1>1, <1>2, <1>4, <1>5, <1>6, LocalKept
<1> QED BY <1>1, <1>6, <1>7 DEF SwitchInv, Calm, Alone, Under

-----------------------------------------------------------------------------
(* A lone process                                                          *)

\* What is to hold of p after its step.
Then(p) == (Under(p)' => Local(p)') /\ (~Under(p)' => Whole')

\* The step did not panic.
NoPanic == "panic" \notin events'

\* RouteJoin and RouteLeave: the manager is the one of mode.
LEMMA RouteAlone ==
  ASSUME TypeInv, NEW p \in Procs, Local(p), RouteJoin(p) \/ RouteLeave(p)
  PROVE  Then(p)
<1>1. PICK to \in {"joinWrite", "leaveWrite"} : op' = [op EXCEPT ![p].pc = to, ![p].mech = mode]
  BY DEF RouteJoin, RouteLeave, Route
<1>2. /\ op[p].pc \in {"join", "leave"}
      /\ UNCHANGED <<mode, active, stopCh, closed, loops, stopped, pingLoops, handlers, events>>
  BY DEF RouteJoin, RouteLeave, Route, At, gossipVars, pingVars
<1>3. op'[p].pc = to /\ op'[p].mech = mode
  BY <1>1 DEF TypeInv, ProcsOK, Ops
<1>4. Whole
  BY <1>2 DEF Local
<1>5. Whole'
  BY <1>2, <1>4 DEF Whole, Open, NoLoops, HandledBy, Over, Left, Once, Asked
<1>6. Local(p)'
  BY <1>2, <1>3, <1>5 DEF Local
<1> QED BY <1>3, <1>6 DEF Then, Under

\* JoinGroup and LeaveGroup: they write the flag of the manager that runs.
LEMMA GroupAlone ==
  ASSUME TypeInv, NEW p \in Procs, Local(p), JoinGroup(p) \/ LeaveGroup(p)
  PROVE  Then(p)
<1>1. /\ op[p].pc \in {"joinWrite", "leaveWrite"} /\ Done(p)
      /\ UNCHANGED <<mode, stopCh, closed, made, loops, stopped, pingLoops, handlers>>
  BY DEF JoinGroup, LeaveGroup, At, gossipVars, pingVars
<1>2. Whole /\ op[p].mech = mode
  BY <1>1 DEF Local
<1>3. /\ mode = "gossip" => (active'["gossip"] <=> ~Left')
      /\ mode # "gossip" => active'["gossip"] = active["gossip"] /\ (Left' <=> Left)
  <2>1. active \in [Modes -> BOOLEAN] /\ mode \in Modes
    BY DEF TypeInv, FlagsOK, DataOK
  <2>2. CASE JoinGroup(p)
    BY <1>2, <2>1, <2>2 DEF JoinGroup, Left, Modes
  <2>3. CASE LeaveGroup(p)
    BY <1>2, <2>1, <2>3 DEF LeaveGroup, Left, Modes
  <2> QED BY <2>2, <2>3
<1>4. op'[p].pc = "idle"
  BY <1>1, DoneFits
<1>5. Once'
  <2>1. Asked' <=> Asked
    BY DEF JoinGroup, LeaveGroup, Asked
  <2> QED BY <1>1, <1>2, <2>1 DEF Whole, Once
<1>6. Whole'
  <2>1. Open' /\ HandledBy(mode)' /\ (NoLoops' <=> NoLoops)
    BY <1>1, <1>2 DEF Whole, Open, HandledBy, NoLoops
  <2> HIDE DEF NoLoops, Open, HandledBy, Left
  <2>2. mode' = "gossip" => ~NoLoops' /\ (pingLoops' = 0 \/ stopped') /\ (active'["gossip"] <=> ~Left')
    BY <1>1, <1>2, <1>3, <2>1 DEF Whole
  <2>3. mode' = "ping" => (pingLoops' > 0 \/ stopped') /\ Over'
    BY <1>1, <1>2, <1>3, <2>1 DEF Whole, Over, Modes
  <2> QED BY <1>5, <2>1, <2>2, <2>3 DEF Whole
<1> QED BY <1>4, <1>6 DEF Then, Under

\* SetMode.
LEMMA SetModeAlone ==
  ASSUME TypeInv, NEW p \in Procs, Local(p), SetMode(p)
  PROVE  Then(p)
<1>1. /\ op[p].pc = "setMode" /\ mode' = op[p].mech /\ mode \in Modes /\ op[p].mech \in Modes
      /\ UNCHANGED <<active, stopCh, closed, loops, stopped, pingLoops, handlers>>
  BY PlaceNow DEF SetMode, At, gossipVars, pingVars, TypeInv, DataOK, Ops
<1>2. /\ op'[p].mech = op[p].mech
      /\ op'[p].pc = IF op[p].mech = "gossip" THEN "stopPing" ELSE "stopGossip"
  BY DEF SetMode, Goto, TypeInv, ProcsOK, Ops
<1>3. Whole
  BY <1>1 DEF Local
<1>4. Open' /\ (NoLoops' <=> NoLoops) /\ (Left' <=> Left) /\ \A m \in Modes : HandledBy(m)' <=> HandledBy(m)
  BY <1>1, <1>3 DEF SetMode, Whole, Open, HandledBy, NoLoops, Left
<1>5. CASE op[p].mech = "gossip"
  <2>1. active["gossip"] => HandledBy("gossip") /\ ~NoLoops /\ ~Left
    BY <1>1, <1>3 DEF Whole, Over, Modes
  <2>2. Asked'
    BY <1>5 DEF SetMode, Asked
  <2>3. ToGossip'
    <3> HIDE DEF Open, NoLoops, Left, HandledBy, Asked
    <3> QED BY <1>1, <1>4, <1>5, <2>1, <2>2 DEF ToGossip, Modes
  <2>4. Local(p)'
    BY <1>2, <1>5, <2>3 DEF Local
  <2> QED BY <1>2, <1>5, <2>4 DEF Then, Under
<1>6. CASE op[p].mech = "ping"
  <2>1. IF active["gossip"] THEN ~Left ELSE Over
    BY <1>1, <1>3 DEF Whole, Over, Modes
  <2>2. IF active'["gossip"] THEN ~Left' ELSE Over'
    BY <1>1, <1>4, <2>1 DEF Over
  <2>3. Once'
    BY <1>1, <1>3, <1>6 DEF SetMode, Whole, Once, Asked
  <2>4. Local(p)'
    <3> HIDE DEF Open, Once, Over, Left
    <3> QED BY <1>1, <1>2, <1>4, <1>6, <2>2, <2>3 DEF Local
  <2> QED BY <1>2, <1>6, <2>4 DEF Then, Under
<1> QED BY <1>1, <1>5, <1>6 DEF Modes

\* StopPing.
LEMMA StopPingAlone ==
  ASSUME TypeInv, NEW p \in Procs, Local(p), StopPing(p), NoPanic
  PROVE  Then(p)
<1>1. AfterStop(p) /\ stopped' /\ op[p].pc = "stopPing"
      /\ UNCHANGED <<mode, active, stopCh, closed, loops, handlers, events>>
  BY DEF StopPing, NoPanic, Panic, At, gossipVars
<1>2. op'[p].pc \in {"start", "stopRest"} /\ op'[p].mech = op[p].mech
  BY <1>1 DEF AfterStop, Goto, TypeInv, ProcsOK, Ops
<1>3. ToGossip /\ op[p].mech = "gossip"
  BY <1>1 DEF Local
<1>4. ToGossip'
  BY <1>1, <1>3 DEF ToGossip, Open, HandledBy, NoLoops, Asked, Left
<1>5. Local(p)'
  BY <1>1, <1>2, <1>3, <1>4 DEF Local
<1> QED BY <1>2, <1>5 DEF Then, Under

\* StopGossip.
LEMMA StopGossipAlone ==
  ASSUME TypeInv, NEW p \in Procs, Local(p), StopGossip(p)
  PROVE  Then(p)
<1>1. /\ op[p].pc = "stopGossip" /\ (Left' <=> Left) /\ (Asked' <=> Asked)
      /\ UNCHANGED <<mode, stopCh, closed, loops, stopped, pingLoops, handlers>>
  BY DEF StopGossip, At, gossipVars, pingVars, Left, Asked
<1>2. /\ mode = "ping" /\ op[p].mech = "ping" /\ Open /\ Once
      /\ IF active["gossip"] THEN ~Left ELSE Over
  BY <1>1 DEF Local
<1>3. Open' /\ (NoLoops' <=> NoLoops) /\ Once'
  BY <1>1, <1>2 DEF Open, NoLoops, Once
<1> HIDE DEF Open, NoLoops, Left, Asked, Once
<1>4. CASE ~active["gossip"]
  <2>1. AfterStop(p) /\ active' = active
    BY <1>4 DEF StopGossip
  <2>2. op'[p].pc \in {"start", "stopRest"} /\ op'[p].mech = "ping"
    BY <1>2, <2>1 DEF AfterStop, Goto, TypeInv, ProcsOK, Ops
  <2>3. Over'
    BY <1>1, <1>2, <1>3, <1>4, <2>1 DEF Over
  <2>4. Local(p)'
    BY <1>1, <1>2, <1>3, <2>2, <2>3 DEF Local
  <2> QED BY <2>2, <2>4 DEF Then, Under
<1>5. CASE active["gossip"]
  <2>1. /\ op' = [op EXCEPT ![p].pc = "closeGossip", ![p].ch = stopCh]
        /\ active' = [active EXCEPT !["gossip"] = FALSE]
    BY <1>5 DEF StopGossip
  <2>2. op'[p].pc = "closeGossip" /\ op'[p].mech = "ping"
    BY <1>2, <2>1 DEF TypeInv, ProcsOK, Ops
  <2>3. ~active'["gossip"]
    BY <2>1 DEF TypeInv, FlagsOK, Modes
  <2>4. Stopping'
    BY <1>1, <1>2, <1>3, <1>5, <2>3 DEF Stopping
  <2>5. Local(p)'
    BY <1>1, <1>2, <2>2, <2>4 DEF Local
  <2> QED BY <2>2, <2>5 DEF Then, Under
<1> QED BY <1>4, <1>5

\* CloseGossip and WaitGossip.
LEMMA CloseGossipAlone ==
  ASSUME TypeInv, NEW p \in Procs, Local(p), CloseGossip(p) \/ WaitGossip(p), NoPanic
  PROVE  Then(p)
<1>1. PICK to \in {"waitGossip", "forgetGossip"} :
        Goto(p, to) /\ (to = "forgetGossip" => NoLoops)
  BY DEF CloseGossip, WaitGossip, NoPanic, Panic
<1>2. /\ op[p].pc \in {"closeGossip", "waitGossip"} /\ UNCHANGED <<mode, active, loops, stopped>>
      /\ events' = events
  BY DEF CloseGossip, WaitGossip, At, gossipVars, pingVars, NoPanic, Panic
<1>3. op'[p].pc = to /\ op'[p].mech = op[p].mech
  BY <1>1 DEF Goto, TypeInv, ProcsOK, Ops
<1>4. mode = "ping" /\ op[p].mech = "ping" /\ Stopping
  BY <1>2 DEF Local
<1>5. (NoLoops' <=> NoLoops) /\ Stopping'
  BY <1>2, <1>4 DEF NoLoops, Stopping, Left, Once, Asked
<1>6. Local(p)'
  BY <1>1, <1>2, <1>3, <1>4, <1>5 DEF Local
<1> QED BY <1>3, <1>6 DEF Then, Under

\* ForgetGossip.
LEMMA ForgetGossipAlone ==
  ASSUME TypeInv, NEW p \in Procs, Local(p), ForgetGossip(p)
  PROVE  Then(p)
<1>1. /\ op[p].pc = "forgetGossip" /\ stopCh' = Nil /\ closed \subseteq 1..made
      /\ UNCHANGED <<mode, active, closed, loops, stopped, events>>
  BY DEF ForgetGossip, At, TypeInv, DataOK, pingVars
<1>2. op'[p].pc \in {"start", "stopRest"} /\ op'[p].mech = op[p].mech
  BY DEF ForgetGossip, TypeInv, ProcsOK, Ops
<1>3. mode = "ping" /\ op[p].mech = "ping" /\ Stopping /\ NoLoops
  BY <1>1 DEF Local
<1>4. Over' /\ Once'
  BY <1>1, <1>3 DEF NoLoops, Over, Stopping, Once, Left, Asked
<1>5. Open'
  <2>1. Nil \notin closed
    BY NilStaysOpen
  <2>2. \A k \in Kinds, c \in Waits : loops[k][c] = 0
    BY <1>3, NoLoopsMeans
  <2> QED BY <1>1, <2>1, <2>2 DEF Open
<1>6. Local(p)'
  BY <1>1, <1>2, <1>3, <1>4, <1>5 DEF Local
<1> QED BY <1>2, <1>6 DEF Then, Under

\* StartGossip.
LEMMA StartGossipAlone ==
  ASSUME TypeInv, NEW p \in Procs, Local(p), StartGossip(p)
  PROVE  Then(p)
<1>1. /\ op[p].pc = "start" /\ op[p].mech = "gossip"
      /\ UNCHANGED <<mode, closed, loops, stopped, pingLoops, handlers>>
  BY DEF StartGossip, At, pingVars
<1>2. ToGossip /\ stopped
  BY <1>1 DEF Local
<1>3. (NoLoops' <=> NoLoops) /\ (HandledBy("gossip")' <=> HandledBy("gossip")) /\ Asked'
  BY <1>1, <1>2 DEF StartGossip, ToGossip, NoLoops, HandledBy, Asked
<1>4. CASE active["gossip"]
  <2>1. Goto(p, "setSuspicion") /\ UNCHANGED <<active, stopCh, events>>
    BY <1>4 DEF StartGossip
  <2>2. op'[p].pc = "setSuspicion"
    BY <2>1 DEF Goto, TypeInv, ProcsOK, Ops
  <2>3. Open'
    BY <1>1, <1>2, <2>1 DEF ToGossip, Open
  <2>4. Whole'
    <3>1. ~NoLoops' /\ ~Left' /\ HandledBy("gossip")'
      BY <1>2, <1>3, <1>4, <2>1 DEF ToGossip, Left
    <3> HIDE DEF NoLoops, Left, HandledBy, Open, Asked
    <3> QED BY <1>1, <1>2, <1>3, <1>4, <2>1, <2>3, <3>1 DEF ToGossip, Whole, Once
  <2> QED BY <2>2, <2>4 DEF Then, Under, Local
<1>5. CASE ~active["gossip"]
  <2>1. /\ stopCh' = made + 1 /\ active' = [active EXCEPT !["gossip"] = TRUE]
        /\ op' = [op EXCEPT ![p].pc = "register", ![p].todo = Types]
    BY <1>5 DEF StartGossip
  <2>2. op'[p].pc = "register" /\ op'[p].mech = "gossip" /\ op'[p].todo = Types
    BY <1>1, <2>1 DEF TypeInv, ProcsOK, Ops
  <2>3. active'["gossip"] /\ ~Left'
    BY <1>5, <2>1 DEF StartGossip, Left, TypeInv, FlagsOK, Modes
  <2>4. stopCh' \notin closed
    BY <2>1 DEF TypeInv, DataOK
  <2>5. Open'
    BY <1>1, <1>2, <2>4 DEF ToGossip, Open
  <2>6. Registered(p, "gossip")'
    BY <2>2 DEF Registered
  <2>7. Local(p)'
    <3> HIDE DEF Left, Open, Asked
    <3> QED BY <1>1, <1>2, <1>3, <2>2, <2>3, <2>5, <2>6 DEF Local, ToGossip
  <2> QED BY <2>2, <2>7 DEF Then, Under
<1> QED BY <1>4, <1>5

\* StartPing.
LEMMA StartPingAlone ==
  ASSUME TypeInv, NEW p \in Procs, Local(p), StartPing(p)
  PROVE  Then(p)
<1>1. /\ op[p].pc = "start" /\ op[p].mech = "ping"
      /\ UNCHANGED <<mode, active, stopCh, closed, loops, stopped, events>>
      /\ op' = [op EXCEPT ![p].pc = "register", ![p].todo = Types]
  BY DEF StartPing, At, gossipVars, pingVars
<1>2. op'[p].pc = "register" /\ op'[p].mech = "ping" /\ op'[p].todo = Types
  BY <1>1 DEF TypeInv, ProcsOK, Ops
<1>3. mode = "ping" /\ Open /\ Once /\ Over
  BY <1>1 DEF Local
<1>4. Open' /\ Over' /\ Once'
  BY <1>1, <1>3 DEF Open, Over, NoLoops, Left, Once, Asked
<1>5. Registered(p, "ping")'
  BY <1>2 DEF Registered
<1>6. Local(p)'
  BY <1>1, <1>2, <1>3, <1>4, <1>5 DEF Local
<1> QED BY <1>2, <1>6 DEF Then, Under

\* Register.
LEMMA RegisterAlone ==
  ASSUME TypeInv, NEW p \in Procs, Local(p), Register(p)
  PROVE  Then(p)
<1>1. PICK y \in op[p].todo :
        /\ handlers' = [handlers EXCEPT ![y] = op[p].mech]
        /\ op' = [op EXCEPT ![p].todo = @ \ {y},
                            ![p].pc = IF op[p].todo = {y} THEN "spawn" ELSE "register"]
  BY DEF Register
<1>2. /\ op[p].pc = "register" /\ op[p].mech \in Modes
      /\ UNCHANGED <<mode, active, stopCh, closed, loops, stopped, events>>
  BY PlaceNow DEF Register, At, gossipVars, pingVars, Ops
<1>3. /\ op'[p].pc = IF op[p].todo = {y} THEN "spawn" ELSE "register"
      /\ op'[p].mech = op[p].mech /\ op'[p].todo = op[p].todo \ {y}
  BY <1>1 DEF TypeInv, ProcsOK, Ops
<1>4. Registered(p, op[p].mech)
  BY <1>2 DEF Local
<1>5. \A z \in Types \ op'[p].todo : handlers'[z] = op[p].mech
  BY <1>1, <1>3, <1>4 DEF Registered, TypeInv, DataOK
<1>6. Registered(p, op[p].mech)'
  BY <1>3, <1>5 DEF Registered
<1>7. op'[p].pc = "spawn" => HandledBy(op[p].mech)'
  BY <1>3, <1>5 DEF HandledBy
<1>8. /\ (Open' <=> Open) /\ (Over' <=> Over) /\ (Once' <=> Once)
      /\ (Left' <=> Left) /\ (Asked' <=> Asked)
  BY <1>2 DEF Open, Over, NoLoops, Left, Once, Asked
<1>9. Local(p)'
  <2> HIDE DEF Open, Over, Once, Left, Asked, Registered, HandledBy
  <2> QED BY <1>2, <1>3, <1>6, <1>7, <1>8 DEF Local, Modes
<1> QED BY <1>3, <1>9 DEF Then, Under

\* SpawnGossip.
LEMMA SpawnGossipAlone ==
  ASSUME TypeInv, NEW p \in Procs, Local(p), SpawnGossip(p)
  PROVE  Then(p)
<1>1. /\ op[p].pc = "spawn" /\ op[p].mech = "gossip" /\ Goto(p, "setSuspicion")
      /\ loops' = [k \in Kinds |-> [loops[k] EXCEPT ![Nil] = @ + 1]]
      /\ UNCHANGED <<mode, active, stopCh, closed, stopped, pingLoops, handlers, events>>
  BY DEF SpawnGossip, At, pingVars
<1>2. op'[p].pc = "setSuspicion"
  BY <1>1 DEF Goto, TypeInv, ProcsOK, Ops
<1>3. mode = "gossip" /\ Open /\ stopped /\ Asked /\ active["gossip"] /\ ~Left /\ HandledBy("gossip")
  BY <1>1 DEF Local
<1>4. loops \in [Kinds -> [Waits -> Nat]] /\ Nil \in Waits /\ Nil \notin closed
  BY NilStaysOpen DEF TypeInv, LoopsOK, Waits
<1>5. Open'
  <2>1. \A k \in Kinds, c \in Waits \cap closed : loops'[k][c] = loops[k][c]
    BY <1>1, <1>4
  <2> QED BY <1>1, <1>3, <2>1 DEF Open
<1>6. ~NoLoops'
  <2>1. PICK k \in Kinds : TRUE
    OBVIOUS
  <2>2. loops'[k] = [loops[k] EXCEPT ![Nil] = @ + 1] /\ loops[k] \in [Waits -> Nat]
    BY <1>1, <1>4
  <2>3. loops'[k][Nil] > 0 /\ DOMAIN loops'[k] = Waits
    BY <1>4, <2>2
  <2> QED BY <1>4, <2>3 DEF NoLoops
<1>7. Whole'
  BY <1>1, <1>3, <1>5, <1>6 DEF Whole, HandledBy, Left, Once, Asked
<1> QED BY <1>2, <1>7 DEF Then, Under, Local

\* SpawnPing.
LEMMA SpawnPingAlone ==
  ASSUME TypeInv, NEW p \in Procs, Local(p), SpawnPing(p)
  PROVE  Then(p)
<1>1. /\ op[p].pc = "spawn" /\ op[p].mech = "ping" /\ Goto(p, "setSuspicion")
      /\ pingLoops' = pingLoops + 1 /\ pingLoops \in Nat
      /\ UNCHANGED <<mode, active, stopCh, closed, loops, stopped, handlers, events>>
  BY DEF SpawnPing, At, gossipVars, TypeInv, LoopsOK
<1>2. op'[p].pc = "setSuspicion"
  BY <1>1 DEF Goto, TypeInv, ProcsOK, Ops
<1>3. mode = "ping" /\ Open /\ Once /\ Over /\ HandledBy("ping")
  BY <1>1 DEF Local
<1>4. Open' /\ Over' /\ Once' /\ HandledBy(mode)'
  BY <1>1, <1>3 DEF Open, Over, NoLoops, Left, Once, Asked, HandledBy
<1>5. Whole'
  BY <1>1, <1>3, <1>4 DEF Whole
<1> QED BY <1>2, <1>5 DEF Then, Under, Local

\* SetSuspicion.
LEMMA SetSuspicionAlone ==
  ASSUME TypeInv, NEW p \in Procs, Local(p), SetSuspicion(p)
  PROVE  Then(p)
<1>1. /\ op[p].pc = "setSuspicion" /\ Done(p) /\ made' = made
      /\ UNCHANGED <<mode, active, stopCh, closed, loops, stopped, pingLoops, handlers, events>>
  BY DEF SetSuspicion, At, gossipVars, pingVars
<1>2. Whole
  BY <1>1 DEF Local
<1>3. Whole'
  BY <1>1, <1>2 DEF Whole, Open, NoLoops, HandledBy, Over, Left, Once, Asked
<1>4. op'[p].pc = "idle"
  BY <1>1, DoneFits
<1> QED BY <1>3, <1>4 DEF Then, Under

\* Main, past the time when requests come, never comes back to it.
LEMMA MainGoesOn ==
  ASSUME TypeInv, NEW p \in Procs, Step(p), Calm'
  PROVE  /\ Calm /\ Under(p) /\ Moves(p, op'[p])
         /\ p = Main => RouteJoin(p) \/ JoinGroup(p)
<1>1. /\ Under(p) /\ op[p].pc \in PCs \ {"idle", "drain", "stop", "stopRest", "exited", "crashed"}
      /\ events \cap {"overlap", "panic"} \subseteq events' /\ Moves(p, op'[p])
  <2>1. CASE RouteJoin(p) \/ RouteLeave(p)
    BY <2>1 DEF RouteJoin, RouteLeave, Route, At, Under, PCs, Moves
  <2>2. CASE JoinGroup(p) \/ LeaveGroup(p) \/ SetSuspicion(p)
    BY <2>2 DEF JoinGroup, LeaveGroup, SetSuspicion, Done, At, Under, PCs, Moves, TypeInv, ProcsOK
  <2>3. CASE SetMode(p) \/ WaitGossip(p) \/ SpawnGossip(p) \/ SpawnPing(p)
    BY <2>3 DEF SetMode, WaitGossip, SpawnGossip, SpawnPing, Goto, At, Under, PCs, Moves
  <2>4. CASE StopPing(p) \/ CloseGossip(p)
    <3>1. /\ op[p].pc \in {"stopPing", "closeGossip"} /\ events \subseteq events'
          /\ Panic(p) \/ Goto(p, "waitGossip") \/ AfterStop(p)
      BY <2>4 DEF StopPing, CloseGossip, Panic, At
    <3> QED BY <3>1 DEF Panic, Goto, AfterStop, Under, PCs, Moves
  <2>5. CASE StopGossip(p)
    BY <2>5 DEF StopGossip, AfterStop, Goto, At, Under, PCs, Moves
  <2>6. CASE ForgetGossip(p)
    BY <2>6 DEF ForgetGossip, At, Under, PCs, Moves
  <2>7. CASE StartGossip(p) \/ StartPing(p)
    BY <2>7 DEF StartGossip, StartPing, Goto, At, Under, PCs, Moves
  <2>8. CASE Register(p)
    <3>1. PICK y \in op[p].todo, to \in {"spawn", "register"} : op' = [op EXCEPT ![p].todo = @ \ {y}, ![p].pc = to]
      BY <2>8 DEF Register
    <3> QED BY <2>8, <3>1 DEF Register, At, Under, PCs, Moves
  <2> QED BY <2>1, <2>2, <2>3, <2>4, <2>5, <2>6, <2>7, <2>8 DEF Step
<1>2. CASE p # Main
  <2>1. op'[Main] = op[Main]
    BY <1>1, <1>2 DEF Moves, TypeInv, ProcsOK, Procs
  <2> QED BY <1>1, <1>2, <2>1 DEF Calm
<1>3. CASE p = Main
  <2>1. op'[p].pc \in {"idle", "join", "joinWrite"} /\ op[p].pc \in MainPCs
    BY <1>3 DEF Calm, TypeInv, ProcsOK
  <2>2. CASE op[p].pc \in {"join", "joinWrite"}
    <3>1. RouteJoin(p) \/ JoinGroup(p)
      BY <2>2 DEF Step, RouteJoin, RouteLeave, Route, JoinGroup, LeaveGroup, SetMode, StopPing, StopGossip,
                  CloseGossip, WaitGossip, ForgetGossip, StartGossip, StartPing, Register, SpawnGossip,
                  SpawnPing, SetSuspicion, At
    <3> QED BY <1>1, <1>3, <2>2, <3>1 DEF Calm
  <2>3. CASE op[p].pc \in {"stopPing", "stopGossip", "closeGossip", "waitGossip", "forgetGossip"}
    <3>1. StopPing(p) \/ StopGossip(p) \/ CloseGossip(p) \/ WaitGossip(p) \/ ForgetGossip(p)
      BY <2>3 DEF Step, RouteJoin, RouteLeave, Route, JoinGroup, LeaveGroup, SetMode, StartGossip,
                  StartPing, Register, SpawnGossip, SpawnPing, SetSuspicion, At
    <3>2. op'[p].pc \in {"stopRest", "crashed", "closeGossip", "waitGossip", "forgetGossip"}
      <4>1. CASE StopPing(p) \/ CloseGossip(p) \/ WaitGossip(p)
        <5>1. PICK to \in {"stopRest", "crashed", "waitGossip", "forgetGossip"} :
                op' = [op EXCEPT ![p].pc = to]
          BY <1>3, <4>1 DEF StopPing, CloseGossip, WaitGossip, Panic, Goto, AfterStop
        <5> QED BY <5>1 DEF TypeInv, ProcsOK, Ops
      <4>2. CASE StopGossip(p) \/ ForgetGossip(p)
        <5>1. PICK to \in {"stopRest", "closeGossip"}, c \in {stopCh, Nil} :
                op' = [op EXCEPT ![p].pc = to] \/ op' = [op EXCEPT ![p].pc = to, ![p].ch = c]
          BY <1>3, <4>2 DEF StopGossip, ForgetGossip, Goto, AfterStop
        <5> QED BY <5>1 DEF TypeInv, ProcsOK, Ops
      <4> QED BY <3>1, <4>1, <4>2
    <3> QED BY <2>1, <3>2
  <2> QED BY <1>1, <2>1, <2>2, <2>3 DEF MainPCs
<1> QED BY <1>2, <1>3

\* A step of an operation that is alone under way.
LEMMA SwitchStep ==
  ASSUME TypeInv, SwitchInv, NEW p \in Procs, Step(p)
  PROVE  SwitchInv'
<1> SUFFICES ASSUME Calm'
             PROVE  Alone' /\ (\A q \in Procs : Under(q)' => Local(q)') /\ ((\A q \in Procs : ~Under(q)') => Whole')
  BY DEF SwitchInv
<1>1. Calm /\ Under(p) /\ Moves(p, op'[p])
  BY MainGoesOn
<1>2. NoPanic
  BY DEF Calm, NoPanic
<1>3. Local(p) /\ \A q \in Procs : q # p => ~Under(q)
  BY <1>1 DEF SwitchInv, Alone
<1>4. \A q \in Procs : q # p => ~Under(q)'
  BY <1>1, <1>3 DEF Moves, TypeInv, ProcsOK, Under
<1>5. Then(p)
  BY <1>2, <1>3, RouteAlone, GroupAlone, SetModeAlone, StopPingAlone, StopGossipAlone, CloseGossipAlone,
     ForgetGossipAlone, StartGossipAlone, StartPingAlone, RegisterAlone, SpawnGossipAlone, SpawnPingAlone,
     SetSuspicionAlone DEF Step
<1>6. Alone'
  BY <1>4 DEF Alone
<1> HIDE DEF Alone, Calm
<1> QED BY <1>4, <1>5, <1>6 DEF Then

\* A request that comes alone finds everything whole.
LEMMA SwitchArrive ==
  ASSUME TypeInv, SwitchInv, NEW p \in Clients, NEW o, o.pc \in {"setMode", "join", "leave"}, Arrive(p, o)
  PROVE  SwitchInv'
<1> SUFFICES ASSUME Calm'
             PROVE  Alone' /\ (\A q \in Procs : Under(q)' => Local(q)') /\ ((\A q \in Procs : ~Under(q)') => Whole')
  BY DEF SwitchInv
<1>1. /\ p \in Procs /\ op' = [op EXCEPT ![p] = o] /\ op[Main].pc \in {"idle", "join", "joinWrite"}
      /\ events' = IF \E q \in Procs : Under(q) THEN events \cup {"overlap"} ELSE events
      /\ UNCHANGED <<mode, active, stopCh, closed, loops, stopped, pingLoops, handlers>>
  BY DEF Arrive, Procs, gossipVars, pingVars
<1>2. \A q \in Procs : ~Under(q)
  BY <1>1 DEF Calm
<1>3. events' = events
  BY <1>1, <1>2
<1>4. Calm
  BY <1>1, <1>3 DEF Calm
<1>5. Whole
  BY <1>2, <1>4 DEF SwitchInv
<1>6. Whole'
  BY <1>1, <1>3, <1>5 DEF Whole, Open, NoLoops, HandledBy, Over, Left, Once, Asked
<1>7. op'[p] = o /\ \A q \in Procs : q # p => op'[q] = op[q]
  BY <1>1 DEF TypeInv, ProcsOK
<1>8. \A q \in Procs : Under(q)' => q = p
  BY <1>2, <1>7 DEF Under
<1>9. Local(p)'
  BY <1>6, <1>7 DEF Local
<1>10. Alone'
  BY <1>8 DEF Alone
<1> QED BY <1>6, <1>8, <1>9, <1>10

\* Once Main goes on to stop, nothing is asked for.
LEMMA SwitchMain ==
  ASSUME TypeInv, Signal \/ Drain \/ StopController \/ StopRest
  PROVE  SwitchInv'
<1>1. PICK to \in {"drain", "stop", "stopGossip", "stopPing", "exited"} : Goto(Main, to)
  BY DEF Signal, Drain, StopController, StopRest
<1>2. op'[Main].pc = to
  BY <1>1 DEF Goto, TypeInv, ProcsOK, Ops, Procs
<1> QED BY <1>2 DEF SwitchInv, Calm

\* What WhatSwitchesLeave and the steps between requests rely on.
LEMMA SwitchInvariant == Spec => []SwitchInv
<1>1. Init => SwitchInv
  <2> SUFFICES ASSUME Init PROVE SwitchInv
    OBVIOUS
  <2>1. /\ mode \in Modes /\ stopCh = 1 /\ closed = {} /\ handlers = [y \in Types |-> mode]
        /\ active["gossip"] <=> mode = "gossip"
        /\ pingLoops = IF mode = "ping" THEN 1 ELSE 0
        /\ ~stopped /\ ~Left /\ ~Asked
    BY DEF Init, Modes, Left, Asked
  <2>2. loops = [k \in Kinds |-> [c \in Waits |-> IF c = Nil /\ mode = "gossip" THEN 1 ELSE 0]]
    BY DEF Init, Waits
  <2>3. NoLoops <=> mode # "gossip"
    <3>1. Nil \in Waits /\ \A k \in Kinds : DOMAIN loops[k] = Waits
      BY <2>2 DEF Waits
    <3>2. PICK k \in Kinds : TRUE
      OBVIOUS
    <3>3. mode = "gossip" => loops[k][Nil] = 1
      BY <2>2, <3>1
    <3> QED BY <2>2, <3>1, <3>2, <3>3 DEF NoLoops
  <2>4. Whole
    BY <2>1, <2>3 DEF Whole, Open, HandledBy, Over, Once
  <2>5. \A p \in Procs : op[p].pc \in {"idle", "join"} /\ (Under(p) => p = Main)
    BY DEF Init, Idle, Op, Under
  <2>6. \A p \in Procs : Local(p)
    BY <2>4, <2>5 DEF Local
  <2> QED BY <2>4, <2>5, <2>6 DEF SwitchInv, Alone
<1>2. TypeInv /\ TypeInv' /\ SwitchInv /\ [Next]_vars => SwitchInv'
  <2> SUFFICES ASSUME TypeInv, TypeInv', SwitchInv, [Next]_vars PROVE SwitchInv'
    OBVIOUS
  <2>1. ASSUME NEW p \in Clients, NEW m \in Modes, NEW s \in Suspicions, SwitchRequest(p, m, s)
        PROVE  SwitchInv'
    BY <2>1, SwitchArrive DEF SwitchRequest, Op
  <2>2. ASSUME NEW p \in Clients, JoinRequest(p) \/ LeaveRequest(p)
        PROVE  SwitchInv'
    BY <2>2, SwitchArrive DEF JoinRequest, LeaveRequest, Op
  <2>3. CASE UNCHANGED vars
    <3>1. UNCHANGED <<mode, active, stopCh, closed, loops, stopped, pingLoops, handlers, op, events>>
      BY <2>3 DEF vars, gossipVars, pingVars
    <3>2. (Whole => Whole') /\ (ToGossip => ToGossip') /\ (Over => Over') /\ (Open => Open') /\ (NoLoops => NoLoops')
      BY <3>1 DEF Whole, ToGossip, Over, Open, NoLoops, HandledBy, Left, Once, Asked
    <3>3. \A p \in Procs : Local(p) => Local(p)'
      BY <3>1, <3>2, LocalKept
    <3> QED BY <3>1, <3>2, <3>3 DEF SwitchInv, Calm, Alone, Under
  <2> QED BY <2>1, <2>2, <2>3, SwitchStep, SwitchLoops, SwitchMain DEF Next, Waits
<1> QED BY <1>1, <1>2, TypeInvariant, PTL DEF Spec

\* What any number of requests, in any order, leaves behind when they come one at a
\* time: whose the shared messages are, and which loops run, those of a detector that
\* was stopped for good and those of a gossip that was left included.
THEOREM LoneSwitchesLeave == Spec => []WhatSwitchesLeave
<1>1. SwitchInv => WhatSwitchesLeave
  <2> SUFFICES ASSUME SwitchInv, Quiet
               PROVE  /\ \A y \in Types : handlers[y] = mode
                      /\ stopped <=> "asked for gossip" \in events
                      /\ mode = "gossip" => ~NoLoops /\ (pingLoops = 0 \/ stopped)
                      /\ mode = "ping" => /\ pingLoops > 0 \/ stopped
                                          /\ ~NoLoops <=> "left gossip" \in events
    BY DEF WhatSwitchesLeave
  <2>1. Calm /\ \A p \in Procs : ~Under(p)
    BY DEF Quiet, Calm, Under, Procs
  <2>2. Whole
    BY <2>1 DEF SwitchInv
  <2> QED BY <2>2 DEF Whole, HandledBy, Over, Left, Once, Asked
<1> QED BY SwitchInvariant, <1>1, PTL

-----------------------------------------------------------------------------
(* Stops that wait                                                         *)

Waiting(p) == op[p].pc \in {"closeGossip", "waitGossip"}
Forgetful  == stopCh = Nil \/ \E p \in Procs : op[p].pc = "forgetGossip"

\* Nobody is in Start while somebody is in Stop; who has waited, and who finds no
\* channel, finds no loops; and the loops of who waits, or is about to, look at a closed
\* channel, or at the one he is about to close.
WaitOK ==
  /\ \A p, q \in Procs : op[p].pc \in StopPCs => ~Starting(q)
  /\ Forgetful => NoLoops /\ \A p \in Procs : ~Starting(p)
  /\ \A p \in Procs : Waiting(p) =>
       NoLoops \/ stopCh \in closed \/ (Closing(p) /\ op[p].ch = stopCh)

\* This holds as long as no Start came beside a Stop.
WaitInv == "start beside stop" \in events \/ WaitOK

\* A step of a process that is not in Stop and does not come to be in Start.
LEMMA WaitAside ==
  ASSUME TypeInv, WaitOK, NEW p, NEW o, Moves(p, o), op[p].pc \notin StopPCs, op'[p].pc \notin StopPCs,
         Starting(p)' => Starting(p), UNCHANGED <<stopCh, closed, loops>>
  PROVE  WaitOK'
<1>1. p \in Procs /\ \A q \in Procs : q # p => op'[q] = op[q]
  BY DEF Moves, TypeInv, ProcsOK
<1>2. \A q \in Procs : op'[q].pc \in StopPCs => op'[q] = op[q]
  BY <1>1
<1>3. \A q \in Procs : Starting(q)' => Starting(q)
  BY <1>1 DEF Starting
<1>4. NoLoops' <=> NoLoops
  BY DEF NoLoops
<1>5. Forgetful' => Forgetful
  BY <1>2 DEF Forgetful, StopPCs
<1>6. \A q \in Procs : Waiting(q)' => Waiting(q) /\ op'[q] = op[q]
  BY <1>2 DEF Waiting, StopPCs
<1>7. \A q, r \in Procs : op'[q].pc \in StopPCs => ~Starting(r)'
  BY <1>2, <1>3 DEF WaitOK
<1>8. Forgetful' => NoLoops' /\ \A q \in Procs : ~Starting(q)'
  BY <1>3, <1>4, <1>5 DEF WaitOK
<1>9. \A q \in Procs : Waiting(q)' =>
        NoLoops' \/ stopCh' \in closed' \/ (Closing(q)' /\ op'[q].ch = stopCh')
  BY <1>4, <1>6 DEF WaitOK, Closing
<1> QED BY <1>7, <1>8, <1>9 DEF WaitOK

\* A request comes, or a JoinGroup is done.
LEMMA WaitIdle ==
  ASSUME TypeInv, WaitInv, NEW p \in Procs, NEW o, Moves(p, o), op[p].pc \in {"idle", "joinWrite"},
         o.pc \in {"idle", "setMode", "join", "leave"},
         UNCHANGED <<stopCh, closed, loops>>,
         "start beside stop" \in events => "start beside stop" \in events'
  PROVE  WaitInv'
<1>1. op'[p] = o
  BY DEF Moves, TypeInv, ProcsOK
<1>2. op[p].pc \notin StopPCs /\ op'[p].pc \notin StopPCs /\ ~Starting(p)'
  BY <1>1 DEF StopPCs, Starting
<1> QED BY <1>2, WaitAside DEF WaitInv

\* SpawnGossip: the loops begin while nobody is in Stop, and there is a channel.
LEMMA WaitSpawn ==
  ASSUME TypeInv, WaitInv, NEW p \in Procs, SpawnGossip(p)
  PROVE  WaitInv'
<1>1. /\ Starting(p) /\ UNCHANGED <<stopCh, events>>
      /\ Goto(p, "setSuspicion")
  BY DEF SpawnGossip, Starting, At
<1>2. op'[p].pc = "setSuspicion" /\ \A q \in Procs : q # p => op'[q] = op[q]
  BY <1>1 DEF Goto, TypeInv, ProcsOK, Ops
<1>3. CASE WaitOK
  <2>1. stopCh # Nil /\ \A q \in Procs : op[q].pc \notin StopPCs
    BY <1>1, <1>3 DEF WaitOK, Forgetful
  <2>2. \A q \in Procs : op'[q].pc \notin StopPCs
    BY <1>2, <2>1 DEF StopPCs
  <2>3. ~Forgetful' /\ \A q \in Procs : ~Waiting(q)'
    BY <1>1, <2>1, <2>2 DEF Forgetful, Waiting, StopPCs
  <2> QED BY <2>2, <2>3 DEF WaitInv, WaitOK
<1> QED BY <1>1, <1>3 DEF WaitInv

\* The other steps outside Stop and Start.
LEMMA WaitElsewhere ==
  ASSUME TypeInv, WaitInv, NEW p \in Procs, Elsewhere(p)
  PROVE  WaitInv'
<1>1. CASE SpawnGossip(p)
  BY <1>1, WaitSpawn
<1>2. CASE ~SpawnGossip(p)
  <2>1. loops' = loops
    BY <1>2 DEF Elsewhere, RouteJoin, RouteLeave, Route, LeaveGroup, SetMode, StopPing, StartPing, Register,
                SpawnPing, SetSuspicion, gossipVars
  <2> QED BY <2>1, ElsewhereMoves, WaitAside DEF WaitInv
<1> QED BY <1>1, <1>2

\* StopGossip: the channel taken is the one the loops look at.
LEMMA WaitStop ==
  ASSUME TypeInv, WaitInv, NEW p \in Procs, StopGossip(p)
  PROVE  WaitInv'
<1>1. /\ op[p].pc = "stopGossip" /\ UNCHANGED <<stopCh, closed, loops, made>>
      /\ events \subseteq events'
  BY DEF StopGossip, At, gossipVars
<1>2. CASE ~active["gossip"]
  <2>1. Moves(p, op'[p]) /\ op'[p].pc \in {"start", "stopRest"}
    BY <1>1, <1>2, AfterStopFits DEF StopGossip
  <2>2. op[p].pc \notin StopPCs /\ op'[p].pc \notin StopPCs /\ ~Starting(p)'
    BY <1>1, <2>1 DEF StopPCs, Starting
  <2> QED BY <1>1, <2>1, <2>2, WaitAside DEF WaitInv
<1>3. CASE active["gossip"] /\ InStart
  BY <1>3 DEF StopGossip, WaitInv
<1>4. CASE active["gossip"] /\ ~InStart /\ WaitOK
  <2>1. op' = [op EXCEPT ![p].pc = "closeGossip", ![p].ch = stopCh]
    BY <1>4 DEF StopGossip
  <2>2. /\ \A q \in Procs : q # p => op'[q] = op[q]
        /\ op'[p].pc = "closeGossip" /\ op'[p].ch = stopCh
    BY <2>1 DEF TypeInv, ProcsOK, Ops
  <2>3. \A q \in Procs : ~Starting(q) /\ ~Starting(q)'
    BY <1>4, <2>2 DEF InStart, Starting
  <2>4. NoLoops' <=> NoLoops
    BY <1>1 DEF NoLoops
  <2>5. Forgetful' => Forgetful
    BY <1>1, <2>2 DEF Forgetful
  <2>6. \A q \in Procs : Waiting(q)' =>
          NoLoops' \/ stopCh' \in closed' \/ (Closing(q)' /\ op'[q].ch = stopCh')
    BY <1>1, <1>4, <2>2, <2>4 DEF WaitOK, Waiting, Closing
  <2>7. Forgetful' => NoLoops'
    BY <1>4, <2>4, <2>5 DEF WaitOK
  <2> QED BY <2>3, <2>6, <2>7 DEF WaitInv, WaitOK
<1> QED BY <1>1, <1>2, <1>3, <1>4 DEF WaitInv

\* CloseGossip: what the loops look at is closed from now on.
LEMMA WaitClose ==
  ASSUME TypeInv, WaitInv, NEW p \in Procs, CloseGossip(p)
  PROVE  WaitInv'
<1>1. /\ Closing(p) /\ UNCHANGED <<stopCh, loops, made>> /\ events \subseteq events'
      /\ \/ Panic(p) /\ closed' = closed
         \/ closed' = closed \cup ({op[p].ch} \ {Nil}) /\ Goto(p, "waitGossip")
  <2>1. op[p].pc = "closeGossip" /\ UNCHANGED <<stopCh, loops, made>>
    BY DEF CloseGossip, At
  <2>2. CASE op[p].ch \in closed
    BY <2>1, <2>2 DEF CloseGossip, Closing, Panic
  <2>3. CASE op[p].ch \notin closed
    BY <2>1, <2>3 DEF CloseGossip, Closing
  <2> QED BY <2>2, <2>3
<1>2. CASE WaitOK
  <2>1. /\ \A q \in Procs : q # p => op'[q] = op[q]
        /\ (Panic(p) /\ op'[p].pc \in {"idle", "crashed"}) \/ op'[p].pc = "waitGossip"
    <3>1. CASE Panic(p)
      <4>1. Moves(p, op'[p]) /\ op'[p].pc \in {"idle", "crashed"}
        BY <1>1, <3>1, PanicFits
      <4> QED BY <3>1, <4>1 DEF Moves, TypeInv, ProcsOK
    <3>2. CASE Goto(p, "waitGossip")
      BY <3>2 DEF Goto, TypeInv, ProcsOK, Ops
    <3> QED BY <1>1, <3>1, <3>2
  <2>2. \A q \in Procs : ~Starting(q)
    BY <1>1, <1>2 DEF WaitOK, Closing, StopPCs
  <2>3. \A q \in Procs : ~Starting(q)'
    BY <2>1, <2>2 DEF Starting
  <2>4. NoLoops' <=> NoLoops
    BY <1>1 DEF NoLoops
  <2>5. Forgetful' => Forgetful
    BY <1>1, <2>1 DEF Forgetful
  <2>6. Forgetful' => NoLoops'
    BY <1>2, <2>4, <2>5 DEF WaitOK
  <2>7. ASSUME NEW q \in Procs, Waiting(q)'
        PROVE  NoLoops' \/ stopCh' \in closed' \/ (Closing(q)' /\ op'[q].ch = stopCh')
    <3>1. CASE q # p
      BY <1>1, <1>2, <2>1, <2>4, <2>7, <3>1 DEF WaitOK, Waiting, Closing
    <3>2. CASE q = p
      <4>1. closed' = closed \cup ({op[p].ch} \ {Nil}) /\ Waiting(p)
        <5>1. ~Panic(p)
          <6>1. ASSUME Panic(p) PROVE op'[p].pc \in {"idle", "crashed"}
            BY <1>1, <6>1, PanicFits
          <6> QED BY <2>7, <3>2, <6>1 DEF Waiting
        <5> QED BY <1>1, <5>1 DEF Waiting, Closing
      <4>2. stopCh = Nil => NoLoops
        BY <1>2 DEF WaitOK, Forgetful
      <4>3. NoLoops \/ stopCh \in closed \/ op[p].ch = stopCh
        BY <1>2, <4>1 DEF WaitOK
      <4> QED BY <1>1, <2>4, <4>1, <4>2, <4>3
    <3> QED BY <3>1, <3>2
  <2> QED BY <2>3, <2>6, <2>7 DEF WaitInv, WaitOK
<1> QED BY <1>1, <1>2 DEF WaitInv

\* WaitGossip and ForgetGossip: no loop is left, and nobody is there to begin one.
LEMMA WaitForget ==
  ASSUME TypeInv, WaitInv, NEW p \in Procs, WaitGossip(p) \/ ForgetGossip(p)
  PROVE  WaitInv'
<1>1. /\ op[p].pc \in {"waitGossip", "forgetGossip"} /\ UNCHANGED <<closed, loops, events>>
      /\ op[p].pc = "waitGossip" => NoLoops
  BY DEF WaitGossip, ForgetGossip, At, gossipVars
<1>2. /\ \A q \in Procs : q # p => op'[q] = op[q]
      /\ op'[p].pc \in {"forgetGossip", "start", "stopRest"}
  BY DEF WaitGossip, ForgetGossip, Goto, TypeInv, ProcsOK, Ops
<1>3. CASE WaitOK
  <2>1. NoLoops /\ \A q \in Procs : ~Starting(q)
    BY <1>1, <1>3 DEF WaitOK, Forgetful, StopPCs
  <2>2. NoLoops' /\ \A q \in Procs : ~Starting(q)'
    BY <1>1, <1>2, <2>1 DEF NoLoops, Starting
  <2> QED BY <2>2 DEF WaitInv, WaitOK
<1> QED BY <1>1, <1>3 DEF WaitInv

\* StartGossip: the channel is a new one, and nobody is in Stop.
LEMMA WaitStart ==
  ASSUME TypeInv, WaitInv, NEW p \in Procs, StartGossip(p)
  PROVE  WaitInv'
<1>1. /\ op[p].pc = "start" /\ UNCHANGED <<closed, loops>>
      /\ "start beside stop" \in events => "start beside stop" \in events'
  BY DEF StartGossip, At
<1>2. CASE active["gossip"]
  <2>1. Goto(p, "setSuspicion") /\ stopCh' = stopCh
    BY <1>2 DEF StartGossip
  <2>2. Moves(p, op'[p]) /\ op'[p].pc = "setSuspicion"
    BY <2>1 DEF Goto, Moves, TypeInv, ProcsOK, Ops
  <2>3. op[p].pc \notin StopPCs /\ op'[p].pc \notin StopPCs /\ ~Starting(p)'
    BY <1>1, <2>2 DEF StopPCs, Starting
  <2> QED BY <1>1, <2>1, <2>2, <2>3, WaitAside DEF WaitInv
<1>3. CASE ~active["gossip"] /\ InStop
  BY <1>3 DEF StartGossip, WaitInv
<1>4. CASE ~active["gossip"] /\ ~InStop
  <2>1. /\ stopCh' = made + 1 /\ made \in Nat
        /\ op' = [op EXCEPT ![p].pc = "register", ![p].todo = Types]
    BY <1>4 DEF StartGossip, TypeInv, DataOK
  <2>2. op'[p].pc = "register" /\ \A q \in Procs : q # p => op'[q] = op[q]
    BY <2>1 DEF TypeInv, ProcsOK, Ops
  <2>3. \A q \in Procs : op'[q].pc \notin StopPCs
    BY <1>4, <2>2 DEF InStop, StopPCs
  <2>4. stopCh' # Nil
    BY <2>1
  <2>5. ~Forgetful' /\ \A q \in Procs : ~Waiting(q)'
    BY <2>3, <2>4 DEF Forgetful, Waiting, StopPCs
  <2> QED BY <2>3, <2>5 DEF WaitInv, WaitOK
<1> QED BY <1>2, <1>3, <1>4

\* A turn and an end of a loop: there is one, so nobody forgets a channel.
LEMMA WaitLoops ==
  ASSUME TypeInv, TypeInv', WaitInv, NEW k \in Kinds, NEW c \in Waits, TakeTurn(k, c) \/ EndLoop(k, c)
  PROVE  WaitInv'
<1>1. ~NoLoops
  BY LoopsTurn
<1>2. UNCHANGED <<stopCh, closed, op, events>>
  BY DEF TakeTurn, EndLoop
<1> QED BY <1>1, <1>2 DEF WaitInv, WaitOK, Forgetful, Waiting, Closing, Starting

\* Main goes on to stop, or ends.
LEMMA WaitMain ==
  ASSUME TypeInv, WaitInv, Signal \/ Drain \/ StopController \/ StopRest
  PROVE  WaitInv'
<1>1. PICK pc \in PCs \ StopPCs, to \in {"drain", "stop", "stopGossip", "stopPing", "exited"} :
        /\ At(Main, pc) /\ Goto(Main, to)
        /\ events \subseteq events'
        /\ UNCHANGED <<stopCh, closed, loops>>
  BY DEF Signal, Drain, StopController, StopRest, PCs, StopPCs, gossipVars
<1>2. Moves(Main, op'[Main]) /\ op'[Main].pc = to
  BY <1>1 DEF Goto, Moves, TypeInv, ProcsOK, Ops, Procs
<1>3. op[Main].pc \notin StopPCs /\ op'[Main].pc \notin StopPCs /\ ~Starting(Main)'
  BY <1>1, <1>2 DEF At, StopPCs, Starting
<1> QED BY <1>1, <1>2, <1>3, WaitAside DEF WaitInv

\* The invariant of Stops that wait.
LEMMA WaitInvariant == Spec => []WaitInv
<1>1. Init => WaitInv
  <2> SUFFICES ASSUME Init PROVE WaitOK
    BY DEF WaitInv
  <2>1. \A p \in Procs : op[p].pc \in {"idle", "join"}
    BY DEF Init, Idle, Op
  <2>2. stopCh = 1 /\ stopCh # Nil
    BY DEF Init
  <2> QED BY <2>1, <2>2 DEF WaitOK, Forgetful, Waiting, StopPCs
<1>2. TypeInv /\ TypeInv' /\ WaitInv /\ [Next]_vars => WaitInv'
  <2> SUFFICES ASSUME TypeInv, TypeInv', WaitInv, [Next]_vars PROVE WaitInv'
    OBVIOUS
  <2>1. ASSUME NEW p \in Clients, NEW o, o.pc \in {"setMode", "join", "leave"}, Arrive(p, o)
        PROVE  WaitInv'
    <3>1. /\ p \in Procs /\ op[p].pc = "idle" /\ Moves(p, o)
          /\ UNCHANGED <<stopCh, closed, loops>> /\ events \subseteq events'
      BY <2>1 DEF Arrive, At, Moves, Procs, gossipVars
    <3> QED BY <2>1, <3>1, WaitIdle
  <2>2. ASSUME NEW p \in Clients, NEW m \in Modes, NEW s \in Suspicions,
               SwitchRequest(p, m, s)
        PROVE  WaitInv'
    BY <2>1, <2>2 DEF SwitchRequest, Op
  <2>3. ASSUME NEW p \in Clients, JoinRequest(p) \/ LeaveRequest(p)
        PROVE  WaitInv'
    BY <2>1, <2>3 DEF JoinRequest, LeaveRequest, Op
  <2>4. ASSUME NEW p \in Procs, JoinGroup(p) PROVE WaitInv'
    <3>1. /\ op[p].pc = "joinWrite" /\ Done(p)
          /\ "start beside stop" \in events => "start beside stop" \in events'
          /\ UNCHANGED <<stopCh, closed, loops, made>>
      BY <2>4 DEF JoinGroup, At, gossipVars
    <3> QED BY <3>1, DoneFits, WaitIdle
  <2>5. ASSUME NEW p \in Procs, Step(p) PROVE WaitInv'
    BY <2>4, <2>5, WaitElsewhere, WaitStop, WaitClose, WaitForget, WaitStart DEF Step, Elsewhere
  <2>6. CASE UNCHANGED <<op, stopCh, closed, loops, events>>
    BY <2>6 DEF WaitInv, WaitOK, Forgetful, Waiting, Closing, Starting, NoLoops
  <2>7. CASE EndPingLoops \/ UNCHANGED vars
    BY <2>6, <2>7 DEF EndPingLoops, vars, gossipVars
  <2> QED BY <2>2, <2>3, <2>5, <2>7, WaitLoops, WaitMain DEF Next, Waits
<1> QED BY <1>1, <1>2, TypeInvariant, PTL DEF Spec

\* A Stop of the gossip manager waits only for loops that look at a closed channel, or
\* for none: for any number of requests and of loops, and the shutdown, as long as no
\* Start comes beside a Stop.
THEOREM StopsWaitForLoopsThatEnd == Spec => []StopsCanEnd
<1>1. WaitInv => StopsCanEnd
  BY DEF WaitInv, WaitOK, Waiting, Closing, StopsCanEnd
<1> QED BY <1>1, WaitInvariant, PTL

=============================================================================
