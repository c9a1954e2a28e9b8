----------------------------- MODULE Lifecycle -----------------------------
(***************************************************************************)
(* The life of the two detectors inside one process: Controller (main.go)  *)
(* starts one of them and switches between them on request, Start and Stop *)
(* of both detectors, JoinGroup and LeaveGroup, and the shutdown.          *)
(*                                                                         *)
(* Clients are goroutines of the control server's HTTP requests, Main is   *)
(* the goroutine of main.  They share mode and the fields of the managers, *)
(* most of them without a lock.  Of the loops only their end is modelled:  *)
(* a loop of the gossip manager reads g.stopCh anew in every turn, and     *)
(* waits for the channel it has read.  A panic in a request is recovered by*)
(* the HTTP server and ends the request; one in Main ends the process.     *)
(***************************************************************************)
EXTENDS Naturals

CONSTANTS
  Clients,      \* numbers of the requests that can be under way at one time (bound)
  Main,
  MaxRequests,  \* requests of a run (bound)
  MaxOverlap,   \* of these, the first ones, that may come during another (bound)
  Suspicions,   \* what a switch may ask for (bound: of BOOLEAN)
  Types,        \* message types both detectors handle (bound: of the five)
  Kinds,        \* loops a gossip Start begins (bound: of the two)
  Nil           \* no channel

ASSUME LifecycleAssumption ==
  /\ Clients \subseteq Nat /\ Main \notin Clients
  /\ MaxRequests \in Nat /\ MaxOverlap \in Nat
  /\ Nil \notin Nat
  /\ Suspicions \subseteq BOOLEAN
  /\ Types # {} /\ Types \subseteq {"Suspect", "AliveMsg", "Join", "JoinResponse", "Leave"}
  /\ Kinds # {} /\ Kinds \subseteq {"gossipLoop", "failureDetectionLoop"}

Procs    == Clients \cup {Main}
Modes    == {"gossip", "ping"}
Channels == 1..(MaxRequests + 1)

\* The places of the types in the order in which the detectors register them.
Place == [gossip |-> [Suspect |-> 1, AliveMsg |-> 2, Join |-> 3, JoinResponse |-> 4, Leave |-> 5],
          ping   |-> [Join |-> 1, JoinResponse |-> 2, AliveMsg |-> 3, Suspect |-> 4, Leave |-> 5]]

VARIABLES
  mode,         \* Controller.mode
  active,       \* per manager: active
  suspicion,    \* per manager: enableSuspicion
  stopCh,       \* gossip: stopCh
  made,         \* gossip: channels made so far
  closed,       \* gossip: channels closed
  stopped,      \* pingack: stopped is closed
  loops,        \* gossip: loops per kind and channel they wait for (their sum is wg)
  pingLoops,    \* pingack: starts whose loops still run
  handlers,     \* the manager that handles a shared message type
  op,           \* what a process is doing
  requests,     \* requests made so far
  events        \* history: marks of what has happened in the run

vars == <<mode, active, suspicion, stopCh, made, closed, stopped, loops, pingLoops,
          handlers, op, requests, events>>

gossipVars == <<stopCh, made, closed, loops>>
pingVars   == <<stopped, pingLoops>>

\* mech and susp are the arguments of the request, or the manager an operation was
\* routed to; ch and todo are locals of Stop and Start.
Op(pc, mech, susp) == [pc |-> pc, mech |-> mech, susp |-> susp, ch |-> Nil, todo |-> {}]
Idle == Op("idle", "gossip", FALSE)

Under(p) == op[p].pc # "idle"

PCs == {"idle", "setMode", "stopGossip", "closeGossip", "waitGossip", "forgetGossip",
        "stopPing", "start", "register", "spawn", "setSuspicion", "join", "joinWrite",
        "leave", "leaveWrite", "drain", "stop", "stopRest", "exited", "crashed"}

\* "left gossip" is taken back when gossip is joined or started again.
Events == {"overlap", "panic", "start beside stop", "join in stop", "left gossip",
           "asked for gossip"}

TypeOK ==
  /\ mode \in Modes
  /\ active \in [Modes -> BOOLEAN]
  /\ suspicion \in [Modes -> BOOLEAN]
  /\ made \in 0..(MaxRequests + 1)
  /\ stopCh \in 1..made \cup {Nil}
  /\ closed \subseteq 1..made
  /\ stopped \in BOOLEAN
  /\ loops \in [Kinds -> [Channels \cup {Nil} -> 0..(MaxRequests + 1)]]
  /\ pingLoops \in 0..(MaxRequests + 1)
  /\ handlers \in [Types -> Modes]
  /\ \A p \in Procs : /\ op[p].pc \in PCs
                      /\ op[p].mech \in Modes /\ op[p].susp \in BOOLEAN
                      /\ op[p].ch \in 1..made \cup {Nil}
                      /\ op[p].todo \subseteq Types
  /\ requests \in 0..MaxRequests
  /\ events \subseteq Events

\* Controller.Start is done: one manager runs.  Channel 1 is the one its Start made,
\* or in pingack mode the one NewGossipManager made.  Main joins the group, if it was
\* given an introducer; the control server takes requests already.
Init ==
  /\ mode \in Modes
  /\ active = [m \in Modes |-> m = "ping" \/ mode = "gossip"]
  /\ suspicion = [m \in Modes |-> FALSE]
  /\ made = 1
  /\ stopCh = 1
  /\ closed = {}
  /\ stopped = FALSE
  /\ loops = [k \in Kinds |-> [c \in Channels \cup {Nil} |->
                                 IF c = Nil /\ mode = "gossip" THEN 1 ELSE 0]]
  /\ pingLoops = IF mode = "ping" THEN 1 ELSE 0
  /\ handlers = [y \in Types |-> mode]
  /\ \E pc \in {"idle", "join"} :
       op = [p \in Procs |-> IF p = Main THEN [Idle EXCEPT !.pc = pc] ELSE Idle]
  /\ requests = 0
  /\ events = {}

-----------------------------------------------------------------------------
At(p, pc) == op[p].pc = pc /\ op[Main].pc \notin {"exited", "crashed"}

Goto(p, pc) == op' = [op EXCEPT ![p].pc = pc]

\* A request ends, whatever it was; Main goes on with what follows.
Done(p) == op' = [op EXCEPT ![p] = Idle]

\* close of a closed channel.
Panic(p) ==
  /\ op' = [op EXCEPT ![p] = IF p = Main THEN [@ EXCEPT !.pc = "crashed"] ELSE Idle]
  /\ events' = events \cup {"panic"}

\* What follows the stop of a manager: the start of the other one in SwitchMode, the
\* rest of Controller.Stop in Main.
AfterStop(p) == Goto(p, IF p = Main THEN "stopRest" ELSE "start")

-----------------------------------------------------------------------------
(* Requests                                                                *)

\* The control server takes requests until Main shuts it down.
Arrive(p, o) ==
  /\ At(p, "idle") /\ p # Main
  /\ \A q \in Clients : q < p => Under(q)
  /\ op[Main].pc \in {"idle", "join", "joinWrite"}
  /\ requests < MaxRequests
  /\ requests < MaxOverlap \/ \A q \in Clients : ~Under(q)
  /\ requests' = requests + 1
  /\ op' = [op EXCEPT ![p] = o]
  /\ events' = IF \E q \in Procs : Under(q) THEN events \cup {"overlap"} ELSE events
  /\ UNCHANGED <<mode, active, suspicion, gossipVars, pingVars, handlers>>

SwitchRequest(p, m, s) == Arrive(p, Op("setMode", m, s))
JoinRequest(p)         == Arrive(p, Op("join", "gossip", FALSE))
LeaveRequest(p)        == Arrive(p, Op("leave", "gossip", FALSE))

\* JoinGroup and LeaveGroup go to the manager mode names, and write its active flag
\* without its lock.
Route(p, from, to) ==
  /\ At(p, from)
  /\ op' = [op EXCEPT ![p].pc = to, ![p].mech = mode]
  /\ UNCHANGED <<mode, active, suspicion, gossipVars, pingVars, handlers, requests, events>>

RouteJoin(p)  == Route(p, "join", "joinWrite")
RouteLeave(p) == Route(p, "leave", "leaveWrite")

\* Some process is in Stop or Start of the gossip manager, past the lock.
InStop  == \E q \in Procs : op[q].pc \in {"closeGossip", "waitGossip", "forgetGossip"}
InStart == \E q \in Procs : op[q].pc \in {"register", "spawn"} /\ op[q].mech = "gossip"

JoinGroup(p) ==
  /\ At(p, "joinWrite")
  /\ active' = [active EXCEPT ![op[p].mech] = TRUE]
  /\ Done(p)
  /\ events' = IF op[p].mech # "gossip" THEN events
               ELSE (events \ {"left gossip"}) \cup (IF InStop THEN {"join in stop"} ELSE {})
  /\ UNCHANGED <<mode, suspicion, gossipVars, pingVars, handlers, requests>>

LeaveGroup(p) ==
  /\ At(p, "leaveWrite")
  /\ active' = [active EXCEPT ![op[p].mech] = FALSE]
  /\ Done(p)
  /\ events' = IF op[p].mech = "gossip" THEN events \cup {"left gossip"} ELSE events
  /\ UNCHANGED <<mode, suspicion, gossipVars, pingVars, handlers, requests>>

-----------------------------------------------------------------------------
(* SwitchMode: the mode is set first.                                      *)

SetMode(p) ==
  /\ At(p, "setMode")
  /\ mode' = op[p].mech
  /\ Goto(p, IF op[p].mech = "gossip" THEN "stopPing" ELSE "stopGossip")
  /\ events' = IF op[p].mech = "gossip" THEN events \cup {"asked for gossip"} ELSE events
  /\ UNCHANGED <<active, suspicion, gossipVars, pingVars, handlers, requests>>

\* PingAckManager.Stop: the channel is made once, by the constructor.
StopPing(p) ==
  /\ At(p, "stopPing")
  /\ \/ /\ stopped
        /\ Panic(p)
        /\ UNCHANGED stopped
     \/ /\ ~stopped
        /\ stopped' = TRUE
        /\ AfterStop(p)
        /\ UNCHANGED events
  /\ UNCHANGED <<mode, active, suspicion, gossipVars, pingLoops, handlers, requests>>

\* Mutants of StopGossip: active stays set; an inactive manager is stopped as well; an
\* inactive manager is waited for.
StopGossipActive(p) ==
  /\ At(p, "stopGossip")
  /\ \/ /\ ~active["gossip"]
        /\ AfterStop(p)
     \/ /\ active["gossip"]
        /\ op' = [op EXCEPT ![p].pc = "closeGossip", ![p].ch = stopCh]
  /\ UNCHANGED <<mode, active, suspicion, gossipVars, pingVars, handlers, requests, events>>

StopGossipAlways(p) ==
  /\ At(p, "stopGossip")
  /\ op' = [op EXCEPT ![p].pc = "closeGossip", ![p].ch = stopCh]
  /\ active' = [active EXCEPT !["gossip"] = FALSE]
  /\ UNCHANGED <<mode, suspicion, gossipVars, pingVars, handlers, requests, events>>

StopGossipWaiting(p) ==
  /\ At(p, "stopGossip")
  /\ op' = [op EXCEPT ![p].pc = IF active["gossip"] THEN "closeGossip" ELSE "waitGossip",
                      ![p].ch = IF active["gossip"] THEN stopCh ELSE Nil]
  /\ active' = [active EXCEPT !["gossip"] = FALSE]
  /\ UNCHANGED <<mode, suspicion, gossipVars, pingVars, handlers, requests, events>>

\* GossipManager.Stop: the first section of its lock, the close, the wait for the
\* loops, the second section.
StopGossip(p) ==
  /\ At(p, "stopGossip")
  /\ \/ /\ ~active["gossip"]
        /\ AfterStop(p)
        /\ UNCHANGED <<active, events>>
     \/ /\ active["gossip"]
        /\ op' = [op EXCEPT ![p].pc = "closeGossip", ![p].ch = stopCh]
        /\ active' = [active EXCEPT !["gossip"] = FALSE]
        /\ events' = IF InStart THEN events \cup {"start beside stop"} ELSE events
  /\ UNCHANGED <<mode, suspicion, gossipVars, pingVars, handlers, requests>>

\* Mutants of CloseGossip: nil is closed too; stopCh is forgotten before the wait.
CloseGossipNil(p) ==
  /\ At(p, "closeGossip")
  /\ closed' = closed \cup {op[p].ch}
  /\ Goto(p, "waitGossip")
  /\ UNCHANGED <<mode, active, suspicion, stopCh, made, loops, pingVars, handlers, requests, events>>

CloseGossipForgetting(p) ==
  /\ At(p, "closeGossip")
  /\ closed' = closed \cup ({op[p].ch} \ {Nil})
  /\ stopCh' = Nil
  /\ Goto(p, "waitGossip")
  /\ UNCHANGED <<mode, active, suspicion, made, loops, pingVars, handlers, requests, events>>

CloseGossip(p) ==
  /\ At(p, "closeGossip")
  /\ \/ /\ op[p].ch \in closed
        /\ Panic(p)
        /\ UNCHANGED closed
     \/ /\ op[p].ch \notin closed
        /\ closed' = closed \cup ({op[p].ch} \ {Nil})
        /\ Goto(p, "waitGossip")
        /\ UNCHANGED events
  /\ UNCHANGED <<mode, active, suspicion, stopCh, made, loops, pingVars, handlers, requests>>

NoLoops == \A k \in Kinds : \A c \in DOMAIN loops[k] : loops[k][c] = 0

WaitGossip(p) ==
  /\ At(p, "waitGossip")
  /\ NoLoops
  /\ Goto(p, "forgetGossip")
  /\ UNCHANGED <<mode, active, suspicion, gossipVars, pingVars, handlers, requests, events>>

ForgetGossip(p) ==
  /\ At(p, "forgetGossip")
  /\ stopCh' = Nil
  /\ op' = [op EXCEPT ![p].pc = IF p = Main THEN "stopRest" ELSE "start", ![p].ch = Nil]
  /\ UNCHANGED <<mode, active, suspicion, made, closed, loops, pingVars, handlers, requests, events>>

\* GossipManager.Start up to the end of its critical section.
StartGossip(p) ==
  /\ At(p, "start") /\ op[p].mech = "gossip"
  /\ \/ /\ active["gossip"]
        /\ Goto(p, "setSuspicion")
        /\ UNCHANGED <<active, stopCh, made, events>>
     \/ /\ ~active["gossip"]
        /\ made' = made + 1
        /\ stopCh' = made + 1
        /\ active' = [active EXCEPT !["gossip"] = TRUE]
        /\ op' = [op EXCEPT ![p].pc = "register", ![p].todo = Types]
        /\ events' = (events \ {"left gossip"})
                       \cup (IF InStop THEN {"start beside stop"} ELSE {})
  /\ UNCHANGED <<mode, suspicion, closed, loops, pingVars, handlers, requests>>

StartPing(p) ==
  /\ At(p, "start") /\ op[p].mech = "ping"
  /\ op' = [op EXCEPT ![p].pc = "register", ![p].todo = Types]
  /\ UNCHANGED <<mode, active, suspicion, gossipVars, pingVars, handlers, requests, events>>

\* RegisterHandler, one type after the other.
Register(p) ==
  /\ At(p, "register")
  /\ \E y \in op[p].todo :
       /\ \A z \in op[p].todo : Place[op[p].mech][y] <= Place[op[p].mech][z]
       /\ handlers' = [handlers EXCEPT ![y] = op[p].mech]
       /\ op' = [op EXCEPT ![p].todo = @ \ {y},
                           ![p].pc = IF op[p].todo = {y} THEN "spawn" ELSE "register"]
  /\ UNCHANGED <<mode, active, suspicion, gossipVars, pingVars, requests, events>>

\* A new loop has not read stopCh yet.
SpawnGossip(p) ==
  /\ At(p, "spawn") /\ op[p].mech = "gossip"
  /\ loops' = [k \in Kinds |-> [loops[k] EXCEPT ![Nil] = @ + 1]]
  /\ Goto(p, "setSuspicion")
  /\ UNCHANGED <<mode, active, suspicion, stopCh, made, closed, pingVars, handlers, requests, events>>

SpawnPing(p) ==
  /\ At(p, "spawn") /\ op[p].mech = "ping"
  /\ pingLoops' = pingLoops + 1
  /\ Goto(p, "setSuspicion")
  /\ UNCHANGED <<mode, active, suspicion, gossipVars, stopped, handlers, requests, events>>

\* SetSuspicion looks at the mode again.
SetSuspicion(p) ==
  /\ At(p, "setSuspicion")
  /\ suspicion' = [suspicion EXCEPT ![mode] = op[p].susp]
  /\ Done(p)
  /\ UNCHANGED <<mode, active, gossipVars, pingVars, handlers, requests, events>>

-----------------------------------------------------------------------------
(* The loops                                                               *)

LoopsGoOn == op[Main].pc \notin {"exited", "crashed"}

\* A turn of a gossip loop: the next select reads stopCh again.
TakeTurn(k, c) ==
  /\ LoopsGoOn
  /\ loops[k][c] > 0 /\ c # stopCh
  /\ loops' = [loops EXCEPT ![k][c] = @ - 1, ![k][stopCh] = @ + 1]
  /\ UNCHANGED <<mode, active, suspicion, stopCh, made, closed, pingVars, handlers, op,
                 requests, events>>

EndLoop(k, c) ==
  /\ LoopsGoOn
  /\ loops[k][c] > 0 /\ c \in closed
  /\ loops' = [loops EXCEPT ![k][c] = @ - 1]
  /\ UNCHANGED <<mode, active, suspicion, stopCh, made, closed, pingVars, handlers, op,
                 requests, events>>

\* pingLoop, failureDetectionLoop and cleanupLoop of one Start.
EndPingLoops ==
  /\ LoopsGoOn
  /\ pingLoops > 0 /\ stopped
  /\ pingLoops' = pingLoops - 1
  /\ UNCHANGED <<mode, active, suspicion, gossipVars, stopped, handlers, op, requests, events>>

-----------------------------------------------------------------------------
(* Shutdown                                                                *)

\* SIGINT or SIGTERM.
Signal ==
  /\ At(Main, "idle")
  /\ Goto(Main, "drain")
  /\ UNCHANGED <<mode, active, suspicion, gossipVars, pingVars, handlers, requests, events>>

\* The control server waits for its requests, but for two seconds only.
Drain ==
  /\ At(Main, "drain")
  /\ Goto(Main, "stop")
  /\ events' = IF \E p \in Clients : Under(p) THEN events \cup {"overlap"} ELSE events
  /\ UNCHANGED <<mode, active, suspicion, gossipVars, pingVars, handlers, requests>>

\* Controller.Stop.
StopController ==
  /\ At(Main, "stop")
  /\ Goto(Main, IF mode = "gossip" THEN "stopGossip" ELSE "stopPing")
  /\ UNCHANGED <<mode, active, suspicion, gossipVars, pingVars, handlers, requests, events>>

\* The suspicion manager and the network stop in any state; then main returns.
StopRest ==
  /\ At(Main, "stopRest")
  /\ Goto(Main, "exited")
  /\ UNCHANGED <<mode, active, suspicion, gossipVars, pingVars, handlers, requests, events>>

-----------------------------------------------------------------------------
\* The steps of an operation that is under way.
Step(p) ==
  \/ RouteJoin(p) \/ RouteLeave(p) \/ JoinGroup(p) \/ LeaveGroup(p)
  \/ SetMode(p) \/ StopPing(p)
  \/ StopGossip(p) \/ CloseGossip(p) \/ WaitGossip(p) \/ ForgetGossip(p)
  \/ StartGossip(p) \/ StartPing(p) \/ Register(p) \/ SpawnGossip(p) \/ SpawnPing(p)
  \/ SetSuspicion(p)

Next ==
  \/ \E p \in Clients : \/ \E m \in Modes, s \in Suspicions : SwitchRequest(p, m, s)
                        \/ JoinRequest(p)
                        \/ LeaveRequest(p)
  \/ \E p \in Procs : Step(p)
  \/ \E k \in Kinds, c \in Channels \cup {Nil} : TakeTurn(k, c) \/ EndLoop(k, c)
  \/ EndPingLoops
  \/ Signal \/ Drain \/ StopController \/ StopRest

\* Goroutines that can run do run, a closed channel is noticed, tickers tick, and the
\* control server stops waiting after two seconds.  Signals need not come.
Fairness ==
  /\ \A p \in Procs : WF_vars(Step(p))
  /\ \A k \in Kinds : /\ WF_vars(\E c \in Channels : EndLoop(k, c))
                      /\ WF_vars(\E c \in Channels \cup {Nil} : TakeTurn(k, c))
  /\ WF_vars(EndPingLoops)
  /\ WF_vars(Drain \/ StopController \/ StopRest)

Spec == Init /\ [][Next]_vars /\ Fairness

-----------------------------------------------------------------------------
(* Properties                                                              *)

Quiet == /\ \A p \in Procs : op[p].pc = "idle"
         /\ events \cap {"overlap", "panic"} = {}

\* What requests that came one at a time, none of which panicked, leave behind.  The
\* detector mode names handles the shared message types.  The channel the ping loops wait
\* for is closed exactly when somebody has asked for gossip, and then they end, for good:
\* after ping, gossip, ping nothing probes (pingack.go:107).  In gossip mode the gossip
\* loops run.  In ping mode they run exactly when the node was out of the group as the
\* switch came, because Stop takes an inactive manager for a stopped one (gossip.go:83,
\* 629); JoinGroup before the switch, and the next Start, make up for it.
WhatSwitchesLeave ==
  Quiet =>
    /\ \A y \in Types : handlers[y] = mode
    /\ stopped <=> "asked for gossip" \in events
    /\ mode = "gossip" => ~NoLoops /\ (pingLoops = 0 \/ stopped)
    /\ mode = "ping" => /\ pingLoops > 0 \/ stopped
                        /\ ~NoLoops <=> "left gossip" \in events

\* GossipManager.Stop closes every channel once, whatever requests and shutdown do at
\* the same time, as long as no JoinGroup sets active (gossip.go:598, without the
\* lock) during a Stop: the lock and active make the second of two Stops return.
GossipClosesOnce ==
  [][\A p \in Procs : CloseGossip(p) /\ op[p].ch \in closed => "join in stop" \in events]_vars

\* A Stop of the gossip manager waits only for loops that will end (gossip.go:92-95):
\* where they look next, at g.stopCh, is a closed channel, or there is none left; unless
\* a Start came beside the Stop.
StopsCanEnd ==
  \A p \in Procs : op[p].pc = "waitGossip" =>
    NoLoops \/ stopCh \in closed \/ "start beside stop" \in events

\* A Stop of the gossip manager waits for its loops (gossip.go:95), and they all end:
\* every loop looks at stopCh again, and it is the closed one until the wait is over,
\* unless a Start beside the Stop replaced it (gossip.go:57) or began its loops when
\* the wait was over (gossip.go:71).
StopsEnd ==
  \A p \in Procs : At(p, "waitGossip") ~> ~At(p, "waitGossip") \/ "start beside stop" \in events

\* After a signal the process ends, by itself or by the panic of a second
\* PingAckManager.Stop (main.go:182), unless a Start and a
\* Stop of the gossip manager ran side by side.
ShutdownEnds ==
  op[Main].pc = "drain" ~> op[Main].pc \in {"exited", "crashed"} \/ "start beside stop" \in events

=============================================================================
