------------------------------ MODULE LogQuery ------------------------------
(***************************************************************************)
(* One query of the log querier: client.go asks every host for the lines   *)
(* of its log that match, server.go runs a grep on each and streams them   *)
(* back.  Between the grep and the printed line are the pipe of the grep,  *)
(* the server's goroutine, a TCP connection, the client's goroutine of the *)
(* host, the fan-in goroutine of the host, and Run.  The channels have no  *)
(* buffer, the pipe and the connection have one.                           *)
(*                                                                         *)
(* A line is its number in the output of the grep.  Its size is "plain",   *)
(* "wide" if the JSON object around it is too long for the client's        *)
(* bufio.Scanner, and "long" if it is too long for the server's.           *)
(* The context of the query is context.Background (main.go:592).           *)
(***************************************************************************)
EXTENDS Naturals, SequencesExt

CONSTANTS
  Hosts,      \* what resolveHosts returned, without duplicates
  Faulty,     \* hosts that may have wide and long lines, refuse, crash, or drop off (bound)
  MaxLines,   \* matches per host (bound)
  PipeRoom,   \* lines between a grep and the scanner of its server
  WireRoom,   \* lines under way on a connection
  None        \* no line

ASSUME LogQueryAssumption ==
  /\ Faulty \subseteq Hosts
  /\ MaxLines \in Nat /\ PipeRoom \in Nat \ {0} /\ WireRoom \in Nat \ {0}
  /\ None \notin Nat

Lines == 1..MaxLines
Sizes(h) == IF h \in Faulty THEN {"plain", "wide", "long"} ELSE {"plain"}
Error == 0   \* a Result with Err

VARIABLES
  output,     \* the sizes of the lines the grep of a host finds
  grep,       \* lines the grep has written, and whether it runs
  server,     \* where handleConnection is
  taken,      \* lines the server's scanner has returned
  wire,       \* lines sent and not read
  broken,     \* the connection has failed
  reader,     \* where the goroutine of connection is
  held,       \* the line it has scanned
  passing,    \* the result the fan-in goroutine of a host holds
  printed,    \* the lines printed of a host
  errors,     \* errors printed of a host
  returned    \* Run has returned

serverVars == <<grep, server, taken>>
clientVars == <<reader, held, passing, printed, errors, returned>>
vars == <<output, serverVars, wire, broken, clientVars>>

\* The server's goroutine waits in cmd.Wait for a grep that waits for room in its pipe.
Stuck(h) ==
  /\ server[h] = "waiting" /\ grep[h].running
  /\ Len(output[h]) - taken[h] > PipeRoom

Scanned(h) == IF held[h] = None THEN <<>> ELSE <<held[h]>>
Passed(h)  == IF passing[h] \in {None, Error} THEN <<>> ELSE <<passing[h]>>

TypeOK ==
  /\ \A h \in Hosts : output[h] \in BoundedSeq(Sizes(h), MaxLines)
  /\ grep \in [Hosts -> [written : 0..MaxLines, running : BOOLEAN]]
  /\ server \in [Hosts -> {"listening", "streaming", "waiting", "closed", "refused", "crashed"}]
  /\ taken \in [Hosts -> 0..MaxLines]
  /\ \A h \in Hosts : wire[h] \in BoundedSeq(Lines, WireRoom)
  /\ broken \in [Hosts -> BOOLEAN]
  /\ reader \in [Hosts -> {"dialing", "scanning", "torn", "failing", "done"}]
  /\ held \in [Hosts -> Lines \cup {None}]
  /\ passing \in [Hosts -> Lines \cup {None, Error}]
  /\ \A h \in Hosts : printed[h] \in BoundedSeq(Lines, MaxLines)
  /\ errors \in [Hosts -> 0..2]
  /\ returned \in BOOLEAN

Init ==
  /\ output \in [Hosts -> BoundedSeq({"plain", "wide", "long"}, MaxLines)]
  /\ \A h \in Hosts : output[h] \in BoundedSeq(Sizes(h), MaxLines)
  /\ grep = [h \in Hosts |-> [written |-> 0, running |-> FALSE]]
  /\ server = [h \in Hosts |-> "listening"]
  /\ taken = [h \in Hosts |-> 0]
  /\ wire = [h \in Hosts |-> <<>>]
  /\ broken = [h \in Hosts |-> FALSE]
  /\ reader = [h \in Hosts |-> "dialing"]
  /\ held = [h \in Hosts |-> None]
  /\ passing = [h \in Hosts |-> None]
  /\ printed = [h \in Hosts |-> <<>>]
  /\ errors = [h \in Hosts |-> 0]
  /\ returned = FALSE

-----------------------------------------------------------------------------
(* The server of a host.                                                   *)

Connected(h) == reader[h] \in {"scanning", "torn", "failing"} /\ ~broken[h]

\* Decode fails, the file is not there or the command is not a grep: the connection
\* is closed and nothing said.
Refuse(h) ==
  /\ h \in Faulty
  /\ server[h] = "listening" /\ reader[h] # "dialing"
  /\ server' = [server EXCEPT ![h] = "refused"]
  /\ UNCHANGED <<output, grep, taken, wire, broken, clientVars>>

StartGrep(h) ==
  /\ server[h] = "listening" /\ reader[h] # "dialing"
  /\ server' = [server EXCEPT ![h] = "streaming"]
  /\ grep' = [grep EXCEPT ![h].running = TRUE]
  /\ UNCHANGED <<output, taken, wire, broken, clientVars>>

Write(h) ==
  /\ grep[h].running
  /\ grep[h].written < Len(output[h])
  /\ grep[h].written - taken[h] < PipeRoom
  /\ grep' = [grep EXCEPT ![h].written = @ + 1]
  /\ UNCHANGED <<output, server, taken, wire, broken, clientVars>>

Exit(h) ==
  /\ grep[h].running
  /\ grep[h].written = Len(output[h])
  /\ grep' = [grep EXCEPT ![h].running = FALSE]
  /\ UNCHANGED <<output, server, taken, wire, broken, clientVars>>

\* outScanner.Scan returns a line and Encode sends it.
Send(h) ==
  /\ server[h] = "streaming"
  /\ taken[h] < grep[h].written
  /\ output[h][taken[h] + 1] # "long"
  /\ Connected(h) /\ Len(wire[h]) < WireRoom
  /\ taken' = [taken EXCEPT ![h] = @ + 1]
  /\ wire' = [wire EXCEPT ![h] = Append(@, taken[h] + 1)]
  /\ UNCHANGED <<output, grep, server, broken, clientVars>>

\* Mutant of SendFails: an error of Encode does not leave the loop.
SendFailsAgain(h) ==
  /\ server[h] = "streaming"
  /\ taken[h] < grep[h].written
  /\ ~Connected(h)
  /\ UNCHANGED vars

\* The other end of the connection is gone: Encode fails, or does not notice yet.
SendFails(h) ==
  /\ server[h] = "streaming"
  /\ taken[h] < grep[h].written
  /\ output[h][taken[h] + 1] # "long"
  /\ ~Connected(h)
  /\ taken' = [taken EXCEPT ![h] = @ + 1]
  /\ server' \in {server, [server EXCEPT ![h] = "waiting"]}
  /\ UNCHANGED <<output, grep, wire, broken, clientVars>>

\* outScanner.Scan returns false, at the end of the output or at a line too long.
StopReading(h) ==
  /\ server[h] = "streaming"
  /\ \/ taken[h] = grep[h].written /\ ~grep[h].running
     \/ taken[h] < grep[h].written /\ output[h][taken[h] + 1] = "long"
  /\ server' = [server EXCEPT ![h] = "waiting"]
  /\ UNCHANGED <<output, grep, taken, wire, broken, clientVars>>

\* Mutant of Close: a scanner that failed returns before the connection is closed.
CloseComplete(h) ==
  /\ server[h] = "waiting" /\ ~grep[h].running
  /\ taken[h] = Len(output[h])
  /\ server' = [server EXCEPT ![h] = "closed"]
  /\ UNCHANGED <<output, grep, taken, wire, broken, clientVars>>

\* cmd.Wait returns and the connection is closed.
Close(h) ==
  /\ server[h] = "waiting" /\ ~grep[h].running
  /\ server' = [server EXCEPT ![h] = "closed"]
  /\ UNCHANGED <<output, grep, taken, wire, broken, clientVars>>

\* The node's process ends, and its grep with it.
Crash(h) ==
  /\ h \in Faulty
  /\ server[h] # "crashed"
  /\ server' = [server EXCEPT ![h] = "crashed"]
  /\ grep' = [grep EXCEPT ![h].running = FALSE]
  /\ UNCHANGED <<output, taken, wire, broken, clientVars>>

\* The network between client and host fails for longer than TCP bears it.
Break(h) ==
  /\ h \in Faulty
  /\ Connected(h)
  /\ broken' = [broken EXCEPT ![h] = TRUE]
  /\ UNCHANGED <<output, serverVars, wire, clientVars>>

-----------------------------------------------------------------------------
(* The client: the goroutine of a host, its fan-in goroutine, and Run.     *)

Dial(h) ==
  /\ reader[h] = "dialing" /\ server[h] = "listening"
  /\ reader' = [reader EXCEPT ![h] = "scanning"]
  /\ UNCHANGED <<output, serverVars, wire, broken, held, passing, printed, errors, returned>>

\* The dial, or the request on a new connection, fails or runs into the timeout.
DialFails(h) ==
  /\ h \in Faulty
  /\ reader[h] = "dialing"
  /\ reader' = [reader EXCEPT ![h] = "failing"]
  /\ UNCHANGED <<output, serverVars, wire, broken, held, passing, printed, errors, returned>>

Scan(h) ==
  /\ reader[h] = "scanning" /\ held[h] = None
  /\ wire[h] # <<>>
  /\ wire' = [wire EXCEPT ![h] = Tail(@)]
  /\ IF output[h][Head(wire[h])] = "wide"
     THEN /\ reader' = [reader EXCEPT ![h] = "failing"]
          /\ UNCHANGED held
     ELSE /\ held' = [held EXCEPT ![h] = Head(wire[h])]
          /\ UNCHANGED reader
  /\ UNCHANGED <<output, serverVars, broken, passing, printed, errors, returned>>

\* End of file: everything the server sent has been read.
ScanEnds(h) ==
  /\ reader[h] = "scanning" /\ held[h] = None
  /\ wire[h] = <<>> /\ server[h] \in {"closed", "refused", "crashed"} /\ ~broken[h]
  /\ reader' = [reader EXCEPT ![h] = "done"]
  /\ UNCHANGED <<output, serverVars, wire, broken, held, passing, printed, errors, returned>>

\* A line of which a part was sent may end what the client has read.
PartSent(h) ==
  LET next == Len(printed[h]) + Len(Passed(h)) + 1
  IN  next <= grep[h].written /\ output[h][next] # "long"

\* A connection that fails, or is reset by a server that crashed, takes along what was
\* under way.  The scanner returns a line of which it has a part before its error: it is no
\* JSON, so that there are two errors.  (At an end of file there is that of the part alone.)
ScanFails(h) ==
  /\ reader[h] = "scanning" /\ held[h] = None
  /\ broken[h] \/ server[h] = "crashed"
  /\ \/ reader' = [reader EXCEPT ![h] = "failing"]
     \/ PartSent(h) /\ reader' = [reader EXCEPT ![h] = "torn"]
  /\ UNCHANGED <<output, serverVars, wire, broken, held, passing, printed, errors, returned>>

\* Mutants of Pass: the channel of a host is not closed after its error, a result does
\* not wait for the one before, and the hosts' channels are drained one after the other.
PassAgain(h) ==
  /\ passing[h] = None
  /\ \/ /\ held[h] # None
        /\ passing' = [passing EXCEPT ![h] = held[h]]
        /\ held' = [held EXCEPT ![h] = None]
     \/ /\ reader[h] \in {"torn", "failing"}
        /\ passing' = [passing EXCEPT ![h] = Error]
        /\ UNCHANGED held
  /\ UNCHANGED <<output, serverVars, wire, broken, reader, printed, errors, returned>>

PassOver(h) ==
  /\ held[h] # None
  /\ passing' = [passing EXCEPT ![h] = held[h]]
  /\ held' = [held EXCEPT ![h] = None]
  /\ UNCHANGED <<output, serverVars, wire, broken, reader, printed, errors, returned>>

PassInTurn(h) ==
  /\ reader[h] # "done" /\ h = CHOOSE g \in Hosts : reader[g] # "done"
  /\ passing[h] = None
  /\ \/ /\ held[h] # None
        /\ passing' = [passing EXCEPT ![h] = held[h]]
        /\ held' = [held EXCEPT ![h] = None]
        /\ UNCHANGED reader
     \/ /\ reader[h] \in {"torn", "failing"}
        /\ passing' = [passing EXCEPT ![h] = Error]
        /\ reader' = [reader EXCEPT ![h] = IF @ = "torn" THEN "failing" ELSE "done"]
        /\ UNCHANGED held
  /\ UNCHANGED <<output, serverVars, wire, broken, printed, errors, returned>>

\* The fan-in goroutine takes the result the goroutine of the host offers.
Pass(h) ==
  /\ passing[h] = None
  /\ \/ /\ held[h] # None
        /\ passing' = [passing EXCEPT ![h] = held[h]]
        /\ held' = [held EXCEPT ![h] = None]
        /\ UNCHANGED reader
     \/ /\ reader[h] \in {"torn", "failing"}
        /\ passing' = [passing EXCEPT ![h] = Error]
        /\ reader' = [reader EXCEPT ![h] = IF @ = "torn" THEN "failing" ELSE "done"]
        /\ UNCHANGED held
  /\ UNCHANGED <<output, serverVars, wire, broken, printed, errors, returned>>

\* Run takes a result from its fan-in goroutine and prints it.
Show(h) ==
  /\ passing[h] # None
  /\ passing' = [passing EXCEPT ![h] = None]
  /\ IF passing[h] = Error
     THEN /\ errors' = [errors EXCEPT ![h] = @ + 1]
          /\ UNCHANGED printed
     ELSE /\ printed' = [printed EXCEPT ![h] = Append(@, passing[h])]
          /\ UNCHANGED errors
  /\ UNCHANGED <<output, serverVars, wire, broken, reader, held, returned>>

\* Mutant of Return: Run returns when the last goroutine of a host has ended.
ReturnEarly ==
  /\ ~returned
  /\ \A h \in Hosts : reader[h] = "done"
  /\ returned' = TRUE
  /\ UNCHANGED <<output, serverVars, wire, broken, reader, held, passing, printed, errors>>

\* Every channel is closed and drained, so fanIn closes the channel Run ranges over.
Return ==
  /\ ~returned
  /\ \A h \in Hosts : reader[h] = "done" /\ passing[h] = None
  /\ returned' = TRUE
  /\ UNCHANGED <<output, serverVars, wire, broken, reader, held, passing, printed, errors>>

-----------------------------------------------------------------------------

ServerStep(h) ==
  \/ StartGrep(h)
  \/ Send(h) \/ SendFails(h) \/ StopReading(h) \/ Close(h)

ReaderStep(h) ==
  \/ Dial(h) \/ DialFails(h)
  \/ Scan(h) \/ ScanEnds(h) \/ ScanFails(h)

Next ==
  \/ \E h \in Hosts :
       \/ ServerStep(h) \/ Refuse(h)
       \/ Write(h) \/ Exit(h)
       \/ ReaderStep(h) \/ Pass(h) \/ Show(h)
       \/ Crash(h) \/ Break(h)
  \/ Return

\* Goroutines and greps that can go on do.
Fairness ==
  /\ \A h \in Hosts :
       /\ WF_vars(Refuse(h) \/ ServerStep(h))
       /\ WF_vars(Write(h) \/ Exit(h))
       /\ WF_vars(ReaderStep(h))
       /\ WF_vars(Pass(h))
       /\ WF_vars(Show(h))
  /\ WF_vars(Return)

Spec == Init /\ [][Next]_vars /\ Fairness

-----------------------------------------------------------------------------

\* What is printed of a host is the beginning of what its grep found, each line once
\* and in order, with lines in four places between the two; while the connection holds
\* and the client reads, nothing that was sent is missing.
NothingLostOnTheWay ==
  \A h \in Hosts :
    LET way == printed[h] \o Passed(h) \o Scanned(h)
    IN  /\ way = [n \in 1..Len(way) |-> n]
        /\ Len(way) <= taken[h]
        /\ Connected(h) /\ reader[h] = "scanning" =>
             way \o wire[h] = [n \in 1..taken[h] |-> n]

\* When Run returns, a host of which lines are missing without an error was refused or
\* crashed, or its server gave up at a line too long (server.go:103-112, 197): those are
\* the ways in which the client takes a part of the lines for all of them.
MissingLinesAreReported ==
  returned =>
    \A h \in Hosts :
      \/ Len(printed[h]) = Len(output[h]) \/ errors[h] > 0
      \/ server[h] \in {"refused", "crashed"}
      \/ taken[h] < Len(output[h]) /\ output[h][taken[h] + 1] = "long"

\* What is left to do at a host: every line has the pipe, the server, the connection and
\* three goroutines before it, and both ends of the connection have a way to their end.
ServerWork == [listening |-> 5, streaming |-> 3, waiting |-> 2, closed |-> 1, refused |-> 1, crashed |-> 0]
ReaderWork == [dialing |-> 6, scanning |-> 5, torn |-> 4, failing |-> 2, done |-> 0]

LineWork(h) == 4 * (Len(output[h]) - taken[h]) + 3 * Len(wire[h])
               + (IF held[h] = None THEN 0 ELSE 2) + (IF passing[h] = None THEN 0 ELSE 1)
GrepWork(h) == (Len(output[h]) - grep[h].written) + (IF grep[h].running THEN 1 ELSE 0)
Work(h)     == LineWork(h) + GrepWork(h) + ServerWork[server[h]] + ReaderWork[reader[h]]
               + (IF broken[h] THEN 0 ELSE 1)

\* Some of it is done at h, and none anywhere else.
WorkIsDone(h) == /\ 0 <= Work(h)' /\ Work(h)' < Work(h)
                 /\ \A g \in Hosts \ {h} : Work(g)' = Work(g)

\* No goroutine, grep or connection of a query goes round in circles, whatever crashes or
\* falls off the network: every step is work done at one host, and there is an end to it.
\* So a query that does not return stands still somewhere (client.go:135-188, 190-213,
\* server.go:181-201).
EveryStepIsWork == [][(\E h \in Hosts : WorkIsDone(h)) \/ Return]_vars

\* Run returns, whatever hosts crash or fall off the network, unless some server
\* waits for a grep that waits for it (server.go:189-200): the client, which has no
\* deadline any more (client.go:154), waits with them.
QueryReturns ==
  <>(returned \/ \E h \in Hosts : Stuck(h) /\ Connected(h))

\* A host that answers is shown in full, whatever the other hosts do: all share Run's
\* one channel, and one that never ends holds up the end of the query only.
AnswersAreShown ==
  \A h \in Hosts :
    <>(\/ Len(printed[h]) = Len(output[h]) \/ errors[h] > 0
       \/ server[h] \in {"refused", "crashed"}
       \/ \E n \in 1..Len(output[h]) : output[h][n] = "long")

\* A grep comes to its end, unless its server gave up reading with more than a pipe of
\* output ahead: for a line too long, or for a client that is gone (server.go:193).
GrepsEnd ==
  \A h \in Hosts :
    grep[h].running ~> (~grep[h].running \/ Stuck(h))

=============================================================================
