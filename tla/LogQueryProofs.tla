--------------------------- MODULE LogQueryProofs ---------------------------
(***************************************************************************)
(* Proofs about a query of the log querier, for any hosts, faulty or not,  *)
(* and any numbers of lines and room: its state is well typed, the lines   *)
(* of a host come in order and none is lost on the way, and lines that are *)
(* missing when Run returns are reported, but for the ways the property    *)
(* names; no step goes round in circles, and the query stands still only   *)
(* at a server that waits for a grep that waits for it.                    *)
(*                                                                         *)
(* Nothing that happens to one host touches another, so the inductive      *)
(* invariant is one of a host, and a step is compared with it host by      *)
(* host.                                                                   *)
(***************************************************************************)
EXTENDS LogQuery, SequenceTheorems, TLAPS

USE LogQueryAssumption

-----------------------------------------------------------------------------
(* The inductive invariant                                                 *)

\* Lines of h that have left the wire and are not lost: printed, passing, or held.
Passing(h)   == IF passing[h] \in {None, Error} THEN 0 ELSE 1
Holding(h)   == IF held[h] = None THEN 0 ELSE 1
Delivered(h) == Len(printed[h]) + Passing(h) + Holding(h)

HostTypes(h) ==
  /\ output[h] \in Seq(Sizes(h)) /\ Len(output[h]) <= MaxLines
  /\ grep[h] \in [written : 0..MaxLines, running : BOOLEAN]
  /\ server[h] \in {"listening", "streaming", "waiting", "closed", "refused", "crashed"}
  /\ taken[h] \in Nat
  /\ wire[h] \in Seq(Lines) /\ Len(wire[h]) <= WireRoom
  /\ broken[h] \in BOOLEAN
  /\ reader[h] \in {"dialing", "scanning", "torn", "failing", "done"}
  /\ held[h] \in Lines \cup {None}
  /\ passing[h] \in Lines \cup {None, Error}
  /\ printed[h] \in Seq(Lines)
  /\ errors[h] \in 0..2

\* The lines are numbered from the printed ones to those on the wire.
InOrder(h) ==
  /\ taken[h] <= grep[h].written /\ grep[h].written <= Len(output[h])
  /\ \A n \in 1..Len(printed[h]) : printed[h][n] = n
  /\ Passing(h) = 1 => passing[h] = Len(printed[h]) + 1
  /\ Holding(h) = 1 => held[h] = Len(printed[h]) + Passing(h) + 1
  /\ Delivered(h) <= taken[h]
  /\ reader[h] = "scanning" =>
       /\ \A n \in 1..Len(wire[h]) : wire[h][n] = Delivered(h) + n
       /\ Delivered(h) + Len(wire[h]) <= taken[h]
       /\ ~broken[h] => Delivered(h) + Len(wire[h]) = taken[h]

\* The goroutine of a host holds a line only while it scans, and errs at most twice and
\* at its end.
Erring(h) == IF passing[h] = Error THEN 1 ELSE 0

ReaderOK(h) ==
  /\ reader[h] = "dialing" =>
       /\ taken[h] = 0 /\ wire[h] = <<>> /\ printed[h] = <<>>
       /\ passing[h] = None /\ ~broken[h] /\ server[h] \in {"listening", "crashed"}
  /\ reader[h] # "scanning" => held[h] = None
  /\ errors[h] + Erring(h) <= IF reader[h] = "done" THEN 2
                             ELSE IF reader[h] = "failing" THEN 1 ELSE 0

\* The server has read everything, or stops at a line too long.
Complete(h) == taken[h] = Len(output[h])
               \/ (taken[h] < Len(output[h]) /\ output[h][taken[h] + 1] = "long")
\* The query has failed at h, or will.
Errs(h) == errors[h] > 0 \/ passing[h] = Error
Gone(h) == Errs(h) \/ broken[h] \/ reader[h] \in {"torn", "failing"}

\* The server stops short of that only without a client, and the client ends without an
\* error only with a server that has told it everything, or has refused or crashed.
EndOK(h) ==
  /\ server[h] = "streaming" /\ ~grep[h].running => grep[h].written = Len(output[h])
  /\ server[h] \in {"waiting", "closed"} => Gone(h) \/ Complete(h)
  /\ reader[h] = "done" =>
       \/ Errs(h) \/ server[h] \in {"refused", "crashed"}
       \/ server[h] = "closed" /\ Complete(h) /\ Delivered(h) = taken[h]

HostInv(h) == HostTypes(h) /\ InOrder(h) /\ ReaderOK(h) /\ EndOK(h)

\* Every host has every variable.
Domains ==
  /\ output = [h \in Hosts |-> output[h]] /\ grep = [h \in Hosts |-> grep[h]]
  /\ server = [h \in Hosts |-> server[h]] /\ taken = [h \in Hosts |-> taken[h]]
  /\ wire = [h \in Hosts |-> wire[h]] /\ broken = [h \in Hosts |-> broken[h]]
  /\ reader = [h \in Hosts |-> reader[h]] /\ held = [h \in Hosts |-> held[h]]
  /\ passing = [h \in Hosts |-> passing[h]] /\ printed = [h \in Hosts |-> printed[h]]
  /\ errors = [h \in Hosts |-> errors[h]]

QueryInv ==
  /\ Domains
  /\ \A h \in Hosts : HostInv(h)
  /\ returned \in BOOLEAN
  /\ returned => \A h \in Hosts : reader[h] = "done" /\ passing[h] = None

-----------------------------------------------------------------------------
(* A step at one host                                                      *)

\* All that a step could change at h.
Of(h) == <<output[h], grep[h], server[h], taken[h], wire[h], broken[h],
           reader[h], held[h], passing[h], printed[h], errors[h]>>

\* Only h is touched, and if its query was over there it still is.
At(h) ==
  /\ Domains' /\ returned' = returned /\ output' = output
  /\ \A g \in Hosts \ {h} : UNCHANGED Of(g)
  /\ reader[h] = "done" /\ passing[h] = None => reader'[h] = "done" /\ passing'[h] = None

\* What has been delivered is a number.
LEMMA DeliveredNat ==
  ASSUME NEW h, HostTypes(h)
  PROVE  /\ Delivered(h) \in Nat /\ Len(printed[h]) \in Nat
         /\ Passing(h) \in {0, 1} /\ Holding(h) \in {0, 1}
<1>1. Len(printed[h]) \in Nat
  BY LenProperties DEF HostTypes
<1>2. Passing(h) \in {0, 1} /\ Holding(h) \in {0, 1}
  BY DEF Passing, Holding
<1> QED BY <1>1, <1>2 DEF Delivered

\* A host at which nothing changes.
LEMMA HostSame ==
  ASSUME NEW h, HostInv(h), UNCHANGED Of(h)
  PROVE  HostInv(h)'
<1>1. /\ output'[h] = output[h] /\ grep'[h] = grep[h] /\ server'[h] = server[h]
      /\ taken'[h] = taken[h] /\ wire'[h] = wire[h] /\ broken'[h] = broken[h]
      /\ reader'[h] = reader[h] /\ held'[h] = held[h] /\ passing'[h] = passing[h]
      /\ printed'[h] = printed[h] /\ errors'[h] = errors[h]
  BY DEF Of
<1>2. HostTypes(h)' /\ ReaderOK(h)'
  BY <1>1 DEF HostInv, HostTypes, ReaderOK, Erring
<1>3. Passing(h)' = Passing(h) /\ Holding(h)' = Holding(h) /\ Delivered(h)' = Delivered(h)
  BY <1>1 DEF Passing, Holding, Delivered
<1>4. InOrder(h)'
  BY <1>1, <1>3 DEF HostInv, InOrder
<1>5. EndOK(h)'
  BY <1>1, <1>3 DEF HostInv, EndOK, Gone, Errs, Complete
<1> QED BY <1>2, <1>4, <1>5 DEF HostInv

\* So the invariant of one host is enough.
LEMMA StepAt ==
  ASSUME QueryInv, NEW h \in Hosts, At(h), HostInv(h)'
  PROVE  QueryInv'
<1>1. \A g \in Hosts \ {h} : HostInv(g)'
  BY HostSame DEF QueryInv, At
<1>2. \A g \in Hosts : reader[g] = "done" /\ passing[g] = None
                       => reader'[g] = "done" /\ passing'[g] = None
  <2>1. \A g \in Hosts \ {h} : reader'[g] = reader[g] /\ passing'[g] = passing[g]
    BY DEF At, Of
  <2> QED BY <2>1 DEF At
<1>3. \A g \in Hosts : HostInv(g)'
  BY <1>1
<1> QED BY <1>2, <1>3 DEF QueryInv, At

-----------------------------------------------------------------------------
(* The server of a host                                                    *)

\* What a step of the server, its grep or its network leaves alone.
ClientSame(h) == /\ UNCHANGED <<output[h], reader[h], held[h], passing[h], printed[h], errors[h]>>
                 /\ output' = output

\* What is delivered is what it was.
LEMMA ClientCounts ==
  ASSUME NEW h, ClientSame(h)
  PROVE  Passing(h)' = Passing(h) /\ Holding(h)' = Holding(h) /\ Delivered(h)' = Delivered(h)
BY DEF ClientSame, Passing, Holding, Delivered

\* The server refuses or starts a grep.
LEMMA AcceptStep ==
  ASSUME QueryInv, NEW h \in Hosts, Refuse(h) \/ StartGrep(h)
  PROVE  QueryInv'
<1>1. HostInv(h) /\ Domains
  BY DEF QueryInv
<1>2. At(h) /\ ClientSame(h)
  BY <1>1 DEF Refuse, StartGrep, clientVars, Domains, At, Of, ClientSame
<1>3. /\ server[h] = "listening" /\ reader[h] # "dialing"
      /\ UNCHANGED <<taken[h], wire[h], broken[h]>>
  BY DEF Refuse, StartGrep
<1>4. grep[h] \in [written : 0..MaxLines, running : BOOLEAN]
  BY <1>1 DEF HostInv, HostTypes
<1>5. \/ server'[h] = "refused" /\ grep'[h] = grep[h]
      \/ server'[h] = "streaming" /\ grep'[h] = [grep[h] EXCEPT !.running = TRUE]
  BY <1>1 DEF Refuse, StartGrep, Domains
<1>6. /\ grep'[h] \in [written : 0..MaxLines, running : BOOLEAN]
      /\ grep'[h].written = grep[h].written
      /\ server'[h] = "streaming" => grep'[h].running
  BY <1>4, <1>5
<1>7. HostTypes(h)' /\ ReaderOK(h)'
  BY <1>1, <1>2, <1>3, <1>5, <1>6 DEF HostInv, HostTypes, ReaderOK, Erring, ClientSame
<1>8. InOrder(h)'
  BY <1>1, <1>2, <1>3, <1>6, ClientCounts DEF HostInv, InOrder, ClientSame
<1>9. EndOK(h)'
  BY <1>1, <1>2, <1>3, <1>5, <1>6, ClientCounts DEF HostInv, EndOK, ClientSame, Errs
<1> QED BY <1>2, <1>7, <1>8, <1>9, StepAt DEF HostInv

\* The grep writes a line or exits.
LEMMA GrepStep ==
  ASSUME QueryInv, NEW h \in Hosts, Write(h) \/ Exit(h)
  PROVE  QueryInv'
<1>1. HostInv(h) /\ Domains
  BY DEF QueryInv
<1>2. At(h) /\ ClientSame(h)
  BY <1>1 DEF Write, Exit, clientVars, Domains, At, Of, ClientSame
<1>3. UNCHANGED <<server[h], taken[h], wire[h], broken[h]>>
  BY DEF Write, Exit
<1>4. grep[h] \in [written : 0..MaxLines, running : BOOLEAN]
      /\ taken[h] <= grep[h].written /\ taken[h] \in Nat
      /\ Len(output[h]) \in Nat /\ Len(output[h]) <= MaxLines
  BY <1>1 DEF HostInv, HostTypes, InOrder
<1>5. \/ /\ grep[h].running /\ grep[h].written < Len(output[h])
         /\ grep'[h] = [grep[h] EXCEPT !.written = @ + 1]
      \/ /\ grep[h].written = Len(output[h])
         /\ grep'[h] = [grep[h] EXCEPT !.running = FALSE]
  BY <1>1 DEF Write, Exit, Domains
<1>6. /\ grep'[h] \in [written : 0..MaxLines, running : BOOLEAN]
      /\ grep[h].written <= grep'[h].written /\ grep'[h].written <= Len(output[h])
      /\ ~grep'[h].running => grep'[h].written = Len(output[h])
  <2>1. CASE grep'[h] = [grep[h] EXCEPT !.written = @ + 1] /\ grep[h].written < Len(output[h])
             /\ grep[h].running
    <3>1. grep'[h].written = grep[h].written + 1 /\ grep'[h].running
      BY <1>4, <2>1
    <3>2. grep'[h].written \in 0..MaxLines
      BY <1>4, <2>1, <3>1
    <3>3. grep'[h] = [written |-> grep'[h].written, running |-> TRUE]
      BY <1>4, <2>1
    <3> QED BY <1>4, <2>1, <3>1, <3>2, <3>3
  <2>2. CASE grep'[h] = [grep[h] EXCEPT !.running = FALSE] /\ grep[h].written = Len(output[h])
    <3>1. grep'[h].written = grep[h].written /\ grep'[h] \in [written : 0..MaxLines, running : BOOLEAN]
      BY <1>4, <2>2
    <3> QED BY <1>4, <2>2, <3>1
  <2> QED BY <1>5, <2>1, <2>2
<1>7. HostTypes(h)' /\ ReaderOK(h)'
  BY <1>1, <1>2, <1>3, <1>6 DEF HostInv, HostTypes, ReaderOK, Erring, ClientSame
<1>8. InOrder(h)'
  BY <1>1, <1>2, <1>3, <1>4, <1>6, ClientCounts DEF HostInv, InOrder, ClientSame
<1>9. EndOK(h)'
  BY <1>1, <1>2, <1>3, <1>6, ClientCounts DEF HostInv, EndOK, ClientSame, Errs, Gone, Complete
<1> QED BY <1>2, <1>7, <1>8, <1>9, StepAt DEF HostInv

\* The server stops reading, closes the connection, or dies.
LEMMA ServerEndsStep ==
  ASSUME QueryInv, NEW h \in Hosts, StopReading(h) \/ Close(h) \/ Crash(h)
  PROVE  QueryInv'
<1>1. HostInv(h) /\ Domains
  BY DEF QueryInv
<1>2. At(h) /\ ClientSame(h)
  BY <1>1 DEF StopReading, Close, Crash, clientVars, Domains, At, Of, ClientSame
<1>3. UNCHANGED <<taken[h], wire[h], broken[h]>>
  BY DEF StopReading, Close, Crash
<1>4. grep[h] \in [written : 0..MaxLines, running : BOOLEAN]
      /\ taken[h] <= grep[h].written /\ grep[h].written <= Len(output[h]) /\ taken[h] \in Nat
      /\ Len(output[h]) \in Nat
  BY <1>1 DEF HostInv, HostTypes, InOrder
<1>5. \/ server'[h] = "waiting" /\ server[h] = "streaming" /\ grep'[h] = grep[h] /\ Complete(h)
      \/ server'[h] = "closed" /\ server[h] = "waiting" /\ grep'[h] = grep[h]
      \/ server'[h] = "crashed" /\ grep'[h] = [grep[h] EXCEPT !.running = FALSE]
  <2>1. CASE StopReading(h)
    BY <1>1, <1>4, <2>1 DEF StopReading, Domains, HostInv, EndOK, Complete
  <2>2. CASE Close(h) \/ Crash(h)
    BY <1>1, <2>2 DEF Close, Crash, Domains
  <2> QED BY <2>1, <2>2
<1>6. /\ grep'[h] \in [written : 0..MaxLines, running : BOOLEAN]
      /\ grep'[h].written = grep[h].written
  BY <1>4, <1>5
<1>7. HostTypes(h)' /\ ReaderOK(h)'
  BY <1>1, <1>2, <1>3, <1>5, <1>6 DEF HostInv, HostTypes, ReaderOK, Erring, ClientSame
<1>8. InOrder(h)'
  BY <1>1, <1>2, <1>3, <1>4, <1>6, ClientCounts DEF HostInv, InOrder, ClientSame
<1>9. EndOK(h)'
  BY <1>1, <1>2, <1>3, <1>5, <1>6, ClientCounts DEF HostInv, EndOK, ClientSame, Errs, Gone, Complete
<1> QED BY <1>2, <1>7, <1>8, <1>9, StepAt DEF HostInv

\* A line is sent: it is the next one.
LEMMA SendStep ==
  ASSUME QueryInv, NEW h \in Hosts, Send(h)
  PROVE  QueryInv'
<1>1. HostInv(h) /\ Domains
  BY DEF QueryInv
<1>2. At(h) /\ ClientSame(h)
  BY <1>1 DEF Send, clientVars, Domains, At, Of, ClientSame
<1>3. /\ server[h] = "streaming" /\ taken[h] < grep[h].written
      /\ reader[h] \in {"scanning", "torn", "failing"} /\ ~broken[h] /\ Len(wire[h]) < WireRoom
      /\ UNCHANGED <<grep[h], server[h], broken[h]>>
  BY DEF Send, Connected
<1>4. taken'[h] = taken[h] + 1 /\ wire'[h] = Append(wire[h], taken[h] + 1)
  BY <1>1 DEF Send, Domains
<1>5. /\ taken[h] \in Nat /\ grep[h].written \in 0..MaxLines /\ wire[h] \in Seq(Lines)
      /\ Delivered(h) \in Nat
  BY <1>1, DeliveredNat DEF HostInv, HostTypes
<1>6. taken[h] + 1 \in Lines
  BY <1>3, <1>5 DEF Lines
<1>7. /\ wire'[h] \in Seq(Lines) /\ Len(wire'[h]) = Len(wire[h]) + 1 /\ Len(wire[h]) \in Nat
      /\ \A n \in 1..Len(wire[h]) : wire'[h][n] = wire[h][n]
      /\ wire'[h][Len(wire[h]) + 1] = taken[h] + 1
  BY <1>4, <1>5, <1>6
<1>8. HostTypes(h)' /\ ReaderOK(h)'
  BY <1>1, <1>2, <1>3, <1>4, <1>5, <1>7 DEF HostInv, HostTypes, ReaderOK, Erring, ClientSame
<1>9. InOrder(h)'
  <2>1. ASSUME reader[h] = "scanning"
        PROVE  /\ \A n \in 1..Len(wire'[h]) : wire'[h][n] = Delivered(h) + n
               /\ Delivered(h) + Len(wire'[h]) = taken'[h]
    <3>1. /\ Delivered(h) + Len(wire[h]) = taken[h]
          /\ \A n \in 1..Len(wire[h]) : wire[h][n] = Delivered(h) + n
      BY <1>1, <1>3, <2>1 DEF HostInv, InOrder
    <3>2. \A n \in 1..Len(wire'[h]) : n \in 1..Len(wire[h]) \/ n = Len(wire[h]) + 1
      BY <1>7
    <3> QED BY <1>4, <1>5, <1>7, <3>1, <3>2
  <2>2. Delivered(h) <= taken'[h] /\ taken'[h] <= grep[h].written
    BY <1>1, <1>3, <1>4, <1>5 DEF HostInv, InOrder
  <2> QED BY <1>1, <1>2, <1>3, <1>4, <1>5, <2>1, <2>2, ClientCounts DEF HostInv, InOrder, ClientSame
<1>10. EndOK(h)'
  BY <1>1, <1>2, <1>3, ClientCounts DEF HostInv, EndOK, ClientSame, Errs
<1> QED BY <1>2, <1>8, <1>9, <1>10, StepAt DEF HostInv

\* A line is lost with its client, and the server may give up.
LEMMA SendFailsStep ==
  ASSUME QueryInv, NEW h \in Hosts, SendFails(h)
  PROVE  QueryInv'
<1>1. HostInv(h) /\ Domains
  BY DEF QueryInv
<1>2. At(h) /\ ClientSame(h)
  BY <1>1 DEF SendFails, clientVars, Domains, At, Of, ClientSame
<1>3. /\ server[h] = "streaming" /\ taken[h] < grep[h].written /\ ~Connected(h)
      /\ UNCHANGED <<grep[h], wire[h], broken[h]>>
      /\ server'[h] \in {"streaming", "waiting"} /\ taken'[h] = taken[h] + 1
  BY <1>1 DEF SendFails, Domains
<1>4. taken[h] \in Nat /\ grep[h].written \in 0..MaxLines /\ Delivered(h) \in Nat
      /\ reader[h] \in {"dialing", "scanning", "torn", "failing", "done"}
      /\ wire[h] \in Seq(Lines)
  BY <1>1, DeliveredNat DEF HostInv, HostTypes
<1>5. reader[h] # "dialing" /\ (reader[h] = "scanning" => broken[h]) /\ Gone(h)
  BY <1>1, <1>3, <1>4 DEF HostInv, ReaderOK, Erring, EndOK, Connected, Gone
<1>6. HostTypes(h)' /\ ReaderOK(h)'
  BY <1>1, <1>2, <1>3, <1>4, <1>5 DEF HostInv, HostTypes, ReaderOK, Erring, ClientSame
<1>7. InOrder(h)'
  <2>1. Delivered(h) <= taken'[h] /\ taken'[h] <= grep[h].written
    BY <1>1, <1>3, <1>4 DEF HostInv, InOrder
  <2>2. reader[h] = "scanning" => Delivered(h) + Len(wire[h]) <= taken'[h]
    BY <1>1, <1>3, <1>4 DEF HostInv, InOrder
  <2> QED BY <1>1, <1>2, <1>3, <1>5, <2>1, <2>2, ClientCounts DEF HostInv, InOrder, ClientSame
<1>8. EndOK(h)'
  BY <1>1, <1>2, <1>3, <1>5 DEF HostInv, EndOK, ClientSame, Errs, Gone
<1> QED BY <1>2, <1>6, <1>7, <1>8, StepAt DEF HostInv

\* The network fails.
LEMMA BreakStep ==
  ASSUME QueryInv, NEW h \in Hosts, Break(h)
  PROVE  QueryInv'
<1>1. HostInv(h) /\ Domains
  BY DEF QueryInv
<1>2. At(h) /\ ClientSame(h)
  BY <1>1 DEF Break, serverVars, clientVars, Domains, At, Of, ClientSame
<1>3. /\ reader[h] # "dialing" /\ broken'[h] = TRUE
      /\ UNCHANGED <<grep[h], server[h], taken[h], wire[h]>>
  BY <1>1 DEF Break, Connected, serverVars, Domains
<1>4. HostTypes(h)' /\ ReaderOK(h)'
  BY <1>1, <1>2, <1>3 DEF HostInv, HostTypes, ReaderOK, Erring, ClientSame
<1>5. InOrder(h)'
  BY <1>1, <1>2, <1>3, ClientCounts DEF HostInv, InOrder, ClientSame
<1>6. EndOK(h)'
  BY <1>1, <1>2, <1>3, ClientCounts DEF HostInv, EndOK, ClientSame, Errs, Gone, Complete
<1> QED BY <1>2, <1>4, <1>5, <1>6, StepAt DEF HostInv

-----------------------------------------------------------------------------
(* The client                                                              *)

\* What a step of the client leaves alone.
ServerSame(h) == /\ UNCHANGED <<output[h], grep[h], server[h], taken[h], broken[h]>>
                 /\ output' = output

\* The goroutine of a host comes to another point, and leaves what it has.
LEMMA ReaderMoves ==
  ASSUME QueryInv, NEW h \in Hosts,
         Dial(h) \/ DialFails(h) \/ ScanEnds(h) \/ ScanFails(h)
  PROVE  QueryInv'
<1>1. HostInv(h) /\ Domains
  BY DEF QueryInv
<1>2. ServerSame(h) /\ UNCHANGED <<wire[h], held[h], passing[h], printed[h], errors[h]>>
  BY DEF Dial, DialFails, ScanEnds, ScanFails, serverVars, ServerSame
<1>3. At(h)
  BY <1>1 DEF Dial, DialFails, ScanEnds, ScanFails, serverVars, Domains, At, Of
<1>4. Passing(h)' = Passing(h) /\ Holding(h)' = Holding(h) /\ Delivered(h)' = Delivered(h)
  BY <1>2 DEF Passing, Holding, Delivered
<1>5. \/ reader[h] = "dialing" /\ reader'[h] \in {"scanning", "failing"}
      \/ /\ reader[h] = "scanning" /\ held[h] = None /\ reader'[h] \in {"torn", "failing"}
      \/ /\ reader[h] = "scanning" /\ held[h] = None /\ reader'[h] = "done"
         /\ wire[h] = <<>> /\ server[h] \in {"closed", "refused", "crashed"} /\ ~broken[h]
  BY <1>1 DEF Dial, DialFails, ScanEnds, ScanFails, Domains
<1>6. HostTypes(h)' /\ ReaderOK(h)'
  BY <1>1, <1>2, <1>5 DEF HostInv, HostTypes, ReaderOK, Erring, ServerSame
<1>7. InOrder(h)'
  <2>1. CASE reader[h] = "dialing"
    <3>1. /\ taken[h] = 0 /\ wire[h] = <<>> /\ printed[h] = <<>> /\ passing[h] = None
          /\ held[h] = None /\ ~broken[h]
      BY <1>1, <2>1 DEF HostInv, ReaderOK, Erring
    <3>2. Delivered(h) = 0 /\ Len(wire[h]) = 0
      BY <3>1 DEF Delivered, Passing, Holding
    <3> QED BY <1>1, <1>2, <1>4, <3>1, <3>2 DEF HostInv, InOrder, ServerSame
  <2>2. CASE reader'[h] # "scanning"
    BY <1>1, <1>2, <1>4, <2>2 DEF HostInv, InOrder, ServerSame
  <2> QED BY <1>5, <2>1, <2>2
<1>8. EndOK(h)'
  <2>1. CASE reader[h] = "dialing"
    BY <1>1, <1>2, <1>5, <2>1 DEF HostInv, ReaderOK, Erring, EndOK, ServerSame
  <2>2. CASE reader[h] = "scanning" /\ reader'[h] \in {"torn", "failing"}
    BY <1>1, <1>2, <2>2 DEF HostInv, EndOK, ServerSame, Gone
  <2>3. CASE /\ reader[h] = "scanning" /\ reader'[h] = "done"
             /\ wire[h] = <<>> /\ server[h] \in {"closed", "refused", "crashed"} /\ ~broken[h]
    <3>1. ~Errs(h) /\ ~Gone(h)
      BY <1>1, <2>3 DEF HostInv, HostTypes, ReaderOK, Erring, Errs, Gone
    <3>2. server[h] = "closed" => Complete(h)
      BY <1>1, <3>1 DEF HostInv, EndOK
    <3>3. Delivered(h) = taken[h]
      <4>1. Len(wire[h]) = 0 /\ Delivered(h) \in Nat
        BY <1>1, <2>3, DeliveredNat DEF HostInv, HostTypes
      <4> QED BY <1>1, <2>3, <4>1 DEF HostInv, InOrder
    <3>4. Complete(h)' = Complete(h) /\ Errs(h)' = Errs(h) /\ Gone(h)' \in BOOLEAN
      BY <1>2 DEF Complete, Errs, Gone, ServerSame
    <3> QED BY <1>1, <1>2, <1>4, <2>3, <3>2, <3>3, <3>4 DEF HostInv, EndOK, ServerSame
  <2> QED BY <1>5, <2>1, <2>2, <2>3
<1> QED BY <1>3, <1>6, <1>7, <1>8, StepAt DEF HostInv

\* A line is read from the connection, and is the one after the last.
LEMMA ScanStep ==
  ASSUME QueryInv, NEW h \in Hosts, Scan(h)
  PROVE  QueryInv'
<1> DEFINE x == Head(wire[h])
<1>1. HostInv(h) /\ Domains
  BY DEF QueryInv
<1>2. ServerSame(h) /\ UNCHANGED <<passing[h], printed[h], errors[h]>>
  BY DEF Scan, serverVars, ServerSame
<1>3. At(h)
  BY <1>1 DEF Scan, serverVars, Domains, At, Of
<1>4. /\ reader[h] = "scanning" /\ held[h] = None /\ wire[h] # <<>>
      /\ wire'[h] = Tail(wire[h])
      /\ \/ reader'[h] = "failing" /\ held'[h] = held[h]
         \/ reader'[h] = "scanning" /\ held'[h] = x
  BY <1>1 DEF Scan, Domains
<1>5. wire[h] \in Seq(Lines) /\ Len(wire[h]) \in Nat /\ Len(wire[h]) <= WireRoom
  BY <1>1, LenProperties DEF HostInv, HostTypes
<1>6. Len(wire[h]) > 0
  BY <1>4, <1>5
<1>7. /\ wire'[h] \in Seq(Lines) /\ Len(wire'[h]) = Len(wire[h]) - 1
      /\ \A n \in 1..Len(wire'[h]) : wire'[h][n] = wire[h][n + 1]
      /\ x = wire[h][1] /\ x \in Lines
  BY <1>4, <1>5, <1>6
<1>8. Passing(h)' = Passing(h) /\ Holding(h) = 0
  BY <1>2, <1>4 DEF Passing, Holding
<1>9. /\ Delivered(h) \in Nat /\ Len(printed[h]) \in Nat /\ Passing(h) \in {0, 1}
      /\ taken[h] \in Nat
  BY <1>1, DeliveredNat DEF HostInv, HostTypes
<1>10. /\ \A n \in 1..Len(wire[h]) : wire[h][n] = Delivered(h) + n
       /\ Delivered(h) + Len(wire[h]) <= taken[h]
       /\ ~broken[h] => Delivered(h) + Len(wire[h]) = taken[h]
       /\ Delivered(h) = Len(printed[h]) + Passing(h)
  BY <1>1, <1>4, <1>8, <1>9 DEF HostInv, InOrder, Delivered
<1>11. HostTypes(h)' /\ ReaderOK(h)'
  BY <1>1, <1>2, <1>4, <1>5, <1>7 DEF HostInv, HostTypes, ReaderOK, Erring, ServerSame
<1>12. InOrder(h)'
  <2>1. CASE reader'[h] = "failing" /\ held'[h] = held[h]
    <3>1. Holding(h)' = Holding(h) /\ Delivered(h)' = Delivered(h)
      BY <1>2, <1>8, <2>1 DEF Holding, Delivered
    <3> QED BY <1>1, <1>2, <1>8, <2>1, <3>1 DEF HostInv, InOrder, ServerSame
  <2>2. CASE reader'[h] = "scanning" /\ held'[h] = x
    <3>1. Holding(h)' = 1
      BY <1>7, <2>2 DEF Holding, Lines
    <3>2. Delivered(h)' = Delivered(h) + 1
      BY <1>2, <1>8, <1>9, <1>10, <3>1 DEF Delivered
    <3>3. x = Len(printed[h]) + Passing(h) + 1
      BY <1>6, <1>7, <1>10, <1>5
    <3>4. \A n \in 1..Len(wire'[h]) : wire'[h][n] = Delivered(h) + 1 + n
      <4> TAKE n \in 1..Len(wire'[h])
      <4>1. n + 1 \in 1..Len(wire[h]) /\ n \in Nat
        BY <1>5, <1>7
      <4>2. wire[h][n + 1] = Delivered(h) + (n + 1)
        BY <1>10, <4>1
      <4> QED BY <1>7, <1>9, <4>1, <4>2
    <3>5. /\ Delivered(h) + 1 + Len(wire'[h]) = Delivered(h) + Len(wire[h])
          /\ Delivered(h) + 1 <= taken[h]
      <4>1. Len(wire'[h]) = Len(wire[h]) - 1 /\ Delivered(h) + Len(wire[h]) <= taken[h]
        BY <1>7, <1>10
      <4> QED BY <1>5, <1>6, <1>9, <4>1
    <3> QED BY <1>1, <1>2, <1>8, <1>10, <2>2, <3>1, <3>2, <3>3, <3>4, <3>5
            DEF HostInv, InOrder, ServerSame
  <2> QED BY <1>4, <2>1, <2>2
<1>13. EndOK(h)'
  BY <1>1, <1>2, <1>4 DEF HostInv, EndOK, Gone, Errs, Complete, ServerSame
<1> QED BY <1>3, <1>11, <1>12, <1>13, StepAt DEF HostInv

\* The fan-in goroutine takes a line or the error.
LEMMA PassStep ==
  ASSUME QueryInv, NEW h \in Hosts, Pass(h)
  PROVE  QueryInv'
<1>1. HostInv(h) /\ Domains
  BY DEF QueryInv
<1>2. ServerSame(h) /\ UNCHANGED <<wire[h], printed[h], errors[h]>>
  BY DEF Pass, serverVars, ServerSame
<1>3. /\ held[h] \in Lines \cup {None}
      /\ reader[h] # "scanning" => held[h] = None
  BY <1>1 DEF HostInv, HostTypes, ReaderOK, Erring
<1>4. /\ passing[h] = None
      /\ \/ /\ held[h] \in Lines /\ passing'[h] = held[h] /\ held'[h] = None
            /\ reader[h] = "scanning" /\ reader'[h] = reader[h]
         \/ /\ passing'[h] = Error /\ held[h] = None /\ held'[h] = None
            /\ \/ reader[h] = "torn" /\ reader'[h] = "failing"
               \/ reader[h] = "failing" /\ reader'[h] = "done"
  BY <1>1, <1>3 DEF Pass, Domains
<1>5. At(h)
  <2>1. Domains' /\ returned' = returned /\ output' = output
    BY <1>1 DEF Pass, serverVars, Domains
  <2>2. \A g \in Hosts \ {h} : UNCHANGED Of(g)
    BY <1>1 DEF Pass, serverVars, Domains, Of
  <2> QED BY <1>4, <2>1, <2>2 DEF At
<1>6. Delivered(h)' = Delivered(h) /\ Passing(h) = 0 /\ Holding(h)' = 0
      /\ (Passing(h)' = 1 => held[h] \in Lines /\ passing'[h] = held[h])
  <2>1. Passing(h) = 0 /\ Holding(h)' = 0 /\ Len(printed[h]) \in Nat
    BY <1>1, <1>4, DeliveredNat DEF Passing, Holding, HostInv
  <2>2. Passing(h)' = Holding(h)
    BY <1>4 DEF Passing, Holding, Lines, Error
  <2>3. Passing(h)' = 1 => held[h] \in Lines /\ passing'[h] = held[h]
    BY <1>4 DEF Passing
  <2>4. Holding(h) \in {0, 1}
    BY DEF Holding
  <2> QED BY <1>2, <2>1, <2>2, <2>3, <2>4 DEF Delivered
<1>7. HostTypes(h)' /\ ReaderOK(h)'
  <2>1. HostTypes(h)'
    BY <1>1, <1>2, <1>4 DEF HostInv, HostTypes, ServerSame
  <2>2. /\ reader[h] # "dialing" /\ reader'[h] # "dialing"
        /\ reader'[h] # "scanning" => held'[h] = None
    BY <1>4
  <2>3. errors[h] \in 0..2 /\ Erring(h) = 0 /\ errors'[h] = errors[h]
    BY <1>1, <1>2, <1>4 DEF HostInv, HostTypes, Erring, Error
  <2>4. errors[h] <= IF reader[h] = "done" THEN 2 ELSE IF reader[h] = "failing" THEN 1 ELSE 0
    BY <1>1, <2>3 DEF HostInv, ReaderOK
  <2>5. errors'[h] + Erring(h)' <= IF reader'[h] = "done" THEN 2
                                   ELSE IF reader'[h] = "failing" THEN 1 ELSE 0
    <3>1. CASE passing'[h] = held[h] /\ held[h] \in Lines /\ reader'[h] = reader[h]
      <4>1. Erring(h)' = 0
        BY <3>1 DEF Erring, Lines, Error
      <4> QED BY <2>3, <2>4, <3>1, <4>1
    <3>2. CASE passing'[h] = Error /\ reader[h] = "torn" /\ reader'[h] = "failing"
      BY <2>3, <2>4, <3>2 DEF Erring
    <3>3. CASE passing'[h] = Error /\ reader[h] = "failing" /\ reader'[h] = "done"
      BY <2>3, <2>4, <3>3 DEF Erring
    <3> QED BY <1>4, <3>1, <3>2, <3>3
  <2> QED BY <2>1, <2>2, <2>5 DEF ReaderOK
<1>8. InOrder(h)'
  <2>1. Passing(h)' = 1 => passing'[h] = Len(printed[h]) + 1
    <3>1. held[h] \in Lines => Holding(h) = 1
      BY DEF Holding, Lines
    <3>2. Len(printed[h]) \in Nat
      BY <1>1, DeliveredNat DEF HostInv
    <3> QED BY <1>1, <1>6, <3>1, <3>2 DEF HostInv, InOrder
  <2>2. reader'[h] = "scanning" => reader[h] = "scanning"
    BY <1>4
  <2> QED BY <1>1, <1>2, <1>6, <2>1, <2>2 DEF HostInv, InOrder, ServerSame
<1>9. EndOK(h)'
  <2>1. CASE passing'[h] = held[h] /\ held[h] \in Lines /\ reader'[h] = reader[h]
             /\ reader[h] = "scanning"
    <3>1. Errs(h) <=> Errs(h)'
      BY <1>2, <1>4, <2>1 DEF Errs, Lines, Error
    <3> QED BY <1>1, <1>2, <2>1, <3>1 DEF HostInv, EndOK, Gone, Complete, ServerSame
  <2>2. CASE passing'[h] = Error /\ reader'[h] \in {"failing", "done"}
    BY <1>1, <1>2, <2>2 DEF HostInv, EndOK, Gone, Errs, Complete, ServerSame
  <2> QED BY <1>4, <2>1, <2>2
<1> QED BY <1>5, <1>7, <1>8, <1>9, StepAt DEF HostInv

\* Run prints a line or an error.
LEMMA ShowStep ==
  ASSUME QueryInv, NEW h \in Hosts, Show(h)
  PROVE  QueryInv'
<1>1. HostInv(h) /\ Domains
  BY DEF QueryInv
<1>2. ServerSame(h) /\ UNCHANGED <<wire[h], reader[h], held[h]>>
  BY DEF Show, serverVars, ServerSame
<1>3. /\ passing[h] \in Lines \cup {Error} /\ passing'[h] = None
      /\ \/ /\ passing[h] = Error /\ printed'[h] = printed[h] /\ errors'[h] = errors[h] + 1
         \/ /\ passing[h] # Error /\ errors'[h] = errors[h]
            /\ printed'[h] = Append(printed[h], passing[h])
  BY <1>1 DEF Show, Domains, HostInv, HostTypes
<1>4. At(h)
  <2>1. Domains' /\ returned' = returned /\ output' = output
    BY <1>1 DEF Show, serverVars, Domains
  <2>2. \A g \in Hosts \ {h} : UNCHANGED Of(g)
    BY <1>1 DEF Show, serverVars, Domains, Of
  <2>3. passing[h] # None
    BY DEF Show
  <2> QED BY <2>1, <2>2, <2>3 DEF At
<1>5. /\ printed[h] \in Seq(Lines) /\ Len(printed[h]) \in Nat /\ errors[h] \in 0..2
      /\ Holding(h) \in {0, 1} /\ Holding(h)' = Holding(h) /\ Passing(h)' = 0
      /\ Delivered(h) = Len(printed[h]) + Passing(h) + Holding(h)
      /\ Delivered(h)' = Len(printed'[h]) + Holding(h)
  <2>1. Passing(h)' = 0 /\ Holding(h)' = Holding(h)
    BY <1>2, <1>3 DEF Passing, Holding
  <2>2. Len(printed'[h]) \in Nat
    BY <1>1, <1>3, LenProperties, AppendProperties DEF HostInv, HostTypes
  <2> QED BY <1>1, <2>1, <2>2, DeliveredNat DEF HostInv, HostTypes, Delivered
<1>6. CASE passing[h] = Error /\ printed'[h] = printed[h] /\ errors'[h] = errors[h] + 1
  <2>1. /\ reader[h] \in {"failing", "done"} /\ Passing(h) = 0
        /\ errors[h] + 1 <= IF reader[h] = "done" THEN 2 ELSE 1
    BY <1>1, <1>6 DEF HostInv, HostTypes, ReaderOK, Erring, Passing
  <2>2. Delivered(h)' = Delivered(h)
    BY <1>5, <1>6, <2>1
  <2>3. HostTypes(h)' /\ ReaderOK(h)'
    BY <1>1, <1>2, <1>3, <1>6, <2>1 DEF HostInv, HostTypes, ReaderOK, Erring, ServerSame, Error
  <2>4. InOrder(h)'
    BY <1>1, <1>2, <1>5, <1>6, <2>1, <2>2 DEF HostInv, InOrder, ServerSame
  <2>5. EndOK(h)'
    <3>1. Errs(h) /\ Errs(h)'
      BY <1>5, <1>6 DEF Errs
    <3> QED BY <1>1, <1>2, <1>6, <2>1, <2>2, <3>1 DEF HostInv, EndOK, Gone, Complete, ServerSame
  <2> QED BY <1>4, <2>3, <2>4, <2>5, StepAt DEF HostInv
<1>7. CASE passing[h] # Error /\ errors'[h] = errors[h]
           /\ printed'[h] = Append(printed[h], passing[h])
  <2>1. passing[h] \in Lines /\ Passing(h) = 1 /\ passing[h] = Len(printed[h]) + 1
    <3>1. passing[h] \in Lines /\ Passing(h) = 1
      BY <1>3, <1>7 DEF Passing, Lines, Error
    <3> QED BY <1>1, <3>1 DEF HostInv, InOrder
  <2>2. /\ printed'[h] \in Seq(Lines) /\ Len(printed'[h]) = Len(printed[h]) + 1
        /\ \A n \in 1..Len(printed'[h]) : printed'[h][n] = n
    <3>1. \A n \in 1..Len(printed[h]) : printed[h][n] = n
      BY <1>1 DEF HostInv, InOrder
    <3> QED BY <1>5, <1>7, <2>1, <3>1
  <2>3. Delivered(h)' = Delivered(h)
    BY <1>5, <2>1, <2>2
  <2>4. HostTypes(h)' /\ ReaderOK(h)'
    <3>1. reader[h] # "dialing"
      BY <1>1, <2>1 DEF HostInv, ReaderOK, Erring, Lines
    <3> QED BY <1>1, <1>2, <1>3, <1>7, <2>2, <3>1 DEF HostInv, HostTypes, ReaderOK, Erring, ServerSame, Error
  <2>5. InOrder(h)'
    <3>1. Holding(h) = 1 => held[h] = Len(printed'[h]) + 0 + 1
      BY <1>1, <1>5, <2>1, <2>2 DEF HostInv, InOrder
    <3> QED BY <1>1, <1>2, <1>5, <2>2, <2>3, <3>1 DEF HostInv, InOrder, ServerSame
  <2>6. EndOK(h)'
    BY <1>1, <1>2, <1>3, <1>7, <2>3 DEF HostInv, EndOK, Gone, Errs, Complete, ServerSame
  <2> QED BY <1>4, <2>4, <2>5, <2>6, StepAt DEF HostInv
<1> QED BY <1>3, <1>6, <1>7

-----------------------------------------------------------------------------
(* The theorems                                                            *)

\* Sequences of bounded length are sequences of such a length.
LEMMA BoundedSeqMeans ==
  ASSUME NEW S, NEW n \in Nat, NEW s
  PROVE  s \in BoundedSeq(S, n) <=> s \in Seq(S) /\ Len(s) <= n
<1>1. ASSUME s \in BoundedSeq(S, n) PROVE s \in Seq(S) /\ Len(s) <= n
  <2>1. PICK m \in 0..n : s \in [1..m -> S]
    BY <1>1 DEF BoundedSeq, SeqOf
  <2> QED BY <2>1
<1>2. ASSUME s \in Seq(S), Len(s) <= n PROVE s \in BoundedSeq(S, n)
  <2>1. Len(s) \in 0..n /\ s \in [1..Len(s) -> S]
    BY <1>2, LenProperties
  <2> QED BY <2>1 DEF BoundedSeq, SeqOf
<1> QED BY <1>1, <1>2

\* Before the query.
LEMMA InitOK == Init => QueryInv
<1> SUFFICES ASSUME Init PROVE QueryInv
  OBVIOUS
<1>1. Domains
  BY DEF Init, Domains
<1>2. ASSUME NEW h \in Hosts PROVE HostInv(h)
  <2>1. /\ grep[h] = [written |-> 0, running |-> FALSE] /\ server[h] = "listening"
        /\ taken[h] = 0 /\ wire[h] = <<>> /\ broken[h] = FALSE /\ reader[h] = "dialing"
        /\ held[h] = None /\ passing[h] = None /\ printed[h] = <<>> /\ errors[h] = 0
    BY DEF Init
  <2>2. output[h] \in Seq(Sizes(h)) /\ Len(output[h]) <= MaxLines /\ Len(output[h]) \in Nat
    BY BoundedSeqMeans, LenProperties DEF Init
  <2>3. HostTypes(h)
    <3>1. <<>> \in Seq(Lines) /\ Len(<<>>) = 0
      OBVIOUS
    <3>2. grep[h] \in [written : 0..MaxLines, running : BOOLEAN] /\ 0 <= WireRoom
      BY <2>1
    <3>3. /\ wire[h] \in Seq(Lines) /\ Len(wire[h]) <= WireRoom /\ printed[h] \in Seq(Lines)
      BY <2>1, <3>1, <3>2
    <3>4. /\ server[h] \in {"listening", "streaming", "waiting", "closed", "refused", "crashed"}
          /\ taken[h] \in Nat /\ errors[h] \in 0..2
          /\ reader[h] \in {"dialing", "scanning", "torn", "failing", "done"}
      BY <2>1
    <3>5. broken[h] \in BOOLEAN
      BY <2>1, Zenon
    <3>6. held[h] \in Lines \cup {None} /\ passing[h] \in Lines \cup {None, Error}
      BY <2>1
    <3> QED BY <2>2, <3>2, <3>3, <3>4, <3>6, <3>5 DEF HostTypes
  <2>4. ReaderOK(h) /\ EndOK(h)
    BY <2>1 DEF ReaderOK, Erring, EndOK, Error
  <2>5. Passing(h) = 0 /\ Holding(h) = 0 /\ Delivered(h) = 0
    BY <2>1 DEF Passing, Holding, Delivered
  <2>6. InOrder(h)
    BY <2>1, <2>2, <2>5 DEF InOrder
  <2> QED BY <2>3, <2>6, <2>4 DEF HostInv
<1> QED BY <1>1, <1>2 DEF QueryInv, Init

\* Run returns when every host is done.
LEMMA ReturnStep ==
  ASSUME QueryInv, Return
  PROVE  QueryInv'
<1>1. /\ \A h \in Hosts : reader[h] = "done" /\ passing[h] = None
      /\ returned' = TRUE
      /\ UNCHANGED <<output, grep, server, taken, wire, broken, reader, held, passing,
                     printed, errors>>
  BY DEF Return, serverVars
<1>2. \A h \in Hosts : UNCHANGED Of(h)
  BY <1>1 DEF Of
<1>3. \A h \in Hosts : HostInv(h)'
  BY <1>2, HostSame DEF QueryInv
<1>4. Domains'
  BY <1>1 DEF QueryInv, Domains
<1> QED BY <1>1, <1>3, <1>4 DEF QueryInv

\* The inductive invariant of the query.
LEMMA QueryInvariant == Spec => []QueryInv
<1>1. QueryInv /\ [Next]_vars => QueryInv'
  <2> SUFFICES ASSUME QueryInv, [Next]_vars PROVE QueryInv'
    OBVIOUS
  <2>1. ASSUME NEW h \in Hosts, ServerStep(h) \/ Refuse(h) \/ Write(h) \/ Exit(h)
        PROVE  QueryInv'
    BY <2>1, AcceptStep, GrepStep, SendStep, SendFailsStep, ServerEndsStep DEF ServerStep
  <2>2. ASSUME NEW h \in Hosts, ReaderStep(h) \/ Pass(h) \/ Show(h)
        PROVE  QueryInv'
    BY <2>2, ReaderMoves, ScanStep, PassStep, ShowStep DEF ReaderStep
  <2>3. ASSUME NEW h \in Hosts, Crash(h) \/ Break(h)
        PROVE  QueryInv'
    BY <2>3, ServerEndsStep, BreakStep
  <2>4. CASE UNCHANGED vars
    <3>1. UNCHANGED <<output, grep, server, taken, wire, broken, reader, held, passing,
                      printed, errors, returned>>
      BY <2>4 DEF vars, serverVars, clientVars
    <3>2. \A h \in Hosts : UNCHANGED Of(h)
      BY <3>1 DEF Of
    <3>3. \A h \in Hosts : HostInv(h)'
      BY <3>2, HostSame DEF QueryInv
    <3> QED BY <3>1, <3>3 DEF QueryInv, Domains
  <2> QED BY <2>1, <2>2, <2>3, <2>4, ReturnStep DEF Next
<1> QED BY InitOK, <1>1, PTL DEF Spec

\* The type invariant; that no more is printed of a host than its grep can find needs the
\* way of its lines.
THEOREM LogQueryTypeOK == Spec => []TypeOK
<1>1. QueryInv => TypeOK
  <2> SUFFICES ASSUME QueryInv PROVE TypeOK
    OBVIOUS
  <2>1. \A h \in Hosts : HostTypes(h) /\ InOrder(h)
    BY DEF QueryInv, HostInv
  <2>2. ASSUME NEW h \in Hosts
        PROVE  /\ taken[h] \in 0..MaxLines /\ output[h] \in BoundedSeq(Sizes(h), MaxLines)
               /\ wire[h] \in BoundedSeq(Lines, WireRoom)
               /\ printed[h] \in BoundedSeq(Lines, MaxLines)
    <3>1. /\ taken[h] \in Nat /\ taken[h] <= grep[h].written /\ grep[h].written \in 0..MaxLines
          /\ Delivered(h) <= taken[h]
      BY <2>1 DEF HostTypes, InOrder
    <3>2. Len(printed[h]) \in Nat /\ Len(printed[h]) <= Delivered(h) /\ Delivered(h) \in Nat
      BY <2>1, DeliveredNat DEF Delivered
    <3>3. taken[h] \in 0..MaxLines /\ Len(printed[h]) <= MaxLines
      BY <3>1, <3>2
    <3> QED BY <2>1, <3>3, BoundedSeqMeans DEF HostTypes
  <2>3. /\ grep \in [Hosts -> [written : 0..MaxLines, running : BOOLEAN]]
        /\ server \in [Hosts -> {"listening", "streaming", "waiting", "closed", "refused", "crashed"}]
        /\ taken \in [Hosts -> 0..MaxLines]
    BY <2>1, <2>2 DEF QueryInv, Domains, HostTypes
  <2>4. /\ broken \in [Hosts -> BOOLEAN]
        /\ reader \in [Hosts -> {"dialing", "scanning", "torn", "failing", "done"}]
        /\ held \in [Hosts -> Lines \cup {None}]
        /\ passing \in [Hosts -> Lines \cup {None, Error}]
        /\ errors \in [Hosts -> 0..2]
    BY <2>1 DEF QueryInv, Domains, HostTypes
  <2> QED BY <2>2, <2>3, <2>4 DEF TypeOK, QueryInv
<1> QED BY QueryInvariant, <1>1, PTL

\* Numbers that go on from k.
LEMMA CountOn ==
  ASSUME NEW k \in Nat, NEW w \in Seq(Nat), \A n \in 1..Len(w) : w[n] = k + n
  PROVE  [n \in 1..k |-> n] \o w = [n \in 1..(k + Len(w)) |-> n]
<1> DEFINE s == [n \in 1..k |-> n]
           t == [n \in 1..(k + Len(w)) |-> n]
<1>1. Len(w) \in Nat
  BY LenProperties
<1>2. s \in Seq(Nat) /\ Len(s) = k /\ \A n \in 1..k : s[n] = n
  OBVIOUS
<1>3. t \in Seq(Nat) /\ Len(t) = k + Len(w) /\ \A n \in 1..(k + Len(w)) : t[n] = n
  BY <1>1
<1> HIDE DEF s, t
<1>4. /\ s \o w \in Seq(Nat) /\ Len(s \o w) = k + Len(w)
      /\ \A n \in 1..(k + Len(w)) : (s \o w)[n] = IF n <= k THEN s[n] ELSE w[n - k]
  <2>1. /\ s \o w \in Seq(Nat) /\ Len(s \o w) = Len(s) + Len(w)
        /\ \A n \in 1..(Len(s) + Len(w)) : (s \o w)[n] = IF n <= Len(s) THEN s[n] ELSE w[n - Len(s)]
    BY <1>2, ConcatProperties, Zenon
  <2> QED BY <1>2, <2>1, Zenon
<1>5. \A n \in 1..(k + Len(w)) : (s \o w)[n] = n
  <2> TAKE n \in 1..(k + Len(w))
  <2>1. CASE n <= k
    BY <1>2, <1>4, <2>1
  <2>2. CASE n > k
    <3>1. n - k \in 1..Len(w)
      BY <1>1, <2>2
    <3>2. w[n - k] = k + (n - k)
      BY <3>1
    <3> QED BY <1>1, <1>4, <2>2, <3>2
  <2>3. n <= k \/ n > k
    BY <1>1
  <2> QED BY <2>1, <2>2, <2>3
<1>6. s \o w = t
  BY <1>3, <1>4, <1>5, SeqEqual
<1> QED BY <1>6 DEF s, t

\* The lines of a host come in order, each once, and none is lost while it is listened to.
THEOREM NothingIsLost == Spec => []NothingLostOnTheWay
<1>1. QueryInv => NothingLostOnTheWay
  <2> SUFFICES ASSUME QueryInv, NEW h \in Hosts
               PROVE  LET way == printed[h] \o Passed(h) \o Scanned(h)
                      IN  /\ way = [n \in 1..Len(way) |-> n]
                          /\ Len(way) <= taken[h]
                          /\ Connected(h) /\ reader[h] = "scanning" =>
                               way \o wire[h] = [n \in 1..taken[h] |-> n]
    BY DEF NothingLostOnTheWay
  <2> DEFINE a == Len(printed[h])
             b == a + Passing(h)
             c == b + Holding(h)
             way == printed[h] \o Passed(h) \o Scanned(h)
  <2>1. HostTypes(h) /\ InOrder(h)
    BY DEF QueryInv, HostInv
  <2>2. /\ a \in Nat /\ b \in Nat /\ c \in Nat /\ c = Delivered(h)
        /\ Passing(h) \in {0, 1} /\ Holding(h) \in {0, 1}
    BY <2>1, DeliveredNat DEF Delivered
  <2>3. printed[h] = [n \in 1..a |-> n]
    <3>1. printed[h] \in [1..a -> Lines]
      BY <2>1, LenProperties DEF HostTypes
    <3> QED BY <2>1, <3>1 DEF InOrder
  <2>4. /\ Passed(h) \in Seq(Nat) /\ Len(Passed(h)) = Passing(h)
        /\ \A n \in 1..Len(Passed(h)) : Passed(h)[n] = a + n
    <3>1. CASE passing[h] \in {None, Error}
      BY <3>1 DEF Passed, Passing
    <3>2. CASE passing[h] \notin {None, Error}
      <4>1. Passing(h) = 1 /\ Passed(h) = <<passing[h]>> /\ passing[h] = a + 1
        BY <2>1, <3>2 DEF Passed, Passing, InOrder
      <4> QED BY <2>2, <4>1
    <3> QED BY <3>1, <3>2
  <2>5. /\ Scanned(h) \in Seq(Nat) /\ Len(Scanned(h)) = Holding(h)
        /\ \A n \in 1..Len(Scanned(h)) : Scanned(h)[n] = b + n
    <3>1. CASE held[h] = None
      BY <3>1 DEF Scanned, Holding
    <3>2. CASE held[h] # None
      <4>1. Holding(h) = 1 /\ Scanned(h) = <<held[h]>> /\ held[h] = b + 1
        BY <2>1, <3>2 DEF Scanned, Holding, InOrder
      <4> QED BY <2>2, <4>1
    <3> QED BY <3>1, <3>2
  <2> HIDE DEF a
  <2>6. printed[h] \o Passed(h) = [n \in 1..b |-> n]
    BY <2>2, <2>3, <2>4, CountOn
  <2> HIDE DEF b
  <2>7. way = [n \in 1..c |-> n]
    BY <2>2, <2>5, <2>6, CountOn
  <2> HIDE DEF c, way
  <2>8. Len(way) = c
    BY <2>2, <2>7
  <2>9. Len(way) <= taken[h]
    BY <2>1, <2>2, <2>8 DEF InOrder
  <2>10. ASSUME Connected(h), reader[h] = "scanning"
         PROVE  way \o wire[h] = [n \in 1..taken[h] |-> n]
    <3>1. /\ c + Len(wire[h]) = taken[h]
          /\ \A n \in 1..Len(wire[h]) : wire[h][n] = c + n
      BY <2>1, <2>2, <2>10 DEF InOrder, Connected
    <3>2. wire[h] \in Seq(Nat)
      BY <2>1, SeqMonotonic DEF HostTypes, Lines
    <3>3. [n \in 1..c |-> n] \o wire[h] = [n \in 1..(c + Len(wire[h])) |-> n]
      BY <2>2, <3>1, <3>2, CountOn
    <3> QED BY <2>7, <3>1, <3>3
  <2> QED BY <2>7, <2>8, <2>9, <2>10 DEF way
<1> QED BY QueryInvariant, <1>1, PTL

\* Missing lines come with an error when Run returns, unless the host refused or crashed
\* or its server gave up at a line too long.
THEOREM WhatIsMissingIsReported == Spec => []MissingLinesAreReported
<1>1. QueryInv => MissingLinesAreReported
  <2> SUFFICES ASSUME QueryInv, returned, NEW h \in Hosts
               PROVE  \/ Len(printed[h]) = Len(output[h]) \/ errors[h] > 0
                      \/ server[h] \in {"refused", "crashed"}
                      \/ taken[h] < Len(output[h]) /\ output[h][taken[h] + 1] = "long"
    BY DEF MissingLinesAreReported
  <2>1. HostInv(h) /\ reader[h] = "done" /\ passing[h] = None
    BY DEF QueryInv
  <2>2. Passing(h) = 0 /\ Holding(h) = 0 /\ Len(printed[h]) \in Nat
    BY <2>1, DeliveredNat DEF Passing, Holding, HostInv, ReaderOK, Erring
  <2>3. Delivered(h) = Len(printed[h])
    BY <2>2 DEF Delivered
  <2>4. passing[h] # Error
    BY <2>1 DEF Error
  <2> QED BY <2>1, <2>3, <2>4 DEF HostInv, EndOK, Errs, Complete
<1> QED BY QueryInvariant, <1>1, PTL

-----------------------------------------------------------------------------
(* The work of a query                                                     *)

\* The summands of Work.
LinesLeft(h)   == Len(output[h]) - taken[h]
LinesSent(h)   == Len(wire[h])
LinesToFind(h) == Len(output[h]) - grep[h].written
HeldWork(h)    == IF held[h] = None THEN 0 ELSE 2
PassedWork(h)  == IF passing[h] = None THEN 0 ELSE 1
RunningWork(h) == IF grep[h].running THEN 1 ELSE 0
BrokenWork(h)  == IF broken[h] THEN 0 ELSE 1
ServerLeft(h)  == ServerWork[server[h]]
ReaderLeft(h)  == ReaderWork[reader[h]]

WorkFacts(h) ==
  /\ Work(h) = 4 * LinesLeft(h) + 3 * LinesSent(h) + LinesToFind(h) + HeldWork(h) + PassedWork(h)
               + RunningWork(h) + BrokenWork(h) + ServerLeft(h) + ReaderLeft(h)
  /\ LinesLeft(h) \in Nat /\ LinesSent(h) \in Nat /\ LinesToFind(h) \in Nat
  /\ HeldWork(h) \in Nat /\ PassedWork(h) \in Nat /\ RunningWork(h) \in Nat /\ BrokenWork(h) \in Nat
  /\ ServerLeft(h) \in Nat /\ ReaderLeft(h) \in Nat

\* They are numbers, and Work is their sum.
LEMMA WorkSum == \A h : HostInv(h) => WorkFacts(h)
<1> SUFFICES ASSUME NEW h, HostInv(h) PROVE WorkFacts(h)
  OBVIOUS
<1>1. LinesLeft(h) \in Nat /\ LinesSent(h) \in Nat /\ LinesToFind(h) \in Nat
  <2>1. Len(output[h]) \in Nat /\ Len(wire[h]) \in Nat
    BY LenProperties DEF HostInv, HostTypes
  <2>2. taken[h] \in Nat /\ grep[h].written \in 0..MaxLines
    BY DEF HostInv, HostTypes
  <2>3. taken[h] <= grep[h].written /\ grep[h].written <= Len(output[h])
    BY DEF HostInv, InOrder
  <2> QED BY <2>1, <2>2, <2>3 DEF LinesLeft, LinesSent, LinesToFind
<1>2. HeldWork(h) \in Nat /\ PassedWork(h) \in Nat /\ RunningWork(h) \in Nat /\ BrokenWork(h) \in Nat
  BY DEF HeldWork, PassedWork, RunningWork, BrokenWork
<1>3. ServerLeft(h) \in Nat /\ ReaderLeft(h) \in Nat
  <2>1. ServerLeft(h) \in Nat
    BY DEF HostInv, HostTypes, ServerLeft, ServerWork
  <2>2. ReaderLeft(h) \in Nat
    BY DEF HostInv, HostTypes, ReaderLeft, ReaderWork
  <2> QED BY <2>1, <2>2
<1>4. LineWork(h) = 4 * LinesLeft(h) + 3 * LinesSent(h) + HeldWork(h) + PassedWork(h)
  BY DEF LineWork, LinesLeft, LinesSent, HeldWork, PassedWork
<1>5. GrepWork(h) = LinesToFind(h) + RunningWork(h)
  BY DEF GrepWork, LinesToFind, RunningWork
<1>6. Work(h) = LineWork(h) + GrepWork(h) + ServerLeft(h) + ReaderLeft(h) + BrokenWork(h)
  BY DEF Work, ServerLeft, ReaderLeft, BrokenWork
<1> QED BY <1>1, <1>2, <1>3, <1>4, <1>5, <1>6 DEF WorkFacts

\* So they are after a step.
LEMMA WorkSumThen == (\A h : HostInv(h) => WorkFacts(h))'
BY WorkSum, PTL

\* Before and after a step.
LEMMA WorkSums ==
  ASSUME QueryInv, QueryInv', NEW h \in Hosts
  PROVE  WorkFacts(h) /\ WorkFacts(h)'
BY WorkSum, WorkSumThen DEF QueryInv

\* A host at which nothing changes has the same work.
LEMMA WorkSame ==
  ASSUME NEW h, UNCHANGED Of(h)
  PROVE  Work(h)' = Work(h)
BY DEF Of, Work, LineWork, GrepWork

\* Work is done at h.
Done(h) == Work(h)' < Work(h)

\* The server starts, gives up, waits, or closes the connection, and the network fails.
LEMMA ServerWorks ==
  ASSUME QueryInv, QueryInv', NEW h \in Hosts,
         Refuse(h) \/ StopReading(h) \/ Close(h) \/ Break(h)
  PROVE  Done(h)
<1>0. WorkFacts(h) /\ WorkFacts(h)'
  BY WorkSums
<1>1. Domains
  BY WorkSums DEF QueryInv
<1>2. UNCHANGED <<output, grep, taken, wire, held, passing, reader>>
  BY DEF Refuse, StopReading, Close, Break, serverVars, clientVars
<1>3. /\ LinesLeft(h)' = LinesLeft(h) /\ LinesSent(h)' = LinesSent(h) /\ LinesToFind(h)' = LinesToFind(h)
      /\ HeldWork(h)' = HeldWork(h) /\ PassedWork(h)' = PassedWork(h) /\ RunningWork(h)' = RunningWork(h)
      /\ ReaderLeft(h)' = ReaderLeft(h)
  BY <1>2 DEF LinesLeft, LinesSent, LinesToFind, HeldWork, PassedWork, RunningWork, ReaderLeft
<1>4. CASE Refuse(h) \/ StopReading(h) \/ Close(h)
  <2>1. /\ broken' = broken
        /\ \/ server[h] = "listening" /\ server'[h] = "refused"
           \/ server[h] = "streaming" /\ server'[h] = "waiting"
           \/ server[h] = "waiting" /\ server'[h] = "closed"
    BY <1>1, <1>4 DEF Refuse, StopReading, Close, Domains
  <2>2. ServerLeft(h)' < ServerLeft(h) /\ BrokenWork(h)' = BrokenWork(h)
    BY <2>1 DEF ServerLeft, ServerWork, BrokenWork
  <2> QED BY <1>0, <1>3, <2>2 DEF WorkFacts, Done
<1>5. CASE Break(h)
  <2>1. server' = server /\ ~broken[h] /\ broken'[h]
    BY <1>1, <1>5 DEF Break, Connected, serverVars, Domains
  <2>2. ServerLeft(h)' = ServerLeft(h) /\ BrokenWork(h)' < BrokenWork(h)
    BY <2>1 DEF ServerLeft, BrokenWork
  <2> QED BY <1>0, <1>3, <2>2 DEF WorkFacts, Done
<1> QED BY <1>4, <1>5

\* The grep starts, writes a line, exits, or is killed.
LEMMA GrepWorks ==
  ASSUME QueryInv, QueryInv', NEW h \in Hosts,
         StartGrep(h) \/ Write(h) \/ Exit(h) \/ Crash(h)
  PROVE  Done(h)
<1>0. WorkFacts(h) /\ WorkFacts(h)'
  BY WorkSums
<1>1. /\ Domains
      /\ grep[h] \in [written : 0..MaxLines, running : BOOLEAN]
      /\ server[h] \in {"listening", "streaming", "waiting", "closed", "refused", "crashed"}
      /\ Len(output[h]) \in Nat
  BY WorkSums, LenProperties DEF QueryInv, HostInv, HostTypes
<1>2. UNCHANGED <<output, taken, wire, broken, held, passing, reader>>
  BY DEF StartGrep, Write, Exit, Crash, clientVars
<1>3. /\ LinesLeft(h)' = LinesLeft(h) /\ LinesSent(h)' = LinesSent(h) /\ HeldWork(h)' = HeldWork(h)
      /\ PassedWork(h)' = PassedWork(h) /\ BrokenWork(h)' = BrokenWork(h) /\ ReaderLeft(h)' = ReaderLeft(h)
  BY <1>2 DEF LinesLeft, LinesSent, HeldWork, PassedWork, BrokenWork, ReaderLeft
<1>4. CASE StartGrep(h)
  <2>1. /\ server[h] = "listening" /\ server'[h] = "streaming"
        /\ grep'[h].written = grep[h].written
    BY <1>1, <1>4 DEF StartGrep, Domains
  <2>2. ServerLeft(h)' = ServerLeft(h) - 2 /\ LinesToFind(h)' = LinesToFind(h)
    BY <1>2, <2>1 DEF ServerLeft, ServerWork, LinesToFind
  <2>3. RunningWork(h)' <= RunningWork(h) + 1
    BY DEF RunningWork
  <2> QED BY <1>0, <1>3, <2>2, <2>3 DEF WorkFacts, Done
<1>5. CASE Write(h)
  <2>1. server' = server /\ grep'[h].written = grep[h].written + 1 /\ grep'[h].running = grep[h].running
    BY <1>1, <1>5 DEF Write, Domains
  <2>2. /\ ServerLeft(h)' = ServerLeft(h) /\ RunningWork(h)' = RunningWork(h)
        /\ LinesToFind(h)' = LinesToFind(h) - 1
    BY <1>1, <1>2, <2>1 DEF ServerLeft, RunningWork, LinesToFind
  <2> QED BY <1>0, <1>3, <2>2 DEF WorkFacts, Done
<1>6. CASE Exit(h)
  <2>1. server' = server /\ grep'[h].written = grep[h].written /\ grep[h].running /\ ~grep'[h].running
    BY <1>1, <1>6 DEF Exit, Domains
  <2>2. /\ ServerLeft(h)' = ServerLeft(h) /\ RunningWork(h)' < RunningWork(h)
        /\ LinesToFind(h)' = LinesToFind(h)
    BY <1>2, <2>1 DEF ServerLeft, RunningWork, LinesToFind
  <2> QED BY <1>0, <1>3, <2>2 DEF WorkFacts, Done
<1>7. CASE Crash(h)
  <2>1. /\ server[h] # "crashed" /\ server'[h] = "crashed"
        /\ grep'[h].written = grep[h].written /\ ~grep'[h].running
    BY <1>1, <1>7 DEF Crash, Domains
  <2>2. /\ ServerLeft(h)' < ServerLeft(h) /\ RunningWork(h)' <= RunningWork(h)
        /\ LinesToFind(h)' = LinesToFind(h)
    BY <1>1, <1>2, <2>1 DEF ServerLeft, ServerWork, RunningWork, LinesToFind
  <2> QED BY <1>0, <1>3, <2>2 DEF WorkFacts, Done
<1> QED BY <1>4, <1>5, <1>6, <1>7

\* A line is sent, or lost with its client.
LEMMA SendWorks ==
  ASSUME QueryInv, QueryInv', NEW h \in Hosts, Send(h) \/ SendFails(h)
  PROVE  Done(h)
<1>0. WorkFacts(h) /\ WorkFacts(h)'
  BY WorkSums
<1>1. /\ Domains /\ wire[h] \in Seq(Lines)
      /\ taken[h] \in Nat /\ Len(output[h]) \in Nat /\ grep[h].written \in 0..MaxLines
  BY WorkSums, LenProperties DEF QueryInv, HostInv, HostTypes
<1>2. /\ UNCHANGED <<output, grep, broken, held, passing, reader>>
      /\ server[h] = "streaming" /\ taken[h] < grep[h].written /\ taken'[h] = taken[h] + 1
  BY <1>1 DEF Send, SendFails, clientVars, Domains
<1>3. /\ LinesToFind(h)' = LinesToFind(h) /\ HeldWork(h)' = HeldWork(h) /\ PassedWork(h)' = PassedWork(h)
      /\ RunningWork(h)' = RunningWork(h) /\ BrokenWork(h)' = BrokenWork(h) /\ ReaderLeft(h)' = ReaderLeft(h)
      /\ LinesLeft(h)' = LinesLeft(h) - 1
  BY <1>1, <1>2 DEF LinesLeft, LinesToFind, HeldWork, PassedWork, RunningWork, BrokenWork, ReaderLeft
<1>4. CASE Send(h)
  <2>1. server' = server /\ wire'[h] = Append(wire[h], taken[h] + 1)
    BY <1>1, <1>4 DEF Send, Domains
  <2>2. taken[h] + 1 \in Lines
    BY <1>1, <1>2 DEF Lines
  <2>3. LinesSent(h)' = LinesSent(h) + 1 /\ ServerLeft(h)' = ServerLeft(h)
    BY <1>1, <2>1, <2>2 DEF LinesSent, ServerLeft
  <2> QED BY <1>0, <1>3, <2>3 DEF WorkFacts, Done
<1>5. CASE SendFails(h)
  <2>1. wire' = wire /\ server'[h] \in {"streaming", "waiting"}
    BY <1>1, <1>2, <1>5 DEF SendFails, Domains
  <2>2. LinesSent(h)' = LinesSent(h) /\ ServerLeft(h)' <= ServerLeft(h)
    BY <1>2, <2>1 DEF LinesSent, ServerLeft, ServerWork
  <2> QED BY <1>0, <1>3, <2>2 DEF WorkFacts, Done
<1> QED BY <1>4, <1>5

\* The goroutine of a host dials, scans, or ends.
LEMMA ReaderWorks ==
  ASSUME QueryInv, QueryInv', NEW h \in Hosts, ReaderStep(h)
  PROVE  Done(h)
<1>0. WorkFacts(h) /\ WorkFacts(h)'
  BY WorkSums
<1>1. /\ Domains /\ wire[h] \in Seq(Lines)
      /\ reader[h] \in {"dialing", "scanning", "torn", "failing", "done"}
  BY WorkSums DEF QueryInv, HostInv, HostTypes
<1>2. UNCHANGED <<output, grep, server, taken, broken, passing>>
  BY DEF ReaderStep, Dial, DialFails, Scan, ScanEnds, ScanFails, serverVars
<1>3. /\ LinesLeft(h)' = LinesLeft(h) /\ LinesToFind(h)' = LinesToFind(h) /\ PassedWork(h)' = PassedWork(h)
      /\ RunningWork(h)' = RunningWork(h) /\ BrokenWork(h)' = BrokenWork(h) /\ ServerLeft(h)' = ServerLeft(h)
  BY <1>2 DEF LinesLeft, LinesToFind, PassedWork, RunningWork, BrokenWork, ServerLeft
<1>4. CASE Dial(h) \/ DialFails(h) \/ ScanEnds(h) \/ ScanFails(h)
  <2>1. /\ wire' = wire /\ held' = held
        /\ \/ reader[h] = "dialing" /\ reader'[h] \in {"scanning", "failing"}
           \/ reader[h] = "scanning" /\ reader'[h] \in {"torn", "failing", "done"}
    BY <1>1, <1>4 DEF Dial, DialFails, ScanEnds, ScanFails, Domains
  <2>2. LinesSent(h)' = LinesSent(h) /\ HeldWork(h)' = HeldWork(h) /\ ReaderLeft(h)' < ReaderLeft(h)
    BY <2>1 DEF LinesSent, HeldWork, ReaderLeft, ReaderWork
  <2> QED BY <1>0, <1>3, <2>2 DEF WorkFacts, Done
<1>5. CASE Scan(h)
  <2>1. /\ wire'[h] = Tail(wire[h]) /\ wire[h] # <<>> /\ reader[h] = "scanning" /\ held[h] = None
        /\ reader'[h] \in {"scanning", "failing"}
    BY <1>1, <1>5 DEF Scan, Domains
  <2>2. LinesSent(h)' = LinesSent(h) - 1
    BY <1>1, <2>1 DEF LinesSent
  <2>3. HeldWork(h)' <= HeldWork(h) + 2 /\ ReaderLeft(h)' <= ReaderLeft(h)
    BY <2>1 DEF HeldWork, ReaderLeft, ReaderWork
  <2> QED BY <1>0, <1>3, <2>2, <2>3 DEF WorkFacts, Done
<1> QED BY <1>4, <1>5 DEF ReaderStep

\* A result is passed on, and printed.
LEMMA ResultWorks ==
  ASSUME QueryInv, QueryInv', NEW h \in Hosts, Pass(h) \/ Show(h)
  PROVE  Done(h)
<1>0. WorkFacts(h) /\ WorkFacts(h)'
  BY WorkSums
<1>1. Domains
  BY WorkSums DEF QueryInv
<1>2. UNCHANGED <<output, grep, server, taken, wire, broken>>
  BY DEF Pass, Show, serverVars
<1>3. /\ LinesLeft(h)' = LinesLeft(h) /\ LinesSent(h)' = LinesSent(h) /\ LinesToFind(h)' = LinesToFind(h)
      /\ RunningWork(h)' = RunningWork(h) /\ BrokenWork(h)' = BrokenWork(h) /\ ServerLeft(h)' = ServerLeft(h)
  BY <1>2 DEF LinesLeft, LinesSent, LinesToFind, RunningWork, BrokenWork, ServerLeft
<1>4. CASE Pass(h)
  <2>1. /\ passing[h] = None
        /\ \/ held[h] # None /\ held'[h] = None /\ reader' = reader
           \/ held' = held /\ reader[h] = "torn" /\ reader'[h] = "failing"
           \/ held' = held /\ reader[h] = "failing" /\ reader'[h] = "done"
    BY <1>1, <1>4 DEF Pass, Domains
  <2>2. PassedWork(h)' <= PassedWork(h) + 1
    BY <2>1 DEF PassedWork
  <2>3. \/ HeldWork(h)' = HeldWork(h) - 2 /\ ReaderLeft(h)' = ReaderLeft(h)
        \/ HeldWork(h)' = HeldWork(h) /\ ReaderLeft(h)' = ReaderLeft(h) - 2
    BY <2>1 DEF HeldWork, ReaderLeft, ReaderWork
  <2> QED BY <1>0, <1>3, <2>2, <2>3 DEF WorkFacts, Done
<1>5. CASE Show(h)
  <2>1. passing[h] # None /\ passing'[h] = None /\ held' = held /\ reader' = reader
    BY <1>1, <1>5 DEF Show, Domains
  <2>2. PassedWork(h)' < PassedWork(h) /\ HeldWork(h)' = HeldWork(h) /\ ReaderLeft(h)' = ReaderLeft(h)
    BY <2>1 DEF PassedWork, HeldWork, ReaderLeft
  <2> QED BY <1>0, <1>3, <2>2 DEF WorkFacts, Done
<1> QED BY <1>4, <1>5

\* The steps of one host.
Steps(h) == \/ ServerStep(h) \/ Refuse(h) \/ Write(h) \/ Exit(h)
            \/ ReaderStep(h) \/ Pass(h) \/ Show(h) \/ Crash(h) \/ Break(h)

\* None of them touches another host.
LEMMA OthersSame ==
  ASSUME Domains, NEW h \in Hosts, Steps(h), NEW g \in Hosts \ {h}
  PROVE  UNCHANGED Of(g)
<1>1. CASE Refuse(h) \/ StartGrep(h) \/ Write(h) \/ Exit(h) \/ StopReading(h) \/ Close(h) \/ Crash(h)
  BY <1>1 DEF Refuse, StartGrep, Write, Exit, StopReading, Close, Crash, clientVars, Domains, Of
<1>2. CASE Send(h) \/ SendFails(h)
  BY <1>2 DEF Send, SendFails, clientVars, Domains, Of
<1>3. CASE Break(h)
  BY <1>3 DEF Break, serverVars, clientVars, Domains, Of
<1>4. CASE Dial(h) \/ DialFails(h) \/ ScanEnds(h) \/ ScanFails(h)
  BY <1>4 DEF Dial, DialFails, ScanEnds, ScanFails, serverVars, Domains, Of
<1>5. CASE Scan(h)
  BY <1>5 DEF Scan, serverVars, Domains, Of
<1>6. CASE Pass(h) \/ Show(h)
  BY <1>6 DEF Pass, Show, serverVars, Domains, Of
<1> QED BY <1>1, <1>2, <1>3, <1>4, <1>5, <1>6 DEF Steps, ServerStep, ReaderStep

\* Every step of a query is work done at one host, or its end: nothing goes round in
\* circles, for any hosts, faulty or not, any numbers of lines, and room of any size.
THEOREM QueriesDoNotGoRound == Spec => EveryStepIsWork
<1>1. QueryInv /\ QueryInv' /\ [Next]_vars => [(\E h \in Hosts : WorkIsDone(h)) \/ Return]_vars
  <2> SUFFICES ASSUME QueryInv, QueryInv', NEW h \in Hosts, Steps(h)
               PROVE  WorkIsDone(h)
    BY DEF Next, Steps
  <2>1. Done(h)
    BY ServerWorks, GrepWorks, SendWorks, ReaderWorks, ResultWorks DEF Steps, ServerStep
  <2>2. Work(h)' \in Nat
    BY WorkSums DEF WorkFacts
  <2>3. \A g \in Hosts \ {h} : Work(g)' = Work(g)
    BY OthersSame, WorkSame DEF QueryInv
  <2> QED BY <2>1, <2>2, <2>3 DEF Done, WorkIsDone
<1> QED BY QueryInvariant, <1>1, PTL DEF Spec, EveryStepIsWork

-----------------------------------------------------------------------------
(* Where a query can stand still                                           *)

\* The query is over at h.
Over(h) == reader[h] = "done" /\ passing[h] = None

\* The guards of the steps that goroutines and greps take by themselves: all of Fairness
\* at a host.
ServerGoesOn(h) ==
  \/ server[h] = "listening" /\ reader[h] # "dialing"
  \/ /\ server[h] = "streaming" /\ taken[h] < grep[h].written
     /\ output[h][taken[h] + 1] = "long" \/ ~Connected(h) \/ Len(wire[h]) < WireRoom
  \/ server[h] = "streaming" /\ taken[h] = grep[h].written /\ ~grep[h].running
  \/ server[h] = "waiting" /\ ~grep[h].running

GrepGoesOn(h) ==
  /\ grep[h].running
  /\ \/ grep[h].written < Len(output[h]) /\ grep[h].written - taken[h] < PipeRoom
     \/ grep[h].written = Len(output[h])

ReaderGoesOn(h) ==
  \/ reader[h] = "dialing" /\ (server[h] = "listening" \/ h \in Faulty)
  \/ /\ reader[h] = "scanning" /\ held[h] = None
     /\ wire[h] # <<>> \/ broken[h] \/ server[h] \in {"closed", "refused", "crashed"}

ResultGoesOn(h) == passing[h] # None \/ held[h] # None \/ reader[h] \in {"torn", "failing"}

GoesOn(h) == ServerGoesOn(h) \/ GrepGoesOn(h) \/ ReaderGoesOn(h) \/ ResultGoesOn(h)

\* At a host that the query is not over at and that is not Stuck, somebody can go on.
StuckOnly == \A h \in Hosts : Over(h) \/ Stuck(h) \/ GoesOn(h)

\* Processes that end are those of faulty hosts.
CrashInv == \A h \in Hosts : server[h] = "crashed" => h \in Faulty

\* No other step ends a process.
LEMMA CrashInvariant == Spec => []CrashInv
<1>1. Init => CrashInv
  BY DEF Init, CrashInv
<1>2. QueryInv /\ CrashInv /\ [Next]_vars => CrashInv'
  <2> SUFFICES ASSUME QueryInv, CrashInv, [Next]_vars, NEW g \in Hosts, server'[g] = "crashed"
               PROVE  g \in Faulty
    BY DEF CrashInv
  <2>1. CASE server' = server
    BY <2>1 DEF CrashInv
  <2>2. ASSUME NEW h \in Hosts, StartGrep(h) \/ Send(h) \/ SendFails(h) \/ StopReading(h) \/ Close(h) \/ Refuse(h)
        PROVE  server[g] = "crashed"
    <3>1. server = [x \in Hosts |-> server[x]]
      BY DEF QueryInv, Domains
    <3> DEFINE Put(v) == server' = [server EXCEPT ![h] = v]
    <3>2. server' = server \/ \E v \in {"streaming", "waiting", "closed", "refused"} : Put(v)
      BY <2>2 DEF StartGrep, Send, SendFails, StopReading, Close, Refuse
    <3> QED BY <3>1, <3>2
  <2>3. ASSUME NEW h \in Hosts, Crash(h)
        PROVE  g \in Faulty
    <3>1. server = [x \in Hosts |-> server[x]] /\ server' = [server EXCEPT ![h] = "crashed"] /\ h \in Faulty
      BY <2>3 DEF QueryInv, Domains, Crash
    <3>2. g = h \/ server[g] = "crashed"
      BY <3>1
    <3> QED BY <3>1, <3>2 DEF CrashInv
  <2>4. ASSUME NEW h \in Hosts, Steps(h)
        PROVE  g \in Faulty
    BY <2>1, <2>2, <2>3, <2>4
       DEF CrashInv, Steps, ServerStep, Write, Exit, ReaderStep, Dial, DialFails, Scan, ScanEnds, ScanFails,
           Pass, Show, Break, serverVars
  <2> QED BY <2>1, <2>4 DEF Next, Steps, Return, vars, serverVars
<1> QED BY QueryInvariant, <1>1, <1>2, PTL DEF Spec

\* A query that has not returned stands still only where a server waits for a grep that
\* waits for it (server.go:189-200): everywhere else, at every host it is not over at, some
\* goroutine or the grep can go on, whatever crashes, refuses, or falls off the network.
THEOREM QueriesStandStillAtGrepsOnly == Spec => []StuckOnly
<1>1. QueryInv /\ CrashInv => StuckOnly
  <2> SUFFICES ASSUME QueryInv, CrashInv, NEW h \in Hosts, ~Over(h), ~Stuck(h), ~GoesOn(h)
               PROVE  FALSE
    BY DEF StuckOnly
  <2>1. HostTypes(h) /\ InOrder(h) /\ ReaderOK(h)
    BY DEF QueryInv, HostInv
  <2>2. reader[h] \in {"dialing", "scanning"} /\ held[h] = None
    BY <2>1 DEF Over, GoesOn, ResultGoesOn, HostTypes
  <2>3. reader[h] # "dialing"
    BY <2>1 DEF CrashInv, GoesOn, ReaderGoesOn, ReaderOK, Erring
  <2>4. /\ wire[h] = <<>> /\ ~broken[h] /\ Connected(h)
        /\ server[h] \in {"streaming", "waiting"}
    BY <2>1, <2>2, <2>3 DEF GoesOn, ReaderGoesOn, ServerGoesOn, HostTypes, Connected
  <2>5. /\ taken[h] \in Nat /\ grep[h].written \in Nat /\ Len(output[h]) \in Nat
        /\ taken[h] <= grep[h].written /\ grep[h].written <= Len(output[h])
    BY <2>1, LenProperties DEF HostTypes, InOrder
  <2>6. PipeRoom \in Nat \ {0} /\ WireRoom \in Nat \ {0} /\ Len(wire[h]) = 0
    BY <2>4
  <2>7. CASE server[h] = "streaming"
    <3>1. taken[h] = grep[h].written
      BY <2>5, <2>6, <2>7 DEF GoesOn, ServerGoesOn
    <3>2. grep[h].running
      BY <2>7, <3>1 DEF GoesOn, ServerGoesOn
    <3> QED BY <2>5, <2>6, <3>1, <3>2 DEF GoesOn, GrepGoesOn
  <2>8. CASE server[h] = "waiting"
    <3>1. grep[h].running
      BY <2>8 DEF GoesOn, ServerGoesOn
    <3>2. Len(output[h]) - taken[h] <= PipeRoom
      BY <2>5, <2>6, <2>8, <3>1 DEF Stuck
    <3> QED BY <2>5, <2>6, <3>1, <3>2 DEF GoesOn, GrepGoesOn
  <2> QED BY <2>4, <2>7, <2>8
<1> QED BY QueryInvariant, CrashInvariant, <1>1, PTL

=============================================================================
