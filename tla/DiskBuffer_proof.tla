-------------------------- MODULE DiskBuffer_proof --------------------------
(***************************************************************************)
(* Proofs for the diskbuffer segment, for any capacity, marks, batch size, *)
(* number of flows and of files: reading and writing exclude each other,   *)
(* and every flow is at exactly one place.                                 *)
(***************************************************************************)
EXTENDS DiskBuffer, TLAPS

(* ReadWriteWG counts the goroutines of the round the decider waits for.   *)
On(running) == IF running THEN 1 ELSE 0

RoundInv ==
    /\ wg = On(wtd # "off") + On(wLow = "on") + On(rd # "off") + On(rLow = "on") + On(rHigh = "on")
    /\ wtd # "off" \/ wLow = "on" => dec \in {"writeWait", "final"}
    /\ rd # "off" \/ rLow = "on" \/ rHigh = "on" => dec = "readWait"
    /\ rg # "off" => rd # "off"

(* What the goroutines hold at which place of their code.                  *)
HandsInv ==
    /\ inp = "put" <=> inpMsg # NoFlow
    /\ nxt = "send" <=> nxtMsg # NoFlow
    /\ rd \in {"handle", "deliver", "put"} <=> rdLine # NoLine
    /\ wtd = "batch" => wI < BatchSize

(* The decider stops last: no flow comes in any more and nobody closes     *)
(* StopWritingToDisk of the last WriteToDisk, which empties MemoryBuffer.  *)
StopInv ==
    /\ inp = "exited" <=> stop = 3
    /\ dec \in {"final", "exited"} => inp = "exited" /\ wLow = "off"
    /\ dec = "final" => stopW = "open" /\ (wtd \in {"return", "off"} => mem = << >>)
    /\ dec = "exited" => mem = << >> /\ wtd = "off"

(* The files.  The file being written and the rest_ file are empty until   *)
(* they are flushed, and nobody reads them.                                *)
FileInv ==
    /\ wtd = "off" => wFile = NoFile /\ wBuf = << >>
    /\ wtd # "off" => wFile \in Exists /\ disk[wFile] = << >>
    /\ rd # "rest" => rest = NoFile /\ restBuf = << >>
    /\ rd = "rest" => rest \in Exists /\ disk[rest] = << >>
    /\ rg = "line" <=> rgFile # NoFile
    /\ rgFile # NoFile => rgFile \in Exists /\ rgFile # rest /\ rgFile \notin todo
    /\ cache \subseteq Exists \cup {DeadName}
    /\ todo \subseteq Exists \cup {DeadName} /\ rest \notin todo

(* No two lines of a file, and no two slots of MemoryBuffer, hold the same *)
(* flow.                                                                   *)
Distinct(lines) == \A i, j \in DOMAIN lines : lines[i].f = lines[j].f => i = j

Different(s) == \A i, j \in DOMAIN s : s[i] = s[j] => i = j
Values(s) == {s[k] : k \in DOMAIN s}

DistinctInv ==
    /\ Distinct(wBuf) /\ Distinct(restBuf) /\ Distinct(rgLeft)
    /\ \A name \in Exists : Distinct(disk[name])
    /\ Different(mem)

(* The places a flow can be at, and the flows that are there.              *)
Spots == {"in", "next", "line", "mem", "write", "rest", "delivered", "gone"}
At(s) == <<s, 0>>
File(name) == <<"disk", name>>
Places == {At(s) : s \in Spots} \cup {File(name) : name \in Files}

Held == [p \in Places |->
    CASE p[1] = "in" -> {inpMsg} \ {NoFlow}
      [] p[1] = "next" -> {nxtMsg} \ {NoFlow}
      [] p[1] = "line" -> {rdLine.f} \ {NoFlow}
      [] p[1] = "mem" -> Values(mem)
      [] p[1] = "write" -> FlowsOf(wBuf)
      [] p[1] = "rest" -> FlowsOf(restBuf)
      [] p[1] = "delivered" -> delivered
      [] p[1] = "gone" -> gone
      [] p[1] = "disk" -> IF p[2] \in Exists THEN OnDisk(p[2]) ELSE {}]

(* The sets h[p] are disjoint and make up S.                               *)
Partition(h, S) ==
    /\ \A p, q \in Places : p # q => h[p] \cap h[q] = {}
    /\ UNION {h[p] : p \in Places} = S

IInv ==
    /\ TypeOK /\ RoundInv /\ HandsInv /\ StopInv /\ FileInv /\ DistinctInv
    /\ Partition(Held, 1..(Leftover + fed))

-----------------------------------------------------------------------------
(* The actions that leave the round, the files and StopWritingToDisk alone *)
Feeds == ReceiveIn \/ CloseInput \/ PutInput \/ CloseStops \/ CheckNext \/ TakeNext \/ SendNext
Watches == Glob \/ StatFiles \/ WatcherWakes \/ CloseOut \/ UNCHANGED vars
Decides == Decide \/ StartRead \/ StartWrite \/ StartFinalWrite \/ RoundOver
Writes == CheckStopWriting \/ WriteOne \/ EndWriting
Reads == OpenFile \/ ReadLine \/ RemoveFile \/ CheckStopReading \/ HandleLine \/ DeliverLine
         \/ PutLine \/ EndReading
Barks == WriteWatchdogLowMemoryMark \/ ReadWatchdogLowMemoryMark \/ ReadWatchdogHighMemoryMark

(* A step of one of the goroutines.                                        *)
LEMMA Cases ==
    ASSUME [Next]_vars
    PROVE  Feeds \/ Watches \/ Decides \/ Writes \/ Reads \/ Barks
  BY Zenon DEF Next, InputLoop, NextLoop, WatchCacheFiles, Decider, WriteToDisk, Reader, ReadFromDisk,
         Feeds, Watches, Decides, Writes, Reads, Barks

(* The goroutines of a round are counted.                                  *)
LEMMA NextRound ==
    ASSUME RoundInv, [Next]_vars
    PROVE  RoundInv'
<1>1. CASE Feeds \/ Watches
  <2>1. UNCHANGED <<wg, wtd, wLow, rd, rLow, rHigh, dec, rg>>
    BY <1>1, Zenon DEF Feeds, Watches, ReceiveIn, CloseInput, PutInput, CloseStops, CheckNext, TakeNext,
                SendNext, Glob, StatFiles, WatcherWakes, CloseOut, vars, writeVars, readVars,
                readerVars, dogVars
  <2> QED
    BY <2>1, Zenon DEF RoundInv
<1>2. CASE Decide
  <2>1. UNCHANGED <<wg, wtd, wLow, rd, rLow, rHigh, rg>> /\ dec = "top"
    BY <1>2, Zenon DEF Decide, writeVars, readVars, readerVars, dogVars
  <2> QED
    BY <2>1, Zenon DEF RoundInv
<1>3. CASE StartRead
  <2>1. /\ UNCHANGED <<wtd, wLow>> /\ dec = "read" /\ wg' = 3 /\ dec' = "readWait"
        /\ rLow' = "on" /\ rHigh' = "on" /\ rd' = "recv"
    BY <1>3, Zenon DEF StartRead, writeVars
  <2> QED
    BY <2>1 DEF RoundInv, On
<1>4. CASE StartWrite
  <2>1. /\ UNCHANGED <<rd, rg, rLow, rHigh>> /\ dec = "write" /\ wg' = 2 /\ dec' = "writeWait"
        /\ wtd' = "signal" /\ wLow' = "on"
    BY <1>4, Zenon DEF StartWrite, BeginWriting, readVars, readerVars
  <2> QED
    BY <2>1 DEF RoundInv, On
<1>5. CASE StartFinalWrite
  <2>1. /\ UNCHANGED <<rd, rg, rLow, rHigh, wLow>> /\ dec = "top" /\ wg' = wg + 1 /\ dec' = "final"
        /\ wtd' = "signal"
    BY <1>5, Zenon DEF StartFinalWrite, BeginWriting, readVars, readerVars
  <2> QED
    BY <2>1 DEF RoundInv, On
<1>6. CASE RoundOver
  <2>1. UNCHANGED <<wg, wtd, wLow, rd, rLow, rHigh, rg>> /\ wg = 0
    BY <1>6, Zenon DEF RoundOver, writeVars, readVars, readerVars
  <2> QED
    BY <2>1 DEF RoundInv, On
<1>7. CASE CheckStopWriting \/ WriteOne
  <2>1. UNCHANGED <<wg, wLow, rd, rLow, rHigh, dec, rg>> /\ wtd # "off" /\ wtd' # "off"
    BY <1>7, Zenon DEF CheckStopWriting, WriteOne, readVars, readerVars, dogVars
  <2> QED
    BY <2>1, Zenon DEF RoundInv, On
<1>8. CASE EndWriting
  <2>1. UNCHANGED <<wLow, rd, rLow, rHigh, dec, rg>> /\ wtd # "off" /\ wtd' = "off" /\ wg' = wg - 1
    BY <1>8, Zenon DEF EndWriting, readVars, readerVars, dogVars
  <2> QED
    BY <2>1 DEF RoundInv, On
<1>9. CASE OpenFile \/ ReadLine \/ RemoveFile \/ CheckStopReading \/ HandleLine \/ DeliverLine \/ PutLine
  <2>1. /\ UNCHANGED <<wg, wtd, wLow, rLow, rHigh, dec>> /\ (rd = "off" <=> rd' = "off")
        /\ (rg = "off" => rg' = "off")
    BY <1>9, Zenon DEF OpenFile, ReadLine, RemoveFile, CheckStopReading, HandleLine, DeliverLine, PutLine,
                writeVars, readVars, readerVars, dogVars
  <2> QED
    BY <2>1, Zenon DEF RoundInv, On
<1>10. CASE EndReading
  <2>1. UNCHANGED <<wtd, wLow, rLow, rHigh, dec, rg>> /\ rd # "off" /\ rd' = "off" /\ rg = "off" /\ wg' = wg - 1
    BY <1>10, Zenon DEF EndReading, writeVars, readerVars, dogVars
  <2> QED
    BY <2>1 DEF RoundInv, On
<1>11. CASE WriteWatchdogLowMemoryMark
  <2>1. UNCHANGED <<wtd, rd, rLow, rHigh, dec, rg>> /\ wLow = "on" /\ wLow' = "off" /\ wg' = wg - 1
    BY <1>11, Zenon DEF WriteWatchdogLowMemoryMark, writeVars, readVars, readerVars
  <2> QED
    BY <2>1 DEF RoundInv, On
<1>12. CASE ReadWatchdogLowMemoryMark
  <2>1. UNCHANGED <<wtd, rd, wLow, rHigh, dec, rg>> /\ rLow = "on" /\ rLow' = "off" /\ wg' = wg - 1
    BY <1>12, Zenon DEF ReadWatchdogLowMemoryMark, writeVars, readVars, readerVars
  <2> QED
    BY <2>1 DEF RoundInv, On
<1>13. CASE ReadWatchdogHighMemoryMark
  <2>1. UNCHANGED <<wtd, rd, wLow, rLow, dec, rg>> /\ rHigh = "on" /\ rHigh' = "off" /\ wg' = wg - 1
    BY <1>13, Zenon DEF ReadWatchdogHighMemoryMark, writeVars, readVars, readerVars
  <2> QED
    BY <2>1 DEF RoundInv, On
<1> QED
  BY <1>1, <1>2, <1>3, <1>4, <1>5, <1>6, <1>7, <1>8, <1>9, <1>10, <1>11, <1>12, <1>13, Cases, Zenon
  DEF Decides, Writes, Reads, Barks


(* Which steps may change which variables.                                 *)
LEMMA Frames ==
    ASSUME [Next]_vars
    PROVE  /\ UNCHANGED inVars \/ ReceiveIn \/ CloseInput \/ PutInput \/ CloseStops
           /\ UNCHANGED mem \/ PutInput \/ TakeNext \/ WriteOne \/ PutLine
           /\ UNCHANGED nxtVars \/ CheckNext \/ TakeNext \/ SendNext
           /\ UNCHANGED watVars \/ Glob \/ StatFiles \/ WatcherWakes \/ RemoveFile
           /\ \/ UNCHANGED disk \/ StartWrite \/ StartFinalWrite \/ EndWriting \/ RemoveFile
              \/ HandleLine \/ EndReading
           /\ UNCHANGED dec \/ Decides
           /\ \/ UNCHANGED dogs \/ StartRead \/ StartWrite \/ StartFinalWrite \/ EndWriting
              \/ EndReading
           /\ UNCHANGED writeVars \/ StartWrite \/ StartFinalWrite \/ Writes
           /\ \/ UNCHANGED readVars \/ StartRead \/ ReadLine \/ HandleLine \/ DeliverLine
              \/ PutLine \/ EndReading
           /\ \/ UNCHANGED readerVars \/ StartRead \/ OpenFile \/ ReadLine \/ RemoveFile
              \/ CheckStopReading
           /\ UNCHANGED dogVars \/ StartRead \/ StartWrite \/ StartFinalWrite \/ RoundOver \/ Barks
           /\ UNCHANGED flowVars \/ SendNext \/ HandleLine \/ DeliverLine
           /\ UNCHANGED endVars \/ StatFiles \/ CloseOut
<1>1. CASE Feeds
  BY <1>1, Zenon
  DEF Feeds, ReceiveIn, CloseInput, PutInput, CloseStops, CheckNext, TakeNext, SendNext, BeginWriting, inVars, nxtVars,
      watVars, writeVars, readVars, readerVars, dogVars, flowVars, endVars
<1>2. CASE Watches
  BY <1>2, Zenon
  DEF Watches, Glob, StatFiles, WatcherWakes, CloseOut, vars, BeginWriting, inVars, nxtVars,
      watVars, writeVars, readVars, readerVars, dogVars, flowVars, endVars
<1>3. CASE Decides
  BY <1>3, Zenon
  DEF Decides, Decide, StartRead, StartWrite, StartFinalWrite, RoundOver, BeginWriting, inVars, nxtVars,
      watVars, writeVars, readVars, readerVars, dogVars, flowVars, endVars
<1>4. CASE Writes
  BY <1>4, Zenon
  DEF Writes, CheckStopWriting, WriteOne, EndWriting, BeginWriting, inVars, nxtVars,
      watVars, writeVars, readVars, readerVars, dogVars, flowVars, endVars
<1>5. CASE Reads
  BY <1>5, Zenon
  DEF Reads, OpenFile, ReadLine, RemoveFile, CheckStopReading, HandleLine, DeliverLine, PutLine, EndReading, BeginWriting, inVars, nxtVars,
      watVars, writeVars, readVars, readerVars, dogVars, flowVars, endVars
<1>6. CASE Barks
  BY <1>6, Zenon
  DEF Barks, WriteWatchdogLowMemoryMark, ReadWatchdogLowMemoryMark, ReadWatchdogHighMemoryMark, BeginWriting, inVars, nxtVars,
      watVars, writeVars, readVars, readerVars, dogVars, flowVars, endVars
<1> QED
  BY <1>1, <1>2, <1>3, <1>4, <1>5, <1>6, Cases, Zenon

-----------------------------------------------------------------------------
(* A new uuid is the name of no file.                                      *)
LEMMA NewNameIsFree ==
    ASSUME FreeNames # {}
    PROVE  NewName \in Files /\ NewName \notin Exists /\ NewName # NoFile /\ NewName # DeadName
<1>1. FreeNames \in SUBSET Nat /\ FreeNames = Files \ Exists
  BY BoundsAssumption, Zenon DEF FreeNames
<1>3. NewName \in FreeNames
  BY <1>1, Zenon DEF NewName
<1> QED
  BY <1>1, <1>3 DEF NoFile, DeadName

(* Creating, removing and writing files.                                   *)
LEMMA FileOps ==
    ASSUME disk \in [Exists -> Seq(Line)]
    PROVE  /\ \A name : /\ DOMAIN Create(name) = Exists \cup {name} /\ Create(name)[name] = << >>
                        /\ \A g \in Exists \ {name} : Create(name)[g] = disk[g]
                        /\ Create(name) \in [Exists \cup {name} -> Seq(Line)]
           /\ \A name : /\ DOMAIN Remove(name) = Exists \ {name}
                        /\ \A g \in Exists \ {name} : Remove(name)[g] = disk[g]
                        /\ Remove(name) \in [Exists \ {name} -> Seq(Line)]
  BY DEF Create, Remove, Exists

(* A sequence with one more at its end.                                    *)
LEMMA AppendIs ==
    ASSUME NEW S, NEW s \in Seq(S), NEW x \in S
    PROVE  /\ Append(s, x) \in Seq(S) /\ Len(Append(s, x)) = Len(s) + 1
           /\ DOMAIN Append(s, x) = DOMAIN s \cup {Len(s) + 1} /\ Len(s) + 1 \notin DOMAIN s
           /\ \A i \in DOMAIN s : Append(s, x)[i] = s[i]
           /\ Append(s, x)[Len(s) + 1] = x
  OBVIOUS

(* A sequence without its first element.                                   *)
LEMMA TailIs ==
    ASSUME NEW S, NEW s \in Seq(S), s # << >>
    PROVE  /\ Tail(s) \in Seq(S) /\ Len(Tail(s)) = Len(s) - 1
           /\ Head(s) \in S /\ 1 \in DOMAIN s /\ Head(s) = s[1]
           /\ \A i \in DOMAIN Tail(s) : i + 1 \in DOMAIN s /\ Tail(s)[i] = s[i + 1]
           /\ \A i \in DOMAIN s : i # 1 => i - 1 \in DOMAIN Tail(s) /\ Tail(s)[i - 1] = s[i]
  OBVIOUS

(* Types.                                                                  *)
LEMMA NextTypes ==
    ASSUME IInv, [Next]_vars
    PROVE  TypeOK'
<1>0. TypeOK /\ RoundInv /\ HandsInv /\ StopInv /\ FileInv /\ RoundInv'
  BY NextRound, Zenon DEF IInv
<1>1. /\ (fed \in 0..MaxFlows /\ inClosed \in {"no", "yes"} /\ inp \in {"recv", "put", "exited"})'
      /\ (inpMsg \in Flows \cup {NoFlow} /\ stop \in 0..3)'
  <2>1. CASE UNCHANGED inVars
    BY <1>0, <2>1, Zenon DEF TypeOK, inVars
  <2>2. CASE ReceiveIn
    <3>1. Leftover + fed + 1 \in Flows /\ fed + 1 \in 0..MaxFlows
      BY <1>0, <2>2, BoundsAssumption DEF TypeOK, ReceiveIn, Flows
    <3> QED
      BY <1>0, <2>2, <3>1, Zenon DEF TypeOK, ReceiveIn
  <2>3. CASE CloseInput \/ PutInput
    BY <1>0, <2>3, Zenon DEF TypeOK, CloseInput, PutInput
  <2>4. CASE CloseStops
    <3>1. stop + 1 \in 0..3
      BY <1>0, <2>4 DEF TypeOK, StopInv, CloseStops
    <3> QED
      BY <1>0, <2>4, <3>1, Zenon DEF TypeOK, CloseStops
  <2> QED
    BY <2>1, <2>2, <2>3, <2>4, Frames, Zenon
<1>2. mem' \in Seq(Flows) /\ Len(mem') <= Capacity
  <2>0. mem \in Seq(Flows) /\ Len(mem) <= Capacity /\ Len(mem) \in Nat /\ Capacity \in Nat
    BY <1>0, MarksAssumption DEF TypeOK
  <2>1. CASE PutInput
    <3>1. inpMsg \in Flows /\ Len(mem) < Capacity /\ mem' = Append(mem, inpMsg)
      BY <1>0, <2>1, Zenon DEF TypeOK, HandsInv, PutInput
    <3> QED
      BY <2>0, <3>1, AppendIs
  <2>2. CASE TakeNext \/ WriteOne
    <3>1. mem' = mem \/ (mem # << >> /\ mem' = Tail(mem))
      BY <2>2, Zenon DEF TakeNext, WriteOne
    <3> QED
      BY <2>0, <3>1, TailIs
  <2>3. CASE PutLine
    <3>1. rdLine # NoLine
      BY <1>0, <2>3, Zenon DEF HandsInv, PutLine
    <3>2. rdLine.f \in Flows
      BY <1>0, <3>1, Zenon DEF TypeOK, Line
    <3> QED
      BY <2>0, <2>3, <3>2, AppendIs DEF PutLine
  <2> QED
    BY <2>0, <2>1, <2>2, <2>3, Frames, Zenon
<1>3. nxt' \in {"check", "take", "send", "exited"} /\ nxtMsg' \in Flows \cup {NoFlow}
  <2>1. CASE UNCHANGED nxtVars \/ CheckNext \/ SendNext
    BY <1>0, <2>1, Zenon DEF TypeOK, nxtVars, CheckNext, SendNext
  <2>2. CASE TakeNext
    BY <1>0, <2>2, TailIs, Zenon DEF TypeOK, TakeNext
  <2> QED
    BY <2>1, <2>2, Frames, Zenon
<1>4. wat' \in {"glob", "stat", "sleep", "exited"} /\ cache' \subseteq Files \cup {DeadName}
  BY <1>0, Frames, Zenon DEF TypeOK, watVars, Glob, StatFiles, WatcherWakes, RemoveFile
<1>5. Exists' \subseteq Files /\ disk' \in [Exists' -> Seq(Line)]
  <2>0. Exists \subseteq Files /\ disk \in [Exists -> Seq(Line)] /\ wBuf \in Seq(Line) /\ restBuf \in Seq(Line)
    BY <1>0, Zenon DEF TypeOK
  <2>1. CASE UNCHANGED disk
    BY <2>0, <2>1, Zenon DEF Exists
  <2>2. CASE StartWrite \/ StartFinalWrite \/ HandleLine
    <3>1. disk' = disk \/ (FreeNames # {} /\ disk' = Create(NewName))
      BY <2>2, Zenon DEF StartWrite, StartFinalWrite, BeginWriting, HandleLine
    <3>2. CASE FreeNames # {} /\ disk' = Create(NewName)
      <4>1. NewName \in Files
        BY <3>2, NewNameIsFree, Zenon
      <4>2. disk' \in [Exists \cup {NewName} -> Seq(Line)]
        BY <2>0, <3>2, FileOps, Zenon
      <4>3. Exists' = Exists \cup {NewName}
        BY <4>2, Zenon DEF Exists
      <4> QED
        BY <2>0, <4>1, <4>2, <4>3, Zenon
    <3> QED
      BY <2>1, <3>1, <3>2, Zenon
  <2>3. CASE RemoveFile
    BY <2>0, <2>3, FileOps, Zenon DEF RemoveFile, Exists
  <2>4. CASE EndWriting
    BY <2>0, <2>4, Zenon DEF EndWriting, Exists
  <2>5. CASE EndReading
    BY <2>0, <2>5, Zenon DEF EndReading, Exists
  <2> QED
    BY <2>1, <2>2, <2>3, <2>4, <2>5, Frames, Zenon
<1>6. dec' \in {"top", "read", "readWait", "write", "writeWait", "final", "exited"}
  BY <1>0, Frames, Zenon DEF TypeOK, Decides, Decide, StartRead, StartWrite, StartFinalWrite, RoundOver
<1>7. wg' \in 0..3 /\ dogs' \in {"open", "closed"}
  <2>1. wg' \in 0..3
    BY <1>0 DEF RoundInv, On
  <2>2. dogs' \in {"open", "closed"}
    BY <1>0, Frames, Zenon DEF TypeOK, StartRead, StartWrite, StartFinalWrite, BeginWriting, EndWriting,
                        EndReading
  <2> QED
    BY <2>1, <2>2, Zenon
<1>8. /\ wtd' \in {"off", "signal", "batch", "return"} /\ wFile' \in Files \cup {NoFile}
      /\ wBuf' \in Seq(Line) /\ wI' \in 0..BatchSize
  <2>0. wBuf \in Seq(Line) /\ wI \in 0..BatchSize /\ << >> \in Seq(Line) /\ 0 \in 0..BatchSize
    BY <1>0, BatchAssumption DEF TypeOK
  <2>1. CASE UNCHANGED writeVars
    BY <1>0, <2>1, Zenon DEF TypeOK, writeVars
  <2>2. CASE StartWrite \/ StartFinalWrite
    BY <2>0, <2>2, NewNameIsFree, Zenon DEF StartWrite, StartFinalWrite, BeginWriting
  <2>3. CASE CheckStopWriting \/ EndWriting
    BY <1>0, <2>0, <2>3, Zenon DEF TypeOK, CheckStopWriting, EndWriting
  <2>4. CASE WriteOne
    <3>1. wFile' \in Files \cup {NoFile} /\ wtd' \in {"off", "signal", "batch", "return"}
      BY <1>0, <2>4, Zenon DEF TypeOK, WriteOne
    <3>2. CASE UNCHANGED <<mem, wBuf, wI>>
      BY <2>0, <3>1, <3>2, Zenon
    <3>3. CASE mem # << >> /\ wBuf' = Append(wBuf, [f |-> Head(mem), ok |-> "ok"]) /\ wI' = wI + 1
      <4>1. Head(mem) \in Flows
        BY <1>0, <3>3, TailIs, Zenon DEF TypeOK
      <4>2. [f |-> Head(mem), ok |-> "ok"] \in Line
        BY <4>1, Zenon DEF Line
      <4>3. wI < BatchSize
        BY <1>0, <2>4, Zenon DEF HandsInv, WriteOne
      <4>4. wI' \in 0..BatchSize
        BY <2>0, <3>3, <4>3, BatchAssumption
      <4>5. wBuf' \in Seq(Line)
        BY <2>0, <3>3, <4>2, AppendIs, Zenon
      <4> QED
        BY <3>1, <4>4, <4>5, Zenon
    <3> QED
      BY <2>4, <3>2, <3>3, Zenon DEF WriteOne
  <2> QED
    BY <2>1, <2>2, <2>3, <2>4, Frames, Zenon DEF Writes
<1>9. /\ rd' \in {"off", "recv", "handle", "deliver", "put", "rest", "return"}
      /\ rdLine' \in Line \cup {NoLine} /\ rest' \in Files \cup {NoFile} /\ restBuf' \in Seq(Line)
  <2>0. /\ rd \in {"off", "recv", "handle", "deliver", "put", "rest", "return"}
        /\ rdLine \in Line \cup {NoLine} /\ rest \in Files \cup {NoFile} /\ restBuf \in Seq(Line)
        /\ rgLeft \in Seq(Line) /\ << >> \in Seq(Line)
    BY <1>0 DEF TypeOK
  <2>1. CASE UNCHANGED readVars \/ StartRead \/ DeliverLine \/ PutLine \/ EndReading
    BY <2>0, <2>1, Zenon DEF readVars, StartRead, DeliverLine, PutLine, EndReading
  <2>2. CASE ReadLine
    <3>1. Head(rgLeft) \in Line
      BY <2>0, <2>2, TailIs, Zenon DEF ReadLine
    <3>2. [f |-> Head(rgLeft).f, ok |-> "bad"] \in Line
      BY <3>1, Zenon DEF Line
    <3>3. Append(restBuf, [f |-> Head(rgLeft).f, ok |-> "bad"]) \in Seq(Line)
      BY <2>0, <3>2, AppendIs, Zenon
    <3> QED
      BY <2>0, <2>2, <3>1, <3>3, Zenon DEF ReadLine
  <2>3. CASE HandleLine
    <3>1. HandleLine => FreeNames # {} \/ rest' = rest
      BY Zenon DEF HandleLine
    <3> QED
      BY <2>0, <2>3, NewNameIsFree, Zenon DEF HandleLine
  <2> QED
    BY <2>1, <2>2, <2>3, Frames, Zenon
<1>10. /\ rg' \in {"off", "open", "line", "remove", "check"}
       /\ todo' \subseteq Files \cup {DeadName} /\ rgFile' \in Files \cup {NoFile} /\ rgLeft' \in Seq(Line)
  <2>0. /\ rg \in {"off", "open", "line", "remove", "check"}
        /\ todo \subseteq Files \cup {DeadName} /\ rgFile \in Files \cup {NoFile} /\ rgLeft \in Seq(Line)
        /\ cache \subseteq Files \cup {DeadName} /\ Exists \subseteq Files /\ disk \in [Exists -> Seq(Line)]
    BY <1>0, Zenon DEF TypeOK
  <2>1. CASE UNCHANGED readerVars \/ StartRead \/ RemoveFile \/ CheckStopReading
    BY <2>0, <2>1, Zenon DEF readerVars, StartRead, RemoveFile, CheckStopReading
  <2>2. CASE OpenFile
    BY <2>0, <2>2, Zenon DEF OpenFile
  <2>3. CASE ReadLine
    BY <2>0, <2>3, TailIs, Zenon DEF ReadLine
  <2> QED
    BY <2>1, <2>2, <2>3, Frames, Zenon
<1>11. {wLow', rLow', rHigh'} \subseteq {"off", "on"} /\ {stopW', stopR', emerg'} \subseteq {"open", "closed"}
  BY <1>0, Frames, Zenon DEF TypeOK, dogVars, StartRead, StartWrite, StartFinalWrite, BeginWriting, RoundOver,
       Barks, WriteWatchdogLowMemoryMark, ReadWatchdogLowMemoryMark, ReadWatchdogHighMemoryMark
<1>12. delivered' \subseteq Flows /\ gone' \subseteq Flows
  <2>0. delivered \subseteq Flows /\ gone \subseteq Flows
    BY <1>0, Zenon DEF TypeOK
  <2>1. CASE SendNext
    BY <1>0, <2>0, <2>1, Zenon DEF TypeOK, HandsInv, SendNext, flowVars
  <2>2. CASE HandleLine \/ DeliverLine
    <3>1. rdLine # NoLine
      BY <1>0, <2>2, Zenon DEF HandsInv, HandleLine, DeliverLine
    <3>2. rdLine.f \in Flows
      BY <1>0, <3>1, Zenon DEF TypeOK, Line
    <3> QED
      BY <2>0, <2>2, <3>2, Zenon DEF HandleLine, DeliverLine
  <2> QED
    BY <2>0, <2>1, <2>2, Frames, Zenon DEF flowVars
<1>13. outClosed' \in {"no", "yes"} /\ crashed' \in {"no", "yes"}
  BY <1>0, Frames, Zenon DEF TypeOK, endVars, StatFiles, CloseOut
<1> QED
  BY <1>1, <1>2, <1>3, <1>4, <1>5, <1>6, <1>7, <1>8, <1>9, <1>10, <1>11, <1>12, <1>13, Zenon DEF TypeOK

(* What the goroutines hold.                                               *)
LEMMA NextHands ==
    ASSUME IInv, [Next]_vars
    PROVE  HandsInv'
<1>0. TypeOK /\ HandsInv
  BY Zenon DEF IInv
<1>1. (inp = "put" <=> inpMsg # NoFlow)'
  <2>1. CASE UNCHANGED inVars \/ CloseInput \/ PutInput \/ CloseStops
    BY <1>0, <2>1, Zenon DEF HandsInv, inVars, CloseInput, PutInput, CloseStops
  <2>2. CASE ReceiveIn
    <3>1. Leftover + fed + 1 # 0
      BY <1>0, BoundsAssumption DEF TypeOK
    <3> QED
      BY <2>2, <3>1, Zenon DEF ReceiveIn, NoFlow
  <2> QED
    BY <2>1, <2>2, Frames, Zenon
<1>2. (nxt = "send" <=> nxtMsg # NoFlow)'
  <2>1. CASE UNCHANGED nxtVars \/ CheckNext \/ SendNext
    BY <1>0, <2>1, Zenon DEF HandsInv, nxtVars, CheckNext, SendNext
  <2>2. CASE TakeNext
    <3>1. Head(mem) \in Flows
      BY <1>0, <2>2, TailIs, Zenon DEF TypeOK, TakeNext
    <3> QED
      BY <2>2, <3>1, BoundsAssumption DEF TakeNext, NoFlow, Flows
  <2> QED
    BY <2>1, <2>2, Frames, Zenon
<1>3. (rd \in {"handle", "deliver", "put"} <=> rdLine # NoLine)'
  <2>1. CASE UNCHANGED readVars \/ StartRead \/ HandleLine \/ DeliverLine \/ PutLine \/ EndReading
    <3>1. StartRead => rd = "off"
      BY Zenon DEF IInv, RoundInv, StartRead
    <3> QED
      BY <1>0, <2>1, <3>1, Zenon DEF HandsInv, readVars, StartRead, HandleLine, DeliverLine, PutLine, EndReading
  <2>2. CASE ReadLine
    <3>1. Head(rgLeft) \in Line
      BY <1>0, <2>2, TailIs, Zenon DEF TypeOK, ReadLine
    <3>2. Head(rgLeft).f # NoFlow
      BY <3>1, BoundsAssumption DEF Line, Flows, NoFlow
    <3>3. Head(rgLeft) # NoLine
      BY <3>2 DEF NoLine
    <3> QED
      BY <1>0, <2>2, <3>3, Zenon DEF HandsInv, ReadLine
  <2> QED
    BY <2>1, <2>2, Frames, Zenon
<1>4. (wtd = "batch" => wI < BatchSize)'
  <2>1. CASE UNCHANGED writeVars \/ StartWrite \/ StartFinalWrite \/ CheckStopWriting \/ EndWriting
    BY <1>0, <2>1, BatchAssumption
    DEF HandsInv, writeVars, StartWrite, StartFinalWrite, BeginWriting, CheckStopWriting, EndWriting
  <2>2. CASE WriteOne
    <3>1. wI \in 0..BatchSize /\ wI < BatchSize /\ BatchSize \in Nat
      BY <1>0, <2>2, BatchAssumption, Zenon DEF TypeOK, HandsInv, WriteOne
    <3>2. wtd' = "batch" => wI' = wI + 1 /\ wI + 1 # BatchSize
      BY <2>2, Zenon DEF WriteOne
    <3> QED
      BY <3>1, <3>2
  <2> QED
    BY <2>1, <2>2, Frames, Zenon DEF Writes
<1> QED
  BY <1>1, <1>2, <1>3, <1>4, Zenon DEF HandsInv

(* The end of the decider.                                                 *)
LEMMA NextStop ==
    ASSUME IInv, [Next]_vars
    PROVE  StopInv'
<1>0. TypeOK /\ RoundInv /\ StopInv /\ FileInv
  BY Zenon DEF IInv
<1>1. (inp = "exited" <=> stop = 3)'
  BY <1>0, Frames DEF TypeOK, StopInv, inVars, ReceiveIn, CloseInput, PutInput, CloseStops
<1>2. inp = "exited" => inp' = "exited"
  BY Frames, Zenon DEF inVars, ReceiveIn, CloseInput, PutInput, CloseStops
<1>3. dec' \in {"final", "exited"} => inp' = "exited" /\ wLow' = "off"
  <2>1. dec' \in {"final", "exited"} => dec \in {"final", "exited"} \/ StartFinalWrite
    BY Frames, Zenon DEF Decides, Decide, StartRead, StartWrite, RoundOver
  <2>2. dec \in {"final", "exited"} => wLow' = "off"
    BY <1>0, Frames, Zenon DEF StopInv, dogVars, Barks, StartRead, StartWrite, StartFinalWrite, RoundOver,
        WriteWatchdogLowMemoryMark, ReadWatchdogLowMemoryMark, ReadWatchdogHighMemoryMark
  <2>3. StartFinalWrite => stop >= 3 /\ wLow' = wLow /\ wLow # "on"
    BY <1>0, Zenon DEF StartFinalWrite, Stopped, RoundInv
  <2>4. StartFinalWrite => inp = "exited" /\ wLow' = "off"
    BY <1>0, <2>3 DEF TypeOK, StopInv
  <2> QED
    BY <1>0, <1>2, <2>1, <2>2, <2>4, Zenon DEF StopInv
<1>4. dec \in {"final", "exited"} /\ mem = << >> => mem' = << >>
  <2> SUFFICES ASSUME dec \in {"final", "exited"}, mem = << >> PROVE mem' = << >>
    BY Zenon
  <2>1. ~PutInput /\ ~PutLine
    BY <1>0, Zenon DEF StopInv, RoundInv, PutInput, PutLine
  <2>2. TakeNext \/ WriteOne => mem' = mem
    BY Zenon DEF TakeNext, WriteOne
  <2> QED
    BY <2>1, <2>2, Frames, Zenon
<1>5. dec' = "final" => stopW' = "open" /\ (wtd' \in {"return", "off"} => mem' = << >>)
  <2>1. CASE StartFinalWrite
    BY <2>1, Zenon DEF StartFinalWrite, BeginWriting
  <2>2. CASE ~StartFinalWrite /\ dec' = "final"
    <3>1. dec = "final" /\ stopW = "open" /\ (wtd \in {"return", "off"} => mem = << >>) /\ wLow = "off"
      BY <1>0, <2>2, Frames, Zenon DEF StopInv, Decides, Decide, StartRead, StartWrite, RoundOver
    <3>2. stopW' = "open"
      BY <2>2, <3>1, Frames, Zenon DEF dogVars, Barks, StartRead, StartWrite, RoundOver,
        WriteWatchdogLowMemoryMark, ReadWatchdogLowMemoryMark, ReadWatchdogHighMemoryMark
    <3>3. wtd' \in {"return", "off"} => wtd \in {"return", "off"} \/ mem = << >>
      BY <2>2, <3>1, Frames, Zenon DEF writeVars, Writes, StartWrite, CheckStopWriting, WriteOne, EndWriting
    <3> QED
      BY <1>4, <3>1, <3>2, <3>3, Zenon
  <2> QED
    BY <2>1, <2>2, Zenon
<1>6. dec' = "exited" => mem' = << >> /\ wtd' = "off"
  <2>1. CASE RoundOver /\ dec' = "exited"
    <3>1. dec = "final" /\ wg = 0 /\ wtd' = wtd /\ mem' = mem
      BY <2>1, Zenon DEF RoundOver, writeVars
    <3>2. wtd = "off"
      BY <1>0, <3>1 DEF RoundInv, On
    <3> QED
      BY <1>0, <3>1, <3>2, Zenon DEF StopInv
  <2>2. CASE ~RoundOver /\ dec' = "exited"
    <3>1. dec = "exited"
      BY <2>2, Frames, Zenon DEF Decides, Decide, StartRead, StartWrite, StartFinalWrite
    <3>2. wtd = "off" /\ mem = << >>
      BY <1>0, <3>1, Zenon DEF StopInv
    <3>3. wtd' = "off"
      BY <3>1, <3>2, Frames, Zenon
      DEF writeVars, StartWrite, StartFinalWrite, Writes, CheckStopWriting, WriteOne, EndWriting
    <3> QED
      BY <1>4, <3>1, <3>2, <3>3, Zenon
  <2> QED
    BY <2>1, <2>2, Zenon
<1> QED
  BY <1>1, <1>3, <1>5, <1>6, Zenon DEF StopInv

(* Who uses which file.                                                    *)
LEMMA NextFile ==
    ASSUME IInv, [Next]_vars
    PROVE  FileInv'
<1>0. TypeOK /\ RoundInv /\ HandsInv /\ FileInv
  BY Zenon DEF IInv
<1>a. /\ disk \in [Exists -> Seq(Line)] /\ Exists \subseteq Files /\ NoFile \notin Files
      /\ DeadName \notin Files /\ NoFile # DeadName
  BY <1>0, BoundsAssumption DEF TypeOK, NoFile, DeadName
<1>b. /\ wtd = "off" => wFile = NoFile /\ wBuf = << >>
      /\ wtd # "off" => wFile \in Exists /\ disk[wFile] = << >>
      /\ rd # "rest" => rest = NoFile /\ restBuf = << >>
      /\ rd = "rest" => rest \in Exists /\ disk[rest] = << >>
      /\ rg = "line" <=> rgFile # NoFile
      /\ rgFile # NoFile => rgFile \in Exists /\ rgFile # rest /\ rgFile \notin todo
      /\ cache \subseteq Exists \cup {DeadName}
      /\ todo \subseteq Exists \cup {DeadName} /\ rest \notin todo
  BY <1>0, Zenon DEF FileInv
<1>c. disk' = disk => Exists' = Exists
  BY Zenon DEF Exists
<1>1. CASE Feeds \/ Watches \/ Decide \/ RoundOver \/ Barks
  <2>1. UNCHANGED <<writeVars, readVars, readerVars, disk>>
    BY <1>1, Zenon DEF Feeds, Watches, Barks, ReceiveIn, CloseInput, PutInput, CloseStops, CheckNext,
         TakeNext, SendNext, Glob, StatFiles, WatcherWakes, CloseOut, Decide, RoundOver, vars,
         WriteWatchdogLowMemoryMark, ReadWatchdogLowMemoryMark, ReadWatchdogHighMemoryMark
  <2>2. cache' = cache \/ cache' = Exists
    <3>1. ~RemoveFile
      BY <2>1, Zenon DEF RemoveFile, readerVars
    <3> QED
      BY <3>1, Frames, Zenon DEF watVars, Glob, StatFiles, WatcherWakes
  <2>3. Exists' = Exists
    BY <1>c, <2>1, Zenon
  <2>4. cache' \subseteq Exists \cup {DeadName}
    BY <1>b, <2>2, Zenon
  <2> QED
    BY <1>b, <2>1, <2>3, <2>4, Zenon DEF FileInv, writeVars, readVars, readerVars
<1>2. CASE StartRead
  <2>1. /\ UNCHANGED <<writeVars, rest, restBuf, rgFile, disk, cache>> /\ dec = "read"
        /\ rd' = "recv" /\ rg' = "open" /\ todo' = cache
    BY <1>2, Zenon DEF StartRead, watVars
  <2>2. rd = "off" /\ rg = "off"
    BY <1>0, <2>1, Zenon DEF RoundInv
  <2>3. NoFile \notin cache
    BY <1>a, <1>b, Zenon
  <2> QED
    BY <1>b, <1>c, <2>1, <2>2, <2>3, Zenon DEF FileInv, writeVars
<1>3. CASE StartWrite \/ StartFinalWrite
  <2>1. /\ UNCHANGED <<readVars, readerVars, cache>> /\ dec \in {"write", "top"} /\ FreeNames # {}
        /\ disk' = Create(NewName) /\ wFile' = NewName /\ wtd' = "signal"
    BY <1>3, Zenon DEF StartWrite, StartFinalWrite, BeginWriting, watVars
  <2>2. rd = "off" /\ rg = "off"
    BY <1>0, <2>1, Zenon DEF RoundInv
  <2>3. Exists' = Exists \cup {NewName} /\ disk'[NewName] = << >>
    <3>1. DOMAIN Create(NewName) = Exists \cup {NewName} /\ Create(NewName)[NewName] = << >>
      BY <1>a, FileOps, Zenon
    <3> QED
      BY <2>1, <3>1, Zenon DEF Exists
  <2> QED
    BY <1>b, <2>1, <2>2, <2>3, Zenon DEF FileInv, readVars, readerVars
<1>4. CASE CheckStopWriting \/ WriteOne
  <2>1. UNCHANGED <<readVars, readerVars, cache, disk, wFile>> /\ wtd # "off" /\ wtd' # "off"
    BY <1>4, Zenon DEF CheckStopWriting, WriteOne, watVars
  <2> QED
    BY <1>b, <1>c, <2>1, Zenon DEF FileInv, readVars, readerVars
<1>5. CASE EndWriting
  <2>1. /\ UNCHANGED <<readVars, readerVars, cache>> /\ wtd # "off" /\ wtd' = "off"
        /\ wFile' = NoFile /\ wBuf' = << >> /\ disk' = [disk EXCEPT ![wFile] = wBuf]
    BY <1>5, Zenon DEF EndWriting, watVars
  <2>2. rd = "off"
    BY <1>0, <2>1, Zenon DEF RoundInv
  <2>3. Exists' = Exists
    BY <1>a, <2>1, Zenon DEF Exists
  <2> QED
    BY <1>b, <2>1, <2>2, <2>3, Zenon DEF FileInv, readVars, readerVars
<1>6. CASE OpenFile
  <2>1. UNCHANGED <<writeVars, readVars, cache, disk>> /\ rg = "open"
    BY <1>6, Zenon DEF OpenFile, watVars
  <2>2. \/ /\ todo' \subseteq todo /\ rgFile' = rgFile /\ rg' # "line"
        \/ /\ todo' \subseteq todo /\ rg' = "line" /\ rgFile' \in todo /\ rgFile' \notin todo'
           /\ rgFile' \in Exists
    BY <1>6, <2>1, Zenon DEF OpenFile
  <2>3. Exists' = Exists /\ rgFile = NoFile
    BY <1>b, <1>c, <2>1, Zenon
  <2>4. /\ (rg = "line" <=> rgFile # NoFile)'
        /\ (rgFile # NoFile => rgFile \in Exists /\ rgFile # rest /\ rgFile \notin todo)'
        /\ (todo \subseteq Exists \cup {DeadName} /\ rest \notin todo)'
    BY <1>a, <1>b, <2>1, <2>2, <2>3, Zenon DEF readVars
  <2> QED
    BY <1>b, <2>1, <2>3, <2>4, Zenon DEF FileInv, writeVars, readVars
<1>7. CASE ReadLine
  <2>1. /\ UNCHANGED <<writeVars, rest, rg, todo, rgFile, cache, disk>>
        /\ \/ rd = "recv" /\ rd' = "handle" /\ restBuf' = restBuf
           \/ rd = "rest" /\ rd' = "rest"
    BY <1>7, Zenon DEF ReadLine, watVars
  <2> QED
    BY <1>b, <1>c, <2>1, Zenon DEF FileInv, writeVars
<1>8. CASE RemoveFile
  <2>1. /\ UNCHANGED <<writeVars, readVars, todo>> /\ rg = "line" /\ rg' = "check" /\ rgFile' = NoFile
        /\ disk' = Remove(rgFile)
        /\ cache' = IF rgFile \in cache THEN (cache \ {rgFile}) \cup {DeadName} ELSE cache
    BY <1>8, Zenon DEF RemoveFile
  <2>2. Exists' = Exists \ {rgFile} /\ \A g \in Exists' : disk'[g] = disk[g]
    <3>1. /\ DOMAIN Remove(rgFile) = Exists \ {rgFile}
          /\ \A g \in Exists \ {rgFile} : Remove(rgFile)[g] = disk[g]
      BY <1>a, FileOps, Zenon
    <3> QED
      BY <2>1, <3>1, Zenon DEF Exists
  <2>3. wtd = "off"
    BY <1>0, <2>1, Zenon DEF RoundInv
  <2>4. rgFile # NoFile
    BY <1>b, <2>1, Zenon
  <2>5. cache' \subseteq Exists' \cup {DeadName} /\ todo \subseteq Exists' \cup {DeadName}
    BY <1>b, <2>1, <2>2, <2>4, Zenon
  <2>6. rd = "rest" => rest \in Exists' /\ disk'[rest] = << >>
    BY <1>b, <2>2, <2>4, Zenon
  <2> QED
    BY <1>b, <2>1, <2>3, <2>5, <2>6, Zenon DEF FileInv, writeVars, readVars
<1>9. CASE CheckStopReading
  <2>1. /\ UNCHANGED <<writeVars, readVars, cache, disk, rgFile>> /\ rg = "check" /\ rg' # "line"
        /\ todo' \subseteq todo
    BY <1>9, Zenon DEF CheckStopReading, watVars
  <2> QED
    BY <1>b, <1>c, <2>1, Zenon DEF FileInv, writeVars, readVars
<1>10. CASE HandleLine
  <2>1. UNCHANGED <<writeVars, readerVars, cache, restBuf>> /\ rd = "handle"
    BY <1>10, Zenon DEF HandleLine, watVars
  <2>2. CASE UNCHANGED <<rest, disk>> /\ rd' # "rest"
    BY <1>b, <1>c, <2>1, <2>2, Zenon DEF FileInv, writeVars, readerVars
  <2>3. CASE FreeNames # {} /\ rest' = NewName /\ disk' = Create(NewName) /\ rd' = "rest"
    <3>1. /\ NewName \notin Exists /\ NewName # NoFile /\ NewName # DeadName
      BY <2>3, NewNameIsFree, Zenon
    <3>2. Exists' = Exists \cup {NewName} /\ disk'[NewName] = << >>
      <4>1. DOMAIN Create(NewName) = Exists \cup {NewName} /\ Create(NewName)[NewName] = << >>
        BY <1>a, FileOps, Zenon
      <4> QED
        BY <2>3, <4>1, Zenon DEF Exists
    <3>3. wtd = "off"
      BY <1>0, <2>1, Zenon DEF RoundInv
    <3>4. NewName \notin todo /\ (rgFile # NoFile => rgFile # NewName)
      BY <1>b, <3>1, Zenon
    <3> QED
      BY <1>b, <2>1, <2>3, <3>2, <3>3, <3>4, Zenon DEF FileInv, writeVars, readerVars
  <2> QED
    BY <1>10, <2>2, <2>3, Zenon DEF HandleLine
<1>11. CASE DeliverLine \/ PutLine
  <2>1. UNCHANGED <<writeVars, readerVars, cache, disk, rest, restBuf>> /\ rd # "rest" /\ rd' # "rest"
    BY <1>11, Zenon DEF DeliverLine, PutLine, watVars
  <2> QED
    BY <1>b, <1>c, <2>1, Zenon DEF FileInv, writeVars, readerVars
<1>12. CASE EndReading
  <2>1. /\ UNCHANGED <<writeVars, readerVars, cache>> /\ rd' = "off" /\ rest' = NoFile /\ restBuf' = << >>
        /\ rd # "off" /\ disk' = IF rd = "rest" THEN [disk EXCEPT ![rest] = restBuf] ELSE disk
    BY <1>12, Zenon DEF EndReading, watVars
  <2>2. Exists' = Exists
    BY <1>a, <2>1, Zenon DEF Exists
  <2>3. wtd = "off"
    BY <1>0, <2>1, Zenon DEF RoundInv
  <2>4. NoFile \notin todo
    BY <1>a, <1>b, Zenon
  <2> QED
    BY <1>b, <2>1, <2>2, <2>3, <2>4, Zenon DEF FileInv, writeVars, readerVars
<1> QED
  BY <1>1, <1>2, <1>3, <1>4, <1>5, <1>6, <1>7, <1>8, <1>9, <1>10, <1>11, <1>12, Cases, Zenon
  DEF Decides, Writes, Reads

-----------------------------------------------------------------------------
(* The places differ from each other.                                      *)
LEMMA PlacesAre ==
    /\ \A s \in Spots : At(s) \in Places
    /\ \A name \in Files : File(name) \in Places
    /\ \A s, t \in Spots : At(s) = At(t) => s = t
    /\ \A s \in Spots : \A name \in Files : At(s) # File(name)
    /\ \A m, n \in Files : File(m) = File(n) => m = n
    /\ \A p \in Places : (\E s \in Spots : p = At(s)) \/ (\E name \in Files : p = File(name))
  BY Zenon DEF At, File, Places, Spots

(* What is where.                                                          *)
HeldFacts ==
    /\ Held[At("in")] = {inpMsg} \ {NoFlow} /\ Held[At("next")] = {nxtMsg} \ {NoFlow}
    /\ Held[At("line")] = {rdLine.f} \ {NoFlow} /\ Held[At("mem")] = Values(mem)
    /\ Held[At("write")] = FlowsOf(wBuf) /\ Held[At("rest")] = FlowsOf(restBuf)
    /\ Held[At("delivered")] = delivered /\ Held[At("gone")] = gone
    /\ \A name \in Files : Held[File(name)] = IF name \in Exists THEN OnDisk(name) ELSE {}

(* Held is what it is meant to be.                                         *)
LEMMA HeldIs == HeldFacts
<1>1. \A s \in Spots : At(s) \in Places /\ At(s)[1] = s
  BY PlacesAre, Zenon DEF At
<1>2. \A name \in Files : File(name) \in Places /\ File(name)[1] = "disk" /\ File(name)[2] = name
  BY PlacesAre, Zenon DEF File
<1>3. "in" \in Spots /\ "next" \in Spots /\ "line" \in Spots /\ "mem" \in Spots
      /\ "write" \in Spots /\ "rest" \in Spots /\ "delivered" \in Spots /\ "gone" \in Spots
  BY Zenon DEF Spots
<1> QED
  BY <1>1, <1>2, <1>3, Zenon DEF Held, HeldFacts

(* So it is after a step.                                                  *)
LEMMA HeldIsNext == HeldFacts'
  BY HeldIs, PTL

(* Of the file being read only the lines that are left count.              *)
LEMMA HeldInFiles ==
    \A name \in Files :
        /\ Held[File(name)] = IF name \in Exists
                              THEN FlowsOf(IF name = rgFile THEN rgLeft ELSE disk[name]) ELSE {}
        /\ Held'[File(name)] = IF name \in Exists'
                               THEN FlowsOf(IF name = rgFile' THEN rgLeft' ELSE disk'[name]) ELSE {}
  BY HeldIs, HeldIsNext, Zenon DEF HeldFacts, OnDisk

(* A place stays as it is when its variable does.                          *)
LEMMA HeldStays ==
    /\ inpMsg' = inpMsg => Held'[At("in")] = Held[At("in")]
    /\ nxtMsg' = nxtMsg => Held'[At("next")] = Held[At("next")]
    /\ rdLine' = rdLine => Held'[At("line")] = Held[At("line")]
    /\ mem' = mem => Held'[At("mem")] = Held[At("mem")]
    /\ wBuf' = wBuf => Held'[At("write")] = Held[At("write")]
    /\ restBuf' = restBuf => Held'[At("rest")] = Held[At("rest")]
    /\ delivered' = delivered => Held'[At("delivered")] = Held[At("delivered")]
    /\ gone' = gone => Held'[At("gone")] = Held[At("gone")]
    /\ UNCHANGED <<disk, rgFile, rgLeft>> => \A name \in Files : Held'[File(name)] = Held[File(name)]
  BY HeldIs, HeldIsNext, Zenon DEF HeldFacts, OnDisk, Exists

(* Flows that move from one place to another are at one place still.       *)
LEMMA Moved ==
    ASSUME NEW S, Partition(Held, S), NEW p \in Places, NEW q \in Places, p # q,
           NEW X, X \subseteq Held[p], Held'[p] = Held[p] \ X, Held'[q] = Held[q] \cup X,
           \A r \in Places : r # p /\ r # q => Held'[r] = Held[r]
    PROVE  Partition(Held', S)
<1>1. ASSUME NEW a \in Places, NEW b \in Places, a # b, NEW x, x \in Held'[a], x \in Held'[b] PROVE FALSE
  <2>1. x \in X => x \in Held[p]
    BY Zenon
  <2>2. CASE x \in X
    <3>1. \A r \in Places : x \in Held[r] => r = p
      BY <2>1, <2>2, Zenon DEF Partition
    <3>2. \A r \in Places : x \in Held'[r] => r = q
      BY <2>2, <3>1, Zenon
    <3> QED
      BY <1>1, <3>2, Zenon
  <2>3. CASE x \notin X
    <3>1. \A r \in Places : x \in Held'[r] => x \in Held[r]
      BY <2>3, Zenon
    <3> QED
      BY <1>1, <3>1, Zenon DEF Partition
  <2> QED
    BY <2>2, <2>3, Zenon
<1>2. ASSUME NEW x PROVE (\E r \in Places : x \in Held'[r]) <=> (\E r \in Places : x \in Held[r])
  <2>1. ASSUME NEW r \in Places, x \in Held'[r] PROVE \E t \in Places : x \in Held[t]
    BY <2>1, Zenon
  <2>2. ASSUME NEW r \in Places, x \in Held[r] PROVE \E t \in Places : x \in Held'[t]
    <3>1. CASE x \in X
      BY <3>1, Zenon
    <3>2. CASE x \notin X
      BY <2>2, <3>2, Zenon
    <3> QED
      BY <3>1, <3>2, Zenon
  <2> QED
    BY <2>1, <2>2, Zenon
<1>3. \A a, b \in Places : a # b => Held'[a] \cap Held'[b] = {}
  BY <1>1, Zenon
<1>4. UNION {Held'[r] : r \in Places} = UNION {Held[r] : r \in Places}
  BY <1>2, Zenon
<1> QED
  BY <1>3, <1>4, Zenon DEF Partition

(* A flow that comes in is at one place.                                   *)
LEMMA Arrived ==
    ASSUME NEW h, NEW g, NEW S, Partition(h, S), NEW q \in Places, NEW x, x \notin S,
           g[q] = h[q] \cup {x}, \A r \in Places : r # q => g[r] = h[r]
    PROVE  Partition(g, S \cup {x})
<1>1. \A r \in Places : h[r] \subseteq S
  BY Zenon DEF Partition
<1>2. \A a, b \in Places : a # b => g[a] \cap g[b] = {}
  BY <1>1 DEF Partition
<1>3. UNION {g[r] : r \in Places} = (UNION {h[r] : r \in Places}) \cup {x}
  <2>1. ASSUME NEW y PROVE (\E r \in Places : y \in g[r]) <=> (y = x \/ \E r \in Places : y \in h[r])
    BY Zenon
  <2> QED
    BY <2>1, Zenon
<1> QED
  BY <1>2, <1>3, Zenon DEF Partition

(* The flows of a file when a line is added at its end.                    *)
LEMMA LineAdded ==
    ASSUME NEW s \in Seq(Line), NEW l \in Line, Distinct(s), l.f \notin FlowsOf(s)
    PROVE  FlowsOf(Append(s, l)) = FlowsOf(s) \cup {l.f} /\ Distinct(Append(s, l))
<1>1. /\ DOMAIN Append(s, l) = DOMAIN s \cup {Len(s) + 1} /\ Len(s) + 1 \notin DOMAIN s
      /\ \A i \in DOMAIN s : Append(s, l)[i] = s[i]
      /\ Append(s, l)[Len(s) + 1] = l
  BY AppendIs
<1>2. \A i \in DOMAIN s : s[i].f # l.f
  BY Zenon DEF FlowsOf
<1>3. FlowsOf(Append(s, l)) = FlowsOf(s) \cup {l.f}
  BY <1>1, Zenon DEF FlowsOf
<1> QED
  BY <1>1, <1>2, <1>3, Zenon DEF Distinct

(* The flows of a file when its first line is taken.                       *)
LEMMA LineTaken ==
    ASSUME NEW s \in Seq(Line), s # << >>, Distinct(s)
    PROVE  /\ FlowsOf(Tail(s)) = FlowsOf(s) \ {Head(s).f} /\ Head(s).f \in FlowsOf(s)
           /\ Distinct(Tail(s))
<1>1. /\ 1 \in DOMAIN s /\ Head(s) = s[1]
      /\ \A i \in DOMAIN Tail(s) : i + 1 \in DOMAIN s /\ Tail(s)[i] = s[i + 1]
      /\ \A i \in DOMAIN s : i # 1 => i - 1 \in DOMAIN Tail(s) /\ Tail(s)[i - 1] = s[i]
      /\ DOMAIN Tail(s) \subseteq Nat \ {0}
  BY TailIs
<1>2. \A i \in DOMAIN Tail(s) : i + 1 # 1
  BY <1>1
<1>3. FlowsOf(Tail(s)) = FlowsOf(s) \ {Head(s).f}
  <2>1. ASSUME NEW i \in DOMAIN Tail(s) PROVE Tail(s)[i].f \in FlowsOf(s) /\ Tail(s)[i].f # Head(s).f
    BY <1>1, <1>2 DEF FlowsOf, Distinct
  <2>2. ASSUME NEW i \in DOMAIN s, s[i].f # Head(s).f PROVE s[i].f \in FlowsOf(Tail(s))
    <3>1. i # 1
      BY <1>1, <2>2, Zenon
    <3>2. i - 1 \in DOMAIN Tail(s) /\ Tail(s)[i - 1] = s[i]
      BY <1>1, <3>1, Zenon
    <3> QED
      BY <3>2, Zenon DEF FlowsOf
  <2>3. FlowsOf(Tail(s)) \subseteq FlowsOf(s) \ {Head(s).f}
    BY <2>1, Zenon DEF FlowsOf
  <2>4. FlowsOf(s) \ {Head(s).f} \subseteq FlowsOf(Tail(s))
    BY <2>2, Zenon DEF FlowsOf
  <2> QED
    BY <2>3, <2>4, Zenon
<1>4. Distinct(Tail(s))
  BY <1>1 DEF Distinct
<1> QED
  BY <1>1, <1>3, <1>4, Zenon DEF FlowsOf

(* The flows of MemoryBuffer when one is put in at its end.                *)
LEMMA SlotAdded ==
    ASSUME NEW s \in Seq(Flows), NEW f \in Flows, f \notin Values(s), Different(s)
    PROVE  Values(Append(s, f)) = Values(s) \cup {f} /\ Different(Append(s, f))
<1>1. /\ DOMAIN Append(s, f) = DOMAIN s \cup {Len(s) + 1} /\ Len(s) + 1 \notin DOMAIN s
      /\ \A i \in DOMAIN s : Append(s, f)[i] = s[i]
      /\ Append(s, f)[Len(s) + 1] = f
  BY AppendIs
<1> QED
  BY <1>1 DEF Values, Different

(* The flows of MemoryBuffer when the first one is taken.                  *)
LEMMA SlotTaken ==
    ASSUME NEW s \in Seq(Flows), s # << >>, Different(s)
    PROVE  /\ Values(Tail(s)) = Values(s) \ {Head(s)} /\ Head(s) \in Values(s)
           /\ Different(Tail(s))
<1>1. /\ 1 \in DOMAIN s /\ Head(s) = s[1]
      /\ \A i \in DOMAIN Tail(s) : i + 1 \in DOMAIN s /\ Tail(s)[i] = s[i + 1]
      /\ \A i \in DOMAIN s : i # 1 => i - 1 \in DOMAIN Tail(s) /\ Tail(s)[i - 1] = s[i]
      /\ DOMAIN Tail(s) \subseteq Nat \ {0}
  BY TailIs
<1>2. \A i \in DOMAIN Tail(s) : i + 1 # 1
  BY <1>1
<1>3. Different(Tail(s))
  BY <1>1 DEF Different
<1>4. Values(Tail(s)) \subseteq Values(s) \ {Head(s)}
  BY <1>1, <1>2 DEF Values, Different
<1>5. Values(s) \ {Head(s)} \subseteq Values(Tail(s))
  BY <1>1 DEF Values
<1> QED
  BY <1>1, <1>3, <1>4, <1>5, Zenon DEF Values

(* Every step moves flows from one place to another, or none.              *)
LEMMA NextFlows ==
    ASSUME IInv, [Next]_vars
    PROVE  DistinctInv' /\ Partition(Held', 1..(Leftover + fed'))
<1> DEFINE S == 1..(Leftover + fed)
<1>0. /\ TypeOK /\ RoundInv /\ HandsInv /\ FileInv /\ DistinctInv /\ Partition(Held, S)
  BY Zenon DEF IInv
<1>a. /\ disk \in [Exists -> Seq(Line)] /\ Exists \subseteq Files /\ NoFile \notin Files /\ NoFlow \notin Flows
      /\ fed \in Nat /\ Leftover \in Nat /\ mem \in Seq(Flows) /\ wBuf \in Seq(Line) /\ restBuf \in Seq(Line)
      /\ rgLeft \in Seq(Line)
  BY <1>0, BoundsAssumption DEF TypeOK, NoFile, NoFlow, Flows
<1>b. /\ Distinct(wBuf) /\ Distinct(restBuf) /\ Distinct(rgLeft)
      /\ \A name \in Exists : Distinct(disk[name])
      /\ Different(mem)
  BY <1>0, Zenon DEF DistinctInv
<1>c. \A p, q \in Places : \A f : f \in Held[p] /\ f \in Held[q] => p = q
  BY <1>0, Zenon DEF Partition
<1>d. /\ "in" \in Spots /\ "next" \in Spots /\ "line" \in Spots /\ "mem" \in Spots
      /\ "write" \in Spots /\ "rest" \in Spots /\ "delivered" \in Spots /\ "gone" \in Spots
      /\ \A s \in Spots : \/ s = "in" \/ s = "next" \/ s = "line" \/ s = "mem" \/ s = "write"
                          \/ s = "rest" \/ s = "delivered" \/ s = "gone"
  BY Zenon DEF Spots
<1>e. /\ Distinct(<< >>) /\ FlowsOf(<< >>) = {}
  BY DEF Distinct, FlowsOf
<1>f. rd \in {"handle", "deliver", "put"} => rdLine.f \in Flows
  BY <1>0, Zenon DEF TypeOK, HandsInv, Line
<1> HIDE DEF S
<1>g. ASSUME \A p \in Places : Held'[p] = Held[p], fed' = fed PROVE Partition(Held', 1..(Leftover + fed'))
  BY <1>0, <1>g, Zenon DEF Partition, S
<1>h. ASSUME fed' = fed, Partition(Held', S) PROVE Partition(Held', 1..(Leftover + fed'))
  BY <1>h, Zenon DEF S
<1>1. CASE UNCHANGED <<fed, inpMsg, nxtMsg, rdLine, mem, wBuf, restBuf, delivered, gone, disk, rgFile, rgLeft>>
  <2>1. Held' = Held
    BY <1>1 DEF Held, Exists, OnDisk
  <2>2. DistinctInv'
    BY <1>1, <1>b, Zenon DEF DistinctInv, Exists
  <2> QED
    BY <1>g, <1>1, <2>1, <2>2, Zenon
<1>2. CASE ReceiveIn
  <2>1. /\ UNCHANGED <<nxtMsg, rdLine, mem, wBuf, restBuf, delivered, gone, disk, rgFile, rgLeft>>
        /\ fed' = fed + 1 /\ inpMsg' = Leftover + fed + 1 /\ inp = "recv"
    BY <1>2, Zenon DEF ReceiveIn, nxtVars, readVars, writeVars, flowVars, readerVars
  <2>2. DistinctInv'
    BY <2>1, <1>b, Zenon DEF DistinctInv, Exists
  <2>3. inpMsg = NoFlow
    BY <1>0, <2>1, Zenon DEF HandsInv
  <2>4. Leftover + fed + 1 \notin S /\ 1..(Leftover + fed') = S \cup {Leftover + fed + 1} /\ Leftover + fed + 1 # NoFlow
    BY <1>a, <2>1 DEF S, NoFlow
  <2>5. Held'[At("in")] = Held[At("in")] \cup {Leftover + fed + 1}
    BY <2>1, <2>3, <2>4, HeldIs, HeldIsNext, Zenon DEF HeldFacts
  <2>6. \A r \in Places : r # At("in") => Held'[r] = Held[r]
    BY <1>d, <2>1, HeldStays, PlacesAre
  <2>7. Partition(Held', S \cup {Leftover + fed + 1})
    BY <1>0, <1>d, <2>4, <2>5, <2>6, PlacesAre, Arrived, Zenon
  <2> QED
    BY <2>2, <2>4, <2>7, Zenon
<1>3. CASE PutInput
  <2>1. /\ UNCHANGED <<fed, nxtMsg, rdLine, wBuf, restBuf, delivered, gone, disk, rgFile, rgLeft>>
        /\ mem' = Append(mem, inpMsg) /\ inpMsg' = NoFlow /\ inp = "put"
    BY <1>3, Zenon DEF PutInput, nxtVars, readVars, writeVars, flowVars, readerVars
  <2>2. inpMsg \in Flows /\ Held[At("in")] = {inpMsg}
    <3>1. inpMsg \in Flows /\ inpMsg # NoFlow
      BY <1>0, <2>1, Zenon DEF TypeOK, HandsInv
    <3> QED
      BY <3>1, HeldIs, Zenon DEF HeldFacts
  <2>3. inpMsg \notin Values(mem)
    <3>1. inpMsg \notin Held[At("mem")]
      BY <1>c, <1>d, <2>2, PlacesAre, Zenon
    <3> QED
      BY <3>1, HeldIs, Zenon DEF HeldFacts
  <2>4. Values(mem') = Values(mem) \cup {inpMsg} /\ Different(mem')
    BY <1>a, <1>b, <2>1, <2>2, <2>3, SlotAdded, Zenon
  <2>5. DistinctInv'
    BY <2>1, <2>4, <1>b, Zenon DEF DistinctInv, Exists
  <2>6. Held'[At("in")] = Held[At("in")] \ {inpMsg} /\ Held'[At("mem")] = Held[At("mem")] \cup {inpMsg}
    BY <2>1, <2>2, <2>4, HeldIs, HeldIsNext, Zenon DEF HeldFacts
  <2>7. \A r \in Places : r # At("in") /\ r # At("mem") => Held'[r] = Held[r]
    BY <1>d, <2>1, HeldStays, PlacesAre
  <2>8. Partition(Held', S)
    <3>1. At("in") \in Places /\ At("mem") \in Places /\ At("in") # At("mem") /\ {inpMsg} \subseteq Held[At("in")]
      BY <1>d, <2>2, PlacesAre, Zenon
    <3> QED
      BY <1>0, <2>6, <2>7, <3>1, Moved, Zenon
  <2> QED
    BY <1>h, <2>1, <2>5, <2>8, Zenon
<1>4. CASE TakeNext
  <2>1. /\ UNCHANGED <<fed, inpMsg, rdLine, wBuf, restBuf, delivered, gone, disk, rgFile, rgLeft>>
        /\ mem # << >> /\ mem' = Tail(mem) /\ nxtMsg' = Head(mem) /\ nxt = "take"
    BY <1>4, Zenon DEF TakeNext, inVars, nxtVars, readVars, writeVars, flowVars, readerVars, watVars
  <2>2. Head(mem) \in Flows /\ Head(mem) # NoFlow /\ Held[At("next")] = {}
    <3>1. Head(mem) \in Flows
      BY <1>a, <2>1, TailIs, Zenon
    <3>2. nxtMsg = NoFlow
      BY <1>0, <2>1, Zenon DEF HandsInv
    <3> QED
      BY <1>a, <3>1, <3>2, HeldIs, Zenon DEF HeldFacts
  <2>3. Values(mem') = Values(mem) \ {Head(mem)} /\ Head(mem) \in Values(mem) /\ Different(mem')
    BY <1>a, <1>b, <2>1, SlotTaken, Zenon
  <2>4. Head(mem) \in Held[At("mem")]
    BY <2>3, HeldIs, Zenon DEF HeldFacts
  <2>5. DistinctInv'
    BY <2>1, <2>3, <1>b, Zenon DEF DistinctInv, Exists
  <2>6. Held'[At("mem")] = Held[At("mem")] \ {Head(mem)} /\ Held'[At("next")] = Held[At("next")] \cup {Head(mem)}
    BY <2>1, <2>2, <2>3, HeldIs, HeldIsNext, Zenon DEF HeldFacts
  <2>7. \A r \in Places : r # At("mem") /\ r # At("next") => Held'[r] = Held[r]
    BY <1>d, <2>1, HeldStays, PlacesAre
  <2>8. Partition(Held', S)
    <3>1. At("mem") \in Places /\ At("next") \in Places /\ At("mem") # At("next") /\ {Head(mem)} \subseteq Held[At("mem")]
      BY <1>d, <2>4, PlacesAre, Zenon
    <3> QED
      BY <1>0, <2>6, <2>7, <3>1, Moved, Zenon
  <2> QED
    BY <1>h, <2>1, <2>5, <2>8, Zenon
<1>5. CASE SendNext
  <2>1. /\ UNCHANGED <<fed, inpMsg, rdLine, mem, wBuf, restBuf, gone, disk, rgFile, rgLeft>>
        /\ delivered' = delivered \cup {nxtMsg} /\ nxtMsg' = NoFlow /\ nxt = "send"
    BY <1>5, Zenon DEF SendNext, inVars, nxtVars, readVars, writeVars, flowVars, readerVars, watVars
  <2>2. nxtMsg # NoFlow
    BY <1>0, <2>1, Zenon DEF HandsInv
  <2>3. Held[At("next")] = {nxtMsg}
    BY <2>2, HeldIs, Zenon DEF HeldFacts
  <2>5. DistinctInv'
    BY <2>1, <1>b, Zenon DEF DistinctInv, Exists
  <2>6. Held'[At("next")] = Held[At("next")] \ {nxtMsg} /\ Held'[At("delivered")] = Held[At("delivered")] \cup {nxtMsg}
    BY <2>1, <2>2, HeldIs, HeldIsNext, Zenon DEF HeldFacts
  <2>7. \A r \in Places : r # At("next") /\ r # At("delivered") => Held'[r] = Held[r]
    BY <1>d, <2>1, HeldStays, PlacesAre
  <2>8. Partition(Held', S)
    <3>1. At("next") \in Places /\ At("delivered") \in Places /\ At("next") # At("delivered") /\ {nxtMsg} \subseteq Held[At("next")]
      BY <1>d, <2>3, PlacesAre, Zenon
    <3> QED
      BY <1>0, <2>6, <2>7, <3>1, Moved, Zenon
  <2> QED
    BY <1>h, <2>1, <2>5, <2>8, Zenon
<1>6. CASE WriteOne /\ mem # << >>
  <2> DEFINE l == [f |-> Head(mem), ok |-> "ok"]
  <2>1. /\ UNCHANGED <<fed, inpMsg, nxtMsg, rdLine, restBuf, delivered, gone, disk, rgFile, rgLeft>>
        /\ mem' = Tail(mem) /\ wBuf' = Append(wBuf, l)
    BY <1>6, Zenon DEF WriteOne, inVars, nxtVars, readVars, writeVars, flowVars, readerVars, watVars
  <2>2. l \in Line /\ l.f = Head(mem)
    <3>1. Head(mem) \in Flows
      BY <1>a, <1>6, TailIs, Zenon
    <3> QED
      BY <3>1, Zenon DEF Line
  <2> HIDE DEF l
  <2>3. /\ Values(mem') = Values(mem) \ {Head(mem)} /\ Head(mem) \in Values(mem) /\ Different(mem')
        /\ Head(mem) \in Held[At("mem")]
    <3>1. Values(mem') = Values(mem) \ {Head(mem)} /\ Head(mem) \in Values(mem) /\ Different(mem')
      BY <1>a, <1>b, <1>6, <2>1, SlotTaken, Zenon
    <3> QED
      BY <3>1, HeldIs, Zenon DEF HeldFacts
  <2>4. FlowsOf(wBuf') = FlowsOf(wBuf) \cup {Head(mem)} /\ Distinct(wBuf')
    <3>1. Head(mem) \notin Held[At("write")]
      BY <1>c, <1>d, <2>3, PlacesAre, Zenon
    <3>2. l.f \notin FlowsOf(wBuf)
      BY <2>2, <3>1, HeldIs, Zenon DEF HeldFacts
    <3>3. FlowsOf(wBuf') = FlowsOf(wBuf) \cup {l.f} /\ Distinct(wBuf')
      BY <1>a, <1>b, <2>1, <2>2, <3>2, LineAdded, Zenon
    <3> QED
      BY <2>2, <3>3, Zenon
  <2>5. DistinctInv'
    BY <2>1, <2>3, <2>4, <1>b, Zenon DEF DistinctInv, Exists
  <2>6. Held'[At("mem")] = Held[At("mem")] \ {Head(mem)} /\ Held'[At("write")] = Held[At("write")] \cup {Head(mem)}
    BY <2>3, <2>4, HeldIs, HeldIsNext, Zenon DEF HeldFacts
  <2>7. \A r \in Places : r # At("mem") /\ r # At("write") => Held'[r] = Held[r]
    BY <1>d, <2>1, HeldStays, PlacesAre
  <2>8. Partition(Held', S)
    <3>1. At("mem") \in Places /\ At("write") \in Places /\ At("mem") # At("write") /\ {Head(mem)} \subseteq Held[At("mem")]
      BY <1>d, <2>3, PlacesAre, Zenon
    <3> QED
      BY <1>0, <2>6, <2>7, <3>1, Moved, Zenon
  <2> QED
    BY <1>h, <2>1, <2>5, <2>8, Zenon
<1>7. CASE EndWriting
  <2>1. /\ UNCHANGED <<fed, inpMsg, nxtMsg, rdLine, mem, restBuf, delivered, gone, rgFile, rgLeft>>
        /\ disk' = [disk EXCEPT ![wFile] = wBuf] /\ wBuf' = << >> /\ wtd # "off"
    BY <1>7, Zenon DEF EndWriting, inVars, nxtVars, readVars, writeVars, flowVars, readerVars, watVars
  <2>2. wFile \in Exists /\ wFile \in Files /\ disk[wFile] = << >> /\ rgFile = NoFile
    <3>1. rg = "off"
      BY <1>0, <2>1, Zenon DEF RoundInv
    <3> QED
      BY <1>0, <1>a, <2>1, <3>1, Zenon DEF FileInv
  <2>3. Exists' = Exists /\ disk'[wFile] = wBuf /\ \A g \in Exists : g # wFile => disk'[g] = disk[g]
    BY <1>a, <2>1, <2>2, Zenon DEF Exists
  <2>4. /\ Held[At("write")] = FlowsOf(wBuf) /\ Held[File(wFile)] = {} /\ Held'[File(wFile)] = FlowsOf(wBuf)
        /\ Held'[At("write")] = {}
    <3>1. Held[File(wFile)] = FlowsOf(disk[wFile]) /\ Held'[File(wFile)] = FlowsOf(disk'[wFile])
      BY <1>a, <2>1, <2>2, <2>3, HeldInFiles, Zenon
    <3>2. Held[At("write")] = FlowsOf(wBuf) /\ Held'[At("write")] = FlowsOf(wBuf')
      BY HeldIs, HeldIsNext, Zenon DEF HeldFacts
    <3> QED
      BY <1>e, <2>1, <2>2, <2>3, <3>1, <3>2, Zenon
  <2>5. DistinctInv'
    <3>1. \A name \in Exists' : Distinct(disk'[name])
      BY <1>b, <2>3, Zenon
    <3> QED
      BY <1>b, <1>e, <2>1, <3>1, Zenon DEF DistinctInv
  <2>6. /\ Held'[At("write")] = Held[At("write")] \ FlowsOf(wBuf)
        /\ Held'[File(wFile)] = Held[File(wFile)] \cup FlowsOf(wBuf)
    BY <2>4, Zenon
  <2>7. \A r \in Places : r # At("write") /\ r # File(wFile) => Held'[r] = Held[r]
    <3>1. ASSUME NEW name \in Files, name # wFile PROVE Held'[File(name)] = Held[File(name)]
      BY <1>a, <2>1, <2>2, <2>3, <3>1, HeldInFiles, Zenon
    <3> QED
      BY <1>d, <2>1, <3>1, HeldStays, PlacesAre
  <2>8. Partition(Held', S)
    <3>1. /\ At("write") \in Places /\ File(wFile) \in Places /\ At("write") # File(wFile)
          /\ FlowsOf(wBuf) \subseteq Held[At("write")]
      BY <1>d, <2>2, <2>4, PlacesAre, Zenon
    <3> QED
      BY <1>0, <2>6, <2>7, <3>1, Moved, Zenon
  <2> QED
    BY <1>h, <2>1, <2>5, <2>8, Zenon
<1>8. CASE StartWrite \/ StartFinalWrite
  <2>1. /\ UNCHANGED <<fed, inpMsg, nxtMsg, rdLine, mem, restBuf, delivered, gone, rgFile, rgLeft>>
        /\ disk' = Create(NewName) /\ wBuf' = << >> /\ FreeNames # {} /\ dec \in {"write", "top"}
    BY <1>8, Zenon DEF StartWrite, StartFinalWrite, BeginWriting, inVars, nxtVars, readVars, writeVars, flowVars, readerVars, watVars
  <2>2. wBuf = << >> /\ rgFile = NoFile
    <3>1. wtd = "off" /\ rg = "off"
      BY <1>0, <2>1, Zenon DEF RoundInv
    <3> QED
      BY <1>0, <3>1, Zenon DEF FileInv
  <2>3. /\ Exists' = Exists \cup {NewName} /\ disk'[NewName] = << >> /\ NewName \notin Exists
        /\ NewName # NoFile /\ \A g \in Exists : disk'[g] = disk[g]
    BY <1>a, <2>1, NewNameIsFree, FileOps, Zenon DEF Exists
  <2>4. \A name \in Files : Held'[File(name)] = Held[File(name)]
    <3>1. ASSUME NEW name \in Files, name # NewName PROVE Held'[File(name)] = Held[File(name)]
      BY <1>a, <2>1, <2>2, <2>3, <3>1, HeldInFiles, Zenon
    <3>2. NewName \in Files => Held'[File(NewName)] = Held[File(NewName)]
      <4>1. NewName \in Files => Held[File(NewName)] = {} /\ Held'[File(NewName)] = FlowsOf(<< >>)
        BY <2>1, <2>2, <2>3, HeldInFiles, Zenon
      <4> QED
        BY <1>e, <4>1, Zenon
    <3> QED
      BY <3>1, <3>2, Zenon
  <2>5. DistinctInv'
    <3>1. \A name \in Exists' : Distinct(disk'[name])
      BY <1>b, <1>e, <2>3, Zenon
    <3> QED
      BY <1>b, <1>e, <2>1, <3>1, Zenon DEF DistinctInv
  <2>6. \A r \in Places : Held'[r] = Held[r]
    BY <1>d, <2>1, <2>2, <2>4, HeldStays, PlacesAre
  <2> QED
    BY <1>g, <2>1, <2>5, <2>6, Zenon
<1>9. CASE OpenFile /\ rgFile' # rgFile
  <2>1. /\ UNCHANGED <<fed, inpMsg, nxtMsg, rdLine, mem, wBuf, restBuf, delivered, gone, disk>>
        /\ rgFile' \in Exists /\ rgLeft' = disk[rgFile'] /\ rg = "open"
    BY <1>9, Zenon DEF OpenFile, inVars, nxtVars, readVars, writeVars, flowVars, readerVars, watVars
  <2>2. rgFile = NoFile
    BY <1>0, <2>1, Zenon DEF FileInv
  <2>4. \A name \in Files : Held'[File(name)] = Held[File(name)]
    <3>1. ASSUME NEW name \in Exists PROVE FlowsOf(IF name = rgFile' THEN rgLeft' ELSE disk[name]) = FlowsOf(disk[name])
      BY <2>1, Zenon
    <3>2. Exists' = Exists
      BY <2>1, Zenon DEF Exists
    <3> QED
      BY <1>a, <2>1, <2>2, <3>1, <3>2, HeldInFiles, Zenon
  <2>5. DistinctInv'
    BY <2>1, <1>b, Zenon DEF DistinctInv, Exists
  <2>6. \A r \in Places : Held'[r] = Held[r]
    BY <1>d, <2>1, <2>4, HeldStays, PlacesAre
  <2> QED
    BY <1>g, <2>1, <2>5, <2>6, Zenon
<1>10. CASE ReadLine
  <2> DEFINE f == Head(rgLeft).f
             T == IF rd = "recv" THEN "line" ELSE "rest"
  <2>1. /\ UNCHANGED <<fed, inpMsg, nxtMsg, mem, wBuf, delivered, gone, disk, rgFile>>
        /\ rgLeft # << >> /\ rgLeft' = Tail(rgLeft) /\ rg = "line"
        /\ \/ rd = "recv" /\ rdLine' = Head(rgLeft) /\ restBuf' = restBuf
           \/ rd = "rest" /\ restBuf' = Append(restBuf, [f |-> f, ok |-> "bad"]) /\ rdLine' = rdLine
    BY <1>10, Zenon DEF ReadLine, inVars, nxtVars, readVars, writeVars, flowVars, readerVars, watVars
  <2>2. f \in Flows /\ [f |-> f, ok |-> "bad"] \in Line /\ f # NoFlow
    <3>1. Head(rgLeft) \in Line
      BY <1>a, <2>1, TailIs, Zenon
    <3> QED
      BY <1>a, <3>1, Zenon DEF Line
  <2>3. rgFile \in Exists /\ rgFile \in Files
    BY <1>0, <1>a, <2>1, Zenon DEF FileInv
  <2>4. /\ FlowsOf(rgLeft') = FlowsOf(rgLeft) \ {f} /\ f \in FlowsOf(rgLeft) /\ Distinct(rgLeft')
    BY <1>a, <1>b, <2>1, LineTaken, Zenon
  <2>a. Held[File(rgFile)] = FlowsOf(rgLeft) /\ Held'[File(rgFile)] = FlowsOf(rgLeft')
    BY <2>1, <2>3, HeldInFiles, Zenon DEF Exists
  <2>b. f \notin FlowsOf(restBuf)
    <3>1. f \notin Held[At("rest")]
      BY <1>c, <1>d, <2>3, <2>4, <2>a, PlacesAre
    <3> QED
      BY <3>1, HeldIs, Zenon DEF HeldFacts
  <2>c. rd = "rest" => FlowsOf(restBuf') = FlowsOf(restBuf) \cup {f} /\ Distinct(restBuf')
    <3> DEFINE l == [f |-> f, ok |-> "bad"]
    <3>1. l \in Line /\ l.f = f /\ (rd = "rest" => restBuf' = Append(restBuf, l))
      BY <2>1, <2>2, Zenon
    <3> HIDE DEF l, f
    <3> QED
      BY <1>a, <1>b, <2>b, <3>1, LineAdded, Zenon
  <2> HIDE DEF f
  <2>5. DistinctInv'
    <3>1. Distinct(restBuf')
      BY <1>b, <2>1, <2>c, Zenon
    <3> QED
      BY <2>1, <2>4, <3>1, <1>b, Zenon DEF DistinctInv, Exists
  <2>d. rd = "recv" => rdLine.f = NoFlow /\ rdLine'.f = f
    <3>1. rd = "recv" => rdLine = NoLine
      BY <1>0, Zenon DEF HandsInv
    <3> QED
      BY <2>1, <3>1 DEF NoLine, f
  <2>e. T \in Spots /\ (T = "line" <=> rd = "recv") /\ (T = "rest" <=> rd # "recv")
    BY <1>d, Zenon
  <2>6. Held'[File(rgFile)] = Held[File(rgFile)] \ {f} /\ Held'[At(T)] = Held[At(T)] \cup {f}
    <3>1. CASE rd = "recv"
      BY <2>2, <2>4, <2>a, <2>d, <2>e, <3>1, HeldIs, HeldIsNext DEF HeldFacts
    <3>2. CASE rd = "rest"
      BY <2>4, <2>a, <2>c, <2>e, <3>2, HeldIs, HeldIsNext, Zenon DEF HeldFacts
    <3> QED
      BY <2>1, <3>1, <3>2, Zenon
  <2>7. \A r \in Places : r # File(rgFile) /\ r # At(T) => Held'[r] = Held[r]
    <3>1. ASSUME NEW name \in Files, name # rgFile PROVE Held'[File(name)] = Held[File(name)]
      BY <2>1, <3>1, HeldInFiles, Zenon DEF Exists
    <3>2. ASSUME NEW s \in Spots, s # T PROVE Held'[At(s)] = Held[At(s)]
      BY <1>d, <2>1, <2>e, <3>2, HeldStays, Zenon
    <3> HIDE DEF T
    <3> QED
      BY <3>1, <3>2, PlacesAre, Zenon
  <2> HIDE DEF T
  <2>8. Partition(Held', S)
    <3>1. /\ File(rgFile) \in Places /\ At(T) \in Places /\ File(rgFile) # At(T)
          /\ {f} \subseteq Held[File(rgFile)]
      BY <2>3, <2>4, <2>a, <2>e, PlacesAre, Zenon
    <3> QED
      BY <1>0, <2>6, <2>7, <3>1, Moved, Zenon
  <2> QED
    BY <1>h, <2>1, <2>5, <2>8, Zenon
<1>11. CASE RemoveFile
  <2>1. /\ UNCHANGED <<fed, inpMsg, nxtMsg, rdLine, mem, wBuf, restBuf, delivered, gone, rgLeft>>
        /\ disk' = Remove(rgFile) /\ rgFile' = NoFile /\ rgLeft = << >> /\ rg = "line"
    BY <1>11, Zenon DEF RemoveFile, inVars, nxtVars, readVars, writeVars, flowVars, readerVars, watVars
  <2>2. rgFile \in Exists /\ rgFile \in Files
    BY <1>0, <1>a, <2>1, Zenon DEF FileInv
  <2>3. Exists' = Exists \ {rgFile} /\ \A g \in Exists' : disk'[g] = disk[g]
    BY <1>a, <2>1, FileOps, Zenon DEF Exists
  <2>4. \A name \in Files : Held'[File(name)] = Held[File(name)]
    <3>1. ASSUME NEW name \in Files, name # rgFile PROVE Held'[File(name)] = Held[File(name)]
      BY <1>a, <2>1, <2>3, <3>1, HeldInFiles, Zenon
    <3>2. Held'[File(rgFile)] = {} /\ Held[File(rgFile)] = FlowsOf(<< >>)
      BY <2>1, <2>2, <2>3, HeldInFiles, Zenon
    <3> QED
      BY <1>e, <3>1, <3>2, Zenon
  <2>5. DistinctInv'
    BY <2>1, <2>3, <1>b, Zenon DEF DistinctInv
  <2>6. \A r \in Places : Held'[r] = Held[r]
    BY <1>d, <2>1, <2>4, HeldStays, PlacesAre
  <2> QED
    BY <1>g, <2>1, <2>5, <2>6, Zenon
<1>12. CASE HandleLine /\ rdLine' # rdLine
  <2>1. /\ UNCHANGED <<fed, inpMsg, nxtMsg, mem, wBuf, restBuf, delivered, rgFile, rgLeft>>
        /\ gone' = gone \cup {rdLine.f} /\ rdLine' = NoLine /\ rd = "handle"
        /\ disk' = disk \/ (FreeNames # {} /\ disk' = Create(NewName))
    BY <1>12, Zenon DEF HandleLine, inVars, nxtVars, readVars, writeVars, flowVars, readerVars, watVars
  <2>2. rdLine.f \in Flows /\ rdLine.f # NoFlow /\ rdLine'.f = NoFlow
    BY <1>a, <1>f, <2>1, Zenon DEF NoLine
  <2>3. Held[At("line")] = {rdLine.f}
    BY <2>2, HeldIs, Zenon DEF HeldFacts
  <2>4. /\ \A name \in Files : Held'[File(name)] = Held[File(name)]
        /\ \A name \in Exists' : Distinct(disk'[name])
    <3>1. CASE disk' = disk
      BY <1>b, <2>1, <3>1, HeldStays, Zenon DEF Exists
    <3>2. CASE FreeNames # {} /\ disk' = Create(NewName)
      <4>1. /\ Exists' = Exists \cup {NewName} /\ disk'[NewName] = << >> /\ NewName \notin Exists
            /\ NewName # NoFile /\ \A g \in Exists : disk'[g] = disk[g]
        BY <1>a, <3>2, NewNameIsFree, FileOps, Zenon DEF Exists
      <4>2. NewName # rgFile
        BY <1>0, <4>1, Zenon DEF FileInv
      <4>3. ASSUME NEW name \in Files, name # NewName PROVE Held'[File(name)] = Held[File(name)]
        BY <2>1, <4>1, <4>3, HeldInFiles, Zenon
      <4>4. NewName \in Files => Held[File(NewName)] = {} /\ Held'[File(NewName)] = FlowsOf(<< >>)
        BY <2>1, <4>1, <4>2, HeldInFiles, Zenon
      <4> QED
        BY <1>b, <1>e, <4>1, <4>3, <4>4, Zenon
    <3> QED
      BY <2>1, <3>1, <3>2, Zenon
  <2>5. DistinctInv'
    BY <2>1, <2>4, <1>b, Zenon DEF DistinctInv
  <2>6. Held'[At("line")] = Held[At("line")] \ {rdLine.f} /\ Held'[At("gone")] = Held[At("gone")] \cup {rdLine.f}
    BY <2>1, <2>2, HeldIs, HeldIsNext, Zenon DEF HeldFacts
  <2>7. \A r \in Places : r # At("line") /\ r # At("gone") => Held'[r] = Held[r]
    BY <1>d, <2>1, <2>4, HeldStays, PlacesAre
  <2>8. Partition(Held', S)
    <3>1. At("line") \in Places /\ At("gone") \in Places /\ At("line") # At("gone") /\ {rdLine.f} \subseteq Held[At("line")]
      BY <1>d, <2>3, PlacesAre, Zenon
    <3> QED
      BY <1>0, <2>6, <2>7, <3>1, Moved, Zenon
  <2> QED
    BY <1>h, <2>1, <2>5, <2>8, Zenon
<1>13. CASE DeliverLine /\ rdLine' # rdLine
  <2>1. /\ UNCHANGED <<fed, inpMsg, nxtMsg, mem, wBuf, restBuf, gone, disk, rgFile, rgLeft>>
        /\ delivered' = delivered \cup {rdLine.f} /\ rdLine' = NoLine /\ rd = "deliver"
    BY <1>13, Zenon DEF DeliverLine, inVars, nxtVars, readVars, writeVars, flowVars, readerVars, watVars
  <2>2. rdLine.f \in Flows /\ rdLine.f # NoFlow /\ rdLine'.f = NoFlow
    BY <1>a, <1>f, <2>1, Zenon DEF NoLine
  <2>3. Held[At("line")] = {rdLine.f}
    BY <2>2, HeldIs, Zenon DEF HeldFacts
  <2>5. DistinctInv'
    BY <2>1, <1>b, Zenon DEF DistinctInv, Exists
  <2>6. Held'[At("line")] = Held[At("line")] \ {rdLine.f} /\ Held'[At("delivered")] = Held[At("delivered")] \cup {rdLine.f}
    BY <2>1, <2>2, HeldIs, HeldIsNext, Zenon DEF HeldFacts
  <2>7. \A r \in Places : r # At("line") /\ r # At("delivered") => Held'[r] = Held[r]
    BY <1>d, <2>1, HeldStays, PlacesAre
  <2>8. Partition(Held', S)
    <3>1. At("line") \in Places /\ At("delivered") \in Places /\ At("line") # At("delivered") /\ {rdLine.f} \subseteq Held[At("line")]
      BY <1>d, <2>3, PlacesAre, Zenon
    <3> QED
      BY <1>0, <2>6, <2>7, <3>1, Moved, Zenon
  <2> QED
    BY <1>h, <2>1, <2>5, <2>8, Zenon
<1>14. CASE PutLine
  <2>1. /\ UNCHANGED <<fed, inpMsg, nxtMsg, wBuf, restBuf, delivered, gone, disk, rgFile, rgLeft>>
        /\ mem' = Append(mem, rdLine.f) /\ rdLine' = NoLine /\ rd = "put"
    BY <1>14, Zenon DEF PutLine, inVars, nxtVars, readVars, writeVars, flowVars, readerVars, watVars
  <2>2. rdLine.f \in Flows /\ rdLine.f # NoFlow /\ rdLine'.f = NoFlow
    BY <1>a, <1>f, <2>1, Zenon DEF NoLine
  <2>3. Held[At("line")] = {rdLine.f}
    BY <2>2, HeldIs, Zenon DEF HeldFacts
  <2>4. Values(mem') = Values(mem) \cup {rdLine.f} /\ Different(mem')
    <3>1. rdLine.f \notin Held[At("mem")]
      BY <1>c, <1>d, <2>3, PlacesAre, Zenon
    <3>2. rdLine.f \notin Values(mem)
      BY <3>1, HeldIs, Zenon DEF HeldFacts
    <3> QED
      BY <1>a, <1>b, <2>1, <2>2, <3>2, SlotAdded, Zenon
  <2>5. DistinctInv'
    BY <2>1, <2>4, <1>b, Zenon DEF DistinctInv, Exists
  <2>6. Held'[At("line")] = Held[At("line")] \ {rdLine.f} /\ Held'[At("mem")] = Held[At("mem")] \cup {rdLine.f}
    BY <2>2, <2>4, HeldIs, HeldIsNext, Zenon DEF HeldFacts
  <2>7. \A r \in Places : r # At("line") /\ r # At("mem") => Held'[r] = Held[r]
    BY <1>d, <2>1, HeldStays, PlacesAre
  <2>8. Partition(Held', S)
    <3>1. At("line") \in Places /\ At("mem") \in Places /\ At("line") # At("mem") /\ {rdLine.f} \subseteq Held[At("line")]
      BY <1>d, <2>3, PlacesAre, Zenon
    <3> QED
      BY <1>0, <2>6, <2>7, <3>1, Moved, Zenon
  <2> QED
    BY <1>h, <2>1, <2>5, <2>8, Zenon
<1>15. CASE EndReading /\ rd = "rest"
  <2>1. /\ UNCHANGED <<fed, inpMsg, nxtMsg, rdLine, mem, wBuf, delivered, gone, rgFile, rgLeft>>
        /\ disk' = [disk EXCEPT ![rest] = restBuf] /\ restBuf' = << >> /\ rg = "off"
    BY <1>15, Zenon DEF EndReading, inVars, nxtVars, readVars, writeVars, flowVars, readerVars, watVars
  <2>2. rest \in Exists /\ rest \in Files /\ disk[rest] = << >> /\ rgFile = NoFile
    BY <1>0, <1>a, <1>15, <2>1, Zenon DEF FileInv
  <2>3. Exists' = Exists /\ disk'[rest] = restBuf /\ \A g \in Exists : g # rest => disk'[g] = disk[g]
    BY <1>a, <2>1, <2>2, Zenon DEF Exists
  <2>4. /\ Held[At("rest")] = FlowsOf(restBuf) /\ Held[File(rest)] = {} /\ Held'[File(rest)] = FlowsOf(restBuf)
        /\ Held'[At("rest")] = {}
    <3>1. Held[File(rest)] = FlowsOf(disk[rest]) /\ Held'[File(rest)] = FlowsOf(disk'[rest])
      BY <1>a, <2>1, <2>2, <2>3, HeldInFiles, Zenon
    <3>2. Held[At("rest")] = FlowsOf(restBuf) /\ Held'[At("rest")] = FlowsOf(restBuf')
      BY HeldIs, HeldIsNext, Zenon DEF HeldFacts
    <3> QED
      BY <1>e, <2>1, <2>2, <2>3, <3>1, <3>2, Zenon
  <2>5. DistinctInv'
    <3>1. \A name \in Exists' : Distinct(disk'[name])
      BY <1>b, <2>3, Zenon
    <3> QED
      BY <1>b, <1>e, <2>1, <3>1, Zenon DEF DistinctInv
  <2>6. /\ Held'[At("rest")] = Held[At("rest")] \ FlowsOf(restBuf)
        /\ Held'[File(rest)] = Held[File(rest)] \cup FlowsOf(restBuf)
    BY <2>4, Zenon
  <2>7. \A r \in Places : r # At("rest") /\ r # File(rest) => Held'[r] = Held[r]
    <3>1. ASSUME NEW name \in Files, name # rest PROVE Held'[File(name)] = Held[File(name)]
      BY <1>a, <2>1, <2>2, <2>3, <3>1, HeldInFiles, Zenon
    <3> QED
      BY <1>d, <2>1, <3>1, HeldStays, PlacesAre
  <2>8. Partition(Held', S)
    <3>1. /\ At("rest") \in Places /\ File(rest) \in Places /\ At("rest") # File(rest)
          /\ FlowsOf(restBuf) \subseteq Held[At("rest")]
      BY <1>d, <2>2, <2>4, PlacesAre, Zenon
    <3> QED
      BY <1>0, <2>6, <2>7, <3>1, Moved, Zenon
  <2> QED
    BY <1>h, <2>1, <2>5, <2>8, Zenon
<1>16. CASE Watches \/ CloseInput \/ CloseStops \/ CheckNext \/ Decide \/ StartRead \/ RoundOver
            \/ CheckStopWriting \/ CheckStopReading \/ Barks
  <2>1. UNCHANGED <<fed, inpMsg, nxtMsg, rdLine, mem, wBuf, restBuf, delivered, gone, disk, rgFile, rgLeft>>
    BY <1>16, Zenon DEF Watches, CloseInput, CloseStops, CheckNext, Glob, StatFiles, WatcherWakes, CloseOut,
        vars, Decide, StartRead, RoundOver, CheckStopWriting, CheckStopReading, Barks,
        WriteWatchdogLowMemoryMark, ReadWatchdogLowMemoryMark, ReadWatchdogHighMemoryMark,
        inVars, nxtVars, readVars, writeVars, flowVars, readerVars
  <2> QED
    BY <1>1, <2>1, Zenon
<1>17. CASE (WriteOne /\ mem = << >>) \/ (OpenFile /\ rgFile' = rgFile)
            \/ ((HandleLine \/ DeliverLine) /\ rdLine' = rdLine) \/ (EndReading /\ rd # "rest")
  <2>1. CASE WriteOne /\ mem = << >>
    BY <1>1, <2>1, Zenon DEF WriteOne, inVars, nxtVars, readVars, writeVars, flowVars, readerVars
  <2>2. CASE OpenFile /\ rgFile' = rgFile
    <3>1. rgFile = NoFile
      BY <1>0, <2>2, Zenon DEF FileInv, OpenFile
    <3>2. rgLeft' = rgLeft
      BY <1>a, <2>2, <3>1, Zenon DEF OpenFile
    <3> QED
      BY <1>1, <2>2, <3>2, Zenon DEF OpenFile, inVars, nxtVars, readVars, writeVars, flowVars
  <2>3. CASE (HandleLine \/ DeliverLine) /\ rdLine' = rdLine
    <3>1. rdLine # NoLine
      BY <1>0, <2>3, Zenon DEF HandsInv, HandleLine, DeliverLine
    <3>2. UNCHANGED <<disk, gone, delivered, restBuf>>
      BY <2>3, <3>1, Zenon DEF HandleLine, DeliverLine
    <3> QED
      BY <1>1, <2>3, <3>2, Zenon
      DEF HandleLine, DeliverLine, inVars, nxtVars, writeVars, readerVars
  <2>4. CASE EndReading /\ rd # "rest"
    <3>1. restBuf = << >>
      BY <1>0, <2>4, Zenon DEF FileInv
    <3> QED
      BY <1>1, <2>4, <3>1, Zenon DEF EndReading, inVars, nxtVars, writeVars, readerVars, flowVars
  <2> QED
    BY <1>17, <2>1, <2>2, <2>3, <2>4, Zenon
<1> QED
  BY <1>2, <1>3, <1>4, <1>5, <1>6, <1>7, <1>8, <1>9, <1>10, <1>11, <1>12, <1>13, <1>14, <1>15, <1>16,
     <1>17, Cases, Zenon
  DEF Feeds, Decides, Writes, Reads

-----------------------------------------------------------------------------
(* A flow that is at one of the places is in one of the slots of Where.    *)
LEMMA OneWhere ==
    ASSUME IInv, NEW f \in 1..(Leftover + fed)
    PROVE  \E place \in Where(f) : Where(f) = {place}
<1> DEFINE hands == {j \in 1..3 : <<inpMsg, nxtMsg, rdLine.f>>[j] = f}
           slots == {j \in DOMAIN mem : mem[j] = f}
           files == {g \in Exists : f \in OnDisk(g)}
           bufs == {j \in 1..2 : f \in FlowsOf(<<wBuf, restBuf>>[j])}
           sent == delivered \cap {f}
           lost == gone \cap {f}
<1>1. \A x : x \in Where(f) <=>
                 \/ \E k \in hands : x = <<"hand", k>>
                 \/ \E k \in slots : x = <<"mem", k>>
                 \/ \E n \in files : x = <<"disk", n>>
                 \/ \E k \in bufs : x = <<"buffer", k>>
                 \/ sent # {} /\ x = <<"delivered">>
                 \/ lost # {} /\ x = <<"gone">>
  BY Zenon DEF Where
<1>2. Exists \subseteq Files /\ DistinctInv /\ Partition(Held, 1..(Leftover + fed)) /\ f # NoFlow
  BY DEF IInv, TypeOK, NoFlow
<1>3. PICK p \in Places : f \in Held[p] /\ \A q \in Places : f \in Held[q] => q = p
  BY <1>2, Zenon DEF Partition
<1>a. /\ "in" \in Spots /\ "next" \in Spots /\ "line" \in Spots /\ "mem" \in Spots
      /\ "write" \in Spots /\ "rest" \in Spots /\ "delivered" \in Spots /\ "gone" \in Spots
      /\ \A s \in Spots : \/ s = "in" \/ s = "next" \/ s = "line" \/ s = "mem" \/ s = "write"
                          \/ s = "rest" \/ s = "delivered" \/ s = "gone"
  BY Zenon DEF Spots
<1>4. \A s \in Spots : f \in Held[At(s)] => p = At(s)
  BY <1>3, PlacesAre, Zenon
<1>5. hands = {j \in {1} : p = At("in")} \cup {j \in {2} : p = At("next")} \cup {j \in {3} : p = At("line")}
  <2>1. (inpMsg = f <=> p = At("in")) /\ (nxtMsg = f <=> p = At("next")) /\ (rdLine.f = f <=> p = At("line"))
    BY <1>2, <1>3, <1>4, <1>a, HeldIs, Zenon DEF HeldFacts
  <2>2. \A j : j \in hands <=> (j = 1 /\ inpMsg = f) \/ (j = 2 /\ nxtMsg = f) \/ (j = 3 /\ rdLine.f = f)
    OBVIOUS
  <2> HIDE DEF hands
  <2> QED
    BY <2>1, <2>2, Zenon
<1>6. IF p = At("mem") THEN \E k : slots = {k} ELSE slots = {}
  <2>1. f \in Values(mem) <=> p = At("mem")
    BY <1>3, <1>4, <1>a, HeldIs, Zenon DEF HeldFacts
  <2>2. \A i, j \in DOMAIN mem : mem[i] = mem[j] => i = j
    BY <1>2, Zenon DEF DistinctInv, Different
  <2>3. CASE p = At("mem")
    <3>1. PICK k \in DOMAIN mem : mem[k] = f
      BY <2>1, <2>3, Zenon DEF Values
    <3>2. slots = {k}
      BY <2>2, <3>1, Zenon
    <3> QED
      BY <2>3, <3>2, Zenon
  <2>4. CASE p # At("mem")
    BY <2>1, <2>4, Zenon DEF Values
  <2> QED
    BY <2>3, <2>4, Zenon
<1>7. \A n : n \in files <=> n \in Files /\ p = File(n)
  <2>1. ASSUME NEW n \in Files PROVE f \in Held[File(n)] <=> n \in files
    BY HeldIs, Zenon DEF HeldFacts
  <2>2. \A n \in files : n \in Files
    BY <1>2, Zenon
  <2> HIDE DEF files
  <2> QED
    BY <1>3, <2>1, <2>2, PlacesAre, Zenon
<1>8. bufs = {j \in {1} : p = At("write")} \cup {j \in {2} : p = At("rest")}
  <2>1. (f \in FlowsOf(wBuf) <=> p = At("write")) /\ (f \in FlowsOf(restBuf) <=> p = At("rest"))
    BY <1>3, <1>4, <1>a, HeldIs, Zenon DEF HeldFacts
  <2>2. \A j : j \in bufs <=> (j = 1 /\ f \in FlowsOf(wBuf)) \/ (j = 2 /\ f \in FlowsOf(restBuf))
    OBVIOUS
  <2> HIDE DEF bufs
  <2> QED
    BY <2>1, <2>2, Zenon
<1>9. /\ sent = IF p = At("delivered") THEN {f} ELSE {}
      /\ lost = IF p = At("gone") THEN {f} ELSE {}
  <2>1. (f \in delivered <=> p = At("delivered")) /\ (f \in gone <=> p = At("gone"))
    BY <1>3, <1>4, <1>a, HeldIs, Zenon DEF HeldFacts
  <2> QED
    BY <2>1, Zenon
<1> HIDE DEF hands, slots, files, bufs, sent, lost
<1>10. \E x : Where(f) = {x}
  <2>1. CASE \E s \in Spots : p = At(s)
    <3>1. PICK s \in Spots : p = At(s)
      BY <2>1, Zenon
    <3>2. \A t \in Spots : p = At(t) <=> t = s
      BY <3>1, PlacesAre, Zenon
    <3>3. files = {}
      BY <1>7, <3>1, PlacesAre, Zenon
    <3>4. CASE s = "in"
      <4>1. hands = {1} /\ slots = {} /\ bufs = {} /\ sent = {} /\ lost = {}
        BY <1>5, <1>6, <1>8, <1>9, <1>a, <3>2, <3>4, Zenon
      <4>2. Where(f) = {<<"hand", 1>>}
        BY <1>1, <3>3, <4>1, Zenon
      <4> QED
        BY <4>2, Zenon
    <3>5. CASE s = "next"
      <4>1. hands = {2} /\ slots = {} /\ bufs = {} /\ sent = {} /\ lost = {}
        BY <1>5, <1>6, <1>8, <1>9, <1>a, <3>2, <3>5, Zenon
      <4>2. Where(f) = {<<"hand", 2>>}
        BY <1>1, <3>3, <4>1, Zenon
      <4> QED
        BY <4>2, Zenon
    <3>6. CASE s = "line"
      <4>1. hands = {3} /\ slots = {} /\ bufs = {} /\ sent = {} /\ lost = {}
        BY <1>5, <1>6, <1>8, <1>9, <1>a, <3>2, <3>6, Zenon
      <4>2. Where(f) = {<<"hand", 3>>}
        BY <1>1, <3>3, <4>1, Zenon
      <4> QED
        BY <4>2, Zenon
    <3>7. CASE s = "mem"
      <4>1. hands = {} /\ bufs = {} /\ sent = {} /\ lost = {}
        BY <1>5, <1>8, <1>9, <1>a, <3>2, <3>7, Zenon
      <4>2. PICK k : slots = {k}
        BY <1>6, <1>a, <3>2, <3>7, Zenon
      <4>3. Where(f) = {<<"mem", k>>}
        BY <1>1, <3>3, <4>1, <4>2, Zenon
      <4> QED
        BY <4>3, Zenon
    <3>8. CASE s = "write"
      <4>1. hands = {} /\ slots = {} /\ bufs = {1} /\ sent = {} /\ lost = {}
        BY <1>5, <1>6, <1>8, <1>9, <1>a, <3>2, <3>8, Zenon
      <4>2. Where(f) = {<<"buffer", 1>>}
        BY <1>1, <3>3, <4>1, Zenon
      <4> QED
        BY <4>2, Zenon
    <3>9. CASE s = "rest"
      <4>1. hands = {} /\ slots = {} /\ bufs = {2} /\ sent = {} /\ lost = {}
        BY <1>5, <1>6, <1>8, <1>9, <1>a, <3>2, <3>9, Zenon
      <4>2. Where(f) = {<<"buffer", 2>>}
        BY <1>1, <3>3, <4>1, Zenon
      <4> QED
        BY <4>2, Zenon
    <3>10. CASE s \in {"delivered", "gone"}
      <4>1. hands = {} /\ slots = {} /\ bufs = {} /\ ((sent = {f} /\ lost = {}) \/ (sent = {} /\ lost = {f}))
        BY <1>5, <1>6, <1>8, <1>9, <1>a, <3>2, <3>10, Zenon
      <4>2. \/ Where(f) = {<<"delivered">>}
            \/ Where(f) = {<<"gone">>}
        BY <1>1, <3>3, <4>1
      <4> QED
        BY <4>2, Zenon
    <3> QED
      BY <1>a, <3>4, <3>5, <3>6, <3>7, <3>8, <3>9, <3>10, Zenon
  <2>2. CASE \E n \in Files : p = File(n)
    <3>1. PICK n \in Files : p = File(n)
      BY <2>2, Zenon
    <3>2. files = {n}
      BY <1>7, <3>1, PlacesAre, Zenon
    <3>3. \A s \in Spots : p # At(s)
      BY <3>1, PlacesAre, Zenon
    <3>4. hands = {} /\ slots = {} /\ bufs = {} /\ sent = {} /\ lost = {}
      BY <1>5, <1>6, <1>8, <1>9, <1>a, <3>3, Zenon
    <3>5. Where(f) = {<<"disk", n>>}
      BY <1>1, <3>2, <3>4, Zenon
    <3> QED
      BY <3>5, Zenon
  <2> QED
    BY <2>1, <2>2, PlacesAre, Zenon
<1> QED
  BY <1>10, Zenon

(* Run starts with what an earlier process left on disk.                   *)
LEMMA InitInv == Init => IInv
<1> SUFFICES ASSUME Init PROVE IInv
  BY Zenon
<1> DEFINE first == CHOOSE n \in Files : TRUE
           left == [k \in 1..Leftover |-> [f |-> k, ok |-> "ok"]]
<1>1. first \in Files
  BY BoundsAssumption, Zenon
<1>2. left \in Seq(Line) /\ DOMAIN left = 1..Leftover /\ \A k \in 1..Leftover : left[k].f = k
  <2>1. \A k \in 1..Leftover : [f |-> k, ok |-> "ok"] \in Line
    BY BoundsAssumption DEF Line, Flows
  <2>2. left \in [1..Leftover -> Line]
    BY <2>1, Zenon
  <2> QED
    BY <2>2, BoundsAssumption
<1>3. /\ disk = [name \in (IF Leftover = 0 THEN {} ELSE {first}) |-> left]
  BY Zenon DEF Init
<1> HIDE DEF first, left
<1>4. /\ Exists \subseteq {first} /\ disk \in [Exists -> Seq(Line)] /\ Exists \subseteq Files
      /\ \A name \in Exists : disk[name] = left
      /\ Leftover # 0 <=> Exists = {first}
      /\ Leftover = 0 <=> Exists = {}
  BY <1>1, <1>2, <1>3, Zenon DEF Exists
<1>5. TypeOK
  <2>1. fed \in 0..MaxFlows /\ wI \in 0..BatchSize /\ mem \in Seq(Flows) /\ Len(mem) <= Capacity
    BY BoundsAssumption, BatchAssumption, MarksAssumption DEF Init
  <2>2. wBuf \in Seq(Line) /\ restBuf \in Seq(Line) /\ rgLeft \in Seq(Line)
    BY DEF Init
  <2> QED
    BY <1>4, <2>1, <2>2 DEF Init, TypeOK
<1>6. RoundInv /\ HandsInv /\ StopInv /\ FileInv
  BY DEF Init, RoundInv, On, HandsInv, StopInv, FileInv, NoFile
<1>7. DistinctInv
  BY <1>2, <1>4 DEF Init, DistinctInv, Distinct, Different
<1>8. \A s \in Spots : Held[At(s)] = {}
  <2>1. FlowsOf(<< >>) = {} /\ Values(<< >>) = {} /\ rdLine.f = NoFlow
    BY DEF Init, FlowsOf, Values, NoLine
  <2> QED
    BY <2>1, HeldIs, Zenon DEF HeldFacts, Init, Spots
<1>9. /\ \A name \in Files : name # first => Held[File(name)] = {}
      /\ Held[File(first)] = 1..Leftover
  <2>1. rgFile = NoFile /\ NoFile \notin Files
    BY BoundsAssumption DEF Init, NoFile
  <2>2. FlowsOf(left) = 1..Leftover
    BY <1>2, Zenon DEF FlowsOf
  <2>3. Leftover = 0 => 1..Leftover = {}
    OBVIOUS
  <2> QED
    BY <1>1, <1>4, <2>1, <2>2, <2>3, HeldInFiles, Zenon
<1>10. Partition(Held, 1..(Leftover + fed))
  <2>1. fed = 0 /\ Leftover + 0 = Leftover
    BY BoundsAssumption DEF Init
  <2>2. \A p \in Places : p # File(first) => Held[p] = {}
    BY <1>8, <1>9, PlacesAre, Zenon
  <2>3. File(first) \in Places
    BY <1>1, PlacesAre, Zenon
  <2>4. UNION {Held[p] : p \in Places} = Held[File(first)]
    BY <2>2, <2>3, Zenon
  <2> QED
    BY <1>9, <2>1, <2>2, <2>4, Zenon DEF Partition
<1> QED
  BY <1>5, <1>6, <1>7, <1>10, Zenon DEF IInv

(* The invariant is inductive.                                             *)
LEMMA InvStep == IInv /\ [Next]_vars => IInv'
<1> SUFFICES ASSUME IInv, [Next]_vars PROVE IInv'
  BY Zenon
<1>1. RoundInv
  BY Zenon DEF IInv
<1> QED
  BY <1>1, NextTypes, NextRound, NextHands, NextStop, NextFile, NextFlows, Zenon DEF IInv

(* Every flow is at exactly one place, and none is left in memory when the *)
(* decider has stopped: what was read from disk is not read again, what is *)
(* written is not read before it is flushed.                               *)
THEOREM FlowsAtOnePlace == Spec => []OnePlace
<1>1. IInv => OnePlace
  <2> SUFFICES ASSUME IInv PROVE OnePlace
    BY Zenon
  <2>1. \A f \in 1..(Leftover + fed) : \E place \in Where(f) : Where(f) = {place}
    BY OneWhere, Zenon
  <2>2. dec = "exited" => mem = << >> /\ wBuf = << >> /\ restBuf = << >>
    BY Zenon DEF IInv, StopInv, FileInv, RoundInv
  <2>3. TypeOK
    BY Zenon DEF IInv
  <2> QED
    BY <2>1, <2>2, <2>3, Zenon DEF OnePlace
<1> QED
  BY <1>1, InitInv, InvStep, PTL DEF Spec

(* Reading and writing exclude each other.                                 *)
THEOREM ReadsAndWritesExclude == Spec => []NoReadWhileWriting
<1>1. Init => RoundInv
  BY DEF Init, RoundInv, On
<1>2. RoundInv => NoReadWhileWriting
  BY Zenon DEF RoundInv, NoReadWhileWriting
<1> QED
  BY <1>1, <1>2, NextRound, PTL DEF Spec
=============================================================================
