----------------------------- MODULE DiskBuffer -----------------------------
(***************************************************************************)
(* The diskbuffer segment (segments/input/diskbuffer/diskbuffer.go): flows *)
(* wait in the channel MemoryBuffer; when it is nearly full the decider    *)
(* lets WriteToDisk move flows into a new file, when it is nearly empty it *)
(* lets ReadFromDisk bring files back.  Watchdogs stop either.             *)
(*                                                                         *)
(* Goroutines: the input loop (inp), the loop that feeds the next segment  *)
(* (nxt), WatchCacheFiles (wat), the decider (dec), WriteToDisk (wtd) and  *)
(* its watchdog (wLow), ReadFromDisk (rd), the reader goroutine it starts  *)
(* (rg) and its two watchdogs (rLow, rHigh).  QueueStatus only logs.       *)
(*                                                                         *)
(* A line of a file is a flow and whether protojson can read it back.      *)
(***************************************************************************)
EXTENDS Integers, Sequences

CONSTANTS
    Capacity,                           \* of MemoryBuffer
    ReadMark, LowMark, HighMark,        \* the marks in flows: mark*Capacity/100
    BatchSize,
    MaxFlows,                           \* bound: flows received from In
    Leftover,                           \* bound: flows an earlier process left on disk
    Files                               \* bound: file names, numbers for the uuids

(* What New makes sure of, and a BatchSize other than 0, which New accepts.*)
ASSUME MarksAssumption ==
    /\ Capacity \in Nat /\ ReadMark \in Nat /\ LowMark \in Nat /\ HighMark \in Nat
    /\ ReadMark <= LowMark /\ LowMark <= HighMark /\ HighMark < Capacity
ASSUME BatchAssumption == BatchSize \in Nat \ {0}
ASSUME BoundsAssumption == MaxFlows \in Nat /\ Leftover \in Nat /\ Files \subseteq Nat /\ Files # {}

VARIABLES
    fed, inClosed,      \* flows received from In; In is closed
    inp, inpMsg,        \* the input loop
    stop,               \* how many of the stop channels it has closed, see Stopped
    mem,                \* MemoryBuffer
    nxt, nxtMsg,        \* the loop that feeds the next segment
    wat, cache,         \* WatchCacheFiles, and CacheFiles
    disk,               \* the lines of each file in BufferDir
    dec,                \* the decider
    wg,                 \* ReadWriteWG
    dogs,               \* StopWatchdogs of the current round: "open" or "closed"
    wtd, wFile, wBuf, wI,       \* WriteToDisk: its file, unflushed lines, batch counter
    wLow, stopW,                \* its watchdog, and StopWritingToDisk
    rd, rdLine, rest, restBuf,  \* ReadFromDisk: its line, the rest_ file and its lines
    rg, todo, rgFile, rgLeft,   \* its reader: files to read, open file, lines left in it
    rLow, rHigh, stopR, emerg,  \* its watchdogs, StopReadingFromDisk, Emergency...
    delivered, gone,    \* the flows sent to Out, and the lost ones
    outClosed, crashed

inVars == <<fed, inClosed, inp, inpMsg, stop>>
nxtVars == <<nxt, nxtMsg>>
watVars == <<wat, cache>>
writeVars == <<wtd, wFile, wBuf, wI>>
readVars == <<rd, rdLine, rest, restBuf>>
readerVars == <<rg, todo, rgFile, rgLeft>>
dogVars == <<wLow, stopW, rLow, rHigh, stopR, emerg>>
flowVars == <<delivered, gone>>
endVars == <<outClosed, crashed>>
vars == <<inVars, mem, nxtVars, watVars, disk, dec, wg, dogs, writeVars, readVars,
          readerVars, dogVars, flowVars, endVars>>

NoFlow == 0
NoFile == -1
DeadName == -2      \* in CacheFiles: a name whose file has been removed
Flows == 1..(Leftover + MaxFlows)
Line == [f : Flows, ok : {"ok", "bad"}]
NoLine == [f |-> NoFlow, ok |-> "bad"]

(* The channels are closed in this order: StopCacheFileWatcher,            *)
(* StopWritingNextSegment, StopDecider.                                    *)
Stopped(ch) == stop >= (CASE ch = "watcher" -> 1 [] ch = "next" -> 2 [] ch = "decider" -> 3)

Exists == DOMAIN disk
Create(name) == [f \in Exists \cup {name} |-> IF f = name THEN << >> ELSE disk[f]]
Remove(name) == [f \in Exists \ {name} |-> disk[f]]

(* A new uuid is the name of no file yet; which one makes no difference.   *)
FreeNames == Files \ Exists
NewName == CHOOSE name \in FreeNames : TRUE

TypeOK ==
    /\ fed \in 0..MaxFlows /\ inClosed \in {"no", "yes"}
    /\ inp \in {"recv", "put", "exited"} /\ inpMsg \in Flows \cup {NoFlow} /\ stop \in 0..3
    /\ mem \in Seq(Flows) /\ Len(mem) <= Capacity
    /\ nxt \in {"check", "take", "send", "exited"} /\ nxtMsg \in Flows \cup {NoFlow}
    /\ wat \in {"glob", "stat", "sleep", "exited"} /\ cache \subseteq Files \cup {DeadName}
    /\ Exists \subseteq Files /\ disk \in [Exists -> Seq(Line)]
    /\ dec \in {"top", "read", "readWait", "write", "writeWait", "final", "exited"}
    /\ wg \in 0..3 /\ dogs \in {"open", "closed"}
    /\ wtd \in {"off", "signal", "batch", "return"} /\ wFile \in Files \cup {NoFile}
    /\ wBuf \in Seq(Line) /\ wI \in 0..BatchSize
    /\ rd \in {"off", "recv", "handle", "deliver", "put", "rest", "return"}
    /\ rdLine \in Line \cup {NoLine} /\ rest \in Files \cup {NoFile} /\ restBuf \in Seq(Line)
    /\ rg \in {"off", "open", "line", "remove", "check"}
    /\ todo \subseteq Files \cup {DeadName} /\ rgFile \in Files \cup {NoFile} /\ rgLeft \in Seq(Line)
    /\ {wLow, rLow, rHigh} \subseteq {"off", "on"}
    /\ {stopW, stopR, emerg} \subseteq {"open", "closed"}
    /\ delivered \subseteq Flows /\ gone \subseteq Flows
    /\ outClosed \in {"no", "yes"} /\ crashed \in {"no", "yes"}

(* Run has started its goroutines; an earlier process may have left a file.*)
Init ==
    /\ fed = 0 /\ inClosed = "no" /\ inp = "recv" /\ inpMsg = NoFlow /\ stop = 0
    /\ mem = << >> /\ nxt = "check" /\ nxtMsg = NoFlow
    /\ wat = "glob" /\ cache = {}
    /\ disk = [name \in (IF Leftover = 0 THEN {} ELSE {CHOOSE n \in Files : TRUE}) |->
                  [k \in 1..Leftover |-> [f |-> k, ok |-> "ok"]]]
    /\ dec = "top" /\ wg = 0 /\ dogs = "closed"
    /\ wtd = "off" /\ wFile = NoFile /\ wBuf = << >> /\ wI = 0
    /\ rd = "off" /\ rdLine = NoLine /\ rest = NoFile /\ restBuf = << >>
    /\ rg = "off" /\ todo = {} /\ rgFile = NoFile /\ rgLeft = << >>
    /\ wLow = "off" /\ rLow = "off" /\ rHigh = "off"
    /\ stopW = "closed" /\ stopR = "closed" /\ emerg = "closed"
    /\ delivered = {} /\ gone = {} /\ outClosed = "no" /\ crashed = "no"

-----------------------------------------------------------------------------
(* The input loop and the segment before.                                  *)

ReceiveIn ==
    /\ crashed = "no" /\ inp = "recv" /\ inClosed = "no" /\ fed < MaxFlows
    /\ fed' = fed + 1 /\ inp' = "put" /\ inpMsg' = Leftover + fed + 1
    /\ UNCHANGED <<inClosed, stop, mem, nxtVars, watVars, disk, dec, wg, dogs, writeVars,
                   readVars, readerVars, dogVars, flowVars, endVars>>

CloseInput ==
    /\ crashed = "no" /\ inClosed = "no"
    /\ inClosed' = "yes"
    /\ UNCHANGED <<fed, inp, inpMsg, stop, mem, nxtVars, watVars, disk, dec, wg, dogs,
                   writeVars, readVars, readerVars, dogVars, flowVars, endVars>>

PutInput ==
    /\ crashed = "no" /\ inp = "put" /\ Len(mem) < Capacity
    /\ mem' = Append(mem, inpMsg) /\ inp' = "recv" /\ inpMsg' = NoFlow
    /\ UNCHANGED <<fed, inClosed, stop, nxtVars, watVars, disk, dec, wg, dogs, writeVars,
                   readVars, readerVars, dogVars, flowVars, endVars>>

(* After the loop the stop channels are closed one by one.                 *)
CloseStops ==
    /\ crashed = "no" /\ inp = "recv" /\ inClosed = "yes"
    /\ stop' = stop + 1
    /\ inp' = IF stop = 2 THEN "exited" ELSE "recv"
    /\ UNCHANGED <<fed, inClosed, inpMsg, mem, nxtVars, watVars, disk, dec, wg, dogs,
                   writeVars, readVars, readerVars, dogVars, flowVars, endVars>>

-----------------------------------------------------------------------------
(* The loop that feeds the next segment.                                   *)

CheckNext ==
    /\ crashed = "no" /\ nxt = "check"
    /\ nxt' = IF Stopped("next") THEN "exited" ELSE "take"
    /\ UNCHANGED <<inVars, mem, nxtMsg, watVars, disk, dec, wg, dogs, writeVars, readVars,
                   readerVars, dogVars, flowVars, endVars>>

TakeNext ==
    /\ crashed = "no" /\ nxt = "take" /\ mem # << >>
    /\ mem' = Tail(mem) /\ nxtMsg' = Head(mem) /\ nxt' = "send"
    /\ UNCHANGED <<inVars, watVars, disk, dec, wg, dogs, writeVars, readVars, readerVars,
                   dogVars, flowVars, endVars>>

SendNext ==
    /\ crashed = "no" /\ nxt = "send"
    /\ delivered' = delivered \cup {nxtMsg} /\ nxtMsg' = NoFlow /\ nxt' = "check"
    /\ UNCHANGED <<inVars, mem, watVars, disk, dec, wg, dogs, writeVars, readVars,
                   readerVars, dogVars, gone, endVars>>

-----------------------------------------------------------------------------
(* WatchCacheFiles.                                                        *)

Glob ==
    /\ crashed = "no" /\ wat = "glob"
    /\ cache' = Exists /\ wat' = "stat"
    /\ UNCHANGED <<inVars, mem, nxtVars, disk, dec, wg, dogs, writeVars, readVars,
                   readerVars, dogVars, flowVars, endVars>>

(* A file that is gone by now has no FileInfo: fi.Size() is a nil          *)
(* dereference, after the warning.                                         *)
StatFiles ==
    /\ crashed = "no" /\ wat = "stat"
    /\ crashed' = IF cache \subseteq Exists THEN "no" ELSE "yes"
    /\ wat' = "sleep"
    /\ UNCHANGED <<inVars, mem, nxtVars, cache, disk, dec, wg, dogs, writeVars, readVars,
                   readerVars, dogVars, flowVars, outClosed>>

WatcherWakes ==
    /\ crashed = "no" /\ wat = "sleep"
    /\ wat' = IF Stopped("watcher") THEN "exited" ELSE "glob"
    /\ UNCHANGED <<inVars, mem, nxtVars, cache, disk, dec, wg, dogs, writeVars, readVars,
                   readerVars, dogVars, flowVars, endVars>>

-----------------------------------------------------------------------------
(* The decider.  length < ReadMark and length > HighMark exclude each      *)
(* other, and the size it compares with MaxCacheSize is always 0.          *)

(* Faulty: files are read back while memory is in use.                     *)
Decide_Inverted ==
    /\ crashed = "no" /\ dec = "top" /\ ~Stopped("decider")
    /\ \/ Len(mem) > ReadMark /\ cache # {} /\ dec' = "read"
       \/ Len(mem) > HighMark /\ dec' = "write"
    /\ UNCHANGED <<inVars, mem, nxtVars, watVars, disk, wg, dogs, writeVars, readVars,
                   readerVars, dogVars, flowVars, endVars>>

Decide ==
    /\ crashed = "no" /\ dec = "top" /\ ~Stopped("decider")
    /\ \/ Len(mem) < ReadMark /\ cache # {} /\ dec' = "read"
       \/ Len(mem) > HighMark /\ dec' = "write"
    /\ UNCHANGED <<inVars, mem, nxtVars, watVars, disk, wg, dogs, writeVars, readVars,
                   readerVars, dogVars, flowVars, endVars>>

StartRead ==
    /\ crashed = "no" /\ dec = "read" /\ wg = 0
    /\ dec' = "readWait" /\ wg' = 3
    /\ dogs' = "open" /\ stopR' = "open" /\ emerg' = "open"
    /\ rLow' = "on" /\ rHigh' = "on"
    /\ rd' = "recv" /\ rg' = "open" /\ todo' = cache
    /\ UNCHANGED <<inVars, mem, nxtVars, watVars, disk, writeVars, rdLine, rest, restBuf,
                   rgFile, rgLeft, wLow, stopW, flowVars, endVars>>

(* WriteToDisk begins with os.Create.                                      *)
BeginWriting ==
    /\ FreeNames # {}
    /\ wFile' = NewName /\ disk' = Create(NewName)
    /\ wtd' = "signal" /\ wBuf' = << >> /\ wI' = 0
    /\ dogs' = "open" /\ stopW' = "open"

StartWrite ==
    /\ crashed = "no" /\ dec = "write" /\ wg = 0
    /\ dec' = "writeWait" /\ wg' = 2
    /\ BeginWriting /\ wLow' = "on"
    /\ UNCHANGED <<inVars, mem, nxtVars, watVars, readVars, readerVars, rLow, rHigh, stopR,
                   emerg, flowVars, endVars>>

(* <-StopDecider: one last WriteToDisk, without a watchdog.                *)
StartFinalWrite ==
    /\ crashed = "no" /\ dec = "top" /\ Stopped("decider")
    /\ dec' = "final" /\ wg' = wg + 1
    /\ BeginWriting
    /\ UNCHANGED <<inVars, mem, nxtVars, watVars, readVars, readerVars, wLow, rLow, rHigh,
                   stopR, emerg, flowVars, endVars>>

(* Faulty: no ReadWriteWG.Wait() at the end of a round.                    *)
RoundOver_NoWait ==
    /\ crashed = "no" /\ dec \in {"readWait", "writeWait", "final"}
    /\ dec' = IF dec = "final" THEN "exited" ELSE "top"
    /\ UNCHANGED <<inVars, mem, nxtVars, watVars, disk, wg, dogs, writeVars, readVars,
                   readerVars, dogVars, flowVars, endVars>>

(* ReadWriteWG.Wait() at the end of a round; nobody is left who knows its  *)
(* stop channels.                                                          *)
RoundOver ==
    /\ crashed = "no" /\ dec \in {"readWait", "writeWait", "final"} /\ wg = 0
    /\ dec' = IF dec = "final" THEN "exited" ELSE "top"
    /\ stopW' = "closed" /\ stopR' = "closed" /\ emerg' = "closed"
    /\ UNCHANGED <<inVars, mem, nxtVars, watVars, disk, wg, dogs, writeVars, readVars,
                   readerVars, wLow, rLow, rHigh, flowVars, endVars>>

-----------------------------------------------------------------------------
(* WriteToDisk.                                                            *)

CheckStopWriting ==
    /\ crashed = "no" /\ wtd = "signal"
    /\ wtd' = IF stopW = "closed" THEN "return" ELSE "batch"
    /\ wI' = 0
    /\ UNCHANGED <<inVars, mem, nxtVars, watVars, disk, dec, wg, dogs, wFile, wBuf, readVars,
                   readerVars, dogVars, flowVars, endVars>>

(* One round of the batch.  After a batch the size is compared with        *)
(* FileSize, but the break there only leaves the select.                   *)
WriteOne ==
    /\ crashed = "no" /\ wtd = "batch"
    /\ \/ /\ mem # << >>
          /\ mem' = Tail(mem) /\ wBuf' = Append(wBuf, [f |-> Head(mem), ok |-> "ok"])
          /\ wI' = wI + 1
          /\ wtd' = IF wI + 1 = BatchSize THEN "signal" ELSE "batch"
       \/ mem = << >> /\ wtd' = "return" /\ UNCHANGED <<mem, wBuf, wI>>
    /\ UNCHANGED <<inVars, nxtVars, watVars, disk, dec, wg, dogs, wFile, readVars, readerVars,
                   dogVars, flowVars, endVars>>

(* The deferred calls: flush and close the file, then ReadWriteWG.Done()   *)
(* and close(Watchdogs).                                                   *)
EndWriting ==
    /\ crashed = "no" /\ wtd = "return"
    /\ disk' = [disk EXCEPT ![wFile] = wBuf]
    /\ wtd' = "off" /\ wFile' = NoFile /\ wBuf' = << >> /\ wI' = 0
    /\ wg' = wg - 1 /\ dogs' = "closed"
    /\ UNCHANGED <<inVars, mem, nxtVars, watVars, dec, readVars, readerVars, dogVars,
                   flowVars, endVars>>

-----------------------------------------------------------------------------
(* The reader goroutine of ReadFromDisk.                                   *)

(* The next name of CacheFiles; a file that does not exist is skipped.     *)
OpenFile ==
    /\ crashed = "no" /\ rg = "open"
    /\ \/ \E name \in todo :
            /\ todo' = todo \ {name}
            /\ IF name \in Exists THEN rg' = "line" /\ rgFile' = name /\ rgLeft' = disk[name]
                                  ELSE UNCHANGED <<rg, rgFile, rgLeft>>
       \/ todo = {} /\ rg' = "off" /\ UNCHANGED <<todo, rgFile, rgLeft>>
    /\ UNCHANGED <<inVars, mem, nxtVars, watVars, disk, dec, wg, dogs, writeVars, readVars,
                   dogVars, flowVars, endVars>>

(* fromReader <- line meets one of the two loops of ReadFromDisk.  The     *)
(* second one writes the bytes of the line as decimal numbers.             *)
ReadLine ==
    /\ crashed = "no" /\ rg = "line" /\ rgLeft # << >>
    /\ rgLeft' = Tail(rgLeft)
    /\ \/ rd = "recv" /\ rd' = "handle" /\ rdLine' = Head(rgLeft) /\ UNCHANGED restBuf
       \/ rd = "rest" /\ restBuf' = Append(restBuf, [f |-> Head(rgLeft).f, ok |-> "bad"])
          /\ UNCHANGED <<rd, rdLine>>
    /\ UNCHANGED <<inVars, mem, nxtVars, watVars, disk, dec, wg, dogs, writeVars, rest, rg,
                   todo, rgFile, dogVars, flowVars, endVars>>

(* Faulty: the file is closed and not removed.                             *)
RemoveFile_Kept ==
    /\ crashed = "no" /\ rg = "line" /\ rgLeft = << >>
    /\ rg' = "check" /\ rgFile' = NoFile
    /\ UNCHANGED <<inVars, mem, nxtVars, watVars, disk, dec, wg, dogs, writeVars, readVars,
                   todo, rgLeft, dogVars, flowVars, endVars>>

(* At the end of the file it is removed.  Its name stays in CacheFiles     *)
(* until the next Glob.                                                    *)
RemoveFile ==
    /\ crashed = "no" /\ rg = "line" /\ rgLeft = << >>
    /\ disk' = Remove(rgFile)
    /\ cache' = IF rgFile \in cache THEN (cache \ {rgFile}) \cup {DeadName} ELSE cache
    /\ rg' = "check" /\ rgFile' = NoFile
    /\ UNCHANGED <<inVars, mem, nxtVars, wat, dec, wg, dogs, writeVars, readVars, todo,
                   rgLeft, dogVars, flowVars, endVars>>

CheckStopReading ==
    /\ crashed = "no" /\ rg = "check"
    /\ rg' = IF stopR = "closed" \/ emerg = "closed" THEN "off" ELSE "open"
    /\ todo' = IF stopR = "closed" \/ emerg = "closed" THEN {} ELSE todo
    /\ UNCHANGED <<inVars, mem, nxtVars, watVars, disk, dec, wg, dogs, writeVars, readVars,
                   rgFile, rgLeft, dogVars, flowVars, endVars>>

-----------------------------------------------------------------------------
(* ReadFromDisk.                                                           *)

(* Emergency: a rest_ file is created for the lines to come; the line at   *)
(* hand is not written.  Otherwise the line is parsed.                     *)
HandleLine ==
    /\ crashed = "no" /\ rd = "handle"
    /\ \/ /\ emerg = "closed" /\ FreeNames # {}
          /\ rest' = NewName /\ disk' = Create(NewName)
          /\ rd' = "rest" /\ gone' = gone \cup {rdLine.f} /\ rdLine' = NoLine
       \/ /\ emerg = "open" /\ rdLine.ok = "bad"
          /\ rd' = "recv" /\ gone' = gone \cup {rdLine.f} /\ rdLine' = NoLine
          /\ UNCHANGED <<rest, disk>>
       \/ /\ emerg = "open" /\ rdLine.ok = "ok"
          /\ rd' = "deliver"
          /\ UNCHANGED <<rest, disk, gone, rdLine>>
    /\ UNCHANGED <<inVars, mem, nxtVars, watVars, dec, wg, dogs, writeVars, restBuf,
                   readerVars, dogVars, delivered, endVars>>

(* Out takes the message, or 10 ms pass and it goes to MemoryBuffer.       *)
DeliverLine ==
    /\ crashed = "no" /\ rd = "deliver"
    /\ \/ rd' = "recv" /\ delivered' = delivered \cup {rdLine.f} /\ rdLine' = NoLine
       \/ rd' = "put" /\ UNCHANGED <<delivered, rdLine>>
    /\ UNCHANGED <<inVars, mem, nxtVars, watVars, disk, dec, wg, dogs, writeVars, rest,
                   restBuf, readerVars, dogVars, gone, endVars>>

PutLine ==
    /\ crashed = "no" /\ rd = "put" /\ Len(mem) < Capacity
    /\ mem' = Append(mem, rdLine.f) /\ rd' = "recv" /\ rdLine' = NoLine
    /\ UNCHANGED <<inVars, nxtVars, watVars, disk, dec, wg, dogs, writeVars, rest, restBuf,
                   readerVars, dogVars, flowVars, endVars>>

(* fromReader is closed and the deferred calls run.                        *)
EndReading ==
    /\ crashed = "no" /\ rd \in {"recv", "rest"} /\ rg = "off"
    /\ disk' = IF rd = "rest" THEN [disk EXCEPT ![rest] = restBuf] ELSE disk
    /\ rd' = "off" /\ rest' = NoFile /\ restBuf' = << >>
    /\ wg' = wg - 1 /\ dogs' = "closed"
    /\ UNCHANGED <<inVars, mem, nxtVars, watVars, dec, writeVars, rdLine, readerVars, dogVars,
                   flowVars, endVars>>

-----------------------------------------------------------------------------
(* The watchdogs.  Each looks at StopWatchdogs, then at the fill level.    *)

WriteWatchdogLowMemoryMark ==
    /\ crashed = "no" /\ wLow = "on"
    /\ \/ dogs = "closed" /\ UNCHANGED stopW
       \/ dogs = "open" /\ ~Stopped("decider") /\ Len(mem) < LowMark /\ stopW' = "closed"
    /\ wLow' = "off" /\ wg' = wg - 1
    /\ UNCHANGED <<inVars, mem, nxtVars, watVars, disk, dec, dogs, writeVars, readVars,
                   readerVars, rLow, rHigh, stopR, emerg, flowVars, endVars>>

ReadWatchdogLowMemoryMark ==
    /\ crashed = "no" /\ rLow = "on"
    /\ \/ dogs = "closed" /\ UNCHANGED stopR
       \/ dogs = "open" /\ Len(mem) > LowMark /\ stopR' = "closed"
    /\ rLow' = "off" /\ wg' = wg - 1
    /\ UNCHANGED <<inVars, mem, nxtVars, watVars, disk, dec, dogs, writeVars, readVars,
                   readerVars, wLow, stopW, rHigh, emerg, flowVars, endVars>>

ReadWatchdogHighMemoryMark ==
    /\ crashed = "no" /\ rHigh = "on"
    /\ \/ dogs = "closed" /\ UNCHANGED emerg
       \/ Stopped("decider") /\ emerg' = "closed"
       \/ dogs = "open" /\ ~Stopped("decider") /\ Len(mem) > HighMark /\ emerg' = "closed"
    /\ rHigh' = "off" /\ wg' = wg - 1
    /\ UNCHANGED <<inVars, mem, nxtVars, watVars, disk, dec, dogs, writeVars, readVars,
                   readerVars, wLow, stopW, rLow, stopR, flowVars, endVars>>

-----------------------------------------------------------------------------
(* BufferWG.Wait() returns and Run closes Out.                             *)
CloseOut ==
    /\ crashed = "no" /\ outClosed = "no"
    /\ inp = "exited" /\ nxt = "exited" /\ wat = "exited" /\ dec = "exited"
    /\ outClosed' = "yes"
    /\ UNCHANGED <<inVars, mem, nxtVars, watVars, disk, dec, wg, dogs, writeVars, readVars,
                   readerVars, dogVars, flowVars, crashed>>

InputLoop == ReceiveIn \/ PutInput \/ CloseStops
NextLoop == CheckNext \/ TakeNext \/ SendNext
WatchCacheFiles == Glob \/ StatFiles \/ WatcherWakes
Decider == Decide \/ StartRead \/ StartWrite \/ StartFinalWrite \/ RoundOver
WriteToDisk == CheckStopWriting \/ WriteOne \/ EndWriting
Reader == OpenFile \/ ReadLine \/ RemoveFile \/ CheckStopReading
ReadFromDisk == HandleLine \/ DeliverLine \/ PutLine \/ EndReading

Next ==
    \/ InputLoop \/ CloseInput \/ NextLoop \/ WatchCacheFiles \/ Decider \/ CloseOut
    \/ WriteToDisk \/ Reader \/ ReadFromDisk
    \/ WriteWatchdogLowMemoryMark \/ ReadWatchdogLowMemoryMark \/ ReadWatchdogHighMemoryMark

(* The scheduler runs every goroutine that can run, the next segment keeps *)
(* receiving, and timers fire.  Goroutines blocked on MemoryBuffer are     *)
(* served in the order in which they came, so none of them waits while     *)
(* others send or receive forever: strong fairness.  Nobody has to send    *)
(* flows or to close In, and nothing is assumed once In is closed.         *)
Open(A) == inClosed = "no" /\ A

Fairness ==
    /\ SF_vars(Open(PutInput)) /\ SF_vars(Open(TakeNext)) /\ SF_vars(Open(PutLine))
    /\ WF_vars(Open(NextLoop)) /\ WF_vars(Open(WatchCacheFiles)) /\ WF_vars(Open(Decider))
    /\ WF_vars(Open(WriteToDisk)) /\ WF_vars(Open(Reader)) /\ WF_vars(Open(ReadFromDisk))
    /\ WF_vars(Open(WriteWatchdogLowMemoryMark)) /\ WF_vars(Open(ReadWatchdogLowMemoryMark))
    /\ WF_vars(Open(ReadWatchdogHighMemoryMark))

Spec == Init /\ [][Next]_vars
FairSpec == Spec /\ Fairness

-----------------------------------------------------------------------------
(* Properties.                                                             *)

(* "the ReadWriteWG ensures, that there are no Read and Write at the same  *)
(* time": while WriteToDisk runs, neither ReadFromDisk nor its reader runs.*)
NoReadWhileWriting == wtd # "off" => rd = "off" /\ rg = "off"

(* The flows in the lines of a sequence.                                   *)
FlowsOf(lines) == {lines[k].f : k \in DOMAIN lines}

(* The lines still to be read: of the open file only the rest counts.      *)
OnDisk(name) == FlowsOf(IF name = rgFile THEN rgLeft ELSE disk[name])

Where(f) ==
    {<<"hand", k>> : k \in {j \in 1..3 : <<inpMsg, nxtMsg, rdLine.f>>[j] = f}}
    \cup {<<"mem", k>> : k \in {j \in DOMAIN mem : mem[j] = f}}
    \cup {<<"disk", name>> : name \in {g \in Exists : f \in OnDisk(g)}}
    \cup {<<"buffer", k>> : k \in {j \in 1..2 : f \in FlowsOf(<<wBuf, restBuf>>[j])}}
    \cup {<<"delivered">> : x \in delivered \cap {f}} \cup {<<"gone">> : x \in gone \cap {f}}

(* Every flow received or found on disk at the start is at exactly one     *)
(* place: in a goroutine's hands, in MemoryBuffer, in a file, delivered or *)
(* lost.  No flow is delivered twice, no file is read twice, and a file    *)
(* that was not flushed is never read.  When the decider has stopped none  *)
(* is in memory: the last WriteToDisk has saved what was left.             *)
OnePlace ==
    /\ TypeOK
    /\ \A f \in 1..(Leftover + fed) : \E place \in Where(f) : Where(f) = {place}
    /\ dec = "exited" => mem = << >> /\ wBuf = << >> /\ restBuf = << >>

(* While In is open every flow is delivered in the end, whether it waited  *)
(* in memory or went through files, or it is lost in an emergency: again   *)
(* and again none is on its way.                                           *)
FlowsComeThrough ==
    []<>(delivered \cup gone = 1..(Leftover + fed) \/ inClosed = "yes" \/ crashed = "yes")

=============================================================================
