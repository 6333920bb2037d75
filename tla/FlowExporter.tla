---------------------------- MODULE FlowExporter ----------------------------
(***************************************************************************)
(* The flow cache of the packet and bpf segments (filter/aggregate/        *)
(* flowcache.go, input/bpf/flow_exporter.go, input/packet/packet.go).      *)
(* Goroutines: ConsumeFrom (con), which inserts packets into the cache,    *)
(* exportInactive and exportActive (exp), and the segment's Run (run).     *)
(* export() sends on the unbuffered channel Flows while it holds the       *)
(* mutex.                                                                  *)
(*                                                                         *)
(* Time is counted in units; a record keeps its ages instead of its        *)
(* timestamps, up to the first age at which nothing changes any more.      *)
(***************************************************************************)
EXTENDS Integers, Sequences

CONSTANTS
    Keys,               \* the FlowKeys
    Active, Inactive,   \* the two timeouts
    MaxPackets          \* bound: packets captured

ASSUME TimeoutsAssumption == Active \in Nat \ {0} /\ Inactive \in Nat \ {0}
ASSUME PacketsAssumption == MaxPackets \in Nat

VARIABLES
    method,         \* "bpf", or of a packet segment: "file" or a "capture" on a device
    slow,           \* time may pass while the next segment lets Run wait
    seen,           \* packets captured
    con, pkt,       \* ConsumeFrom, and the packet it inserts
    mutex,          \* who holds it
    cache,          \* the packets of each key's record; none: no record
    first, last,    \* the ages of TimeReceived and LastUpdated
    ticker, fired,  \* units until each ticker's next tick; a tick is in its channel
    exp, due,       \* the exporters, and the keys over the timeout at their `now`
    sending,        \* the flow each goroutine is sending on Flows
    run, msg,       \* Run, and the flow it is sending on Out
    out,            \* the flows sent on Out
    inClosed        \* In is closed

consVars == <<seen, con, pkt>>
recVars == <<cache, first, last>>
clockVars == <<ticker, fired>>
runVars == <<run, msg, out, inClosed>>
vars == <<method, slow, consVars, mutex, recVars, clockVars, exp, due, sending, runVars>>

Methods == {"bpf", "capture", "file"}
Exporters == {"inactive", "active"}
Goroutines == Exporters \cup {"con"}
Timeout(e) == IF e = "active" THEN Active ELSE Inactive
Packet == [n : 1..MaxPackets, key : Keys, fin : BOOLEAN]
NoPacket == [n |-> 0, key |-> CHOOSE k \in Keys : TRUE, fin |-> FALSE]
NoFlow == << >>
Present == {k \in Keys : cache[k] # NoFlow}

TypeOK ==
    /\ method \in Methods /\ slow \in BOOLEAN
    /\ seen \in 0..MaxPackets /\ con \in {"recv", "lock", "send", "exited", "fatal"}
    /\ pkt \in Packet \cup {NoPacket}
    /\ mutex \in Goroutines \cup {"free"}
    /\ cache \in [Keys -> Seq(Packet)]
    /\ first \in [Keys -> 0..(2 * Active + 1)] /\ last \in [Keys -> 0..(2 * Inactive + 1)]
    /\ \A e \in Exporters : ticker[e] \in 1..Timeout(e)
    /\ fired \in [Exporters -> BOOLEAN]
    /\ exp \in [Exporters -> {"tick", "lock", "scan", "send", "exited"}]
    /\ due \in [Exporters -> SUBSET Keys]
    /\ sending \in [Goroutines -> Seq(Packet)]
    /\ run \in {"select", "send", "pass", "exited"} /\ msg \in Seq(Packet)
    /\ out \in Seq(Seq(Packet)) /\ inClosed \in BOOLEAN

(* Run has called exporter.Start and launched ConsumeFrom.                 *)
Init ==
    /\ method \in Methods /\ slow \in BOOLEAN
    /\ seen = 0 /\ con = "recv" /\ pkt = NoPacket /\ mutex = "free"
    /\ cache = [k \in Keys |-> NoFlow]
    /\ first = [k \in Keys |-> 0] /\ last = [k \in Keys |-> 0]
    /\ ticker = [e \in Exporters |-> Timeout(e)] /\ fired = [e \in Exporters |-> FALSE]
    /\ exp = [e \in Exporters |-> "tick"] /\ due = [e \in Exporters |-> {}]
    /\ sending = [g \in Goroutines |-> NoFlow]
    /\ run = "select" /\ msg = NoFlow /\ out = << >> /\ inClosed = FALSE

-----------------------------------------------------------------------------
(* ConsumeFrom.                                                            *)

Receive ==
    /\ con = "recv" /\ seen < MaxPackets
    /\ \E k \in Keys, fin \in BOOLEAN : pkt' = [n |-> seen + 1, key |-> k, fin |-> fin]
    /\ seen' = seen + 1 /\ con' = "lock"
    /\ UNCHANGED <<method, slow, mutex, recVars, clockVars, exp, due, sending, runVars>>

(* export(key): the record leaves the cache, BuildFlow makes one flow of   *)
(* its packets, and g is about to send it.                                 *)
Export(g, k, packets) ==
    /\ cache' = [cache EXCEPT ![k] = NoFlow]
    /\ first' = [first EXCEPT ![k] = 0] /\ last' = [last EXCEPT ![k] = 0]
    /\ due' = [e \in Exporters |-> due[e] \ {k}]
    /\ sending' = [sending EXCEPT ![g] = packets]

(* The packet's timestamp may be older than the `now` of an exporter that  *)
(* waits for the mutex: bpf takes the time in Insert, a packet of a file   *)
(* is of long ago, and a captured one is if it waited for a slow reader.   *)
Stamps ==
    CASE method = "bpf" -> {"now"}
      [] method = "file" -> {"old"}
      [] method = "capture" -> {"now"} \cup {x \in {"old"} : slow}

Update(k, packets, stamp) ==
    /\ cache' = [cache EXCEPT ![k] = packets]
    /\ last' = [last EXCEPT ![k] = IF stamp = "old" THEN 2 * Inactive + 1 ELSE 0]
    /\ first' = [first EXCEPT ![k] = IF k \in Present THEN @
                                     ELSE IF stamp = "old" THEN 2 * Active + 1 ELSE 0]
    /\ due' = [e \in Exporters |->
                  IF e = "active" /\ k \in Present THEN due[e]
                  ELSE IF stamp = "old" /\ exp[e] = "lock" THEN due[e] \cup {k}
                  ELSE due[e] \ {k}]
    /\ UNCHANGED sending

(* Insert: a TCP FIN exports the record at once, with the mutex held.      *)
Insert ==
    /\ con = "lock" /\ mutex = "free"
    /\ LET packets == Append(cache[pkt.key], pkt)
       IN  IF pkt.fin
           THEN Export("con", pkt.key, packets) /\ mutex' = "con" /\ con' = "send"
           ELSE /\ \E stamp \in Stamps : Update(pkt.key, packets, stamp)
                /\ mutex' = "free" /\ con' = "recv"
    /\ pkt' = NoPacket
    /\ UNCHANGED <<method, slow, seen, clockVars, exp, runVars>>

(* The file has ended: ConsumeFrom returns and the segment asks for the    *)
(* pipeline's shutdown.                                                    *)
EndOfFile ==
    /\ con = "recv" /\ method = "file"
    /\ con' = "exited"
    /\ UNCHANGED <<method, slow, seen, pkt, mutex, recVars, clockVars, exp, due, sending, runVars>>

(* <-f.stop: the goroutine that called ConsumeFrom for a capture takes any *)
(* return for an error and ends the process with log.Fatal.                *)
StopConsume ==
    /\ con = "recv" /\ run = "exited"
    /\ con' = IF method = "capture" THEN "fatal" ELSE "exited"
    /\ UNCHANGED <<method, slow, seen, pkt, mutex, recVars, clockVars, exp, due, sending, runVars>>

-----------------------------------------------------------------------------
(* exportInactive and exportActive.                                        *)

Older(e, k) == IF e = "active" THEN first[k] ELSE last[k]

(* Faulty: exportActive looks at LastUpdated as well.                      *)
TickFires_Last(e) ==
    /\ exp[e] = "tick" /\ fired[e]
    /\ fired' = [fired EXCEPT ![e] = FALSE]
    /\ due' = [due EXCEPT ![e] = {k \in Present : last[k] > Timeout(e)}]
    /\ exp' = [exp EXCEPT ![e] = "lock"]
    /\ UNCHANGED <<method, slow, consVars, mutex, recVars, ticker, sending, runVars>>

(* <-ticker.C and now := time.Now(), before the mutex is taken.            *)
TickFires(e) ==
    /\ con # "fatal" /\ exp[e] = "tick" /\ fired[e]
    /\ fired' = [fired EXCEPT ![e] = FALSE]
    /\ due' = [due EXCEPT ![e] = {k \in Present : Older(e, k) > Timeout(e)}]
    /\ exp' = [exp EXCEPT ![e] = "lock"]
    /\ UNCHANGED <<method, slow, consVars, mutex, recVars, ticker, sending, runVars>>

Lock(e) ==
    /\ con # "fatal" /\ exp[e] = "lock" /\ mutex = "free"
    /\ mutex' = e /\ exp' = [exp EXCEPT ![e] = "scan"]
    /\ UNCHANGED <<method, slow, consVars, recVars, clockVars, due, sending, runVars>>

(* Faulty: the mutex is released before the send.                          *)
ExportNext_Unlocked(e) ==
    /\ exp[e] = "scan"
    /\ \E k \in due[e] \cap Present : Export(e, k, cache[k])
    /\ exp' = [exp EXCEPT ![e] = "send"] /\ mutex' = "free"
    /\ UNCHANGED <<method, slow, consVars, clockVars, runVars>>

(* The loop over the cache, in any order.                                  *)
ExportNext(e) ==
    /\ con # "fatal" /\ exp[e] = "scan"
    /\ \E k \in due[e] \cap Present : Export(e, k, cache[k])
    /\ exp' = [exp EXCEPT ![e] = "send"]
    /\ UNCHANGED <<method, slow, consVars, mutex, clockVars, runVars>>

Unlock(e) ==
    /\ con # "fatal" /\ exp[e] = "scan" /\ due[e] \cap Present = {}
    /\ mutex' = "free"
    /\ due' = [due EXCEPT ![e] = {}] /\ exp' = [exp EXCEPT ![e] = "tick"]
    /\ UNCHANGED <<method, slow, consVars, recVars, clockVars, sending, runVars>>

(* <-f.stop.                                                               *)
StopExport(e) ==
    /\ con # "fatal" /\ exp[e] = "tick" /\ run = "exited"
    /\ exp' = [exp EXCEPT ![e] = "exited"]
    /\ UNCHANGED <<method, slow, consVars, mutex, recVars, clockVars, due, sending, runVars>>

-----------------------------------------------------------------------------
(* Run.                                                                    *)

(* <-exporter.Flows, which ends the export of g.                           *)
TakeFlow(g) ==
    /\ run = "select" /\ sending[g] # NoFlow
    /\ msg' = sending[g] /\ run' = "send" /\ sending' = [sending EXCEPT ![g] = NoFlow]
    /\ IF g = "con" THEN con' = "recv" /\ mutex' = "free" /\ UNCHANGED exp
       ELSE exp' = [exp EXCEPT ![g] = "scan"] /\ UNCHANGED <<con, mutex>>
    /\ UNCHANGED <<method, slow, seen, pkt, recVars, clockVars, due, out, inClosed>>

SendOut ==
    /\ run = "send"
    /\ out' = Append(out, msg) /\ msg' = NoFlow /\ run' = "select"
    /\ UNCHANGED <<method, slow, consVars, mutex, recVars, clockVars, exp, due, sending, inClosed>>

(* A flow from In, which is passed on.                                     *)
PassIn ==
    /\ run = "select" /\ ~inClosed /\ run' = "pass"
    /\ UNCHANGED <<method, slow, consVars, mutex, recVars, clockVars, exp, due, sending, msg, out,
                   inClosed>>

PassOut ==
    /\ run = "pass" /\ run' = "select"
    /\ UNCHANGED <<method, slow, consVars, mutex, recVars, clockVars, exp, due, sending, msg, out,
                   inClosed>>

CloseInput ==
    /\ ~inClosed /\ inClosed' = TRUE
    /\ UNCHANGED <<method, slow, consVars, mutex, recVars, clockVars, exp, due, sending, run, msg, out>>

(* Faulty: no check of ok, so that nil is passed on again and again.       *)
Return_Nil ==
    /\ run = "select" /\ inClosed /\ run' = "pass"
    /\ UNCHANGED <<method, slow, consVars, mutex, recVars, clockVars, exp, due, sending, msg, out,
                   inClosed>>

(* In is closed: Out is closed and Stop() is called.                       *)
Return ==
    /\ run = "select" /\ inClosed /\ run' = "exited"
    /\ UNCHANGED <<method, slow, consVars, mutex, recVars, clockVars, exp, due, sending, msg, out,
                   inClosed>>

-----------------------------------------------------------------------------
(* Nothing is to be done before time passes.                               *)
Idle ==
    /\ run \in {"select", "pass"} /\ con \notin {"lock", "send"} /\ mutex = "free"
    /\ \A e \in Exporters : exp[e] = "tick" /\ ~fired[e]

Older1(age, cap) == IF age < cap THEN age + 1 ELSE cap

(* A ticker's channel has room for one tick.                               *)
Tick ==
    /\ Idle \/ (slow /\ run = "send")
    /\ first' = [k \in Keys |-> IF k \in Present THEN Older1(first[k], 2 * Active + 1) ELSE 0]
    /\ last' = [k \in Keys |-> IF k \in Present THEN Older1(last[k], 2 * Inactive + 1) ELSE 0]
    /\ ticker' = [e \in Exporters |-> IF ticker[e] = 1 THEN Timeout(e) ELSE ticker[e] - 1]
    /\ fired' = [e \in Exporters |-> fired[e] \/ ticker[e] = 1]
    /\ UNCHANGED <<method, slow, consVars, mutex, cache, exp, due, sending, runVars>>

Exporter(e) == TickFires(e) \/ Lock(e) \/ ExportNext(e) \/ Unlock(e) \/ StopExport(e)

Next ==
    \/ Receive \/ Insert \/ EndOfFile \/ StopConsume \/ Tick
    \/ \E e \in Exporters : Exporter(e)
    \/ \E g \in Goroutines : TakeFlow(g)
    \/ SendOut \/ PassIn \/ PassOut \/ CloseInput \/ Return

(* The goroutines run and time passes; select chooses at random among the  *)
(* ready cases, so that the flows from In cannot keep Run from Flows.      *)
Fairness ==
    /\ WF_vars(Insert) /\ WF_vars(Tick)
    /\ \A e \in Exporters : WF_vars(Exporter(e))
    /\ SF_vars(\E g \in Goroutines : TakeFlow(g))
    /\ WF_vars(SendOut) /\ WF_vars(PassOut) /\ WF_vars(Return)

Spec == Init /\ [][Next]_vars
FairSpec == Spec /\ Fairness

-----------------------------------------------------------------------------
(* Properties.                                                             *)

Numbers(packets) == {packets[i].n : i \in DOMAIN packets}

(* How far packet n has come: the place of its flow on Out, or how far     *)
(* behind it is.                                                           *)
Stages(n) ==
    {i \in DOMAIN out : n \in Numbers(out[i])}
    \cup {Len(out) + 1 : x \in Numbers(msg) \cap {n}}
    \cup {Len(out) + 2 : g \in {h \in Goroutines : n \in Numbers(sending[h])}}
    \cup {Len(out) + 3 : k \in {j \in Keys : n \in Numbers(cache[j])}}
    \cup {Len(out) + 4 : x \in {pkt.n} \cap {n}}

(* Every packet is counted in one flow: it is at one stage on its way from *)
(* the capture to Out, whatever the exporters do at the same time.  The    *)
(* flows of one key are sent in the order of their packets, although three *)
(* goroutines export them: a flow never contains a packet that is newer    *)
(* than one of a later flow of the same key.                               *)
PacketsOnceInOrder ==
    /\ TypeOK
    /\ \A n \in 1..seen : \E s \in Stages(n) : Stages(n) = {s}
    /\ \A k \in Keys, i, j \in DOMAIN out :
          i < j => \A p \in DOMAIN out[i], q \in DOMAIN out[j] :
                      out[i][p].key = k /\ out[j][q].key = k => out[i][p].n < out[j][q].n

(* If the next segment keeps up, no record stays longer than twice the     *)
(* timeouts: the comparison is strict and the tickers have the period of   *)
(* the timeout.                                                            *)
RecordsExpire ==
    ~slow /\ method # "file" =>
        \A k \in Present : first[k] <= 2 * Active /\ last[k] <= 2 * Inactive

(* export sends on Flows with the mutex held: until Run has returned,      *)
(* whoever holds the mutex can go on.  It scans the cache, or it offers a  *)
(* flow, which Run takes once it is back from its own send on Out; no path *)
(* through Insert and the exporters leaves the mutex locked.               *)
HolderNeverStuck ==
    mutex # "free" /\ run # "exited" =>
        /\ con # "fatal"
        /\ sending[mutex] # NoFlow \/ (mutex \in Exporters /\ exp[mutex] = "scan")

(* While In is open every captured packet leaves in a flow: holding the    *)
(* mutex while sending never blocks the goroutines for good.  Once In is   *)
(* closed Run returns, also when an exporter is sending.                   *)
PacketsComeOut ==
    /\ []HolderNeverStuck
    /\ \A n \in 1..MaxPackets :
          seen >= n ~> inClosed \/ \E i \in DOMAIN out : n \in Numbers(out[i])
    /\ inClosed ~> run = "exited"
=============================================================================
