-------------------------- MODULE FlowExporter_proof --------------------------
(***************************************************************************)
(* Proofs for the flow cache, for any keys, timeouts and number of         *)
(* packets: the mutex keeps every packet in one place and the flows of a   *)
(* key in order, no record outlives twice its timeouts, and sending with   *)
(* the mutex held blocks no one while Run is there to receive.             *)
(***************************************************************************)
EXTENDS FlowExporter, TLAPS

(* Who exports holds the mutex, and only who exports has a flow to send.   *)
MutexInv ==
    /\ con = "send" => mutex = "con"
    /\ \A e \in Exporters : exp[e] \in {"scan", "send"} => mutex = e
    /\ sending["con"] # NoFlow => con = "send"
    /\ \A e \in Exporters : sending[e] # NoFlow => exp[e] = "send"
    /\ msg # NoFlow => run = "send"
    /\ IF con = "lock" THEN pkt \in Packet /\ pkt.n = seen ELSE pkt = NoPacket

Pkts(s) == {s[i] : i \in DOMAIN s}

(* No packet is in both, and of each key those in A are the older ones.    *)
Before(A, B) == \A p \in A, q \in B : p.n # q.n /\ (p.key = q.key => p.n < q.n)

(* The packets that ConsumeFrom does not hold any more.                    *)
Inserted == IF con = "lock" THEN seen - 1 ELSE seen
Upto(A, n) == \A p \in A : p.n <= n

(* The stages of a packet, from Out back to the cache.                     *)
OrderInv ==
    /\ \A i, j \in DOMAIN out : i < j => Before(Pkts(out[i]), Pkts(out[j]))
    /\ \A i \in DOMAIN out :
          /\ Before(Pkts(out[i]), Pkts(msg)) /\ Upto(Pkts(out[i]), Inserted)
          /\ \A g \in Goroutines : Before(Pkts(out[i]), Pkts(sending[g]))
          /\ \A k \in Keys : Before(Pkts(out[i]), Pkts(cache[k]))
    /\ \A g \in Goroutines : Before(Pkts(msg), Pkts(sending[g]))
    /\ \A k \in Keys : Before(Pkts(msg), Pkts(cache[k]))
    /\ \A g \in Goroutines, k \in Keys : Before(Pkts(sending[g]), Pkts(cache[k]))
    /\ \A k, l \in Keys : k # l => Before(Pkts(cache[k]), Pkts(cache[l]))
    /\ \A k \in Keys : \A p \in Pkts(cache[k]) : p.key = k
    /\ Upto(Pkts(msg), Inserted)
    /\ \A g \in Goroutines : Upto(Pkts(sending[g]), Inserted)
    /\ \A k \in Keys : Upto(Pkts(cache[k]), Inserted)

(* Every captured packet is somewhere.                                     *)
Somewhere(n) ==
    \/ \E i \in DOMAIN out : n \in Numbers(out[i])
    \/ n \in Numbers(msg)
    \/ \E g \in Goroutines : n \in Numbers(sending[g])
    \/ \E k \in Keys : n \in Numbers(cache[k])
    \/ n = pkt.n
PlaceInv == \A n \in 1..seen : Somewhere(n)

(* A record is young enough for the next tick, or the tick is in the       *)
(* channel, or the exporter is on its way to the record.                   *)
ExpireInv ==
    ~slow /\ method # "file" =>
        \A e \in Exporters, k \in Present :
            /\ Older(e, k) <= 2 * Timeout(e)
            /\ \/ Older(e, k) + ticker[e] <= 2 * Timeout(e)
               \/ fired[e]
               \/ exp[e] \in {"lock", "scan", "send"} /\ k \in due[e]

IInv == TypeOK /\ MutexInv /\ OrderInv /\ PlaceInv /\ ExpireInv

-----------------------------------------------------------------------------

(* The actions that leave the packets where they are.                      *)
NoMove ==
    \/ EndOfFile \/ StopConsume \/ Tick \/ UNCHANGED vars
    \/ \E e \in Exporters : TickFires(e) \/ Lock(e) \/ Unlock(e) \/ StopExport(e)
    \/ PassIn \/ PassOut \/ CloseInput \/ Return

(* Next by what it does to the packets.                                    *)
LEMMA Cases ==
    ASSUME [Next]_vars
    PROVE  \/ Receive \/ Insert \/ SendOut \/ NoMove
           \/ \E e \in Exporters : ExportNext(e)
           \/ \E g \in Goroutines : TakeFlow(g)
  BY DEF Next, Exporter, NoMove

(* NoMove leaves all places alone.                                         *)
LEMMA NoMoveFrame ==
    ASSUME NoMove
    PROVE  UNCHANGED <<method, slow, seen, pkt, cache, sending, msg, out>>
  BY DEF NoMove, EndOfFile, StopConsume, Tick, vars, TickFires, Lock, Unlock, StopExport, PassIn,
         PassOut, CloseInput, Return, consVars, recVars, clockVars, runVars

(* The empty flow is a sequence of packets.                                *)
LEMMA EmptyFlow == NoFlow \in Seq(Packet) /\ DOMAIN NoFlow = {} /\ Len(NoFlow) = 0
  BY DEF NoFlow

(* No step leaves the types.                                               *)
LEMMA NextType ==
    ASSUME TypeOK, MutexInv, [Next]_vars
    PROVE  TypeOK'
<1>1. CASE Receive
  <2>0. seen' \in 0..MaxPackets /\ seen + 1 \in 1..MaxPackets /\ con' = "lock"
    BY <1>1, PacketsAssumption DEF TypeOK, Receive
  <2>1. pkt' \in Packet
    BY <1>1, <2>0 DEF Receive, Packet
  <2> QED
    BY <1>1, <2>0, <2>1 DEF TypeOK, Receive, recVars, clockVars, runVars
<1>2. CASE Insert
  <2> DEFINE k == pkt.key
             packets == Append(cache[k], pkt)
  <2>0. pkt \in Packet /\ pkt' = NoPacket
    BY <1>2 DEF Insert, MutexInv
  <2>1. k \in Keys /\ packets \in Seq(Packet)
    <3>1. k \in Keys
      BY <2>0 DEF Packet
    <3> QED
      BY <2>0, <3>1 DEF TypeOK
  <2>2. UNCHANGED <<method, slow, seen, ticker, fired, exp, run, msg, out, inClosed>>
    BY <1>2 DEF Insert, clockVars, runVars
  <2>3. CASE pkt.fin
    <3>1. Export("con", k, packets) /\ mutex' = "con" /\ con' = "send"
      BY <1>2, <2>3 DEF Insert
    <3> HIDE DEF k, packets
    <3>2. cache' \in [Keys -> Seq(Packet)] /\ sending' \in [Goroutines -> Seq(Packet)]
      BY <2>1, <3>1, EmptyFlow, Zenon DEF TypeOK, Export
    <3>3. first' \in [Keys -> 0..(2 * Active + 1)] /\ last' \in [Keys -> 0..(2 * Inactive + 1)]
      BY <2>1, <3>1, TimeoutsAssumption DEF TypeOK, Export
    <3>4. due' \in [Exporters -> SUBSET Keys]
      BY <3>1 DEF TypeOK, Export
    <3> QED
      BY <2>0, <2>2, <3>1, <3>2, <3>3, <3>4 DEF TypeOK, Goroutines
  <2>4. CASE ~pkt.fin
    <3>1. PICK stamp \in Stamps : Update(k, packets, stamp)
      BY <1>2, <2>4 DEF Insert
    <3>2. mutex' = "free" /\ con' = "recv"
      BY <1>2, <2>4 DEF Insert
    <3> HIDE DEF k, packets
    <3>3. cache' \in [Keys -> Seq(Packet)] /\ sending' = sending
      BY <2>1, <3>1, EmptyFlow DEF TypeOK, Update
    <3>4. first' \in [Keys -> 0..(2 * Active + 1)] /\ last' \in [Keys -> 0..(2 * Inactive + 1)]
      BY <2>1, <3>1, TimeoutsAssumption DEF TypeOK, Update
    <3>5. due' \in [Exporters -> SUBSET Keys]
      BY <2>1, <3>1 DEF TypeOK, Update
    <3> QED
      BY <2>0, <2>2, <3>2, <3>3, <3>4, <3>5 DEF TypeOK, Goroutines
  <2> QED
    BY <2>3, <2>4
<1>3. CASE SendOut
  <2>1. out' \in Seq(Seq(Packet)) /\ msg' \in Seq(Packet) /\ run' = "select"
    BY <1>3, EmptyFlow DEF SendOut, TypeOK
  <2> QED
    BY <1>3, <2>1 DEF SendOut, TypeOK, consVars, recVars, clockVars
<1>4. ASSUME NEW e \in Exporters, ExportNext(e) PROVE TypeOK'
  <2>1. PICK k \in due[e] \cap Present : Export(e, k, cache[k])
    BY <1>4 DEF ExportNext
  <2>2. k \in Keys /\ cache[k] \in Seq(Packet) /\ e \in Goroutines
    BY DEF Present, TypeOK, Goroutines
  <2>3. cache' \in [Keys -> Seq(Packet)] /\ sending' \in [Goroutines -> Seq(Packet)]
    BY <2>1, <2>2, EmptyFlow DEF TypeOK, Export
  <2>4. first' \in [Keys -> 0..(2 * Active + 1)] /\ last' \in [Keys -> 0..(2 * Inactive + 1)]
    BY <2>1, <2>2, TimeoutsAssumption DEF TypeOK, Export
  <2>5. due' \in [Exporters -> SUBSET Keys]
    BY <2>1 DEF TypeOK, Export
  <2> QED
    BY <1>4, <2>3, <2>4, <2>5, Zenon DEF TypeOK, ExportNext, consVars, clockVars, runVars
<1>5. ASSUME NEW g \in Goroutines, TakeFlow(g) PROVE TypeOK'
  <2>1. msg' \in Seq(Packet) /\ run' = "send" /\ sending' \in [Goroutines -> Seq(Packet)]
    BY <1>5, EmptyFlow DEF TakeFlow, TypeOK
  <2>2. con' \in {"recv", "lock", "send", "exited", "fatal"} /\ mutex' \in Goroutines \cup {"free"}
        /\ exp' \in [Exporters -> {"tick", "lock", "scan", "send", "exited"}]
    BY <1>5, Zenon DEF TakeFlow, TypeOK, Goroutines
  <2> QED
    BY <1>5, <2>1, <2>2 DEF TakeFlow, TypeOK, recVars, clockVars
<1>6. CASE NoMove
  <2>1. UNCHANGED <<method, slow, seen, pkt, cache, sending, msg, out>>
    BY <1>6, NoMoveFrame
  <2>2. con' \in {"recv", "lock", "send", "exited", "fatal"} /\ mutex' \in Goroutines \cup {"free"}
    BY <1>6 DEF NoMove, EndOfFile, StopConsume, Tick, vars, TickFires, Lock, Unlock, StopExport, PassIn,
         PassOut, CloseInput, Return, consVars, TypeOK, Goroutines
  <2>3. exp' \in [Exporters -> {"tick", "lock", "scan", "send", "exited"}]
    BY <1>6, Zenon DEF NoMove, EndOfFile, StopConsume, Tick, vars, TickFires, Lock, Unlock, StopExport, PassIn,
         PassOut, CloseInput, Return, TypeOK
  <2>4. run' \in {"select", "send", "pass", "exited"} /\ inClosed' \in BOOLEAN
    <3>1. /\ run' = run \/ run' \in {"select", "send", "pass", "exited"}
          /\ inClosed' = inClosed \/ inClosed' = TRUE
      BY <1>6, SMTT(30) DEF NoMove, EndOfFile, StopConsume, Tick, vars, TickFires, Lock, Unlock, StopExport,
                  PassIn, PassOut, CloseInput, Return, runVars
    <3> QED
      BY <3>1, Zenon DEF TypeOK
  <2>5. due' \in [Exporters -> SUBSET Keys]
    <3>1. due' = due \/ \E e \in Exporters, S \in SUBSET Keys : due' = [due EXCEPT ![e] = S]
      <4>1. \A e \in Exporters : {k \in Present : Older(e, k) > Timeout(e)} \in SUBSET Keys
        BY DEF Present
      <4>2. ASSUME NEW e \in Exporters, TickFires(e) \/ Unlock(e)
            PROVE  \E S \in SUBSET Keys : due' = [due EXCEPT ![e] = S]
        BY <4>1, <4>2 DEF TickFires, Unlock
      <4> QED
        BY <1>6, <4>2, Zenon DEF NoMove, EndOfFile, StopConsume, Tick, vars, Lock, StopExport, PassIn,
                          PassOut, CloseInput, Return
    <3> QED
      BY <3>1, Zenon DEF TypeOK
  <2>6. /\ first' \in [Keys -> 0..(2 * Active + 1)] /\ last' \in [Keys -> 0..(2 * Inactive + 1)]
        /\ \A e \in Exporters : ticker'[e] \in 1..Timeout(e)
        /\ fired' \in [Exporters -> BOOLEAN]
    <3>1. CASE Tick
      BY <3>1, TimeoutsAssumption, SMTT(30) DEF Tick, Older1, TypeOK, Timeout
    <3>2. CASE ~Tick
      <4>1. UNCHANGED <<first, last, ticker>> /\ \/ fired' = fired
                                                 \/ \E e \in Exporters : fired' = [fired EXCEPT ![e] = FALSE]
        BY <1>6, <3>2 DEF NoMove, EndOfFile, StopConsume, vars, TickFires, Lock, Unlock, StopExport, PassIn,
         PassOut, CloseInput, Return, recVars, clockVars
      <4> QED
        BY <4>1, Zenon DEF TypeOK
    <3> QED
      BY <3>1, <3>2
  <2> QED
    BY <2>1, <2>2, <2>3, <2>4, <2>5, <2>6, SMTT(30) DEF TypeOK
<1> QED
  BY <1>1, <1>2, <1>3, <1>4, <1>5, <1>6, Cases

(* The protocol of the mutex.                                              *)
LEMMA NextMutex ==
    ASSUME TypeOK, MutexInv, [Next]_vars
    PROVE  MutexInv'
<1> USE DEF MutexInv, Exporters, Goroutines
<1>1. CASE Receive
  <2>1. seen' = seen + 1 /\ pkt'.n = seen' /\ pkt' \in Packet
    <3>1. seen + 1 \in 1..MaxPackets
      BY <1>1, PacketsAssumption DEF TypeOK, Receive
    <3> QED
      BY <1>1, <3>1 DEF Receive, Packet
  <2> QED
    BY <1>1, <2>1 DEF Receive, recVars, clockVars, runVars
<1>2. CASE Insert
  <2>1. con = "lock" /\ mutex = "free" /\ pkt' = NoPacket /\ UNCHANGED <<exp, run, msg, seen>>
    BY <1>2 DEF Insert, runVars
  <2>2. \/ sending' = sending /\ con' = "recv"
        \/ con' = "send" /\ mutex' = "con" /\ \A e \in Exporters : sending'[e] = sending[e]
    BY <1>2 DEF Insert, Export, Update, TypeOK
  <2> QED
    BY <2>1, <2>2
<1>3. CASE SendOut
  BY <1>3 DEF SendOut, consVars
<1>4. ASSUME NEW e \in Exporters, ExportNext(e) PROVE MutexInv'
  <2>1. /\ UNCHANGED <<con, pkt, seen, mutex, run, msg>>
        /\ exp' = [exp EXCEPT ![e] = "send"] /\ exp[e] = "scan"
        /\ \A g \in Goroutines \ {e} : sending'[g] = sending[g]
    BY <1>4 DEF ExportNext, consVars, runVars, Export, TypeOK
  <2> QED
    BY <2>1 DEF TypeOK
<1>5. ASSUME NEW g \in Goroutines, TakeFlow(g) PROVE MutexInv'
  <2>1. /\ UNCHANGED <<pkt, seen>> /\ run' = "send"
        /\ sending[g] # NoFlow /\ sending'[g] = NoFlow
        /\ \A h \in Goroutines \ {g} : sending'[h] = sending[h]
    BY <1>5 DEF TakeFlow, TypeOK
  <2>2. CASE g = "con"
    BY <1>5, <2>1, <2>2 DEF TakeFlow
  <2>3. CASE g # "con"
    BY <1>5, <2>1, <2>3 DEF TakeFlow, TypeOK
  <2> QED
    BY <2>2, <2>3
<1>6. CASE NoMove
  <2>1. UNCHANGED <<seen, pkt, sending, msg>>
    BY <1>6, NoMoveFrame
  <2>2. CASE EndOfFile \/ StopConsume
    BY <2>1, <2>2 DEF EndOfFile, StopConsume, runVars
  <2>3. ASSUME NEW e \in Exporters, TickFires(e) \/ Lock(e) \/ Unlock(e) \/ StopExport(e)
        PROVE  MutexInv'
    BY <2>1, <2>3, Zenon DEF TickFires, Lock, Unlock, StopExport, consVars, runVars, TypeOK
  <2>4. CASE Tick \/ CloseInput \/ UNCHANGED vars
    BY <2>1, <2>4 DEF Tick, CloseInput, vars, consVars, runVars
  <2>5. CASE PassIn \/ PassOut \/ Return
    BY <2>1, <2>5 DEF PassIn, PassOut, Return, consVars, runVars
  <2> QED
    BY <1>6, <2>2, <2>3, <2>4, <2>5 DEF NoMove
<1> QED
  BY <1>1, <1>2, <1>3, <1>4, <1>5, <1>6, Cases

-----------------------------------------------------------------------------
(* Where the packets are.                                                  *)

(* The packets of a sequence, as a set.                                    *)
LEMMA PktsFacts ==
    ASSUME NEW s \in Seq(Packet)
    PROVE  /\ Pkts(s) \subseteq Packet
           /\ Numbers(s) = {p.n : p \in Pkts(s)}
           /\ \A x \in Packet : Pkts(Append(s, x)) = Pkts(s) \cup {x}
<1>1. Pkts(s) \subseteq Packet
  BY DEF Pkts
<1>2. Numbers(s) = {p.n : p \in Pkts(s)}
  BY DEF Pkts, Numbers
<1>3. ASSUME NEW x \in Packet PROVE Pkts(Append(s, x)) = Pkts(s) \cup {x}
  <2>1. \A i \in DOMAIN s : i \in DOMAIN Append(s, x) /\ Append(s, x)[i] = s[i]
    OBVIOUS
  <2>2. Len(s) + 1 \in DOMAIN Append(s, x) /\ Append(s, x)[Len(s) + 1] = x
    OBVIOUS
  <2>3. \A i \in DOMAIN Append(s, x) : i \in DOMAIN s \/ i = Len(s) + 1
    OBVIOUS
  <2> QED
    BY <2>1, <2>2, <2>3 DEF Pkts
<1> QED
  BY <1>1, <1>2, <1>3

(* There is no packet in the empty flow.                                   *)
LEMMA NoPkts == Pkts(NoFlow) = {} /\ Numbers(NoFlow) = {}
  BY EmptyFlow DEF Pkts, Numbers

(* No packets are before, after and up to anything.                        *)
LEMMA NothingBefore == \A A, n : Before(A, {}) /\ Before({}, A) /\ Upto({}, n)
  BY DEF Before, Upto

(* A bound may grow.                                                       *)
LEMMA UptoMore == \A A \in SUBSET Packet, m \in Nat : Upto(A, m) => Upto(A, m + 1)
  BY DEF Upto, Packet

(* The packet at hand comes after all that have been inserted.             *)
LEMMA NewIsLast ==
    ASSUME NEW m \in Nat, NEW p \in Packet, p.n = m + 1, NEW A \in SUBSET Packet, Upto(A, m), NEW C
    PROVE  /\ Before(A, C) => Before(A, C \cup {p})
           /\ Before(C, A) /\ (\A q \in A : q.key # p.key) => Before(C \cup {p}, A)
<1>1. \A q \in A : q.n \in Nat /\ q.n < p.n /\ q.n # p.n
  BY DEF Upto, Packet
<1> QED
  BY <1>1 DEF Before

(* The places are sets of packets.                                         *)
LEMMA PlacesType ==
    ASSUME TypeOK
    PROVE  /\ \A i \in DOMAIN out : Pkts(out[i]) \in SUBSET Packet
           /\ Pkts(msg) \in SUBSET Packet
           /\ \A g \in Goroutines : Pkts(sending[g]) \in SUBSET Packet
           /\ \A k \in Keys : Pkts(cache[k]) \in SUBSET Packet
<1>1. /\ msg \in Seq(Packet) /\ out \in Seq(Seq(Packet))
      /\ \A g \in Goroutines : sending[g] \in Seq(Packet)
      /\ \A k \in Keys : cache[k] \in Seq(Packet)
  BY Zenon DEF TypeOK
<1> QED
  BY <1>1, PktsFacts

(* The packets `new` of a key become its record, or the flow h sends.      *)
LEMMA OrderMoved ==
    ASSUME OrderInv, UNCHANGED <<msg, out>>, NEW k \in Keys, NEW h \in Goroutines, NEW new,
           \A i \in DOMAIN out : Before(Pkts(out[i]), new) /\ Upto(Pkts(out[i]), Inserted'),
           Before(Pkts(msg), new), Upto(Pkts(msg), Inserted'),
           \A l \in Keys \ {k} : /\ Before(Pkts(cache[l]), new) /\ Before(new, Pkts(cache[l]))
                                 /\ Pkts(cache'[l]) = Pkts(cache[l])
                                 /\ Upto(Pkts(cache[l]), Inserted'),
           Upto(new, Inserted'), \A p \in new : p.key = k,
           \A g \in Goroutines \ {h} : Pkts(sending'[g]) = {},
           \/ Pkts(cache'[k]) = new /\ Pkts(sending'[h]) = {}
           \/ Pkts(cache'[k]) = {} /\ Pkts(sending'[h]) = new
    PROVE  OrderInv'
<1>1. \A l \in Keys : \/ Pkts(cache'[l]) = {} \/ (l = k /\ Pkts(cache'[l]) = new)
                      \/ (l # k /\ Pkts(cache'[l]) = Pkts(cache[l]))
  OBVIOUS
<1>2. \A g \in Goroutines : \/ Pkts(sending'[g]) = {}
                            \/ (Pkts(sending'[g]) = new /\ Pkts(cache'[k]) = {})
  BY Zenon
<1>3. ASSUME NEW i \in DOMAIN out'
      PROVE  /\ Before(Pkts(out'[i]), Pkts(msg')) /\ Upto(Pkts(out'[i]), Inserted')
             /\ \A g \in Goroutines : Before(Pkts(out'[i]), Pkts(sending'[g]))
             /\ \A l \in Keys : Before(Pkts(out'[i]), Pkts(cache'[l]))
  BY <1>1, <1>2, NothingBefore, ZenonT(30) DEF OrderInv
<1>4. /\ Upto(Pkts(msg'), Inserted')
      /\ \A g \in Goroutines : Before(Pkts(msg'), Pkts(sending'[g]))
      /\ \A l \in Keys : Before(Pkts(msg'), Pkts(cache'[l]))
  BY <1>1, <1>2, NothingBefore, ZenonT(30) DEF OrderInv
<1>5. ASSUME NEW g \in Goroutines, NEW l \in Keys
      PROVE  /\ Before(Pkts(sending'[g]), Pkts(cache'[l]))
             /\ Upto(Pkts(sending'[g]), Inserted') /\ Upto(Pkts(cache'[l]), Inserted')
             /\ \A p \in Pkts(cache'[l]) : p.key = l
  BY <1>1, <1>2, NothingBefore, ZenonT(30) DEF OrderInv
<1>6. ASSUME NEW l \in Keys, NEW m \in Keys, l # m
      PROVE  Before(Pkts(cache'[l]), Pkts(cache'[m]))
  BY <1>1, <1>6, NothingBefore, ZenonT(30) DEF OrderInv
<1>7. \A i, j \in DOMAIN out' : i < j => Before(Pkts(out'[i]), Pkts(out'[j]))
  BY DEF OrderInv
<1> QED
  BY <1>3, <1>4, <1>5, <1>6, <1>7, Zenon DEF OrderInv

(* A packet only moves from a place to the next one.                       *)
LEMMA NextOrder ==
    ASSUME TypeOK, MutexInv, OrderInv, [Next]_vars
    PROVE  OrderInv'
<1>1. CASE Receive
  <2>1. UNCHANGED <<cache, sending, msg, out, Inserted>>
    BY <1>1 DEF Receive, recVars, runVars, Inserted, TypeOK
  <2> QED
    BY <2>1, Zenon DEF OrderInv
<1>2. CASE Insert
  <2> DEFINE k == pkt.key
             packets == Append(cache[k], pkt)
             new == Pkts(cache[k]) \cup {pkt}
  <2>1. /\ con = "lock" /\ pkt \in Packet /\ pkt.n = seen /\ mutex = "free"
        /\ UNCHANGED <<msg, out, seen>> /\ con' # "lock"
    BY <1>2 DEF Insert, MutexInv, runVars
  <2>2. k \in Keys /\ Pkts(packets) = new /\ cache[k] \in Seq(Packet)
    <3>1. k \in Keys
      BY <2>1 DEF Packet
    <3> QED
      BY <2>1, <3>1, PktsFacts DEF TypeOK
  <2>3. Inserted \in Nat /\ Inserted' = Inserted + 1 /\ pkt.n = Inserted + 1
    BY <2>1 DEF Inserted, Packet
  <2>4. \A g \in Goroutines : sending[g] = NoFlow
    BY <2>1, Zenon DEF MutexInv, Goroutines, Exporters
  <2>5. /\ \A i \in DOMAIN out : Before(Pkts(out[i]), new)
        /\ Before(Pkts(msg), new)
        /\ \A l \in Keys : l # k => Before(Pkts(cache[l]), new) /\ Before(new, Pkts(cache[l]))
    BY <2>1, <2>2, <2>3, NewIsLast, PlacesType, Zenon DEF OrderInv
  <2>6. /\ Upto(new, Inserted') /\ \A p \in new : p.key = k
    BY <2>1, <2>2, <2>3, UptoMore, PlacesType, SMTT(30) DEF OrderInv, Upto, Packet
  <2>7. /\ \A i \in DOMAIN out : Upto(Pkts(out[i]), Inserted')
        /\ Upto(Pkts(msg), Inserted')
        /\ \A l \in Keys : Upto(Pkts(cache[l]), Inserted')
    BY <2>3, UptoMore, PlacesType, Zenon DEF OrderInv
  <2>8. CASE pkt.fin
    <3>1. /\ Pkts(cache'[k]) = {} /\ \A l \in Keys : l # k => Pkts(cache'[l]) = Pkts(cache[l])
          /\ Pkts(sending'["con"]) = new /\ \A g \in Exporters : Pkts(sending'[g]) = {}
      <4>1. Export("con", k, packets)
        BY <1>2, <2>8 DEF Insert
      <4>2. /\ cache'[k] = NoFlow /\ \A l \in Keys : l # k => cache'[l] = cache[l]
            /\ sending'["con"] = packets /\ \A g \in Exporters : sending'[g] = NoFlow
        BY <2>2, <2>4, <4>1, Zenon DEF Export, TypeOK, Goroutines, Exporters
      <4> QED
        BY <2>2, <4>2, NoPkts
    <3> HIDE DEF k, new, packets
    <3>2. "con" \in Goroutines /\ Goroutines \ {"con"} \subseteq Exporters
      BY DEF Goroutines
    <3> QED
      BY <2>1, <2>2, <2>5, <2>6, <2>7, <3>1, <3>2, OrderMoved, ZenonT(30)
  <2>9. CASE ~pkt.fin
    <3>1. /\ Pkts(cache'[k]) = new /\ \A l \in Keys : l # k => Pkts(cache'[l]) = Pkts(cache[l])
          /\ \A g \in Goroutines : Pkts(sending'[g]) = {}
      <4>1. \E stamp : Update(k, packets, stamp)
        BY <1>2, <2>9 DEF Insert
      <4>2. /\ cache'[k] = packets /\ \A l \in Keys : l # k => cache'[l] = cache[l]
            /\ sending' = sending
        BY <2>2, <4>1 DEF Update, TypeOK
      <4> QED
        BY <2>2, <2>4, <4>2, NoPkts
    <3> HIDE DEF k, new, packets
    <3>2. /\ "con" \in Goroutines /\ Pkts(sending'["con"]) = {}
          /\ \A g \in Goroutines \ {"con"} : Pkts(sending'[g]) = {}
      BY <3>1 DEF Goroutines
    <3> QED
      BY <2>1, <2>2, <2>5, <2>6, <2>7, <3>1, <3>2, OrderMoved, ZenonT(30)
  <2> QED
    BY <2>8, <2>9
<1>3. CASE SendOut
  <2>1. UNCHANGED <<cache, sending, Inserted>> /\ msg' = NoFlow /\ out' = Append(out, msg)
    BY <1>3 DEF SendOut, recVars, consVars, Inserted
  <2>2. /\ DOMAIN out' = DOMAIN out \cup {Len(out) + 1}
        /\ \A i \in DOMAIN out : out'[i] = out[i] /\ i < Len(out) + 1 /\ ~(Len(out) + 1 < i)
        /\ out'[Len(out) + 1] = msg /\ ~(Len(out) + 1 < Len(out) + 1)
    BY <2>1 DEF TypeOK
  <2>3. Pkts(msg') = {}
    BY <2>1, NoPkts
  <2> QED
    BY <2>1, <2>2, <2>3, NothingBefore, ZenonT(30) DEF OrderInv
<1>4. ASSUME NEW e \in Exporters, ExportNext(e) PROVE OrderInv'
  <2>1. PICK k \in Present : Export(e, k, cache[k])
    BY <1>4 DEF ExportNext
  <2>2. UNCHANGED <<msg, out, Inserted>> /\ exp[e] = "scan" /\ k \in Keys
    BY <1>4 DEF ExportNext, consVars, runVars, Inserted, Present
  <2>3. \A g \in Goroutines : sending[g] = NoFlow
    BY <2>2 DEF MutexInv, Goroutines, Exporters
  <2>4. /\ cache'[k] = NoFlow /\ \A l \in Keys : l # k => cache'[l] = cache[l]
        /\ sending'[e] = cache[k] /\ \A g \in Goroutines : g # e => sending'[g] = NoFlow
    BY <2>1, <2>2, <2>3, Zenon DEF Export, TypeOK, Goroutines
  <2>5. /\ Pkts(cache'[k]) = {} /\ \A l \in Keys : l # k => Pkts(cache'[l]) = Pkts(cache[l])
        /\ Pkts(sending'[e]) = Pkts(cache[k])
        /\ \A g \in Goroutines : g # e => Pkts(sending'[g]) = {}
    BY <2>4, NoPkts, Zenon
  <2> QED
    <3> DEFINE new == Pkts(cache[k])
    <3>1. e \in Goroutines
      BY Zenon DEF Goroutines
    <3>2. /\ \A i \in DOMAIN out : Before(Pkts(out[i]), new) /\ Upto(Pkts(out[i]), Inserted')
          /\ Before(Pkts(msg), new) /\ Upto(Pkts(msg), Inserted')
          /\ Upto(new, Inserted') /\ \A p \in new : p.key = k
      BY <2>2, Zenon DEF OrderInv
    <3>3. \A l \in Keys \ {k} : /\ Before(Pkts(cache[l]), new) /\ Before(new, Pkts(cache[l]))
                                /\ Pkts(cache'[l]) = Pkts(cache[l]) /\ Upto(Pkts(cache[l]), Inserted')
      BY <2>2, <2>5 DEF OrderInv
    <3> HIDE DEF new
    <3>4. /\ \A g \in Goroutines \ {e} : Pkts(sending'[g]) = {}
          /\ Pkts(cache'[k]) = {} /\ Pkts(sending'[e]) = new
      BY <2>5 DEF new
    <3> QED
      BY <2>2, <3>1, <3>2, <3>3, <3>4, OrderMoved
<1>5. ASSUME NEW g \in Goroutines, TakeFlow(g) PROVE OrderInv'
  <2>1. UNCHANGED <<cache, out, seen>> /\ msg' = sending[g] /\ sending[g] # NoFlow
        /\ sending' = [sending EXCEPT ![g] = NoFlow] /\ run = "select"
    BY <1>5 DEF TakeFlow, recVars
  <2>2. Inserted' = Inserted
    BY <1>5, <2>1 DEF TakeFlow, Inserted, MutexInv
  <2>3. \A h \in Goroutines : h # g => sending[h] = NoFlow
    BY <2>1 DEF MutexInv, Goroutines, Exporters
  <2>4. \A h \in Goroutines : Pkts(sending'[h]) = {}
    BY <2>1, <2>3, NoPkts DEF TypeOK
  <2> QED
    BY <2>1, <2>2, <2>4, NothingBefore, ZenonT(30) DEF OrderInv
<1>6. CASE NoMove
  <2>1. UNCHANGED <<cache, sending, msg, out, seen, pkt>>
    BY <1>6, NoMoveFrame, SMTT(30)
  <2>2. Inserted' = Inserted
    BY <1>6, <2>1 DEF NoMove, EndOfFile, StopConsume, Tick, vars, TickFires, Lock, Unlock, StopExport, PassIn,
         PassOut, CloseInput, Return, consVars, Inserted
  <2> QED
    BY <2>1, <2>2, ZenonT(30) DEF OrderInv
<1> QED
  BY <1>1, <1>2, <1>3, <1>4, <1>5, <1>6, Cases

(* Packets are not lost on the way.                                        *)
LEMMA NextPlace ==
    ASSUME TypeOK, MutexInv, PlaceInv, [Next]_vars
    PROVE  PlaceInv'
<1>0. /\ msg \in Seq(Packet) /\ out \in Seq(Seq(Packet)) /\ seen \in Nat
      /\ \A g \in Goroutines : sending[g] \in Seq(Packet)
      /\ \A k \in Keys : cache[k] \in Seq(Packet)
  BY DEF TypeOK
<1>a. con # "lock" => pkt.n = 0
  BY DEF MutexInv, NoPacket
<1>1. CASE Receive
  <2>1. UNCHANGED <<cache, sending, msg, out>> /\ con # "lock" /\ seen' = seen + 1 /\ pkt'.n = seen + 1
    BY <1>1 DEF Receive, recVars, runVars
  <2>2. ASSUME NEW n \in 1..seen' PROVE Somewhere(n)'
    <3>1. CASE n = seen + 1
      BY <2>1, <3>1 DEF Somewhere
    <3>2. CASE n # seen + 1
      <4>1. n \in 1..seen /\ n # pkt.n
        BY <1>0, <1>a, <2>1, <3>2
      <4>2. Somewhere(n)
        BY <4>1 DEF PlaceInv
      <4> QED
        BY <2>1, <4>1, <4>2 DEF Somewhere
    <3> QED
      BY <3>1, <3>2
  <2> QED
    BY <2>2 DEF PlaceInv
<1>2. CASE Insert
  <2> DEFINE k == pkt.key
             packets == Append(cache[k], pkt)
  <2>1. /\ pkt \in Packet /\ mutex = "free" /\ UNCHANGED <<msg, out, seen>>
    BY <1>2 DEF Insert, MutexInv, runVars
  <2>2. k \in Keys
    BY <2>1 DEF Packet
  <2>3. Numbers(packets) = Numbers(cache[k]) \cup {pkt.n}
    <3>1. packets \in Seq(Packet) /\ Pkts(packets) = Pkts(cache[k]) \cup {pkt}
      BY <1>0, <2>1, <2>2, PktsFacts
    <3>2. Numbers(packets) = {p.n : p \in Pkts(packets)}
      BY <3>1, PktsFacts, Zenon
    <3>3. Numbers(cache[k]) = {p.n : p \in Pkts(cache[k])}
      BY <1>0, <2>2, PktsFacts
    <3> QED
      BY <3>1, <3>2, <3>3
  <2>4. \A g \in Goroutines : sending[g] = NoFlow
    BY <2>1 DEF MutexInv, Goroutines, Exporters
  <2>5. /\ \A l \in Keys \ {k} : cache'[l] = cache[l]
        /\ cache'[k] = packets \/ \E g \in Goroutines : sending'[g] = packets
    <3>1. CASE pkt.fin
      <4>1. Export("con", k, packets)
        BY <1>2, <3>1 DEF Insert
      <4> QED
        BY <2>2, <4>1, Zenon DEF Export, TypeOK, Goroutines
    <3>2. CASE ~pkt.fin
      <4>1. \E stamp : Update(k, packets, stamp)
        BY <1>2, <3>2 DEF Insert
      <4> QED
        BY <2>2, <4>1, ZenonT(30) DEF Update, TypeOK
    <3> QED
      BY <3>1, <3>2
  <2> HIDE DEF k, packets
  <2>6. ASSUME NEW n \in 1..seen PROVE Somewhere(n)'
    <3>1. Somewhere(n)
      BY Zenon DEF PlaceInv
    <3>2. n \in Numbers(packets) => Somewhere(n)'
      BY <2>2, <2>5 DEF Somewhere
    <3>3. ~(\E g \in Goroutines : n \in Numbers(sending[g]))
      BY <2>4, NoPkts, Zenon
    <3> QED
      BY <2>1, <2>2, <2>3, <2>5, <3>1, <3>2, <3>3 DEF Somewhere
  <2> QED
    BY <2>1, <2>6 DEF PlaceInv
<1>3. CASE SendOut
  <2>1. UNCHANGED <<cache, sending, pkt, seen>> /\ out' = Append(out, msg)
    BY <1>3 DEF SendOut, recVars, consVars
  <2>2. /\ \A i \in DOMAIN out : i \in DOMAIN out' /\ out'[i] = out[i]
        /\ Len(out) + 1 \in DOMAIN out' /\ out'[Len(out) + 1] = msg
    BY <1>0, <2>1
  <2> QED
    BY <2>1, <2>2 DEF PlaceInv, Somewhere
<1>4. ASSUME NEW e \in Exporters, ExportNext(e) PROVE PlaceInv'
  <2>1. PICK k \in Present : Export(e, k, cache[k])
    BY <1>4 DEF ExportNext
  <2>2. UNCHANGED <<msg, out, pkt, seen>> /\ k \in Keys /\ e \in Goroutines /\ exp[e] = "scan"
    BY <1>4 DEF ExportNext, consVars, runVars, Present, Goroutines
  <2>3. /\ \A l \in Keys : l # k => cache'[l] = cache[l]
        /\ sending'[e] = cache[k] /\ \A g \in Goroutines : g # e => sending'[g] = sending[g]
    BY <2>1, <2>2 DEF Export, TypeOK
  <2>4. Numbers(sending[e]) = {}
    BY <2>2, NoPkts DEF MutexInv
  <2> QED
    BY <2>2, <2>3, <2>4, Zenon DEF PlaceInv, Somewhere
<1>5. ASSUME NEW g \in Goroutines, TakeFlow(g) PROVE PlaceInv'
  <2>1. UNCHANGED <<cache, out, seen, pkt>> /\ msg' = sending[g] /\ run = "select"
        /\ \A h \in Goroutines : h # g => sending'[h] = sending[h]
    BY <1>5, Zenon DEF TakeFlow, recVars, TypeOK
  <2>2. Numbers(msg) = {}
    BY <2>1, NoPkts DEF MutexInv
  <2> QED
    BY <2>1, <2>2 DEF PlaceInv, Somewhere
<1>6. CASE NoMove
  BY <1>6, NoMoveFrame DEF PlaceInv, Somewhere
<1> QED
  BY <1>1, <1>2, <1>3, <1>4, <1>5, <1>6, Cases

(* The invariant leaves one stage for each packet.                         *)
LEMMA OneStage ==
    ASSUME TypeOK, MutexInv, OrderInv, PlaceInv, NEW n \in 1..seen
    PROVE  \E s \in Stages(n) : Stages(n) = {s}
<1>0. /\ msg \in Seq(Packet) /\ out \in Seq(Seq(Packet)) /\ seen \in Nat
      /\ \A g \in Goroutines : sending[g] \in Seq(Packet)
      /\ \A k \in Keys : cache[k] \in Seq(Packet)
  BY SMTT(30) DEF TypeOK
<1> DEFINE at(s) == \E p \in Pkts(s) : p.n = n
<1>1. \A s \in Seq(Packet) : n \in Numbers(s) <=> at(s)
  BY PktsFacts, ZenonT(30)
<1>2. /\ \A i \in DOMAIN out : n \in Numbers(out[i]) <=> at(out[i])
      /\ n \in Numbers(msg) <=> at(msg)
      /\ \A g \in Goroutines : n \in Numbers(sending[g]) <=> at(sending[g])
      /\ \A k \in Keys : n \in Numbers(cache[k]) <=> at(cache[k])
  BY <1>0, <1>1, SMTT(30)
<1>3. ASSUME NEW x
      PROVE  x \in Stages(n) <=> \/ x \in DOMAIN out /\ at(out[x])
                                 \/ x = Len(out) + 1 /\ at(msg)
                                 \/ x = Len(out) + 2 /\ \E g \in Goroutines : at(sending[g])
                                 \/ x = Len(out) + 3 /\ \E k \in Keys : at(cache[k])
                                 \/ x = Len(out) + 4 /\ n = pkt.n
  <2> HIDE DEF at
  <2> QED
    BY <1>2, ZenonT(30) DEF Stages
<1>4. \A i, j \in DOMAIN out : at(out[i]) /\ at(out[j]) => i = j
  <2> SUFFICES ASSUME NEW i \in DOMAIN out, NEW j \in DOMAIN out, at(out[i]), at(out[j]), i # j
               PROVE  FALSE
    OBVIOUS
  <2>1. i < j \/ j < i
    BY <1>0, SMTT(30)
  <2> QED
    BY <2>1, SMTT(30) DEF OrderInv, Before
<1>5. \A i \in DOMAIN out : at(out[i]) => /\ ~at(msg) /\ \A g \in Goroutines : ~at(sending[g])
                                          /\ \A k \in Keys : ~at(cache[k])
  BY DEF OrderInv, Before
<1>6. at(msg) => (\A g \in Goroutines : ~at(sending[g])) /\ (\A k \in Keys : ~at(cache[k]))
  BY ZenonT(30) DEF OrderInv, Before
<1>7. \A g \in Goroutines, k \in Keys : ~(at(sending[g]) /\ at(cache[k]))
  <2> SUFFICES ASSUME NEW g \in Goroutines, NEW k \in Keys, at(sending[g]), at(cache[k])
               PROVE  FALSE
    OBVIOUS
  <2>1. Before(Pkts(sending[g]), Pkts(cache[k]))
    BY DEF OrderInv
  <2> QED
    BY <2>1, Zenon DEF Before
<1>8. n = pkt.n => /\ \A i \in DOMAIN out : ~at(out[i])
                   /\ ~at(msg) /\ \A g \in Goroutines : ~at(sending[g])
                   /\ \A k \in Keys : ~at(cache[k])
  <2> SUFFICES ASSUME n = pkt.n
               PROVE  \A A : Upto(A, Inserted) => \A p \in A : p.n # n
    BY DEF OrderInv
  <2>1. con = "lock" /\ n = seen
    BY SMTT(30) DEF MutexInv, NoPacket
  <2> QED
    BY <1>0, <2>1, SMTT(30) DEF Upto, Inserted
<1>9. \E x : x \in Stages(n)
  <2>1. Somewhere(n)
    BY DEF PlaceInv
  <2> HIDE DEF at
  <2> QED
    BY <1>2, <1>3, <2>1, Zenon DEF Somewhere
<1>10. PICK x : x \in Stages(n)
  BY <1>9
<1>11. \A y : y \in Stages(n) => y = x
  <2> HIDE DEF at
  <2> QED
    BY <1>3, <1>4, <1>5, <1>6, <1>7, <1>8, <1>10, SMTT(30)
<1>12. Stages(n) = {x}
  BY <1>10, <1>11
<1> QED
  BY <1>10, <1>12

(* Both timeouts are positive.                                             *)
LEMMA TimeoutType == \A e \in Exporters : Timeout(e) \in Nat \ {0}
  BY TimeoutsAssumption DEF Timeout

(* At the start nothing has been captured.                                 *)
LEMMA InitInv == Init => TypeOK /\ MutexInv /\ OrderInv /\ PlaceInv /\ ExpireInv
<1> SUFFICES ASSUME Init PROVE TypeOK /\ MutexInv /\ OrderInv /\ PlaceInv /\ ExpireInv
  OBVIOUS
<1>1. TypeOK
  <2>1. cache \in [Keys -> Seq(Packet)] /\ sending \in [Goroutines -> Seq(Packet)] /\ msg \in Seq(Packet)
    BY EmptyFlow DEF Init
  <2>2. first \in [Keys -> 0..(2 * Active + 1)] /\ last \in [Keys -> 0..(2 * Inactive + 1)]
    BY TimeoutsAssumption DEF Init
  <2>3. \A e \in Exporters : ticker[e] \in 1..Timeout(e)
    BY TimeoutType DEF Init
  <2>4. out \in Seq(Seq(Packet)) /\ fired \in [Exporters -> BOOLEAN] /\ due \in [Exporters -> SUBSET Keys]
    BY DEF Init
  <2>5. seen \in 0..MaxPackets /\ exp \in [Exporters -> {"tick", "lock", "scan", "send", "exited"}]
    BY PacketsAssumption DEF Init
  <2>6. method \in Methods /\ slow \in BOOLEAN /\ con = "recv" /\ pkt = NoPacket /\ mutex = "free"
        /\ run = "select" /\ inClosed \in BOOLEAN
    BY Zenon DEF Init
  <2> QED
    BY <2>1, <2>2, <2>3, <2>4, <2>5, <2>6 DEF TypeOK
<1>2. MutexInv
  BY DEF Init, MutexInv, Exporters, Goroutines
<1>3. /\ DOMAIN out = {} /\ Pkts(msg) = {} /\ \A g \in Goroutines : Pkts(sending[g]) = {}
      /\ \A k \in Keys : Pkts(cache[k]) = {}
  BY NoPkts DEF Init
<1>4. OrderInv
  BY <1>3, NothingBefore, Zenon DEF OrderInv
<1>5. PlaceInv
  BY DEF Init, PlaceInv
<1>6. Present = {}
  BY DEF Init, Present
<1> QED
  BY <1>1, <1>2, <1>4, <1>5, <1>6 DEF ExpireInv

(* The ages and the tickers.                                               *)
LEMMA NextExpire ==
    ASSUME TypeOK, MutexInv, ExpireInv, [Next]_vars
    PROVE  ExpireInv'
<1>0. method' = method /\ slow' = slow
  BY Cases, NoMoveFrame, Zenon DEF Receive, Insert, SendOut, ExportNext, TakeFlow
<1> SUFFICES ASSUME ~slow, method # "file", NEW e \in Exporters, NEW k \in Present'
             PROVE  /\ Older(e, k)' <= 2 * Timeout(e)
                    /\ \/ Older(e, k)' + ticker'[e] <= 2 * Timeout(e)
                       \/ fired'[e]
                       \/ exp'[e] \in {"lock", "scan", "send"} /\ k \in due'[e]
  BY <1>0 DEF ExpireInv
<1> DEFINE OnTime == /\ Older(e, k)' <= 2 * Timeout(e)
                     /\ \/ Older(e, k)' + ticker'[e] <= 2 * Timeout(e)
                        \/ fired'[e]
                        \/ exp'[e] \in {"lock", "scan", "send"} /\ k \in due'[e]
<1>a. /\ Timeout(e) \in Nat \ {0} /\ ticker[e] \in 1..Timeout(e)
      /\ exp \in [Exporters -> {"tick", "lock", "scan", "send", "exited"}]
      /\ fired \in [Exporters -> BOOLEAN]
      /\ due \in [Exporters -> SUBSET Keys]
      /\ k \in Keys
  BY TimeoutType DEF TypeOK, Present
<1>b. k \in Present => /\ Older(e, k) \in Nat
                       /\ Older(e, k) <= 2 * Timeout(e)
                       /\ \/ Older(e, k) + ticker[e] <= 2 * Timeout(e)
                          \/ fired[e]
                          \/ exp[e] \in {"lock", "scan", "send"} /\ k \in due[e]
  BY TimeoutsAssumption DEF ExpireInv, TypeOK, Present, Older
<1>1. CASE UNCHANGED <<cache, first, last, ticker, fired, exp, due>>
  BY <1>1, <1>b, Zenon DEF Present, Older
<1>2. CASE Insert
  <2> DEFINE j == pkt.key
             packets == Append(cache[j], pkt)
  <2>1. UNCHANGED <<ticker, fired, exp>> /\ j \in Keys
    <3>1. pkt \in Packet
      BY <1>2, ZenonT(30) DEF Insert, MutexInv
    <3> QED
      BY <1>2, <3>1 DEF Insert, clockVars, Packet
  <2>2. CASE pkt.fin
    <3>1. Export("con", j, packets)
      BY <1>2, <2>2, Zenon DEF Insert
    <3>2. k # j /\ k \in Present /\ Older(e, k)' = Older(e, k) /\ (k \in due'[e] <=> k \in due[e])
      BY <1>a, <2>1, <3>1, Zenon DEF Export, Present, Older, TypeOK
    <3> QED
      BY <1>b, <2>1, <3>2
  <2>3. CASE ~pkt.fin
    <3>1. PICK stamp \in Stamps : Update(j, packets, stamp)
      BY <1>2, <2>3 DEF Insert
    <3>2. stamp = "now"
      BY <3>1, Zenon DEF Stamps, TypeOK, Methods
    <3>3. CASE k # j \/ (e = "active" /\ j \in Present)
      <4>1. k \in Present /\ Older(e, k)' = Older(e, k) /\ (k \in due'[e] <=> k \in due[e])
        BY <1>a, <2>1, <3>1, <3>2, <3>3, Zenon DEF Update, Present, Older, TypeOK
      <4> QED
        BY <1>b, <2>1, <4>1, Zenon
    <3>4. CASE k = j /\ ~(e = "active" /\ j \in Present)
      <4>1. Older(e, k)' = 0
        BY <1>a, <2>1, <3>1, <3>2, <3>4, Zenon DEF Update, Older, TypeOK
      <4> QED
        BY <1>a, <2>1, <4>1, SMTT(30)
    <3> QED
      BY <3>3, <3>4
  <2> QED
    BY <2>2, <2>3
<1>3. ASSUME NEW f \in Exporters, ExportNext(f) PROVE OnTime
  <2>1. PICK j \in Present : Export(f, j, cache[j])
    BY <1>3, Zenon DEF ExportNext
  <2>2. /\ UNCHANGED <<ticker, fired>> /\ exp[f] = "scan" /\ exp' = [exp EXCEPT ![f] = "send"]
        /\ j \in Keys
    BY <1>3, Zenon DEF ExportNext, clockVars, Present
  <2>3. k # j /\ k \in Present /\ Older(e, k)' = Older(e, k) /\ (k \in due'[e] <=> k \in due[e])
    BY <1>a, <2>1, <2>2, Zenon DEF Export, Present, Older, TypeOK
  <2> QED
    BY <1>a, <1>b, <2>2, <2>3
<1>4. ASSUME NEW g \in Goroutines, TakeFlow(g) PROVE OnTime
  <2>1. /\ UNCHANGED <<cache, first, last, ticker, fired, due>>
        /\ exp' = exp \/ (g # "con" /\ exp' = [exp EXCEPT ![g] = "scan"])
    BY <1>4 DEF TakeFlow, recVars, clockVars
  <2>2. exp[e] \in {"lock", "scan", "send"} => exp'[e] \in {"lock", "scan", "send"}
    BY <1>a, <2>1, ZenonT(30) DEF Goroutines
  <2> QED
    BY <1>b, <2>1, <2>2 DEF Present, Older
<1>5. ASSUME NEW f \in Exporters, TickFires(f) PROVE OnTime
  <2>1. UNCHANGED <<cache, first, last, ticker>> /\ exp[f] = "tick"
        /\ exp' = [exp EXCEPT ![f] = "lock"] /\ fired' = [fired EXCEPT ![f] = FALSE]
        /\ due' = [due EXCEPT ![f] = {l \in Present : Older(f, l) > Timeout(f)}]
    BY <1>5, Zenon DEF TickFires, recVars
  <2>2. k \in Present /\ Older(e, k)' = Older(e, k)
    BY <2>1, Zenon DEF Present, Older
  <2>3. CASE e = f
    BY <1>a, <1>b, <2>1, <2>2, <2>3, SMTT(30)
  <2>4. CASE e # f
    BY <1>a, <1>b, <2>1, <2>2, <2>4, Zenon
  <2> QED
    BY <2>3, <2>4
<1>6. ASSUME NEW f \in Exporters, Lock(f) \/ StopExport(f) PROVE OnTime
  <2>1. UNCHANGED <<cache, first, last, ticker, fired, due>>
        /\ \/ exp[f] = "lock" /\ exp' = [exp EXCEPT ![f] = "scan"]
           \/ exp[f] = "tick" /\ exp' = [exp EXCEPT ![f] = "exited"]
    BY <1>6, Zenon DEF Lock, StopExport, recVars, clockVars
  <2>2. k \in Present /\ Older(e, k)' = Older(e, k)
    BY <2>1, Zenon DEF Present, Older
  <2> QED
    BY <1>a, <1>b, <2>1, <2>2
<1>7. ASSUME NEW f \in Exporters, Unlock(f) PROVE OnTime
  <2>1. UNCHANGED <<cache, first, last, ticker, fired>> /\ due[f] \cap Present = {}
        /\ due' = [due EXCEPT ![f] = {}] /\ exp' = [exp EXCEPT ![f] = "tick"]
    BY <1>7 DEF Unlock, recVars, clockVars
  <2>2. k \in Present /\ Older(e, k)' = Older(e, k)
    BY <2>1, ZenonT(30) DEF Present, Older
  <2> QED
    BY <1>a, <1>b, <2>1, <2>2
<1>8. CASE Tick
  <2>1. Idle /\ UNCHANGED <<cache, exp, due>>
    BY <1>8 DEF Tick
  <2>2. k \in Present /\ exp[e] = "tick" /\ ~fired[e]
    BY <2>1, ZenonT(30) DEF Present, Idle
  <2>3. Older(e, k)' = Older(e, k) + 1
    <3>1. Older(e, k) < 2 * Timeout(e) + 1
      BY <1>a, <1>b, <2>2, SMTT(30)
    <3> QED
      BY <1>8, <1>a, <2>2, <3>1 DEF Tick, Older, Older1, Timeout, Exporters
  <2>4. ticker'[e] = (IF ticker[e] = 1 THEN Timeout(e) ELSE ticker[e] - 1) /\ (ticker[e] = 1 => fired'[e])
    BY <1>8, Zenon DEF Tick
  <2> QED
    BY <1>a, <1>b, <2>2, <2>3, <2>4, SMTT(30)
<1>9. CASE Receive \/ SendOut \/ EndOfFile \/ StopConsume \/ PassIn \/ PassOut \/ CloseInput \/ Return
           \/ UNCHANGED vars
  BY <1>1, <1>9, Zenon DEF Receive, SendOut, EndOfFile, StopConsume, PassIn, PassOut, CloseInput, Return, vars,
                    recVars, clockVars
<1> QED
  BY <1>2, <1>3, <1>4, <1>5, <1>6, <1>7, <1>8, <1>9, Cases, Zenon DEF NoMove

(* Every step keeps the invariant.                                         *)
LEMMA InvStep == IInv /\ [Next]_vars => IInv'
  BY NextType, NextMutex, NextOrder, NextPlace, NextExpire DEF IInv

(* Every packet is in one place on its way to Out, and the flows of a key  *)
(* leave in the order of their packets, although three goroutines export   *)
(* and send them.                                                          *)
THEOREM ExportedOnceInOrder == Spec => []PacketsOnceInOrder
<1>1. IInv => PacketsOnceInOrder
  <2> SUFFICES ASSUME IInv PROVE PacketsOnceInOrder
    OBVIOUS
  <2>1. \A n \in 1..seen : \E s \in Stages(n) : Stages(n) = {s}
    BY OneStage DEF IInv
  <2>2. ASSUME NEW i \in DOMAIN out, NEW j \in DOMAIN out, i < j,
               NEW p \in DOMAIN out[i], NEW q \in DOMAIN out[j], out[i][p].key = out[j][q].key
        PROVE  out[i][p].n < out[j][q].n
    <3>1. out[i][p] \in Pkts(out[i]) /\ out[j][q] \in Pkts(out[j])
      BY DEF Pkts
    <3> QED
      BY <2>2, <3>1, Zenon DEF IInv, OrderInv, Before
  <2> QED
    BY <2>1, <2>2 DEF PacketsOnceInOrder, IInv
<1>2. Init => IInv
  BY InitInv, Zenon DEF IInv
<1> QED
  BY <1>1, <1>2, InvStep, PTL DEF Spec

(* While the next segment keeps up, no record outlives twice its timeouts. *)
THEOREM CacheExpires == Spec => []RecordsExpire
<1>1. IInv => RecordsExpire
  BY DEF IInv, ExpireInv, RecordsExpire, Older, Timeout, Exporters
<1>2. Init => IInv
  BY InitInv DEF IInv
<1> QED
  BY <1>1, <1>2, InvStep, PTL DEF Spec
-----------------------------------------------------------------------------
(* The mutex.                                                              *)

(* Whoever holds the mutex is at a place where it can go on, and the       *)
(* process ends only after Run has returned.                               *)
HolderInv ==
    /\ mutex = "con" => con = "send" /\ sending["con"] # NoFlow
    /\ \A e \in Exporters :
          mutex = e => exp[e] = "scan" \/ (exp[e] = "send" /\ sending[e] # NoFlow)
    /\ con = "fatal" => run = "exited"

(* Every step keeps HolderInv: a record in the cache has a packet, so what *)
(* is exported is a flow, and Run gives the mutex back with ConsumeFrom's. *)
LEMMA NextHolder ==
    ASSUME TypeOK, MutexInv, HolderInv, [Next]_vars
    PROVE  HolderInv'
<1> USE DEF HolderInv, Exporters, Goroutines
<1>1. CASE Receive
  BY <1>1 DEF Receive, runVars
<1>2. CASE Insert
  <2>1. /\ con = "lock" /\ mutex = "free"
        /\ \/ con' = "send" /\ mutex' = "con"
           \/ con' = "recv" /\ mutex' = "free"
    BY <1>2 DEF Insert
  <2>2. ASSUME mutex' = "con" PROVE sending'["con"] # NoFlow
    <3>1. pkt \in Packet /\ cache[pkt.key] \in Seq(Packet)
      <4>1. pkt \in Packet
        BY <2>1 DEF MutexInv
      <4>2. pkt.key \in Keys
        BY <4>1 DEF Packet
      <4>3. cache \in [Keys -> Seq(Packet)]
        BY Zenon DEF TypeOK
      <4> QED
        BY <4>1, <4>2, <4>3, Zenon
    <3>2. sending'["con"] = Append(cache[pkt.key], pkt)
      <4>1. Export("con", pkt.key, Append(cache[pkt.key], pkt))
        BY <1>2, <2>2 DEF Insert
      <4>2. sending \in [Goroutines -> Seq(Packet)]
        BY Zenon DEF TypeOK
      <4> QED
        BY <4>1, <4>2 DEF Export
    <3> QED
      BY <3>1, <3>2 DEF NoFlow
  <2> QED
    BY <2>1, <2>2
<1>3. CASE SendOut
  BY <1>3 DEF SendOut, consVars
<1>4. ASSUME NEW e \in Exporters, ExportNext(e) PROVE HolderInv'
  <2>1. exp[e] = "scan" /\ mutex = e /\ UNCHANGED <<con, mutex, run>>
    BY <1>4 DEF ExportNext, consVars, runVars, MutexInv
  <2>2. exp'[e] = "send" /\ sending'[e] # NoFlow
    BY <1>4 DEF ExportNext, Export, Present, TypeOK
  <2> QED
    BY <2>1, <2>2
<1>5. ASSUME NEW g \in Goroutines, TakeFlow(g) PROVE HolderInv'
  <2>1. CASE g = "con"
    BY <1>5, <2>1 DEF TakeFlow
  <2>2. CASE g # "con"
    <3>1. mutex = g /\ run = "select" /\ UNCHANGED <<con, mutex>> /\ exp'[g] = "scan"
      BY <1>5, <2>2 DEF TakeFlow, MutexInv, TypeOK
    <3> QED
      BY <2>2, <3>1
  <2> QED
    BY <2>1, <2>2
<1>6. CASE NoMove
  <2>1. UNCHANGED sending
    BY <1>6, NoMoveFrame
  <2>2. CASE EndOfFile \/ StopConsume
    BY <2>1, <2>2 DEF EndOfFile, StopConsume, runVars
  <2>3. ASSUME NEW e \in Exporters, TickFires(e) \/ Lock(e) \/ Unlock(e) \/ StopExport(e)
        PROVE  HolderInv'
    <3>1. UNCHANGED <<con, run>>
      BY <2>3 DEF TickFires, Lock, Unlock, StopExport, consVars, runVars
    <3>2. CASE TickFires(e) \/ StopExport(e)
      BY <2>1, <3>1, <3>2 DEF TickFires, StopExport, TypeOK
    <3>3. CASE Lock(e)
      BY <2>1, <3>1, <3>3 DEF Lock, TypeOK
    <3>4. CASE Unlock(e)
      BY <2>1, <3>1, <3>4 DEF Unlock
    <3> QED
      BY <2>3, <3>2, <3>3, <3>4
  <2>4. CASE Tick \/ CloseInput \/ UNCHANGED vars
    BY <2>1, <2>4 DEF Tick, CloseInput, vars, consVars, runVars
  <2>5. CASE PassIn \/ PassOut \/ Return
    BY <2>1, <2>5 DEF PassIn, PassOut, Return, consVars
  <2> QED
    BY <1>6, <2>2, <2>3, <2>4, <2>5 DEF NoMove
<1> QED
  BY <1>1, <1>2, <1>3, <1>4, <1>5, <1>6, Cases

(* Until Run has returned, whoever holds the mutex of the cache can go on, *)
(* although it sends with the mutex held.                                  *)
THEOREM CacheNeverStuck == Spec => []HolderNeverStuck
<1>1. TypeOK /\ HolderInv => HolderNeverStuck
  BY DEF TypeOK, HolderInv, HolderNeverStuck, Exporters, Goroutines
<1>2. Init => IInv /\ HolderInv
  BY InitInv DEF Init, IInv, HolderInv, Exporters
<1>3. IInv /\ HolderInv /\ [Next]_vars => IInv' /\ HolderInv'
  BY InvStep, NextHolder DEF IInv
<1>4. IInv => TypeOK
  BY DEF IInv
<1> QED
  BY <1>1, <1>2, <1>3, <1>4, PTL DEF Spec
===============================================================================
